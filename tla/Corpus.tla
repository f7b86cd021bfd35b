------------------------------- MODULE Corpus -------------------------------
(***************************************************************************)
(* The corpus under tests/spec: a case file and the fixtures beside it, as *)
(* Case::load reads them, `spec record` writes them, `spec lint` checks    *)
(* them and the runner compares them with what fredshell does.             *)
(*                                                                         *)
(* A case is named by its path. file[c] is the case file; beside[c] is     *)
(* what stands next to it, the contents of three sidecars and whether      *)
(* there is a skeleton directory. Byte strings are strings.                *)
(***************************************************************************)
EXTENDS Verdict, FiniteSets

CONSTANTS
  Cases,      \* the paths that may hold a case
  Category,   \* the first segment of each
  Scripts,    \* the scripts a case may have
  Cut         \* what a write cut short may leave of each contents, besides nothing

Streams == {"stdout", "stderr", "exit"}
NoFile  == "no file"

NoCase == [there |-> FALSE, schema |-> TRUE, status |-> Pass, script |-> "no script"]

Bare == [stdout |-> NoFile, stderr |-> NoFile, exit |-> NoFile, fs |-> NoFile]

(* The cases the three walks find; they do not look into .fs directories.   *)
CorpusCases(file) == {c \in Cases : file[c].there}

-----------------------------------------------------------------------------
(* Case::load                                                               *)

ExitCodes == {"0", "1", "12", "127"}

(* A missing sidecar stands for the default.                                *)
ReadBytes(content) == IF content = NoFile THEN "" ELSE content

ReadExit(content) == IF content = NoFile THEN "0" ELSE content

(* An exit fixture must be a number: an empty one is not.                   *)
Loads(file, beside, c) ==
  /\ file[c].there
  /\ file[c].schema
  /\ StatusParses(file[c].status)
  /\ ReadExit(beside[c].exit) \in ExitCodes

Expected(beside, c) ==
  [stdout |-> ReadBytes(beside[c].stdout),
   stderr |-> ReadBytes(beside[c].stderr),
   exit   |-> ReadExit(beside[c].exit)]

-----------------------------------------------------------------------------
(* spec record                                                              *)

(* A process ended by a signal has no code.                                 *)
RecordedExit(code) == IF code = "signal" THEN "127" ELSE code

Default(stream) == IF stream = "exit" THEN "0" ELSE ""

(* A mutant: a default is not written, and the file that is there stays.    *)
WriteOnly(stream, value, content) == IF value = Default(stream) THEN content ELSE value

(* What a sidecar of this content holds after write_or_remove: there is no  *)
(* file for a default, and an equal one is not written again.               *)
WriteOrRemove(stream, value, content) ==
  IF value = Default(stream) THEN NoFile ELSE value

(* What it may hold when that failed or was cut short: fs::write empties a  *)
(* file and then fills it, unless the contents are the same already. A      *)
(* number cut short may be a number.                                        *)
AfterFailedWrite(stream, value, content) ==
  IF value = Default(stream) \/ value = content THEN {content}
  ELSE {content, ""} \cup Cut[value]

-----------------------------------------------------------------------------
(* spec lint                                                                *)

Fixtures(beside) == {c \in Cases : beside[c] # Bare}

(* Every case loads; every fixture has its case.                            *)
SchemaViolations(file, beside) == {c \in CorpusCases(file) : ~Loads(file, beside, c)}
Orphans(file, beside) == Fixtures(beside) \ CorpusCases(file)

-----------------------------------------------------------------------------
(* The runner. A shell's result on a script: it ran, strict mode refused a  *)
(* line, or the executor failed.                                            *)

Compare(expected, result) ==
  IF /\ result.stdout = expected.stdout
     /\ result.stderr = expected.stderr
     /\ result.exit = expected.exit
  THEN "match" ELSE "mismatch"

RunFails(result) == result.how = "failed"

Outcome(beside, c, result) ==
  IF result.how = "refused" THEN "refused" ELSE Compare(Expected(beside, c), result)

CaseVerdict(file, beside, c, result) == Classify(file[c].status, Outcome(beside, c, result))

(* The exit status of `fredshell-spec-runner run`.                          *)
RunOne(file, beside, c, result) ==
  IF ~Loads(file, beside, c) THEN 64
  ELSE IF RunFails(result) THEN 70
  ELSE IF IsCiFailure(CaseVerdict(file, beside, c, result)) THEN 1 ELSE 0
=============================================================================
