----------------------------- MODULE Workspace -----------------------------
(***************************************************************************)
(* A checkout of fredshell and the tools that keep it honest against bash: *)
(* `cargo xtask spec record | lint | versions`, `check-specs`, `compat`    *)
(* and `pc`, and the macro refuse!, between the edits of a developer.      *)
(*                                                                         *)
(* The tools that only look and report are predicates of the checkout:     *)
(* LintOk, CheckSpecsOk, VersionsOk, PcOk. The developer does not edit     *)
(* while one runs. `spec record` writes several files, one after another,  *)
(* and may fail or be interrupted between and within them.                 *)
(***************************************************************************)
EXTENDS Corpus, Sheets, Reference

CONSTANTS
  SheetIds, SheetTexts,   \* the sheets and what may be written in them
  CallSites,              \* the refuse! calls the source may have
  CorpusPath,             \* the case a Corpus cell leads to
  CaseTexts, ReferenceTexts, FlakeRevs, ShellResults,  \* what else may be edited
  BashResult,             \* [Scripts -> [versions of bash -> result]]
  CompatFilters,          \* the filters `compat` is run with
  StartCases, StartShell, StartSheets, StartRev,       \* the clean checkout
  MaxEdits, MaxFailures   \* bounds

(* What may stand in a case file, what a run of bash may yield, and what    *)
(* may stand in REFERENCE.md.                                               *)
TextType ==
  [there : BOOLEAN, schema : BOOLEAN, status : StatusTexts, script : Scripts \cup {"no script"}]

CaseType == {t \in TextType : t.there => t.script \in Scripts}

IsResult(r) ==
  /\ r = [stdout |-> r.stdout, stderr |-> r.stderr, exit |-> r.exit]
  /\ NoFile \notin {r.stdout, r.stderr, r.exit}

IsReference(doc) ==
  /\ doc = [bash |-> doc.bash, coreutils |-> doc.coreutils,
            nixpkgs_rev |-> doc.nixpkgs_rev, nixpkgs_input |-> doc.nixpkgs_input]
  /\ doc.nixpkgs_input = "nixpkgs-reference"

ASSUME WorkspaceAssumption ==
  /\ IsFiniteSet(Cases) /\ NoFile \notin Cases
  /\ CaseTexts \subseteq CaseType /\ StartCases \in [Cases -> CaseType]
  /\ \A c \in Cases : CorpusPath[c] = c
  /\ \A s \in Scripts, r \in Revs : IsResult(BashResult[s][Ships[r].bash])
  /\ IsFiniteSet(SheetIds) /\ StartSheets \in [SheetIds -> SheetTexts]
  /\ \A site \in CallSites : site.sheet \in SheetIds
  /\ StartRev \in Revs /\ NoDevshell \notin Revs
  /\ \A doc \in ReferenceTexts : IsReference(doc)

ASSUME SheetsAssumption == \A text \in SheetTexts : text.lines \in Seq(Seq(STRING))

ASSUME BoundsAssumption == MaxEdits \in Nat /\ MaxFailures \in Nat

VARIABLES
  file, beside,       \* the corpus, as in module Corpus
  shell,              \* what fredshell does on each script, in strict mode
  sheets,             \* the spec sheets
  sites,              \* the refuse! calls of the source
  binary,             \* the last build: its refusals, and the files it depends on
  touched,            \* the files changed since that build
  reference, flake, devshell,
  compatMd,           \* COMPAT.md
  recording,          \* the `spec record` that is running
  recorded,           \* history: what bash did in the last completed recording
  edits, failures     \* bounds

corpusVars  == <<file, beside, recording, recorded>>
codeVars    == <<shell, sheets, sites, binary, touched>>
pinVars     == <<reference, flake, devshell>>
vars == <<corpusVars, codeVars, pinVars, compatMd, edits, failures>>

NoResult    == [stdout |-> NoFile, stderr |-> NoFile, exit |-> NoFile]
NoRecording == [case |-> NoFile, next |-> 1, result |-> NoResult]
NoBody      == [total |-> 0, passing |-> 0, of |-> 0, implemented |-> {},
                inProgress |-> [p \in Plans |-> {}]]

Init ==
  /\ file = StartCases
  /\ beside = [c \in Cases |-> Bare]
  /\ shell = StartShell
  /\ sheets = StartSheets
  /\ sites = {}
  /\ binary = [refusals |-> {}, inputs |-> {"source"}]
  /\ touched = {"source"}
  /\ reference = Pinned(StartRev)
  /\ flake = [i \in {"nixpkgs-reference"} |-> StartRev]
  /\ devshell = StartRev
  /\ compatMd = [state |-> "missing", body |-> NoBody]
  /\ recording = NoRecording
  /\ recorded = [c \in Cases |-> NoResult]
  /\ edits = 0
  /\ failures = 0

Idle == recording = NoRecording

-----------------------------------------------------------------------------
(* The developer                                                            *)

Edit ==
  /\ Idle
  /\ edits < MaxEdits
  /\ edits' = edits + 1
  /\ UNCHANGED <<recording, failures, compatMd>>

(* A case is added, removed, given another status or script, or broken.     *)
EditCase(c) ==
  /\ Edit
  /\ \E text \in CaseTexts \ {file[c]} : file' = [file EXCEPT ![c] = text]
  /\ UNCHANGED <<beside, recorded, codeVars, pinVars>>

(* A fixture is deleted by hand, or a skeleton directory is made.           *)
EditFixture(c, kind) ==
  /\ Edit
  /\ beside' = [beside EXCEPT ![c][kind] =
                  IF kind = "fs" /\ @ = NoFile THEN "directory" ELSE NoFile]
  /\ beside' # beside
  /\ recorded' = [recorded EXCEPT ![c] = IF kind = "fs" THEN @ ELSE NoResult]
  /\ UNCHANGED <<file, codeVars, pinVars>>

(* fredshell is changed: a script behaves in another way.                   *)
ChangeShell(s) ==
  /\ Edit
  /\ \E result \in ShellResults \ {shell[s]} : shell' = [shell EXCEPT ![s] = result]
  /\ touched' = touched \cup {"source"}
  /\ UNCHANGED <<file, beside, recorded, sheets, sites, binary, pinVars>>

EditSheet(s) ==
  /\ Edit
  /\ \E text \in SheetTexts \ {sheets[s]} : sheets' = [sheets EXCEPT ![s] = text]
  /\ touched' = touched \cup {s}
  /\ UNCHANGED <<file, beside, recorded, shell, sites, binary, pinVars>>

EditSites ==
  /\ Edit
  /\ \E site \in CallSites :
       sites' = IF site \in sites THEN sites \ {site} ELSE sites \cup {site}
  /\ touched' = touched \cup {"source"}
  /\ UNCHANGED <<file, beside, recorded, shell, sheets, binary, pinVars>>

EditReference ==
  /\ Edit
  /\ reference' \in ReferenceTexts \ {reference}
  /\ UNCHANGED <<file, beside, recorded, codeVars, flake, devshell>>

BumpFlake ==
  /\ Edit
  /\ flake' \in [{"nixpkgs-reference"} -> FlakeRevs] \ {flake}
  /\ UNCHANGED <<file, beside, recorded, codeVars, reference, devshell>>

(* nix builds the shell from flake.nix as it is then.                       *)
EnterDevshell ==
  /\ Edit
  /\ devshell' = flake["nixpkgs-reference"]
  /\ devshell' \in Revs \ {devshell}
  /\ UNCHANGED <<file, beside, recorded, codeVars, reference, flake>>

LeaveDevshell ==
  /\ Edit
  /\ devshell # NoDevshell
  /\ devshell' = NoDevshell
  /\ UNCHANGED <<file, beside, recorded, codeVars, reference, flake>>

-----------------------------------------------------------------------------
(* spec record                                                              *)

WriteOrder == <<"stdout", "stderr", "exit">>

(* The case must load, its old fixtures included; then bash runs.           *)
RecordBegin(c) ==
  /\ Idle
  /\ MayRecord(reference, devshell)
  /\ Loads(file, beside, c)
  /\ LET bash == BashResult[file[c].script][Ships[devshell].bash]
     IN  recording' = [case |-> c, next |-> 1,
                       result |-> [bash EXCEPT !.exit = RecordedExit(@)]]
  /\ recorded' = [recorded EXCEPT ![c] = NoResult]
  /\ UNCHANGED <<file, beside, codeVars, pinVars, compatMd, edits, failures>>

RecordWrite ==
  /\ ~Idle
  /\ LET c == recording.case
         stream == WriteOrder[recording.next]
     IN  /\ beside' = [beside EXCEPT ![c][stream] =
                         WriteOrRemove(stream, recording.result[stream], @)]
         /\ IF recording.next < Len(WriteOrder)
            THEN /\ recording' = [recording EXCEPT !.next = @ + 1]
                 /\ UNCHANGED recorded
            ELSE /\ recording' = NoRecording
                 /\ recorded' = [recorded EXCEPT ![c] = recording.result]
  /\ UNCHANGED <<file, codeVars, pinVars, compatMd, edits, failures>>

(* A write or a removal fails, or the recorder is killed: what it has not   *)
(* written yet stays as it was.                                             *)
RecordFails ==
  /\ ~Idle
  /\ failures < MaxFailures
  /\ failures' = failures + 1
  /\ LET c == recording.case
         stream == WriteOrder[recording.next]
     IN  \E content \in AfterFailedWrite(stream, recording.result[stream], beside[c][stream]) :
           beside' = [beside EXCEPT ![c][stream] = content]
  /\ recording' = NoRecording
  /\ UNCHANGED <<file, recorded, codeVars, pinVars, compatMd, edits>>

-----------------------------------------------------------------------------
(* The checks                                                               *)

(* `spec lint`, with --skip-builtins-drift outside the devshell.            *)
LintOk(skipBuiltinsDrift) ==
  /\ SchemaViolations(file, beside) = {}
  /\ Orphans(file, beside) = {}
  /\ skipBuiltinsDrift \/ BuiltinsKnown(devshell)

SupportRowResolves(row) ==
  /\ row.corpus \in DOMAIN CorpusPath
  /\ LET c == CorpusPath[row.corpus]
     IN  Loads(file, beside, c) /\ file[c].status.kind \in {"pass", "deferred"}

(* A mutant: a second row for the same case is not noticed.                 *)
OwnedAtLeastOnce(c) == \E row \in SupportRows(sheets) : row.corpus = c

(* By the spelling of the cell, not by the file it leads to.                *)
OwnedOnce(c) == Cardinality({row \in SupportRows(sheets) : row.corpus = c}) = 1

CheckSpecsOk ==
  /\ \A s \in SheetIds : sheets[s].there => SheetStructureOk(sheets[s])
  /\ \A row \in SupportRows(sheets) : SupportRowResolves(row)
  /\ \A c \in CorpusCases(file) : OwnedOnce(c)

VersionsOk == VersionsAgree(reference, flake, devshell)

-----------------------------------------------------------------------------
(* cargo build: the crate is compiled again when a file it depends on has   *)
(* changed; each expansion of refuse! makes its sheet one of them.          *)

(* A mutant: the expansion does not include_bytes! the sheet.               *)
DependsOnNothing(site) == {}

DependsOn(site) == {site.sheet}

Stale == touched \cap binary.inputs # {}

Compiles == Stale => \A site \in sites : Resolves(sheets, site)

Compile ==
  IF Stale /\ Compiles
  THEN /\ binary' = [refusals |-> {Expand(sheets, site) : site \in sites},
                     inputs   |-> {"source"} \cup UNION {DependsOn(site) : site \in sites}]
       /\ touched' = {}
  ELSE UNCHANGED <<binary, touched>>

Build ==
  /\ Idle
  /\ Compile
  /\ UNCHANGED <<corpusVars, shell, sheets, sites, pinVars, compatMd, edits, failures>>

-----------------------------------------------------------------------------
(* compat                                                                   *)

Everything == [category |-> "all", tier |-> 1, status |-> "all", plan |-> NoPlan]

(* Only tier 1 exists.                                                      *)
Considered(filter) ==
  {c \in CorpusCases(file) : filter.category \in {"all", Category[c]} /\ filter.tier = 1}

Selected(filter) ==
  {c \in Considered(filter) :
     filter.status = "all" \/ file[c].status = [kind |-> filter.status, plan |-> filter.plan]}

FilterParses(filter) ==
  filter.status = "all" \/ StatusParses([kind |-> filter.status, plan |-> filter.plan])

ShellOn(c) == shell[file[c].script]

(* The first case that does not load, or cannot be run, ends it.            *)
Aborts(filter) ==
  \/ ~FilterParses(filter)
  \/ \E c \in Considered(filter) : ~Loads(file, beside, c)
  \/ \E c \in Selected(filter) : RunFails(ShellOn(c))

Verdicts(filter) ==
  [c \in Selected(filter) |-> CaseVerdict(file, beside, c, ShellOn(c))]

Report(filter) ==
  LET tally == Tally(Verdicts(filter))
  IN  [exit     |-> IF HasCiFailures(tally) THEN "1" ELSE "0",
       verdicts |-> Verdicts(filter),
       tally    |-> tally]

(* A mutant: COMPAT.md lists what passes, declared or not.                  *)
RenderByOutcome(rep) ==
  LET passes == {c \in DOMAIN rep.verdicts :
                   rep.verdicts[c].kind \in {"expected_pass", "reclassify"}}
  IN  [total       |-> Cardinality(DOMAIN rep.verdicts),
       passing     |-> Numerator(rep.tally),
       of          |-> Denominator(rep.tally),
       implemented |-> passes,
       inProgress  |-> [p \in Plans |->
                          {c \in DOMAIN rep.verdicts \ passes : rep.verdicts[c].from.plan = p}]]

(* COMPAT.md lists a case by the status it declares.                        *)
Render(rep) ==
  LET declared == [c \in DOMAIN rep.verdicts |-> rep.verdicts[c].from]
  IN  [total       |-> Cardinality(DOMAIN declared),
       passing     |-> Numerator(rep.tally),
       of          |-> Denominator(rep.tally),
       implemented |-> {c \in DOMAIN declared : declared[c].kind = "pass"},
       inProgress  |-> [p \in Plans |->
                          {c \in DOMAIN declared :
                             declared[c] = [kind |-> "deferred", plan |-> p]}]]

CheckReadme(rep) == compatMd.state = "whole" /\ compatMd.body = Render(rep)

(* --update-readme writes what the filters let through, regressions or not. *)
CompatUpdate(filter) ==
  /\ Idle
  /\ ~Aborts(filter)
  /\ compatMd' = [state |-> "whole", body |-> Render(Report(filter))]
  /\ UNCHANGED <<corpusVars, codeVars, pinVars, edits, failures>>

(* The write fails, or the tool is killed in it.                            *)
CompatUpdateFails(filter) ==
  /\ Idle
  /\ failures < MaxFailures
  /\ failures' = failures + 1
  /\ ~Aborts(filter)
  /\ compatMd' = [state |-> "torn", body |-> NoBody]
  /\ UNCHANGED <<corpusVars, codeVars, pinVars, edits>>

(* `cargo xtask pc`, which every commit runs: build and test, then          *)
(* `compat --check-readme` with no filter.                                  *)
PcOk ==
  /\ Compiles
  /\ ~Aborts(Everything)
  /\ CheckReadme(Report(Everything))
  /\ Report(Everything).exit = "0"

-----------------------------------------------------------------------------

Next ==
  \/ \E c \in Cases : EditCase(c) \/ RecordBegin(c)
  \/ \E c \in Cases, kind \in DOMAIN Bare : EditFixture(c, kind)
  \/ \E s \in Scripts : ChangeShell(s)
  \/ \E s \in SheetIds : EditSheet(s)
  \/ EditSites \/ EditReference \/ BumpFlake \/ EnterDevshell \/ LeaveDevshell
  \/ RecordWrite \/ RecordFails
  \/ Build
  \/ \E filter \in CompatFilters : CompatUpdate(filter) \/ CompatUpdateFails(filter)

Spec == Init /\ [][Next]_vars

-----------------------------------------------------------------------------
(* Properties                                                               *)

TypeOK ==
  /\ \A c \in Cases : file[c].status \in StatusTexts /\ DOMAIN beside[c] = Streams \cup {"fs"}
  /\ recording.case \in Cases \cup {NoFile} /\ recording.next \in DOMAIN WriteOrder
  /\ \A r \in binary.refusals : r.sheet \in binary.inputs
  /\ compatMd.body.implemented \subseteq Cases
  /\ compatMd.body.passing <= compatMd.body.of /\ compatMd.body.of <= compatMd.body.total
  /\ edits \in 0..MaxEdits /\ failures \in 0..MaxFailures

(* record.rs 6: a recording that completes leaves fixtures which the runner *)
(* reads as exactly what bash did, whatever fixtures, failed recordings and *)
(* torn files it found.                                                     *)
RecordingIsWhole ==
  \A c \in Cases : recorded[c] # NoResult => Expected(beside, c) = recorded[c]

(* compat.rs: when `pc` has passed and nothing it looks at has changed,     *)
(* COMPAT.md is true of the corpus: each case under Implemented matches its *)
(* fixtures when run alone, no case that declares pass is left out, and the *)
(* plans hold the deferred cases.                                           *)
GreenCorpusIsTrue ==
  PcOk =>
    /\ compatMd.state = "whole"
    /\ \A c \in compatMd.body.implemented :
         RunOne(file, beside, c, ShellOn(c)) = 0 /\ Outcome(beside, c, ShellOn(c)) = "match"
    /\ \A c \in CorpusCases(file) :
         /\ file[c].status = Pass <=> c \in compatMd.body.implemented
         /\ \A p \in Plans : file[c].status.plan = p <=> c \in compatMd.body.inProgress[p]
    /\ compatMd.body.passing = Cardinality(compatMd.body.implemented)
    /\ compatMd.body.total = Cardinality(CorpusCases(file))

(* verdict.rs: the tally counts every case that was run once, under the     *)
(* verdict it got; compat exits with 1 exactly when a case regressed; and a *)
(* pass rate of 100 % hides no failing, deferred or misdeclared case.       *)
ReportAccounts ==
  \A filter \in CompatFilters : ~Aborts(filter) =>
    LET report   == Report(filter)
        verdicts == report.verdicts
        tally    == report.tally
    IN  /\ Total(tally) = Cardinality(DOMAIN verdicts)
        /\ report.exit = "1" <=> \E c \in DOMAIN verdicts : verdicts[c].kind = "regression"
        /\ Numerator(tally) = Denominator(tally) =>
             \A c \in DOMAIN verdicts : verdicts[c].kind \in {"expected_pass", "wontfix_honored"}

(* check_specs.rs 1 and 2 with compat.rs and lint.rs: when check-specs and   *)
(* pc have both passed, the support rows of the sheets and the entries of   *)
(* COMPAT.md are the same cases, one row for each, if Corpus cells are      *)
(* spelt canonically; and if lint has passed, every fixture belongs to one  *)
(* of them and no exit sidecar is empty. A torn stdout, or an exit cut to   *)
(* a shorter number, passes all three.                                      *)
MatrixMatchesCompat ==
  LET rows   == SupportRows(sheets)
      listed == compatMd.body.implemented \cup UNION {compatMd.body.inProgress[p] : p \in Plans}
  IN  CheckSpecsOk /\ PcOk /\ (\A row \in rows : row.corpus \in Cases) =>
        /\ {row.corpus : row \in rows} = listed
        /\ Cardinality(rows) = compatMd.body.total
        /\ LintOk(TRUE) => \A c \in Cases : beside[c] # Bare => c \in listed /\ beside[c].exit # ""

(* core/spec.rs:58: when the crate builds and check-specs passes, a defer   *)
(* refusal of the binary has its workaround in section 6 of the sheet it    *)
(* cites, if the rows of that sheet have all four cells filled; or else     *)
(* section 6 speaks of a longer number that ends in the one of the row.     *)
RefusalsAreDocumented ==
  ~Stale /\ CheckSpecsOk =>
    \A r \in binary.refusals :
      LET text == sheets[r.sheet]
      IN  r.kind = "defer"
          /\ (\A i \in DOMAIN text.lines : Len(text.lines[i]) = 4 /\ "" \notin Range(text.lines[i]))
          => \E word \in text.cited : EndsIn(word, r.number)

(* lib.rs of the macros: after a successful build each refusal of the       *)
(* binary says what its sheet says now, sheets edited since an earlier      *)
(* build included.                                                          *)
BinaryCitesSheets ==
  ~Stale =>
    /\ \A site \in sites : Resolves(sheets, site)
    /\ binary.refusals = {Expand(sheets, site) : site \in sites}

(* spec/mod.rs: when `spec versions` has passed in a shell built from what  *)
(* flake.nix evaluates, REFERENCE.md names that revision and the versions   *)
(* it ships, and the recorder accepts this shell.                           *)
PinIsTheOracle ==
  VersionsOk /\ devshell = flake["nixpkgs-reference"] =>
    /\ reference = Pinned(devshell)
    /\ MayRecord(reference, devshell)
=============================================================================
