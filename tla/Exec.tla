--------------------------------- MODULE Exec ---------------------------------
(***************************************************************************)
(* The stub executor (exec/mod.rs, exec/env.rs, builtins.rs) and those who *)
(* call it: the REPL, which builds an environment for every line; the spec *)
(* harness, which runs many cases in one process; an embedding program,    *)
(* which may keep an environment; and `fredshell -c`, which does not use   *)
(* the executor at all.                                                    *)
(*                                                                         *)
(* A directory is the sequence of its names from the root; the path a cd   *)
(* is given may hold `..` besides.  Links and renames are left out, and so *)
(* is what a command prints.  Directories come and go between any two      *)
(* steps, a command's own doing included.                                  *)
(***************************************************************************)
EXTENDS Integers, FiniteSets, Lists

CONSTANTS
  Hosts,       \* of "repl", "harness", "embedder" and "oneshot"
  Shared,      \* directories anyone may create and remove
  ProcessDir,  \* where the process is started, one of Shared
  Boxes,       \* names of the harness's temporary directories
  Skeleton,    \* directories a case may find in its box, relative to it
  Scripts,     \* sequences of lines
  Statuses,    \* exit codes of commands
  MaxScripts,  \* bound: scripts run by one process
  MaxChanges   \* bound: directories created or removed by others

Killed == -1   \* ExitStatus::code() is None: a signal ended the child

Path == Seq(STRING)

LineType ==
  [op : {"blank", "home", "cmd", "bad", "nul"}]
  \union [op : {"cd"}, abs : BOOLEAN, path : Path]
  \union [op : {"exit"}, code : SUBSET Int]

ASSUME ExecAssumption ==
  /\ Hosts \subseteq {"repl", "harness", "embedder", "oneshot"}
  /\ ProcessDir \in Shared
  /\ Shared \union Skeleton \subseteq Path
  /\ Boxes \subseteq STRING
  /\ Scripts \subseteq Seq(LineType)
  /\ Statuses \subseteq 0 .. 255
  /\ MaxScripts \in Nat /\ MaxChanges \in Nat

(* A temporary directory has a name nobody else uses. *)
ASSUME BoxAssumption == \A d \in Shared : d = <<>> \/ d[1] \notin Boxes

VARIABLES
  host,      \* who calls the executor in this process
  allow,     \* FREDSHELL_ALLOW_SH_FALLBACK=1 in its environment
  procHome,  \* $HOME in its environment, at most one directory
  procCwd,   \* working directory of the process
  procLive,  \* it still has a name
  dirs,      \* directories that exist
  env,       \* the ExecEnv: at most one record
  at,        \* where the thread is
  lines,     \* lines of the script not yet dispatched
  status,    \* `status` of dispatch_script
  result,    \* what run_source returned, or why it was not called
  exitCode,  \* of the process, or -1 while it runs
  script,    \* history: the source given to run_source
  began,     \* history: env.cwd at its start
  ran,       \* history: what its lines did
  asked,     \* history: the REPL was given a line that says exit
  scripts,   \* history: scripts run
  changes    \* history: changes made by others

hostVars  == <<host, allow, procHome, procCwd>>
runVars   == <<env, at, lines, status, result>>
ghostVars == <<script, began, ran, asked, scripts>>
vars == <<hostVars, procLive, dirs, runVars, exitCode, ghostVars, changes>>

Idle == [kind |-> "none", status |-> 0, exits |-> FALSE]
Ok(st, exits) == [kind |-> "ok", status |-> st, exits |-> exits]
Err(kind)     == [kind |-> kind, status |-> 0, exits |-> FALSE]

Env(cwd, home, policy) == [cwd |-> cwd, home |-> home, policy |-> policy]
TheEnv == CHOOSE e \in env : TRUE

EnvType == [cwd : Path, home : SUBSET Path, policy : {"strict", "fallback"}]
ResultType == [kind : {"none", "ok", "refused", "hostio", "parse", "noEnv"},
               status : Int, exits : BOOLEAN]
EntryType == [line : LineType, dir : Path, status : Int]

Places ==
  Shared \union UNION {{<<b>> \o d : d \in Skeleton \union {<<>>}} : b \in Boxes}

AtMostOne(S) == \A x, y \in S : x = y

TypeOfHost ==
  /\ host \in Hosts /\ allow \in BOOLEAN
  /\ procCwd \in Path
  /\ procHome \subseteq Path /\ AtMostOne(procHome)
  /\ exitCode \in -1 .. 255
  /\ script \in Seq(LineType) /\ began \in Path
  /\ asked \in BOOLEAN
  /\ scripts \in 0 .. MaxScripts

TypeOfFs ==
  /\ procLive \in BOOLEAN
  /\ dirs \subseteq Places
  /\ changes \in 0 .. MaxChanges

TypeOfEnv ==
  /\ env \subseteq EnvType /\ AtMostOne(env)
  /\ \A e \in env : AtMostOne(e.home)

TypeOfRun ==
  /\ at \in {"idle", "lines", "child", "returned", "oneshot", "exited"}
  /\ (at \in {"lines", "child"}) => env # {}
  /\ (at = "child") => lines # <<>>
  /\ (at = "exited") <=> (exitCode # -1)
  /\ lines \in Seq(LineType)
  /\ status \in Int
  /\ result \in ResultType
  /\ ran \in Seq(EntryType)

TypeOK == TypeOfHost /\ TypeOfFs /\ TypeOfEnv /\ TypeOfRun

Init ==
  /\ host \in Hosts
  /\ allow \in BOOLEAN
  /\ procHome \in {{}, {ProcessDir}}
  /\ procCwd = ProcessDir
  /\ procLive = TRUE
  /\ dirs = Shared
  /\ env = {}
  /\ at = "idle"
  /\ lines = <<>> /\ status = 0 /\ result = Idle
  /\ exitCode = -1
  /\ script = <<>> /\ began = <<>> /\ ran = <<>>
  /\ asked = FALSE /\ scripts = 0 /\ changes = 0

-----------------------------------------------------------------------------
(* Other processes, and the commands themselves, change the file system. *)

Unchanged_fs == UNCHANGED <<procLive, dirs, changes>>

RemoveDir(d) ==
  /\ changes < MaxChanges /\ at # "exited"
  /\ d \in dirs \intersect Shared
  /\ ~\E e \in dirs : IsStrictPrefix(d, e)
  /\ dirs' = dirs \ {d}
  /\ procLive' = (procLive /\ d # procCwd)
  /\ changes' = changes + 1
  /\ UNCHANGED <<hostVars, runVars, exitCode, ghostVars>>

MakeDir(d) ==
  /\ changes < MaxChanges /\ at # "exited"
  /\ d \in Shared \ dirs
  /\ \A e \in Shared : IsStrictPrefix(e, d) => e \in dirs
  /\ dirs' = dirs \union {d}
  /\ changes' = changes + 1
  /\ UNCHANGED <<hostVars, procLive, runVars, exitCode, ghostVars>>

-----------------------------------------------------------------------------
(* run_source: the parser refuses a NUL byte, else the lines are walked. *)

HasNul(s) == \E i \in DOMAIN s : s[i].op = "nul"

RunSource(s, e) ==
  /\ env' = {e}
  /\ script' = s /\ began' = e.cwd /\ ran' = <<>>
  /\ status' = 0
  /\ scripts' = scripts + 1
  /\ IF HasNul(s)
     THEN at' = "returned" /\ result' = Err("parse") /\ lines' = <<>>
     ELSE at' = "lines"    /\ result' = Idle         /\ lines' = s

FromProcess ==
  Env(procCwd, procHome, IF allow THEN "fallback" ELSE "strict")

(* repl::dispatch_line: one line, one environment. *)
ReplLine ==
  /\ host = "repl" /\ at = "idle" /\ scripts < MaxScripts
  /\ \E s \in Scripts :
       /\ Len(s) = 1
       /\ asked' = (asked \/ s[1].op = "exit")
       /\ IF procLive
          THEN RunSource(s, FromProcess)
          ELSE /\ result' = Err("noEnv")
               /\ scripts' = scripts + 1
               /\ UNCHANGED <<env, at, lines, status, script, began, ran>>
  /\ UNCHANGED <<hostVars, exitCode>> /\ Unchanged_fs

(* run_case: a new box with the case's skeleton, and nothing of the host. *)
HarnessCase ==
  /\ host = "harness" /\ at = "idle" /\ scripts < MaxScripts
  /\ \E b \in Boxes, sk \in SUBSET Skeleton, s \in Scripts :
       \E home \in {{}, {<<b>>}} :
         /\ <<b>> \notin dirs
         /\ \A d \in sk, e \in Skeleton : IsStrictPrefix(e, d) => e \in sk
         /\ dirs' = dirs \union {<<b>>} \union {<<b>> \o d : d \in sk}
         /\ RunSource(s, Env(<<b>>, home, "strict"))
  /\ UNCHANGED <<hostVars, procLive, exitCode, asked, changes>>

(* A caller of the library keeps its ExecEnv or makes one, and sets the  *)
(* policy field as it likes.                                             *)
EmbedderScript ==
  /\ host = "embedder" /\ at = "idle" /\ scripts < MaxScripts
  /\ \E s \in Scripts, p \in {"strict", "fallback"} :
       \E e \in env \union (IF procLive THEN {FromProcess} ELSE {}) :
         RunSource(s, [e EXCEPT !.policy = p])
  /\ UNCHANGED <<hostVars, exitCode, asked>> /\ Unchanged_fs

-----------------------------------------------------------------------------
(* dispatch_script and dispatch_line, one line at a time. *)

Line == Head(lines)

Next_line(op) == at = "lines" /\ lines # <<>> /\ Line.op = op

Did(where, st) == ran' = Append(ran, [line |-> Line, dir |-> where, status |-> st])

Continue(st) ==
  /\ status' = st
  /\ lines' = Tail(lines)
  /\ at' = "lines"
  /\ result' = Idle

Abort(kind) ==
  /\ at' = "returned"
  /\ result' = Err(kind)
  /\ lines' = <<>>
  /\ UNCHANGED status

Stays ==
  /\ UNCHANGED <<hostVars, exitCode, script, began, asked, scripts>>
  /\ Unchanged_fs

BlankSucceeds ==                    \* mutant: a blank line is a line
  /\ Next_line("blank")
  /\ Continue(0)
  /\ UNCHANGED <<env, ran>> /\ Stays

Blank ==
  /\ Next_line("blank")
  /\ Continue(status)
  /\ UNCHANGED <<env, ran>> /\ Stays

(* `exit` and `quit`: an argument that is no i32 counts as none. *)
ExitArgument(line) ==
  IF line.code = {} THEN 0 ELSE CHOOSE c \in line.code : TRUE

ExitGoesOn ==                       \* mutant: the loop does not break
  /\ Next_line("exit")
  /\ Continue(ExitArgument(Line))
  /\ Did(TheEnv.cwd, status')
  /\ UNCHANGED env /\ Stays

Exit ==
  /\ Next_line("exit")
  /\ status' = ExitArgument(Line)
  /\ result' = Ok(status', TRUE)
  /\ Did(TheEnv.cwd, status')
  /\ at' = "returned" /\ lines' = <<>>
  /\ UNCHANGED env /\ Stays

DotDot == ".."

(* One name of a path, taken from the directory d: the root is its own     *)
(* parent.                                                                 *)
Enter(d, name) ==
  IF name # DotDot THEN Append(d, name)
  ELSE IF d = <<>> THEN <<>> ELSE Front(d)

(* The directories fs::canonicalize passes, the first of them where it     *)
(* starts and the last where it arrives.                                   *)
Walk(d, path) ==
  LET w[k \in 0 .. Len(path)] == IF k = 0 THEN d ELSE Enter(w[k - 1], path[k])
  IN w

WalkFromProcess(cwd, line) ==       \* mutant: canonicalize() of the bare path
  Walk(IF line.abs THEN <<>> ELSE procCwd, line.path)

Resolve(cwd, line) == Walk(IF line.abs THEN <<>> ELSE cwd, line.path)

IsDir(d) == d = <<>> \/ d \in dirs

(* Where `cd` leads, if anywhere: its argument, each directory on the way  *)
(* being there, or $HOME of the environment.                               *)
Targets(line, e) ==
  IF line.op = "home" THEN {d \in e.home : IsDir(d)}
  ELSE LET w == Resolve(e.cwd, line)
       IN {d \in {w[Len(line.path)]} : \A k \in DOMAIN w : IsDir(w[k])}

Cd ==
  /\ \E op \in {"cd", "home"} : Next_line(op)
  /\ \E d \in Targets(Line, TheEnv) :
       /\ env' = {[TheEnv EXCEPT !.cwd = d]}
       /\ Did(d, 0)
  /\ Continue(0)
  /\ Stays

CdFails ==
  /\ \E op \in {"cd", "home"} : Next_line(op)
  /\ Targets(Line, TheEnv) = {}
  /\ Did(TheEnv.cwd, 1)
  /\ Continue(1)
  /\ UNCHANGED env /\ Stays

BadAlwaysFallsBack(line) ==         \* mutant: the carve-out without the policy
  TheEnv.policy = "fallback" \/ line.op = "bad"

MayFallBack(line) == TheEnv.policy = "fallback"

External == \E op \in {"cmd", "bad"} : Next_line(op)

Refuse ==
  /\ External
  /\ ~MayFallBack(Line)
  /\ Abort("refused")
  /\ UNCHANGED <<env, ran>> /\ Stays

(* spawn_via_sh: the child starts in env.cwd, which may be gone. *)
ProcessCwd(e) == procCwd            \* mutant: no current_dir() on the Command

ChildDir(e) == e.cwd

Spawn ==
  /\ External
  /\ MayFallBack(Line)
  /\ IsDir(ChildDir(TheEnv))
  /\ at' = "child"
  /\ Did(ChildDir(TheEnv), 0)
  /\ UNCHANGED <<env, lines, status, result>> /\ Stays

SpawnFails ==
  /\ External
  /\ MayFallBack(Line)
  /\ Abort("hostio")
  /\ UNCHANGED <<env, ran>> /\ Stays

(* output() returned: the writers of env take what the child printed, or *)
(* one of them fails and the rest of the script is not run.              *)
ChildEnds ==
  /\ at = "child"
  /\ \E st \in Statuses \union {Killed} :
       /\ ran' = [ran EXCEPT ![Len(ran)].status = st]
       /\ Continue(st) \/ Abort("hostio")
  /\ UNCHANGED env /\ Stays

Finish ==
  /\ at = "lines" /\ lines = <<>>
  /\ at' = "returned"
  /\ result' = Ok(status, FALSE)
  /\ UNCHANGED <<env, lines, status, ran>> /\ Stays

-----------------------------------------------------------------------------
(* What each host does with the result; only the embedder has its *)
(* environment still.                                             *)

Forget ==
  /\ lines' = <<>> /\ status' = 0 /\ result' = Idle
  /\ script' = <<>> /\ began' = <<>> /\ ran' = <<>>
  /\ UNCHANGED <<hostVars, asked, scripts>>

LeaveUncut(code) ==                 \* mutant: an exit code of more than 8 bits
  /\ at' = "exited"
  /\ exitCode' = code
  /\ UNCHANGED <<env, lines, status, result>>

Leave(code) ==
  /\ at' = "exited"
  /\ exitCode' = code % 256
  /\ UNCHANGED <<env, lines, status, result>>

ReplExits ==
  /\ host = "repl" /\ at = "returned" /\ result.exits
  /\ Leave(result.status)
  /\ UNCHANGED <<hostVars, ghostVars>> /\ Unchanged_fs

ReplGoesOn ==
  /\ host = "repl" /\ at = "returned" /\ ~result.exits
  /\ at' = "idle" /\ env' = {}
  /\ Forget /\ UNCHANGED exitCode /\ Unchanged_fs

(* The verdict is drawn and the box dropped, whatever the result was. *)
HarnessTakes ==
  /\ host = "harness" /\ at = "returned"
  /\ at' = "idle" /\ env' = {}
  /\ dirs' = dirs \intersect Shared
  /\ Forget /\ UNCHANGED <<procLive, exitCode, changes>>

EmbedderTakes ==
  /\ host = "embedder" /\ at = "returned"
  /\ at' = "idle"
  /\ Forget /\ UNCHANGED <<env, exitCode>> /\ Unchanged_fs

-----------------------------------------------------------------------------
(* fredshell -c: run_via_sh, in the process's own directory. *)

OneShot ==
  /\ host = "oneshot" /\ at = "idle"
  /\ at' = "oneshot"
  /\ UNCHANGED <<hostVars, env, lines, status, result, exitCode, ghostVars>>
  /\ Unchanged_fs

OneShotFails ==
  /\ host = "oneshot" /\ at = "idle"
  /\ Leave(1)
  /\ UNCHANGED <<hostVars, ghostVars>> /\ Unchanged_fs

OneShotEnds ==
  /\ at = "oneshot"
  /\ \E st \in Statuses \union {Killed} :
       /\ Leave(IF st = Killed THEN 0 ELSE st)
       /\ ran' = <<[line |-> [op |-> "cmd"], dir |-> procCwd, status |-> st]>>
  /\ UNCHANGED <<hostVars, script, began, asked, scripts>> /\ Unchanged_fs

-----------------------------------------------------------------------------
Others   == \E d \in Shared : RemoveDir(d) \/ MakeDir(d)
Callers  == ReplLine \/ HarnessCase \/ EmbedderScript
            \/ ReplExits \/ ReplGoesOn \/ HarnessTakes \/ EmbedderTakes
Executor == Blank \/ Exit \/ Cd \/ CdFails \/ Refuse \/ Spawn \/ SpawnFails
            \/ ChildEnds \/ Finish
DashC    == OneShot \/ OneShotFails \/ OneShotEnds

Next == Others \/ Callers \/ Executor \/ DashC

Spec == Init /\ [][Next]_vars

-----------------------------------------------------------------------------
(* Properties. *)

(* The result speaks of the line that ran last: its status is the script's, *)
(* `exit` is reported if and only if it was that line, and no line after an *)
(* exit or an error has run, none before it was left out.  For run_script,  *)
(* whose callers decide on this result whether the process ends.            *)
StatusIsLastLine ==
  (at = "returned" /\ result.kind # "parse") =>
    LET did  == [i \in DOMAIN ran |-> ran[i].line]
        todo == Keep(script, {l \in LineType : l.op # "blank"})
    IN /\ IsPrefix(did, todo)
       /\ \A i \in 1 .. Len(ran) - 1 : ran[i].line.op # "exit"
       /\ result.kind = "ok" =>
            /\ result.status = IF ran = <<>> THEN 0 ELSE Last(ran).status
            /\ result.exits <=> (ran # <<>> /\ Last(ran).line.op = "exit")
            /\ did = todo \/ result.exits

(* Where the script was before its i-th line: at the end of the last cd    *)
(* that succeeded, or where it began.                                      *)
DirBefore(i) ==
  LET moves == {j \in 1 .. i - 1 :
                  ran[j].line.op \in {"cd", "home"} /\ ran[j].status = 0}
  IN IF moves = {} THEN began
     ELSE ran[CHOOSE j \in moves : \A k \in moves : k <= j].dir

(* Every command starts, and every relative `cd` is resolved, `..` too, in *)
(* the directory the script's own successful cds led to; a failed one      *)
(* moves nothing, whatever is created and removed meanwhile and wherever   *)
(* the process itself is.  For run_cd and spawn_via_sh.                    *)
RunsWhereCdSaid ==
  \A i \in DOMAIN ran :
    LET line == ran[i].line
    IN CASE line.op = "cd" /\ ran[i].status = 0 ->
              ran[i].dir = Walk(IF line.abs THEN <<>> ELSE DirBefore(i),
                                line.path)[Len(line.path)]
         [] host # "oneshot" /\ line.op \in {"cmd", "bad"} ->
              ran[i].dir = DirBefore(i)
         [] OTHER -> TRUE

(* /bin/sh runs a line only where the user or the embedder asked for it:   *)
(* never for a case of the harness, and in the REPL only under             *)
(* FREDSHELL_ALLOW_SH_FALLBACK=1, a line that does not parse included.     *)
NoHiddenFallback ==
  (\E i \in DOMAIN ran : ran[i].line.op \in {"cmd", "bad"}) =>
    \/ host = "oneshot"
    \/ host = "repl" /\ allow
    \/ host = "embedder" /\ TheEnv.policy = "fallback"

(* What a strict script means, from its text and its box alone. A cd that  *)
(* climbs out of the box asks the host: what then follows has no meaning   *)
(* of its own.                                                             *)
Reads(m, line) ==
  IF m.kind # "runs" \/ line.op = "blank" THEN m
  ELSE CASE line.op \in {"cmd", "bad"} -> [m EXCEPT !.kind = "refused"]
         [] line.op = "exit" ->
              [m EXCEPT !.kind = "exits", !.status = ExitArgument(line)]
         [] line.op = "home" ->
              IF m.home \subseteq dirs /\ m.home # {}
              THEN [m EXCEPT !.status = 0, !.cwd = CHOOSE d \in m.home : TRUE]
              ELSE [m EXCEPT !.status = 1]
         [] OTHER ->
              LET w == Walk(m.cwd, line.path)
                  passed == {w[k] : k \in DOMAIN w}
              IN IF <<>> \in passed THEN [m EXCEPT !.kind = "outside"]
                 ELSE IF passed \subseteq dirs
                 THEN [m EXCEPT !.status = 0, !.cwd = w[Len(line.path)]]
                 ELSE [m EXCEPT !.status = 1]

(* A case that gives cd no absolute path, and none whose `..` leads out of *)
(* the box, has the result its own text, skeleton and environment give it: *)
(* nothing an earlier case did, nothing of the process and nothing others  *)
(* do at the time changes it.  For run_case, whose cases share one process *)
(* and whose box is no more than a directory of the host.                  *)
CaseMeansItsScript ==
  (/\ host = "harness" /\ at = "returned" /\ result.kind # "parse"
   /\ \A i \in DOMAIN script : script[i].op = "cd" => ~script[i].abs) =>
     LET box == began
         m   == FoldLeft(Reads, [kind |-> "runs", status |-> 0, cwd |-> box,
                                 home |-> TheEnv.home], script)
     IN /\ box \in {<<b>> : b \in Boxes}
        /\ m.kind # "outside" =>
             result = CASE m.kind = "runs"    -> Ok(m.status, FALSE)
                        [] m.kind = "exits"   -> Ok(m.status, TRUE)
                        [] m.kind = "refused" -> Err("refused")

(* A user who types `exit` has left the shell before the next prompt, as   *)
(* repl.rs:93-96 says, unless the directory of the shell has been removed: *)
(* then no line is looked at.                                              *)
ExitLeavesShell == (asked /\ procLive) => at # "idle"

(* fredshell -c reports success only when its command succeeded: the exit  *)
(* code is propagated (exec/mod.rs:44-45), "like `bash -c`" (lib.rs).      *)
(* False for a command that a signal ended.                                *)
OneShotTellsFailure ==
  (host = "oneshot" /\ exitCode = 0) => ran[1].status = 0
=============================================================================
