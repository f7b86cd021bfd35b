------------------------------ MODULE ExecProofs ------------------------------
(***************************************************************************)
(* Proofs about Exec, for scripts of any length, any directories and any   *)
(* number of scripts in one process: types, the refusal of /bin/sh, the    *)
(* directory lines run in, the exit builtin, the status of a script, and   *)
(* what a case of the harness means.                                       *)
(***************************************************************************)
EXTENDS Exec, FoldFacts, SequenceTheorems, TLAPS

USE ExecAssumption DEF Unchanged_fs, Stays, hostVars, runVars, ghostVars

LEMMA AppendLaw ==
  ASSUME NEW S, NEW s \in Seq(S), NEW x \in S
  PROVE  /\ Append(s, x) \in Seq(S)
         /\ Len(s) \in Nat
         /\ Len(Append(s, x)) = Len(s) + 1
         /\ DOMAIN Append(s, x) = 1 .. Len(s) + 1
         /\ DOMAIN s = 1 .. Len(s)
         /\ \A i \in 1 .. Len(s) : Append(s, x)[i] = s[i] /\ s[i] \in S
         /\ Append(s, x)[Len(s) + 1] = x
<1>1. Len(s) \in Nat /\ DOMAIN s = 1 .. Len(s) /\ \A i \in 1 .. Len(s) : s[i] \in S
  BY LenProperties, ElementOfSeq
<1>2. /\ Append(s, x) \in Seq(S)
      /\ Len(Append(s, x)) = Len(s) + 1
      /\ \A i \in 1 .. Len(s) : Append(s, x)[i] = s[i]
      /\ Append(s, x)[Len(s) + 1] = x
  BY AppendProperties
<1>3. DOMAIN Append(s, x) = 1 .. Len(s) + 1
  BY <1>2, LenProperties
<1> QED BY <1>1, <1>2, <1>3

LEMMA HeadLaw ==
  ASSUME NEW S, NEW s \in Seq(S), s # <<>>
  PROVE  Head(s) \in S /\ Tail(s) \in Seq(S)
BY HeadTailProperties

(* A child that ends sets the status of the last entry. *)
LEMMA ChildStatus ==
  ASSUME NEW r \in Seq(EntryType), NEW st \in Int
  PROVE  /\ [r EXCEPT ![Len(r)].status = st] \in Seq(EntryType)
         /\ Len([r EXCEPT ![Len(r)].status = st]) = Len(r)
         /\ \A i \in 1 .. Len(r) :
              /\ [r EXCEPT ![Len(r)].status = st][i].line = r[i].line
              /\ [r EXCEPT ![Len(r)].status = st][i].dir = r[i].dir
              /\ i # Len(r) => [r EXCEPT ![Len(r)].status = st][i] = r[i]
<1> DEFINE n == Len(r)
           q == [r EXCEPT ![n].status = st]
<1>1. n \in Nat /\ DOMAIN r = 1 .. n /\ \A i \in 1 .. n : r[i] \in EntryType
  BY LenProperties, ElementOfSeq
<1>2. CASE n = 0
  <2>1. q = r
    BY <1>1, <1>2
  <2> QED BY <1>1, <1>2, <2>1
<1>3. CASE n # 0
  <2> DEFINE e == [r[n] EXCEPT !.status = st]
  <2>1. n \in 1 .. n /\ r[n] \in EntryType
    BY <1>1, <1>3
  <2>2. e \in EntryType /\ e.line = r[n].line /\ e.dir = r[n].dir
    BY <2>1 DEF EntryType
  <2>3. q = [r EXCEPT ![n] = e]
    OBVIOUS
  <2> HIDE DEF e
  <2>4. /\ [r EXCEPT ![n] = e] \in Seq(EntryType)
        /\ Len([r EXCEPT ![n] = e]) = Len(r)
        /\ \A j \in 1 .. Len(r) : [r EXCEPT ![n] = e][j] = IF j = n THEN e ELSE r[j]
    BY <2>1, <2>2, ExceptSeq
  <2> QED BY <2>2, <2>3, <2>4
<1> QED BY <1>2, <1>3

-----------------------------------------------------------------------------
(* Where a path leads.                                                      *)

(* A directory and a name give a directory; of one that is not the root,    *)
(* the first name stays as long as the walk does not reach the root.        *)
LEMMA EnterFacts ==
  ASSUME NEW S, NEW d \in Seq(S), NEW n \in S
  PROVE  /\ Enter(d, n) \in Seq(S)
         /\ d # <<>> /\ Enter(d, n) # <<>> => Enter(d, n)[1] = d[1]
<1>1. Len(d) \in Nat /\ (d # <<>> => Len(d) # 0) /\ \A i \in 1 .. Len(d) : d[i] \in S
  BY LenProperties, ElementOfSeq, EmptySeq
<1>2. CASE n # DotDot
  <2>1. Enter(d, n) = Append(d, n)
    BY <1>2 DEF Enter
  <2>2. /\ Append(d, n) \in Seq(S)
        /\ \A i \in 1 .. Len(d) : Append(d, n)[i] = d[i]
    BY AppendLaw
  <2> QED BY <1>1, <2>1, <2>2
<1>3. CASE n = DotDot /\ d = <<>>
  BY <1>3, EmptySeq DEF Enter
<1>4. CASE n = DotDot /\ d # <<>>
  <2> DEFINE m == Len(d) - 1
             u == SubSeq(d, 1, m)
  <2>1. Enter(d, n) = u
    BY <1>4 DEF Enter, Front
  <2>2. /\ m \in Int /\ 1 \in Int /\ m \in Nat
        /\ \A i \in 1 .. m : d[i] \in S
    BY <1>1, <1>4
  <2> HIDE DEF m
  <2>3. /\ u \in Seq(S) /\ Len(u) = (IF 1 <= m THEN m - 1 + 1 ELSE 0)
        /\ \A i \in 1 .. m - 1 + 1 : u[i] = d[1 + i - 1]
    BY <2>2, SubSeqProperties
  <2> HIDE DEF u
  <2>4. u # <<>> => 1 <= m
    BY <2>2, <2>3, EmptySeq
  <2>5. 1 <= m => u[1] = d[1]
    BY <2>2, <2>3
  <2> QED BY <2>1, <2>3, <2>4, <2>5
<1> QED BY <1>2, <1>3, <1>4

(* The walk starts at d, and each name takes it one directory on. *)
LEMMA WalkIs ==
  ASSUME NEW S, NEW d \in Seq(S), NEW p \in Seq(S)
  PROVE  /\ Len(p) \in Nat /\ DOMAIN Walk(d, p) = 0 .. Len(p)
         /\ Walk(d, p)[0] = d
         /\ \A k \in 0 .. Len(p) :
              /\ Walk(d, p)[k] \in Seq(S)
              /\ k < Len(p) => p[k + 1] \in S /\ Walk(d, p)[k + 1] = Enter(Walk(d, p)[k], p[k + 1])
<1> DEFINE Val == Seq(S)
           step == [q \in Val \X S |-> Enter(q[1], q[2])]
           n == Len(p)
           w == Walk(d, p)
<1>1. StepOf(step, Val, S)
  <2>1. \A q \in Val \X S : Enter(q[1], q[2]) \in Val
    BY EnterFacts
  <2> QED BY <2>1 DEF StepOf
<1>2. ListOf(p, S) /\ d \in Val /\ n \in Nat /\ \A i \in 1 .. n : p[i] \in S
  BY LenProperties, ElementOfSeq DEF ListOf
<1>3. \A v \in Val, x \in S : step[<<v, x>>] = Enter(v, x)
  OBVIOUS
<1> HIDE DEF step, Val, n
<1>4. PICK g : RunningFold(g, step, d, p, Val)
  <2> HIDE DEF w
  <2> QED BY <1>1, <1>2, FoldCounts
<1> DEFINE f == [k \in 0 .. n |-> g[k]]
<1>5. /\ f[0] = d
      /\ \A k \in 0 .. n : f[k] \in Val /\ (k < n => f[k + 1] = Enter(f[k], p[k + 1]))
  <2>1. 0 \in 0 .. n
    BY <1>2
  <2>2. g[0] = d /\ \A k \in 0 .. n : g[k] \in Val /\ (k < n => g[k + 1] = step[<<g[k], p[k + 1]>>])
    BY <1>4 DEF RunningFold, n
  <2>3. ASSUME NEW k \in 0 .. n
        PROVE  f[k] \in Val /\ (k < n => f[k + 1] = Enter(f[k], p[k + 1]))
    <3>1. k < n => k + 1 \in 0 .. n /\ k + 1 \in 1 .. n
      BY <1>2
    <3> QED BY <1>2, <1>3, <2>2, <3>1
  <2> QED BY <2>1, <2>2, <2>3
<1>6. f = [k \in 0 .. n |-> f[k]]
  OBVIOUS
<1> HIDE DEF f
<1>7. f = [k \in 0 .. n |-> IF k = 0 THEN d ELSE Enter(f[k - 1], p[k])]
  <2>1. ASSUME NEW k \in 0 .. n
        PROVE  f[k] = IF k = 0 THEN d ELSE Enter(f[k - 1], p[k])
    <3>1. k # 0 => k - 1 \in 0 .. n /\ k - 1 < n /\ (k - 1) + 1 = k
      BY <1>2
    <3> QED BY <1>5, <3>1
  <2> QED BY <1>6, <2>1
<1>8. w = [k \in 0 .. n |-> IF k = 0 THEN d ELSE Enter(w[k - 1], p[k])]
  <2>1. \E h : h = [k \in 0 .. Len(p) |-> IF k = 0 THEN d ELSE Enter(h[k - 1], p[k])]
    BY <1>7 DEF n
  <2> DEFINE c == CHOOSE h : h = [k \in 0 .. Len(p) |-> IF k = 0 THEN d ELSE Enter(h[k - 1], p[k])]
  <2>2. c = [k \in 0 .. Len(p) |-> IF k = 0 THEN d ELSE Enter(c[k - 1], p[k])]
    BY <2>1
  <2>3. Walk(d, p) = c
    BY DEF Walk
  <2> HIDE DEF c
  <2> QED BY <2>2, <2>3 DEF n
<1> HIDE DEF w
<1>9. DOMAIN w = 0 .. n /\ w[0] = d
      /\ \A k \in 0 .. n : k < n => w[k + 1] = Enter(w[k], p[k + 1])
  <2>1. DOMAIN w = 0 .. n
    BY <1>8
  <2>2. w[0] = d
    BY <1>2, <1>8
  <2>3. ASSUME NEW k \in 0 .. n, k < n PROVE w[k + 1] = Enter(w[k], p[k + 1])
    <3>1. k + 1 \in 0 .. n /\ k + 1 # 0 /\ (k + 1) - 1 = k
      BY <1>2, <2>3
    <3> QED BY <1>8, <3>1
  <2> QED BY <2>1, <2>2, <2>3
<1> DEFINE Q == {k \in Nat : k <= n => w[k] = f[k]}
<1>10. \A k \in Nat : k \in Q
  <2>1. 0 \in Q
    BY <1>5, <1>9
  <2>2. ASSUME NEW k \in Nat, k \in Q PROVE k + 1 \in Q
    <3>1. CASE k + 1 <= n
      <4>1. k \in 0 .. n /\ k < n /\ k <= n
        BY <1>2, <3>1
      <4> QED BY <1>5, <1>9, <2>2, <4>1
    <3>2. CASE ~(k + 1 <= n)
      BY <3>2
    <3> QED BY <3>1, <3>2
  <2> HIDE DEF Q
  <2> QED BY <2>1, <2>2, NumbersInductive
<1>11. \A k \in 0 .. n : w[k] = f[k]
  BY <1>2, <1>10
<1>12. ASSUME NEW k \in 0 .. n
       PROVE  /\ w[k] \in Val
              /\ k < n => p[k + 1] \in S /\ w[k + 1] = Enter(w[k], p[k + 1])
  <2>1. k < n => k + 1 \in 1 .. n
    BY <1>2
  <2> QED BY <1>2, <1>5, <1>9, <1>11, <2>1
<1> QED BY <1>2, <1>9, <1>12 DEF w, n, Val

(* Paths are lists of names. *)
LEMMA ResolveType ==
  ASSUME NEW d \in Path, NEW line \in LineType, line.op = "cd"
  PROVE  /\ Len(line.path) \in Nat
         /\ DOMAIN Resolve(d, line) = 0 .. Len(line.path)
         /\ \A k \in 0 .. Len(line.path) : Resolve(d, line)[k] \in Path
<1>1. line.path \in Path /\ <<>> \in Path
  BY EmptySeq DEF LineType, Path
<1> DEFINE from == IF line.abs THEN <<>> ELSE d
           p == line.path
<1>2. from \in Path /\ p \in Path
  BY <1>1
<1>3. Resolve(d, line) = Walk(from, p)
  BY DEF Resolve
<1> HIDE DEF from, p
<1>4. Len(p) \in Nat /\ DOMAIN Walk(from, p) = 0 .. Len(p)
      /\ \A k \in 0 .. Len(p) : Walk(from, p)[k] \in Path
  BY <1>2, WalkIs DEF Path
<1> QED BY <1>3, <1>4 DEF p

(* What a cd leads to is a directory. *)
LEMMA TargetsType ==
  ASSUME NEW e \in EnvType, NEW line \in LineType, line.op \in {"cd", "home"}
  PROVE  \A d \in Targets(line, e) :
           d \in Path /\ (line.op = "cd" => d = Resolve(e.cwd, line)[Len(line.path)])
<1>1. CASE line.op = "home"
  BY <1>1 DEF Targets, EnvType
<1>2. CASE line.op = "cd"
  <2> DEFINE w == Resolve(e.cwd, line)
             n == Len(line.path)
  <2>1. e.cwd \in Path
    BY DEF EnvType
  <2>2. n \in Nat /\ \A k \in 0 .. n : w[k] \in Path
    BY <1>2, <2>1, ResolveType
  <2>3. Targets(line, e) \subseteq {w[n]}
    BY <1>2 DEF Targets
  <2> HIDE DEF w, n
  <2>4. w[n] \in Path
    BY <2>2
  <2> QED BY <2>3, <2>4 DEF w, n
<1> QED BY <1>1, <1>2

BoxPath(b) == {d \in Path : d # <<>> /\ d[1] = b}

(* A walk from a directory of the box that never reaches the root stays in *)
(* the box.                                                                *)
LEMMA WalkInBox ==
  ASSUME NEW b, NEW d \in BoxPath(b), NEW p \in Path,
         \A k \in 0 .. Len(p) : Walk(d, p)[k] # <<>>
  PROVE  Len(p) \in Nat /\ \A k \in 0 .. Len(p) : Walk(d, p)[k] \in BoxPath(b)
<1> DEFINE w == Walk(d, p)
           n == Len(p)
<1>1. d \in Path /\ d # <<>> /\ d[1] = b
  BY DEF BoxPath
<1>2. /\ n \in Nat /\ w[0] = d
      /\ \A k \in 0 .. n :
           w[k] \in Path /\ (k < n => p[k + 1] \in STRING /\ w[k + 1] = Enter(w[k], p[k + 1]))
  BY <1>1, WalkIs DEF Path
<1>3. \A k \in 0 .. n : w[k] # <<>>
  OBVIOUS
<1> HIDE DEF w, n
<1> DEFINE Q == {k \in Nat : k <= n => w[k][1] = b}
<1>4. \A k \in Nat : k \in Q
  <2>1. 0 \in Q
    BY <1>1, <1>2
  <2>2. ASSUME NEW k \in Nat, k \in Q PROVE k + 1 \in Q
    <3>1. CASE k + 1 <= n
      <4>1. k \in 0 .. n /\ k + 1 \in 0 .. n /\ k < n
        BY <1>2, <3>1
      <4> DEFINE u == w[k]
                 x == p[k + 1]
      <4>2. u \in Path /\ x \in STRING /\ u # <<>> /\ w[k + 1] = Enter(u, x) /\ Enter(u, x) # <<>>
        BY <1>2, <1>3, <4>1
      <4>3. u[1] = b
        BY <2>2, <4>1
      <4> HIDE DEF u, x
      <4>4. Enter(u, x)[1] = u[1]
        BY <4>2, EnterFacts DEF Path
      <4>5. w[k + 1][1] = b
        BY <4>2, <4>3, <4>4
      <4> QED BY <4>5
    <3>2. CASE ~(k + 1 <= n)
      BY <3>2
    <3> QED BY <3>1, <3>2
  <2> HIDE DEF Q
  <2> QED BY <2>1, <2>2, NumbersInductive
<1>5. \A k \in 0 .. n : w[k] \in BoxPath(b)
  BY <1>2, <1>3, <1>4 DEF BoxPath
<1> QED BY <1>2, <1>5 DEF w, n

-----------------------------------------------------------------------------
(* Types.                                                                   *)

LEMMA HostStays ==
  ASSUME TypeOfHost,
         UNCHANGED <<host, allow, procHome, procCwd, exitCode, script, began, asked, scripts>>
  PROVE  TypeOfHost'
BY DEF TypeOfHost, AtMostOne

LEMMA FsStays == ASSUME TypeOfFs, Unchanged_fs PROVE TypeOfFs'
BY DEF TypeOfFs

LEMMA EnvStays == ASSUME TypeOfEnv, env' = env PROVE TypeOfEnv'
BY DEF TypeOfEnv, AtMostOne

LEMMA TheEnvType ==
  ASSUME TypeOK, env # {}
  PROVE  TheEnv \in EnvType /\ TheEnv \in env /\ env = {TheEnv}
BY DEF TypeOK, TypeOfEnv, TheEnv, AtMostOne

LEMMA ResultTypes ==
  /\ Idle \in ResultType
  /\ \A st \in Int, b \in BOOLEAN :
       Ok(st, b) \in ResultType
  /\ \A k \in {"refused", "hostio", "parse", "noEnv"} :
       Err(k) \in ResultType
BY DEF Idle, Ok, Err, ResultType

LEMMA OthersType == TypeOK /\ Others => TypeOK'
<1> SUFFICES ASSUME TypeOK, NEW d \in Shared, RemoveDir(d) \/ MakeDir(d) PROVE TypeOK'
  BY DEF Others
<1>1. TypeOfFs'
  <2>1. procLive' \in BOOLEAN
    <3>1. procLive' = (procLive /\ d # procCwd) \/ procLive' = procLive
      BY DEF RemoveDir, MakeDir
    <3>2. procLive \in BOOLEAN
      BY DEF TypeOK, TypeOfFs
    <3> QED BY <3>1, <3>2
  <2>2. dirs' \subseteq dirs \union {d} /\ d \in Shared
    BY DEF RemoveDir, MakeDir
  <2>3. changes' \in 0 .. MaxChanges
    BY DEF TypeOK, TypeOfFs, RemoveDir, MakeDir
  <2>4. dirs \subseteq Places /\ Shared \subseteq Places
    <3>1. dirs \subseteq Places
      BY DEF TypeOK, TypeOfFs
    <3>2. Shared \subseteq Places
      BY DEF Places
    <3> QED BY <3>1, <3>2
  <2> QED BY <2>1, <2>2, <2>3, <2>4 DEF TypeOfFs
<1>2. /\ UNCHANGED <<host, allow, procHome, procCwd, exitCode, script, began, asked, scripts>>
      /\ UNCHANGED <<env, at, lines, status, result, ran>>
  BY DEF RemoveDir, MakeDir
<1>3. TypeOfHost' /\ TypeOfEnv'
  BY <1>2, HostStays, EnvStays DEF TypeOK
<1>4. TypeOfRun'
  BY <1>2 DEF TypeOfRun, TypeOK
<1> QED BY <1>1, <1>3, <1>4 DEF TypeOK

(* Executor steps change the run and, for cd, the environment. *)
LEMMA ExecutorType == TypeOK /\ Executor => TypeOK'
<1> SUFFICES ASSUME TypeOK, Executor PROVE TypeOK'
  OBVIOUS
<1>1. Stays
  BY DEF Executor, Blank, Exit, Cd, CdFails, Refuse, Spawn, SpawnFails, ChildEnds, Finish
<1>2. TypeOfHost' /\ TypeOfFs'
  BY <1>1, HostStays, FsStays DEF TypeOK
<1>3. lines \in Seq(LineType) /\ ran \in Seq(EntryType) /\ status \in Int
      /\ (at = "exited" <=> exitCode # -1) /\ exitCode' = exitCode
  BY <1>1 DEF TypeOK, TypeOfRun
<1>4. at \in {"lines", "child"}
  BY DEF Executor, Blank, Exit, Cd, CdFails, Refuse, Spawn, SpawnFails, ChildEnds,
         Finish, External, Next_line
<1>5. TheEnv \in EnvType /\ TheEnv \in env /\ env = {TheEnv} /\ AtMostOne(TheEnv.home)
  BY <1>4, TheEnvType DEF TypeOK, TypeOfRun, TypeOfEnv
<1>6. ASSUME lines # <<>> PROVE Line \in LineType /\ Tail(lines) \in Seq(LineType)
  BY <1>3, <1>6, HeadLaw DEF Line
<1>7. ASSUME lines # <<>>, NEW where \in Path, NEW st \in Int, Did(where, st)
      PROVE  ran' \in Seq(EntryType)
  <2>1. [line |-> Line, dir |-> where, status |-> st] \in EntryType
    BY <1>6, <1>7 DEF EntryType
  <2> QED BY <1>3, <1>7, <2>1, AppendLaw DEF Did
<1>8. ASSUME NEW st \in Int, lines # <<>>, Continue(st)
      PROVE  at' = "lines" /\ lines' \in Seq(LineType) /\ status' \in Int
             /\ result' \in ResultType
  BY <1>6, <1>8, ResultTypes DEF Continue
<1>9. ASSUME NEW k \in {"refused", "hostio", "parse", "noEnv"}, Abort(k)
      PROVE  at' = "returned" /\ lines' \in Seq(LineType) /\ status' \in Int
             /\ result' \in ResultType
  BY <1>3, <1>9, ResultTypes, EmptySeq DEF Abort
<1>10. CASE Blank
  <2>1. ran' = ran /\ env' = env /\ lines # <<>> /\ Continue(status)
    BY <1>10 DEF Blank, Next_line
  <2> QED BY <1>2, <1>3, <1>4, <1>5, <1>8, <2>1, EnvStays DEF TypeOK, TypeOfRun
<1>11. CASE Exit
  <2>1. lines # <<>> /\ Line.op = "exit" /\ env' = env
        /\ status' = ExitArgument(Line) /\ result' = Ok(status', TRUE)
        /\ Did(TheEnv.cwd, status') /\ at' = "returned" /\ lines' = <<>>
    BY <1>11 DEF Exit, Next_line
  <2>2. ExitArgument(Line) \in Int
    <3>1. Line.code \subseteq Int
      BY <1>6, <2>1 DEF LineType
    <3> QED BY <3>1 DEF ExitArgument
  <2>3. ran' \in Seq(EntryType)
    BY <1>5, <1>7, <2>1, <2>2 DEF EnvType
  <2>4. TypeOfRun'
    BY <1>3, <1>4, <2>1, <2>2, <2>3, ResultTypes, EmptySeq DEF TypeOfRun
  <2> QED BY <1>2, <2>1, <2>4, EnvStays DEF TypeOK
<1>12. CASE Cd
  <2>1. PICK d \in Targets(Line, TheEnv) :
          env' = {[TheEnv EXCEPT !.cwd = d]} /\ Did(d, 0)
    BY <1>12 DEF Cd
  <2>2. lines # <<>> /\ Line.op \in {"cd", "home"} /\ Continue(0)
    BY <1>12 DEF Cd, Next_line
  <2>3. d \in Path
    BY <1>5, <1>6, <2>1, <2>2, TargetsType
  <2>4. [TheEnv EXCEPT !.cwd = d] \in EnvType
        /\ [TheEnv EXCEPT !.cwd = d].home = TheEnv.home
    BY <1>5, <2>3 DEF EnvType
  <2>5. TypeOfEnv'
    BY <1>5, <2>1, <2>4 DEF TypeOfEnv, AtMostOne
  <2>6. ran' \in Seq(EntryType)
    BY <1>7, <2>1, <2>2, <2>3
  <2>7. TypeOfRun'
    BY <1>3, <1>4, <1>8, <2>1, <2>2, <2>6 DEF TypeOfRun
  <2> QED BY <1>2, <2>5, <2>7 DEF TypeOK
<1>13. CASE CdFails
  <2>1. lines # <<>> /\ Did(TheEnv.cwd, 1) /\ Continue(1) /\ env' = env
    BY <1>13 DEF CdFails, Next_line
  <2>2. ran' \in Seq(EntryType)
    BY <1>5, <1>7, <2>1 DEF EnvType
  <2>3. TypeOfRun'
    BY <1>3, <1>4, <1>5, <1>8, <2>1, <2>2 DEF TypeOfRun
  <2> QED BY <1>2, <2>1, <2>3, EnvStays DEF TypeOK
<1>14. CASE Refuse \/ SpawnFails
  <2>1. (Abort("refused") \/ Abort("hostio")) /\ UNCHANGED <<env, ran>>
    BY <1>14 DEF Refuse, SpawnFails
  <2>2. TypeOfRun'
    BY <1>3, <1>4, <1>9, <2>1 DEF TypeOfRun
  <2> QED BY <1>2, <2>1, <2>2, EnvStays DEF TypeOK
<1>15. CASE Spawn
  <2>1. lines # <<>> /\ Did(TheEnv.cwd, 0) /\ at' = "child"
        /\ UNCHANGED <<env, lines, status, result>>
    BY <1>15 DEF Spawn, External, Next_line, ChildDir
  <2>2. ran' \in Seq(EntryType)
    BY <1>5, <1>7, <2>1 DEF EnvType
  <2>3. TypeOfRun'
    BY <1>3, <1>4, <1>5, <2>1, <2>2 DEF TypeOfRun, TypeOK
  <2> QED BY <1>2, <2>1, <2>3, EnvStays DEF TypeOK
<1>16. CASE ChildEnds
  <2>1. PICK st \in Statuses \union {Killed} :
          /\ ran' = [ran EXCEPT ![Len(ran)].status = st]
          /\ Continue(st) \/ Abort("hostio")
    BY <1>16 DEF ChildEnds
  <2>2. st \in Int /\ env' = env
    <3>1. -1 \in Int /\ 0 .. 255 \subseteq Int
      OBVIOUS
    <3>2. st \in Int
      BY <2>1, <3>1 DEF Killed
    <3> QED BY <1>16, <3>2 DEF ChildEnds
  <2>3. lines' \in Seq(LineType)
    <3>1. lines # <<>>
      BY <1>16 DEF ChildEnds, TypeOK, TypeOfRun
    <3> QED BY <1>3, <2>1, <2>2, <3>1, EmptySeq, HeadLaw DEF Continue, Abort
  <2>4. ran' \in Seq(EntryType)
    BY <1>3, <2>1, <2>2, ChildStatus
  <2>5. TypeOfRun'
    BY <1>3, <1>4, <1>5, <2>1, <2>2, <2>3, <2>4, ResultTypes DEF TypeOfRun, Continue, Abort
  <2> QED BY <1>2, <2>2, <2>5, EnvStays DEF TypeOK
<1>17. CASE Finish
  <2>1. TypeOfRun'
    BY <1>3, <1>4, <1>17, ResultTypes DEF Finish, TypeOfRun
  <2> QED BY <1>2, <1>17, <2>1, EnvStays DEF TypeOK, Finish
<1> QED BY <1>10, <1>11, <1>12, <1>13, <1>14, <1>15, <1>16, <1>17 DEF Executor

LEMMA RunSourceType ==
  ASSUME TypeOK, NEW s \in Scripts, NEW e \in EnvType, AtMostOne(e.home),
         scripts < MaxScripts, exitCode = -1,
         RunSource(s, e),
         UNCHANGED <<hostVars, exitCode>>, asked' \in BOOLEAN
  PROVE  TypeOfHost' /\ TypeOfEnv' /\ TypeOfRun'
<1>1. s \in Seq(LineType) /\ <<>> \in Seq(LineType) /\ <<>> \in Seq(EntryType)
  BY EmptySeq
<1>2. scripts' \in 0 .. MaxScripts
  BY DEF RunSource, TypeOK, TypeOfHost
<1>3. TypeOfHost'
  BY <1>1, <1>2 DEF RunSource, TypeOK, TypeOfHost, EnvType, AtMostOne
<1>4. TypeOfEnv'
  BY DEF RunSource, TypeOfEnv, AtMostOne
<1>5. TypeOfRun'
  <2>1. env' # {} /\ status' = 0 /\ ran' = <<>> /\ exitCode' = -1
    BY DEF RunSource
  <2>2. CASE HasNul(s)
    BY <1>1, <2>1, <2>2, ResultTypes DEF RunSource, TypeOfRun
  <2>3. CASE ~HasNul(s)
    BY <1>1, <2>1, <2>3, ResultTypes DEF RunSource, TypeOfRun
  <2> QED BY <2>2, <2>3
<1> QED BY <1>3, <1>4, <1>5

LEMMA FromProcessType ==
  ASSUME TypeOK PROVE FromProcess \in EnvType /\ AtMostOne(FromProcess.home)
<1>1. /\ procCwd \in Path /\ procHome \in SUBSET Path /\ AtMostOne(procHome)
      /\ (IF allow THEN "fallback" ELSE "strict") \in {"strict", "fallback"}
  BY DEF TypeOK, TypeOfHost
<1>2. FromProcess.home = procHome
  BY DEF FromProcess, Env
<1> QED BY <1>1, <1>2 DEF FromProcess, Env, EnvType

LEMMA ForgetType ==
  ASSUME TypeOK, Forget, at' = "idle", exitCode' = exitCode, at = "returned"
  PROVE  TypeOfHost' /\ TypeOfRun'
<1>1. <<>> \in Seq(LineType) /\ <<>> \in Seq(EntryType) /\ <<>> \in Path
  BY EmptySeq DEF Path
<1>2. TypeOfHost'
  BY <1>1 DEF Forget, TypeOK, TypeOfHost, AtMostOne
<1>3. TypeOfRun'
  BY <1>1, ResultTypes DEF Forget, TypeOK, TypeOfRun
<1> QED BY <1>2, <1>3

LEMMA LeaveType ==
  ASSUME TypeOK, NEW code \in Int, Leave(code), ran' \in Seq(EntryType),
         UNCHANGED <<hostVars, script, began, asked, scripts>>
  PROVE  TypeOfHost' /\ TypeOfEnv' /\ TypeOfRun'
<1>1. exitCode' \in 0 .. 255
  BY DEF Leave
<1>2. TypeOfHost'
  BY <1>1 DEF TypeOK, TypeOfHost, AtMostOne
<1>3. TypeOfEnv' /\ at' = "exited" /\ UNCHANGED <<lines, status, result>>
  BY EnvStays DEF Leave, TypeOK
<1>4. TypeOfRun'
  BY <1>1, <1>3 DEF TypeOK, TypeOfRun
<1> QED BY <1>2, <1>3, <1>4

LEMMA CallersType == TypeOK /\ Callers => TypeOK'
<1> SUFFICES ASSUME TypeOK, Callers PROVE TypeOK'
  OBVIOUS
<1>1. ASSUME at = "idle" \/ at = "returned" PROVE exitCode = -1
  BY <1>1 DEF TypeOK, TypeOfRun
<1>2. CASE ReplLine
  <2>1. PICK s \in Scripts :
          /\ asked' = (asked \/ s[1].op = "exit")
          /\ IF procLive
             THEN RunSource(s, FromProcess)
             ELSE /\ result' = Err("noEnv")
                  /\ scripts' = scripts + 1
                  /\ UNCHANGED <<env, at, lines, status, script, began, ran>>
    BY <1>2 DEF ReplLine
  <2>2. /\ at = "idle" /\ scripts < MaxScripts /\ UNCHANGED <<hostVars, exitCode>>
        /\ Unchanged_fs
    BY <1>2 DEF ReplLine
  <2>3. asked' \in BOOLEAN
    BY <2>1 DEF TypeOK, TypeOfHost
  <2>4. TypeOfFs'
    BY <2>2, FsStays DEF TypeOK
  <2>5. CASE procLive
    <3>1. RunSource(s, FromProcess)
      BY <2>1, <2>5
    <3> QED BY <1>1, <2>2, <2>3, <2>4, <3>1, FromProcessType, RunSourceType DEF TypeOK
  <2>6. CASE ~procLive
    <3>1. /\ result' = Err("noEnv") /\ scripts' = scripts + 1
          /\ UNCHANGED <<env, at, lines, status, script, began, ran>>
      BY <2>1, <2>6
    <3>2. scripts' \in 0 .. MaxScripts
      BY <2>2, <3>1 DEF TypeOK, TypeOfHost
    <3>3. TypeOfHost'
      BY <2>2, <2>3, <3>1, <3>2 DEF TypeOK, TypeOfHost, AtMostOne
    <3>4. TypeOfRun'
      BY <2>2, <3>1, ResultTypes DEF TypeOK, TypeOfRun
    <3> QED BY <2>4, <3>1, <3>3, <3>4, EnvStays DEF TypeOK
  <2> QED BY <2>5, <2>6
<1>3. CASE HarnessCase
  <2>1. PICK b \in Boxes, sk \in SUBSET Skeleton, s \in Scripts :
          \E home \in {{}, {<<b>>}} :
            /\ <<b>> \notin dirs
            /\ dirs' = dirs \union {<<b>>} \union {<<b>> \o d : d \in sk}
            /\ RunSource(s, Env(<<b>>, home, "strict"))
    BY <1>3 DEF HarnessCase
  <2>2. PICK home \in {{}, {<<b>>}} :
            /\ dirs' = dirs \union {<<b>>} \union {<<b>> \o d : d \in sk}
            /\ RunSource(s, Env(<<b>>, home, "strict"))
    BY <2>1
  <2>3. /\ at = "idle" /\ scripts < MaxScripts
        /\ UNCHANGED <<hostVars, procLive, exitCode, asked, changes>>
    BY <1>3 DEF HarnessCase
  <2>4. <<b>> \in Path
    BY DEF Path
  <2>5. Env(<<b>>, home, "strict") \in EnvType /\ AtMostOne(Env(<<b>>, home, "strict").home)
    <3>1. home \in SUBSET Path /\ AtMostOne(home)
      BY <2>4 DEF AtMostOne
    <3>2. Env(<<b>>, home, "strict").home = home
      BY DEF Env
    <3> QED BY <2>4, <3>1, <3>2 DEF Env, EnvType
  <2>6. dirs' \subseteq Places
    <3>1. {<<b>> \o d : d \in sk} \subseteq Places
      BY DEF Places
    <3>2. <<b>> \in Places
      <4>1. <<b>> \o <<>> = <<b>>
        BY <2>4, ConcatEmptySeq DEF Path
      <4>2. <<b>> \o <<>> \in Places
        <5>1. <<>> \in Skeleton \union {<<>>}
          OBVIOUS
        <5> QED BY <5>1 DEF Places
      <4> QED BY <4>1, <4>2
    <3>3. dirs \subseteq Places
      BY DEF TypeOK, TypeOfFs
    <3> QED BY <2>2, <3>1, <3>2, <3>3
  <2>7. TypeOfFs'
    BY <2>3, <2>6 DEF TypeOK, TypeOfFs
  <2>8. asked' \in BOOLEAN
    BY <2>3 DEF TypeOK, TypeOfHost
  <2> QED BY <1>1, <2>2, <2>3, <2>5, <2>7, <2>8, RunSourceType DEF TypeOK
<1>4. CASE EmbedderScript
  <2>1. PICK s \in Scripts, p \in {"strict", "fallback"},
             e \in env \union (IF procLive THEN {FromProcess} ELSE {}) :
          RunSource(s, [e EXCEPT !.policy = p])
    BY <1>4 DEF EmbedderScript
  <2>2. e \in EnvType /\ AtMostOne(e.home)
    BY <2>1, FromProcessType DEF TypeOK, TypeOfEnv
  <2>3. [e EXCEPT !.policy = p] \in EnvType /\ AtMostOne([e EXCEPT !.policy = p].home)
    <3>1. [e EXCEPT !.policy = p].home = e.home
      BY <2>2 DEF EnvType
    <3> QED BY <2>1, <2>2, <3>1 DEF EnvType
  <2>4. /\ at = "idle" /\ scripts < MaxScripts
        /\ UNCHANGED <<hostVars, exitCode, asked>> /\ Unchanged_fs
    BY <1>4 DEF EmbedderScript
  <2>5. TypeOfFs' /\ asked' \in BOOLEAN
    BY <2>4, FsStays DEF TypeOK, TypeOfHost
  <2> QED BY <1>1, <2>1, <2>3, <2>4, <2>5, RunSourceType DEF TypeOK
<1>5. CASE ReplExits
  <2>1. result.status \in Int
    BY DEF TypeOK, TypeOfRun, ResultType
  <2>2. /\ Leave(result.status) /\ UNCHANGED <<hostVars, ghostVars>> /\ Unchanged_fs
    BY <1>5 DEF ReplExits
  <2>3. ran' \in Seq(EntryType) /\ UNCHANGED <<script, began, asked, scripts>>
    BY <2>2 DEF TypeOK, TypeOfRun
  <2>4. TypeOfFs'
    BY <2>2, FsStays DEF TypeOK
  <2> QED BY <2>1, <2>2, <2>3, <2>4, LeaveType DEF TypeOK
<1>6. CASE ReplGoesOn \/ HarnessTakes
  <2>1. /\ at = "returned" /\ at' = "idle" /\ env' = {} /\ Forget /\ exitCode' = exitCode
        /\ UNCHANGED <<procLive, changes>> /\ dirs' \subseteq dirs
    BY <1>6 DEF ReplGoesOn, HarnessTakes
  <2>2. TypeOfFs' /\ TypeOfEnv'
    BY <2>1 DEF TypeOK, TypeOfFs, TypeOfEnv, AtMostOne
  <2> QED BY <2>1, <2>2, ForgetType DEF TypeOK
<1>7. CASE EmbedderTakes
  <2>1. /\ at = "returned" /\ at' = "idle" /\ env' = env /\ Forget /\ exitCode' = exitCode
        /\ Unchanged_fs
    BY <1>7 DEF EmbedderTakes
  <2> QED BY <2>1, FsStays, EnvStays, ForgetType DEF TypeOK
<1> QED BY <1>2, <1>3, <1>4, <1>5, <1>6, <1>7 DEF Callers

LEMMA DashCType == TypeOK /\ DashC => TypeOK'
<1> SUFFICES ASSUME TypeOK, DashC PROVE TypeOK'
  OBVIOUS
<1>1. TypeOfFs'
  BY FsStays DEF TypeOK, DashC, OneShot, OneShotFails, OneShotEnds
<1>2. CASE OneShot
  <2>1. TypeOfHost' /\ TypeOfEnv'
    BY <1>2, HostStays, EnvStays DEF TypeOK, OneShot
  <2>2. TypeOfRun'
    BY <1>2 DEF TypeOK, TypeOfRun, OneShot
  <2> QED BY <1>1, <2>1, <2>2 DEF TypeOK
<1>3. CASE OneShotFails
  <2>1. ran' \in Seq(EntryType) /\ Leave(1) /\ UNCHANGED <<hostVars, script, began, asked, scripts>>
    BY <1>3 DEF OneShotFails, TypeOK, TypeOfRun
  <2> QED BY <1>1, <2>1, LeaveType DEF TypeOK
<1>4. CASE OneShotEnds
  <2>1. PICK st \in Statuses \union {Killed} :
          /\ Leave(IF st = Killed THEN 0 ELSE st)
          /\ ran' = <<[line |-> [op |-> "cmd"], dir |-> procCwd, status |-> st]>>
    BY <1>4 DEF OneShotEnds
  <2>2. st \in Int /\ (IF st = Killed THEN 0 ELSE st) \in Int
    <3>1. -1 \in Int /\ 0 .. 255 \subseteq Int
      OBVIOUS
    <3> QED BY <2>1, <3>1 DEF Killed
  <2>3. ran' \in Seq(EntryType)
    <3>1. [line |-> [op |-> "cmd"], dir |-> procCwd, status |-> st] \in EntryType
      <4>1. [op |-> "cmd"] \in LineType
        BY DEF LineType
      <4> QED BY <2>2, <4>1 DEF EntryType, TypeOK, TypeOfHost
    <3> QED BY <2>1, <3>1
  <2>4. UNCHANGED <<hostVars, script, began, asked, scripts>>
    BY <1>4 DEF OneShotEnds
  <2> QED BY <1>1, <2>1, <2>2, <2>3, <2>4, LeaveType DEF TypeOK
<1> QED BY <1>2, <1>3, <1>4 DEF DashC

(* Every variable keeps its type, however long the scripts: exit codes fit  *)
(* eight bits and a running script always has its environment (exec/mod.rs, *)
(* process::exit in repl.rs).                                               *)
THEOREM ExecTypes == Spec => []TypeOK
<1>1. Init => TypeOK
  <2> SUFFICES ASSUME Init PROVE TypeOK
    OBVIOUS
  <2>1. <<>> \in Seq(LineType) /\ <<>> \in Seq(EntryType) /\ <<>> \in Path
    BY EmptySeq DEF Path
  <2>2. ProcessDir \in Path
    OBVIOUS
  <2>3. TypeOfHost
    <3>1. procHome \subseteq Path /\ AtMostOne(procHome)
      BY <2>2 DEF Init, AtMostOne
    <3>2. exitCode \in -1 .. 255 /\ scripts \in 0 .. MaxScripts
      <4>1. exitCode = -1 /\ scripts = 0 /\ MaxScripts \in Nat
        BY DEF Init
      <4> QED BY <4>1
    <3>3. allow \in BOOLEAN /\ asked \in BOOLEAN
      BY DEF Init
    <3> QED BY <2>1, <2>2, <3>1, <3>2, <3>3 DEF Init, TypeOfHost
  <2>4. TypeOfFs
    BY DEF Init, TypeOfFs, Places
  <2>5. TypeOfEnv
    BY DEF Init, TypeOfEnv, AtMostOne
  <2>6. TypeOfRun
    BY <2>1, ResultTypes DEF Init, TypeOfRun
  <2> QED BY <2>3, <2>4, <2>5, <2>6 DEF TypeOK
<1>2. TypeOK /\ [Next]_vars => TypeOK'
  <2> SUFFICES ASSUME TypeOK, [Next]_vars PROVE TypeOK'
    OBVIOUS
  <2>1. CASE UNCHANGED vars
    <3>1. TypeOfHost' /\ TypeOfFs' /\ TypeOfEnv'
      BY <2>1, HostStays, FsStays, EnvStays DEF vars, TypeOK
    <3>2. TypeOfRun'
      BY <2>1 DEF vars, TypeOK, TypeOfRun
    <3> QED BY <3>1, <3>2 DEF TypeOK
  <2> QED BY <2>1, OthersType, CallersType, ExecutorType, DashCType DEF Next
<1> QED BY <1>1, <1>2, PTL DEF Spec

-----------------------------------------------------------------------------
(* What a step of the executor adds to the history.                         *)

Arrives(d, line) == Resolve(d, line)[Len(line.path)]

Quiet ==
  /\ UNCHANGED <<ran, env>>
  /\ at' \in {"lines", "returned"}

Moves(where) ==
  /\ ran' = Append(ran, [line |-> Line, dir |-> where, status |-> 0])
  /\ [line |-> Line, dir |-> where, status |-> 0] \in EntryType
  /\ env' = {[TheEnv EXCEPT !.cwd = where]}
  /\ Line.op \in {"cd", "home"}
  /\ Line.op = "cd" => where = Arrives(TheEnv.cwd, Line)
  /\ at' = "lines"

Remains(st) ==
  /\ ran' = Append(ran, [line |-> Line, dir |-> TheEnv.cwd, status |-> st])
  /\ [line |-> Line, dir |-> TheEnv.cwd, status |-> st] \in EntryType
  /\ env' = env
  /\ Line.op = "exit" \/ (Line.op \in {"cd", "home"} /\ st = 1)
  /\ at' \in {"lines", "returned"}

Spawns ==
  /\ ran' = Append(ran, [line |-> Line, dir |-> TheEnv.cwd, status |-> 0])
  /\ [line |-> Line, dir |-> TheEnv.cwd, status |-> 0] \in EntryType
  /\ env' = env
  /\ Line.op \in {"cmd", "bad"}
  /\ TheEnv.policy = "fallback"
  /\ at' = "child"

Ends(st) ==
  /\ at = "child"
  /\ ran' = [ran EXCEPT ![Len(ran)].status = st]
  /\ env' = env
  /\ at' \in {"lines", "returned"}

LEMMA ExecutorKinds ==
  ASSUME TypeOK, Executor
  PROVE  /\ at \in {"lines", "child"} /\ UNCHANGED <<host, allow, began>>
         /\ env = {TheEnv} /\ TheEnv \in EnvType
         /\ \/ Quiet
            \/ \E d \in Path : Moves(d)
            \/ \E st \in Int : Remains(st)
            \/ Spawns
            \/ \E st \in Int : Ends(st)
<1>1. /\ at \in {"lines", "child"} /\ UNCHANGED <<host, allow, began>>
  BY DEF Executor, Blank, Exit, Cd, CdFails, Refuse, Spawn, SpawnFails, ChildEnds,
         Finish, External, Next_line
<1>2. TheEnv \in EnvType /\ TheEnv \in env /\ env = {TheEnv}
  BY <1>1, TheEnvType DEF TypeOK, TypeOfRun
<1>3. ASSUME lines # <<>> PROVE Line \in LineType
  BY <1>3, HeadLaw DEF Line, TypeOK, TypeOfRun
<1>4. ASSUME lines # <<>>, NEW where \in Path, NEW st \in Int
      PROVE  [line |-> Line, dir |-> where, status |-> st] \in EntryType
  BY <1>3, <1>4 DEF EntryType
<1>5. CASE Blank \/ Refuse \/ SpawnFails \/ Finish
  BY <1>1, <1>2, <1>5
     DEF Blank, Refuse, SpawnFails, Finish, Continue, Abort, Quiet
<1>6. CASE Exit
  <2>1. /\ lines # <<>> /\ Line.op = "exit" /\ env' = env /\ at' = "returned"
        /\ status' = ExitArgument(Line) /\ Did(TheEnv.cwd, status')
    BY <1>6 DEF Exit, Next_line
  <2>2. status' \in Int
    <3>1. Line.code \subseteq Int
      BY <1>3, <2>1 DEF LineType
    <3> QED BY <2>1, <3>1 DEF ExitArgument
  <2>3. Remains(status')
    BY <1>2, <1>4, <2>1, <2>2 DEF Remains, Did, EnvType
  <2> QED BY <1>1, <1>2, <2>2, <2>3
<1>7. CASE Cd
  <2>1. PICK d \in Targets(Line, TheEnv) :
          env' = {[TheEnv EXCEPT !.cwd = d]} /\ Did(d, 0)
    BY <1>7 DEF Cd
  <2>2. lines # <<>> /\ Line.op \in {"cd", "home"} /\ at' = "lines"
    BY <1>7 DEF Cd, Next_line, Continue
  <2>3. d \in Path /\ (Line.op = "cd" => d = Arrives(TheEnv.cwd, Line))
    BY <1>2, <1>3, <2>1, <2>2, TargetsType DEF Arrives
  <2>4. Moves(d)
    BY <1>4, <2>1, <2>2, <2>3 DEF Moves, Did
  <2> QED BY <1>1, <1>2, <2>3, <2>4
<1>8. CASE CdFails
  <2>1. lines # <<>> /\ Line.op \in {"cd", "home"} /\ at' = "lines"
        /\ Did(TheEnv.cwd, 1) /\ env' = env
    BY <1>8 DEF CdFails, Next_line, Continue
  <2>2. Remains(1)
    BY <1>2, <1>4, <2>1 DEF Remains, Did, EnvType
  <2> QED BY <1>1, <1>2, <2>2
<1>9. CASE Spawn
  <2>1. /\ lines # <<>> /\ Line.op \in {"cmd", "bad"} /\ at' = "child"
        /\ Did(TheEnv.cwd, 0) /\ env' = env /\ TheEnv.policy = "fallback"
    BY <1>9 DEF Spawn, External, Next_line, ChildDir, MayFallBack
  <2>2. Spawns
    BY <1>2, <1>4, <2>1 DEF Spawns, Did, EnvType
  <2> QED BY <1>1, <1>2, <2>2
<1>10. CASE ChildEnds
  <2>1. PICK st \in Statuses \union {Killed} :
          /\ ran' = [ran EXCEPT ![Len(ran)].status = st]
          /\ Continue(st) \/ Abort("hostio")
    BY <1>10 DEF ChildEnds
  <2>2. st \in Int
    <3>1. -1 \in Int /\ 0 .. 255 \subseteq Int
      OBVIOUS
    <3> QED BY <2>1, <3>1 DEF Killed
  <2>3. Ends(st)
    BY <1>10, <2>1 DEF ChildEnds, Ends, Continue, Abort
  <2> QED BY <1>1, <1>2, <2>2, <2>3
<1> QED BY <1>5, <1>6, <1>7, <1>8, <1>9, <1>10 DEF Executor

(* What the other steps do to it. *)
LEMMA OtherKinds ==
  ASSUME TypeOK, Others \/ Callers \/ DashC \/ UNCHANGED vars
  PROVE  /\ UNCHANGED <<host, allow>>
         /\ \/ UNCHANGED <<ran, env, began>> /\ (at' = at \/ at' \in {"oneshot", "exited"})
               /\ (at' = "oneshot" => at = "oneshot" \/ host = "oneshot")
            \/ ran' = <<>> /\ at' = "idle"
            \/ \E s \in Scripts, e \in EnvType :
                 /\ RunSource(s, e)
                 /\ host # "oneshot"
                 /\ host = "repl" => e.policy = IF allow THEN "fallback" ELSE "strict"
                 /\ host = "harness" => e.policy = "strict"
            \/ OneShotEnds
<1>1. CASE Others \/ UNCHANGED vars
  BY <1>1 DEF Others, RemoveDir, MakeDir, vars
<1>2. CASE DashC
  <2>1. CASE OneShot \/ OneShotFails
    <3>1. /\ UNCHANGED <<host, allow, ran, env, began>>
          /\ host = "oneshot" /\ at' \in {"oneshot", "exited"}
      BY <2>1 DEF OneShot, OneShotFails, Leave
    <3> QED BY <3>1
  <2>2. CASE OneShotEnds
    <3>1. UNCHANGED <<host, allow>>
      BY <2>2 DEF OneShotEnds
    <3> QED BY <2>2, <3>1
  <2> QED BY <1>2, <2>1, <2>2 DEF DashC
<1>3. CASE ReplLine
  <2>1. FromProcess \in EnvType
        /\ FromProcess.policy = IF allow THEN "fallback" ELSE "strict"
    BY FromProcessType DEF FromProcess, Env
  <2> QED BY <1>3, <2>1 DEF ReplLine
<1>4. CASE HarnessCase
  <2>1. PICK b \in Boxes, sk \in SUBSET Skeleton, s \in Scripts :
          \E home \in {{}, {<<b>>}} : RunSource(s, Env(<<b>>, home, "strict"))
    BY <1>4 DEF HarnessCase
  <2>2. PICK home \in {{}, {<<b>>}} : RunSource(s, Env(<<b>>, home, "strict"))
    BY <2>1
  <2>3. <<b>> \in Path
    BY DEF Path
  <2>4. Env(<<b>>, home, "strict") \in EnvType /\ Env(<<b>>, home, "strict").policy = "strict"
    BY <2>2, <2>3 DEF Env, EnvType
  <2> QED BY <1>4, <2>2, <2>4 DEF HarnessCase
<1>5. CASE EmbedderScript
  <2>1. PICK s \in Scripts, p \in {"strict", "fallback"},
             e \in env \union (IF procLive THEN {FromProcess} ELSE {}) :
          RunSource(s, [e EXCEPT !.policy = p])
    BY <1>5 DEF EmbedderScript
  <2>2. e \in EnvType
    BY <2>1, FromProcessType DEF TypeOK, TypeOfEnv
  <2>3. [e EXCEPT !.policy = p] \in EnvType
    BY <2>1, <2>2 DEF EnvType
  <2> QED BY <1>5, <2>1, <2>3 DEF EmbedderScript
<1>6. CASE ReplExits
  BY <1>6 DEF ReplExits, Leave
<1>7. CASE ReplGoesOn \/ HarnessTakes \/ EmbedderTakes
  BY <1>7 DEF ReplGoesOn, HarnessTakes, EmbedderTakes, Forget
<1> QED BY <1>1, <1>2, <1>3, <1>4, <1>5, <1>6, <1>7 DEF Callers

-----------------------------------------------------------------------------
(* The policy.                                                              *)

PolicyInv ==
  /\ host = "repl" => \A e \in env : e.policy = IF allow THEN "fallback" ELSE "strict"
  /\ host = "harness" => \A e \in env : e.policy = "strict"
  /\ at = "oneshot" => host = "oneshot"
  /\ NoHiddenFallback

LEMMA PolicySteps == TypeOK /\ PolicyInv /\ [Next]_vars => PolicyInv'
<1> SUFFICES ASSUME TypeOK, PolicyInv, [Next]_vars PROVE PolicyInv'
  OBVIOUS
<1>1. CASE Executor
  <2>1. /\ at \in {"lines", "child"} /\ UNCHANGED <<host, allow, began>>
        /\ env = {TheEnv} /\ TheEnv \in EnvType
        /\ \/ Quiet
           \/ \E d \in Path : Moves(d)
           \/ \E st \in Int : Remains(st)
           \/ Spawns
           \/ \E st \in Int : Ends(st)
    BY <1>1, ExecutorKinds
  <2>2. ran \in Seq(EntryType) /\ host \in Hosts
    BY DEF TypeOK, TypeOfRun, TypeOfHost
  <2>3. CASE Quiet
    BY <2>1, <2>3 DEF Quiet, PolicyInv, NoHiddenFallback, TheEnv
  <2>4. ASSUME NEW d \in Path, Moves(d) PROVE PolicyInv'
    <3>1. TheEnv' = [TheEnv EXCEPT !.cwd = d]
      BY <2>4 DEF Moves, TheEnv
    <3>2. [TheEnv EXCEPT !.cwd = d].policy = TheEnv.policy
      BY <2>1 DEF EnvType
    <3>3. \A i \in DOMAIN ran' : ran'[i].line.op \in {"cmd", "bad"} =>
            i \in DOMAIN ran /\ ran[i].line.op \in {"cmd", "bad"}
      BY <2>2, <2>4, AppendLaw DEF Moves
    <3>4. \A e \in env' : e.policy = TheEnv.policy
      BY <2>4, <3>2 DEF Moves
    <3> QED BY <2>1, <2>4, <3>1, <3>2, <3>3, <3>4 DEF Moves, PolicyInv, NoHiddenFallback
  <2>5. ASSUME NEW st \in Int, Remains(st) PROVE PolicyInv'
    <3>1. \A i \in DOMAIN ran' : ran'[i].line.op \in {"cmd", "bad"} =>
            i \in DOMAIN ran /\ ran[i].line.op \in {"cmd", "bad"}
      BY <2>2, <2>5, AppendLaw DEF Remains
    <3> QED BY <2>1, <2>5, <3>1 DEF Remains, PolicyInv, NoHiddenFallback, TheEnv
  <2>6. CASE Spawns
    <3>1. \/ host = "repl" /\ allow
          \/ host = "embedder" /\ TheEnv.policy = "fallback"
          \/ host = "oneshot"
      BY <2>1, <2>2, <2>6 DEF Spawns, PolicyInv
    <3> QED BY <2>1, <2>6, <3>1 DEF Spawns, PolicyInv, NoHiddenFallback, TheEnv
  <2>7. ASSUME NEW st \in Int, Ends(st) PROVE PolicyInv'
    <3>1. DOMAIN ran' = DOMAIN ran /\ \A i \in DOMAIN ran : ran'[i].line = ran[i].line
      BY <2>2, <2>7, ChildStatus, LenProperties DEF Ends
    <3> QED BY <2>1, <2>7, <3>1 DEF Ends, PolicyInv, NoHiddenFallback, TheEnv
  <2> QED BY <2>1, <2>3, <2>4, <2>5, <2>6, <2>7
<1>2. CASE Others \/ Callers \/ DashC \/ UNCHANGED vars
  <2>1. /\ UNCHANGED <<host, allow>>
        /\ \/ UNCHANGED <<ran, env, began>> /\ (at' = at \/ at' \in {"oneshot", "exited"})
              /\ (at' = "oneshot" => at = "oneshot" \/ host = "oneshot")
           \/ ran' = <<>> /\ at' = "idle"
           \/ \E s \in Scripts, e \in EnvType :
                /\ RunSource(s, e)
                /\ host # "oneshot"
                /\ host = "repl" => e.policy = IF allow THEN "fallback" ELSE "strict"
                /\ host = "harness" => e.policy = "strict"
           \/ OneShotEnds
    BY <1>2, OtherKinds
  <2>2. CASE UNCHANGED <<ran, env>> /\ (at' = "oneshot" => at = "oneshot" \/ host = "oneshot")
    BY <2>1, <2>2 DEF PolicyInv, NoHiddenFallback, TheEnv
  <2>3. CASE ran' = <<>> /\ at' = "idle"
    <3>1. env' \subseteq env
      BY <1>2, <2>3 DEF Others, Callers, DashC, RemoveDir, MakeDir, ReplLine, RunSource,
                        HarnessCase, EmbedderScript, ReplExits, Leave, ReplGoesOn,
                        HarnessTakes, EmbedderTakes, OneShot, OneShotFails,
                        OneShotEnds, vars
    <3> QED BY <2>1, <2>3, <3>1 DEF PolicyInv, NoHiddenFallback
  <2>4. ASSUME NEW s \in Scripts, NEW e \in EnvType, RunSource(s, e),
               host = "repl" => e.policy = IF allow THEN "fallback" ELSE "strict",
               host = "harness" => e.policy = "strict"
        PROVE  PolicyInv'
    <3>1. ran' = <<>> /\ env' = {e} /\ at' \in {"lines", "returned"}
      BY <2>4 DEF RunSource
    <3> QED BY <2>1, <2>4, <3>1 DEF PolicyInv, NoHiddenFallback
  <2>5. CASE OneShotEnds
    <3>1. host = "oneshot" /\ host' = "oneshot"
      BY <2>1, <2>5 DEF OneShotEnds, PolicyInv
    <3> QED BY <3>1 DEF PolicyInv, NoHiddenFallback
  <2> QED BY <2>1, <2>2, <2>3, <2>4, <2>5
<1> QED BY <1>1, <1>2 DEF Next

(* /bin/sh runs a line only where the user or the embedder asked for it     *)
(* (FallbackPolicy in exec/mod.rs), however long the script.                *)
THEOREM FallbackIsAskedFor == Spec => []NoHiddenFallback
<1>1. Init => PolicyInv
  BY DEF Init, PolicyInv, NoHiddenFallback
<1>2. PolicyInv => NoHiddenFallback
  BY DEF PolicyInv
<1> QED BY <1>1, <1>2, PolicySteps, ExecTypes, PTL DEF Spec

-----------------------------------------------------------------------------
(* Where lines run.                                                         *)

Moved(entry) == entry.line.op \in {"cd", "home"} /\ entry.status = 0

MovesBefore(r, i) == {j \in 1 .. i - 1 : Moved(r[j])}

HasLast(r, i) ==
  \/ MovesBefore(r, i) = {}
  \/ \E j \in MovesBefore(r, i) : \A k \in MovesBefore(r, i) : k <= j

(* DirBefore, of any history r that began in b. *)
DirAt(r, b, i) ==
  IF MovesBefore(r, i) = {} THEN b
  ELSE r[CHOOSE j \in MovesBefore(r, i) : \A k \in MovesBefore(r, i) : k <= j].dir

RowOk(r, b, i) ==
  /\ r[i].line.op = "cd" /\ r[i].status = 0 =>
       r[i].dir = Arrives(DirAt(r, b, i), r[i].line)
  /\ r[i].line.op \in {"cmd", "bad"} => r[i].dir = DirAt(r, b, i)

(* The directory before a line depends on the entries before it only. *)
LEMMA SameDir ==
  ASSUME NEW r, NEW q, NEW b, NEW i \in Nat, HasLast(r, i),
         \A j \in 1 .. i - 1 : /\ r[j].dir = q[j].dir
                               /\ Moved(r[j]) <=> Moved(q[j])
  PROVE  HasLast(q, i) /\ DirAt(q, b, i) = DirAt(r, b, i)
<1>1. MovesBefore(r, i) = MovesBefore(q, i)
  BY DEF MovesBefore
<1>2. CASE MovesBefore(r, i) = {}
  BY <1>1, <1>2 DEF HasLast, DirAt
<1>3. CASE MovesBefore(r, i) # {}
  <2> DEFINE c == CHOOSE j \in MovesBefore(r, i) : \A k \in MovesBefore(r, i) : k <= j
  <2>1. c \in MovesBefore(r, i)
    BY <1>3 DEF HasLast
  <2>2. r[c].dir = q[c].dir
    BY <2>1 DEF MovesBefore
  <2> QED BY <1>1, <1>3, <2>2 DEF HasLast, DirAt
<1> QED BY <1>2, <1>3

(* A successful cd decides the directory of what follows; anything else     *)
(* leaves it.                                                               *)
LEMMA NextDir ==
  ASSUME NEW r \in Seq(EntryType), NEW e \in EntryType, NEW b,
         HasLast(r, Len(r) + 1)
  PROVE  /\ HasLast(Append(r, e), Len(r) + 2)
         /\ DirAt(Append(r, e), b, Len(r) + 2) =
              IF Moved(e) THEN e.dir ELSE DirAt(r, b, Len(r) + 1)
<1> DEFINE n == Len(r)
           q == Append(r, e)
<1>1. /\ n \in Nat
      /\ \A i \in 1 .. n : q[i] = r[i]
      /\ q[n + 1] = e
  BY AppendLaw
<1> HIDE DEF n, q
<1>2. MovesBefore(q, n + 2) = MovesBefore(r, n + 1) \union (IF Moved(e) THEN {n + 1} ELSE {})
  BY <1>1 DEF MovesBefore
<1>3. CASE Moved(e)
  <2> DEFINE c == CHOOSE j \in MovesBefore(q, n + 2) : \A k \in MovesBefore(q, n + 2) : k <= j
  <2>1. /\ n + 1 \in MovesBefore(q, n + 2)
        /\ \A k \in MovesBefore(q, n + 2) : k \in Nat /\ k <= n + 1
    BY <1>1, <1>2, <1>3 DEF MovesBefore
  <2>2. c \in MovesBefore(q, n + 2) /\ \A k \in MovesBefore(q, n + 2) : k <= c
    BY <2>1
  <2>3. c = n + 1
    BY <1>1, <2>1, <2>2
  <2>4. HasLast(q, n + 2) /\ DirAt(q, b, n + 2) = e.dir
    BY <1>1, <2>1, <2>3 DEF HasLast, DirAt
  <2> QED BY <1>3, <2>4 DEF n, q
<1>4. CASE ~Moved(e)
  <2>1. MovesBefore(q, n + 2) = MovesBefore(r, n + 1)
    BY <1>2, <1>4
  <2>2. CASE MovesBefore(r, n + 1) = {}
    BY <1>4, <2>1, <2>2 DEF HasLast, DirAt, n, q
  <2>3. CASE MovesBefore(r, n + 1) # {}
    <3> DEFINE c == CHOOSE j \in MovesBefore(r, n + 1) : \A k \in MovesBefore(r, n + 1) : k <= j
    <3>1. c \in MovesBefore(r, n + 1)
      BY <2>3 DEF HasLast, n
    <3>2. q[c] = r[c]
      BY <1>1, <3>1 DEF MovesBefore
    <3>3. HasLast(q, n + 2)
      BY <2>1, <2>3 DEF HasLast, n
    <3>4. DirAt(q, b, n + 2) = q[c].dir
      BY <2>1, <2>3 DEF DirAt
    <3>5. DirAt(r, b, n + 1) = r[c].dir
      BY <2>3 DEF DirAt
    <3>6. DirAt(q, b, n + 2) = DirAt(r, b, n + 1)
      <4> HIDE DEF c
      <4> QED BY <3>2, <3>4, <3>5
    <3> QED BY <1>4, <3>3, <3>6 DEF n, q
  <2> QED BY <2>2, <2>3
<1> QED BY <1>3, <1>4

(* The history so far, and where the environment must stand after it. *)
History(r, b) ==
  /\ \A i \in 1 .. Len(r) + 1 : HasLast(r, i)
  /\ \A i \in 1 .. Len(r) : RowOk(r, b, i)

LEMMA HistoryGrows ==
  ASSUME NEW r \in Seq(EntryType), NEW e \in EntryType, NEW b, History(r, b),
         /\ e.line.op = "cd" /\ e.status = 0 =>
              e.dir = Arrives(DirAt(r, b, Len(r) + 1), e.line)
         /\ e.line.op \in {"cmd", "bad"} => e.dir = DirAt(r, b, Len(r) + 1)
  PROVE  /\ History(Append(r, e), b)
         /\ DirAt(Append(r, e), b, Len(r) + 2) =
              IF Moved(e) THEN e.dir ELSE DirAt(r, b, Len(r) + 1)
<1> DEFINE n == Len(r)
           q == Append(r, e)
<1>1. /\ n \in Nat /\ Len(q) = n + 1
      /\ \A i \in 1 .. n : q[i] = r[i]
      /\ q[n + 1] = e
  BY AppendLaw
<1>2. HasLast(r, n + 1)
  BY <1>1 DEF History
<1>3. /\ HasLast(q, n + 2)
      /\ DirAt(q, b, n + 2) = IF Moved(e) THEN e.dir ELSE DirAt(r, b, n + 1)
  BY <1>2, NextDir
<1> HIDE DEF n, q
<1>4. \A i \in 1 .. n + 1 : HasLast(q, i) /\ DirAt(q, b, i) = DirAt(r, b, i)
  <2> SUFFICES ASSUME NEW i \in 1 .. n + 1
               PROVE  HasLast(q, i) /\ DirAt(q, b, i) = DirAt(r, b, i)
    OBVIOUS
  <2>1. HasLast(r, i) /\ i \in Nat
    BY <1>1 DEF History, n
  <2>2. \A j \in 1 .. i - 1 : r[j].dir = q[j].dir /\ (Moved(r[j]) <=> Moved(q[j]))
    BY <1>1
  <2>3. HasLast(q, i)
    BY <2>1, <2>2, SameDir
  <2>4. DirAt(q, b, i) = DirAt(r, b, i)
    BY <2>1, <2>2, SameDir
  <2> QED BY <2>3, <2>4
<1>5. \A i \in 1 .. n + 2 : HasLast(q, i)
  BY <1>1, <1>3, <1>4
<1>6. \A i \in 1 .. n : RowOk(q, b, i)
  <2> SUFFICES ASSUME NEW i \in 1 .. n PROVE RowOk(q, b, i)
    OBVIOUS
  <2>1. q[i] = r[i] /\ DirAt(q, b, i) = DirAt(r, b, i)
    BY <1>1, <1>4
  <2>2. RowOk(r, b, i)
    BY DEF History, n
  <2> QED BY <2>1, <2>2 DEF RowOk
<1>7. RowOk(q, b, n + 1)
  <2>1. q[n + 1] = e /\ DirAt(q, b, n + 1) = DirAt(r, b, n + 1)
    BY <1>1, <1>4
  <2> QED BY <2>1 DEF RowOk, n
<1>8. History(q, b)
  BY <1>1, <1>5, <1>6, <1>7 DEF History
<1> QED BY <1>3, <1>8 DEF n, q

(* A child that ends changes neither. *)
LEMMA HistoryEnds ==
  ASSUME NEW r \in Seq(EntryType), NEW st \in Int, NEW b, History(r, b),
         r # <<>>, r[Len(r)].line.op \in {"cmd", "bad"}
  PROVE  LET q == [r EXCEPT ![Len(r)].status = st]
         IN  History(q, b) /\ DirAt(q, b, Len(r) + 1) = DirAt(r, b, Len(r) + 1)
<1> DEFINE n == Len(r)
           q == [r EXCEPT ![n].status = st]
<1>1. /\ n \in Nat /\ n >= 1
  BY EmptySeq, LenProperties
<1>2. /\ Len(q) = n
      /\ \A i \in 1 .. n : /\ q[i].line = r[i].line
                           /\ q[i].dir = r[i].dir
                           /\ i # n => q[i] = r[i]
  BY ChildStatus
<1>3. r[n].line.op \in {"cmd", "bad"}
  OBVIOUS
<1> HIDE DEF n, q
<1>4. \A j \in 1 .. n : r[j].dir = q[j].dir /\ (Moved(r[j]) <=> Moved(q[j]))
  <2> SUFFICES ASSUME NEW j \in 1 .. n
               PROVE  r[j].dir = q[j].dir /\ (Moved(r[j]) <=> Moved(q[j]))
    OBVIOUS
  <2>1. CASE j = n
    BY <1>2, <1>3, <2>1 DEF Moved
  <2>2. CASE j # n
    BY <1>2, <2>2
  <2> QED BY <2>1, <2>2
<1>5. \A i \in 1 .. n + 1 : HasLast(q, i) /\ DirAt(q, b, i) = DirAt(r, b, i)
  <2> SUFFICES ASSUME NEW i \in 1 .. n + 1
               PROVE  HasLast(q, i) /\ DirAt(q, b, i) = DirAt(r, b, i)
    OBVIOUS
  <2>1. HasLast(r, i) /\ i \in Nat
    BY <1>1 DEF History, n
  <2>2. \A j \in 1 .. i - 1 : r[j].dir = q[j].dir /\ (Moved(r[j]) <=> Moved(q[j]))
    BY <1>1, <1>4
  <2> QED BY <2>1, <2>2, SameDir
<1>6. \A i \in 1 .. n : RowOk(q, b, i)
  <2> SUFFICES ASSUME NEW i \in 1 .. n PROVE RowOk(q, b, i)
    OBVIOUS
  <2>1. /\ q[i].line = r[i].line /\ q[i].dir = r[i].dir
        /\ DirAt(q, b, i) = DirAt(r, b, i)
    BY <1>1, <1>2, <1>5
  <2>2. q[i].line.op = "cd" => q[i].status = r[i].status
    BY <1>2, <1>3
  <2>3. RowOk(r, b, i)
    BY DEF History, n
  <2> QED BY <2>1, <2>2, <2>3 DEF RowOk
<1>7. History(q, b) /\ DirAt(q, b, n + 1) = DirAt(r, b, n + 1)
  BY <1>1, <1>2, <1>5, <1>6 DEF History
<1> QED BY <1>7 DEF n, q

LEMMA HistoryBegins ==
  ASSUME NEW b PROVE History(<<>>, b) /\ DirAt(<<>>, b, 1) = b
<1>1. Len(<<>>) = 0 /\ MovesBefore(<<>>, 1) = {}
  BY EmptySeq DEF MovesBefore
<1> QED BY <1>1 DEF History, HasLast, DirAt

(* An executor that walks a script stands where its history says. *)
WhereInv ==
  /\ host # "oneshot" => History(ran, began)
  /\ host = "oneshot" => \A i \in DOMAIN ran : ran[i].line.op = "cmd"
  /\ at = "oneshot" => host = "oneshot"
  /\ at \in {"lines", "child"} =>
       /\ host # "oneshot"
       /\ TheEnv.cwd = DirAt(ran, began, Len(ran) + 1)
  /\ at = "child" => ran # <<>> /\ ran[Len(ran)].line.op \in {"cmd", "bad"}

LEMMA WhereMeans == TypeOK /\ WhereInv => RunsWhereCdSaid
<1> SUFFICES ASSUME TypeOK, WhereInv, NEW i \in DOMAIN ran
             PROVE  LET line == ran[i].line
                    IN CASE line.op = "cd" /\ ran[i].status = 0 ->
                              ran[i].dir = Walk(IF line.abs THEN <<>> ELSE DirBefore(i),
                                                line.path)[Len(line.path)]
                         [] host # "oneshot" /\ line.op \in {"cmd", "bad"} ->
                              ran[i].dir = DirBefore(i)
                         [] OTHER -> TRUE
  BY DEF RunsWhereCdSaid
<1>1. DOMAIN ran = 1 .. Len(ran)
  BY LenProperties DEF TypeOK, TypeOfRun
<1>2. CASE host = "oneshot"
  <2>1. ran[i].line.op = "cmd"
    BY <1>2 DEF WhereInv
  <2> QED BY <1>2, <2>1
<1>3. CASE host # "oneshot"
  <2>1. RowOk(ran, began, i)
    BY <1>1, <1>3 DEF History, WhereInv
  <2>2. DirBefore(i) = DirAt(ran, began, i)
    BY DEF DirBefore, DirAt, MovesBefore, Moved
  <2>3. \A d, l : Arrives(d, l) = Walk(IF l.abs THEN <<>> ELSE d, l.path)[Len(l.path)]
    BY DEF Arrives, Resolve
  <2> QED BY <1>3, <2>1, <2>2, <2>3 DEF RowOk
<1> QED BY <1>2, <1>3

LEMMA WhereOfExecutor == TypeOK /\ WhereInv /\ Executor => WhereInv'
<1> SUFFICES ASSUME TypeOK, WhereInv, Executor PROVE WhereInv'
  OBVIOUS
<1>1. /\ at \in {"lines", "child"} /\ UNCHANGED <<host, allow, began>>
      /\ env = {TheEnv} /\ TheEnv \in EnvType
      /\ \/ Quiet
         \/ \E d \in Path : Moves(d)
         \/ \E st \in Int : Remains(st)
         \/ Spawns
         \/ \E st \in Int : Ends(st)
  BY ExecutorKinds
<1>2. /\ host # "oneshot" /\ History(ran, began)
      /\ TheEnv.cwd = DirAt(ran, began, Len(ran) + 1)
  BY <1>1 DEF WhereInv
<1>3. ran \in Seq(EntryType) /\ Len(ran) \in Nat
  BY LenProperties DEF TypeOK, TypeOfRun
<1>4. ASSUME NEW e \in EntryType, ran' = Append(ran, e), History(ran', began),
             DirAt(ran', began, Len(ran) + 2) = TheEnv'.cwd,
             at' \in {"lines", "returned"}
                \/ (at' = "child" /\ e.line.op \in {"cmd", "bad"})
      PROVE  WhereInv'
  <2>1. Len(ran') = Len(ran) + 1 /\ ran'[Len(ran')] = e
    BY <1>3, <1>4, AppendLaw
  <2>2. ran' # <<>>
    BY <1>3, <2>1, EmptySeq
  <2>3. Len(ran') + 1 = Len(ran) + 2
    BY <1>3, <2>1
  <2> QED BY <1>1, <1>2, <1>4, <2>1, <2>2, <2>3 DEF WhereInv
<1>5. CASE Quiet
  <2>1. ran' = ran /\ TheEnv' = TheEnv /\ at' \in {"lines", "returned"}
    BY <1>5 DEF Quiet, TheEnv
  <2> QED BY <1>1, <1>2, <2>1 DEF WhereInv
<1>6. ASSUME NEW d \in Path, Moves(d) PROVE WhereInv'
  <2> DEFINE e == [line |-> Line, dir |-> d, status |-> 0]
  <2>1. /\ ran' = Append(ran, e) /\ e \in EntryType /\ at' = "lines"
        /\ e.line = Line /\ e.dir = d /\ e.status = 0 /\ Line.op \in {"cd", "home"}
    BY <1>6 DEF Moves
  <2>2. Line.op = "cd" => d = Arrives(TheEnv.cwd, Line)
    BY <1>6 DEF Moves
  <2>3. TheEnv'.cwd = d
    <3>1. TheEnv' = [TheEnv EXCEPT !.cwd = d]
      BY <1>6 DEF Moves, TheEnv
    <3> QED BY <1>1, <3>1 DEF EnvType
  <2> HIDE DEF e
  <2>4. /\ e.line.op = "cd" /\ e.status = 0 =>
             e.dir = Arrives(DirAt(ran, began, Len(ran) + 1), e.line)
        /\ e.line.op \notin {"cmd", "bad"}
    BY <1>2, <2>1, <2>2
  <2>5. /\ History(Append(ran, e), began)
        /\ DirAt(Append(ran, e), began, Len(ran) + 2) =
             IF Moved(e) THEN e.dir ELSE DirAt(ran, began, Len(ran) + 1)
    BY <1>2, <1>3, <2>1, <2>4, HistoryGrows
  <2>6. Moved(e)
    BY <2>1 DEF Moved
  <2> QED BY <1>4, <2>1, <2>3, <2>5, <2>6
<1>7. ASSUME NEW st \in Int, Remains(st) PROVE WhereInv'
  <2> DEFINE e == [line |-> Line, dir |-> TheEnv.cwd, status |-> st]
  <2>1. /\ ran' = Append(ran, e) /\ e \in EntryType /\ at' \in {"lines", "returned"}
        /\ e.line = Line /\ e.dir = TheEnv.cwd /\ e.status = st
        /\ Line.op = "exit" \/ (Line.op \in {"cd", "home"} /\ st = 1)
    BY <1>7 DEF Remains
  <2>2. TheEnv' = TheEnv
    BY <1>7 DEF Remains, TheEnv
  <2> HIDE DEF e
  <2>3. /\ History(Append(ran, e), began)
        /\ DirAt(Append(ran, e), began, Len(ran) + 2) =
             IF Moved(e) THEN e.dir ELSE DirAt(ran, began, Len(ran) + 1)
    BY <1>2, <1>3, <2>1, HistoryGrows
  <2>4. ~Moved(e)
    BY <2>1 DEF Moved
  <2> QED BY <1>2, <1>4, <2>1, <2>2, <2>3, <2>4
<1>8. CASE Spawns
  <2> DEFINE e == [line |-> Line, dir |-> TheEnv.cwd, status |-> 0]
  <2>1. /\ ran' = Append(ran, e) /\ e \in EntryType /\ at' = "child"
        /\ e.line = Line /\ e.dir = TheEnv.cwd /\ Line.op \in {"cmd", "bad"}
    BY <1>8 DEF Spawns
  <2>2. TheEnv' = TheEnv
    BY <1>8 DEF Spawns, TheEnv
  <2> HIDE DEF e
  <2>3. /\ History(Append(ran, e), began)
        /\ DirAt(Append(ran, e), began, Len(ran) + 2) =
             IF Moved(e) THEN e.dir ELSE DirAt(ran, began, Len(ran) + 1)
    BY <1>2, <1>3, <2>1, HistoryGrows
  <2>4. ~Moved(e)
    BY <2>1 DEF Moved
  <2> QED BY <1>2, <1>4, <2>1, <2>2, <2>3, <2>4
<1>9. ASSUME NEW st \in Int, Ends(st) PROVE WhereInv'
  <2>1. /\ ran # <<>> /\ ran[Len(ran)].line.op \in {"cmd", "bad"}
        /\ ran' = [ran EXCEPT ![Len(ran)].status = st]
        /\ at' \in {"lines", "returned"}
    BY <1>9 DEF Ends, WhereInv
  <2>2. TheEnv' = TheEnv
    BY <1>9 DEF Ends, TheEnv
  <2>3. History(ran', began) /\ DirAt(ran', began, Len(ran) + 1) = TheEnv.cwd
    BY <1>2, <1>3, <2>1, HistoryEnds
  <2>4. Len(ran') = Len(ran)
    BY <1>3, <2>1, ChildStatus
  <2> QED BY <1>1, <1>2, <2>1, <2>2, <2>3, <2>4 DEF WhereInv
<1> QED BY <1>1, <1>5, <1>6, <1>7, <1>8, <1>9

LEMMA WhereOfOthers ==
  ASSUME TypeOK, WhereInv, Others \/ Callers \/ DashC \/ UNCHANGED vars
  PROVE  WhereInv'
<1>1. /\ UNCHANGED <<host, allow>>
      /\ \/ UNCHANGED <<ran, env, began>> /\ (at' = at \/ at' \in {"oneshot", "exited"})
            /\ (at' = "oneshot" => at = "oneshot" \/ host = "oneshot")
         \/ ran' = <<>> /\ at' = "idle"
         \/ \E s \in Scripts, e \in EnvType :
              /\ RunSource(s, e)
              /\ host # "oneshot"
              /\ host = "repl" => e.policy = IF allow THEN "fallback" ELSE "strict"
              /\ host = "harness" => e.policy = "strict"
         \/ OneShotEnds
  BY OtherKinds
<1>2. CASE /\ UNCHANGED <<ran, env, began>> /\ (at' = at \/ at' \in {"oneshot", "exited"})
           /\ (at' = "oneshot" => at = "oneshot" \/ host = "oneshot")
  BY <1>1, <1>2 DEF WhereInv, TheEnv
<1>3. CASE ran' = <<>> /\ at' = "idle"
  BY <1>1, <1>3, HistoryBegins DEF WhereInv
<1>4. ASSUME NEW s \in Scripts, NEW e \in EnvType, RunSource(s, e), host # "oneshot"
      PROVE  WhereInv'
  <2>1. ran' = <<>> /\ env' = {e} /\ began' = e.cwd /\ at' \in {"lines", "returned"}
    BY <1>4 DEF RunSource
  <2>2. TheEnv' = e /\ Len(<<>>) + 1 = 1
    BY <2>1, EmptySeq DEF TheEnv
  <2>3. History(<<>>, began') /\ DirAt(<<>>, began', 1) = began'
    BY HistoryBegins
  <2> QED BY <1>1, <1>4, <2>1, <2>2, <2>3 DEF WhereInv
<1>5. CASE OneShotEnds
  <2>1. host = "oneshot" /\ host' = "oneshot" /\ at' = "exited"
    BY <1>1, <1>5 DEF OneShotEnds, Leave, WhereInv
  <2>2. \A i \in DOMAIN ran' : ran'[i].line.op = "cmd"
    BY <1>5 DEF OneShotEnds
  <2> QED BY <2>1, <2>2 DEF WhereInv
<1> QED BY <1>1, <1>2, <1>3, <1>4, <1>5

(* Commands start and relative cds resolve where the script's own cds led   *)
(* (run_cd, spawn_via_sh), for every script and whatever others do to the   *)
(* file system meanwhile.                                                   *)
THEOREM LinesRunWhereCdSaid == Spec => []RunsWhereCdSaid
<1>1. Init => WhereInv
  BY HistoryBegins DEF Init, WhereInv
<1>2. TypeOK /\ WhereInv /\ [Next]_vars => WhereInv'
  BY WhereOfExecutor, WhereOfOthers DEF Next
<1> QED BY <1>1, <1>2, WhereMeans, ExecTypes, PTL DEF Spec

-----------------------------------------------------------------------------
(* The exit builtin.                                                        *)

(* A line that says exit is on its way to the end of the process, unless no *)
(* environment could be made for it.                                        *)
ExitInv ==
  /\ asked => host = "repl"
  /\ asked /\ procLive =>
       \/ at = "exited"
       \/ at = "returned" /\ result.exits
       \/ at = "lines" /\ lines # <<>> /\ Line.op = "exit"

LEMMA ExitSteps == TypeOK /\ ExitInv /\ [Next]_vars => ExitInv'
<1> SUFFICES ASSUME TypeOK, ExitInv, [Next]_vars PROVE ExitInv'
  OBVIOUS
<1>1. CASE Executor
  <2>1. Stays
    BY <1>1 DEF Executor, Blank, Exit, Cd, CdFails, Refuse, Spawn, SpawnFails,
                ChildEnds, Finish
  <2>2. at \in {"lines", "child"}
    BY <1>1 DEF Executor, Blank, Exit, Cd, CdFails, Refuse, Spawn, SpawnFails,
                ChildEnds, Finish, External, Next_line
  <2>3. CASE asked /\ procLive
    <3>1. at = "lines" /\ lines # <<>> /\ Line.op = "exit"
      BY <2>2, <2>3 DEF ExitInv
    <3>2. Exit
      BY <1>1, <3>1 DEF Executor, Blank, Cd, CdFails, Refuse, Spawn, SpawnFails,
                        ChildEnds, Finish, External, Next_line
    <3>3. at' = "returned" /\ result'.exits
      BY <3>2 DEF Exit, Ok
    <3> QED BY <2>1, <3>3 DEF ExitInv
  <2> QED BY <2>1, <2>3 DEF ExitInv
<1>2. CASE Others
  <2>1. UNCHANGED <<host, asked, at, lines, result>>
    BY <1>2 DEF Others, RemoveDir, MakeDir
  <2>2. PICK d \in Shared : procLive' = (procLive /\ d # procCwd) \/ procLive' = procLive
    BY <1>2 DEF Others, RemoveDir, MakeDir
  <2>3. procLive' => procLive
    BY <2>2
  <2> QED BY <2>1, <2>3 DEF ExitInv, Line
<1>3. CASE ReplLine
  <2>1. PICK s \in Scripts :
          /\ Len(s) = 1
          /\ asked' = (asked \/ s[1].op = "exit")
          /\ procLive => RunSource(s, FromProcess)
    BY <1>3 DEF ReplLine
  <2>2. host = "repl" /\ host' = host /\ procLive' = procLive /\ at = "idle"
    BY <1>3 DEF ReplLine
  <2>3. CASE asked' /\ procLive
    <3>1. s[1].op = "exit"
      BY <2>1, <2>2, <2>3 DEF ExitInv
    <3>2. s \in Seq(LineType) /\ DOMAIN s = 1 .. 1 /\ s # <<>> /\ Head(s) = s[1]
      BY <2>1, LenProperties, EmptySeq, HeadTailProperties
    <3>3. ~HasNul(s)
      BY <3>1, <3>2 DEF HasNul
    <3>4. at' = "lines" /\ lines' = s
      BY <2>1, <2>3, <3>3 DEF RunSource
    <3> QED BY <2>2, <3>1, <3>2, <3>4 DEF ExitInv, Line
  <2> QED BY <2>2, <2>3 DEF ExitInv
<1>4. CASE HarnessCase \/ EmbedderScript
  <2>1. host # "repl" /\ UNCHANGED <<host, asked>>
    BY <1>4 DEF HarnessCase, EmbedderScript
  <2> QED BY <2>1 DEF ExitInv
<1>5. CASE ReplExits \/ ReplGoesOn \/ HarnessTakes \/ EmbedderTakes
  <2>1. /\ UNCHANGED <<host, asked, procLive>> /\ at = "returned"
        /\ at' = "exited" \/ ~result.exits \/ host # "repl"
    BY <1>5 DEF ReplExits, ReplGoesOn, HarnessTakes, EmbedderTakes, Leave, Forget
  <2> QED BY <2>1 DEF ExitInv
<1>6. CASE DashC
  <2>1. UNCHANGED <<host, asked>> /\ (host = "oneshot" \/ at = "oneshot")
    BY <1>6 DEF DashC, OneShot, OneShotFails, OneShotEnds
  <2>2. at' = "exited" \/ host = "oneshot"
    BY <1>6 DEF DashC, OneShot, OneShotFails, OneShotEnds, Leave
  <2> QED BY <2>1, <2>2 DEF ExitInv
<1>7. CASE UNCHANGED vars
  BY <1>7 DEF ExitInv, Line, vars
<1> QED BY <1>1, <1>2, <1>3, <1>4, <1>5, <1>6, <1>7 DEF Next, Callers

(* exit leaves the shell before the next prompt (repl.rs:93-96), as long as *)
(* the directory of the process exists.                                     *)
THEOREM ExitLeaves == Spec => []ExitLeavesShell
<1>1. Init => ExitInv
  BY DEF Init, ExitInv
<1>2. ExitInv => ExitLeavesShell
  BY DEF ExitInv, ExitLeavesShell
<1> QED BY <1>1, <1>2, ExitSteps, ExecTypes, PTL DEF Spec

-----------------------------------------------------------------------------
(* How far a script has been walked.                                        *)

NotBlank == {l \in LineType : l.op # "blank"}

(* The lines that are done after the first n. *)
Done(n) == Keep(Upto(script, n), NotBlank)

Heads(r) == [i \in DOMAIN r |-> r[i].line]

(* l is what follows the first n elements of s. *)
Follow(l, s, n) ==
  /\ n \in 0 .. Len(s) /\ Len(l) = Len(s) - n
  /\ \A i \in 1 .. Len(l) : l[i] = s[n + i]

LastStatus(r) == IF r = <<>> THEN 0 ELSE Last(r).status

NoExit(r, n) == \A i \in 1 .. n : r[i].line.op # "exit"

LEMMA HeadsGrow ==
  ASSUME NEW r \in Seq(EntryType), NEW e \in EntryType
  PROVE  /\ Heads(r) \in Seq(LineType)
         /\ Heads(Append(r, e)) = Append(Heads(r), e.line)
         /\ Last(Append(r, e)) = e /\ Append(r, e) # <<>>
         /\ LastStatus(Append(r, e)) = e.status
         /\ NoExit(r, Len(r)) => NoExit(Append(r, e), Len(Append(r, e)) - 1)
         /\ NoExit(r, Len(r)) /\ e.line.op # "exit" =>
              NoExit(Append(r, e), Len(Append(r, e)))
<1> DEFINE q == Append(r, e)
           n == Len(r)
<1>1. /\ q \in Seq(EntryType) /\ n \in Nat /\ Len(q) = n + 1
      /\ DOMAIN q = 1 .. n + 1 /\ DOMAIN r = 1 .. n
      /\ \A i \in 1 .. n : q[i] = r[i] /\ r[i] \in EntryType
      /\ q[n + 1] = e
  BY AppendLaw
<1> HIDE DEF q, n
<1>2. /\ Heads(r) = [i \in 1 .. n |-> r[i].line]
      /\ \A i \in 1 .. n : r[i].line \in LineType
      /\ e.line \in LineType
  BY <1>1 DEF Heads, EntryType
<1>3. Heads(r) \in Seq(LineType) /\ Len(Heads(r)) = n
  BY <1>1, <1>2
<1>4. Heads(q) = Append(Heads(r), e.line)
  <2> DEFINE a == Heads(q)
             h == Heads(r)
             b == Append(h, e.line)
  <2>1. /\ DOMAIN a = 1 .. n + 1 /\ \A i \in 1 .. n : a[i] = r[i].line
        /\ a[n + 1] = e.line /\ a = [i \in 1 .. n + 1 |-> a[i]]
    BY <1>1 DEF Heads
  <2>2. h \in Seq(LineType) /\ Len(h) = n /\ \A i \in 1 .. n : h[i] = r[i].line
    BY <1>2, <1>3
  <2> HIDE DEF a, h
  <2>3. /\ b \in Seq(LineType) /\ Len(b) = n + 1 /\ b[n + 1] = e.line
        /\ \A i \in 1 .. n : b[i] = h[i]
    BY <1>2, <2>2, AppendProperties
  <2> HIDE DEF b
  <2>4. b = [i \in 1 .. n + 1 |-> b[i]]
    BY <1>1, <2>3
  <2>5. ASSUME NEW i \in 1 .. n + 1 PROVE a[i] = b[i]
    <3>1. CASE i = n + 1
      BY <2>1, <2>3, <3>1
    <3>2. CASE i # n + 1
      <4>1. i \in 1 .. n
        BY <1>1, <3>2
      <4> QED BY <2>1, <2>2, <2>3, <4>1
    <3> QED BY <3>1, <3>2
  <2>6. a = b
    BY <2>1, <2>4, <2>5
  <2> QED BY <2>6 DEF a, b, h
<1>5. Last(q) = e /\ q # <<>>
  BY <1>1, EmptySeq DEF Last
<1>6. /\ NoExit(r, n) => NoExit(q, n)
      /\ NoExit(r, n) /\ e.line.op # "exit" => NoExit(q, n + 1)
  BY <1>1 DEF NoExit
<1>7. Len(q) - 1 = n
  BY <1>1
<1> QED BY <1>1, <1>3, <1>4, <1>5, <1>6, <1>7 DEF q, n, LastStatus

LEMMA HeadsStay ==
  ASSUME NEW r \in Seq(EntryType), NEW st \in Int
  PROVE  LET q == [r EXCEPT ![Len(r)].status = st]
         IN  /\ Heads(q) = Heads(r)
             /\ NoExit(r, Len(r)) => NoExit(q, Len(q))
             /\ r # <<>> => q # <<>> /\ LastStatus(q) = st
<1> DEFINE q == [r EXCEPT ![Len(r)].status = st]
           n == Len(r)
<1>1. /\ q \in Seq(EntryType) /\ Len(q) = n
      /\ \A i \in 1 .. n : q[i].line = r[i].line
  BY ChildStatus
<1>2. n \in Nat /\ DOMAIN r = 1 .. n
  BY LenProperties
<1>3. r # <<>> => n # 0 /\ r[n] \in EntryType /\ q[n].status = st
  <2> SUFFICES ASSUME r # <<>> PROVE n # 0 /\ r[n] \in EntryType /\ q[n].status = st
    OBVIOUS
  <2>1. n # 0 /\ r[n] \in EntryType
    BY EmptySeq, ElementOfSeq, LenProperties
  <2> QED BY <1>2, <2>1 DEF EntryType
<1> HIDE DEF q, n
<1>4. DOMAIN q = 1 .. n
  BY <1>1
<1>5. Heads(q) = Heads(r)
  BY <1>1, <1>2, <1>4 DEF Heads
<1>6. NoExit(r, n) => NoExit(q, n)
  BY <1>1 DEF NoExit
<1>7. r # <<>> => q # <<>> /\ LastStatus(q) = st
  BY <1>1, <1>2, <1>3, EmptySeq DEF LastStatus, Last
<1> QED BY <1>1, <1>5, <1>6, <1>7 DEF q, n

(* The next line of the walk, or its end. *)
LEMMA FollowsScript ==
  ASSUME TypeOK, NEW n, Follow(lines, script, n)
  PROVE  /\ n \in 0 .. Len(script) /\ Len(script) \in Nat
         /\ Done(n) \in Seq(LineType)
         /\ lines = <<>> => n = Len(script)
         /\ lines # <<>> =>
              /\ n + 1 \in 0 .. Len(script)
              /\ Line \in LineType /\ script[n + 1] = Line
              /\ Follow(Tail(lines), script, n + 1)
              /\ Upto(script, n + 1) = Append(Upto(script, n), Line)
              /\ Done(n + 1) = IF Line.op = "blank" THEN Done(n)
                               ELSE Append(Done(n), Line)
<1>1. /\ script \in Seq(LineType) /\ lines \in Seq(LineType)
      /\ Len(script) \in Nat /\ Len(lines) \in Nat
      /\ n \in 0 .. Len(script) /\ Len(lines) = Len(script) - n
      /\ \A i \in 1 .. Len(lines) : lines[i] = script[n + i]
  BY LenProperties DEF TypeOK, TypeOfHost, TypeOfRun, Follow
<1>2. ListOf(script, LineType) /\ ListOf(Upto(script, n), LineType)
  BY <1>1, UptoFacts DEF ListOf
<1>3. Done(n) \in Seq(LineType)
  <2> DEFINE u == Upto(script, n)
             b == [op |-> "blank"]
  <2>1. ListOf(u, LineType) /\ b \in LineType
    BY <1>2 DEF LineType
  <2> HIDE DEF u, b
  <2> QED BY <2>1, KeepAppend DEF Done, u
<1>4. lines = <<>> => n = Len(script)
  BY <1>1, EmptySeq
<1>5. ASSUME lines # <<>>
      PROVE  /\ n + 1 \in 0 .. Len(script)
             /\ Line \in LineType /\ script[n + 1] = Line
             /\ Follow(Tail(lines), script, n + 1)
             /\ Upto(script, n + 1) = Append(Upto(script, n), Line)
             /\ Done(n + 1) = IF Line.op = "blank" THEN Done(n)
                              ELSE Append(Done(n), Line)
  <2>1. /\ Len(lines) # 0 /\ Line = lines[1]
        /\ Len(Tail(lines)) = Len(lines) - 1
        /\ \A i \in 1 .. Len(Tail(lines)) : Tail(lines)[i] = lines[i + 1]
    BY <1>1, <1>5, EmptySeq, HeadTailProperties DEF Line
  <2>2. n < Len(script) /\ n + 1 \in 0 .. Len(script) /\ script[n + 1] = Line
    BY <1>1, <2>1
  <2>3. Follow(Tail(lines), script, n + 1)
    BY <1>1, <2>1, <2>2 DEF Follow
  <2>4. Line \in LineType /\ Upto(script, n + 1) = Append(Upto(script, n), Line)
    BY <1>1, <1>2, <2>2, UptoGrows
  <2>5. Done(n + 1) = IF Line \in NotBlank THEN Append(Done(n), Line) ELSE Done(n)
    <3> DEFINE u == Upto(script, n)
               x == Line
               NB == NotBlank
               E == LineType
    <3>1. ListOf(u, E) /\ x \in E
      BY <1>2, <2>4
    <3>2. Upto(script, n + 1) = Append(u, x)
      BY <2>4
    <3> HIDE DEF u, x, NB, E
    <3>3. Keep(Append(u, x), NB) = IF x \in NB THEN Append(Keep(u, NB), x) ELSE Keep(u, NB)
      BY <3>1, KeepAppend
    <3> QED BY <3>2, <3>3 DEF Done, u, x, NB
  <2> QED BY <2>2, <2>3, <2>4, <2>5 DEF NotBlank
<1> QED BY <1>1, <1>3, <1>4, <1>5

(* A script is walked line by line: what ran is what the lines before the   *)
(* current one say, and its last status is the script's so far.             *)
Walked(n) ==
  /\ Follow(lines, script, n)
  /\ Heads(ran) = Done(n)
  /\ NoExit(ran, Len(ran))
  /\ status = LastStatus(ran)

(* A child runs the line at hand. *)
Waiting(n) ==
  /\ Follow(lines, script, n) /\ Line.op # "blank"
  /\ ran # <<>> /\ Heads(ran) = Done(n + 1)
  /\ NoExit(ran, Len(ran))

(* The walk ended after n lines. *)
Ended(n) ==
  /\ n \in 0 .. Len(script)
  /\ Heads(ran) = Done(n)
  /\ NoExit(ran, Len(ran) - 1)
  /\ result.kind = "ok" =>
       /\ result.status = LastStatus(ran)
       /\ result.exits <=> (ran # <<>> /\ Last(ran).line.op = "exit")
       /\ n = Len(script) \/ result.exits

WalkInv ==
  /\ at = "lines" => \E n \in 0 .. Len(script) : Walked(n)
  /\ at = "child" => \E n \in 0 .. Len(script) : Waiting(n)
  /\ at = "returned" /\ result.kind # "parse" => \E n \in 0 .. Len(script) : Ended(n)

LEMMA WalkMeans == TypeOK /\ WalkInv => StatusIsLastLine
<1> SUFFICES ASSUME TypeOK, WalkInv, at = "returned", result.kind # "parse"
             PROVE  LET did  == Heads(ran)
                        todo == Keep(script, NotBlank)
                    IN /\ IsPrefix(did, todo)
                       /\ \A i \in 1 .. Len(ran) - 1 : ran[i].line.op # "exit"
                       /\ result.kind = "ok" =>
                            /\ result.status = IF ran = <<>> THEN 0 ELSE Last(ran).status
                            /\ result.exits <=> (ran # <<>> /\ Last(ran).line.op = "exit")
                            /\ did = todo \/ result.exits
  BY DEF StatusIsLastLine, Heads, NotBlank
<1>1. PICK n \in 0 .. Len(script) : Ended(n)
  BY DEF WalkInv
<1>2. ListOf(script, LineType)
  BY DEF TypeOK, TypeOfHost, ListOf
<1>3. IsPrefix(Done(n), Keep(script, NotBlank))
  <2> DEFINE E == LineType
             NB == NotBlank
             s == script
  <2>1. ListOf(s, E) /\ n \in 0 .. Len(s)
    BY <1>2
  <2> HIDE DEF E, NB, s
  <2>2. IsPrefix(Keep(Upto(s, n), NB), Keep(s, NB))
    BY <2>1, KeepPrefix
  <2> QED BY <2>2 DEF Done, NB, s
<1>4. n = Len(script) => Done(n) = Keep(script, NotBlank)
  <2>1. Upto(script, Len(script)) = script
    BY <1>2, SubSeqFull DEF ListOf, Upto
  <2> QED BY <2>1 DEF Done
<1> QED BY <1>1, <1>3, <1>4 DEF Ended, LastStatus, NoExit

(* The line at hand is done. *)
LEMMA LineDone ==
  ASSUME TypeOK, lines # <<>>, NEW n, Walked(n), Line.op # "blank",
         NEW d \in Path, NEW st \in Int, Did(d, st), script' = script
  PROVE  /\ Heads(ran)' = Done(n + 1)' /\ ran' # <<>>
         /\ Last(ran').line = Line /\ LastStatus(ran)' = st
         /\ NoExit(ran, Len(ran) - 1)'
         /\ Line.op # "exit" => NoExit(ran, Len(ran))'
<1> DEFINE e == [line |-> Line, dir |-> d, status |-> st]
<1>1. /\ Line \in LineType /\ Done(n + 1) = Append(Done(n), Line)
  BY FollowsScript DEF Walked
<1>2. ran \in Seq(EntryType) /\ e \in EntryType /\ e.line = Line /\ e.status = st
  BY <1>1 DEF EntryType, TypeOK, TypeOfRun
<1>3. ran' = Append(ran, e)
  BY DEF Did
<1> HIDE DEF e
<1>4. /\ Heads(ran') = Append(Heads(ran), Line)
      /\ Last(ran') = e /\ ran' # <<>> /\ LastStatus(ran') = st
      /\ NoExit(ran', Len(ran') - 1)
      /\ Line.op # "exit" => NoExit(ran', Len(ran'))
  BY <1>2, <1>3, HeadsGrow DEF Walked
<1>5. Done(n + 1)' = Done(n + 1)
  BY DEF Done
<1> QED BY <1>1, <1>2, <1>4, <1>5 DEF Walked

LEMMA WalkOfExecutor == TypeOK /\ WalkInv /\ Executor => WalkInv'
<1> SUFFICES ASSUME TypeOK, WalkInv, Executor PROVE WalkInv'
  OBVIOUS
<1>1. Stays /\ script' = script
  BY DEF Executor, Blank, Exit, Cd, CdFails, Refuse, Spawn, SpawnFails, ChildEnds, Finish
<1>2. at \in {"lines", "child"}
  BY DEF Executor, Blank, Exit, Cd, CdFails, Refuse, Spawn, SpawnFails, ChildEnds,
         Finish, External, Next_line
<1>3. TheEnv \in EnvType /\ TheEnv.cwd \in Path
  BY <1>2, TheEnvType DEF TypeOK, TypeOfRun, EnvType
<1>4. ASSUME at = "lines" PROVE \E n \in 0 .. Len(script) : Walked(n)
  BY <1>4 DEF WalkInv
<1>5. ASSUME NEW n \in 0 .. Len(script), Walked(n)'
      PROVE  at' = "lines" => WalkInv'
  BY <1>1, <1>5 DEF WalkInv
<1>6. CASE Blank
  <2>1. /\ at = "lines" /\ lines # <<>> /\ Line.op = "blank" /\ ran' = ran
        /\ status' = status /\ lines' = Tail(lines) /\ at' = "lines"
    BY <1>6 DEF Blank, Next_line, Continue
  <2>2. PICK n \in 0 .. Len(script) : Walked(n)
    BY <1>4, <2>1
  <2>3. /\ n + 1 \in 0 .. Len(script) /\ Follow(Tail(lines), script, n + 1)
        /\ Done(n + 1) = Done(n)
    BY <2>1, <2>2, FollowsScript DEF Walked
  <2>4. Done(n + 1)' = Done(n + 1)
    BY <1>1 DEF Done
  <2>5. Walked(n + 1)'
    BY <1>1, <2>1, <2>2, <2>3, <2>4 DEF Walked
  <2> QED BY <1>5, <2>1, <2>3, <2>5
<1>7. CASE Exit
  <2>1. /\ at = "lines" /\ lines # <<>> /\ Line.op = "exit" /\ at' = "returned"
        /\ status' = ExitArgument(Line) /\ result' = Ok(status', TRUE)
        /\ Did(TheEnv.cwd, status')
    BY <1>7 DEF Exit, Next_line
  <2>2. PICK n \in 0 .. Len(script) : Walked(n)
    BY <1>4, <2>1
  <2>3. n + 1 \in 0 .. Len(script) /\ Line \in LineType
    BY <2>1, <2>2, FollowsScript DEF Walked
  <2>4. status' \in Int
    <3>1. Line.code \subseteq Int
      BY <2>1, <2>3 DEF LineType
    <3> QED BY <2>1, <3>1 DEF ExitArgument
  <2>5. /\ Heads(ran)' = Done(n + 1)' /\ ran' # <<>>
        /\ Last(ran').line = Line /\ LastStatus(ran)' = status'
        /\ NoExit(ran, Len(ran) - 1)'
    BY <1>1, <1>3, <2>1, <2>2, <2>4, LineDone
  <2>6. Ended(n + 1)'
    BY <1>1, <2>1, <2>3, <2>5 DEF Ended, Ok
  <2> QED BY <1>1, <2>1, <2>3, <2>6 DEF WalkInv
<1>8. CASE Cd \/ CdFails
  <2>1. /\ at = "lines" /\ lines # <<>> /\ Line.op \in {"cd", "home"}
        /\ lines' = Tail(lines) /\ at' = "lines"
    BY <1>8 DEF Cd, CdFails, Next_line, Continue
  <2>2. PICK n \in 0 .. Len(script) : Walked(n)
    BY <1>4, <2>1
  <2>3. n + 1 \in 0 .. Len(script) /\ Line \in LineType /\ Follow(Tail(lines), script, n + 1)
    BY <2>1, <2>2, FollowsScript DEF Walked
  <2>4. \E d \in Path, st \in Int : Did(d, st) /\ status' = st
    <3>1. CASE CdFails
      BY <1>3, <3>1 DEF CdFails, Continue
    <3>2. CASE Cd
      <4>1. PICK d \in Targets(Line, TheEnv) : Did(d, 0)
        BY <3>2 DEF Cd
      <4>2. d \in Path
        BY <1>3, <2>1, <2>3, <4>1, TargetsType
      <4> QED BY <3>2, <4>1, <4>2 DEF Cd, Continue
    <3> QED BY <1>8, <3>1, <3>2
  <2>5. PICK d \in Path, st \in Int : Did(d, st) /\ status' = st
    BY <2>4
  <2>6. /\ Heads(ran)' = Done(n + 1)' /\ LastStatus(ran)' = status'
        /\ NoExit(ran, Len(ran))'
    BY <1>1, <2>1, <2>2, <2>5, LineDone
  <2>7. Walked(n + 1)'
    BY <1>1, <2>1, <2>3, <2>6 DEF Walked
  <2> QED BY <1>5, <2>1, <2>3, <2>7
<1>9. CASE Refuse \/ SpawnFails
  <2>1. /\ at = "lines" /\ ran' = ran /\ at' = "returned" /\ result'.kind # "ok"
    BY <1>9 DEF Refuse, SpawnFails, Abort, External, Next_line, Err
  <2>2. PICK n \in 0 .. Len(script) : Walked(n)
    BY <1>4, <2>1
  <2>3. Done(n)' = Done(n) /\ NoExit(ran, Len(ran) - 1)
    <3>1. Len(ran) \in Nat
      BY LenProperties DEF TypeOK, TypeOfRun
    <3> QED BY <1>1, <2>2, <3>1 DEF Done, Walked, NoExit
  <2>4. Ended(n)'
    BY <1>1, <2>1, <2>2, <2>3 DEF Ended, Walked
  <2> QED BY <1>1, <2>1, <2>4 DEF WalkInv
<1>10. CASE Spawn
  <2>1. /\ at = "lines" /\ lines # <<>> /\ Line.op \in {"cmd", "bad"}
        /\ at' = "child" /\ Did(TheEnv.cwd, 0) /\ lines' = lines
    BY <1>10 DEF Spawn, External, Next_line, ChildDir
  <2>2. PICK n \in 0 .. Len(script) : Walked(n)
    BY <1>4, <2>1
  <2>3. /\ Heads(ran)' = Done(n + 1)' /\ ran' # <<>> /\ NoExit(ran, Len(ran))'
    BY <1>1, <1>3, <2>1, <2>2, LineDone
  <2>4. Waiting(n)'
    BY <1>1, <2>1, <2>2, <2>3 DEF Waiting, Walked, Line
  <2> QED BY <1>1, <2>1, <2>4 DEF WalkInv
<1>11. CASE ChildEnds
  <2>1. PICK st \in Statuses \union {Killed} :
          /\ ran' = [ran EXCEPT ![Len(ran)].status = st]
          /\ Continue(st) \/ Abort("hostio")
    BY <1>11 DEF ChildEnds
  <2>2. st \in Int
    <3>1. -1 \in Int /\ 0 .. 255 \subseteq Int
      OBVIOUS
    <3> QED BY <2>1, <3>1 DEF Killed
  <2>3. at = "child" /\ lines # <<>> /\ ran \in Seq(EntryType)
    BY <1>11 DEF ChildEnds, TypeOK, TypeOfRun
  <2>4. PICK n \in 0 .. Len(script) : Waiting(n)
    BY <2>3 DEF WalkInv
  <2>5. n + 1 \in 0 .. Len(script) /\ Follow(Tail(lines), script, n + 1)
    BY <2>3, <2>4, FollowsScript DEF Waiting
  <2>6. /\ Heads(ran') = Heads(ran) /\ NoExit(ran', Len(ran'))
        /\ LastStatus(ran') = st
    BY <2>1, <2>2, <2>3, <2>4, HeadsStay DEF Waiting
  <2>7. Done(n + 1)' = Done(n + 1)
    BY <1>1 DEF Done
  <2>8. CASE Continue(st)
    <3>1. Walked(n + 1)'
      BY <1>1, <2>4, <2>5, <2>6, <2>7, <2>8 DEF Walked, Waiting, Continue
    <3> QED BY <1>5, <2>5, <2>8, <3>1 DEF Continue
  <2>9. CASE Abort("hostio")
    <3>1. Len(ran') \in Nat
      <4>1. Len(ran') = Len(ran)
        BY <2>1, <2>2, <2>3, ChildStatus
      <4> QED BY <2>3, <4>1, LenProperties
    <3>2. NoExit(ran', Len(ran') - 1)
      BY <2>6, <3>1 DEF NoExit
    <3>3. Ended(n + 1)'
      BY <1>1, <2>4, <2>5, <2>6, <2>7, <2>9, <3>2 DEF Ended, Waiting, Abort, Err
    <3> QED BY <1>1, <2>5, <2>9, <3>3 DEF WalkInv, Abort
  <2> QED BY <2>1, <2>8, <2>9
<1>12. CASE Finish
  <2>1. /\ at = "lines" /\ lines = <<>> /\ at' = "returned" /\ ran' = ran
        /\ result' = Ok(status, FALSE)
    BY <1>12 DEF Finish
  <2>2. PICK n \in 0 .. Len(script) : Walked(n)
    BY <1>4, <2>1
  <2>3. n = Len(script)
    BY <2>1, <2>2, FollowsScript DEF Walked
  <2>4. Done(n)' = Done(n) /\ NoExit(ran, Len(ran) - 1)
        /\ ~(ran # <<>> /\ Last(ran).line.op = "exit")
    <3>1. Len(ran) \in Nat /\ (ran # <<>> => Len(ran) # 0)
      BY LenProperties, EmptySeq DEF TypeOK, TypeOfRun
    <3>2. Done(n)' = Done(n)
      BY <1>1 DEF Done
    <3>3. ran # <<>> => Len(ran) \in 1 .. Len(ran)
      BY <3>1
    <3> QED BY <2>2, <3>1, <3>2, <3>3 DEF Walked, NoExit, Last
  <2>5. Ended(n)'
    BY <1>1, <2>1, <2>2, <2>3, <2>4 DEF Ended, Walked, Ok
  <2> QED BY <1>1, <2>1, <2>5 DEF WalkInv
<1> QED BY <1>6, <1>7, <1>8, <1>9, <1>10, <1>11, <1>12 DEF Executor

LEMMA WalkOfOthers ==
  ASSUME TypeOK, WalkInv, Others \/ Callers \/ DashC \/ UNCHANGED vars
  PROVE  WalkInv'
<1>1. \/ UNCHANGED <<at, lines, status, result, script, ran>>
      \/ at' \in {"idle", "oneshot", "exited"}
      \/ \E s \in Scripts, e \in EnvType : RunSource(s, e)
  <2>1. CASE Others \/ UNCHANGED vars
    BY <2>1 DEF Others, RemoveDir, MakeDir, vars
  <2>2. CASE DashC
    BY <2>2 DEF DashC, OneShot, OneShotFails, OneShotEnds, Leave
  <2>3. CASE ReplExits \/ ReplGoesOn \/ HarnessTakes \/ EmbedderTakes
    BY <2>3 DEF ReplExits, ReplGoesOn, HarnessTakes, EmbedderTakes, Leave
  <2>4. CASE ReplLine
    <3>1. CASE procLive
      BY <2>4, <3>1, FromProcessType DEF ReplLine
    <3>2. CASE ~procLive
      BY <2>4, <3>2 DEF ReplLine
    <3> QED BY <3>1, <3>2
  <2>5. CASE HarnessCase \/ EmbedderScript
    BY <2>5, OtherKinds DEF HarnessCase, EmbedderScript, OneShotEnds, RunSource
  <2> QED BY <2>1, <2>2, <2>3, <2>4, <2>5 DEF Callers
<1>2. CASE UNCHANGED <<at, lines, status, result, script, ran>>
  BY <1>2 DEF WalkInv, Walked, Waiting, Ended, Done, Line
<1>3. CASE at' \in {"idle", "oneshot", "exited"}
  BY <1>3 DEF WalkInv
<1>4. ASSUME NEW s \in Scripts, NEW e \in EnvType, RunSource(s, e) PROVE WalkInv'
  <2>1. script' = s /\ ran' = <<>> /\ status' = 0
    BY <1>4 DEF RunSource
  <2>2. CASE HasNul(s)
    BY <1>4, <2>2 DEF RunSource, WalkInv, Err
  <2>3. CASE ~HasNul(s)
    <3>1. at' = "lines" /\ lines' = s
      BY <1>4, <2>3 DEF RunSource
    <3>2. s \in Seq(LineType) /\ Len(s) \in Nat
      BY LenProperties
    <3>3. Follow(s, s, 0) /\ 0 \in 0 .. Len(s)
      BY <3>2 DEF Follow
    <3>4. Done(0)' = <<>>
      <4>1. Upto(s, 0) = <<>>
        BY SubSeqEmpty DEF Upto
      <4> QED BY <2>1, <4>1, KeepEmpty DEF Done
    <3>5. Heads(<<>>) = <<>> /\ NoExit(<<>>, Len(<<>>)) /\ LastStatus(<<>>) = 0
      BY EmptySeq DEF Heads, NoExit, LastStatus
    <3>6. Walked(0)'
      BY <2>1, <3>1, <3>3, <3>4, <3>5 DEF Walked
    <3> QED BY <2>1, <3>1, <3>3, <3>6 DEF WalkInv
  <2> QED BY <2>2, <2>3
<1> QED BY <1>1, <1>2, <1>3, <1>4

(* The result of run_script speaks of the line that ran last: no line after *)
(* an exit or an error has run, none before it was left out, and its status *)
(* is the script's, for scripts of any length.                              *)
THEOREM StatusSpeaksOfLastLine == Spec => []StatusIsLastLine
<1>1. Init => WalkInv
  BY DEF Init, WalkInv
<1>2. TypeOK /\ WalkInv /\ [Next]_vars => WalkInv'
  BY WalkOfExecutor, WalkOfOthers DEF Next
<1> QED BY <1>1, <1>2, WalkMeans, ExecTypes, PTL DEF Spec

-----------------------------------------------------------------------------
(* What a case of the harness means.                                        *)

InBox(b) == {d \in dirs : d \in BoxPath(b)}

Meanings(b) ==
  [kind : {"runs", "exits", "refused", "outside"}, status : Int,
   cwd : BoxPath(b), home : SUBSET {<<b>>}]

(* A line a case may have if it is to mean the same everywhere. *)
CaseLine == {l \in LineType : l.op # "nul" /\ (l.op = "cd" => ~l.abs)}

Plain(s) == \A i \in DOMAIN s : s[i] \in CaseLine

(* The directories a line goes through: of a cd, those of its walk. *)
LineGoals(m, line) ==
  IF line.op = "home" THEN m.home
  ELSE {Walk(m.cwd, line.path)[k] : k \in DOMAIN Walk(m.cwd, line.path)}

LineGoal(m, line) ==
  IF line.op = "home" THEN CHOOSE d \in m.home : TRUE
  ELSE Walk(m.cwd, line.path)[Len(line.path)]

Leaves(m, line) == line.op = "cd" /\ <<>> \in LineGoals(m, line)

(* Reads, of the directories D. *)
ReadsIn(D, m, line) ==
  IF m.kind # "runs" \/ line.op = "blank" THEN m
  ELSE CASE line.op \in {"cmd", "bad"} -> [m EXCEPT !.kind = "refused"]
         [] line.op = "exit" ->
              [m EXCEPT !.kind = "exits", !.status = ExitArgument(line)]
         [] OTHER ->
              IF Leaves(m, line) THEN [m EXCEPT !.kind = "outside"]
              ELSE IF LineGoals(m, line) \subseteq D /\ LineGoals(m, line) # {}
              THEN [m EXCEPT !.status = 0, !.cwd = LineGoal(m, line)]
              ELSE [m EXCEPT !.status = 1]

CaseStep(D, b) == [p \in Meanings(b) \X CaseLine |-> ReadsIn(D, p[1], p[2])]

(* A line that does not leave the box goes through the box only. *)
LEMMA GoalsInBox ==
  ASSUME NEW b, <<b>> \in Path, NEW m \in Meanings(b), NEW l \in CaseLine,
         l.op \in {"cd", "home"}, ~Leaves(m, l)
  PROVE  /\ LineGoals(m, l) \subseteq BoxPath(b)
         /\ LineGoals(m, l) # {} => LineGoal(m, l) \in LineGoals(m, l)
         /\ l.op = "cd" => LineGoals(m, l) # {}
<1>1. CASE l.op = "home"
  <2>1. LineGoals(m, l) = m.home /\ m.home \subseteq {<<b>>}
    BY <1>1 DEF LineGoals, Meanings
  <2>2. <<b>> \in BoxPath(b)
    BY DEF BoxPath
  <2>3. LineGoal(m, l) = CHOOSE d \in m.home : TRUE
    BY <1>1 DEF LineGoal
  <2> QED BY <1>1, <2>1, <2>2, <2>3
<1>2. CASE l.op = "cd"
  <2> DEFINE c == m.cwd
             p == l.path
             w == Walk(c, p)
             n == Len(p)
  <2>1. c \in BoxPath(b) /\ p \in Path
    BY <1>2 DEF Meanings, CaseLine, LineType
  <2>2. LineGoals(m, l) = {w[k] : k \in DOMAIN w} /\ LineGoal(m, l) = w[n]
    BY <1>2 DEF LineGoals, LineGoal
  <2>3. n \in Nat /\ DOMAIN w = 0 .. n
    <3>1. c \in Path
      BY <2>1 DEF BoxPath
    <3> HIDE DEF c, p
    <3> QED BY <2>1, <3>1, WalkIs DEF Path
  <2>4. \A k \in 0 .. n : w[k] # <<>>
    <3> HIDE DEF c, p, w, n
    <3> QED BY <1>2, <2>2, <2>3 DEF Leaves
  <2>5. \A k \in 0 .. n : w[k] \in BoxPath(b)
    <3> HIDE DEF c, p
    <3> QED BY <2>1, <2>4, WalkInBox
  <2> HIDE DEF c, p, w, n
  <2>6. n \in 0 .. n
    BY <2>3
  <2> QED BY <2>2, <2>3, <2>5, <2>6
<1> QED BY <1>1, <1>2

LEMMA ReadsType ==
  ASSUME NEW D, NEW b, <<b>> \in Path, NEW m \in Meanings(b), NEW l \in CaseLine
  PROVE  ReadsIn(D, m, l) \in Meanings(b)
<1>1. CASE m.kind # "runs" \/ l.op = "blank"
  BY <1>1 DEF ReadsIn
<1>2. CASE m.kind = "runs" /\ l.op \in {"cmd", "bad"}
  BY <1>2 DEF ReadsIn, Meanings
<1>3. CASE m.kind = "runs" /\ l.op = "exit"
  <2>1. l.code \subseteq Int
    BY <1>3 DEF CaseLine, LineType
  <2>2. ExitArgument(l) \in Int
    BY <2>1 DEF ExitArgument
  <2>3. ReadsIn(D, m, l) = [m EXCEPT !.kind = "exits", !.status = ExitArgument(l)]
    BY <1>3 DEF ReadsIn
  <2> QED BY <2>2, <2>3 DEF Meanings
<1>4. CASE m.kind = "runs" /\ l.op \in {"cd", "home"}
  <2> DEFINE to == LineGoals(m, l)
             c == LineGoal(m, l)
             there == to \subseteq D /\ to # {}
  <2>1. ReadsIn(D, m, l) = IF Leaves(m, l) THEN [m EXCEPT !.kind = "outside"]
                           ELSE IF there
                           THEN [m EXCEPT !.status = 0, !.cwd = c]
                           ELSE [m EXCEPT !.status = 1]
    BY <1>4 DEF ReadsIn
  <2>2. CASE Leaves(m, l)
    BY <2>1, <2>2 DEF Meanings
  <2>3. CASE ~Leaves(m, l) /\ there
    <3>1. c \in BoxPath(b)
      BY <1>4, <2>3, GoalsInBox
    <3>2. ReadsIn(D, m, l) = [m EXCEPT !.status = 0, !.cwd = c]
      <4> HIDE DEF there, c
      <4> QED BY <2>1, <2>3
    <3> HIDE DEF c
    <3>3. PICK k \in {"runs", "exits", "refused", "outside"}, st \in Int, w \in BoxPath(b),
               h \in SUBSET {<<b>>} :
            m = [kind |-> k, status |-> st, cwd |-> w, home |-> h]
      BY DEF Meanings
    <3>4. [m EXCEPT !.status = 0, !.cwd = c]
            = [kind |-> k, status |-> 0, cwd |-> c, home |-> h]
      <4> DEFINE q == [m EXCEPT !.status = 0]
      <4>1. [m EXCEPT !.status = 0, !.cwd = c] = [q EXCEPT !.cwd = c]
        OBVIOUS
      <4>2. q = [kind |-> k, status |-> 0, cwd |-> w, home |-> h]
        BY <3>3
      <4> HIDE DEF q
      <4>3. [q EXCEPT !.cwd = c] = [kind |-> k, status |-> 0, cwd |-> c, home |-> h]
        BY <4>2
      <4> QED BY <4>1, <4>3
    <3> QED BY <3>1, <3>2, <3>4 DEF Meanings
  <2>4. CASE ~Leaves(m, l) /\ ~there
    <3>1. ReadsIn(D, m, l) = [m EXCEPT !.status = 1]
      <4> HIDE DEF there, c
      <4> QED BY <2>1, <2>4
    <3> QED BY <3>1 DEF Meanings
  <2> QED BY <2>2, <2>3, <2>4
<1>5. l.op \in {"blank", "home", "cmd", "bad", "cd", "exit"}
  BY DEF CaseLine, LineType
<1> QED BY <1>1, <1>2, <1>3, <1>4, <1>5

LEMMA CaseStepType ==
  ASSUME NEW D, NEW b, <<b>> \in Path
  PROVE  StepOf(CaseStep(D, b), Meanings(b), CaseLine)
<1>1. \A p \in Meanings(b) \X CaseLine : ReadsIn(D, p[1], p[2]) \in Meanings(b)
  BY ReadsType
<1> QED BY <1>1 DEF StepOf, CaseStep

(* Reads looks at no directory outside the box. *)
LEMMA ReadsOnlyItsBox ==
  ASSUME NEW b, <<b>> \in Path, NEW m \in Meanings(b), NEW l \in CaseLine
  PROVE  Reads(m, l) = CaseStep(InBox(b), b)[<<m, l>>]
<1>1. CaseStep(InBox(b), b)[<<m, l>>] = ReadsIn(InBox(b), m, l)
  BY DEF CaseStep
<1> DEFINE to == LineGoals(m, l)
           c == LineGoal(m, l)
<1>2. CASE m.kind = "runs" /\ l.op \in {"cd", "home"}
  <2>1. Reads(m, l) = IF Leaves(m, l) THEN [m EXCEPT !.kind = "outside"]
                      ELSE IF to \subseteq dirs /\ to # {}
                      THEN [m EXCEPT !.status = 0, !.cwd = c]
                      ELSE [m EXCEPT !.status = 1]
    <3>1. CASE l.op = "home"
      <4>1. to = m.home /\ c = (CHOOSE d \in m.home : TRUE) /\ ~Leaves(m, l)
        BY <3>1 DEF LineGoals, LineGoal, Leaves
      <4>2. Reads(m, l) = IF m.home \subseteq dirs /\ m.home # {}
                          THEN [m EXCEPT !.status = 0, !.cwd = CHOOSE d \in m.home : TRUE]
                          ELSE [m EXCEPT !.status = 1]
        BY <1>2, <3>1 DEF Reads
      <4> HIDE DEF to, c
      <4> QED BY <4>1, <4>2
    <3>2. CASE l.op = "cd"
      <4> DEFINE w == Walk(m.cwd, l.path)
                 passed == {w[k] : k \in DOMAIN w}
      <4>1. to = passed /\ c = w[Len(l.path)] /\ (Leaves(m, l) <=> <<>> \in passed)
        BY <3>2 DEF LineGoals, LineGoal, Leaves
      <4>2. Reads(m, l) = IF <<>> \in passed THEN [m EXCEPT !.kind = "outside"]
                          ELSE IF passed \subseteq dirs
                          THEN [m EXCEPT !.status = 0, !.cwd = w[Len(l.path)]]
                          ELSE [m EXCEPT !.status = 1]
        BY <1>2, <3>2 DEF Reads
      <4>3. ~Leaves(m, l) => to # {}
        BY <3>2, GoalsInBox
      <4> HIDE DEF to, c, w, passed
      <4> QED BY <4>1, <4>2, <4>3
    <3> QED BY <1>2, <3>1, <3>2
  <2>2. ReadsIn(InBox(b), m, l) = IF Leaves(m, l) THEN [m EXCEPT !.kind = "outside"]
                                  ELSE IF to \subseteq InBox(b) /\ to # {}
                                  THEN [m EXCEPT !.status = 0, !.cwd = c]
                                  ELSE [m EXCEPT !.status = 1]
    BY <1>2 DEF ReadsIn
  <2>3. ~Leaves(m, l) => (to \subseteq InBox(b) <=> to \subseteq dirs)
    BY <1>2, GoalsInBox DEF InBox
  <2> HIDE DEF to, c
  <2> QED BY <1>1, <2>1, <2>2, <2>3
<1>3. CASE ~(m.kind = "runs" /\ l.op \in {"cd", "home"})
  <2>1. l.op \in {"blank", "home", "cmd", "bad", "cd", "exit"}
    BY DEF CaseLine, LineType
  <2> QED BY <1>1, <1>3, <2>1 DEF Reads, ReadsIn
<1> QED BY <1>2, <1>3

(* What a case means is a fold over its lines. *)
LEMMA CaseIsFold ==
  ASSUME NEW b, <<b>> \in Path, NEW s, ListOf(s, CaseLine), NEW m \in Meanings(b)
  PROVE  FoldLeft(Reads, m, s) = Fold(CaseStep(InBox(b), b), m, s)
<1> DEFINE step == CaseStep(InBox(b), b)
           Val == Meanings(b)
           E == CaseLine
<1>1. StepOf(step, Val, E)
  BY CaseStepType
<1>2. PICK f : FoldedBy(f, Val, step, m, s)
  <2>1. m \in Val /\ ListOf(s, E)
    OBVIOUS
  <2> HIDE DEF step, Val, E
  <2> QED BY <1>1, <2>1, FoldRule
<1>3. Len(s) \in Nat /\ DOMAIN s = 1 .. Len(s) /\ \A i \in DOMAIN s : s[i] \in E
  BY DEF ListOf
<1>4. \A v \in Val, x \in E : Reads(v, x) = step[<<v, x>>]
  BY ReadsOnlyItsBox
<1> HIDE DEF step, Val, E
<1>5. ASSUME NEW T \in SUBSET DOMAIN s, T # {}
      PROVE  f[T] = Reads(f[T \ {Max(T)}], s[Max(T)])
  <2>1. Max(T) \in DOMAIN s
    BY <1>3, <1>5, GreatestNumber
  <2>2. f[T] = step[<<f[T \ {Max(T)}], s[Max(T)]>>]
    BY <1>2, <1>5 DEF FoldedBy, FoldsOver
  <2>3. f[T \ {Max(T)}] \in Val /\ s[Max(T)] \in E
    BY <1>2, <1>3, <2>1 DEF FoldedBy
  <2> QED BY <1>4, <2>2, <2>3
<1>6. f = [T \in SUBSET DOMAIN s |->
             IF T = {} THEN m ELSE Reads(f[T \ {Max(T)}], s[Max(T)])]
  <2>1. f[{}] = m /\ f = [T \in SUBSET DOMAIN s |-> f[T]]
    BY <1>2 DEF FoldedBy, FoldsOver
  <2> QED BY <1>5, <2>1
<1>7. PICK g : /\ g = [T \in SUBSET DOMAIN s |->
                         IF T = {} THEN m ELSE Reads(g[T \ {Max(T)}], s[Max(T)])]
               /\ FoldLeft(Reads, m, s) = g[DOMAIN s]
  <2>1. \E g : g = [T \in SUBSET DOMAIN s |->
                      IF T = {} THEN m ELSE Reads(g[T \ {Max(T)}], s[Max(T)])]
    BY <1>6
  <2> QED BY <2>1 DEF FoldLeft, MapThenFoldSet
<1>8. f[{}] = g[{}] /\ AgreeOnLast(s, f, g) /\ IsSeq(s)
  BY <1>3, <1>6, <1>7 DEF AgreeOnLast, IsSeq
<1>9. \A T \in SUBSET DOMAIN s : f[T] = g[T]
  BY <1>8, FoldsAgree
<1> QED BY <1>2, <1>7, <1>9 DEF FoldedBy, step

CaseStart(b) == [kind |-> "runs", status |-> 0, cwd |-> <<b>>, home |-> TheEnv.home]

(* What the first n lines mean in the box b. *)
After(b, n) == Fold(CaseStep(InBox(b), b), CaseStart(b), Upto(script, n))

(* The state of the executor, read as a meaning. *)
Current == [kind |-> "runs", status |-> status, cwd |-> TheEnv.cwd, home |-> TheEnv.home]

ResultOf(m) ==
  CASE m.kind = "runs"    -> Ok(m.status, FALSE)
    [] m.kind = "exits"   -> Ok(m.status, TRUE)
    [] m.kind = "refused" -> Err("refused")

(* A case that has climbed out of its box has no meaning of its own. *)
Out(b, n) == After(b, n).kind = "outside"

CaseEnv(b) ==
  /\ b \in Boxes /\ began = <<b>>
  /\ at # "child"
  /\ TheEnv.policy = "strict" /\ TheEnv.home \in SUBSET {<<b>>}
  /\ HasNul(script) => at = "returned" /\ result.kind = "parse"

(* The walk of a case has the meaning of the lines it has passed. *)
CaseRuns(b) ==
  /\ Plain(script) /\ at = "lines" =>
       \/ \E n \in 0 .. Len(script) : Out(b, n)
       \/ /\ TheEnv.cwd \in BoxPath(b)
          /\ \E n \in 0 .. Len(script) : Follow(lines, script, n) /\ After(b, n) = Current
  /\ Plain(script) /\ at = "returned" =>
       \E n \in 0 .. Len(script) :
         /\ Out(b, n) \/ result = ResultOf(After(b, n))
         /\ After(b, n).kind # "runs" \/ n = Len(script)

CaseInv ==
  host = "harness" /\ at \in {"lines", "child", "returned"} =>
    \E b \in Boxes : CaseEnv(b) /\ CaseRuns(b)

LEMMA AfterFacts ==
  ASSUME NEW b \in Boxes, TheEnv.home \in SUBSET {<<b>>}, script \in Seq(LineType),
         Plain(script), NEW n \in 0 .. Len(script)
  PROVE  /\ After(b, n) \in Meanings(b)
         /\ After(b, 0) = CaseStart(b)
         /\ n < Len(script) =>
              /\ script[n + 1] \in CaseLine
              /\ After(b, n + 1) = ReadsIn(InBox(b), After(b, n), script[n + 1])
         /\ After(b, n).kind # "runs" => After(b, Len(script)) = After(b, n)
         /\ After(b, Len(script)) = FoldLeft(Reads, CaseStart(b), script)
<1> DEFINE step == CaseStep(InBox(b), b)
           Val == Meanings(b)
           E == CaseLine
           m == CaseStart(b)
           s == script
<1>1. <<b>> \in Path /\ <<b>> \in BoxPath(b)
  <2>1. b \in STRING
    OBVIOUS
  <2> QED BY <2>1 DEF Path, BoxPath
<1>2. m \in Val
  BY <1>1 DEF CaseStart, Meanings
<1>3. StepOf(step, Val, E)
  BY <1>1, CaseStepType
<1>4. ListOf(s, E) /\ Len(s) \in Nat
  <2>1. Len(s) \in Nat /\ DOMAIN s = 1 .. Len(s) /\ s = [i \in 1 .. Len(s) |-> s[i]]
    BY LenProperties
  <2>2. \A i \in 1 .. Len(s) : s[i] \in E
    BY <2>1 DEF Plain
  <2> HIDE DEF E, s
  <2> QED BY <2>1, <2>2 DEF ListOf
<1>5. FoldLeft(Reads, m, s) = Fold(step, m, s)
  BY <1>1, <1>2, <1>4, CaseIsFold
<1>6. \A v \in Val, x \in E : step[<<v, x>>] = ReadsIn(InBox(b), v, x)
  BY DEF CaseStep
<1>7. \A v \in Val, x \in E : v.kind # "runs" => step[<<v, x>>] = v
  BY <1>6 DEF ReadsIn
<1> DEFINE F(k) == Fold(step, m, Upto(s, k))
<1> HIDE DEF step, Val, E, m, s
<1>8. /\ n \in 0 .. Len(s) /\ 0 \in 0 .. Len(s)
      /\ Upto(s, 0) = <<>> /\ Upto(s, Len(s)) = s
  BY <1>4, UptoFacts DEF s
<1>9. /\ F(n) \in Val
      /\ n < Len(s) => s[n + 1] \in E /\ F(n + 1) = step[<<F(n), s[n + 1]>>]
  <2> HIDE DEF F
  <2>1. n < Len(s) => s[n + 1] \in E
    BY <1>4, <1>8, UptoGrows
  <2>2. /\ Fold(step, m, Upto(s, n)) \in Val
        /\ n < Len(s) => Fold(step, m, Upto(s, n + 1))
                            = step[<<Fold(step, m, Upto(s, n)), s[n + 1]>>]
    <3>1. m \in Val /\ StepOf(step, Val, E) /\ ListOf(s, E) /\ n \in 0 .. Len(s)
      BY <1>2, <1>3, <1>4, <1>8
    <3>2. Fold(step, m, Upto(s, n)) \in Val
      BY <3>1, FoldUpto
    <3>3. ASSUME n < Len(s)
          PROVE  Fold(step, m, Upto(s, n + 1)) = step[<<Fold(step, m, Upto(s, n)), s[n + 1]>>]
      <4> DEFINE u == Upto(s, n)
                 x == s[n + 1]
      <4>1. ListOf(u, E)
        BY <3>1, UptoFacts
      <4>2. x \in E
        BY <3>1, <3>3, UptoGrows
      <4>3. Upto(s, n + 1) = Append(u, x)
        BY <3>1, <3>3, UptoGrows
      <4> HIDE DEF u, x
      <4>4. Fold(step, m, Append(u, x)) = step[<<Fold(step, m, u), x>>]
        BY <3>1, <4>1, <4>2, FoldAppend
      <4> QED BY <4>3, <4>4 DEF u, x
    <3> QED BY <3>2, <3>3
  <2> QED BY <2>1, <2>2 DEF F
<1>10. F(0) = m /\ F(Len(s)) = Fold(step, m, s)
  BY <1>2, <1>3, <1>8, FoldEmpty
<1>11. F(n).kind # "runs" => Fold(step, m, s) = F(n)
  <2> SUFFICES ASSUME F(n).kind # "runs" PROVE Fold(step, m, s) = F(n)
    OBVIOUS
  <2>1. \A x \in E : step[<<F(n), x>>] = F(n)
    BY <1>7, <1>9
  <2> QED BY <1>2, <1>3, <1>4, <1>8, <2>1, FoldFixed
<1>12. After(b, n) = F(n) /\ After(b, 0) = F(0) /\ After(b, n + 1) = F(n + 1)
       /\ After(b, Len(script)) = F(Len(s))
  BY DEF After, step, m, s
<1> HIDE DEF F
<1>13. n < Len(s) => F(n + 1) = ReadsIn(InBox(b), F(n), s[n + 1])
  BY <1>6, <1>9
<1> QED BY <1>5, <1>9, <1>10, <1>11, <1>12, <1>13 DEF Val, E, m, s

LEMMA CaseMeans == TypeOK /\ CaseInv => CaseMeansItsScript
<1> SUFFICES ASSUME TypeOK, CaseInv, host = "harness", at = "returned", result.kind # "parse",
                    \A i \in DOMAIN script : script[i].op = "cd" => ~script[i].abs
             PROVE  LET m == FoldLeft(Reads, [kind |-> "runs", status |-> 0, cwd |-> began,
                                              home |-> TheEnv.home], script)
                    IN /\ began \in {<<b>> : b \in Boxes}
                       /\ m.kind # "outside" => result = ResultOf(m)
  BY DEF CaseMeansItsScript, ResultOf
<1>1. PICK b \in Boxes : CaseEnv(b) /\ CaseRuns(b)
  BY DEF CaseInv
<1>2. script \in Seq(LineType) /\ TheEnv.home \in SUBSET {<<b>>} /\ began = <<b>>
  BY <1>1 DEF TypeOK, TypeOfHost, CaseEnv
<1>3. Plain(script)
  <2>1. \A i \in DOMAIN script : script[i] \in LineType
    BY <1>2
  <2> QED BY <1>1, <2>1 DEF CaseEnv, HasNul, Plain, CaseLine
<1>4. PICK n \in 0 .. Len(script) :
         /\ Out(b, n) \/ result = ResultOf(After(b, n))
         /\ After(b, n).kind # "runs" \/ n = Len(script)
  BY <1>1, <1>3 DEF CaseRuns
<1>5. After(b, n) = FoldLeft(Reads, CaseStart(b), script)
  BY <1>2, <1>3, <1>4, AfterFacts
<1> QED BY <1>2, <1>4, <1>5 DEF CaseStart, Out

LEMMA CaseOfExecutor == TypeOK /\ CaseInv /\ Executor => CaseInv'
<1> SUFFICES ASSUME TypeOK, CaseInv, Executor, host' = "harness",
                    at' \in {"lines", "child", "returned"}
             PROVE  \E b \in Boxes : CaseEnv(b)' /\ CaseRuns(b)'
  BY DEF CaseInv
<1>1. UNCHANGED <<host, script, began, dirs>>
  BY DEF Executor, Blank, Exit, Cd, CdFails, Refuse, Spawn, SpawnFails, ChildEnds, Finish
<1>2. at \in {"lines", "child"}
  BY DEF Executor, Blank, Exit, Cd, CdFails, Refuse, Spawn, SpawnFails, ChildEnds,
         Finish, External, Next_line
<1>3. PICK b \in Boxes : CaseEnv(b) /\ CaseRuns(b)
  BY <1>1, <1>2 DEF CaseInv
<1>4. TheEnv \in EnvType /\ env = {TheEnv}
  BY <1>2, TheEnvType DEF TypeOK, TypeOfRun
<1>5. /\ at = "lines" /\ ~HasNul(script) /\ script \in Seq(LineType)
      /\ TheEnv.policy = "strict" /\ TheEnv.home \in SUBSET {<<b>>}
  BY <1>2, <1>3 DEF CaseEnv, TypeOK, TypeOfHost
<1>6. <<b>> \in Path
  <2>1. b \in STRING
    OBVIOUS
  <2> QED BY <2>1 DEF Path
<1>7. ASSUME TheEnv'.home = TheEnv.home, TheEnv'.policy = TheEnv.policy, at' # "child"
      PROVE  CaseEnv(b)'
  BY <1>1, <1>3, <1>5, <1>7 DEF CaseEnv, HasNul
<1>8. ASSUME TheEnv'.home = TheEnv.home, NEW n PROVE After(b, n)' = After(b, n)
  BY <1>1, <1>8 DEF After, InBox, CaseStart
<1>20. TheEnv'.home = TheEnv.home /\ TheEnv'.policy = TheEnv.policy /\ at' # "child"
  <2>1. CASE env' = env
    <3>1. at' # "child"
      <4>1. ~Spawn
        BY <1>5 DEF Spawn, MayFallBack
      <4> QED BY <4>1, <1>5 DEF Executor, Blank, Exit, Cd, CdFails, Refuse, SpawnFails,
                          ChildEnds, Finish, Continue, Abort
    <3> QED BY <2>1, <3>1 DEF TheEnv
  <2>2. CASE Cd
    <3>1. PICK d \in Targets(Line, TheEnv) : env' = {[TheEnv EXCEPT !.cwd = d]}
      BY <2>2 DEF Cd
    <3>2. TheEnv' = [TheEnv EXCEPT !.cwd = d]
      BY <3>1 DEF TheEnv
    <3> QED BY <1>4, <2>2, <3>2 DEF EnvType, Cd, Continue
  <2>3. Cd \/ env' = env
    BY DEF Executor, Blank, Exit, CdFails, Refuse, Spawn, SpawnFails, ChildEnds, Finish
  <2> QED BY <2>1, <2>2, <2>3
<1>9. SUFFICES ASSUME Plain(script)
               PROVE  \E c \in Boxes : CaseEnv(c)' /\ CaseRuns(c)'
  <2>1. ASSUME ~Plain(script) PROVE CaseRuns(b)'
    BY <1>1, <2>1 DEF CaseRuns, Plain
  <2> QED BY <1>3, <1>7, <1>9, <1>20, <2>1
<1>21. ASSUME NEW k \in 0 .. Len(script), Out(b, k), CaseEnv(b)'
       PROVE  \E c \in Boxes : CaseEnv(c)' /\ CaseRuns(c)'
  <2>1. TheEnv'.home = TheEnv.home
    BY <1>20
  <2>2. Out(b, k)' /\ After(b, k)'.kind # "runs"
    BY <1>8, <1>21, <2>1 DEF Out
  <2>3. CaseRuns(b)'
    BY <1>1, <1>7, <1>21, <2>2 DEF CaseRuns, CaseEnv
  <2> QED BY <1>21, <2>3
<1>22. SUFFICES ASSUME \A k \in 0 .. Len(script) : ~Out(b, k)
                PROVE  \E c \in Boxes : CaseEnv(c)' /\ CaseRuns(c)'
  BY <1>7, <1>20, <1>21
<1>10. PICK n \in 0 .. Len(script) : Follow(lines, script, n) /\ After(b, n) = Current
  BY <1>3, <1>5, <1>9, <1>22 DEF CaseRuns
<1>11. /\ lines = <<>> => n = Len(script)
       /\ lines # <<>> =>
            /\ n + 1 \in 0 .. Len(script)
            /\ Line \in CaseLine
            /\ Follow(Tail(lines), script, n + 1)
            /\ After(b, n + 1) = ReadsIn(InBox(b), Current, Line)
  <2>1. /\ lines = <<>> => n = Len(script)
        /\ lines # <<>> =>
             /\ n + 1 \in 0 .. Len(script) /\ script[n + 1] = Line
             /\ Follow(Tail(lines), script, n + 1)
    BY <1>10, FollowsScript
  <2>2. lines # <<>> => n < Len(script)
    <3>1. Len(script) \in Nat
      BY <1>5, LenProperties
    <3> QED BY <2>1, <3>1
  <2>3. n < Len(script) =>
              /\ script[n + 1] \in CaseLine
              /\ After(b, n + 1) = ReadsIn(InBox(b), After(b, n), script[n + 1])
    BY <1>5, <1>9, AfterFacts
  <2> QED BY <1>10, <2>1, <2>2, <2>3
<1>12. Current \in Meanings(b) /\ TheEnv.cwd \in BoxPath(b)
  <2>1. After(b, n) \in Meanings(b)
    BY <1>5, <1>9, AfterFacts
  <2> QED BY <1>3, <1>5, <1>9, <1>10, <1>22, <2>1 DEF CaseRuns
<1>13. /\ Current.kind = "runs" /\ Current.cwd = TheEnv.cwd /\ Current.home = TheEnv.home
       /\ Current.status = status
  BY DEF Current
<1>24. ASSUME lines # <<>>, Line.op \in {"cd", "home"} PROVE ~Leaves(Current, Line)
  <2> SUFFICES ASSUME Leaves(Current, Line) PROVE FALSE
    OBVIOUS
  <2>1. After(b, n + 1) = [Current EXCEPT !.kind = "outside"]
    BY <1>11, <1>13, <1>24 DEF ReadsIn
  <2>2. After(b, n + 1).kind = "outside"
    BY <2>1 DEF Current
  <2> QED BY <1>11, <1>22, <1>24, <2>2 DEF Out
<1>25. ASSUME lines # <<>>, Line.op \in {"cd", "home"}
       PROVE  /\ Targets(Line, TheEnv) \subseteq {LineGoal(Current, Line)}
              /\ Targets(Line, TheEnv) # {} <=>
                   LineGoals(Current, Line) \subseteq InBox(b) /\ LineGoals(Current, Line) # {}
  <2>1. ~Leaves(Current, Line) /\ Line \in CaseLine /\ Current \in Meanings(b)
    BY <1>11, <1>12, <1>24, <1>25
  <2>2. LineGoals(Current, Line) \subseteq BoxPath(b)
    BY <1>6, <1>25, <2>1, GoalsInBox
  <2>3. CASE Line.op = "home"
    <3>1. LineGoals(Current, Line) = TheEnv.home /\ TheEnv.home \subseteq {<<b>>}
          /\ LineGoal(Current, Line) = CHOOSE d \in TheEnv.home : TRUE
      BY <1>5, <1>13, <2>3 DEF LineGoals, LineGoal
    <3>2. Targets(Line, TheEnv) = {d \in TheEnv.home : d \in InBox(b)}
      BY <2>2, <2>3, <3>1 DEF Targets, IsDir, InBox, BoxPath
    <3> QED BY <3>1, <3>2
  <2>4. CASE Line.op = "cd"
    <3> DEFINE w == Walk(TheEnv.cwd, Line.path)
               g == w[Len(Line.path)]
    <3>1. /\ Resolve(TheEnv.cwd, Line) = w
          /\ LineGoals(Current, Line) = {w[k] : k \in DOMAIN w}
          /\ LineGoal(Current, Line) = g
      <4>1. ~Line.abs
        BY <2>1, <2>4 DEF CaseLine
      <4> QED BY <1>13, <2>4, <4>1 DEF LineGoals, LineGoal, Resolve
    <3>2. LineGoals(Current, Line) # {}
      BY <1>6, <2>1, <2>4, GoalsInBox
    <3>3. \A k \in DOMAIN w : IsDir(w[k]) <=> w[k] \in InBox(b)
      <4> HIDE DEF w
      <4> QED BY <2>2, <3>1 DEF IsDir, InBox, BoxPath
    <3>4. Targets(Line, TheEnv) = {d \in {g} : \A k \in DOMAIN w : IsDir(w[k])}
      BY <2>4, <3>1 DEF Targets
    <3> HIDE DEF w, g
    <3> QED BY <3>1, <3>2, <3>3, <3>4
  <2> QED BY <1>25, <2>3, <2>4
<1>14. CASE Blank
  <2>1. /\ lines # <<>> /\ Line.op = "blank" /\ env' = env
        /\ status' = status /\ lines' = Tail(lines) /\ at' = "lines"
    BY <1>14 DEF Blank, Next_line, Continue
  <2>2. TheEnv' = TheEnv /\ Current' = Current
    BY <2>1 DEF TheEnv, Current
  <2>3. After(b, n + 1) = Current
    BY <1>11, <2>1 DEF ReadsIn
  <2>4. After(b, n + 1)' = After(b, n + 1)
    BY <1>8, <2>2
  <2>5. CaseRuns(b)'
    BY <1>1, <1>11, <1>12, <2>1, <2>2, <2>3, <2>4 DEF CaseRuns
  <2> QED BY <1>7, <2>1, <2>2, <2>5
<1>15. CASE Exit
  <2>1. /\ lines # <<>> /\ Line.op = "exit" /\ env' = env
        /\ status' = ExitArgument(Line) /\ result' = Ok(status', TRUE) /\ at' = "returned"
    BY <1>15 DEF Exit, Next_line
  <2>2. TheEnv' = TheEnv
    BY <2>1 DEF TheEnv
  <2>3. After(b, n + 1) = [Current EXCEPT !.kind = "exits", !.status = ExitArgument(Line)]
    BY <1>11, <1>13, <2>1 DEF ReadsIn
  <2>4. After(b, n + 1).kind = "exits" /\ After(b, n + 1).status = ExitArgument(Line)
    <3> DEFINE x == ExitArgument(Line)
    <3> HIDE DEF x
    <3> QED BY <2>3 DEF Current, x
  <2>5. After(b, n + 1)' = After(b, n + 1)
    BY <1>8, <2>2
  <2>6. CaseRuns(b)'
    BY <1>1, <1>11, <2>1, <2>4, <2>5 DEF CaseRuns, ResultOf
  <2> QED BY <1>7, <2>1, <2>2, <2>6
<1>16. CASE Cd
  <2>1. /\ lines # <<>> /\ Line.op \in {"cd", "home"}
        /\ status' = 0 /\ lines' = Tail(lines) /\ at' = "lines"
    BY <1>16 DEF Cd, Next_line, Continue
  <2>2. PICK d \in Targets(Line, TheEnv) : env' = {[TheEnv EXCEPT !.cwd = d]}
    BY <1>16 DEF Cd
  <2>3. TheEnv' = [TheEnv EXCEPT !.cwd = d]
    BY <2>2 DEF TheEnv
  <2>4. /\ TheEnv'.cwd = d /\ TheEnv'.home = TheEnv.home /\ TheEnv'.policy = TheEnv.policy
    BY <1>4, <2>3 DEF EnvType
  <2>5. ~Leaves(Current, Line)
    BY <1>11, <1>24, <2>1
  <2>6. /\ LineGoals(Current, Line) \subseteq InBox(b) /\ LineGoals(Current, Line) # {}
        /\ d = LineGoal(Current, Line)
    BY <1>11, <2>1, <2>2, <2>5, <1>25
  <2>7. d \in BoxPath(b)
    BY <1>6, <1>11, <1>12, <2>1, <2>5, <2>6, GoalsInBox
  <2>8. After(b, n + 1) = [Current EXCEPT !.status = 0, !.cwd = d]
    BY <1>11, <1>13, <2>1, <2>5, <2>6 DEF ReadsIn
  <2>9. After(b, n + 1) = Current'
    <3> DEFINE q == [Current EXCEPT !.status = 0]
    <3>1. [Current EXCEPT !.status = 0, !.cwd = d] = [q EXCEPT !.cwd = d]
      OBVIOUS
    <3>2. q = [kind |-> "runs", status |-> 0, cwd |-> TheEnv.cwd, home |-> TheEnv.home]
      BY DEF Current
    <3> HIDE DEF q
    <3>3. [q EXCEPT !.cwd = d]
            = [kind |-> "runs", status |-> 0, cwd |-> d, home |-> TheEnv.home]
      BY <3>2
    <3>4. Current' = [kind |-> "runs", status |-> 0, cwd |-> d, home |-> TheEnv.home]
      BY <2>1, <2>4 DEF Current
    <3> QED BY <2>8, <3>1, <3>3, <3>4
  <2>10. After(b, n + 1)' = After(b, n + 1)
    BY <1>8, <2>4
  <2>11. CaseRuns(b)'
    BY <1>1, <1>11, <2>1, <2>4, <2>7, <2>9, <2>10 DEF CaseRuns
  <2> QED BY <1>7, <2>1, <2>4, <2>11
<1>17. CASE CdFails
  <2>1. /\ lines # <<>> /\ Line.op \in {"cd", "home"} /\ env' = env
        /\ status' = 1 /\ lines' = Tail(lines) /\ at' = "lines"
    BY <1>17 DEF CdFails, Next_line, Continue
  <2>2. TheEnv' = TheEnv
    BY <2>1 DEF TheEnv
  <2>3. ~Leaves(Current, Line)
    BY <1>11, <1>24, <2>1
  <2>4. ~(LineGoals(Current, Line) \subseteq InBox(b) /\ LineGoals(Current, Line) # {})
    <3>1. Targets(Line, TheEnv) = {}
      BY <1>17 DEF CdFails
    <3> QED BY <1>11, <2>1, <2>3, <1>25, <3>1
  <2>5. After(b, n + 1) = [Current EXCEPT !.status = 1]
    BY <1>11, <1>13, <2>1, <2>3, <2>4 DEF ReadsIn
  <2>6. After(b, n + 1) = Current'
    BY <2>1, <2>2, <2>5 DEF Current
  <2>7. After(b, n + 1)' = After(b, n + 1)
    BY <1>8, <2>2
  <2>8. CaseRuns(b)'
    BY <1>1, <1>11, <1>12, <2>1, <2>2, <2>6, <2>7 DEF CaseRuns
  <2> QED BY <1>7, <2>1, <2>2, <2>8
<1>18. CASE Refuse
  <2>1. /\ lines # <<>> /\ Line.op \in {"cmd", "bad"} /\ env' = env
        /\ result' = Err("refused") /\ at' = "returned"
    BY <1>18 DEF Refuse, Abort, External, Next_line
  <2>2. TheEnv' = TheEnv
    BY <2>1 DEF TheEnv
  <2>3. After(b, n + 1) = [Current EXCEPT !.kind = "refused"]
    BY <1>11, <1>13, <2>1 DEF ReadsIn
  <2>4. After(b, n + 1).kind = "refused"
    BY <2>3 DEF Current
  <2>5. After(b, n + 1)' = After(b, n + 1)
    BY <1>8, <2>2
  <2>6. CaseRuns(b)'
    BY <1>1, <1>11, <2>1, <2>4, <2>5 DEF CaseRuns, ResultOf
  <2> QED BY <1>7, <2>1, <2>2, <2>6
<1>19. CASE Finish
  <2>1. lines = <<>> /\ at' = "returned" /\ result' = Ok(status, FALSE) /\ env' = env
    BY <1>19 DEF Finish
  <2>2. TheEnv' = TheEnv
    BY <2>1 DEF TheEnv
  <2>3. n = Len(script)
    BY <1>11, <2>1
  <2>4. After(b, n)' = Current
    BY <1>8, <1>10, <2>2
  <2>5. CaseRuns(b)'
    BY <1>1, <1>13, <2>1, <2>3, <2>4 DEF CaseRuns, ResultOf
  <2> QED BY <1>7, <2>1, <2>2, <2>5
<1>23. ~Spawn /\ ~SpawnFails /\ ~ChildEnds
  BY <1>5 DEF Spawn, SpawnFails, MayFallBack, ChildEnds
<1> QED BY <1>14, <1>15, <1>16, <1>17, <1>18, <1>19, <1>23 DEF Executor

(* Nobody else has a directory in the box. *)
LEMMA BoxIsAlone ==
  ASSUME NEW b \in Boxes, Others PROVE InBox(b)' = InBox(b)
<1>1. PICK d \in Shared : dirs' = dirs \ {d} \/ dirs' = dirs \union {d}
  BY DEF Others, RemoveDir, MakeDir
<1>2. d \notin BoxPath(b)
  BY BoxAssumption DEF BoxPath
<1> QED BY <1>1, <1>2 DEF InBox

LEMMA CaseOfOthers ==
  ASSUME TypeOK, CaseInv, Others \/ Callers \/ DashC \/ UNCHANGED vars
  PROVE  CaseInv'
<1>1. CASE Others \/ UNCHANGED vars
  <2>1. UNCHANGED <<host, env, at, lines, status, result, script, began>>
    BY <1>1 DEF Others, RemoveDir, MakeDir, vars
  <2>2. \A b \in Boxes : InBox(b)' = InBox(b)
    BY <1>1, BoxIsAlone DEF vars, InBox
  <2>3. TheEnv' = TheEnv /\ Current' = Current
    BY <2>1 DEF TheEnv, Current
  <2>4. ASSUME NEW b \in Boxes, NEW n PROVE After(b, n)' = After(b, n)
    BY <2>1, <2>2, <2>3 DEF After, CaseStart
  <2>5. ASSUME NEW b \in Boxes, CaseEnv(b) PROVE CaseEnv(b)'
    BY <2>1, <2>3, <2>5 DEF CaseEnv, HasNul
  <2>6. ASSUME NEW b \in Boxes, CaseRuns(b) PROVE CaseRuns(b)'
    BY <2>1, <2>3, <2>4, <2>6 DEF CaseRuns, Plain, Out
  <2> QED BY <2>1, <2>5, <2>6 DEF CaseInv
<1>2. CASE HarnessCase
  <2>1. PICK b \in Boxes, sk \in SUBSET Skeleton, s \in Scripts :
          \E home \in {{}, {<<b>>}} : RunSource(s, Env(<<b>>, home, "strict"))
    BY <1>2 DEF HarnessCase
  <2>2. PICK home \in {{}, {<<b>>}} : RunSource(s, Env(<<b>>, home, "strict"))
    BY <2>1
  <2>3. <<b>> \in BoxPath(b)
    <3>1. b \in STRING
      BY <2>1
    <3> QED BY <3>1 DEF BoxPath, Path
  <2>4. /\ env' = {Env(<<b>>, home, "strict")} /\ script' = s /\ began' = <<b>>
        /\ status' = 0
        /\ IF HasNul(s)
           THEN at' = "returned" /\ result' = Err("parse")
           ELSE at' = "lines" /\ lines' = s
    BY <2>2 DEF RunSource, Env
  <2>5. /\ TheEnv' = Env(<<b>>, home, "strict")
        /\ TheEnv'.cwd = <<b>> /\ TheEnv'.home = home /\ TheEnv'.policy = "strict"
    BY <2>4 DEF TheEnv, Env
  <2>6. CaseEnv(b)'
    BY <2>1, <2>4, <2>5 DEF CaseEnv, HasNul, Err
  <2>7. CASE HasNul(s)
    <3>1. ~Plain(s)
      BY <2>7 DEF HasNul, Plain, CaseLine
    <3> QED BY <2>1, <2>4, <2>6, <3>1 DEF CaseInv, CaseRuns, Plain
  <2>8. CASE ~HasNul(s)
    <3>1. at' = "lines" /\ lines' = s
      BY <2>4, <2>8
    <3>2. s \in Seq(LineType) /\ Len(s) \in Nat
      BY <2>1, LenProperties
    <3>3. Follow(s, s, 0) /\ 0 \in 0 .. Len(s)
      BY <3>2 DEF Follow
    <3>4. After(b, 0)' = Current'
      <4>1. CaseStart(b)' = Current'
        BY <2>4, <2>5 DEF CaseStart, Current
      <4>2. After(b, 0)' = CaseStart(b)'
        <5>1. Upto(s, 0) = <<>>
          BY SubSeqEmpty DEF Upto
        <5> QED BY <2>4, <5>1, FoldEmpty DEF After
      <4> QED BY <4>1, <4>2
    <3>5. CaseRuns(b)'
      BY <2>3, <2>4, <2>5, <3>1, <3>3, <3>4 DEF CaseRuns
    <3> QED BY <2>1, <2>6, <3>5 DEF CaseInv
  <2> QED BY <2>7, <2>8
<1>3. CASE Callers /\ ~HarnessCase
  <2>1. host' # "harness" \/ at' = "idle"
    BY <1>3 DEF Callers, ReplLine, EmbedderScript, ReplExits, ReplGoesOn, HarnessTakes,
                EmbedderTakes
  <2> QED BY <2>1 DEF CaseInv
<1>4. CASE DashC
  <2>1. at' \in {"oneshot", "exited"}
    BY <1>4 DEF DashC, OneShot, OneShotFails, OneShotEnds, Leave
  <2> QED BY <2>1 DEF CaseInv
<1> QED BY <1>1, <1>2, <1>3, <1>4

(* A case of the harness whose cds name no directory of the host, neither   *)
(* by an absolute path nor by `..` out of the box, has the result its own   *)
(* text, skeleton and environment give it, whatever ran before it and       *)
(* whatever others do meanwhile (run_case), for cases of any length.        *)
THEOREM CasesAreHermetic == Spec => []CaseMeansItsScript
<1>1. Init => CaseInv
  BY DEF Init, CaseInv
<1>2. TypeOK /\ CaseInv /\ [Next]_vars => CaseInv'
  BY CaseOfExecutor, CaseOfOthers DEF Next
<1> QED BY <1>1, <1>2, CaseMeans, ExecTypes, PTL DEF Spec
=============================================================================
