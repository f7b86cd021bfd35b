----------------------------- MODULE ProbeProofs -----------------------------
(***************************************************************************)
(* Proofs about Probe for every choice of its constants: types, what the   *)
(* capabilities mean, and that the probe borrows the terminal as           *)
(* TerminalLease demands.                                                  *)
(***************************************************************************)
EXTENDS Probe, SequenceTheorems, TLAPS

USE ProbeAssumption

-----------------------------------------------------------------------------
(* Reading a chunk splits a queue in two.                                   *)

LEMMA TakeLaw ==
  ASSUME NEW S, NEW s \in Seq(S), NEW n \in Nat
  PROVE  /\ Take(s, n) \in Seq(S)
         /\ Len(Take(s, n)) = IF n < Len(s) THEN n ELSE Len(s)
         /\ \A i \in 1..Len(Take(s, n)) : i \in 1..Len(s) /\ Take(s, n)[i] = s[i]
<1> DEFINE m == IF n < Len(s) THEN n ELSE Len(s)
<1>1. m \in Nat /\ m <= Len(s) /\ Len(s) \in Nat
  BY LenProperties
<1>2. \A i \in 1..m : s[i] \in S
  BY <1>1, ElementOfSeq
<1>3. /\ SubSeq(s, 1, m) \in Seq(S)
      /\ Len(SubSeq(s, 1, m)) = IF 1 <= m THEN m - 1 + 1 ELSE 0
      /\ \A i \in 1..(m - 1 + 1) : SubSeq(s, 1, m)[i] = s[1 + i - 1]
  <2> HIDE DEF m
  <2> QED BY <1>1, <1>2, SubSeqProperties
<1> QED BY <1>1, <1>3 DEF Take

LEMMA PastLaw ==
  ASSUME NEW S, NEW s \in Seq(S), NEW n \in Nat
  PROVE  /\ Past(s, n) \in Seq(S)
         /\ Len(Past(s, n)) = IF n < Len(s) THEN Len(s) - n ELSE 0
         /\ \A i \in 1..Len(Past(s, n)) :
              i + n \in 1..Len(s) /\ Past(s, n)[i] = s[i + n]
<1>1. Len(s) \in Nat
  BY LenProperties
<1>2. \A i \in (n + 1)..Len(s) : s[i] \in S
  BY <1>1, ElementOfSeq
<1>3. /\ SubSeq(s, n + 1, Len(s)) \in Seq(S)
      /\ Len(SubSeq(s, n + 1, Len(s)))
           = IF n + 1 <= Len(s) THEN Len(s) - (n + 1) + 1 ELSE 0
      /\ \A i \in 1..(Len(s) - (n + 1) + 1) :
           SubSeq(s, n + 1, Len(s))[i] = s[(n + 1) + i - 1]
  BY <1>1, <1>2, SubSeqProperties
<1>4. Len(Past(s, n)) = IF n < Len(s) THEN Len(s) - n ELSE 0
  BY <1>1, <1>3 DEF Past
<1> QED BY <1>1, <1>3, <1>4 DEF Past

-----------------------------------------------------------------------------
(* Types.  Between two reads the decoder keeps at most one piece.           *)

ShortBuffer == pc # "decode" => Len(buf) < 2

LEMMA WorldType == TypeOK /\ (World \/ Tick) => TypeOK'
<1> SUFFICES ASSUME TypeOK, World \/ Tick PROVE TypeOK'
  OBVIOUS
<1> USE DEF TypeOK, Listening, probeVars, modeVars, terminal, terminalVars
<1>1. ASSUME NEW p \in Piece PROVE Append(tty, p) \in Seq(Piece)
  BY <1>1, AppendProperties
<1>2. ASSUME NEW q \in Queries, BeginAnswer(q) PROVE TypeOK'
  <2>1. [of |-> q, part |-> 1] \in Piece
    BY DEF Piece
  <2>2. sending' \in [begun : SUBSET Queries, done : SUBSET Queries]
    BY <1>2 DEF BeginAnswer
  <2>3. tty' \in Seq(Piece)
    BY <1>1, <1>2, <2>1 DEF BeginAnswer
  <2>4. UNCHANGED <<pc, probeVars, modeVars, terminal, asked, junk, signalled, taken>>
    BY <1>2 DEF BeginAnswer
  <2> QED BY <2>2, <2>3, <2>4
<1>3. ASSUME NEW q \in Queries, EndAnswer(q) PROVE TypeOK'
  <2>1. [of |-> q, part |-> 2] \in Piece
    BY DEF Piece
  <2>2. sending' \in [begun : SUBSET Queries, done : SUBSET Queries]
    BY <1>3 DEF EndAnswer
  <2>3. tty' \in Seq(Piece)
    BY <1>1, <1>3, <2>1 DEF EndAnswer
  <2>4. UNCHANGED <<pc, probeVars, modeVars, terminal, asked, junk, signalled, taken>>
    BY <1>3 DEF EndAnswer
  <2> QED BY <2>2, <2>3, <2>4
<1>4. CASE TypeKey
  <2>1. [of |-> "key", part |-> 0] \in Piece
    BY DEF Piece
  <2>2. junk' \in 0 .. MaxJunk
    BY <1>4 DEF TypeKey
  <2> QED BY <1>1, <1>4, <2>1, <2>2 DEF TypeKey
<1>5. CASE Signal
  BY <1>5 DEF Signal
<1>6. CASE Tick
  BY <1>6 DEF Tick
<1> QED BY <1>2, <1>3, <1>4, <1>5, <1>6 DEF World

LEMMA ColorType == \A e \in EnvType : DetectColor(e) \in 0 .. 3
BY DEF DetectColor, EnvType

LEMMA RunType == TypeOK /\ ShortBuffer /\ Run => TypeOK'
<1> SUFFICES ASSUME TypeOK, ShortBuffer, Run PROVE TypeOK'
  OBVIOUS
<1> USE DEF TypeOK, Listening, probeVars, modeVars, terminal, terminalVars
<1>1. CASE FromEnv
  <2>1. DetectColor(env) \in 0 .. 3 /\ env \in EnvType
    BY ColorType
  <2>2. caps' \in [color : 0 .. 3, kitty : BOOLEAN, sync : BOOLEAN,
                   osc8 : BOOLEAN, paste : BOOLEAN]
    BY <1>1, <2>1 DEF FromEnv, ApplyEnv
  <2> QED BY <1>1, <2>2 DEF FromEnv
<1>2. CASE EnterRaw
  BY <1>2, EmptySeq DEF EnterRaw
<1>3. CASE EnterRawFails
  BY <1>3 DEF EnterRawFails
<1>4. CASE WriteBatch
  BY <1>4 DEF WriteBatch
<1>5. CASE Top \/ Timeout \/ SignalPipeReadable \/ ReadFails
  BY <1>5 DEF Top, Timeout, SignalPipeReadable, ReadFails
<1>6. CASE ReadChunk
  <2>1. Take(tty, Chunk) \in Seq(Piece) /\ Past(tty, Chunk) \in Seq(Piece)
    BY TakeLaw, PastLaw
  <2>2. buf' \in Seq(Piece) /\ Len(buf') = Len(buf) + Len(Take(tty, Chunk))
    BY <1>6, <2>1, ConcatProperties DEF ReadChunk
  <2>3. Len(buf') <= Chunk + 1
    <3>1. Len(buf) < 2
      BY <1>6 DEF ReadChunk, ShortBuffer
    <3>2. Len(tty) \in Nat /\ Len(buf) \in Nat
      BY LenProperties
    <3>3. Len(Take(tty, Chunk)) = IF Chunk < Len(tty) THEN Chunk ELSE Len(tty)
      BY TakeLaw
    <3> QED BY <2>2, <3>1, <3>2, <3>3
  <2>4. taken' \subseteq Queries
    BY <1>6 DEF ReadChunk
  <2> QED BY <1>6, <2>1, <2>2, <2>3, <2>4 DEF ReadChunk
<1>7. ASSUME NEW q \in Queries, Consumed(q) PROVE TypeOK'
  <2>1. buf' \in Seq(Piece) /\ Len(buf') <= Len(buf)
    <3>1. Past(buf, 2) \in Seq(Piece) /\ Len(Past(buf, 2)) <= Len(buf)
      BY PastLaw, LenProperties
    <3> QED BY <1>7, <3>1 DEF Consumed
  <2>2. caps' \in [color : 0 .. 3, kitty : BOOLEAN, sync : BOOLEAN,
                   osc8 : BOOLEAN, paste : BOOLEAN]
    <3> DEFINE C == [color : 0 .. 3, kitty : BOOLEAN, sync : BOOLEAN,
                     osc8 : BOOLEAN, paste : BOOLEAN]
    <3>1. /\ [caps EXCEPT !.color = IF @ = 0 /\ colors THEN 1 ELSE @] \in C
          /\ [caps EXCEPT !.kitty = TRUE] \in C
      <4>1. caps.color \in 0 .. 3 /\ (IF caps.color = 0 /\ colors THEN 1 ELSE caps.color) \in 0 .. 3
        OBVIOUS
      <4> QED BY <4>1
    <3>2. [caps EXCEPT !.sync = @ \/ sync] \in C
      <4>1. (caps.sync \/ sync) \in BOOLEAN
        OBVIOUS
      <4> QED BY <4>1
    <3> QED BY <1>7, <3>1, <3>2 DEF Consumed, Interpret, Queries
  <2>3. Len(buf') <= Chunk + 1
    BY <2>1, LenProperties
  <2> QED BY <1>7, <2>1, <2>2, <2>3 DEF Consumed
<1>8. CASE NeedMore
  BY <1>8 DEF NeedMore
<1>9. CASE Resync
  <2>1. buf # <<>>
    BY <1>9, EmptySeq DEF Resync
  <2>2. buf' \in Seq(Piece) /\ Len(buf') = Len(buf) - 1
    BY <1>9, <2>1, HeadTailProperties DEF Resync
  <2>3. Len(buf') <= Chunk + 1
    BY <2>2, LenProperties
  <2> QED BY <1>9, <2>2, <2>3 DEF Resync
<1>10. CASE DropGuard \/ StartRepl
  BY <1>10, EmptySeq DEF DropGuard, StartRepl
<1> QED BY <1>1, <1>2, <1>3, <1>4, <1>5, <1>6, <1>7, <1>8, <1>9, <1>10 DEF Run

LEMMA StepType == TypeOK /\ ShortBuffer /\ [Next]_vars => TypeOK' /\ ShortBuffer'
<1> SUFFICES ASSUME TypeOK, ShortBuffer, [Next]_vars PROVE TypeOK' /\ ShortBuffer'
  OBVIOUS
<1>1. TypeOK'
  <2>1. CASE UNCHANGED vars
    BY <2>1 DEF vars, probeVars, modeVars, terminal, terminalVars, TypeOK
  <2> QED BY <2>1, WorldType, RunType DEF Next
<1>2. ShortBuffer'
  <2> USE DEF ShortBuffer, probeVars, modeVars, terminal, terminalVars
  <2>1. CASE UNCHANGED vars \/ World \/ Tick
    BY <2>1 DEF vars, World, Tick, BeginAnswer, EndAnswer, TypeKey, Signal
  <2>2. CASE Run
    BY <2>2 DEF Run, FromEnv, EnterRaw, EnterRawFails, WriteBatch, Top, Timeout,
                SignalPipeReadable, ReadChunk, ReadFails, Consumed, NeedMore,
                Resync, DropGuard, StartRepl
  <2> QED BY <2>1, <2>2 DEF Next
<1> QED BY <1>1, <1>2

LEMMA InitType == Init => TypeOK /\ ShortBuffer
<1> SUFFICES ASSUME Init PROVE TypeOK /\ ShortBuffer
  OBVIOUS
<1>1. buf \in Seq(Piece) /\ tty \in Seq(Piece) /\ Len(buf) = 0
  BY EmptySeq DEF Init
<1>2. caps \in [color : 0 .. 3, kitty : BOOLEAN, sync : BOOLEAN,
                osc8 : BOOLEAN, paste : BOOLEAN]
  BY DEF Init, NoCaps
<1>3. sending \in [begun : SUBSET Queries, done : SUBSET Queries]
  BY DEF Init
<1>4. /\ pc = "env" /\ env \in Envs /\ expected = {} /\ taken = {}
      /\ left \in 0 .. Budget /\ junk \in 0 .. MaxJunk
      /\ knows \subseteq Queries /\ termios = "cooked"
  BY DEF Init
<1>5. /\ guard \in BOOLEAN /\ signalled \in BOOLEAN /\ colors \in BOOLEAN
      /\ sync \in BOOLEAN /\ refuses \in BOOLEAN /\ asked \in BOOLEAN
  BY DEF Init
<1> QED BY <1>1, <1>2, <1>3, <1>4, <1>5 DEF TypeOK, ShortBuffer

(* Every variable keeps its type, and the 128-byte reads never pile up      *)
(* undecoded bytes (drain_responses and decode_available of probe/run.rs).  *)
THEOREM ProbeTypes == Spec => []TypeOK
<1>1. Spec => [](TypeOK /\ ShortBuffer)
  BY InitType, StepType, PTL DEF Spec
<1> QED BY <1>1, PTL

-----------------------------------------------------------------------------
(* Capabilities.                                                            *)

(* What Ended promises holds from the moment the environment is applied. *)
CapsSoFar ==
  IF pc = "env"
    THEN caps = NoCaps /\ expected = {}
    ELSE /\ caps.color = IF DetectColor(env) > 0 THEN DetectColor(env)
                         ELSE IF "da1" \in expected /\ colors THEN 1 ELSE 0
         /\ caps.kitty <=> "kitty" \in expected
         /\ caps.sync <=> "decrpm" \in expected /\ sync
         /\ caps.osc8 <=> env.program = "known"

LEMMA StepCaps == TypeOK /\ CapsSoFar /\ [Next]_vars => CapsSoFar'
<1> SUFFICES ASSUME TypeOK, CapsSoFar, [Next]_vars PROVE CapsSoFar'
  OBVIOUS
<1> USE DEF probeVars, modeVars, terminal, terminalVars
<1>1. CASE FromEnv
  <2>1. DetectColor(env) \in 0 .. 3 /\ env \in EnvType
    BY ColorType DEF TypeOK
  <2>2. /\ pc = "env" /\ pc' # "env"
        /\ caps' = ApplyEnv(NoCaps, env)
        /\ expected' = {}
        /\ UNCHANGED <<env, colors, sync>>
    BY <1>1 DEF FromEnv, CapsSoFar
  <2>3. /\ caps'.color = DetectColor(env)
        /\ caps'.kitty = FALSE
        /\ caps'.sync = FALSE
        /\ caps'.osc8 <=> env.program = "known"
    <3>1. /\ caps' = [NoCaps EXCEPT
                       !.color = IF DetectColor(env) > @ THEN DetectColor(env) ELSE @,
                       !.osc8 = @ \/ env.program = "known",
                       !.paste = @ \/ env.term \in {"256color", "other"}]
      BY <2>2 DEF ApplyEnv
    <3>2. /\ caps'.color = IF DetectColor(env) > NoCaps.color THEN DetectColor(env)
                           ELSE NoCaps.color
          /\ caps'.kitty = NoCaps.kitty
          /\ caps'.sync = NoCaps.sync
          /\ caps'.osc8 = (NoCaps.osc8 \/ env.program = "known")
      BY <3>1 DEF NoCaps
    <3>3. /\ NoCaps.color = 0 /\ NoCaps.kitty = FALSE /\ NoCaps.sync = FALSE
          /\ NoCaps.osc8 = FALSE
      BY DEF NoCaps
    <3>4. caps'.color = DetectColor(env)
      <4>1. caps'.color = IF DetectColor(env) > 0 THEN DetectColor(env) ELSE 0
        BY <3>2, <3>3
      <4> QED BY <2>1, <4>1
    <3>5. caps'.kitty = FALSE /\ caps'.sync = FALSE
      BY <3>2, <3>3
    <3>6. caps'.osc8 <=> env.program = "known"
      BY <3>2, <3>3
    <3> QED BY <3>4, <3>5, <3>6
  <2> QED BY <2>1, <2>2, <2>3 DEF CapsSoFar, DetectColor
<1>2. ASSUME NEW q \in Queries, Consumed(q) PROVE CapsSoFar'
  <2>1. /\ pc # "env" /\ pc' # "env"
        /\ expected' = expected \cup {q}
        /\ UNCHANGED <<env, colors, sync>>
        /\ caps' = IF q \in expected THEN caps ELSE Interpret(q, caps)
    BY <1>2 DEF Consumed
  <2>2. caps \in [color : 0 .. 3, kitty : BOOLEAN, sync : BOOLEAN,
                  osc8 : BOOLEAN, paste : BOOLEAN]
    BY DEF TypeOK
  <2>3. DetectColor(env) \in 0 .. 3
    BY ColorType DEF TypeOK
  <2>4. DetectColor(env)' = DetectColor(env)
    BY <2>1 DEF DetectColor
  <2>5. CASE q \in expected
    BY <2>1, <2>4, <2>5 DEF CapsSoFar
  <2>6. CASE q \notin expected /\ q = "da1"
    BY <2>1, <2>2, <2>3, <2>4, <2>6 DEF CapsSoFar, Interpret
  <2>7. CASE q \notin expected /\ q = "kitty"
    BY <2>1, <2>2, <2>4, <2>7 DEF CapsSoFar, Interpret
  <2>8. CASE q \notin expected /\ q = "decrpm"
    BY <2>1, <2>2, <2>4, <2>8 DEF CapsSoFar, Interpret
  <2> QED BY <2>5, <2>6, <2>7, <2>8 DEF Queries
<1>3. CASE UNCHANGED <<caps, env, expected, colors, sync>>
           /\ (pc' = pc \/ (pc # "env" /\ pc' # "env"))
  BY <1>3 DEF CapsSoFar, DetectColor
<1>4. [Next]_vars => \/ FromEnv
                     \/ \E q \in Queries : Consumed(q)
                     \/ UNCHANGED <<caps, env, expected, colors, sync>>
                        /\ (pc' = pc \/ (pc # "env" /\ pc' # "env"))
  <2>1. CASE UNCHANGED vars
    BY <2>1 DEF vars
  <2>3. CASE World \/ Tick
    <3>1. UNCHANGED <<pc, caps, env, expected, colors, sync>>
      BY <2>3 DEF World, Tick, BeginAnswer, EndAnswer, TypeKey, Signal
    <3> QED BY <3>1
  <2>2. CASE Run
    BY <2>2 DEF Run, EnterRaw, EnterRawFails, WriteBatch, Top, Timeout,
                SignalPipeReadable, ReadChunk, ReadFails, NeedMore, Resync,
                DropGuard, StartRepl
  <2> QED BY <2>1, <2>2, <2>3 DEF Next
<1> QED BY <1>1, <1>2, <1>3, <1>4

(* The capabilities open() caches are what the environment and the answers  *)
(* heard say, in whatever order those came (env.rs, interpret.rs).          *)
THEOREM CapsMeanAnswers == Spec => []CapsAreWhatWasHeard
<1>1. Init => CapsSoFar
  BY DEF Init, CapsSoFar
<1>2. CapsSoFar => CapsAreWhatWasHeard
  BY DEF CapsSoFar, CapsAreWhatWasHeard, Ended
<1> QED BY <1>1, <1>2, StepCaps, ProbeTypes, PTL DEF Spec

-----------------------------------------------------------------------------
(* The lease of the terminal.                                               *)

(* The guard is held exactly while the terminal is raw for the probe. *)
GuardDiscipline ==
  /\ termios = "raw" <=> (guard \/ pc = "repl")
  /\ pc \in {"env", "raw"} => buf = <<>>
  /\ pc \in {"env", "raw", "open", "repl"} => ~guard
  /\ pc = "decode" => guard

LEMMA StepGuard == GuardDiscipline /\ [Next]_vars => GuardDiscipline'
<1> SUFFICES ASSUME GuardDiscipline, [Next]_vars PROVE GuardDiscipline'
  OBVIOUS
<1> USE DEF GuardDiscipline, probeVars, modeVars, terminal, terminalVars
<1>1. CASE UNCHANGED vars \/ World \/ Tick
  <2>1. UNCHANGED <<pc, buf, guard, termios>>
    BY <1>1 DEF vars, World, Tick, BeginAnswer, EndAnswer, TypeKey, Signal
  <2> QED BY <2>1
<1>2. CASE FromEnv \/ EnterRaw \/ EnterRawFails \/ WriteBatch \/ Top \/ Timeout
           \/ SignalPipeReadable \/ ReadFails
  BY <1>2 DEF FromEnv, EnterRaw, EnterRawFails, WriteBatch, Top, Timeout,
              SignalPipeReadable, ReadFails
<1>3. CASE ReadChunk
  BY <1>3 DEF ReadChunk, Readable
<1>4. CASE (\E q \in Queries : Consumed(q)) \/ NeedMore \/ Resync
  BY <1>4 DEF Consumed, NeedMore, Resync
<1>5. CASE DropGuard \/ StartRepl
  BY <1>5 DEF DropGuard, StartRepl
<1> QED BY <1>1, <1>2, <1>3, <1>4, <1>5 DEF Next, Run

Held == IF guard THEN Len(buf) ELSE 0

LEMMA ProbeStutters ==
  ASSUME UNCHANGED <<termios, guard, tty>>,
         pc' = "repl" <=> pc = "repl",
         Held' = Held
  PROVE  UNCHANGED Lease!leaseVars
BY DEF Lease!leaseVars, Held

LEMMA ProbeSteps ==
  TypeOK /\ GuardDiscipline /\ [Next]_vars => [Lease!Next]_(Lease!leaseVars)
<1> SUFFICES ASSUME TypeOK, GuardDiscipline, [Next]_vars
             PROVE  [Lease!Next]_(Lease!leaseVars)
  OBVIOUS
<1> USE DEF probeVars, modeVars, terminal, terminalVars
<1>1. tty \in Seq(Piece) /\ buf \in Seq(Piece) /\ Len(tty) \in Nat /\ Len(buf) \in Nat
  BY LenProperties DEF TypeOK
<1>2. CASE UNCHANGED vars \/ Signal \/ Tick
  BY <1>2, ProbeStutters DEF vars, Signal, Tick, Held
<1>3. ASSUME NEW p \in Piece, tty' = Append(tty, p), UNCHANGED <<pc, buf, guard, termios>>
      PROVE  Lease!Next
  <2>1. Len(tty') = Len(tty) + 1
    BY <1>1, <1>3, AppendProperties
  <2>2. Lease!Type
    BY <1>3, <2>1 DEF Lease!Type
  <2> QED BY <2>2 DEF Lease!Next
<1>4. ASSUME NEW q \in Queries, BeginAnswer(q) \/ EndAnswer(q) PROVE Lease!Next
  <2>1. [of |-> q, part |-> 1] \in Piece /\ [of |-> q, part |-> 2] \in Piece
    BY DEF Piece
  <2> QED BY <1>3, <1>4, <2>1 DEF BeginAnswer, EndAnswer
<1>5. CASE TypeKey
  <2>1. [of |-> "key", part |-> 0] \in Piece
    BY DEF Piece
  <2> QED BY <1>3, <1>5, <2>1 DEF TypeKey
<1>6. CASE FromEnv \/ EnterRawFails \/ WriteBatch \/ Top \/ Timeout
           \/ SignalPipeReadable \/ ReadFails \/ NeedMore
  <2>1. UNCHANGED <<termios, guard, tty, buf>> /\ pc # "repl" /\ pc' # "repl"
    BY <1>6 DEF FromEnv, EnterRawFails, WriteBatch, Top, Timeout,
                SignalPipeReadable, ReadFails, NeedMore
  <2> QED BY <2>1, ProbeStutters DEF Held
<1>7. CASE EnterRaw \/ StartRepl
  <2>1. /\ ~guard /\ pc # "repl"
        /\ termios' = "raw" /\ tty' = <<>> /\ buf' = buf
        /\ \/ guard' = TRUE /\ buf = <<>>
           \/ pc' = "repl" /\ ~guard'
    BY <1>7 DEF EnterRaw, StartRepl, GuardDiscipline
  <2>2. Len(tty') = 0 /\ Held' = 0
    BY <2>1, EmptySeq DEF Held
  <2>3. Lease!Borrow
    <3>1. (guard' \/ pc' = "repl") = TRUE
      BY <2>1, <1>7 DEF EnterRaw, StartRepl
    <3> QED BY <2>1, <2>2, <3>1 DEF Lease!Borrow, Held
  <2> QED BY <2>3 DEF Lease!Next
<1>8. CASE ReadChunk
  <2>1. /\ guard /\ pc # "repl" /\ pc' # "repl"
        /\ UNCHANGED <<guard, termios>>
        /\ tty # <<>>
        /\ buf' = buf \o Take(tty, Chunk)
        /\ tty' = Past(tty, Chunk)
    BY <1>8 DEF ReadChunk, Readable, GuardDiscipline
  <2> DEFINE n == IF Chunk < Len(tty) THEN Chunk ELSE Len(tty)
  <2>2. Len(tty) >= 1
    BY <1>1, <2>1, EmptySeq
  <2>3. n \in 1..Len(tty)
    BY <1>1, <2>2
  <2>4. Len(tty') = Len(tty) - n
    BY <1>1, <2>1, PastLaw
  <2>5. Len(buf') = Len(buf) + n
    <3>1. Take(tty, Chunk) \in Seq(Piece) /\ Len(Take(tty, Chunk)) = n
      BY <1>1, TakeLaw
    <3> QED BY <1>1, <2>1, <3>1, ConcatProperties
  <2> HIDE DEF n
  <2>6. Lease!Take
    BY <2>1, <2>3, <2>4, <2>5 DEF Lease!Take
  <2> QED BY <2>6 DEF Lease!Next
<1>9. CASE (\E q \in Queries : Consumed(q)) \/ Resync
  <2>1. /\ pc = "decode" /\ UNCHANGED <<pc, tty, guard, termios>> /\ guard
    BY <1>9 DEF Consumed, Resync, GuardDiscipline
  <2>2. Len(buf') \in 0..Len(buf)
    <3>1. CASE \E q \in Queries : Consumed(q)
      <4>1. buf' = Past(buf, 2)
        BY <3>1 DEF Consumed
      <4> QED BY <1>1, <4>1, PastLaw
    <3>2. CASE Resync
      <4>1. buf # <<>> /\ buf' = Tail(buf) /\ Len(buf) >= 2
        BY <3>2, EmptySeq DEF Resync
      <4> QED BY <1>1, <4>1, HeadTailProperties
    <3> QED BY <1>9, <3>1, <3>2
  <2>3. Lease!Forget
    BY <2>1, <2>2 DEF Lease!Forget
  <2> QED BY <2>3 DEF Lease!Next
<1>10. CASE DropGuard
  <2>1. CASE guard
    <3>1. /\ tty' = <<>> /\ termios' = "cooked" /\ guard' = FALSE
          /\ pc # "repl" /\ pc' # "repl"
      BY <1>10, <2>1 DEF DropGuard
    <3>2. Len(tty') = 0
      BY <3>1, EmptySeq
    <3>3. Lease!GiveBack
      BY <2>1, <3>1, <3>2 DEF Lease!GiveBack
    <3> QED BY <3>3 DEF Lease!Next
  <2>2. CASE ~guard
    <3>1. guard \in BOOLEAN
      BY DEF TypeOK
    <3> QED BY <1>10, <2>2, <3>1, ProbeStutters DEF DropGuard, Held
  <2> QED BY <2>1, <2>2
<1> QED BY <1>2, <1>4, <1>5, <1>6, <1>7, <1>8, <1>9, <1>10 DEF Next, World, Run

(* The probe reads only from a terminal it made raw and gives it back as it *)
(* found it, whatever fails on the way (run() of probe/run.rs, RawModeGuard *)
(* of termios.rs), and no key typed at it reaches the REPL.                 *)
THEOREM ProbeImplementsLease == Spec => ImplementsLease
<1>1. Init => Lease!Init
  <2>1. Init => Len(tty) = 0
    BY EmptySeq DEF Init
  <2> QED BY <2>1 DEF Init, Lease!Init
<1>2. Init => GuardDiscipline
  BY DEF Init, GuardDiscipline
<1> QED BY <1>1, <1>2, ProbeTypes, StepGuard, ProbeSteps, PTL
        DEF Spec, ImplementsLease, Lease!Spec


-----------------------------------------------------------------------------
(* Answers, followed from the terminal to the decoder.                      *)

Half(q, k) == [of |-> q, part |-> k]

(* What has been sent and not been decoded, in order. *)
Stream == buf \o tty

(* Every second half follows its first, and every first half but the last   *)
(* piece is followed by its second.                                         *)
Paired(s) ==
  /\ \A i \in 1 .. Len(s), q \in Queries :
       s[i] = Half(q, 2) => i >= 2 /\ s[i - 1] = Half(q, 1)
  /\ \A i \in 1 .. Len(s), q \in Queries :
       s[i] = Half(q, 1) /\ i < Len(s) => s[i + 1] = Half(q, 2)

EndsWith(s, q) == Len(s) >= 1 /\ s[Len(s)] = Half(q, 1)

(* The answers half way there are those the stream ends with. *)
Tracks(s, half) == \A q \in Queries : q \in half <=> EndsWith(s, q)

LEMMA Halves ==
  ASSUME NEW q, NEW r
  PROVE  /\ Half(q, 1) # Half(r, 2)
         /\ Half(q, 1) = Half(r, 1) => q = r
         /\ Half(q, 2) = Half(r, 2) => q = r
BY DEF Half

LEMMA PairedAppend ==
  ASSUME NEW s \in Seq(Piece), NEW t \in Seq(Piece), NEW half, NEW half2,
         Paired(s), Tracks(s, half),
         Len(t) = Len(s) + 1,
         \A i \in 1 .. Len(s) : t[i] = s[i],
         \/ /\ half = {}
            /\ \/ half2 = {} /\ \A q \in Queries, k \in {1, 2} : t[Len(t)] # Half(q, k)
               \/ \E q \in Queries : half2 = {q} /\ t[Len(t)] = Half(q, 1)
         \/ \E q \in half \cap Queries : half2 = half \ {q} /\ t[Len(t)] = Half(q, 2)
  PROVE  Paired(t) /\ Tracks(t, half2)
<1> DEFINE n == Len(s)
<1>1. n \in Nat
  BY LenProperties
<1> HIDE DEF n
<1>2. CASE half = {}
  <2>1. \A q \in Queries : n >= 1 => s[n] # Half(q, 1)
    BY <1>2 DEF Tracks, EndsWith, n
  <2>2. \A q \in Queries : t[n + 1] # Half(q, 2)
    BY <1>2, Halves DEF n
  <2>3. Paired(t)
    BY <1>1, <2>1, <2>2 DEF Paired, n
  <2>4. Tracks(t, half2)
    BY <1>1, <1>2, Halves DEF Tracks, EndsWith, n
  <2> QED BY <2>3, <2>4
<1>3. CASE \E q \in half \cap Queries : half2 = half \ {q} /\ t[Len(t)] = Half(q, 2)
  <2>1. PICK q \in half \cap Queries : half2 = half \ {q} /\ t[n + 1] = Half(q, 2)
    BY <1>3 DEF n
  <2>2. n >= 1 /\ s[n] = Half(q, 1)
    BY DEF Tracks, EndsWith, n
  <2>3. \A r \in Queries : r \in half => r = q
    BY <2>2, Halves DEF Tracks, EndsWith, n
  <2>4. \A r \in Queries : t[n + 1] # Half(r, 1) /\ (t[n + 1] = Half(r, 2) => r = q)
    BY <2>1, Halves
  <2>5. \A r \in Queries : s[n] = Half(r, 1) => r = q
    BY <2>2, Halves
  <2>6. Paired(t)
    BY <1>1, <2>1, <2>2, <2>4, <2>5 DEF Paired, n
  <2>7. Tracks(t, half2)
    BY <1>1, <2>1, <2>3, <2>4 DEF Tracks, EndsWith, n
  <2> QED BY <2>6, <2>7
<1> QED BY <1>2, <1>3

(* A prefix that does not end inside an answer may go. *)
LEMMA PairedDrop ==
  ASSUME NEW s \in Seq(Piece), NEW t \in Seq(Piece), NEW half, NEW k \in Nat,
         Paired(s), Tracks(s, half),
         k >= 1, Len(t) = Len(s) - k,
         \A i \in 1 .. Len(t) : t[i] = s[i + k],
         \A q \in Queries : s[k] # Half(q, 1)
  PROVE  Paired(t) /\ Tracks(t, half)
<1>1. Len(s) \in Nat /\ Len(t) \in Nat
  BY LenProperties
<1>2. Paired(t)
  <2>1. ASSUME NEW i \in 1 .. Len(t), NEW q \in Queries, t[i] = Half(q, 2)
        PROVE  i >= 2 /\ t[i - 1] = Half(q, 1)
    <3>1. s[i + k] = Half(q, 2) /\ i + k \in 1 .. Len(s)
      BY <1>1, <2>1
    <3>2. s[i + k - 1] = Half(q, 1)
      BY <3>1 DEF Paired
    <3>3. i # 1
      BY <3>2
    <3>4. i >= 2 /\ i - 1 \in 1 .. Len(t) /\ (i - 1) + k = i + k - 1
      BY <1>1, <3>3
    <3> QED BY <3>2, <3>4
  <2>2. ASSUME NEW i \in 1 .. Len(t), NEW q \in Queries, t[i] = Half(q, 1), i < Len(t)
        PROVE  t[i + 1] = Half(q, 2)
    <3>1. s[i + k] = Half(q, 1) /\ i + k \in 1 .. Len(s) /\ i + k < Len(s)
      BY <1>1, <2>2
    <3>2. s[i + k + 1] = Half(q, 2)
      BY <3>1 DEF Paired
    <3>3. i + 1 \in 1 .. Len(t) /\ (i + 1) + k = i + k + 1
      BY <1>1, <2>2
    <3> QED BY <3>2, <3>3
  <2> QED BY <2>1, <2>2 DEF Paired
<1>3. \A q \in Queries : EndsWith(s, q) <=> EndsWith(t, q)
  <2> SUFFICES ASSUME NEW q \in Queries PROVE EndsWith(s, q) <=> EndsWith(t, q)
    OBVIOUS
  <2>1. CASE Len(t) >= 1
    <3>1. t[Len(t)] = s[Len(t) + k] /\ Len(t) + k = Len(s)
      BY <1>1, <2>1
    <3> QED BY <1>1, <2>1, <3>1 DEF EndsWith
  <2>2. CASE ~(Len(t) >= 1)
    <3>1. Len(s) = k
      BY <1>1, <2>2
    <3> QED BY <2>2, <3>1 DEF EndsWith
  <2> QED BY <2>1, <2>2
<1> QED BY <1>2, <1>3 DEF Tracks

(* The probe listens, on a terminal that it could make raw. *)
Tuned == pc \in Listening \cup {"write"} /\ ~refuses

Clear ==
  /\ guard /\ termios = "raw"
  /\ Paired(Stream) /\ Tracks(Stream, HalfWay)
  /\ \A i \in 1 .. Len(Stream), q \in Queries : Stream[i] = Half(q, 2) => q \in sending.done
  /\ \A q \in taken \ expected : \E i \in 1 .. Len(buf) : buf[i] = Half(q, 2)

(* Unless it listens, what was read has been heard. *)
HeardSoFar ==
  /\ sending.done \subseteq sending.begun
  /\ ~asked => sending.begun = {}
  /\ pc \in {"env", "raw", "write"} => ~asked /\ taken = {} /\ buf = <<>>
  /\ refuses => termios = "cooked" /\ taken = {} /\ buf = <<>>
  /\ expected \subseteq sending.done
  /\ pc \notin Listening => taken \subseteq expected
  /\ Tuned => Clear

LEMMA StreamType ==
  ASSUME TypeOK
  PROVE  /\ buf \in Seq(Piece) /\ tty \in Seq(Piece) /\ Stream \in Seq(Piece)
         /\ Len(buf) \in Nat /\ Len(tty) \in Nat /\ Len(Stream) = Len(buf) + Len(tty)
         /\ \A i \in 1 .. Len(buf) : Stream[i] = buf[i] /\ i \in 1 .. Len(Stream)
         /\ \A i \in 1 .. Len(tty) : Stream[i + Len(buf)] = tty[i]
<1>1. buf \in Seq(Piece) /\ tty \in Seq(Piece)
  BY DEF TypeOK
<1>2. Len(buf) \in Nat /\ Len(tty) \in Nat
  BY <1>1, LenProperties
<1>3. /\ Stream \in Seq(Piece) /\ Len(Stream) = Len(buf) + Len(tty)
      /\ \A i \in 1 .. Len(buf) + Len(tty) :
           Stream[i] = IF i <= Len(buf) THEN buf[i] ELSE tty[i - Len(buf)]
  BY <1>1, ConcatProperties DEF Stream
<1>4. \A i \in 1 .. Len(buf) : Stream[i] = buf[i] /\ i \in 1 .. Len(Stream)
  BY <1>2, <1>3
<1>5. \A i \in 1 .. Len(tty) : Stream[i + Len(buf)] = tty[i]
  <2> SUFFICES ASSUME NEW i \in 1 .. Len(tty) PROVE Stream[i + Len(buf)] = tty[i]
    OBVIOUS
  <2>1. i + Len(buf) \in 1 .. Len(buf) + Len(tty) /\ ~(i + Len(buf) <= Len(buf))
        /\ i + Len(buf) - Len(buf) = i
    BY <1>2
  <2> QED BY <1>3, <2>1
<1> QED BY <1>1, <1>2, <1>3, <1>4, <1>5

(* A piece that the terminal sends joins the end of the stream. *)
LEMMA StreamGrows ==
  ASSUME TypeOK, NEW p \in Piece, tty' = Append(tty, p), buf' = buf
  PROVE  /\ Stream' \in Seq(Piece) /\ Len(Stream') = Len(Stream) + 1
         /\ \A i \in 1 .. Len(Stream) : Stream'[i] = Stream[i]
         /\ Stream'[Len(Stream')] = p
<1>1. Stream' = Append(Stream, p)
  <2>1. Stream' = buf \o (tty \o <<p>>)
    BY StreamType, AppendIsConcat DEF Stream
  <2>2. <<p>> \in Seq(Piece)
    OBVIOUS
  <2>3. buf \o (tty \o <<p>>) = (buf \o tty) \o <<p>>
    BY <2>2, StreamType, ConcatAssociative
  <2>4. Append(Stream, p) = Stream \o <<p>>
    BY StreamType, AppendIsConcat
  <2> QED BY <2>1, <2>3, <2>4 DEF Stream
<1>2. Stream \in Seq(Piece)
  BY StreamType
<1> QED BY <1>1, <1>2, AppendProperties

(* One that the decoder drops leaves its head. *)
LEMMA StreamShrinks ==
  ASSUME TypeOK, NEW k \in {1, 2}, Len(buf) >= 2, tty' = tty,
         buf' \in Seq(Piece), Len(buf') = Len(buf) - k,
         \A i \in 1 .. Len(buf') : buf'[i] = buf[i + k]
  PROVE  /\ Stream' \in Seq(Piece) /\ Len(Stream') = Len(Stream) - k
         /\ \A i \in 1 .. Len(Stream') : Stream'[i] = Stream[i + k]
<1>1. /\ buf \in Seq(Piece) /\ tty \in Seq(Piece)
      /\ Len(buf) \in Nat /\ Len(tty) \in Nat /\ Len(buf') \in Nat
  BY StreamType, LenProperties
<1>2. /\ Len(Stream) = Len(buf) + Len(tty)
      /\ \A i \in 1 .. Len(buf) + Len(tty) :
           Stream[i] = IF i <= Len(buf) THEN buf[i] ELSE tty[i - Len(buf)]
  BY <1>1, ConcatProperties DEF Stream
<1>3. Stream' = buf' \o tty
  BY DEF Stream
<1>4. /\ Stream' \in Seq(Piece) /\ Len(Stream') = Len(buf') + Len(tty)
      /\ \A i \in 1 .. Len(buf') + Len(tty) :
           Stream'[i] = IF i <= Len(buf') THEN buf'[i] ELSE tty[i - Len(buf')]
  BY <1>1, <1>3, ConcatProperties
<1>5. ASSUME NEW i \in 1 .. Len(Stream') PROVE Stream'[i] = Stream[i + k]
  <2>1. i + k \in 1 .. Len(buf) + Len(tty) /\ i \in 1 .. Len(buf') + Len(tty)
    BY <1>1, <1>4
  <2>2. CASE i <= Len(buf')
    <3>1. i + k <= Len(buf) /\ i \in 1 .. Len(buf')
      BY <1>1, <2>2
    <3> QED BY <1>2, <1>4, <2>1, <2>2, <3>1
  <2>3. CASE ~(i <= Len(buf'))
    <3>1. ~(i + k <= Len(buf)) /\ i + k - Len(buf) = i - Len(buf')
      BY <1>1, <2>3
    <3> QED BY <1>2, <1>4, <2>1, <2>3, <3>1
  <2> QED BY <2>2, <2>3
<1> QED BY <1>1, <1>2, <1>4, <1>5

LEMMA HeardWorld == TypeOK /\ HeardSoFar /\ (World \/ Tick) => HeardSoFar'
<1> SUFFICES ASSUME TypeOK, HeardSoFar, World \/ Tick PROVE HeardSoFar'
  OBVIOUS
<1> USE DEF probeVars, modeVars, terminal, terminalVars
<1>1. sending \in [begun : SUBSET Queries, done : SUBSET Queries]
  BY DEF TypeOK
<1>2. ASSUME UNCHANGED <<pc, buf, guard, termios, refuses, asked, sending, tty, taken, expected>>
      PROVE  HeardSoFar'
  BY <1>2 DEF HeardSoFar, Tuned, Clear, Stream, HalfWay
<1>3. ASSUME NEW p \in Piece, tty' = Append(tty, p),
             UNCHANGED <<pc, buf, guard, termios, refuses, asked, taken, expected>>,
             sending'.done \subseteq sending'.begun, ~asked => sending'.begun = {},
             sending.done \subseteq sending'.done,
             \A q \in Queries : p = Half(q, 2) => q \in sending'.done,
             \/ /\ HalfWay = {}
                /\ \/ HalfWay' = {} /\ \A q \in Queries, k \in {1, 2} : p # Half(q, k)
                   \/ \E q \in Queries : HalfWay' = {q} /\ p = Half(q, 1)
             \/ \E q \in HalfWay \cap Queries : HalfWay' = HalfWay \ {q} /\ p = Half(q, 2)
      PROVE  HeardSoFar'
  <2>1. CASE Tuned
    <3>1. Clear
      BY <2>1 DEF HeardSoFar
    <3>2. /\ Stream \in Seq(Piece) /\ Stream' \in Seq(Piece) /\ Len(Stream) \in Nat
          /\ Len(Stream') = Len(Stream) + 1
          /\ \A i \in 1 .. Len(Stream) : Stream'[i] = Stream[i]
          /\ Stream'[Len(Stream')] = p
      BY <1>3, StreamType, StreamGrows, LenProperties
    <3>3. Paired(Stream') /\ Tracks(Stream', HalfWay')
      BY <1>3, <3>1, <3>2, PairedAppend DEF Clear
    <3>4. \A i \in 1 .. Len(Stream'), q \in Queries :
            Stream'[i] = Half(q, 2) => q \in sending'.done
      BY <1>3, <3>1, <3>2 DEF Clear
    <3>5. Clear'
      BY <1>3, <3>1, <3>3, <3>4 DEF Clear, Paired, Tracks
    <3> QED BY <1>3, <3>5 DEF HeardSoFar
  <2>2. CASE ~Tuned
    BY <1>3, <2>2 DEF HeardSoFar, Tuned
  <2> QED BY <2>1, <2>2
<1>4. ASSUME NEW q \in Queries, BeginAnswer(q) PROVE HeardSoFar'
  <2> DEFINE p == Half(q, 1)
  <2>1. /\ tty' = Append(tty, p) /\ HalfWay = {} /\ asked
        /\ UNCHANGED <<pc, buf, guard, termios, refuses, asked, taken, expected>>
    BY <1>4 DEF BeginAnswer, Half
  <2>2. p \in Piece
    BY DEF Piece, Half
  <2>3. sending'.begun = sending.begun \cup {q} /\ sending'.done = sending.done
        /\ q \notin sending.begun
    BY <1>1, <1>4 DEF BeginAnswer
  <2>4. HalfWay' = {q}
    BY <2>1, <2>3 DEF HalfWay, HeardSoFar
  <2>5. \A r \in Queries : p # Half(r, 2)
    BY Halves
  <2> HIDE DEF p
  <2>6. sending'.done \subseteq sending'.begun /\ sending.done \subseteq sending'.done
    BY <2>3 DEF HeardSoFar
  <2>7. p = Half(q, 1)
    BY DEF p
  <2> QED BY <1>3, <2>1, <2>2, <2>4, <2>5, <2>6, <2>7
<1>5. ASSUME NEW q \in Queries, EndAnswer(q) PROVE HeardSoFar'
  <2> DEFINE p == Half(q, 2)
  <2>1. /\ tty' = Append(tty, p) /\ q \in HalfWay
        /\ UNCHANGED <<pc, buf, guard, termios, refuses, asked, taken, expected>>
    BY <1>5 DEF EndAnswer, Half
  <2>2. p \in Piece
    BY DEF Piece, Half
  <2>3. sending'.begun = sending.begun /\ sending'.done = sending.done \cup {q}
    BY <1>1, <1>5 DEF EndAnswer
  <2>4. HalfWay' = HalfWay \ {q} /\ q \in sending.begun
    BY <2>1, <2>3 DEF HalfWay
  <2>5. \A r \in Queries : p = Half(r, 2) => r \in sending'.done
    BY <2>3, Halves
  <2>6. /\ sending'.done \subseteq sending'.begun /\ sending.done \subseteq sending'.done
        /\ ~asked => sending'.begun = {}
    BY <2>3, <2>4 DEF HeardSoFar
  <2> HIDE DEF p
  <2>7. p = Half(q, 2)
    BY DEF p
  <2> QED BY <1>3, <2>1, <2>2, <2>4, <2>5, <2>6, <2>7
<1>6. CASE TypeKey
  <2> DEFINE p == Half("key", 0)
  <2>1. /\ tty' = Append(tty, p) /\ HalfWay = {}
        /\ UNCHANGED <<pc, buf, guard, termios, refuses, asked, sending, taken, expected>>
    BY <1>6 DEF TypeKey, Half
  <2>2. p \in Piece /\ \A q \in Queries, k \in {1, 2} : p # Half(q, k)
    BY DEF Piece, Half
  <2>3. HalfWay' = {}
    BY <2>1 DEF HalfWay
  <2>4. sending.done \subseteq sending.begun /\ (~asked => sending.begun = {})
    BY DEF HeardSoFar
  <2> HIDE DEF p
  <2> QED BY <1>3, <2>1, <2>2, <2>3, <2>4
<1>7. CASE Signal \/ Tick
  BY <1>2, <1>7 DEF Signal, Tick
<1> QED BY <1>4, <1>5, <1>6, <1>7 DEF World

(* Only the decoder leaves a finished answer in the buffer. *)
LEMMA HeardByNow ==
  TypeOK /\ ShortBuffer /\ HeardSoFar /\ pc # "decode" => taken \subseteq expected
<1> SUFFICES ASSUME TypeOK, ShortBuffer, HeardSoFar, pc # "decode",
                    NEW q \in taken, q \notin expected
             PROVE  FALSE
  OBVIOUS
<1>1. pc \in Listening /\ ~refuses
  BY DEF HeardSoFar
<1>2. Clear
  BY <1>1 DEF HeardSoFar, Tuned
<1>3. q \in Queries
  BY DEF TypeOK
<1>4. PICK i \in 1 .. Len(buf) : buf[i] = Half(q, 2)
  BY <1>2, <1>3 DEF Clear
<1>5. Len(buf) \in Nat /\ Len(buf) < 2
  BY StreamType DEF ShortBuffer
<1>6. i = 1
  BY <1>4, <1>5
<1>7. Stream[1] = Half(q, 2) /\ 1 \in 1 .. Len(Stream)
  BY <1>4, <1>6, StreamType
<1> QED BY <1>2, <1>3, <1>7 DEF Clear, Paired

LEMMA HeardRun == TypeOK /\ ShortBuffer /\ HeardSoFar /\ Run => HeardSoFar'
<1> SUFFICES ASSUME TypeOK, ShortBuffer, HeardSoFar, Run PROVE HeardSoFar'
  OBVIOUS
<1> USE DEF probeVars, modeVars, terminal, terminalVars
<1>1. pc # "decode" => taken \subseteq expected
  BY HeardByNow
<1>2. CASE FromEnv
  <2>1. /\ pc = "env" /\ pc' \in {"raw", "drop"}
        /\ UNCHANGED <<buf, guard, termios, refuses, asked, sending, tty, taken, expected>>
    BY <1>2 DEF FromEnv
  <2> QED BY <2>1 DEF HeardSoFar, Tuned, Listening
<1>3. CASE EnterRaw
  <2>1. /\ pc = "raw" /\ pc' = "write" /\ guard' = TRUE /\ termios' = "raw"
        /\ ~refuses /\ tty' = <<>>
        /\ UNCHANGED <<buf, refuses, asked, sending, taken, expected>>
    BY <1>3 DEF EnterRaw
  <2>2. ~asked /\ taken = {} /\ buf = <<>> /\ sending.begun = {}
    BY <2>1 DEF HeardSoFar
  <2>3. Stream' = <<>> /\ Len(Stream') = 0
    <3>1. Stream' = <<>> \o <<>>
      BY <2>1, <2>2 DEF Stream
    <3> QED BY <3>1, ConcatEmptySeq, EmptySeq
  <2>4. HalfWay' = {}
    BY <2>1, <2>2 DEF HalfWay
  <2>5. Paired(Stream') /\ Tracks(Stream', HalfWay')
    BY <2>3, <2>4 DEF Paired, Tracks, EndsWith
  <2>6. Clear'
    BY <2>1, <2>2, <2>3, <2>5 DEF Clear
  <2> QED BY <2>1, <2>2, <2>6 DEF HeardSoFar, Tuned, Listening
<1>4. CASE EnterRawFails
  <2>1. /\ pc = "raw" /\ pc' = "write" /\ refuses
        /\ UNCHANGED <<buf, guard, termios, refuses, asked, sending, tty, taken, expected>>
    BY <1>4 DEF EnterRawFails
  <2> QED BY <2>1 DEF HeardSoFar, Tuned, Listening
<1>5. CASE WriteBatch
  <2>1. /\ pc = "write" /\ pc' \in {"top", "drop"}
        /\ UNCHANGED <<buf, guard, termios, refuses, sending, tty, taken, expected>>
    BY <1>5 DEF WriteBatch
  <2>2. ~asked /\ taken = {} /\ buf = <<>> /\ sending.begun = {}
    BY <2>1 DEF HeardSoFar
  <2>3. Tuned' => Tuned /\ Clear
    BY <2>1 DEF Tuned, HeardSoFar
  <2>4. Clear => Clear'
    BY <2>1 DEF Clear, Stream, HalfWay
  <2> QED BY <2>1, <2>2, <2>3, <2>4 DEF HeardSoFar
<1>6. CASE Top \/ Timeout \/ SignalPipeReadable \/ ReadFails \/ NeedMore
  <2>1. /\ pc \in Listening /\ pc' \in {"top", "wait", "drop"}
        /\ pc = "decode" => pc' = "top"
        /\ UNCHANGED <<buf, guard, termios, refuses, asked, sending, tty, taken, expected>>
    BY <1>6 DEF Top, Timeout, SignalPipeReadable, ReadFails, NeedMore, Listening
  <2>2. Tuned' => Tuned
    BY <2>1 DEF Tuned
  <2>3. Clear => Clear'
    BY <2>1 DEF Clear, Stream, HalfWay
  <2>4. pc' \notin Listening => taken \subseteq expected
    BY <1>1, <2>1 DEF Listening
  <2>5. pc' \notin {"env", "raw", "write"}
    BY <2>1
  <2> QED BY <2>1, <2>2, <2>3, <2>4, <2>5 DEF HeardSoFar
<1>7. CASE ReadChunk
  <2> DEFINE head == Take(tty, Chunk)
  <2>1. /\ pc = "wait" /\ pc' = "decode" /\ termios = "raw"
        /\ buf' = buf \o head /\ tty' = Past(tty, Chunk)
        /\ UNCHANGED <<guard, termios, refuses, asked, sending, expected>>
    BY <1>7 DEF ReadChunk, Readable
  <2>2. taken' = taken \cup
          {q \in Queries : \E i \in DOMAIN head : head[i] = Half(q, 2)}
    BY <1>7 DEF ReadChunk, Half
  <2>3. ~refuses
    BY <2>1 DEF HeardSoFar
  <2>4. Clear
    BY <2>1, <2>3 DEF HeardSoFar, Tuned, Listening
  <2>5. /\ buf \in Seq(Piece) /\ tty \in Seq(Piece) /\ Len(buf) \in Nat /\ Len(tty) \in Nat
        /\ Stream \in Seq(Piece)
    BY StreamType
  <2>6. /\ head \in Seq(Piece)
        /\ Len(head) = IF Chunk < Len(tty) THEN Chunk ELSE Len(tty)
        /\ \A i \in 1 .. Len(head) : i \in 1 .. Len(tty) /\ head[i] = tty[i]
        /\ DOMAIN head = 1 .. Len(head) /\ Len(head) \in Nat
    BY <2>5, TakeLaw, LenProperties
  <2>7. /\ tty' \in Seq(Piece)
        /\ Len(tty') = IF Chunk < Len(tty) THEN Len(tty) - Chunk ELSE 0
        /\ \A i \in 1 .. Len(tty') : tty'[i] = tty[i + Chunk]
    BY <2>1, <2>5, PastLaw
  <2> HIDE DEF head
  <2>8. head \o tty' = tty
    <3>1. /\ head \o tty' \in Seq(Piece) /\ Len(head \o tty') = Len(head) + Len(tty')
          /\ \A i \in 1 .. Len(head) + Len(tty') :
               (head \o tty')[i] = IF i <= Len(head) THEN head[i] ELSE tty'[i - Len(head)]
      BY <2>6, <2>7, ConcatProperties
    <3>2. Len(head \o tty') = Len(tty)
      BY <2>5, <2>6, <2>7, <3>1
    <3>3. \A i \in 1 .. Len(tty) : (head \o tty')[i] = tty[i]
      <4> SUFFICES ASSUME NEW i \in 1 .. Len(tty) PROVE (head \o tty')[i] = tty[i]
        OBVIOUS
      <4>1. CASE i <= Len(head)
        BY <2>5, <2>6, <3>1, <3>2, <4>1
      <4>2. CASE ~(i <= Len(head))
        <5>1. Len(head) = Chunk /\ i - Chunk \in 1 .. Len(tty') /\ (i - Chunk) + Chunk = i
          BY <2>5, <2>6, <2>7, <4>2
        <5>2. tty'[i - Chunk] = tty[i]
          BY <2>7, <5>1
        <5> QED BY <3>1, <3>2, <4>2, <5>1, <5>2
      <4> QED BY <4>1, <4>2
    <3> QED BY <2>5, <3>1, <3>2, <3>3, SeqEqual
  <2>9. Stream' = Stream
    <3>1. Stream' = (buf \o head) \o tty'
      BY <2>1 DEF Stream
    <3>2. (buf \o head) \o tty' = buf \o (head \o tty')
      <4>1. buf \in Seq(Piece) /\ head \in Seq(Piece) /\ tty' \in Seq(Piece)
        BY <2>5, <2>6, <2>7
      <4> QED BY <4>1, ConcatAssociative
    <3> QED BY <2>8, <3>1, <3>2 DEF Stream
  <2>10. /\ Len(buf') = Len(buf) + Len(head)
         /\ \A i \in 1 .. Len(head) :
              i + Len(buf) \in 1 .. Len(buf') /\ buf'[i + Len(buf)] = head[i]
         /\ \A i \in 1 .. Len(buf) : i \in 1 .. Len(buf') /\ buf'[i] = buf[i]
    <3>1. /\ Len(buf') = Len(buf) + Len(head)
          /\ \A i \in 1 .. Len(buf) + Len(head) :
               buf'[i] = IF i <= Len(buf) THEN buf[i] ELSE head[i - Len(buf)]
      BY <2>1, <2>5, <2>6, ConcatProperties
    <3>2. ASSUME NEW i \in 1 .. Len(head)
          PROVE  i + Len(buf) \in 1 .. Len(buf') /\ buf'[i + Len(buf)] = head[i]
      <4>1. i + Len(buf) \in 1 .. Len(buf) + Len(head) /\ ~(i + Len(buf) <= Len(buf))
            /\ i + Len(buf) - Len(buf) = i
        BY <2>5, <2>6
      <4> QED BY <3>1, <4>1
    <3>3. ASSUME NEW i \in 1 .. Len(buf) PROVE i \in 1 .. Len(buf') /\ buf'[i] = buf[i]
      BY <2>5, <2>6, <3>1
    <3> QED BY <3>1, <3>2, <3>3
  <2>11. ASSUME NEW q \in taken' \ expected
         PROVE  \E i \in 1 .. Len(buf') : buf'[i] = Half(q, 2)
    <3>1. CASE q \in taken
      BY <2>4, <2>10, <3>1 DEF Clear
    <3>2. CASE q \notin taken
      <4>1. PICK i \in 1 .. Len(head) : head[i] = Half(q, 2)
        BY <2>2, <2>6, <3>2
      <4> QED BY <2>10, <4>1
    <3> QED BY <3>1, <3>2
  <2>12. HalfWay' = HalfWay
    BY <2>1 DEF HalfWay
  <2>13. Clear'
    BY <2>1, <2>4, <2>9, <2>11, <2>12 DEF Clear
  <2> QED BY <2>1, <2>3, <2>13 DEF HeardSoFar, Tuned, Listening
<1>8. ASSUME NEW q \in Queries, Consumed(q) PROVE HeardSoFar'
  <2>1. /\ pc = "decode" /\ pc' = "decode" /\ Len(buf) >= 2
        /\ buf[1] = Half(q, 1) /\ buf[2] = Half(q, 2)
        /\ buf' = Past(buf, 2) /\ expected' = expected \cup {q}
        /\ UNCHANGED <<tty, guard, termios, refuses, asked, sending, taken>>
    BY <1>8 DEF Consumed, AnswerAtHead, Half
  <2>2. /\ buf \in Seq(Piece) /\ Len(buf) \in Nat /\ Stream \in Seq(Piece)
        /\ \A i \in 1 .. Len(buf) : Stream[i] = buf[i] /\ i \in 1 .. Len(Stream)
    BY StreamType
  <2>3. buf # <<>>
    BY <2>1, EmptySeq
  <2>4. ~refuses
    BY <2>3 DEF HeardSoFar
  <2>5. Clear
    BY <2>1, <2>4 DEF HeardSoFar, Tuned, Listening
  <2>6. /\ buf' \in Seq(Piece) /\ Len(buf') = Len(buf) - 2
        /\ \A i \in 1 .. Len(buf') : buf'[i] = buf[i + 2]
    BY <2>1, <2>2, PastLaw
  <2>7. /\ Stream' \in Seq(Piece) /\ Len(Stream') = Len(Stream) - 2
        /\ \A i \in 1 .. Len(Stream') : Stream'[i] = Stream[i + 2]
    BY <2>1, <2>6, StreamShrinks
  <2>8. Stream[2] = Half(q, 2) /\ 2 \in 1 .. Len(Stream)
    BY <2>1, <2>2
  <2>9. \A r \in Queries : Stream[2] # Half(r, 1)
    BY <2>8, Halves
  <2>10. Paired(Stream') /\ Tracks(Stream', HalfWay)
    <3>1. Paired(Stream) /\ Tracks(Stream, HalfWay)
      BY <2>5 DEF Clear
    <3>2. Stream \in Seq(Piece) /\ \A r \in Queries : Stream[2] # Half(r, 1)
      BY <2>2, <2>9
    <3> QED BY <2>7, <3>1, <3>2, PairedDrop
  <2>11. q \in sending.done
    BY <2>5, <2>8 DEF Clear
  <2>12. HalfWay' = HalfWay
    BY <2>1 DEF HalfWay
  <2>13. ASSUME NEW i \in 1 .. Len(Stream'), NEW r \in Queries, Stream'[i] = Half(r, 2)
         PROVE  r \in sending'.done
    <3>1. i + 2 \in 1 .. Len(Stream) /\ Stream[i + 2] = Half(r, 2)
      BY <2>2, <2>7, <2>13, LenProperties
    <3> QED BY <2>1, <2>5, <3>1 DEF Clear
  <2>14. ASSUME NEW r \in taken' \ expected'
         PROVE  \E i \in 1 .. Len(buf') : buf'[i] = Half(r, 2)
    <3>1. r \in taken \ expected /\ r # q
      BY <2>1
    <3>2. PICK i \in 1 .. Len(buf) : buf[i] = Half(r, 2)
      BY <2>5, <3>1 DEF Clear
    <3>3. i # 1 /\ i # 2
      BY <2>1, <3>1, <3>2, Halves
    <3>4. i - 2 \in 1 .. Len(buf') /\ (i - 2) + 2 = i
      BY <2>2, <2>6, <3>3
    <3> QED BY <2>6, <3>2, <3>4
  <2>15. Clear'
    BY <2>1, <2>5, <2>10, <2>12, <2>13, <2>14 DEF Clear
  <2> QED BY <2>1, <2>4, <2>11, <2>15 DEF HeardSoFar, Tuned, Listening
<1>9. CASE Resync
  <2>1. /\ pc = "decode" /\ pc' = "decode" /\ Len(buf) >= 2 /\ buf' = Tail(buf)
        /\ UNCHANGED <<tty, guard, termios, refuses, asked, sending, taken, expected>>
        /\ ~\E q \in Queries : buf[1] = Half(q, 1) /\ buf[2] = Half(q, 2)
    BY <1>9 DEF Resync, AnswerAtHead, Half
  <2>2. /\ buf \in Seq(Piece) /\ Len(buf) \in Nat /\ Stream \in Seq(Piece)
        /\ Len(Stream) = Len(buf) + Len(tty) /\ Len(tty) \in Nat
        /\ \A i \in 1 .. Len(buf) : Stream[i] = buf[i] /\ i \in 1 .. Len(Stream)
    BY StreamType
  <2>3. buf # <<>>
    BY <2>1, EmptySeq
  <2>4. ~refuses
    BY <2>3 DEF HeardSoFar
  <2>5. Clear
    BY <2>1, <2>4 DEF HeardSoFar, Tuned, Listening
  <2>6. /\ buf' \in Seq(Piece) /\ Len(buf') = Len(buf) - 1
        /\ \A i \in 1 .. Len(buf') : buf'[i] = buf[i + 1]
    BY <2>1, <2>2, <2>3, HeadTailProperties
  <2>7. /\ Stream' \in Seq(Piece) /\ Len(Stream') = Len(Stream) - 1
        /\ \A i \in 1 .. Len(Stream') : Stream'[i] = Stream[i + 1]
    BY <2>1, <2>6, StreamShrinks
  <2>8. Stream[1] = buf[1] /\ Stream[2] = buf[2] /\ 1 \in 1 .. Len(Stream) /\ 1 < Len(Stream)
    BY <2>1, <2>2
  <2>9. \A r \in Queries : Stream[1] # Half(r, 1) /\ Stream[1] # Half(r, 2)
    <3>1. \A r \in Queries : Stream[1] = Half(r, 1) => Stream[2] = Half(r, 2)
      BY <2>5, <2>8 DEF Clear, Paired
    <3>2. \A r \in Queries : Stream[1] # Half(r, 2)
      BY <2>5, <2>8 DEF Clear, Paired
    <3> QED BY <2>1, <2>8, <3>1, <3>2
  <2>10. Paired(Stream') /\ Tracks(Stream', HalfWay)
    <3>1. Paired(Stream) /\ Tracks(Stream, HalfWay)
      BY <2>5 DEF Clear
    <3>2. Stream \in Seq(Piece) /\ \A r \in Queries : Stream[1] # Half(r, 1)
      BY <2>2, <2>9
    <3> QED BY <2>7, <3>1, <3>2, PairedDrop
  <2>12. HalfWay' = HalfWay
    BY <2>1 DEF HalfWay
  <2>13. ASSUME NEW i \in 1 .. Len(Stream'), NEW r \in Queries, Stream'[i] = Half(r, 2)
         PROVE  r \in sending'.done
    <3>1. i + 1 \in 1 .. Len(Stream) /\ Stream[i + 1] = Half(r, 2)
      BY <2>2, <2>7, <2>13, LenProperties
    <3> QED BY <2>1, <2>5, <3>1 DEF Clear
  <2>14. ASSUME NEW r \in taken' \ expected'
         PROVE  \E i \in 1 .. Len(buf') : buf'[i] = Half(r, 2)
    <3>1. r \in taken \ expected /\ r \in Queries
      BY <2>1 DEF TypeOK
    <3>2. PICK i \in 1 .. Len(buf) : buf[i] = Half(r, 2)
      BY <2>5, <3>1 DEF Clear
    <3>3. i # 1
      BY <2>8, <2>9, <3>1, <3>2
    <3>4. i - 1 \in 1 .. Len(buf') /\ (i - 1) + 1 = i
      BY <2>2, <2>6, <3>3
    <3> QED BY <2>6, <3>2, <3>4
  <2>15. Clear'
    BY <2>1, <2>5, <2>10, <2>12, <2>13, <2>14 DEF Clear
  <2> QED BY <2>1, <2>4, <2>15 DEF HeardSoFar, Tuned, Listening
<1>10. CASE DropGuard
  <2>1. /\ pc = "drop" /\ pc' = "open" /\ (termios = "cooked" => termios' = "cooked")
        /\ UNCHANGED <<buf, refuses, asked, sending, taken, expected>>
    BY <1>10 DEF DropGuard
  <2> QED BY <2>1 DEF HeardSoFar, Tuned, Listening
<1>11. CASE StartRepl
  <2>1. /\ pc = "open" /\ pc' = "repl" /\ ~refuses
        /\ UNCHANGED <<buf, refuses, asked, sending, taken, expected>>
    BY <1>11 DEF StartRepl
  <2> QED BY <2>1 DEF HeardSoFar, Tuned, Listening
<1> QED BY <1>2, <1>3, <1>4, <1>5, <1>6, <1>7, <1>8, <1>9, <1>10, <1>11 DEF Run

(* However the reads cut the answers and whatever keys lie among them, the  *)
(* decoder hears every answer that was read to the end, and none that was   *)
(* not sent (drain_responses and decode_available of probe/run.rs).         *)
THEOREM AnswersAreHeard == Spec => []AnswersReadAreHeard
<1>1. Init => HeardSoFar
  BY DEF Init, HeardSoFar, Tuned, Listening
<1>2. TypeOK /\ ShortBuffer /\ HeardSoFar /\ [Next]_vars => HeardSoFar'
  <2> SUFFICES ASSUME TypeOK, ShortBuffer, HeardSoFar, [Next]_vars PROVE HeardSoFar'
    OBVIOUS
  <2>1. CASE UNCHANGED vars
    BY <2>1 DEF vars, probeVars, modeVars, terminal, terminalVars, HeardSoFar, Tuned,
                Clear, Stream, HalfWay
  <2> QED BY <2>1, HeardWorld, HeardRun DEF Next
<1>3. TypeOK /\ ShortBuffer /\ HeardSoFar => AnswersReadAreHeard
  <2> SUFFICES ASSUME TypeOK, ShortBuffer, HeardSoFar PROVE AnswersReadAreHeard
    OBVIOUS
  <2>1. pc \in Listening /\ ~refuses => guard /\ termios = "raw"
    BY DEF HeardSoFar, Tuned, Clear
  <2>2. pc \notin {"decode"} => taken \subseteq expected
    BY HeardByNow
  <2>3. expected \subseteq sending.done
    BY DEF HeardSoFar
  <2> QED BY <2>1, <2>2, <2>3 DEF AnswersReadAreHeard
<1> QED BY <1>1, <1>2, <1>3, InitType, StepType, PTL DEF Spec
=============================================================================
