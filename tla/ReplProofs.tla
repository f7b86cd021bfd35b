----------------------------- MODULE ReplProofs -----------------------------
(***************************************************************************)
(* Proofs about Repl for every choice of its constants: types, the raw     *)
(* mode discipline of the session, and what follows from it for commands,  *)
(* for the terminal the shell leaves behind and for the blocking read; and *)
(* that each step of the loop is a step of TerminalLease, or none.         *)
(***************************************************************************)
EXTENDS Repl, SequenceTheorems, TLAPS

USE SignalAssumption, ReplAssumption DEF AllKeys

-----------------------------------------------------------------------------
(* Sequences: what one read(2) takes and what it leaves.                    *)

(* A read returns a sequence of the bytes that were there. *)
LEMMA PrefixType ==
  ASSUME NEW S, NEW s \in Seq(S), NEW n \in Nat
  PROVE  /\ Prefix(s, n) \in Seq(S)
         /\ Len(Prefix(s, n)) <= Len(s)
         /\ \A i \in 1..Len(Prefix(s, n)) : i <= n /\ Prefix(s, n)[i] = s[i]
<1> DEFINE m == IF n < Len(s) THEN n ELSE Len(s)
<1>1. m \in Nat /\ m <= Len(s) /\ m <= n
  BY LenProperties
<1>2. \A i \in 1..m : s[i] \in S
  BY <1>1, ElementOfSeq, LenProperties
<1>3. /\ SubSeq(s, 1, m) \in Seq(S)
      /\ Len(SubSeq(s, 1, m)) = IF 1 <= m THEN m - 1 + 1 ELSE 0
      /\ \A i \in 1..(m - 1 + 1) : SubSeq(s, 1, m)[i] = s[1 + i - 1]
  <2> HIDE DEF m
  <2> QED BY <1>1, <1>2, SubSeqProperties
<1> QED BY <1>1, <1>3 DEF Prefix

(* What is left after the first n elements. *)
LEMMA RestType ==
  ASSUME NEW S, NEW s \in Seq(S), NEW n \in Nat
  PROVE  /\ SubSeq(s, n + 1, Len(s)) \in Seq(S)
         /\ Len(SubSeq(s, n + 1, Len(s))) <= Len(s)
         /\ \A i \in 1..Len(SubSeq(s, n + 1, Len(s))) :
              /\ i + n \in 1..Len(s)
              /\ SubSeq(s, n + 1, Len(s))[i] = s[i + n]
<1>1. Len(s) \in Nat
  BY LenProperties
<1>2. \A i \in (n + 1)..Len(s) : s[i] \in S
  BY <1>1, ElementOfSeq
<1>3. /\ SubSeq(s, n + 1, Len(s)) \in Seq(S)
      /\ Len(SubSeq(s, n + 1, Len(s)))
           = IF n + 1 <= Len(s) THEN Len(s) - (n + 1) + 1 ELSE 0
      /\ \A i \in 1..(Len(s) - (n + 1) + 1) :
           SubSeq(s, n + 1, Len(s))[i] = s[(n + 1) + i - 1]
  BY <1>1, <1>2, SubSeqProperties
<1> QED BY <1>1, <1>3

-----------------------------------------------------------------------------
(* Types.                                                                   *)

LEMMA EnvironmentType == TypeOK /\ Environment => TypeOK'
<1> SUFFICES ASSUME TypeOK, Environment PROVE TypeOK'
  OBVIOUS
<1> USE DEF TypeOK, SignalTypeOK, CaughtSignals, Key, RawPoints, IdlePoints,
            ClosePoints, ttyVars, sizeVars, lineVars, ghostVars, sessVars,
            signalVars
<1>1. ASSUME NEW k \in Keys, Type(k) PROVE TypeOK'
  <2>1. k \in AllKeys /\ [key |-> k, at |-> typed + 1] \in Key
    OBVIOUS
  <2>2. tty' \in Seq(Key)
    <3>1. Append(tty, [key |-> k, at |-> typed + 1]) \in Seq(Key) /\ <<>> \in Seq(Key)
      BY <2>1, AppendProperties, EmptySeq
    <3> QED BY <3>1, <1>1 DEF Type
  <2>3. pending' \subseteq CaughtSignals
    BY <1>1 DEF Type
  <2> QED BY <1>1, <2>2, <2>3 DEF Type
<1>2. ASSUME NEW s \in Sent, Kill(s) PROVE TypeOK'
  BY <1>2 DEF Kill, Raise
<1>3. CASE ResizeWindow
  BY <1>3 DEF ResizeWindow, Raise
<1>4. CASE Hangup
  BY <1>4 DEF Hangup, Raise
<1>5. ASSUME NEW m \in UserModes, ChildSetsTermios(m) PROVE TypeOK'
  BY <1>5 DEF ChildSetsTermios
<1>6. CASE ChildExit
  BY <1>6 DEF ChildExit
<1> QED BY <1>1, <1>2, <1>3, <1>4, <1>5, <1>6 DEF Environment

LEMMA KernelType == TypeOK /\ Kernel => TypeOK'
<1> SUFFICES ASSUME TypeOK, NEW s \in CaughtSignals, Deliver(s) PROVE TypeOK'
  BY DEF Kernel
<1>1. pipe' \in Seq(CaughtSignals) /\ Len(pipe') <= PipeCap
  BY DEF Deliver, Handler, TypeOK, SignalTypeOK
<1> QED BY <1>1 DEF Deliver, Handler, TypeOK, SignalTypeOK, CaughtSignals,
                    RawPoints, IdlePoints, ClosePoints, Key, ttyVars, sizeVars,
                    lineVars, ghostVars, sessVars

LEMMA ShellType == TypeOK /\ Shell => TypeOK'
<1> SUFFICES ASSUME TypeOK, Shell PROVE TypeOK'
  OBVIOUS
<1> USE DEF TypeOK, SignalTypeOK, RawPoints, IdlePoints,
            ClosePoints, ttyVars, sizeVars, lineVars, ghostVars, sessVars,
            signalVars, At
<1>a. tty \in Seq(Key) /\ batch \in Seq(Key) /\ line \in Seq(Nat)
  OBVIOUS
<1>1. CASE EnterRaw
  BY <1>1 DEF EnterRaw
<1>2. CASE EnterRawFails
  BY <1>2 DEF EnterRawFails
<1>3. CASE WritePrompt
  BY <1>3 DEF WritePrompt
<1>4. CASE Wait
  BY <1>4 DEF Wait
<1>5. CASE Drain
  <2>1. pipe' \in Seq(CaughtSignals) /\ Len(pipe') <= PipeCap
    <3>1. pipe' = SubSeq(pipe, DrainCap + 1, Len(pipe)) /\ DrainCap \in Nat
      BY <1>5 DEF Drain, AfterDrain
    <3>2. pipe' \in Seq(CaughtSignals) /\ Len(pipe') <= Len(pipe)
      BY <3>1, RestType
    <3>3. Len(pipe) \in Nat /\ Len(pipe') \in Nat
      BY <3>2, LenProperties
    <3> QED BY <3>2, <3>3
  <2>2. pc' \in RawPoints
    BY <1>5 DEF Drain, OnSignal
  <2> QED BY <1>5, <2>1, <2>2 DEF Drain
<1>6. CASE Interrupt
  <2>1. line' \in Seq(Nat) /\ cancel' \in BOOLEAN
    BY <1>6, EmptySeq DEF Interrupt
  <2> QED BY <1>6, <2>1 DEF Interrupt
<1>7. CASE RefreshWindow
  BY <1>7 DEF RefreshWindow
<1>8. CASE ReadBatch
  <2>1. tty' \in Seq(Key) /\ batch' \in Seq(Key)
    <3>1. ReadCap \in Nat
      OBVIOUS
    <3>2. /\ Prefix(tty, ReadCap) \in Seq(Key)
          /\ SubSeq(tty, ReadCap + 1, Len(tty)) \in Seq(Key)
      BY <1>a, <3>1, PrefixType, RestType
    <3> QED BY <1>8, <1>a, <3>2 DEF ReadBatch
  <2> QED BY <1>8, <2>1 DEF ReadBatch
<1>9. CASE PumpFails
  BY <1>9 DEF PumpFails
<1>10. CASE Pump
  <2>1. ASSUME batch # <<>>
        PROVE  /\ Head(batch).at \in Nat
               /\ Tail(batch) \in Seq(Key)
    <3>1. Head(batch) \in Key /\ Tail(batch) \in Seq(Key)
      BY <2>1, <1>a, HeadTailProperties
    <3> QED BY <3>1 DEF Key
  <2>2. CASE PushByte
    BY <2>1, <2>2 DEF PushByte, PumpKey
  <2>3. CASE EraseByte
    <3>1. line' \in Seq(Nat)
      <4>1. CASE line = <<>>
        BY <4>1, <2>3 DEF EraseByte
      <4>2. CASE line # <<>>
        <5>1. Len(line) - 1 \in Int /\ \A i \in 1..(Len(line) - 1) : line[i] \in Nat
          BY <1>a, LenProperties, ElementOfSeq
        <5> QED BY <5>1, <4>2, <2>3, SubSeqProperties DEF EraseByte
      <4> QED BY <4>1, <4>2
    <3> QED BY <3>1, <2>1, <2>3 DEF EraseByte, PumpKey
  <2>4. CASE CtrlC
    BY <2>1, <2>4 DEF CtrlC, PumpKey
  <2>5. CASE Enter
    BY <2>5 DEF Enter, PumpKey
  <2>6. CASE CtrlD
    BY <2>6 DEF CtrlD, PumpKey
  <2>7. CASE BatchDone
    BY <2>7 DEF BatchDone
  <2> QED BY <1>10, <2>2, <2>3, <2>4, <2>5, <2>6, <2>7 DEF Pump
<1>11. CASE Submit
  BY <1>11 DEF Submit, LeaveRaw, Restores
<1>12. ASSUME NEW c \in Commands, Dispatch(c) PROVE TypeOK'
  BY <1>12 DEF Dispatch
<1>13. CASE Leave
  BY <1>13 DEF Leave, LeaveRaw, Restores
<1>14. CASE DropTty
  BY <1>14 DEF DropTty
<1>15. CASE DropGuard
  BY <1>15 DEF DropGuard, LeaveRaw, Restores
<1> QED BY <1>1, <1>2, <1>3, <1>4, <1>5, <1>6, <1>7, <1>8, <1>9, <1>10, <1>11,
           <1>12, <1>13, <1>14, <1>15 DEF Shell

(* Every variable keeps its type, and the self-pipe never holds more than   *)
(* its capacity: the handler drops the byte instead of blocking.            *)
THEOREM TypeInvariance == Spec => []TypeOK
<1>1. Init => TypeOK
  <2> SUFFICES ASSUME Init PROVE TypeOK
    OBVIOUS
  <2>1. SignalTypeOK /\ Len(pipe) <= PipeCap
    <3>1. pending \subseteq CaughtSignals /\ raised \in Nat
      BY DEF Init, SignalInit
    <3>2. pipe \in Seq(CaughtSignals) /\ Len(pipe) <= PipeCap
      BY EmptySeq DEF Init, SignalInit
    <3>3. cancel \in BOOLEAN /\ fresh \in BOOLEAN
      BY DEF Init, SignalInit
    <3> QED BY <3>1, <3>2, <3>3 DEF SignalTypeOK
  <2>2. tty \in Seq(Key) /\ line \in Seq(Nat) /\ batch \in Seq(Key)
    BY EmptySeq DEF Init
  <2>3. /\ hup \in BOOLEAN /\ ttyOpen \in BOOLEAN /\ echoed \in BOOLEAN
    BY DEF Init
  <2> QED BY <2>1, <2>2, <2>3 DEF Init, TypeOK, RawPoints, IdlePoints, ClosePoints
<1>2. TypeOK /\ [Next]_vars => TypeOK'
  <2> SUFFICES ASSUME TypeOK, [Next]_vars PROVE TypeOK'
    OBVIOUS
  <2>1. CASE UNCHANGED vars
    BY <2>1 DEF vars, signalVars, ttyVars, sizeVars, lineVars, ghostVars,
                sessVars, TypeOK, SignalTypeOK
  <2> QED BY <2>1, EnvironmentType, KernelType, ShellType DEF Next
<1> QED BY <1>1, <1>2, PTL DEF Spec

-----------------------------------------------------------------------------
(* Raw mode.                                                                *)

LEMMA EnvironmentRaw ==
  TypeOK /\ RawModeDiscipline /\ Environment => RawModeDiscipline'
<1> SUFFICES ASSUME TypeOK, RawModeDiscipline, Environment
             PROVE  RawModeDiscipline'
  OBVIOUS
<1> USE DEF RawModeDiscipline, RawPoints, IdlePoints, ClosePoints, Readable,
            ttyVars, sizeVars, lineVars, ghostVars, sessVars, signalVars
<1>1. ASSUME NEW k \in Keys, Type(k) PROVE RawModeDiscipline'
  <2>1. CASE k = "ctrlC" /\ termios = "cooked"
    <3>1. pc \notin RawPoints
      BY <2>1
    <3> QED BY <1>1, <2>1, <3>1 DEF Type
  <2>2. CASE ~(k = "ctrlC" /\ termios = "cooked")
    <3>1. tty' = Append(tty, [key |-> k, at |-> typed + 1])
      BY <1>1, <2>2 DEF Type
    <3>2. [key |-> k, at |-> typed + 1] \in Key
      BY DEF TypeOK, Key
    <3>3. tty' # <<>>
      BY <3>1, <3>2, AppendProperties DEF TypeOK
    <3> QED BY <1>1, <2>2, <3>3 DEF Type
  <2> QED BY <2>1, <2>2
<1>2. ASSUME NEW s \in Sent, Kill(s) PROVE RawModeDiscipline'
  BY <1>2 DEF Kill, Raise
<1>3. CASE ResizeWindow
  BY <1>3 DEF ResizeWindow, Raise
<1>4. CASE Hangup
  BY <1>4 DEF Hangup, Raise
<1>5. ASSUME NEW m \in UserModes, ChildSetsTermios(m) PROVE RawModeDiscipline'
  BY <1>5 DEF ChildSetsTermios
<1>6. CASE ChildExit
  BY <1>6 DEF ChildExit
<1> QED BY <1>1, <1>2, <1>3, <1>4, <1>5, <1>6 DEF Environment

(* A handler that interrupts pselect has left a byte in the pipe, its own   *)
(* or one that was there.                                                   *)
LEMMA HandlerLeavesByte ==
  ASSUME TypeOK, NEW s \in CaughtSignals, Handler(s)
  PROVE  pipe' # <<>>
<1>1. CASE Len(pipe) < PipeCap
  <2>1. pipe' = Append(pipe, s)
    BY <1>1 DEF Handler
  <2> QED BY <2>1, AppendProperties DEF TypeOK, SignalTypeOK
<1>2. CASE ~(Len(pipe) < PipeCap)
  <2>1. pipe' = pipe
    BY <1>2 DEF Handler
  <2>2. Len(pipe) # 0
    BY <1>2
  <2> QED BY <2>1, <2>2, EmptySeq
<1> QED BY <1>1, <1>2

LEMMA KernelRaw ==
  TypeOK /\ RawModeDiscipline /\ Kernel => RawModeDiscipline'
<1> SUFFICES ASSUME TypeOK, RawModeDiscipline,
                    NEW s \in CaughtSignals, Deliver(s)
             PROVE  RawModeDiscipline'
  BY DEF Kernel
<1>1. pipe' # <<>>
  BY HandlerLeavesByte DEF Deliver
<1>2. pc' = pc \/ (pc = "wait" /\ pc' = "drain")
  BY DEF Deliver
<1>3. UNCHANGED <<tty, hup, termios, userMode, guard, ttyOpen, exit>>
  BY DEF Deliver, ttyVars, sessVars
<1> QED BY <1>1, <1>2, <1>3 DEF RawModeDiscipline, RawPoints, IdlePoints,
                                ClosePoints, Readable

LEMMA ShellRaw ==
  TypeOK /\ RawModeDiscipline /\ Shell => RawModeDiscipline'
<1> SUFFICES ASSUME TypeOK, RawModeDiscipline, Shell
             PROVE  RawModeDiscipline'
  OBVIOUS
<1> USE DEF RawModeDiscipline, RawPoints, IdlePoints, ClosePoints, Readable,
            ttyVars, sizeVars, lineVars, ghostVars, sessVars, signalVars, At
<1>1. CASE EnterRaw
  <2>1. termios = userMode
    BY <1>1 DEF EnterRaw
  <2> QED BY <1>1, <2>1 DEF EnterRaw
<1>2. CASE EnterRawFails
  BY <1>2 DEF EnterRawFails
<1>3. CASE WritePrompt
  BY <1>3 DEF WritePrompt
<1>4. CASE Wait
  BY <1>4 DEF Wait
<1>5. CASE Drain
  <2>1. pc' \in {"interrupt", "resize", "leave", "wait"}
    BY <1>5 DEF Drain, OnSignal
  <2> QED BY <1>5, <2>1 DEF Drain
<1>6. CASE Interrupt
  BY <1>6 DEF Interrupt
<1>7. CASE RefreshWindow
  BY <1>7 DEF RefreshWindow
<1>8. CASE ReadBatch
  BY <1>8 DEF ReadBatch
<1>9. CASE PumpFails
  BY <1>9 DEF PumpFails
<1>10. CASE Pump
  <2>1. pc = "pump" /\ pc' \in {"pump", "interrupt", "submit", "leave", "wait"}
    BY <1>10 DEF Pump, PumpKey, PushByte, EraseByte, CtrlC, Enter, CtrlD, BatchDone
  <2>2. UNCHANGED <<termios, userMode, guard, ttyOpen, exit>>
    BY <1>10 DEF Pump, PushByte, EraseByte, CtrlC, Enter, CtrlD, BatchDone
  <2> QED BY <2>1, <2>2
<1>11. CASE Submit
  BY <1>11 DEF Submit, LeaveRaw, Restores, TypeOK
<1>12. ASSUME NEW c \in Commands, Dispatch(c) PROVE RawModeDiscipline'
  BY <1>12 DEF Dispatch
<1>13. CASE Leave
  BY <1>13 DEF Leave, LeaveRaw, Restores, TypeOK
<1>14. CASE DropTty
  BY <1>14 DEF DropTty
<1>15. CASE DropGuard
  BY <1>15 DEF DropGuard, LeaveRaw, Restores
<1> QED BY <1>1, <1>2, <1>3, <1>4, <1>5, <1>6, <1>7, <1>8, <1>9, <1>10, <1>11,
           <1>12, <1>13, <1>14, <1>15 DEF Shell

(* The session owns a guard, and the terminal is raw, exactly inside the    *)
(* loop, whatever signals, keystrokes, hangups and I/O errors occur.        *)
THEOREM RawModeDisciplined == Spec => []RawModeDiscipline
<1>1. Init => RawModeDiscipline
  BY DEF Init, RawModeDiscipline, RawPoints, IdlePoints, ClosePoints
<1>2. TypeOK /\ RawModeDiscipline /\ [Next]_vars => RawModeDiscipline'
  <2> SUFFICES ASSUME TypeOK, RawModeDiscipline, [Next]_vars
               PROVE  RawModeDiscipline'
    OBVIOUS
  <2>1. CASE UNCHANGED vars
    BY <2>1 DEF vars, signalVars, ttyVars, sizeVars, lineVars, ghostVars,
                sessVars, RawModeDiscipline, Readable
  <2> QED BY <2>1, EnvironmentRaw, KernelRaw, ShellRaw DEF Next
<1> QED BY <1>1, <1>2, TypeInvariance, PTL DEF Spec

(* A command, and whoever gets the terminal after a session that met no I/O *)
(* error, finds the settings the last program other than the shell chose.   *)
THEOREM TerminalIsHandedBack == Spec => []TerminalHandedBack
<1>1. RawModeDiscipline => TerminalHandedBack
  BY DEF RawModeDiscipline, TerminalHandedBack, IdlePoints, ClosePoints
<1> QED BY <1>1, RawModeDisciplined, PTL

(* The loop never blocks in read(2): EINTR always comes with a byte, and    *)
(* nothing empties the terminal between pselect and the read.               *)
THEOREM ReadNeverBlocks == Spec => []NeverBlocksInRead
<1>1. RawModeDiscipline => NeverBlocksInRead
  BY DEF RawModeDiscipline, NeverBlocksInRead
<1> QED BY <1>1, RawModeDisciplined, PTL

-----------------------------------------------------------------------------
(* Keystrokes.                                                              *)

(* The bytes of a queue carry numbers. *)
LEMMA KeyNumbers ==
  ASSUME NEW s \in Seq(Key)
  PROVE  Len(s) \in Nat /\ \A i \in 1..Len(s) : s[i].at \in Nat
<1>1. Len(s) \in Nat /\ \A i \in 1..Len(s) : s[i] \in Key
  BY ElementOfSeq, LenProperties
<1> QED BY <1>1 DEF Key

(* A step that only discards bytes keeps the order. *)
LEMMA DiscardKeepsOrder ==
  ASSUME KeysInOrder,
         tty' = tty \/ tty' = <<>>,
         line' = line \/ line' = <<>>,
         batch' = batch \/ batch' = <<>>,
         UNCHANGED <<typed, floor>>,
         pc' \in RawPoints => pc \in RawPoints,
         pc' \in IdlePoints => line' = <<>>,
         pc' \notin {"pump"} \cup ClosePoints => batch' = <<>>
  PROVE  KeysInOrder'
<1> USE DEF KeysInOrder
<1>1. /\ \A i, j \in 1..Len(tty') : i < j => tty'[i].at < tty'[j].at
      /\ \A i, j \in 1..Len(batch') : i < j => batch'[i].at < batch'[j].at
      /\ \A i, j \in 1..Len(line') : i < j => line'[i] < line'[j]
  BY EmptySeq
<1>2. /\ \A i \in 1..Len(batch'), j \in 1..Len(tty') : batch'[i].at < tty'[j].at
      /\ \A i \in 1..Len(line'), j \in 1..Len(batch') : line'[i] < batch'[j].at
      /\ \A i \in 1..Len(line'), j \in 1..Len(tty') : line'[i] < tty'[j].at
  BY EmptySeq
<1>3. /\ \A i \in 1..Len(tty') : tty'[i].at <= typed'
      /\ \A i \in 1..Len(batch') : batch'[i].at <= typed'
      /\ \A i \in 1..Len(line') : floor' < line'[i] /\ line'[i] <= typed'
      /\ floor' <= typed'
  BY EmptySeq
<1>4. pc' \in RawPoints =>
        /\ \A i \in 1..Len(tty') : floor' < tty'[i].at
        /\ \A i \in 1..Len(batch') : floor' < batch'[i].at
  BY EmptySeq
<1> QED BY <1>1, <1>2, <1>3, <1>4

LEMMA EnvironmentKeys ==
  TypeOK /\ KeysInOrder /\ Environment => KeysInOrder'
<1> SUFFICES ASSUME TypeOK, KeysInOrder, Environment PROVE KeysInOrder'
  OBVIOUS
<1> USE DEF ttyVars, sizeVars, lineVars, ghostVars, sessVars, signalVars,
            RawPoints, IdlePoints, ClosePoints
<1>1. ASSUME NEW k \in Keys, Type(k) PROVE KeysInOrder'
  <2> DEFINE key == [key |-> k, at |-> typed + 1]
  <2>1. key \in Key /\ key.at = typed + 1
    BY DEF TypeOK, Key
  <2>2. /\ typed' = typed + 1 /\ typed \in Nat
        /\ UNCHANGED <<line, batch, floor, pc>>
    BY <1>1 DEF Type, TypeOK
  <2>3. tty \in Seq(Key) /\ batch \in Seq(Key) /\ line \in Seq(Nat) /\ floor \in Nat
    BY DEF TypeOK
  <2>4. \/ tty' = <<>>
        \/ /\ Len(tty') = Len(tty) + 1
           /\ \A i \in 1..Len(tty) : tty'[i] = tty[i]
           /\ tty'[Len(tty) + 1].at = typed + 1
    <3>1. tty' = <<>> \/ tty' = Append(tty, key)
      BY <1>1 DEF Type
    <3>2. /\ Len(Append(tty, key)) = Len(tty) + 1
          /\ \A i \in 1..Len(tty) : Append(tty, key)[i] = tty[i]
          /\ Append(tty, key)[Len(tty) + 1] = key
      BY <2>1, <2>3, AppendProperties
    <3> QED BY <2>1, <3>1, <3>2
  <2>5. Len(tty) \in Nat /\ \A i \in 1..Len(tty) : tty[i].at \in Nat
    BY <2>3, KeyNumbers
  <2>6. \A i \in 1..Len(batch) : batch[i].at \in Nat
    BY <2>3, KeyNumbers
  <2>7. \A i \in 1..Len(line) : line[i] \in Nat
    BY <2>3, ElementOfSeq, LenProperties
  <2>8. /\ \A i \in 1..Len(tty') : tty'[i].at <= typed'
        /\ \A i, j \in 1..Len(tty') : i < j => tty'[i].at < tty'[j].at
        /\ \A i \in 1..Len(batch), j \in 1..Len(tty') : batch[i].at < tty'[j].at
        /\ \A i \in 1..Len(line), j \in 1..Len(tty') : line[i] < tty'[j].at
        /\ pc \in RawPoints => \A i \in 1..Len(tty') : floor < tty'[i].at
    <3>1. CASE tty' = <<>>
      BY <3>1, EmptySeq
    <3>2. CASE tty' # <<>>
      <4> HIDE DEF RawPoints
      <4>1. /\ Len(tty') = Len(tty) + 1
            /\ \A i \in 1..Len(tty) : tty'[i] = tty[i]
            /\ tty'[Len(tty) + 1].at = typed + 1
        BY <2>4, <3>2
      <4> HIDE DEF key
      <4>2. \A j \in 1..Len(tty') :
              \/ j \in 1..Len(tty) /\ tty'[j] = tty[j]
              \/ j = Len(tty) + 1 /\ tty'[j].at = typed + 1
        BY <4>1, <2>5
      <4>3. \A j \in 1..Len(tty') : tty'[j].at \in Nat /\ tty'[j].at <= typed'
        <5> SUFFICES ASSUME NEW j \in 1..Len(tty')
                     PROVE  tty'[j].at \in Nat /\ tty'[j].at <= typed'
          OBVIOUS
        <5>1. j \in 1..Len(tty) => tty[j].at \in Nat /\ tty[j].at <= typed
          BY <2>5 DEF KeysInOrder
        <5> QED BY <4>2, <5>1, <2>2
      <4>5. \A i \in 1..Len(batch), j \in 1..Len(tty') : batch[i].at < tty'[j].at
        <5> SUFFICES ASSUME NEW i \in 1..Len(batch), NEW j \in 1..Len(tty')
                     PROVE  batch[i].at < tty'[j].at
          OBVIOUS
        <5>1. batch[i].at \in Nat /\ batch[i].at <= typed
          BY <2>6 DEF KeysInOrder
        <5>2. j \in 1..Len(tty) => batch[i].at < tty[j].at
          BY DEF KeysInOrder
        <5> QED BY <4>2, <5>1, <5>2, <2>2
      <4>6. \A i \in 1..Len(line), j \in 1..Len(tty') : line[i] < tty'[j].at
        <5> SUFFICES ASSUME NEW i \in 1..Len(line), NEW j \in 1..Len(tty')
                     PROVE  line[i] < tty'[j].at
          OBVIOUS
        <5>1. line[i] \in Nat /\ line[i] <= typed
          BY <2>7 DEF KeysInOrder
        <5>2. j \in 1..Len(tty) => line[i] < tty[j].at
          BY DEF KeysInOrder
        <5> QED BY <4>2, <5>1, <5>2, <2>2
      <4>7. ASSUME pc \in RawPoints, NEW j \in 1..Len(tty')
            PROVE  floor < tty'[j].at
        <5>1. floor \in Nat /\ floor <= typed
          BY <2>3 DEF KeysInOrder
        <5>2. j \in 1..Len(tty) => floor < tty[j].at
          BY <4>7 DEF KeysInOrder
        <5> QED BY <4>2, <5>1, <5>2, <2>2
      <4>4. \A i, j \in 1..Len(tty') : i < j => tty'[i].at < tty'[j].at
        <5> SUFFICES ASSUME NEW i \in 1..Len(tty'), NEW j \in 1..Len(tty'), i < j
                     PROVE  tty'[i].at < tty'[j].at
          OBVIOUS
        <5>1. i \in 1..Len(tty) /\ tty'[i] = tty[i] /\ tty[i].at <= typed
          BY <4>1, <4>2, <2>5 DEF KeysInOrder
        <5> QED BY <5>1, <4>2, <2>2, <2>5 DEF KeysInOrder
      <4> QED BY <4>3, <4>4, <4>5, <4>6, <4>7
    <3> QED BY <3>1, <3>2
  <2>9. /\ \A i \in 1..Len(batch) : batch[i].at <= typed'
        /\ \A i \in 1..Len(line) : line[i] <= typed'
        /\ floor <= typed'
    BY <2>2, <2>3, <2>6, <2>7 DEF KeysInOrder
  <2> QED BY <2>2, <2>8, <2>9 DEF KeysInOrder
<1>2. ASSUME NEW s \in Sent, Kill(s) PROVE KeysInOrder'
  BY <1>2, DiscardKeepsOrder DEF Kill, KeysInOrder
<1>3. CASE ResizeWindow
  BY <1>3, DiscardKeepsOrder DEF ResizeWindow, KeysInOrder
<1>4. CASE Hangup
  BY <1>4, DiscardKeepsOrder DEF Hangup, KeysInOrder
<1>5. ASSUME NEW m \in UserModes, ChildSetsTermios(m) PROVE KeysInOrder'
  BY <1>5, DiscardKeepsOrder DEF ChildSetsTermios, KeysInOrder
<1>6. CASE ChildExit
  BY <1>6, DiscardKeepsOrder DEF ChildExit, KeysInOrder
<1> QED BY <1>1, <1>2, <1>3, <1>4, <1>5, <1>6 DEF Environment

LEMMA KernelKeys == TypeOK /\ KeysInOrder /\ Kernel => KeysInOrder'
<1> SUFFICES ASSUME KeysInOrder, NEW s \in CaughtSignals, Deliver(s)
             PROVE  KeysInOrder'
  BY DEF Kernel
<1>1. /\ UNCHANGED <<tty, line, batch, typed, floor>>
      /\ pc' = pc \/ (pc = "wait" /\ pc' = "drain")
  BY DEF Deliver, ttyVars, lineVars, ghostVars
<1> QED BY <1>1, DiscardKeepsOrder DEF KeysInOrder, RawPoints, IdlePoints,
                                       ClosePoints

(* What the pump keeps of a batch once it has taken the first byte. *)
LEMMA TailKeeps ==
  ASSUME NEW s \in Seq(Key), s # <<>>
  PROVE  /\ Len(s) \in Nat
         /\ 1 \in 1..Len(s)
         /\ Head(s) = s[1]
         /\ s[1].at \in Nat
         /\ \A i \in 1..Len(Tail(s)) : i + 1 \in 1..Len(s) /\ Tail(s)[i] = s[i + 1]
<1>1. Len(s) \in Nat \ {0}
  BY EmptySeq
<1>2. /\ Len(Tail(s)) = Len(s) - 1
      /\ \A i \in 1..Len(Tail(s)) : Tail(s)[i] = s[i + 1]
  BY HeadTailProperties
<1>3. Head(s) = s[1]
  OBVIOUS
<1>4. s[1].at \in Nat
  BY <1>1, KeyNumbers
<1> QED BY <1>1, <1>2, <1>3, <1>4

(* The pump: line and tty untouched or shortened, the batch loses its head. *)
LEMMA PushKeys == TypeOK /\ KeysInOrder /\ PushByte => KeysInOrder'
<1> SUFFICES ASSUME TypeOK, KeysInOrder, PushByte PROVE KeysInOrder'
  OBVIOUS
<1> DEFINE num == batch[1].at
<1>1. /\ batch \in Seq(Key) /\ tty \in Seq(Key) /\ line \in Seq(Nat)
      /\ floor \in Nat /\ typed \in Nat
  BY DEF TypeOK
<1>2. /\ batch # <<>>
      /\ pc = "pump"
      /\ line' = Append(line, Head(batch).at)
      /\ batch' = Tail(batch)
      /\ UNCHANGED <<pc, tty, typed, floor>>
  BY DEF PushByte, PumpKey, At, ttyVars, ghostVars
<1>3. /\ Len(batch) \in Nat
      /\ 1 \in 1..Len(batch)
      /\ Head(batch) = batch[1]
      /\ num \in Nat
      /\ \A i \in 1..Len(batch') : i + 1 \in 1..Len(batch) /\ batch'[i] = batch[i + 1]
  BY <1>1, <1>2, TailKeeps
<1>4. /\ Len(line) \in Nat
      /\ Len(line') = Len(line) + 1
      /\ \A i \in 1..Len(line) : line'[i] = line[i]
      /\ line'[Len(line) + 1] = num
  <2>1. line' = Append(line, num)
    BY <1>2, <1>3
  <2> HIDE DEF num
  <2> QED BY <1>1, <1>3, <2>1, AppendProperties, LenProperties
<1>5. \A i \in 1..Len(line) : line[i] \in Nat
  BY <1>1, ElementOfSeq
<1>6. /\ \A i \in 1..Len(batch) : batch[i].at \in Nat
      /\ \A i \in 1..Len(tty) : tty[i].at \in Nat
  BY <1>1, KeyNumbers
<1>7. \A j \in 1..Len(line') :
        \/ j \in 1..Len(line) /\ line'[j] = line[j]
        \/ j = Len(line) + 1 /\ line'[j] = num
  BY <1>4
<1>8. /\ floor < num
      /\ num <= typed
      /\ \A i \in 1..Len(line) : line[i] < num
      /\ \A i \in 1..Len(tty) : num < tty[i].at
  BY <1>2, <1>3 DEF KeysInOrder, RawPoints
<1>9. \A i \in 1..Len(batch') : num < batch'[i].at
  <2> SUFFICES ASSUME NEW i \in 1..Len(batch') PROVE num < batch'[i].at
    OBVIOUS
  <2>1. i + 1 \in 1..Len(batch) /\ batch'[i] = batch[i + 1] /\ 1 < i + 1
    BY <1>3
  <2> QED BY <1>3, <2>1 DEF KeysInOrder
<1>10. \A i, j \in 1..Len(batch') : i < j => batch'[i].at < batch'[j].at
  <2> SUFFICES ASSUME NEW i \in 1..Len(batch'), NEW j \in 1..Len(batch'), i < j
               PROVE  batch'[i].at < batch'[j].at
    OBVIOUS
  <2>1. /\ i + 1 \in 1..Len(batch) /\ batch'[i] = batch[i + 1]
        /\ j + 1 \in 1..Len(batch) /\ batch'[j] = batch[j + 1]
        /\ i + 1 < j + 1
    BY <1>3
  <2> QED BY <2>1 DEF KeysInOrder
<1>11. \A i, j \in 1..Len(line') : i < j => line'[i] < line'[j]
  <2> SUFFICES ASSUME NEW i \in 1..Len(line'), NEW j \in 1..Len(line'), i < j
               PROVE  line'[i] < line'[j]
    OBVIOUS
  <2>1. i \in 1..Len(line) /\ line'[i] = line[i]
    BY <1>4, <1>7
  <2>2. j \in 1..Len(line) => line[i] < line[j]
    BY <2>1 DEF KeysInOrder
  <2> QED BY <1>7, <1>8, <2>1, <2>2
<1>12. \A i \in 1..Len(batch'), j \in 1..Len(tty') : batch'[i].at < tty'[j].at
  BY <1>2, <1>3 DEF KeysInOrder
<1>13. \A i \in 1..Len(line'), j \in 1..Len(batch') : line'[i] < batch'[j].at
  <2> SUFFICES ASSUME NEW i \in 1..Len(line'), NEW j \in 1..Len(batch')
               PROVE  line'[i] < batch'[j].at
    OBVIOUS
  <2>1. j + 1 \in 1..Len(batch) /\ batch'[j] = batch[j + 1]
    BY <1>3
  <2>2. i \in 1..Len(line) => line[i] < batch[j + 1].at
    BY <2>1 DEF KeysInOrder
  <2> QED BY <1>7, <1>9, <2>1, <2>2
<1>14. \A i \in 1..Len(line'), j \in 1..Len(tty') : line'[i] < tty'[j].at
  BY <1>2, <1>7, <1>8 DEF KeysInOrder
<1>15. \A i \in 1..Len(line') : floor < line'[i] /\ line'[i] <= typed
  BY <1>7, <1>8 DEF KeysInOrder
<1>16. \A i \in 1..Len(batch') : floor < batch'[i].at /\ batch'[i].at <= typed
  BY <1>2, <1>3 DEF KeysInOrder, RawPoints
<1> HIDE DEF num
<1>17. /\ \A i, j \in 1..Len(tty') : i < j => tty'[i].at < tty'[j].at
       /\ \A i \in 1..Len(tty') : tty'[i].at <= typed' /\ floor' < tty'[i].at
       /\ floor' <= typed'
  BY <1>2 DEF KeysInOrder, RawPoints
<1> QED BY <1>2, <1>10, <1>11, <1>12, <1>13, <1>14, <1>15, <1>16, <1>17
        DEF KeysInOrder, RawPoints, IdlePoints, ClosePoints

(* A kill drops the last byte of the line and the head of the batch. *)
LEMMA EraseKeys == TypeOK /\ KeysInOrder /\ EraseByte => KeysInOrder'
<1> SUFFICES ASSUME TypeOK, KeysInOrder, EraseByte PROVE KeysInOrder'
  OBVIOUS
<1>1. batch \in Seq(Key) /\ line \in Seq(Nat)
  BY DEF TypeOK
<1>2. /\ batch # <<>>
      /\ pc = "pump"
      /\ line' = IF line = <<>> THEN <<>> ELSE SubSeq(line, 1, Len(line) - 1)
      /\ batch' = Tail(batch)
      /\ UNCHANGED <<pc, tty, typed, floor>>
  BY DEF EraseByte, PumpKey, At, ttyVars, ghostVars
<1>3. \A i \in 1..Len(batch') : i + 1 \in 1..Len(batch) /\ batch'[i] = batch[i + 1]
  BY <1>1, <1>2, TailKeeps
<1>4. \A i \in 1..Len(line') : i \in 1..Len(line) /\ line'[i] = line[i]
  <2>1. CASE line = <<>>
    BY <1>2, <2>1, EmptySeq
  <2>2. CASE line # <<>>
    <3>1. Len(line) \in Nat \ {0}
      BY <1>1, <2>2, EmptySeq
    <3>2. \A i \in 1..(Len(line) - 1) : line[i] \in Nat
      BY <1>1, <3>1, ElementOfSeq
    <3>3. /\ Len(SubSeq(line, 1, Len(line) - 1))
               = IF 1 <= Len(line) - 1 THEN Len(line) - 1 - 1 + 1 ELSE 0
          /\ \A i \in 1..(Len(line) - 1 - 1 + 1) :
               SubSeq(line, 1, Len(line) - 1)[i] = line[1 + i - 1]
      BY <3>1, <3>2, SubSeqProperties
    <3> QED BY <1>2, <2>2, <3>1, <3>3
  <2> QED BY <2>1, <2>2
<1>5. \A i, j \in 1..Len(batch') : i < j => batch'[i].at < batch'[j].at
  <2> SUFFICES ASSUME NEW i \in 1..Len(batch'), NEW j \in 1..Len(batch'), i < j
               PROVE  batch'[i].at < batch'[j].at
    OBVIOUS
  <2>1. /\ i + 1 \in 1..Len(batch) /\ batch'[i] = batch[i + 1]
        /\ j + 1 \in 1..Len(batch) /\ batch'[j] = batch[j + 1]
        /\ i + 1 < j + 1
    BY <1>3
  <2> QED BY <2>1 DEF KeysInOrder
<1>6. /\ \A i, j \in 1..Len(line') : i < j => line'[i] < line'[j]
      /\ \A i \in 1..Len(line'), j \in 1..Len(tty') : line'[i] < tty'[j].at
      /\ \A i \in 1..Len(line') : floor' < line'[i] /\ line'[i] <= typed'
  BY <1>2, <1>4 DEF KeysInOrder
<1>7. \A i \in 1..Len(line'), j \in 1..Len(batch') : line'[i] < batch'[j].at
  BY <1>3, <1>4 DEF KeysInOrder
<1>8. /\ \A i \in 1..Len(batch'), j \in 1..Len(tty') : batch'[i].at < tty'[j].at
      /\ \A i \in 1..Len(batch') : floor' < batch'[i].at /\ batch'[i].at <= typed'
  BY <1>2, <1>3 DEF KeysInOrder, RawPoints
<1>9. /\ \A i, j \in 1..Len(tty') : i < j => tty'[i].at < tty'[j].at
      /\ \A i \in 1..Len(tty') : tty'[i].at <= typed' /\ floor' < tty'[i].at
      /\ floor' <= typed'
  BY <1>2 DEF KeysInOrder, RawPoints
<1> QED BY <1>2, <1>5, <1>6, <1>7, <1>8, <1>9
        DEF KeysInOrder, RawPoints, IdlePoints, ClosePoints

(* A read splits the terminal's queue into the batch and the rest. *)
LEMMA ReadKeys == TypeOK /\ KeysInOrder /\ ReadBatch => KeysInOrder'
<1> SUFFICES ASSUME TypeOK, KeysInOrder, ReadBatch PROVE KeysInOrder'
  OBVIOUS
<1>1. CASE tty = <<>>
  BY <1>1, DiscardKeepsOrder
     DEF ReadBatch, At, KeysInOrder, RawPoints, IdlePoints, ClosePoints, ghostVars
<1>2. CASE tty # <<>>
  <2>1. /\ pc = "read"
        /\ pc' = "pump"
        /\ batch' = Prefix(tty, ReadCap)
        /\ tty' = SubSeq(tty, ReadCap + 1, Len(tty))
        /\ UNCHANGED <<line, typed, floor>>
    BY <1>2 DEF ReadBatch, At, ghostVars
  <2>2. tty \in Seq(Key) /\ ReadCap \in Nat
    BY DEF TypeOK
  <2>3. \A i \in 1..Len(batch') :
          i \in 1..Len(tty) /\ i <= ReadCap /\ batch'[i] = tty[i]
    <3>1. Len(batch') <= Len(tty) /\ Len(batch') \in Nat /\ Len(tty) \in Nat
      BY <2>1, <2>2, PrefixType, LenProperties
    <3>2. \A i \in 1..Len(batch') : i <= ReadCap /\ batch'[i] = tty[i]
      BY <2>1, <2>2, PrefixType
    <3> QED BY <3>1, <3>2
  <2>4. \A i \in 1..Len(tty') : i + ReadCap \in 1..Len(tty) /\ tty'[i] = tty[i + ReadCap]
    BY <2>1, <2>2, RestType
  <2>5. \A i, j \in 1..Len(tty') : i < j => tty'[i].at < tty'[j].at
    <3> SUFFICES ASSUME NEW i \in 1..Len(tty'), NEW j \in 1..Len(tty'), i < j
                 PROVE  tty'[i].at < tty'[j].at
      OBVIOUS
    <3>1. /\ i + ReadCap \in 1..Len(tty) /\ tty'[i] = tty[i + ReadCap]
          /\ j + ReadCap \in 1..Len(tty) /\ tty'[j] = tty[j + ReadCap]
          /\ i + ReadCap < j + ReadCap
      BY <2>2, <2>4
    <3> QED BY <3>1 DEF KeysInOrder
  <2>6. \A i, j \in 1..Len(batch') : i < j => batch'[i].at < batch'[j].at
    BY <2>3 DEF KeysInOrder
  <2>7. \A i \in 1..Len(batch'), j \in 1..Len(tty') : batch'[i].at < tty'[j].at
    <3> SUFFICES ASSUME NEW i \in 1..Len(batch'), NEW j \in 1..Len(tty')
                 PROVE  batch'[i].at < tty'[j].at
      OBVIOUS
    <3>1. i \in 1..Len(tty) /\ i <= ReadCap /\ batch'[i] = tty[i]
      BY <2>3
    <3>2. j + ReadCap \in 1..Len(tty) /\ tty'[j] = tty[j + ReadCap] /\ i < j + ReadCap
      BY <2>2, <2>4, <3>1
    <3> QED BY <3>1, <3>2 DEF KeysInOrder
  <2>8. /\ \A i \in 1..Len(line'), j \in 1..Len(batch') : line'[i] < batch'[j].at
        /\ \A i \in 1..Len(line'), j \in 1..Len(tty') : line'[i] < tty'[j].at
    <3>1. \A i \in 1..Len(line), j \in 1..Len(tty) : line[i] < tty[j].at
      BY DEF KeysInOrder
    <3>2. \A i \in 1..Len(line), j \in 1..Len(batch') : line[i] < batch'[j].at
      BY <2>3, <3>1
    <3>3. \A i \in 1..Len(line), j \in 1..Len(tty') : line[i] < tty'[j].at
      BY <2>4, <3>1
    <3> QED BY <2>1, <3>2, <3>3
  <2>9. /\ \A i \in 1..Len(tty') : floor' < tty'[i].at /\ tty'[i].at <= typed'
        /\ \A i \in 1..Len(batch') : floor' < batch'[i].at /\ batch'[i].at <= typed'
    BY <2>1, <2>3, <2>4 DEF KeysInOrder, RawPoints
  <2>10. /\ \A i, j \in 1..Len(line') : i < j => line'[i] < line'[j]
         /\ \A i \in 1..Len(line') : floor' < line'[i] /\ line'[i] <= typed'
         /\ floor' <= typed'
    BY <2>1 DEF KeysInOrder
  <2> QED BY <2>1, <2>5, <2>6, <2>7, <2>8, <2>9, <2>10
          DEF KeysInOrder, IdlePoints, ClosePoints
<1> QED BY <1>1, <1>2

(* ^C raises the floor to its own number; every byte left is younger. *)
LEMMA CtrlCKeys == TypeOK /\ KeysInOrder /\ CtrlC => KeysInOrder'
<1> SUFFICES ASSUME TypeOK, KeysInOrder, CtrlC PROVE KeysInOrder'
  OBVIOUS
<1>1. batch \in Seq(Key)
  BY DEF TypeOK
<1>2. /\ batch # <<>>
      /\ pc = "pump" /\ pc' = "interrupt"
      /\ line' = <<>>
      /\ batch' = <<>>
      /\ floor' = Head(batch).at
      /\ UNCHANGED <<tty, typed>>
  BY DEF CtrlC, PumpKey, At, ttyVars
<1>3. 1 \in 1..Len(batch) /\ floor' = batch[1].at
  BY <1>1, <1>2, TailKeeps
<1>4. /\ floor' <= typed'
      /\ \A i \in 1..Len(tty') : floor' < tty'[i].at
  BY <1>2, <1>3 DEF KeysInOrder
<1>5. /\ \A i, j \in 1..Len(tty') : i < j => tty'[i].at < tty'[j].at
      /\ \A i \in 1..Len(tty') : tty'[i].at <= typed'
  BY <1>2 DEF KeysInOrder
<1>6. 1..Len(line') = {} /\ 1..Len(batch') = {}
  BY <1>2
<1> QED BY <1>2, <1>4, <1>5, <1>6 DEF KeysInOrder, IdlePoints, ClosePoints

LEMMA ShellKeys == TypeOK /\ KeysInOrder /\ Shell => KeysInOrder'
<1> SUFFICES ASSUME TypeOK, KeysInOrder, Shell PROVE KeysInOrder'
  OBVIOUS
<1> USE DEF At, PumpKey, ttyVars, sizeVars, lineVars, ghostVars, sessVars
<1>1. CASE EnterRaw
  <2>1. pc = "enterRaw" /\ pc' = "prompt" /\ tty' = <<>>
        /\ floor' = typed /\ UNCHANGED <<line, batch, typed>>
    BY <1>1 DEF EnterRaw
  <2>2. line = <<>> /\ batch = <<>>
    BY <2>1 DEF KeysInOrder, IdlePoints, ClosePoints
  <2>3. 1..Len(line') = {} /\ 1..Len(batch') = {} /\ 1..Len(tty') = {}
    BY <2>1, <2>2
  <2>4. floor' <= typed'
    BY <2>1 DEF TypeOK
  <2> QED BY <2>1, <2>2, <2>3, <2>4 DEF KeysInOrder, IdlePoints, ClosePoints
<1> USE DiscardKeepsOrder DEF RawPoints, IdlePoints, ClosePoints
<1>2. CASE EnterRawFails
  BY <1>2 DEF EnterRawFails, KeysInOrder
<1>3. CASE WritePrompt
  BY <1>3 DEF WritePrompt, KeysInOrder
<1>4. CASE Wait
  BY <1>4 DEF Wait, KeysInOrder
<1>5. CASE Drain
  <2>1. pc = "drain" /\ pc' \in {"read", "interrupt", "resize", "leave", "wait"}
    BY <1>5 DEF Drain, OnSignal
  <2> QED BY <1>5, <2>1 DEF Drain, KeysInOrder
<1>6. CASE Interrupt
  BY <1>6 DEF Interrupt, KeysInOrder
<1>7. CASE RefreshWindow
  BY <1>7 DEF RefreshWindow, KeysInOrder
<1>8. CASE PumpFails
  BY <1>8 DEF PumpFails, KeysInOrder
<1>9. CASE Enter
  BY <1>9 DEF Enter, KeysInOrder
<1>10. CASE CtrlD
  BY <1>10 DEF CtrlD, KeysInOrder
<1>11. CASE BatchDone
  BY <1>11 DEF BatchDone, KeysInOrder
<1>12. CASE Submit
  BY <1>12 DEF Submit, LeaveRaw, KeysInOrder
<1>13. ASSUME NEW c \in Commands, Dispatch(c) PROVE KeysInOrder'
  BY <1>13 DEF Dispatch, KeysInOrder
<1>14. CASE Leave
  BY <1>14 DEF Leave, LeaveRaw, KeysInOrder
<1>15. CASE DropTty
  BY <1>15 DEF DropTty, KeysInOrder
<1>16. CASE DropGuard
  BY <1>16 DEF DropGuard, LeaveRaw, KeysInOrder
<1> QED BY <1>1, <1>2, <1>3, <1>4, <1>5, <1>6, <1>7, <1>8, <1>9, <1>10, <1>11,
           <1>12, <1>13, <1>14, <1>15, <1>16, PushKeys, EraseKeys, ReadKeys,
           CtrlCKeys
        DEF Shell, Pump

(* Keystrokes reach the line once and in the order they were typed, and     *)
(* what raw mode or ^C discarded never comes back (the pump, read(2), and   *)
(* TCSAFLUSH on both mode switches).                                        *)
THEOREM KeysStayInOrder == Spec => []KeysInOrder
<1>1. Init => KeysInOrder
  BY EmptySeq DEF Init, KeysInOrder, RawPoints, IdlePoints, ClosePoints
<1>2. TypeOK /\ KeysInOrder /\ [Next]_vars => KeysInOrder'
  <2> SUFFICES ASSUME TypeOK, KeysInOrder, [Next]_vars PROVE KeysInOrder'
    OBVIOUS
  <2>1. CASE UNCHANGED vars
    BY <2>1 DEF vars, ttyVars, lineVars, ghostVars, KeysInOrder
  <2> QED BY <2>1, EnvironmentKeys, KernelKeys, ShellKeys DEF Next
<1> QED BY <1>1, <1>2, TypeInvariance, PTL DEF Spec

(* No byte typed before raw mode was entered, or before a ^C, runs. *)
THEOREM TypeaheadIsNeverRun == Spec => []TypeaheadNeverRuns
<1>1. TypeOK /\ KeysInOrder => TypeaheadNeverRuns
  BY DEF KeysInOrder, TypeaheadNeverRuns, TypeOK
<1> QED BY <1>1, TypeInvariance, KeysStayInOrder, PTL

-----------------------------------------------------------------------------
(* The cancel flag, while only SIGINT, SIGTERM and SIGHUP arrive.           *)

Disruptive == {"INT", "TERM", "HUP"}

(* Whatever byte a drain keeps ends in an arm that settles the flag. *)
QuietPipe ==
  /\ pending \subseteq Disruptive
  /\ pipe \in Seq(Disruptive)
  /\ pc # "child"
  /\ FlagHasWakeup

LEMMA QuietPipeHolds ==
  ASSUME Sent \subseteq Disruptive, "spawn" \notin Commands
  PROVE  /\ Init => QuietPipe
         /\ QuietPipe /\ [Next]_vars => QuietPipe'
<1> USE DEF Disruptive
<1>1. Init => QuietPipe
  BY EmptySeq DEF Init, SignalInit, QuietPipe, FlagHasWakeup
<1>2. QuietPipe /\ [Next]_vars => QuietPipe'
  <2> SUFFICES ASSUME QuietPipe, [Next]_vars PROVE QuietPipe'
    OBVIOUS
  <2> USE DEF At, PumpKey, ClosePoints, vars, signalVars, ttyVars, sizeVars,
              lineVars, ghostVars, sessVars
  <2>1. CASE UNCHANGED <<pending, pipe, cancel, pc>>
    BY <2>1 DEF QuietPipe, FlagHasWakeup
  <2>2. CASE Environment
    <3>1. /\ pending' \subseteq Disruptive
          /\ UNCHANGED <<pipe, cancel, pc>>
      BY <2>2 DEF Environment, Type, Kill, Raise, ResizeWindow, Hangup,
                  ChildSetsTermios, ChildExit, QuietPipe
    <3> QED BY <3>1 DEF QuietPipe, FlagHasWakeup
  <2>3. ASSUME NEW s \in CaughtSignals, Deliver(s) PROVE QuietPipe'
    <3>1. /\ s \in Disruptive
          /\ pending' \subseteq Disruptive
          /\ pipe' = IF Len(pipe) < PipeCap THEN Append(pipe, s) ELSE pipe
          /\ pc' # "child"
          /\ pc' = pc \/ pc' = "drain"
      BY <2>3 DEF Deliver, Handler, QuietPipe
    <3>2. Append(pipe, s) \in Seq(Disruptive) /\ Append(pipe, s) # <<>>
      BY <3>1, AppendProperties DEF QuietPipe
    <3>3. Len(pipe) < PipeCap \/ pipe # <<>>
      BY EmptySeq
    <3>4. pipe' \in Seq(Disruptive) /\ pipe' # <<>>
      BY <3>1, <3>2, <3>3 DEF QuietPipe
    <3> QED BY <3>1, <3>4 DEF QuietPipe, FlagHasWakeup
  <2>4. CASE Drain
    <3>1. AfterDrain(pipe) \in Seq(Disruptive)
      BY RestType DEF AfterDrain, QuietPipe
    <3>2. CASE pipe = <<>>
      <4>1. pipe' = <<>>
        <5>1. Len(<<>>) = 0 /\ <<>> \in Seq(Disruptive)
          BY EmptySeq
        <5>2. Len(AfterDrain(<<>>)) <= 0
          BY <5>1, RestType DEF AfterDrain
        <5>3. AfterDrain(<<>>) = <<>>
          BY <3>1, <3>2, <5>2, EmptySeq
        <5> QED BY <2>4, <3>2, <5>3 DEF Drain
      <4> QED BY <2>4, <3>2, <4>1, EmptySeq DEF Drain, QuietPipe, FlagHasWakeup
    <3>3. CASE pipe # <<>>
      <4>1. Head(pipe) \in Disruptive
        BY <3>3, HeadTailProperties DEF QuietPipe
      <4>2. pc' \in {"interrupt", "leave"}
        BY <2>4, <3>3, <4>1 DEF Drain, OnSignal
      <4> QED BY <2>4, <3>1, <4>2 DEF Drain, QuietPipe, FlagHasWakeup
    <3> QED BY <3>2, <3>3
  <2>5. CASE Interrupt
    BY <2>5 DEF Interrupt, QuietPipe, FlagHasWakeup
  <2>6. CASE Shell /\ ~Drain /\ ~Interrupt
    <3>1. /\ UNCHANGED <<pending, pipe, cancel>>
          /\ pc' # "child"
          /\ pc \notin {"interrupt"}
          /\ pc \in {"leave"} \cup ClosePoints => pc' \in ClosePoints
      BY <2>6 DEF Shell, Pump, EnterRaw, EnterRawFails, WritePrompt, Wait,
                  RefreshWindow, ReadBatch, PumpFails, PushByte, EraseByte,
                  CtrlC, Enter, CtrlD, BatchDone, Submit, Dispatch, Leave,
                  DropTty, DropGuard, QuietPipe
    <3> QED BY <3>1 DEF QuietPipe, FlagHasWakeup
  <2> QED BY <2>1, <2>2, <2>3, <2>4, <2>5, <2>6 DEF Next, Kernel
<1> QED BY <1>1, <1>2

(* A set flag always has a byte, or an arm on its way, behind it: no SIGINT  *)
(* is lost by coalescing when nothing but SIGTERM and SIGHUP can precede it  *)
(* in a read (the handler sets the flag before its byte; drain_first_signal; *)
(* the Int arm resets after the drain).  With SIGCHLD it is false.           *)
THEOREM FlagKeepsItsWakeup ==
  ASSUME Sent \subseteq Disruptive, "spawn" \notin Commands
  PROVE  Spec => []FlagHasWakeup
<1>1. /\ Init => QuietPipe
      /\ QuietPipe /\ [Next]_vars => QuietPipe'
  BY QuietPipeHolds
<1>2. QuietPipe => FlagHasWakeup
  BY DEF QuietPipe
<1> QED BY <1>1, <1>2, PTL DEF Spec

(* A flag older than the prompt on screen is about to be reset: its byte is  *)
(* still in the pipe, which the next wait empties before anything is read.   *)
OldFlagSeen ==
  cancel /\ ~fresh =>
    \/ pc \in {"wait", "drain"} /\ pipe # <<>>
    \/ pc \in {"interrupt", "leave"} \cup ClosePoints

(* A prompt finds the flag set only by a signal younger than the prompt      *)
(* before it (the Int arm of drive_raw_loop_session; signals have priority   *)
(* over input in wait()).  With SIGCHLD or SIGALRM it is false.              *)
THEOREM PromptClearsCancel ==
  ASSUME Sent \subseteq Disruptive, "spawn" \notin Commands
  PROVE  Spec => CancelClearedByNextPrompt
<1> USE DEF Disruptive
<1>1. /\ Init => QuietPipe
      /\ QuietPipe /\ [Next]_vars => QuietPipe'
  BY QuietPipeHolds
<1>2. Init => OldFlagSeen
  BY DEF Init, SignalInit, OldFlagSeen
<1>3. QuietPipe /\ OldFlagSeen /\ [Next]_vars => OldFlagSeen'
  <2> SUFFICES ASSUME QuietPipe, OldFlagSeen, [Next]_vars PROVE OldFlagSeen'
    OBVIOUS
  <2> USE DEF At, PumpKey, ClosePoints, vars, signalVars, ttyVars, sizeVars,
              lineVars, ghostVars, sessVars
  <2>1. CASE UNCHANGED <<pipe, cancel, fresh, pc>>
    BY <2>1 DEF OldFlagSeen
  <2>2. CASE Environment
    <3>1. UNCHANGED <<pipe, cancel, fresh, pc>>
      BY <2>2 DEF Environment, Type, Kill, Raise, ResizeWindow, Hangup,
                  ChildSetsTermios, ChildExit, QuietPipe
    <3> QED BY <2>1, <3>1
  <2>3. ASSUME NEW s \in CaughtSignals, Deliver(s) PROVE OldFlagSeen'
    <3>1. /\ fresh' = (fresh \/ s \in Cancelling)
          /\ cancel' = (cancel \/ s \in Cancelling)
          /\ pipe' = IF Len(pipe) < PipeCap THEN Append(pipe, s) ELSE pipe
          /\ pc' = pc \/ (pc = "wait" /\ pc' = "drain")
          /\ s \in Disruptive
      BY <2>3 DEF Deliver, Handler, QuietPipe
    <3>2. pipe # <<>> => pipe' # <<>>
      <4>1. Append(pipe, s) # <<>>
        BY <3>1, AppendProperties DEF QuietPipe
      <4> QED BY <3>1, <4>1
    <3> QED BY <3>1, <3>2 DEF OldFlagSeen
  <2>4. CASE Drain
    <3>1. /\ pc = "drain" /\ UNCHANGED <<cancel, fresh>>
          /\ pc' = IF pipe = <<>> THEN "read" ELSE OnSignal(Head(pipe))
      BY <2>4 DEF Drain
    <3>2. CASE pipe = <<>>
      BY <3>1, <3>2 DEF OldFlagSeen
    <3>3. CASE pipe # <<>>
      <4>1. Head(pipe) \in Disruptive
        BY <3>3, HeadTailProperties DEF QuietPipe
      <4>2. pc' \in {"interrupt", "leave"}
        BY <3>1, <3>3, <4>1 DEF OnSignal
      <4> QED BY <3>1, <4>2 DEF OldFlagSeen
    <3> QED BY <3>2, <3>3
  <2>5. CASE Interrupt
    BY <2>5 DEF Interrupt, OldFlagSeen
  <2>6. CASE WritePrompt
    <3>1. pc = "prompt" /\ pc' = "wait" /\ UNCHANGED <<cancel, pipe>>
      BY <2>6 DEF WritePrompt
    <3>2. cancel => pipe # <<>>
      BY <3>1 DEF QuietPipe, FlagHasWakeup
    <3> QED BY <3>1, <3>2 DEF OldFlagSeen
  <2>7. CASE Wait
    BY <2>7 DEF Wait, OldFlagSeen
  <2>8. CASE Shell /\ ~Drain /\ ~Interrupt /\ ~WritePrompt /\ ~Wait
    <3>1. /\ UNCHANGED <<cancel, fresh>>
          /\ pc \notin {"interrupt", "wait", "drain"}
          /\ pc \in {"leave"} \cup ClosePoints => pc' \in ClosePoints
      BY <2>8 DEF Shell, Pump, EnterRaw, EnterRawFails, RefreshWindow,
                  ReadBatch, PumpFails, PushByte, EraseByte, CtrlC, Enter,
                  CtrlD, BatchDone, Submit, Dispatch, Leave, DropTty, DropGuard
    <3> QED BY <3>1 DEF OldFlagSeen
  <2> QED BY <2>1, <2>2, <2>3, <2>4, <2>5, <2>6, <2>7, <2>8 DEF Next, Kernel
<1>4. OldFlagSeen => [pc = "prompt" /\ pc' = "wait" => (cancel => fresh)]_vars
  BY DEF OldFlagSeen, ClosePoints
<1> QED BY <1>1, <1>2, <1>3, <1>4, PTL DEF Spec, CancelClearedByNextPrompt

-----------------------------------------------------------------------------
(* The interactive loop implements TerminalLease.                           *)

(* A session that ends has closed its descriptor before its guard goes. *)
ClosedBeforeGuard == pc = "dropGuard" => ~ttyOpen

LEMMA GuardDropsLast == Spec => []ClosedBeforeGuard
<1>1. Init => ClosedBeforeGuard
  BY DEF Init, ClosedBeforeGuard
<1>2. ClosedBeforeGuard /\ [Next]_vars => ClosedBeforeGuard'
  <2> SUFFICES ASSUME ClosedBeforeGuard, [Next]_vars, pc' = "dropGuard"
               PROVE  ~ttyOpen'
    BY DEF ClosedBeforeGuard
  <2> USE DEF ClosedBeforeGuard, At, PumpKey, vars, signalVars, ttyVars,
              sizeVars, lineVars, ghostVars, sessVars
  <2>1. CASE UNCHANGED vars
    BY <2>1
  <2>2. CASE Environment
    BY <2>2 DEF Environment, Type, Kill, ResizeWindow, Hangup,
                ChildSetsTermios, ChildExit
  <2>3. CASE Kernel
    BY <2>3 DEF Kernel, Deliver
  <2>4. CASE Shell
    <3>1. CASE Drain
      BY <3>1 DEF Drain, OnSignal
    <3>2. CASE Pump
      BY <3>2 DEF Pump, PushByte, EraseByte, CtrlC, Enter, CtrlD, BatchDone
    <3>3. CASE Shell /\ ~Drain /\ ~Pump
      BY <3>3 DEF Shell, EnterRaw, EnterRawFails, WritePrompt, Wait, Interrupt,
                  RefreshWindow, ReadBatch, PumpFails, Submit, Dispatch, Leave,
                  DropTty, DropGuard
    <3> QED BY <2>4, <3>1, <3>2, <3>3
  <2> QED BY <2>1, <2>2, <2>3, <2>4 DEF Next
<1> QED BY <1>1, <1>2, PTL DEF Spec

-----------------------------------------------------------------------------
(* What the shell has taken and not given up. *)
Held == IF guard = "none" THEN 0 ELSE Len(line) + Len(batch)
Gone == hup \/ exit = "error"

LeaseInv == TypeOK /\ RawModeDiscipline /\ KeysInOrder /\ ClosedBeforeGuard

LEMMA HeldType ==
  ASSUME TypeOK
  PROVE  Len(tty) \in Nat /\ Len(line) \in Nat /\ Len(batch) \in Nat /\ Held \in Nat
BY LenProperties DEF TypeOK, Held

(* Steps the lease does not see. *)
LEMMA LeaseStutters ==
  ASSUME UNCHANGED <<termios, userMode, guard, tty, hup>>,
         Held' = Held,
         (exit' = "error") <=> (exit = "error")
  PROVE  UNCHANGED Lease!leaseVars
BY DEF Lease!leaseVars, Held

(* Bytes of the line or of the batch are given up in the loop. *)
LEMMA LeaseForgets ==
  ASSUME TypeOK, guard # "none",
         UNCHANGED <<termios, userMode, guard, tty, hup, exit>>,
         Held' \in 0..Held
  PROVE  Lease!Next
BY DEF Lease!Next, Lease!Forget, Held

(* Raw mode ends: the guard restores what it saved, or the terminal is gone. *)
LEMMA LeaseGivenBack ==
  ASSUME LeaseInv, LeaveRaw, guard # "none",
         Gone \/ (guard = userMode /\ ttyOpen),
         hup' = hup, userMode' = userMode,
         (exit' = "error") <=> (exit = "error"),
         ~ttyOpen \/ guard = userMode
  PROVE  Lease!Next
<1>1. CASE Restores
  <2>1. tty' = <<>> /\ Len(tty') = 0 /\ termios' = userMode /\ guard' = "none"
    BY <1>1, EmptySeq DEF LeaveRaw, Restores
  <2>2. Lease!GiveBack
    BY <2>1 DEF Lease!GiveBack
  <2> QED BY <2>2 DEF Lease!Next
<1>2. CASE ~Restores
  <2>1. Gone /\ UNCHANGED <<tty, termios>> /\ guard' = "none"
    BY <1>2 DEF LeaveRaw, Restores, Gone
  <2>2. Lease!GiveBack
    BY <2>1 DEF Lease!GiveBack, Gone
  <2> QED BY <2>2 DEF Lease!Next
<1> QED BY <1>1, <1>2

-----------------------------------------------------------------------------
LEMMA EnvironmentLeases ==
  LeaseInv /\ Environment => [Lease!Next]_(Lease!leaseVars)
<1> SUFFICES ASSUME LeaseInv, Environment PROVE [Lease!Next]_(Lease!leaseVars)
  OBVIOUS
<1> USE DEF ttyVars, sizeVars, lineVars, ghostVars, sessVars, signalVars
<1>1. ASSUME NEW k \in Keys, Type(k) PROVE Lease!Next
  <2>1. UNCHANGED <<termios, userMode, guard, line, batch, hup, exit>>
    BY <1>1 DEF Type
  <2>2. CASE k = "ctrlC" /\ termios = "cooked"
    <3>1. Len(tty') = 0
      BY <1>1, <2>2, EmptySeq DEF Type
    <3>2. Lease!Type
      BY <2>1, <2>2, <3>1 DEF Lease!Type
    <3> QED BY <3>2 DEF Lease!Next
  <2>3. CASE ~(k = "ctrlC" /\ termios = "cooked")
    <3>1. tty' = Append(tty, [key |-> k, at |-> typed + 1])
      BY <1>1, <2>3 DEF Type
    <3>2. [key |-> k, at |-> typed + 1] \in Key /\ tty \in Seq(Key)
      BY DEF LeaseInv, TypeOK, Key
    <3>3. Len(tty') = Len(tty) + 1
      BY <3>1, <3>2, AppendProperties
    <3>4. Lease!Type
      BY <2>1, <3>3 DEF Lease!Type
    <3> QED BY <3>4 DEF Lease!Next
  <2> QED BY <2>2, <2>3
<1>2. ASSUME NEW s \in Sent, Kill(s) PROVE UNCHANGED Lease!leaseVars
  BY <1>2, LeaseStutters DEF Kill, Held
<1>3. CASE ResizeWindow
  BY <1>3, LeaseStutters DEF ResizeWindow, Held
<1>4. CASE Hangup
  <2>1. Len(tty') = 0
    BY <1>4, EmptySeq DEF Hangup
  <2>2. Lease!Lose
    BY <1>4, <2>1 DEF Hangup, Lease!Lose
  <2> QED BY <2>2 DEF Lease!Next
<1>5. ASSUME NEW m \in UserModes, ChildSetsTermios(m) PROVE Lease!Next
  <2>1. guard = "none" /\ ~Gone
    BY <1>5 DEF ChildSetsTermios, LeaseInv, RawModeDiscipline, IdlePoints, Gone
  <2>2. Lease!Choose(m)
    BY <1>5, <2>1 DEF ChildSetsTermios, Lease!Choose, Gone
  <2> QED BY <2>2 DEF Lease!Next
<1>6. CASE ChildExit
  BY <1>6, LeaseStutters DEF ChildExit, Held
<1> QED BY <1>1, <1>2, <1>3, <1>4, <1>5, <1>6 DEF Environment

LEMMA KernelLeases == Kernel => UNCHANGED Lease!leaseVars
BY LeaseStutters DEF Kernel, Deliver, Held, ttyVars, sizeVars, lineVars,
                     ghostVars, sessVars

(* One byte moves from the batch to the line, or is forgotten. *)
LEMMA PumpLeases == LeaseInv /\ Pump => [Lease!Next]_(Lease!leaseVars)
<1> SUFFICES ASSUME LeaseInv, Pump PROVE [Lease!Next]_(Lease!leaseVars)
  OBVIOUS
<1> USE DEF At, PumpKey, ttyVars, sizeVars, lineVars, ghostVars, sessVars
<1>1. /\ pc = "pump"
      /\ UNCHANGED <<termios, userMode, guard, tty, hup, exit>>
  BY DEF Pump, PushByte, EraseByte, CtrlC, Enter, CtrlD, BatchDone
<1>2. TypeOK /\ guard # "none"
  BY <1>1 DEF LeaseInv, RawModeDiscipline, RawPoints, TypeOK
<1>3. batch \in Seq(Key) /\ line \in Seq(Nat) /\ Len(line) \in Nat /\ Len(batch) \in Nat
  BY <1>2, LenProperties DEF TypeOK
<1>4. Held = Len(line) + Len(batch) /\ Held' = Len(line') + Len(batch')
  BY <1>1, <1>2 DEF Held
<1>5. ASSUME batch # <<>> PROVE Len(Tail(batch)) = Len(batch) - 1 /\ Len(batch) >= 1
  BY <1>3, <1>5, TailKeeps
<1>6. CASE PushByte
  <2>1. Head(batch).at \in Nat
    <3>1. batch # <<>>
      BY <1>6 DEF PushByte
    <3>2. Head(batch) \in Key
      BY <1>3, <3>1, HeadTailProperties
    <3> QED BY <3>2 DEF Key
  <2>2. Len(line') = Len(line) + 1
    BY <1>3, <1>6, <2>1, AppendProperties DEF PushByte
  <2>3. Held' = Held
    BY <1>3, <1>4, <1>5, <1>6, <2>2 DEF PushByte
  <2> QED BY <1>1, <2>3, LeaseStutters
<1>7. CASE EraseByte
  <2>1. Len(line') \in 0..Len(line)
    <3>1. CASE line = <<>>
      BY <1>3, <1>7, <3>1, EmptySeq DEF EraseByte
    <3>2. CASE line # <<>>
      <4>1. Len(line) \in Nat \ {0} /\ \A i \in 1..(Len(line) - 1) : line[i] \in Nat
        BY <1>3, <3>2, EmptySeq, ElementOfSeq
      <4>2. Len(SubSeq(line, 1, Len(line) - 1))
              = IF 1 <= Len(line) - 1 THEN Len(line) - 1 - 1 + 1 ELSE 0
        BY <4>1, SubSeqProperties
      <4> QED BY <1>7, <3>2, <4>1, <4>2 DEF EraseByte
    <3> QED BY <3>1, <3>2
  <2>2. Held' \in 0..Held
    BY <1>3, <1>4, <1>5, <1>7, <2>1 DEF EraseByte
  <2> QED BY <1>1, <1>2, <2>2, LeaseForgets
<1>8. CASE CtrlC \/ Enter \/ CtrlD
  <2>1. batch' = <<>> /\ (line' = line \/ line' = <<>>)
    BY <1>8 DEF CtrlC, Enter, CtrlD
  <2>2. Len(batch') = 0 /\ Len(line') \in 0..Len(line)
    BY <1>3, <2>1, EmptySeq
  <2>3. Held' \in 0..Held
    BY <1>3, <1>4, <2>2
  <2> QED BY <1>1, <1>2, <2>3, LeaseForgets
<1>9. CASE BatchDone
  BY <1>1, <1>4, <1>9, LeaseStutters DEF BatchDone
<1> QED BY <1>6, <1>7, <1>8, <1>9 DEF Pump

LEMMA ReadLeases == LeaseInv /\ ReadBatch => [Lease!Next]_(Lease!leaseVars)
<1> SUFFICES ASSUME LeaseInv, ReadBatch PROVE [Lease!Next]_(Lease!leaseVars)
  OBVIOUS
<1> USE DEF At, ttyVars, sizeVars, lineVars, ghostVars, sessVars
<1>1. /\ pc = "read"
      /\ UNCHANGED <<termios, userMode, guard, line, hup, exit>>
  BY DEF ReadBatch
<1>2. guard # "none" /\ batch = <<>>
  BY <1>1 DEF LeaseInv, RawModeDiscipline, RawPoints, TypeOK, KeysInOrder, ClosePoints
<1>3. tty \in Seq(Key) /\ Len(tty) \in Nat /\ Len(line) \in Nat
  BY LenProperties DEF LeaseInv, TypeOK
<1>4. CASE tty = <<>>
  BY <1>1, <1>4, LeaseStutters DEF ReadBatch, Held
<1>5. CASE tty # <<>>
  <2>1. batch' = Prefix(tty, ReadCap) /\ tty' = SubSeq(tty, ReadCap + 1, Len(tty))
    BY <1>5 DEF ReadBatch
  <2>2. Len(tty) >= 1
    BY <1>3, <1>5, EmptySeq
  <2> DEFINE n == IF ReadCap < Len(tty) THEN ReadCap ELSE Len(tty)
  <2>3. n \in 1..Len(tty) /\ ReadCap \in Nat
    BY <1>3, <2>2
  <2>4. Len(batch') = n
    <3>1. \A i \in 1..n : tty[i] \in Key
      BY <1>3, <2>3, ElementOfSeq
    <3>2. Len(SubSeq(tty, 1, n)) = IF 1 <= n THEN n - 1 + 1 ELSE 0
      <4> HIDE DEF n
      <4> QED BY <2>3, <3>1, SubSeqProperties
    <3> QED BY <2>1, <2>3, <3>2 DEF Prefix
  <2>5. Len(tty') = Len(tty) - n
    <3>1. \A i \in (ReadCap + 1)..Len(tty) : tty[i] \in Key
      BY <1>3, <2>3, ElementOfSeq
    <3>2. Len(tty') = IF ReadCap + 1 <= Len(tty) THEN Len(tty) - (ReadCap + 1) + 1 ELSE 0
      BY <1>3, <2>1, <2>3, <3>1, SubSeqProperties
    <3> DEFINE total == Len(tty)
               left  == Len(tty')
    <3>3. /\ total \in Nat /\ ReadCap \in Nat
          /\ left = IF ReadCap + 1 <= total THEN total - (ReadCap + 1) + 1 ELSE 0
          /\ n = IF ReadCap < total THEN ReadCap ELSE total
      BY <1>3, <2>3, <3>2
    <3> HIDE DEF n, total, left
    <3>4. left = total - n
      BY <3>3
    <3> QED BY <3>4 DEF total, left
  <2>6. Held' = Held + n
    BY <1>1, <1>2, <1>3, <2>3, <2>4, EmptySeq DEF Held
  <2> HIDE DEF n
  <2>7. Lease!Take
    BY <1>1, <1>2, <2>3, <2>5, <2>6 DEF Lease!Take, Held
  <2> QED BY <2>7 DEF Lease!Next
<1> QED BY <1>4, <1>5

LEMMA ShellLeases == LeaseInv /\ Shell => [Lease!Next]_(Lease!leaseVars)
<1> SUFFICES ASSUME LeaseInv, Shell PROVE [Lease!Next]_(Lease!leaseVars)
  OBVIOUS
<1> USE DEF At, ttyVars, sizeVars, lineVars, ghostVars, sessVars
<1>0. TypeOK /\ Len(tty) \in Nat /\ Len(line) \in Nat /\ Len(batch) \in Nat /\ Held \in Nat
  BY HeldType DEF LeaseInv
<1>1. CASE EnterRaw
  <2>1. guard = "none" /\ ~Gone /\ termios = userMode /\ line = <<>> /\ batch = <<>>
    BY <1>1 DEF EnterRaw, LeaseInv, RawModeDiscipline, KeysInOrder, IdlePoints,
                ClosePoints, Gone
  <2>2. Held = 0 /\ Held' = 0 /\ Len(tty') = 0
    BY <1>1, <2>1, EmptySeq DEF EnterRaw, Held
  <2>3. guard' # "none"
    BY <1>1, <2>1, <1>0 DEF EnterRaw, TypeOK
  <2>4. Lease!Borrow
    BY <1>1, <2>1, <2>2, <2>3 DEF EnterRaw, Lease!Borrow, Held, Gone
  <2> QED BY <2>4 DEF Lease!Next
<1>2. CASE EnterRawFails \/ PumpFails
  <2>1. Lease!Lose
    BY <1>2 DEF EnterRawFails, PumpFails, Lease!Lose
  <2> QED BY <2>1 DEF Lease!Next
<1>3. CASE WritePrompt \/ Wait \/ Drain \/ RefreshWindow \/ DropTty
  BY <1>3, LeaseStutters DEF WritePrompt, Wait, Drain, RefreshWindow, DropTty, Held
<1>4. ASSUME NEW c \in Commands, Dispatch(c) PROVE UNCHANGED Lease!leaseVars
  <2>1. exit # "error" /\ exit' # "error"
    BY <1>4 DEF Dispatch, LeaseInv, RawModeDiscipline, IdlePoints
  <2> QED BY <1>4, <2>1, LeaseStutters DEF Dispatch, Held
<1>5. CASE Interrupt
  <2>1. guard # "none"
    BY <1>5, <1>0 DEF Interrupt, LeaseInv, RawModeDiscipline, RawPoints, TypeOK
  <2>2. Held' \in 0..Held
    BY <1>5, <1>0, <2>1, EmptySeq DEF Interrupt, Held
  <2> QED BY <1>0, <1>5, <2>1, <2>2, LeaseForgets DEF Interrupt
<1>6. CASE ReadBatch
  BY <1>6, ReadLeases
<1>7. CASE Pump
  BY <1>7, PumpLeases
<1>8. CASE Submit \/ Leave
  <2>1. /\ guard # "none" /\ guard = userMode /\ ttyOpen /\ exit = "none"
        /\ LeaveRaw /\ UNCHANGED <<hup, userMode>> /\ exit' # "error"
    BY <1>8, <1>0 DEF Submit, Leave, LeaseInv, RawModeDiscipline, RawPoints, TypeOK
  <2> QED BY <2>1, LeaseGivenBack
<1>9. CASE DropGuard
  <2>1. /\ ~ttyOpen /\ LeaveRaw /\ UNCHANGED <<hup, userMode, exit, line, batch>>
    BY <1>9 DEF DropGuard, LeaseInv, ClosedBeforeGuard
  <2>2. CASE guard = "none"
    BY <2>1, <2>2, LeaseStutters DEF LeaveRaw, Restores, Held
  <2>3. CASE guard # "none"
    <3>1. Gone
      BY <1>9, <2>3 DEF DropGuard, LeaseInv, RawModeDiscipline, ClosePoints, Gone
    <3> QED BY <2>1, <2>3, <3>1, LeaseGivenBack
  <2> QED BY <2>2, <2>3
<1> QED BY <1>1, <1>2, <1>3, <1>4, <1>5, <1>6, <1>7, <1>8, <1>9 DEF Shell

(* The loop keeps the promises of TerminalLease (run_interactive,           *)
(* drive_raw_loop_session and the RawModeGuard), whatever keys, signals,    *)
(* hangups and I/O errors occur.                                            *)
THEOREM ReplImplementsLease == Spec => ImplementsLease
<1>1. Init => Lease!Init
  <2>1. Init => Len(tty) = 0
    BY EmptySeq DEF Init
  <2> QED BY <2>1 DEF Init, Lease!Init
<1>2. LeaseInv /\ [Next]_vars => [Lease!Next]_(Lease!leaseVars)
  <2> SUFFICES ASSUME LeaseInv, [Next]_vars PROVE [Lease!Next]_(Lease!leaseVars)
    OBVIOUS
  <2>1. CASE UNCHANGED vars
    BY <2>1, LeaseStutters DEF vars, ttyVars, lineVars, sessVars, Held
  <2> QED BY <2>1, EnvironmentLeases, KernelLeases, ShellLeases DEF Next
<1>3. Spec => []LeaseInv
  BY TypeInvariance, RawModeDisciplined, KeysStayInOrder, GuardDropsLast, PTL
     DEF LeaseInv
<1> QED BY <1>1, <1>2, <1>3, PTL DEF Spec, ImplementsLease, Lease!Spec

=============================================================================
