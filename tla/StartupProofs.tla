---------------------------- MODULE StartupProofs ----------------------------
(***************************************************************************)
(* Proofs about Startup for every choice of its constants: no signal is    *)
(* lost while the session is being opened, and none is counted twice.      *)
(***************************************************************************)
EXTENDS Startup, SequenceTheorems, TLAPS

USE SignalAssumption, StartupAssumption

(* What the program has done by the time it is at a statement of open(). *)
Live == pc \in {"open", "session", "repl"}

Progress ==
  /\ at >= 4 => published
  /\ at >= 5 => writeFd
  /\ installed > 0 => at >= 5
  /\ at >= 6 => installed = Len(CaughtOrder)
  /\ Live /\ at >= 2 => owners # {}
  /\ Live /\ at >= 3 => reader
  /\ HasSession => at = 8
  /\ at <= 7 => winsize = 0

(* The three properties of the finished session, from the first step on. *)
Accounted ==
  Live => \/ Len(pipe) = PipeCap
          \/ \A s \in asked \ Harmless : s \in pending \/ s \in InPipe

Flagged ==
  Live /\ (InPipe \cap Cancelling # {} \/ fresh) => cancel

Resized ==
  Live /\ at = 8 /\ winsize \notin {0, window} =>
    \/ "WINCH" \in pending \cup InPipe
    \/ Len(pipe) = PipeCap

IInv ==
  /\ TypeOK
  /\ Progress
  /\ Accounted
  /\ Flagged
  /\ Resized

-----------------------------------------------------------------------------
(* Appending a byte adds exactly that signal to what is in the pipe. *)
LEMMA PipeGrows ==
  ASSUME NEW p \in Seq(CaughtSignals), NEW s \in CaughtSignals
  PROVE  /\ Append(p, s) \in Seq(CaughtSignals)
         /\ Len(Append(p, s)) = Len(p) + 1
         /\ \A x : (\E i \in DOMAIN Append(p, s) : Append(p, s)[i] = x) <=>
                     (x = s \/ \E i \in DOMAIN p : p[i] = x)
<1>1. /\ Append(p, s) \in Seq(CaughtSignals)
      /\ Len(Append(p, s)) = Len(p) + 1
      /\ \A i \in 1..Len(p) : Append(p, s)[i] = p[i]
      /\ Append(p, s)[Len(p) + 1] = s
  BY AppendProperties
<1>2. Len(p) \in Nat /\ DOMAIN p = 1..Len(p)
      /\ DOMAIN Append(p, s) = 1..(Len(p) + 1)
  BY <1>1, LenProperties
<1>3. \A i \in 1..(Len(p) + 1) : i \in 1..Len(p) \/ i = Len(p) + 1
  BY <1>2
<1>4. \A i \in 1..Len(p) : i \in 1..(Len(p) + 1)
  BY <1>2
<1>5. Len(p) + 1 \in 1..(Len(p) + 1)
  BY <1>2
<1> QED BY <1>1, <1>2, <1>3, <1>4, <1>5

LEMMA Lengths == Len(Steps) = 8 /\ Len(CaughtOrder) = 8
BY DEF Steps, CaughtOrder

(* Once the last handler is in place every caught signal is handled. *)
LEMMA AllHandled ==
  installed = Len(CaughtOrder) => Handled = CaughtSignals
BY DEF Handled, CaughtOrder, CaughtSignals

LEMMA InitInv == Init => IInv
<1> SUFFICES ASSUME Init PROVE IInv
  OBVIOUS
<1> USE DEF Init, SignalInit
<1>1. <<>> \in Seq(CaughtSignals) /\ Len(<<>>) = 0
  BY EmptySeq
<1>2. TypeOK
  <2>1. SignalTypeOK
    BY <1>1 DEF SignalTypeOK
  <2>2. at \in 1..Len(Steps) /\ installed \in 0..Len(CaughtOrder)
    BY Lengths
  <2>3. window \in Nat /\ winsize \in Nat
    OBVIOUS
  <2>4. /\ pc \in {"open", "session", "repl", "cooked", "unwind", "dropToken",
                   "dropSession", "exiting", "exited", "killed"}
        /\ owners \subseteq {"open", "session", "token"}
        /\ asked \subseteq CaughtSignals
    OBVIOUS
  <2>5. {published, writeFd, reader, wild} \subseteq BOOLEAN
    OBVIOUS
  <2> QED BY <2>1, <2>2, <2>3, <2>4, <2>5 DEF TypeOK
<1>3. Progress
  BY DEF Progress, Live, HasSession, CaughtOrder
<1>4. InPipe = {}
  BY DEF InPipe
<1> QED BY <1>1, <1>2, <1>3, <1>4 DEF IInv, Accounted, Flagged, Resized, Cancelling

(* The environment raises a signal; nothing else moves. *)
LEMMA EnvironmentInv == IInv /\ Environment => IInv'
<1> SUFFICES ASSUME IInv, Environment PROVE IInv'
  OBVIOUS
<1> USE DEF IInv, TypeOK, SignalTypeOK, Progress, Live, HasSession, Accounted,
            Flagged, Resized, InPipe, signalVars, openVars, sizeVars, ghostVars
<1>1. ASSUME NEW s \in Sent, Kill(s) PROVE IInv'
  BY <1>1 DEF Kill, Raise
<1>2. CASE ResizeWindow
  BY <1>2 DEF ResizeWindow, Raise, CaughtSignals
<1> QED BY <1>1, <1>2 DEF Environment

(* A signal no handler has been installed for kills, or is harmless. *)
LEMMA DefaultInv ==
  ASSUME IInv, NEW s \in pending, DefaultAction(s)
  PROVE  IInv'
<1> USE DEF IInv, TypeOK, SignalTypeOK, Progress, Live, HasSession
<1>1. TypeOK' /\ Len(pipe') <= PipeCap
  BY DEF DefaultAction, sizeVars, ghostVars
<1>2. Progress'
  BY DEF DefaultAction, sizeVars, ghostVars
<1>3. pc' # "killed" => s \in Harmless /\ pc' = pc
  BY DEF DefaultAction
<1>4. Accounted' /\ Flagged'
  BY <1>3 DEF DefaultAction, Accounted, Flagged, InPipe, sizeVars, ghostVars
<1>5. Resized'
  <2>1. SUFFICES ASSUME at = 8 PROVE Resized'
    BY DEF Resized, DefaultAction
  <2>2. FALSE
    BY <2>1, AllHandled DEF DefaultAction
  <2> QED BY <2>2
<1> QED BY <1>1, <1>2, <1>4, <1>5

(* The handler moves a signal from the pending set to the pipe. *)
LEMMA HandlerInv ==
  ASSUME IInv, NEW s \in pending, HandlerRuns(s)
  PROVE  IInv'
<1> USE DEF IInv, TypeOK, SignalTypeOK
<1>1. s \in CaughtSignals /\ installed > 0
  BY DEF HandlerRuns, Handled
<1>2. at >= 5 /\ published /\ writeFd /\ (Live => reader /\ owners # {})
  BY <1>1 DEF Progress, Steps
<1>3. /\ pipe' \in Seq(CaughtSignals)
      /\ Len(pipe') <= PipeCap
      /\ Len(pipe) = PipeCap => Len(pipe') = PipeCap
      /\ \A x \in InPipe : x \in InPipe'
      /\ \A x \in InPipe' : x = s \/ x \in InPipe
      /\ Live => s \in InPipe' \/ Len(pipe') = PipeCap
  <2>1. CASE writeFd /\ reader /\ Len(pipe) < PipeCap
    <3>1. pipe' = Append(pipe, s)
      BY <2>1 DEF HandlerRuns, AfterWrite
    <3>2. Len(pipe) \in Nat
      BY LenProperties
    <3>3. /\ pipe' \in Seq(CaughtSignals)
          /\ Len(pipe') = Len(pipe) + 1
          /\ \A x : x \in InPipe' <=> x = s \/ x \in InPipe
      BY <1>1, <3>1, PipeGrows DEF InPipe
    <3> QED BY <2>1, <3>2, <3>3
  <2>2. CASE ~(writeFd /\ reader /\ Len(pipe) < PipeCap)
    <3>1. pipe' = pipe
      BY <2>2 DEF HandlerRuns, AfterWrite
    <3>2. Live => Len(pipe) = PipeCap
      BY <1>2, <2>2, LenProperties
    <3> QED BY <3>1, <3>2 DEF InPipe
  <2> QED BY <2>1, <2>2
<1>4. TypeOK' /\ Len(pipe') <= PipeCap
  BY <1>3 DEF HandlerRuns, openVars, sizeVars
<1>5. Progress' /\ Live' = Live
  BY DEF Progress, HandlerRuns, openVars, sizeVars, Live, HasSession
<1>6. Accounted'
  BY <1>3, <1>5 DEF Accounted, HandlerRuns
<1>7. Flagged'
  <2>1. SUFFICES ASSUME Live, InPipe' \cap Cancelling # {} \/ fresh' PROVE cancel'
    BY <1>5 DEF Flagged
  <2>2. CASE s \in Cancelling
    BY <1>2, <2>1, <2>2 DEF HandlerRuns
  <2>3. CASE s \notin Cancelling
    BY <1>3, <2>1, <2>3 DEF HandlerRuns, Flagged
  <2> QED BY <2>2, <2>3
<1>8. Resized'
  BY <1>3, <1>5 DEF Resized, HandlerRuns, openVars, sizeVars
<1> QED BY <1>4, <1>5, <1>6, <1>7, <1>8

(* The statements of open() keep the pipe, or leave the live states. *)
LEMMA OpenInv == IInv /\ Open => IInv'
<1> SUFFICES ASSUME IInv, Open PROVE IInv'
  OBVIOUS
<1> USE DEF IInv, TypeOK, SignalTypeOK, Progress, Live, HasSession, Opening,
            Advance, Steps, CaughtOrder, signalVars, sizeVars, ghostVars
<1>1. ASSUME UNCHANGED <<signalVars, asked>>, pc' = "open" => pc = "open",
             pc' \in {"session", "repl"} => Live
      PROVE  Accounted' /\ Flagged'
  BY <1>1 DEF Accounted, Flagged, InPipe
<1>2. CASE OpenTty
  BY <1>1, <1>2 DEF OpenTty, Resized, InPipe
<1>3. CASE NoTerminal \/ OpenTtyFails
  <2>1. /\ pc' \in {"cooked", "exiting"}
        /\ UNCHANGED <<signalVars, program, at, installed, published, writeFd,
                       reader, owners, sizeVars, ghostVars>>
    BY <1>3 DEF NoTerminal, OpenTtyFails
  <2>2. TypeOK' /\ Len(pipe') <= PipeCap
    BY <2>1
  <2>3. Progress'
    BY <2>1
  <2> QED BY <2>1, <2>2, <2>3 DEF Accounted, Flagged, Resized
<1>4. CASE MakePipe
  BY <1>1, <1>4 DEF MakePipe, Resized, InPipe
<1>5. CASE PublishFlag
  BY <1>1, <1>5 DEF PublishFlag, Resized, InPipe
<1>6. CASE PublishFd
  BY <1>1, <1>6 DEF PublishFd, Resized, InPipe
<1>7. CASE InstallHandler
  BY <1>1, <1>7 DEF InstallHandler, Resized, InPipe
<1>8. CASE IgnoreTerminalStops
  BY <1>1, <1>8 DEF IgnoreTerminalStops, Resized, InPipe
<1>9. CASE InstallFails
  <2>1. <<>> \in Seq(CaughtSignals) /\ Len(<<>>) = 0
    BY EmptySeq
  <2>2. TypeOK' /\ Len(pipe') <= PipeCap
    <3>1. pipe' = <<>>
      BY <1>9 DEF InstallFails
    <3>2. pipe' \in Seq(CaughtSignals) /\ Len(pipe') <= PipeCap
      BY <2>1, <3>1
    <3> QED BY <1>9, <3>2 DEF InstallFails
  <2>3. Progress'
    BY <1>9 DEF InstallFails
  <2>4. pc' = "unwind"
    BY <1>9 DEF InstallFails
  <2> QED BY <2>2, <2>3, <2>4 DEF Accounted, Flagged, Resized
<1>10. CASE QueryWinsize
  BY <1>1, <1>10 DEF QueryWinsize, Resized, InPipe
<1>11. CASE RunProbe
  BY <1>1, <1>11 DEF RunProbe, Resized, InPipe
<1> QED BY <1>2, <1>3, <1>4, <1>5, <1>6, <1>7, <1>8, <1>9, <1>10, <1>11 DEF Open

LEMMA UseInv == IInv /\ Use => IInv'
<1> SUFFICES ASSUME IInv, Use PROVE IInv'
  OBVIOUS
<1> USE DEF IInv, TypeOK, SignalTypeOK, Progress, Live, HasSession, Accounted,
            Flagged, Resized, InPipe, signalVars, sizeVars, ghostVars
<1>1. CASE TakeToken
  BY <1>1 DEF TakeToken
<1>2. CASE EnterRawFails \/ Report \/ LoopEnds \/ CookedEnds \/ Exit
  <2>1. /\ pc' \in {"dropSession", "dropToken", "exiting", "exited"}
        /\ UNCHANGED <<signalVars, program, at, installed, published, writeFd,
                       reader, owners, sizeVars, ghostVars>>
    BY <1>2 DEF EnterRawFails, Report, LoopEnds, CookedEnds, Exit, GoTo
  <2>2. TypeOK' /\ Len(pipe') <= PipeCap
    BY <2>1
  <2>3. Progress'
    BY <2>1
  <2> QED BY <2>1, <2>2, <2>3
<1>3. CASE DropToken \/ DropFlag
  BY <1>3 DEF DropToken, DropFlag
<1>4. CASE DropSession
  <2>1. <<>> \in Seq(CaughtSignals) /\ Len(<<>>) = 0
    BY EmptySeq
  <2>2. TypeOK' /\ Len(pipe') <= PipeCap
    <3>1. pipe' = <<>>
      BY <1>4 DEF DropSession
    <3>2. pipe' \in Seq(CaughtSignals) /\ Len(pipe') <= PipeCap
      BY <2>1, <3>1
    <3> QED BY <1>4, <3>2 DEF DropSession
  <2>3. Progress'
    BY <1>4 DEF DropSession
  <2>4. pc' = "exiting"
    BY <1>4 DEF DropSession
  <2> QED BY <2>2, <2>3, <2>4
<1> QED BY <1>1, <1>2, <1>3, <1>4 DEF Use

(* The inductive invariant: where open() is fixes what is installed and      *)
(* published, and from there every signal is accounted for.                  *)
THEOREM Invariance == Spec => []IInv
<1>1. IInv /\ [Next]_vars => IInv'
  <2> SUFFICES ASSUME IInv, [Next]_vars PROVE IInv'
    OBVIOUS
  <2>1. CASE Environment
    BY <2>1, EnvironmentInv
  <2>2. CASE Delivery
    BY <2>2, DefaultInv, HandlerInv DEF Delivery
  <2>3. CASE Open
    BY <2>3, OpenInv
  <2>4. CASE Use
    BY <2>4, UseInv
  <2>5. CASE UNCHANGED vars
    BY <2>5 DEF IInv, TypeOK, SignalTypeOK, Progress, Live, HasSession, Accounted,
       Flagged, Resized, InPipe, vars, signalVars, openVars, sizeVars, ghostVars
  <2> QED BY <2>1, <2>2, <2>3, <2>4, <2>5 DEF Next
<1> QED BY InitInv, <1>1, PTL DEF Spec

(* Every variable keeps its type, the handlers racing with open() included.  *)
THEOREM StartupTypes == Spec => []TypeOK
<1>1. IInv => TypeOK
  BY DEF IInv
<1> QED BY Invariance, <1>1, PTL

(* A signal sent at any moment of the startup is pending, in the pipe, or    *)
(* behind a full pipe when the session is there (signal.rs:272-296).         *)
THEOREM NoSignalIsLost == Spec => []SignalsAccounted
<1>1. IInv => SignalsAccounted
  BY DEF IInv, Accounted, SignalsAccounted, Live, HasSession
<1> QED BY Invariance, <1>1, PTL

(* An interrupt the handler has seen has set the cancel flag (signal.rs:282  *)
(* is before signal.rs:289).                                                 *)
THEOREM InterruptsAreFlagged == Spec => []InterruptIsFlagged
<1>1. IInv => InterruptIsFlagged
  BY DEF IInv, Flagged, InterruptIsFlagged, Live, HasSession
<1> QED BY Invariance, <1>1, PTL

(* The first window size is either current or about to be refreshed          *)
(* (mod.rs:155, after the handlers).                                         *)
THEOREM ResizeIsNotMissed == Spec => []ResizeNotMissed
<1>1. IInv => ResizeNotMissed
  BY DEF IInv, Resized, ResizeNotMissed, Live, HasSession, Progress
<1> QED BY Invariance, <1>1, PTL
=============================================================================
