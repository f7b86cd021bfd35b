----------------------------- MODULE SignalPipe -----------------------------
(***************************************************************************)
(* Signal delivery in fredshell: crates/fredshell-core/src/tty/signal.rs   *)
(* and the two halves of CancellationToken in tty/mod.rs.                  *)
(*                                                                         *)
(* The kernel keeps a set of pending signals.  The process has one thread, *)
(* so a handler runs to completion before the interrupted code goes on;    *)
(* handlers that nest only permute the bytes of the self-pipe, an order    *)
(* Handler already leaves open.  The handler sets the cancel flag for      *)
(* SIGINT and SIGALRM, and only then writes one byte to the non-blocking   *)
(* pipe; a full pipe swallows the byte.                                    *)
(***************************************************************************)
EXTENDS Naturals, Sequences

CONSTANTS
  Sent,       \* signals from outside: kill(2), a resize, a hangup
  MaxRaised,  \* bound: how many of them
  PipeCap,    \* bytes the self-pipe holds (65536 on Linux)
  DrainCap    \* size of the buffer drain_first_signal reads into (16)

CaughtSignals ==
  {"INT", "TERM", "HUP", "WINCH", "CHLD", "ALRM", "USR1", "USR2"}

Cancelling == {"INT", "ALRM"}

ASSUME SignalAssumption ==
  /\ Sent \subseteq CaughtSignals
  /\ MaxRaised \in Nat
  /\ PipeCap \in Nat \ {0}
  /\ DrainCap \in Nat \ {0}

VARIABLES
  pending,  \* signals generated for the process and not yet handled
  raised,   \* how many signals the environment has raised (bound only)
  pipe,     \* bytes in the self-pipe, oldest first
  cancel,   \* the AtomicBool behind CancellationToken
  fresh     \* history: a cancelling signal came after the latest prompt

signalVars == <<pending, raised, pipe, cancel, fresh>>

SignalTypeOK ==
  /\ pending \subseteq CaughtSignals
  /\ raised \in Nat
  /\ pipe \in Seq(CaughtSignals)
  /\ cancel \in BOOLEAN
  /\ fresh \in BOOLEAN

SignalInit ==
  /\ pending = {}
  /\ raised = 0
  /\ pipe = <<>>
  /\ cancel = FALSE
  /\ fresh = FALSE

-----------------------------------------------------------------------------
(* The environment.  Standard signals do not queue: raising one that is     *)
(* pending already changes nothing.                                         *)

Raise(s) ==
  /\ raised < MaxRaised
  /\ raised' = raised + 1
  /\ pending' = pending \cup {s}
  /\ UNCHANGED <<pipe, cancel, fresh>>

(* handler(): flag first, then the byte. *)

SilentUnlessCancelling(s) ==        \* mutant: only SIGINT/SIGALRM wake
  /\ s \in pending
  /\ pending' = pending \ {s}
  /\ cancel' = (cancel \/ s \in Cancelling)
  /\ fresh' = (fresh \/ s \in Cancelling)
  /\ pipe' = IF s \in Cancelling THEN Append(pipe, s) ELSE pipe
  /\ UNCHANGED raised

BlockingHandler(s) ==               \* mutant: the full pipe takes the byte
  /\ s \in pending
  /\ pending' = pending \ {s}
  /\ cancel' = (cancel \/ s \in Cancelling)
  /\ fresh' = (fresh \/ s \in Cancelling)
  /\ pipe' = Append(pipe, s)
  /\ UNCHANGED raised

Handler(s) ==
  /\ s \in pending
  /\ pending' = pending \ {s}
  /\ cancel' = (cancel \/ s \in Cancelling)
  /\ fresh' = (fresh \/ s \in Cancelling)
  /\ pipe' = IF Len(pipe) < PipeCap THEN Append(pipe, s) ELSE pipe
  /\ UNCHANGED raised

-----------------------------------------------------------------------------
(* drain_first_signal(): one read of at most DrainCap bytes.  Every byte    *)
(* comes from Handler, so the first one always decodes (Signal::from_raw);  *)
(* whatever else the read returned is dropped.                              *)

DrainPeeks(bytes) == bytes          \* mutant: the drain leaves the bytes

AfterDrain(bytes) == SubSeq(bytes, DrainCap + 1, Len(bytes))

=============================================================================
