------------------------------- MODULE Startup -------------------------------
(***************************************************************************)
(* From main() to an open TerminalSession and back out: TerminalSession::  *)
(* open in tty/mod.rs, install() in tty/signal.rs, and the lifetime of the *)
(* cancel flag that the handlers reach through a raw pointer.              *)
(*                                                                         *)
(* SignalPipe's Handler is what runs once everything is installed; here a  *)
(* signal may arrive before, between and after the steps of the            *)
(* installation.  What the loop does with the session is module Repl.      *)
(***************************************************************************)
EXTENDS SignalPipe

CONSTANTS
  Programs,   \* of "fredshell" (the shell) and "xtask" (tty-probe)
  MayFail     \* steps of open() whose system call may fail here

ASSUME StartupAssumption ==
  /\ Programs \subseteq {"fredshell", "xtask"}
  /\ MayFail \subseteq {"tty", "pipe", "handlers", "ignore"}

VARIABLES
  program,    \* which binary this process runs
  pc,         \* where its thread is
  at,         \* in TerminalSession::open: index into Steps
  installed,  \* signals of CaughtOrder that have the handler
  published,  \* CANCEL_FLAG_PTR is not null
  writeFd,    \* SIG_PIPE_WRITE_FD is not -1
  reader,     \* the read end of the self-pipe is open
  owners,     \* who holds the Arc of the cancel flag
  wild,       \* history: a handler stored through a dangling pointer
  asked,      \* history: signals raised so far
  window,     \* generation of the window size in the kernel, from 1
  winsize     \* generation open() cached; 0 is the 80x24 default

openVars  == <<program, pc, at, installed, published, writeFd, reader, owners>>
sizeVars  == <<window, winsize>>
ghostVars == <<wild, asked>>
vars == <<signalVars, openVars, sizeVars, ghostVars>>

CaughtOrder ==
  <<"INT", "TERM", "HUP", "WINCH", "CHLD", "ALRM", "USR1", "USR2">>

Handled == {CaughtOrder[i] : i \in 1 .. installed}

(* The statements of open() and install() in the order they run. *)

HandlersFirst ==                    \* mutant: handlers before they can report
  <<"tty", "pipe", "flag", "handlers", "ignore", "fd", "winsize", "probe">>

FlagLast ==                         \* mutant: the flag is published last
  <<"tty", "pipe", "fd", "handlers", "ignore", "flag", "winsize", "probe">>

SizeFirst ==                        \* mutant: the size is read too early
  <<"tty", "winsize", "pipe", "flag", "fd", "handlers", "ignore", "probe">>

Steps ==
  <<"tty", "pipe", "flag", "fd", "handlers", "ignore", "winsize", "probe">>

Opening(step) == pc = "open" /\ Steps[at] = step

TypeOK ==
  /\ SignalTypeOK
  /\ Len(pipe) <= PipeCap
  /\ program \in Programs
  /\ pc \in {"open", "session", "repl", "cooked", "unwind", "dropToken",
             "dropSession", "exiting", "exited", "killed"}
  /\ at \in 1 .. Len(Steps)
  /\ installed \in 0 .. Len(CaughtOrder)
  /\ published \in BOOLEAN
  /\ writeFd \in BOOLEAN
  /\ reader \in BOOLEAN
  /\ owners \subseteq {"open", "session", "token"}
  /\ wild \in BOOLEAN
  /\ asked \subseteq CaughtSignals
  /\ window \in Nat
  /\ winsize \in Nat

Init ==
  /\ SignalInit
  /\ program \in Programs
  /\ pc = "open"
  /\ at = 1
  /\ installed = 0
  /\ published = FALSE
  /\ writeFd = FALSE
  /\ reader = FALSE
  /\ owners = {}
  /\ wild = FALSE
  /\ asked = {}
  /\ window = 1
  /\ winsize = 0

-----------------------------------------------------------------------------
(* Signals from outside, and what the process does with one.                *)

Alive == pc \notin {"exited", "killed"}

Kill(s) ==
  /\ Alive
  /\ s # "WINCH"
  /\ Raise(s)
  /\ asked' = asked \cup {s}
  /\ UNCHANGED <<openVars, sizeVars, wild>>

ResizeWindow ==
  /\ Alive
  /\ "WINCH" \in Sent
  /\ Raise("WINCH")
  /\ asked' = asked \cup {"WINCH"}
  /\ window' = window + 1
  /\ UNCHANGED <<openVars, winsize, wild>>

(* SIGWINCH and SIGCHLD are ignored by default; the others end the process. *)
Harmless == {"WINCH", "CHLD"}

DefaultAction(s) ==
  /\ Alive
  /\ s \in pending \ Handled
  /\ pending' = pending \ {s}
  /\ pc' = IF s \in Harmless THEN pc ELSE "killed"
  /\ UNCHANGED <<raised, pipe, cancel, fresh, program, at, installed, published,
                 writeFd, reader, owners, sizeVars, ghostVars>>

WriteWaits(s) ==                    \* mutant: the full pipe takes the byte
  IF writeFd /\ reader THEN Append(pipe, s) ELSE pipe

AfterWrite(s) ==
  IF writeFd /\ reader /\ Len(pipe) < PipeCap THEN Append(pipe, s) ELSE pipe

(* handler() with its checks on the two statics.  A byte written after the  *)
(* reader is closed is lost (SIGPIPE is ignored by the Rust runtime).  What *)
(* a store to the freed flag overwrites is not modelled, only that it       *)
(* happens.                                                                 *)
HandlerRuns(s) ==
  /\ Alive
  /\ s \in pending \cap Handled
  /\ pending' = pending \ {s}
  /\ fresh' = (fresh \/ s \in Cancelling)
  /\ cancel' = (cancel \/ (s \in Cancelling /\ published /\ owners # {}))
  /\ wild' = (wild \/ (s \in Cancelling /\ published /\ owners = {}))
  /\ pipe' = AfterWrite(s)
  /\ UNCHANGED <<raised, openVars, sizeVars, asked>>

-----------------------------------------------------------------------------
(* TerminalSession::open, one action per system call that can fail or be    *)
(* seen by a handler.                                                       *)

Advance == at' = at + 1

OpenTty ==
  /\ Opening("tty")
  /\ Advance
  /\ owners' = {"open"}
  /\ UNCHANGED <<signalVars, program, pc, installed, published, writeFd, reader,
                 sizeVars, ghostVars>>

(* No controlling terminal: the shell falls back to the cooked loop, with   *)
(* no handler installed; the tool gives up.                                 *)
NoTerminal ==
  /\ "tty" \in MayFail
  /\ Opening("tty")
  /\ pc' = IF program = "fredshell" THEN "cooked" ELSE "exiting"
  /\ UNCHANGED <<signalVars, program, at, installed, published, writeFd, reader,
                 owners, sizeVars, ghostVars>>

OpenTtyFails ==
  /\ "tty" \in MayFail
  /\ Opening("tty")
  /\ pc' = "exiting"
  /\ UNCHANGED <<signalVars, program, at, installed, published, writeFd, reader,
                 owners, sizeVars, ghostVars>>

MakePipe ==
  /\ Opening("pipe")
  /\ Advance
  /\ reader' = TRUE
  /\ UNCHANGED <<signalVars, program, pc, installed, published, writeFd, owners,
                 sizeVars, ghostVars>>

PublishFlag ==
  /\ Opening("flag")
  /\ Advance
  /\ published' = TRUE
  /\ UNCHANGED <<signalVars, program, pc, installed, writeFd, reader, owners,
                 sizeVars, ghostVars>>

PublishFd ==
  /\ Opening("fd")
  /\ Advance
  /\ writeFd' = TRUE
  /\ UNCHANGED <<signalVars, program, pc, installed, published, reader, owners,
                 sizeVars, ghostVars>>

InstallHandler ==
  /\ Opening("handlers")
  /\ installed < Len(CaughtOrder)
  /\ installed' = installed + 1
  /\ at' = IF installed' = Len(CaughtOrder) THEN at + 1 ELSE at
  /\ UNCHANGED <<signalVars, program, pc, published, writeFd, reader, owners,
                 sizeVars, ghostVars>>

IgnoreTerminalStops ==
  /\ Opening("ignore")
  /\ Advance
  /\ UNCHANGED <<signalVars, program, pc, installed, published, writeFd, reader,
                 owners, sizeVars, ghostVars>>

(* pipe(2), fcntl(2) or sigaction(2) fails: `?` leaves install and open.    *)
(* The handlers installed so far stay, the reader is closed.                *)
InstallFails ==
  /\ \E step \in MayFail \ {"tty"} : Opening(step)
  /\ pc' = "unwind"
  /\ reader' = FALSE
  /\ pipe' = <<>>
  /\ UNCHANGED <<pending, raised, cancel, fresh, program, at, installed,
                 published, writeFd, owners, sizeVars, ghostVars>>

QueryWinsize ==
  /\ Opening("winsize")
  /\ Advance
  /\ winsize' \in {window, 0}
  /\ UNCHANGED <<signalVars, program, pc, installed, published, writeFd, reader,
                 owners, window, ghostVars>>

(* The probe leaves the self-pipe alone (module Probe); the flag moves into *)
(* the session that open() returns.                                         *)
RunProbe ==
  /\ Opening("probe")
  /\ pc' = "session"
  /\ owners' = {"session"}
  /\ UNCHANGED <<signalVars, program, at, installed, published, writeFd, reader,
                 sizeVars, ghostVars>>

-----------------------------------------------------------------------------
(* Holding the session, and the drops on the way out.                       *)

GoTo(from, to) ==
  /\ pc = from
  /\ pc' = to
  /\ UNCHANGED <<signalVars, program, at, installed, published, writeFd, reader,
                 owners, sizeVars, ghostVars>>

TakeToken ==
  /\ pc = "session"
  /\ program = "fredshell"
  /\ pc' = "repl"
  /\ owners' = owners \cup {"token"}
  /\ UNCHANGED <<signalVars, program, at, installed, published, writeFd, reader,
                 sizeVars, ghostVars>>

EnterRawFails == program = "fredshell" /\ GoTo("session", "dropSession")
Report        == program = "xtask" /\ GoTo("session", "dropSession")
LoopEnds      == GoTo("repl", "dropToken")
CookedEnds    == GoTo("cooked", "exiting")
Exit          == GoTo("exiting", "exited")

DropToken ==
  /\ pc = "dropToken"
  /\ pc' = "dropSession"
  /\ owners' = owners \ {"token"}
  /\ UNCHANGED <<signalVars, program, at, installed, published, writeFd, reader,
                 sizeVars, ghostVars>>

DropSession ==
  /\ pc = "dropSession"
  /\ pc' = "exiting"
  /\ owners' = owners \ {"session"}
  /\ reader' = FALSE
  /\ pipe' = <<>>
  /\ UNCHANGED <<pending, raised, cancel, fresh, program, at, installed,
                 published, writeFd, sizeVars, ghostVars>>

DropFlag ==
  /\ pc = "unwind"
  /\ pc' = "exiting"
  /\ owners' = {}
  /\ UNCHANGED <<signalVars, program, at, installed, published, writeFd, reader,
                 sizeVars, ghostVars>>

-----------------------------------------------------------------------------

Environment ==
  \/ \E s \in Sent : Kill(s)
  \/ ResizeWindow

Delivery ==
  \E s \in pending : DefaultAction(s) \/ HandlerRuns(s)

Open ==
  \/ OpenTty \/ NoTerminal \/ OpenTtyFails
  \/ MakePipe \/ PublishFlag \/ PublishFd
  \/ InstallHandler \/ IgnoreTerminalStops \/ InstallFails
  \/ QueryWinsize \/ RunProbe

Use ==
  \/ TakeToken \/ EnterRawFails \/ Report \/ LoopEnds \/ CookedEnds
  \/ DropToken \/ DropSession \/ DropFlag \/ Exit

Next == Environment \/ Delivery \/ Open \/ Use

Spec == Init /\ [][Next]_vars

-----------------------------------------------------------------------------
(* Properties.                                                              *)

InPipe == {pipe[i] : i \in DOMAIN pipe}
HasSession == pc \in {"session", "repl"}

(* A signal sent at any moment of the startup is not lost: unless it ended  *)
(* the process, or the pipe is full and the wakeup is there anyway, the     *)
(* loop finds the signal pending or its byte in the pipe.  Signals whose    *)
(* default is to be ignored count once the handlers are installed.          *)
SignalsAccounted ==
  HasSession =>
    \/ Len(pipe) = PipeCap
    \/ \A s \in asked \ Harmless : s \in pending \/ s \in InPipe

(* A SIGINT or SIGALRM handled before the session is dropped has set the    *)
(* cancel flag: no byte of theirs is in the pipe without it.                *)
InterruptIsFlagged ==
  HasSession /\ (InPipe \cap Cancelling # {} \/ fresh) => cancel

(* A resize between reading the size and the loop is not missed: if the     *)
(* cached size is out of date, a SIGWINCH or a full pipe will say so.       *)
ResizeNotMissed ==
  HasSession /\ winsize \notin {0, window} =>
    \/ "WINCH" \in pending \cup InPipe
    \/ Len(pipe) = PipeCap

(* signal.rs:251-254: the caller keeps the Arc alive for the lifetime of    *)
(* the process, the handler treats the pointer as 'static.                  *)
NoWildStore == ~wild

=============================================================================
