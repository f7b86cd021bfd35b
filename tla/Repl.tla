-------------------------------- MODULE Repl --------------------------------
(***************************************************************************)
(* The interactive loop of fredshell on an open TerminalSession:           *)
(* run_interactive, drive_raw_loop_session and pump_input_once of repl.rs, *)
(* the raw-mode and wait methods of tty/mod.rs and tty/wait.rs, and the    *)
(* RAII guard of tty/termios.rs, with the line discipline of the terminal  *)
(* and the signals of SignalPipe around them.                              *)
(*                                                                         *)
(* A keystroke is a record: its key class and its number.  The line buffer *)
(* holds the numbers, so a later state can tell when a byte was typed.     *)
(***************************************************************************)
EXTENDS SignalPipe

CONSTANTS
  Keys,      \* key classes the user types in this instance
  MaxKeys,   \* bound: keystrokes
  ReadCap,   \* bytes one read of the pump takes (64)
  Commands,  \* how a dispatched line may go: see Dispatch
  UserModes  \* terminal settings other than the shell's raw mode

AllKeys == {"char", "erase", "enter", "ctrlC", "ctrlD"}

ASSUME ReplAssumption ==
  /\ Keys \subseteq AllKeys
  /\ MaxKeys \in Nat
  /\ ReadCap \in Nat \ {0}
  /\ Commands \subseteq {"return", "exit", "spawn"}
  /\ "cooked" \in UserModes
  /\ UserModes \cap {"raw", "none"} = {}

VARIABLES
  pc,        \* where the thread of the shell is
  exit,      \* why run_interactive is ending: "none", "ok", "error", "builtin"
  tty,       \* keystrokes the terminal holds, not yet read
  termios,   \* the settings in force: "raw" or a member of UserModes
  userMode,  \* history: the settings last chosen by anyone but the shell
  hup,       \* the terminal has hung up
  ttyOpen,   \* TerminalSession.tty is still open
  guard,     \* raw_guard: "none", or the settings RawModeGuard saved
  window,    \* generation of the window size in the kernel
  winsize,   \* generation TerminalSession caches
  line,      \* line_buf
  batch,     \* bytes of the current read the pump has not reached
  echoed,    \* the pump has queued echo for this read
  typed,     \* keystrokes so far (bound, and their numbers)
  floor      \* history: bytes up to this number must never run

ttyVars   == <<tty, termios, userMode, hup>>
sizeVars  == <<window, winsize>>
lineVars  == <<line, batch, echoed>>
ghostVars == <<typed, floor>>
sessVars  == <<ttyOpen, guard, exit>>
vars == <<signalVars, pc, ttyVars, sizeVars, lineVars, ghostVars, sessVars>>

Key == [key : AllKeys, at : Nat]

RawPoints   == {"prompt", "wait", "drain", "read", "pump",
                "interrupt", "resize", "submit", "leave"}
IdlePoints  == {"enterRaw", "dispatch", "child"}
ClosePoints == {"dropTty", "dropGuard", "exited"}

TypeOK ==
  /\ SignalTypeOK
  /\ Len(pipe) <= PipeCap
  /\ pc \in RawPoints \cup IdlePoints \cup ClosePoints
  /\ exit \in {"none", "ok", "error", "builtin"}
  /\ tty \in Seq(Key)
  /\ termios \in UserModes \cup {"raw"}
  /\ userMode \in UserModes
  /\ hup \in BOOLEAN
  /\ ttyOpen \in BOOLEAN
  /\ guard \in UserModes \cup {"raw", "none"}
  /\ window \in Nat
  /\ winsize \in Nat
  /\ line \in Seq(Nat)
  /\ batch \in Seq(Key)
  /\ echoed \in BOOLEAN
  /\ typed \in Nat
  /\ floor \in Nat

Init ==
  /\ SignalInit
  /\ pc = "enterRaw"
  /\ exit = "none"
  /\ tty = <<>>
  /\ termios = "cooked"
  /\ userMode = "cooked"
  /\ hup = FALSE
  /\ ttyOpen = TRUE
  /\ guard = "none"
  /\ window = 0
  /\ winsize = 0
  /\ line = <<>>
  /\ batch = <<>>
  /\ echoed = FALSE
  /\ typed = 0
  /\ floor = 0

-----------------------------------------------------------------------------
(* The terminal, the user and other processes.                              *)

(* In a cooked terminal ^C raises SIGINT in the foreground process group,   *)
(* which the shell shares with its command, and flushes the input queue.    *)
Type(k) ==
  /\ pc # "exited"
  /\ ~hup
  /\ typed < MaxKeys
  /\ typed' = typed + 1
  /\ IF k = "ctrlC" /\ termios = "cooked"
       THEN /\ pending' = pending \cup {"INT"}
            /\ tty' = <<>>
       ELSE /\ tty' = Append(tty, [key |-> k, at |-> typed + 1])
            /\ UNCHANGED pending
  /\ UNCHANGED <<raised, pipe, cancel, fresh, pc, termios, userMode, hup,
                 sizeVars, lineVars, floor, sessVars>>

Kill(s) ==
  /\ pc # "exited"
  /\ Raise(s)
  /\ UNCHANGED <<pc, ttyVars, sizeVars, lineVars, ghostVars, sessVars>>

ResizeWindow ==
  /\ pc # "exited"
  /\ ~hup
  /\ "WINCH" \in Sent
  /\ Raise("WINCH")
  /\ window' = window + 1
  /\ UNCHANGED <<pc, ttyVars, winsize, lineVars, ghostVars, sessVars>>

Hangup ==
  /\ pc # "exited"
  /\ ~hup
  /\ "HUP" \in Sent
  /\ Raise("HUP")
  /\ hup' = TRUE
  /\ tty' = <<>>
  /\ UNCHANGED <<pc, termios, userMode, sizeVars, lineVars, ghostVars, sessVars>>

(* A command may leave the terminal in settings of its own (stty, an editor *)
(* that crashes).                                                           *)
ChildSetsTermios(m) ==
  /\ pc = "child"
  /\ ~hup
  /\ termios' = m
  /\ userMode' = m
  /\ UNCHANGED <<signalVars, pc, tty, hup, sizeVars, lineVars, ghostVars, sessVars>>

ChildExit ==
  /\ pc = "child"
  /\ pending' = pending \cup {"CHLD"}
  /\ pc' = "enterRaw"
  /\ UNCHANGED <<raised, pipe, cancel, fresh, ttyVars, sizeVars, lineVars,
                 ghostVars, sessVars>>

(* A handler that runs while pselect blocks makes it fail with EINTR, which *)
(* wait_for_event reports as SignalPipeReadable.                            *)
Deliver(s) ==
  /\ pc # "exited"
  /\ Handler(s)
  /\ \/ pc' = pc
     \/ pc = "wait" /\ pc' = "drain"
  /\ UNCHANGED <<ttyVars, sizeVars, lineVars, ghostVars, sessVars>>

-----------------------------------------------------------------------------
(* Raw mode: tcsetattr(TCSAFLUSH) applies the settings and discards the     *)
(* input nobody has read.                                                   *)

At(p) == pc = p /\ pending = {}  \* the thread runs: no handler preempts it

EnterRawKeepingInput ==             \* mutant: TCSANOW instead of TCSAFLUSH
  /\ At("enterRaw")
  /\ guard = "none"
  /\ guard' = termios
  /\ termios' = "raw"
  /\ floor' = typed
  /\ pc' = "prompt"
  /\ UNCHANGED <<signalVars, tty, userMode, hup, sizeVars, lineVars, typed,
                 ttyOpen, exit>>

EnterRaw ==
  /\ At("enterRaw")
  /\ guard = "none"
  /\ ~hup
  /\ guard' = termios
  /\ termios' = "raw"
  /\ tty' = <<>>
  /\ floor' = typed
  /\ pc' = "prompt"
  /\ UNCHANGED <<signalVars, userMode, hup, sizeVars, lineVars, typed,
                 ttyOpen, exit>>

(* AlreadyRaw, or tcgetattr / tcsetattr fails: the terminal is unchanged    *)
(* and run_interactive returns CoreError::RawMode.                          *)
EnterRawFails ==
  /\ At("enterRaw")
  /\ exit' = "error"
  /\ pc' = "dropTty"
  /\ UNCHANGED <<signalVars, ttyVars, sizeVars, lineVars, ghostVars, ttyOpen, guard>>

(* leave_raw_mode(): dropping the guard restores the settings it saved.     *)
(* On a hung-up terminal its tcsetattr fails, unnoticed.                    *)
Restores == guard # "none" /\ ~hup /\ ttyOpen

LeaveRaw ==
  /\ guard' = "none"
  /\ termios' = IF Restores THEN guard ELSE termios
  /\ tty' = IF Restores THEN <<>> ELSE tty

-----------------------------------------------------------------------------
(* The loop.                                                                *)

WritePrompt ==
  /\ At("prompt")
  /\ fresh' = FALSE
  /\ pc' = "wait"
  /\ UNCHANGED <<pending, raised, pipe, cancel, ttyVars, sizeVars, lineVars,
                 ghostVars, sessVars>>

Readable == tty # <<>> \/ hup

(* wait(None): the signal pipe has priority over the terminal. *)
Wait ==
  /\ At("wait")
  /\ \/ pipe # <<>> /\ pc' = "drain"
     \/ pipe = <<>> /\ Readable /\ pc' = "read"
  /\ UNCHANGED <<signalVars, ttyVars, sizeVars, lineVars, ghostVars, sessVars>>

(* The arms of the match on WaitEvent::Signal. *)
HupIgnored(s) ==                    \* mutant: the Hup | Term arm loses Hup
  CASE s = "INT"   -> "interrupt"
    [] s = "WINCH" -> "resize"
    [] s = "TERM"  -> "leave"
    [] OTHER       -> "wait"

ResizeIgnored(s) ==                 \* mutant: WinCh falls in the last arm
  CASE s = "INT"             -> "interrupt"
    [] s \in {"HUP", "TERM"} -> "leave"
    [] OTHER                 -> "wait"

OnSignal(s) ==
  CASE s = "INT"             -> "interrupt"
    [] s = "WINCH"           -> "resize"
    [] s \in {"HUP", "TERM"} -> "leave"
    [] OTHER                 -> "wait"

(* drain_first_signal(): an empty pipe is reported as Input. *)
Drain ==
  /\ At("drain")
  /\ pc' = IF pipe = <<>> THEN "read" ELSE OnSignal(Head(pipe))
  /\ pipe' = AfterDrain(pipe)
  /\ UNCHANGED <<pending, raised, cancel, fresh, ttyVars, sizeVars, lineVars,
                 ghostVars, sessVars>>

InterruptKeepsFlag ==               \* mutant: no cancel.reset()
  /\ At("interrupt")
  /\ line' = <<>>
  /\ pc' = "prompt"
  /\ UNCHANGED <<signalVars, ttyVars, sizeVars, batch, echoed, ghostVars, sessVars>>

(* Signal::Int and InputOutcome::Interrupted: clear, reset, prompt. *)
Interrupt ==
  /\ At("interrupt")
  /\ line' = <<>>
  /\ cancel' = FALSE
  /\ pc' = "prompt"
  /\ UNCHANGED <<pending, raised, pipe, fresh, ttyVars, sizeVars, batch, echoed,
                 ghostVars, sessVars>>

(* refresh_window_size(): TIOCGWINSZ fails once the terminal is gone. *)
RefreshWindow ==
  /\ At("resize")
  /\ winsize' = IF hup THEN winsize ELSE window
  /\ pc' = "wait"
  /\ UNCHANGED <<signalVars, ttyVars, window, lineVars, ghostVars, sessVars>>

(* One read(2).  A hung-up terminal reads 0 bytes, which is Eof. *)
Prefix(s, n) == SubSeq(s, 1, IF n < Len(s) THEN n ELSE Len(s))

RereadsLastByte ==                  \* mutant: the rest starts one byte early
  /\ At("read")
  /\ tty # <<>>
  /\ batch' = Prefix(tty, ReadCap)
  /\ tty' = SubSeq(tty, ReadCap, Len(tty))
  /\ echoed' = FALSE
  /\ pc' = "pump"
  /\ UNCHANGED <<signalVars, termios, userMode, hup, sizeVars, line, ghostVars,
                 sessVars>>

ReadBatch ==
  /\ At("read")
  /\ \/ /\ tty # <<>>
        /\ batch' = Prefix(tty, ReadCap)
        /\ tty' = SubSeq(tty, ReadCap + 1, Len(tty))
        /\ echoed' = FALSE
        /\ pc' = "pump"
     \/ /\ tty = <<>>
        /\ hup
        /\ pc' = "leave"
        /\ UNCHANGED <<batch, tty, echoed>>
  /\ UNCHANGED <<signalVars, termios, userMode, hup, sizeVars, line, ghostVars,
                 sessVars>>

(* read(2) fails, or writing the echo does: drive_raw_loop_session returns  *)
(* CoreError::ReplIo and the session is dropped as it is.                   *)
PumpFails ==
  /\ \/ At("read") /\ Readable
     \/ At("pump") /\ (echoed \/ (batch # <<>> /\ Head(batch).key \in {"enter", "ctrlC"}))
  /\ exit' = "error"
  /\ pc' = "dropTty"
  /\ UNCHANGED <<signalVars, ttyVars, sizeVars, lineVars, ghostVars, ttyOpen, guard>>

-----------------------------------------------------------------------------
(* pump_input_once(), one byte of the batch at a time.                      *)

PumpKey(k) == At("pump") /\ batch # <<>> /\ Head(batch).key = k

PushByte ==
  /\ PumpKey("char")
  /\ line' = Append(line, Head(batch).at)
  /\ echoed' = TRUE
  /\ batch' = Tail(batch)
  /\ UNCHANGED <<signalVars, pc, ttyVars, sizeVars, ghostVars, sessVars>>

EraseByte ==
  /\ PumpKey("erase")
  /\ line' = IF line = <<>> THEN <<>> ELSE SubSeq(line, 1, Len(line) - 1)
  /\ echoed' = (echoed \/ line # <<>>)
  /\ batch' = Tail(batch)
  /\ UNCHANGED <<signalVars, pc, ttyVars, sizeVars, ghostVars, sessVars>>

(* A control byte ends the batch: the bytes behind it are discarded. *)
CtrlC ==
  /\ PumpKey("ctrlC")
  /\ line' = <<>>
  /\ floor' = Head(batch).at
  /\ batch' = <<>>
  /\ pc' = "interrupt"
  /\ UNCHANGED <<signalVars, ttyVars, sizeVars, echoed, typed, sessVars>>

Enter ==
  /\ PumpKey("enter")
  /\ batch' = <<>>
  /\ pc' = "submit"
  /\ UNCHANGED <<signalVars, ttyVars, sizeVars, line, echoed, ghostVars, sessVars>>

CtrlD ==
  /\ PumpKey("ctrlD")
  /\ batch' = <<>>
  /\ pc' = IF line = <<>> /\ ~echoed THEN "leave" ELSE "wait"
  /\ UNCHANGED <<signalVars, ttyVars, sizeVars, line, echoed, ghostVars, sessVars>>

BatchDone ==
  /\ At("pump")
  /\ batch = <<>>
  /\ pc' = "wait"
  /\ UNCHANGED <<signalVars, ttyVars, sizeVars, lineVars, ghostVars, sessVars>>

-----------------------------------------------------------------------------
(* A submitted line, and the end of the session.                            *)

SubmitInRawMode ==                  \* mutant: no leave_raw_mode()
  /\ At("submit")
  /\ line' = <<>>
  /\ pc' = "dispatch"
  /\ UNCHANGED <<signalVars, ttyVars, sizeVars, batch, echoed, ghostVars, sessVars>>

Submit ==
  /\ At("submit")
  /\ line' = <<>>
  /\ LeaveRaw
  /\ pc' = "dispatch"
  /\ UNCHANGED <<signalVars, userMode, hup, sizeVars, batch, echoed, ghostVars,
                 ttyOpen, exit>>

(* dispatch_line(): the line comes back (builtin, error or refusal), is the *)
(* exit builtin (std::process::exit runs no destructor), or runs /bin/sh.   *)
Dispatch(c) ==
  /\ At("dispatch")
  /\ \/ c = "return" /\ pc' = "enterRaw" /\ UNCHANGED exit
     \/ c = "spawn" /\ pc' = "child" /\ UNCHANGED exit
     \/ c = "exit" /\ pc' = "exited" /\ exit' = "builtin"
  /\ UNCHANGED <<signalVars, ttyVars, sizeVars, lineVars, ghostVars, ttyOpen, guard>>

Leave ==
  /\ At("leave")
  /\ LeaveRaw
  /\ exit' = "ok"
  /\ pc' = "dropTty"
  /\ UNCHANGED <<signalVars, userMode, hup, sizeVars, lineVars, ghostVars, ttyOpen>>

(* Dropping TerminalSession drops its fields in declaration order: the tty  *)
(* descriptor is closed first, and RawModeGuard then calls tcsetattr on it. *)
DropTty ==
  /\ At("dropTty")
  /\ ttyOpen' = FALSE
  /\ pc' = "dropGuard"
  /\ UNCHANGED <<signalVars, ttyVars, sizeVars, lineVars, ghostVars, guard, exit>>

DropGuard ==
  /\ At("dropGuard")
  /\ LeaveRaw
  /\ pc' = "exited"
  /\ UNCHANGED <<signalVars, userMode, hup, sizeVars, lineVars, ghostVars,
                 ttyOpen, exit>>

-----------------------------------------------------------------------------
Environment ==
  \/ \E k \in Keys : Type(k)
  \/ \E s \in Sent : Kill(s)
  \/ ResizeWindow
  \/ Hangup
  \/ \E m \in UserModes : ChildSetsTermios(m)
  \/ ChildExit

Kernel == \E s \in CaughtSignals : Deliver(s)

Pump == PushByte \/ EraseByte \/ CtrlC \/ Enter \/ CtrlD \/ BatchDone

Shell ==
  \/ EnterRaw \/ EnterRawFails \/ WritePrompt \/ Wait \/ Drain
  \/ Interrupt \/ RefreshWindow \/ ReadBatch \/ PumpFails \/ Pump
  \/ Submit \/ (\E c \in Commands : Dispatch(c))
  \/ Leave \/ DropTty \/ DropGuard

Next == Environment \/ Kernel \/ Shell

Spec == Init /\ [][Next]_vars

(* The kernel delivers pending signals and schedules a runnable thread.     *)
(* Users, other processes and commands owe nothing.                         *)
FairSpec == Spec /\ WF_vars(Kernel) /\ WF_vars(Shell)

-----------------------------------------------------------------------------
(* Properties.                                                              *)

(* A command sees, and a session that ends without an I/O error leaves, the *)
(* (connected) terminal as the last program other than the shell set it: raw *)
(* mode is never lent to a command or to the parent (drive_raw_loop_session *)
(* around dispatch_line, run_interactive, process::exit in dispatch_line).  *)
TerminalHandedBack ==
  ~hup /\ (pc \in {"dispatch", "child"} \/ (pc = "exited" /\ exit # "error"))
    => termios = userMode

(* The loop reads the terminal only when read(2) returns at once, so it is  *)
(* always back in pselect to hear the next signal.  It relies on a byte     *)
(* being in the pipe whenever pselect fails with EINTR: wait reports Input  *)
(* after a drain that found nothing.                                        *)
NeverBlocksInRead == pc = "read" => Readable

(* No byte typed before the last ^C read in raw mode, or before raw mode    *)
(* was last entered (so: while a command ran), ends up in a line.           *)
TypeaheadNeverRuns == \A i \in 1..Len(line) : line[i] > floor

(* Keystrokes keep their order from the terminal through the pump into the  *)
(* line, and none is read twice: line, batch and tty, end to end, only grow *)
(* in keystroke numbers.  In the loop none of them is below the floor.      *)
KeysInOrder ==
  /\ \A i, j \in 1..Len(tty) : i < j => tty[i].at < tty[j].at
  /\ \A i, j \in 1..Len(batch) : i < j => batch[i].at < batch[j].at
  /\ \A i, j \in 1..Len(line) : i < j => line[i] < line[j]
  /\ \A i \in 1..Len(batch), j \in 1..Len(tty) : batch[i].at < tty[j].at
  /\ \A i \in 1..Len(line), j \in 1..Len(batch) : line[i] < batch[j].at
  /\ \A i \in 1..Len(line), j \in 1..Len(tty) : line[i] < tty[j].at
  /\ \A i \in 1..Len(tty) : tty[i].at <= typed
  /\ \A i \in 1..Len(batch) : batch[i].at <= typed
  /\ \A i \in 1..Len(line) : floor < line[i] /\ line[i] <= typed
  /\ floor <= typed
  /\ pc \in RawPoints =>
       /\ \A i \in 1..Len(tty) : floor < tty[i].at
       /\ \A i \in 1..Len(batch) : floor < batch[i].at
  /\ pc \in IdlePoints => line = <<>>
  /\ pc \notin {"pump"} \cup ClosePoints => batch = <<>>

(* The session owns a guard, and the terminal is raw, exactly inside the    *)
(* loop; the guard holds the settings the user had, never raw ones, so      *)
(* enter_raw_mode never finds the session already raw; and the loop drains  *)
(* or reads only where there is something to take.                          *)
RawModeDiscipline ==
  /\ pc \in RawPoints => /\ termios = "raw"
                         /\ guard = userMode
                         /\ ttyOpen
                         /\ exit = "none"
  /\ pc \in IdlePoints => /\ hup \/ termios = userMode
                          /\ guard = "none"
                          /\ ttyOpen
                          /\ exit = "none"
  /\ pc \in ClosePoints => /\ exit # "none"
                           /\ exit # "error" => /\ hup \/ termios = userMode
                                                /\ guard = "none"
  /\ pc = "drain" => pipe # <<>>
  /\ pc = "read" => Readable

(* While the shell has not begun to close, a set cancel flag is backed by   *)
(* a byte still in the pipe or by the arm that is about to reset it.        *)
FlagHasWakeup ==
  cancel => pipe # <<>> \/ pc \in {"interrupt", "leave"} \cup ClosePoints

(* The REPL clears the flag before it draws the next prompt: a prompt may   *)
(* find it set only by a signal younger than the prompt before.             *)
CancelClearedByNextPrompt ==
  [][pc = "prompt" /\ pc' = "wait" => (cancel => fresh)]_vars

(* The loop acts on the first byte of a drain only, so what it promises    *)
(* depends on the company a signal keeps.                                  *)
OnlyEver(signals) == [](pending \subseteq signals)

(* SIGTERM and SIGHUP end the shell. *)
ShutdownHonoured ==
  (pending \cap {"TERM", "HUP"} # {}) ~> (pc = "exited")

(* They do while no other kind of signal arrives, whatever is typed.       *)
ShutdownHonouredAlone == OnlyEver({"TERM", "HUP"}) => ShutdownHonoured

(* The cached window size catches up with the terminal, in a behaviour     *)
(* where only the signals of resizes arrive and commands come back.        *)
WindowEventuallyCurrent ==
  OnlyEver({"WINCH"}) =>
    (winsize # window) ~> (winsize = window \/ pc \in {"child", "exited"})

(* Signals have priority but never starve the keyboard. *)
InputNotStarved == (tty # <<>>) ~> (tty = <<>> \/ pc \in {"child", "exited"})

(* However the session ends, dropping it restores the terminal. *)
SessionDropRestoresTerminal == pc = "exited" /\ ~hup => termios = userMode

(* The loop keeps the promises of TerminalLease: it reads the terminal only *)
(* while it has it, nothing typed for one holder reaches the next (a line,  *)
(* a command, the shell behind it), and each command gets it as its user    *)
(* left it, unless the terminal hangs up or I/O fails.                      *)
Lease == INSTANCE TerminalLease WITH
  Modes    <- UserModes,
  settings <- termios,
  choice   <- userMode,
  lent     <- guard # "none",
  unread   <- Len(tty),
  held     <- IF guard = "none" THEN 0 ELSE Len(line) + Len(batch),
  gone     <- hup \/ exit = "error"

ImplementsLease == Lease!Spec

=============================================================================
