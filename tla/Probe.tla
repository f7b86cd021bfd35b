-------------------------------- MODULE Probe --------------------------------
(***************************************************************************)
(* The capability probe that TerminalSession::open runs: tty/probe/run.rs  *)
(* with the heuristics of probe/env.rs and the interpretation of answers   *)
(* in probe/interpret.rs, up to the moment the REPL enters raw mode.       *)
(*                                                                         *)
(* Three queries go out in one write; the terminal answers those it knows, *)
(* in any order and as late as it likes, among the keys the user types.    *)
(* An answer reaches the input queue in two pieces, because a read may cut *)
(* it anywhere.  No key falls inside an answer: the terminal sends both.   *)
(***************************************************************************)
EXTENDS Naturals, Sequences

CONSTANTS
  Envs,      \* environments: see EnvType
  Budget,    \* PROBE_BUDGET, in ticks of the clock (50 ms)
  Chunk,     \* pieces one read takes (128 bytes)
  MaxJunk    \* bound: keys the user types meanwhile

Queries == {"da1", "kitty", "decrpm"}

EnvType == [colorterm : {"unset", "truecolor", "256", "other"},
            term      : {"unset", "dumb", "256color", "other"},
            program   : {"known", "other"}]

ASSUME ProbeAssumption ==
  /\ Envs \subseteq EnvType
  /\ Budget \in Nat
  /\ Chunk \in Nat \ {0}
  /\ MaxJunk \in Nat

VARIABLES
  pc,        \* where run(), open() and run_interactive() are
  env,       \* Env::from_process
  caps,      \* the Capabilities under construction
  expected,  \* queries whose answer has been decoded
  buf,       \* bytes read and not decoded
  left,      \* ticks left of the budget
  guard,     \* the RawModeGuard is held
  termios,   \* settings of the terminal: "raw" or "cooked"
  tty,       \* pieces in the terminal's input queue
  signalled, \* the self-pipe is readable: the probe never drains it
  knows,     \* queries this terminal answers
  colors,    \* its DA1 answer reports codes 1, 3 or 4
  sync,      \* its DECRPM answer says that mode 2026 is recognised
  refuses,   \* it does not take new settings (not a tty, EIO)
  asked,     \* the queries have reached it
  sending,   \* answers it has begun and finished, in order of beginning
  junk,      \* keys typed so far (bound)
  taken      \* history: answers read to the end

probeVars    == <<env, caps, expected, buf, left>>
modeVars     == <<guard, termios>>
terminal     == <<knows, colors, sync, refuses>>
terminalVars == <<terminal, tty, asked, sending, junk>>
vars == <<pc, probeVars, modeVars, terminalVars, signalled, taken>>

Piece == [of : Queries, part : {1, 2}] \cup [of : {"key"}, part : {0}]

Listening == {"top", "wait", "decode"}

TypeOK ==
  /\ pc \in {"env", "raw", "write", "drop", "open", "repl"} \cup Listening
  /\ env \in Envs
  /\ caps \in [color : 0 .. 3, kitty : BOOLEAN, sync : BOOLEAN,
               osc8 : BOOLEAN, paste : BOOLEAN]
  /\ expected \subseteq Queries
  /\ buf \in Seq(Piece)
  /\ Len(buf) <= Chunk + 1
  /\ left \in 0 .. Budget
  /\ guard \in BOOLEAN
  /\ termios \in {"raw", "cooked"}
  /\ tty \in Seq(Piece)
  /\ signalled \in BOOLEAN
  /\ knows \subseteq Queries
  /\ colors \in BOOLEAN
  /\ sync \in BOOLEAN
  /\ refuses \in BOOLEAN
  /\ asked \in BOOLEAN
  /\ sending \in [begun : SUBSET Queries, done : SUBSET Queries]
  /\ junk \in 0 .. MaxJunk
  /\ taken \subseteq Queries

NoCaps == [color |-> 0, kitty |-> FALSE, sync |-> FALSE, osc8 |-> FALSE,
           paste |-> FALSE]

Init ==
  /\ pc = "env"
  /\ env \in Envs
  /\ caps = NoCaps
  /\ expected = {}
  /\ buf = <<>>
  /\ left = Budget
  /\ guard = FALSE
  /\ termios = "cooked"
  /\ tty = <<>>
  /\ signalled \in BOOLEAN
  /\ knows \in SUBSET Queries
  /\ colors \in BOOLEAN
  /\ sync \in BOOLEAN
  /\ refuses \in BOOLEAN
  /\ asked = FALSE
  /\ sending = [begun |-> {}, done |-> {}]
  /\ junk = 0
  /\ taken = {}

-----------------------------------------------------------------------------
(* The terminal, the user, the clock and the kernel.                        *)

HalfWay == sending.begun \ sending.done

BeginAnswer(q) ==
  /\ asked
  /\ HalfWay = {}
  /\ q \in knows \ sending.begun
  /\ sending' = [sending EXCEPT !.begun = @ \cup {q}]
  /\ tty' = Append(tty, [of |-> q, part |-> 1])
  /\ UNCHANGED <<pc, probeVars, modeVars, terminal, asked, junk, signalled,
                 taken>>

EndAnswer(q) ==
  /\ q \in HalfWay
  /\ sending' = [sending EXCEPT !.done = @ \cup {q}]
  /\ tty' = Append(tty, [of |-> q, part |-> 2])
  /\ UNCHANGED <<pc, probeVars, modeVars, terminal, asked, junk, signalled,
                 taken>>

TypeKey ==
  /\ HalfWay = {}
  /\ junk < MaxJunk
  /\ junk' = junk + 1
  /\ tty' = Append(tty, [of |-> "key", part |-> 0])
  /\ UNCHANGED <<pc, probeVars, modeVars, terminal, asked, sending, signalled,
                 taken>>

(* A signal of CAUGHT_SIGNALS: its byte also explains EINTR from pselect.   *)
Signal ==
  /\ ~signalled
  /\ signalled' = TRUE
  /\ UNCHANGED <<pc, probeVars, modeVars, terminalVars, taken>>

Tick ==
  /\ pc \in Listening
  /\ left > 0
  /\ left' = left - 1
  /\ UNCHANGED <<pc, env, caps, expected, buf, modeVars, terminalVars,
                 signalled, taken>>

-----------------------------------------------------------------------------
(* probe/env.rs: what the environment says.                                 *)

DetectColor(e) ==
  CASE e.colorterm = "truecolor" -> 3
    [] e.colorterm = "256" -> 2
    [] e.term = "256color" -> 2
    [] e.term = "other" -> 1
    [] OTHER -> 0

ApplyEnv(c, e) ==
  [c EXCEPT !.color = IF DetectColor(e) > @ THEN DetectColor(e) ELSE @,
            !.osc8 = @ \/ e.program = "known",
            !.paste = @ \/ e.term \in {"256color", "other"}]

(* probe/interpret.rs: what an answer says. *)

Da1Overrides(q, c) ==               \* mutant: DA1 decides the color tier
  CASE q = "da1" -> [c EXCEPT !.color = IF colors THEN 1 ELSE @]
    [] q = "kitty" -> [c EXCEPT !.kitty = TRUE]
    [] q = "decrpm" -> [c EXCEPT !.sync = @ \/ sync]

Interpret(q, c) ==
  CASE q = "da1" -> [c EXCEPT !.color = IF @ = 0 /\ colors THEN 1 ELSE @]
    [] q = "kitty" -> [c EXCEPT !.kitty = TRUE]
    [] q = "decrpm" -> [c EXCEPT !.sync = @ \/ sync]

-----------------------------------------------------------------------------
(* run(): environment first, then raw mode, the queries and the answers.    *)

(* FREDSHELL_NO_PROBE=1 ends the probe here. *)
FromEnv ==
  /\ pc = "env"
  /\ caps' = ApplyEnv(caps, env)
  /\ pc' \in {"raw", "drop"}
  /\ UNCHANGED <<env, expected, buf, left, modeVars, terminalVars, signalled,
                 taken>>

EnterRaw ==
  /\ pc = "raw"
  /\ ~refuses
  /\ pc' = "write"
  /\ guard' = TRUE
  /\ termios' = "raw"
  /\ tty' = <<>>
  /\ UNCHANGED <<probeVars, terminal, asked, sending, junk, signalled, taken>>

(* tcgetattr or tcsetattr fails: the probe goes on without a guard. *)
EnterRawFails ==
  /\ pc = "raw"
  /\ refuses
  /\ pc' = "write"
  /\ UNCHANGED <<probeVars, modeVars, terminalVars, signalled, taken>>

(* A write that fails may have sent the queries, or some of them. *)
WriteBatch ==
  /\ pc = "write"
  /\ \/ pc' = "top" /\ asked' = TRUE
     \/ pc' = "drop" /\ asked' \in BOOLEAN
  /\ UNCHANGED <<probeVars, modeVars, tty, terminal, sending, junk, signalled,
                 taken>>

(* The head of the loop of drain_responses. *)
BudgetUnchecked ==                  \* mutant: only Timeout looks at the clock
  /\ pc = "top"
  /\ pc' = IF expected = Queries THEN "drop" ELSE "wait"
  /\ UNCHANGED <<probeVars, modeVars, terminalVars, signalled, taken>>

Top ==
  /\ pc = "top"
  /\ pc' = IF expected = Queries \/ left = 0 THEN "drop" ELSE "wait"
  /\ UNCHANGED <<probeVars, modeVars, terminalVars, signalled, taken>>

(* A cooked terminal shows nothing before the end of a line; no key here    *)
(* ends one.                                                                *)
Readable == termios = "raw" /\ tty # <<>>

Timeout ==
  /\ pc = "wait"
  /\ ~Readable /\ ~signalled
  /\ left = 0
  /\ pc' = "drop"
  /\ UNCHANGED <<probeVars, modeVars, terminalVars, signalled, taken>>

(* The pipe is left for the next TerminalSession::wait, so this repeats.    *)
SignalPipeReadable ==
  /\ pc = "wait"
  /\ ~Readable /\ signalled
  /\ pc' = "top"
  /\ UNCHANGED <<probeVars, modeVars, terminalVars, signalled, taken>>

Take(s, n) == SubSeq(s, 1, IF n < Len(s) THEN n ELSE Len(s))
Past(s, n) == SubSeq(s, n + 1, Len(s))

ReadChunk ==
  /\ pc = "wait"
  /\ Readable
  /\ buf' = buf \o Take(tty, Chunk)
  /\ tty' = Past(tty, Chunk)
  /\ taken' = taken \cup
       {q \in Queries : \E i \in DOMAIN Take(tty, Chunk) :
                          Take(tty, Chunk)[i] = [of |-> q, part |-> 2]}
  /\ pc' = "decode"
  /\ UNCHANGED <<env, caps, expected, left, modeVars, terminal, asked,
                 sending, junk, signalled>>

(* EOF after a hangup, or an error of pselect or read. *)
ReadFails ==
  /\ pc = "wait"
  /\ pc' = "drop"
  /\ UNCHANGED <<probeVars, modeVars, terminalVars, signalled, taken>>

-----------------------------------------------------------------------------
(* decode_available, one iteration per step.  Fewer than two bytes never    *)
(* decide anything (parse_csi); an unfinished answer followed by something  *)
(* else is malformed, since that begins with ESC or is not part of a CSI.   *)

AnswerAtHead(q) ==
  /\ Len(buf) >= 2
  /\ buf[1] = [of |-> q, part |-> 1]
  /\ buf[2] = [of |-> q, part |-> 2]

Consumed(q) ==
  /\ pc = "decode"
  /\ AnswerAtHead(q)
  /\ buf' = Past(buf, 2)
  /\ caps' = IF q \in expected THEN caps ELSE Interpret(q, caps)
  /\ expected' = expected \cup {q}
  /\ UNCHANGED <<pc, env, left, modeVars, terminalVars, signalled, taken>>

ForgetsHead ==                      \* mutant: an unfinished head is dropped
  /\ pc = "decode"
  /\ Len(buf) < 2
  /\ pc' = "top"
  /\ buf' = <<>>
  /\ UNCHANGED <<env, caps, expected, left, modeVars, terminalVars, signalled,
                 taken>>

JunkWaits ==                        \* mutant: a malformed head waits for more
  /\ pc = "decode"
  /\ ~\E q \in Queries : AnswerAtHead(q)
  /\ pc' = "top"
  /\ UNCHANGED <<probeVars, modeVars, terminalVars, signalled, taken>>

NeedMore ==
  /\ pc = "decode"
  /\ Len(buf) < 2
  /\ pc' = "top"
  /\ UNCHANGED <<probeVars, modeVars, terminalVars, signalled, taken>>

Resync ==
  /\ pc = "decode"
  /\ Len(buf) >= 2
  /\ ~\E q \in Queries : AnswerAtHead(q)
  /\ buf' = Tail(buf)
  /\ UNCHANGED <<pc, env, caps, expected, left, modeVars, terminalVars,
                 signalled, taken>>

-----------------------------------------------------------------------------
(* The way out: the guard restores the settings and flushes the input; then *)
(* run_interactive enters raw mode, which flushes it again.                 *)

DropGuardKeepingInput ==            \* mutant: TCSANOW instead of TCSAFLUSH
  /\ pc = "drop"
  /\ pc' = "open"
  /\ guard' = FALSE
  /\ termios' = IF guard THEN "cooked" ELSE termios
  /\ UNCHANGED <<probeVars, terminalVars, signalled, taken>>

DropGuard ==
  /\ pc = "drop"
  /\ pc' = "open"
  /\ guard' = FALSE
  /\ termios' = IF guard THEN "cooked" ELSE termios
  /\ tty' = IF guard THEN <<>> ELSE tty
  /\ UNCHANGED <<probeVars, terminal, asked, sending, junk, signalled, taken>>

StartRepl ==
  /\ pc = "open"
  /\ ~refuses
  /\ pc' = "repl"
  /\ termios' = "raw"
  /\ tty' = <<>>
  /\ UNCHANGED <<probeVars, guard, terminal, asked, sending, junk, signalled,
                 taken>>

-----------------------------------------------------------------------------

World ==
  \/ \E q \in Queries : BeginAnswer(q) \/ EndAnswer(q)
  \/ TypeKey \/ Signal

Run ==
  \/ FromEnv \/ EnterRaw \/ EnterRawFails \/ WriteBatch
  \/ Top \/ Timeout \/ SignalPipeReadable \/ ReadChunk \/ ReadFails
  \/ \E q \in Queries : Consumed(q)
  \/ NeedMore \/ Resync
  \/ DropGuard \/ StartRepl

Next == World \/ Tick \/ Run

Spec == Init /\ [][Next]_vars

(* The thread of the shell runs and the clock advances. *)
FairSpec == Spec /\ WF_vars(Run) /\ WF_vars(Tick)

-----------------------------------------------------------------------------
(* Properties.                                                              *)

Ended == pc \in {"drop", "open", "repl"}

(* What open() caches is exactly what the environment and the answers heard *)
(* say, whatever their order: the environment is a floor for the color tier *)
(* and an answer counts once (env.rs:53-58, interpret.rs:29-38).            *)
CapsAreWhatWasHeard ==
  Ended =>
    /\ caps.color = IF DetectColor(env) > 0 THEN DetectColor(env)
                    ELSE IF "da1" \in expected /\ colors THEN 1 ELSE 0
    /\ caps.kitty <=> "kitty" \in expected
    /\ caps.sync <=> "decrpm" \in expected /\ sync
    /\ caps.osc8 <=> env.program = "known"

(* An answer that was read to the end is heard, however reads cut it and    *)
(* whatever keys surround it; nothing is heard that was not sent; and a     *)
(* terminal that could be made raw is raw while the probe listens to it.    *)
AnswersReadAreHeard ==
  /\ pc \in Listening /\ ~refuses => guard /\ termios = "raw"
  /\ pc \notin {"decode"} => taken \subseteq expected
  /\ expected \subseteq sending.done

(* The probe and the REPL after it keep the promises of TerminalLease: the  *)
(* probe reads only from a terminal it made raw, gives it back as it found  *)
(* it whatever way it ends, and no key typed at it reaches the REPL.        *)
Lease == INSTANCE TerminalLease WITH
  Modes    <- {"cooked"},
  settings <- termios,
  choice   <- "cooked",
  lent     <- guard \/ pc = "repl",
  unread   <- Len(tty),
  held     <- IF guard THEN Len(buf) ELSE 0,
  gone     <- FALSE

ImplementsLease == Lease!Spec

(* The probe ends, even when a signal keeps the self-pipe readable and the  *)
(* terminal never answers.                                                  *)
ProbeEnds == <>(pc = "open")

=============================================================================
