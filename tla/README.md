# fredshell in TLA+

A model of fredshell: the specification of what the code does, properties of it
that tests hardly reach, TLC runs on small instances, and theorems about every
instance. File and line references are to the repository.

## 1. The system

fredshell is a single-threaded interactive shell in Rust. Its own execution
engine is a stub (builtins, and `/bin/sh -c` behind an opt-in); most of its
logic today is the terminal: raw mode, signals, the byte pump, the capability
probe. Around it are the tools that keep the shell honest against bash: a spec
runner, a compatibility ratchet and a recorder of golden files.

| Component | State it keeps | Operations | Hard because |
|---|---|---|---|
| Interactive loop, `fredshell-core/src/repl.rs` | line buffer, position in the loop | wait, pump a batch, submit, interrupt, leave | signals between any two steps; each arm must reset exactly the right state |
| Terminal session, `tty/mod.rs`, `tty/wait.rs`, `tty/termios.rs` | descriptor, raw-mode guard, window size, cancel flag | `enter_raw_mode`, `leave_raw_mode`, `wait`, `refresh_window_size`, drop | input discarded on mode switches; order of destruction; EINTR |
| Signals, `tty/signal.rs` | self-pipe, static flag pointer, dispositions | `install`, `handler`, `drain_pipe` | asynchronous; bounded pipe; coalescing |
| Startup, `fredshell/src/main.rs`, `TerminalSession::open` | dispositions, session | open, install, probe, `ignore_sigquit` | partial failure; lifetime of the flag the handlers point to |
| Capability probe, `tty/probe` | bytes read, capabilities | env floor, queries, budget loop, interpretation | timeout against late answers |
| Execution, `exec`, `builtins.rs` | working directory and variables of an `ExecEnv` | `run_source`, `dispatch_line`, `exit`, `cd`, `spawn_via_sh` | abort in mid-script; environment per line; policy |
| Terminal codec, `fredshell-ansi` | none (pure) | encode with an announced length, `encode_all`, decode a prefix | incremental decoding; two descriptions of each item that must agree; writers that fail in the middle |
| Spec runner, `fredshell-spec-runner` | tally | load a case, sandbox, run, classify | which outcome counts as what |
| Developer tasks, `xtask` | files in the repository: cases, fixtures, sheets, `COMPAT.md`, `REFERENCE.md` | record, lint, versions, check-specs, compat, pc | several files written one by one; several views of one corpus; stale reports |
| Spec macros, `refuse!` | the binary's refusals | expand a citation of a sheet | text copied at compile time; a second parser of the same tables |
| Parser stub, process groups, prompt | - | - | pure, or without callers |

How they interact: `main` opens a `TerminalSession`, which opens `/dev/tty`,
installs the signal handlers and probes the terminal; `repl::run_interactive`
enters raw mode and loops. The loop's only inputs are `wait` (pselect over the
terminal and the self-pipe) and `read`. A handler shares with the loop the
cancel flag and the self-pipe, and nothing else. A submitted line leaves raw
mode, goes through `exec::run_source` and enters raw mode again. A command
shares the terminal and the foreground process group with the shell, so ^C
typed while it runs is a SIGINT to both. The probe uses the codec's decoders
and queries. The tools meet in files: a recorder writes the fixtures that
the runner compares with; `check-specs` ties the rows of the sheets to cases,
`compat` writes what the cases declare into `COMPAT.md`, `pc` compares it again
before a commit, and `refuse!` copies rows of the sheets into the binary.

What makes each part correct:

- the terminal is raw exactly inside the loop; commands and the parent process
  get it back as its last user set it;
- keystrokes run once, in order, and discarded ones never;
- no signal that the loop must act on is lost; the loop is always back in
  pselect to hear the next; the cancel flag does not outlive the prompt;
- the shell ends on SIGTERM and SIGHUP, follows the window size, serves the keyboard;
- a signal that arrives while the session is being opened kills the process by
  default or reaches the loop; the flag outlives every handler that may use it;
- the capabilities are what the environment and the answers heard say, and no
  weaker source lowers them; the probe ends in time and leaves the terminal cooked;
- a script's result is that of its last line; its commands run where its own cds
  led; `/bin/sh` runs only when asked for; a spec case depends on nothing but itself;
- an encoded item is as long as announced and means what its doc says, whatever
  came before it; a decoded answer is one the terminal gave, wherever the stream
  is cut, and none stays stuck behind keys;
- fixtures are those of one run of the pinned bash; a green corpus is what
  `COMPAT.md` says; the sheets, the cases and the report are one set of cases; a
  refusal of the binary cites what its sheet says.

## 2. The modules

| Module | Models | EXTENDS |
|---|---|---|
| `TerminalLease` | the promise about the controlling terminal, as a specification of its own: borrowed raw, given back as its user had it, keystrokes taken only meanwhile | |
| `SignalPipe` | the signals pending for the process, the handler, the self-pipe, the cancel flag (`tty/signal.rs`, `drain_first_signal`) | |
| `Repl` | the loop, the session and its guard, the line discipline, the user and the command (`repl.rs`, `tty/mod.rs`, `tty/wait.rs`, `tty/termios.rs`); implements `TerminalLease` | `SignalPipe` |
| `ReplProofs` | theorems about `Repl`; that it implements the lease | `Repl` |
| `Startup` | `TerminalSession::open`, `install`, the drops on the way out, signals at every point (`tty/mod.rs`, `tty/signal.rs`, `tty/controlling.rs`) | `SignalPipe` |
| `StartupProofs` | theorems about `Startup` | `Startup` |
| `Probe` | the capability probe up to the REPL's first `enter_raw_mode` (`tty/probe`, `tty/capabilities.rs`); implements `TerminalLease` | |
| `ProbeProofs` | theorems about `Probe` | `Probe` |
| `Exec` | the stub executor and its four callers (`exec`, `builtins.rs`, `parser`, `repl.rs:105-127`, `run_case`) | `Lists` |
| `ExecProofs` | theorems about `Exec` | `Exec`, `FoldFacts` |
| `AnsiBytes` | bytes, numerals, base64, percent-encoding, the framing they share | |
| `AnsiEncode` | every item the crate can build, its encoder and the length it announces | `AnsiBytes` |
| `AnsiDecode` | `parse_csi` and the five decoders | `AnsiBytes` |
| `Vt` | a terminal that obeys the sequences (external to the crate, from the meanings the encoders document) | `AnsiBytes` |
| `Codec` | a program and that terminal in conversation: `encode_all`, queries, answers, decoding with recovery | the three above |
| `CodecProofs` | theorems about `Codec`: lengths, types, verdicts, answers read back | `Codec`, `FoldFacts` |
| `ConversationProofs` | theorems about `Codec`: what is asked, answered, heard and drawn | `CodecProofs` |
| `Lists` | `Iterator::filter`, which `Exec` and `Sheets` use | |
| `FoldFacts` | induction and the folds of the community modules, as facts the provers can use | `Lists` |
| `Verdict` | statuses, outcomes, `classify`, the tally (`case.rs`, `verdict.rs`) | |
| `Corpus` | case files and fixtures: loading, recording, linting, comparing (`case.rs`, `record.rs`, `lint.rs`, `main.rs` of the runner) | `Verdict` |
| `Sheets` | the sheets as `check-specs` and as `refuse!` read them | `Lists` |
| `Reference` | the pinned toolchain: `REFERENCE.md`, `flake.nix`, the development shell (`spec/mod.rs`) | |
| `Workspace` | a checkout between the edits of a developer, and the tools on it | the three above |
| `WorkspaceProofs` | theorems about `Workspace` | `Workspace`, `FoldFacts` |
| `MCRepl`, `MCStartup`, `MCProbe`, `MCExec`, `MCCodec`, `MCWorkspace` | instances: names for the sets the `.cfg` files pick | each its own |

`Repl` starts where `Startup` is at `pc = "repl"` and `Probe` at `pc = "repl"`:
handlers installed, terminal cooked, guard gone. `Repl.Dispatch` is the whole of
`Exec` seen from the loop. `Codec` is what `Probe` abstracts to two pieces per
answer, and `Corpus` uses of `Exec` only a script's result, so that each composition
stays small enough to check.

### TerminalLease

Six variables: the settings in force, the settings the user last chose, whether
the shell has the terminal, and the numbers of keystrokes unread and taken, and
whether the terminal is gone. Borrowing makes it raw and discards what waits;
only then may keystrokes be taken; giving back restores the user's choice,
forgets what was taken and discards what waits, so that nothing typed for one
holder reaches the next. Only a terminal that is gone may be given back otherwise.
`Repl` maps `lent` to "the guard is held" and `held` to line plus batch; `Probe`
maps `lent` to "the guard is held, or the REPL has started" and `held` to the
bytes not decoded. Both are checked (`ImplementsLease` as a PROPERTY of their runs)
and proved.

### SignalPipe

`pending` is the kernel's set of pending standard signals: raising a pending one
changes nothing. `Handler(s)` is the whole C handler: the flag for SIGINT and
SIGALRM, then one byte, which a full pipe swallows. Handlers run to completion
before the interrupted thread goes on, since there is one thread. The handler
itself is not masked (`sa_mask` is empty, `signal.rs:349`), so handlers may
nest, which only permutes the bytes they write; `Handler` may be taken for
pending signals in any order, which gives the same permutations. `fresh` is a
history variable: a SIGINT or SIGALRM arrived since the latest prompt.

### Repl

`pc` is the position of the shell's thread:

| `pc` | code |
|---|---|
| `enterRaw` | about to call `enter_raw_mode` (`repl.rs:64`, `:162`) |
| `prompt` | about to call `write_prompt` |
| `wait` | in `session.wait(None)`, before or inside pselect |
| `drain` | in `drain_first_signal` (pselect said so, or failed with EINTR) |
| `read`, `pump` | in `pump_input_once`: at `read(2)`, and walking the batch |
| `interrupt`, `resize` | in the `Int` / `Interrupted` arms, in the `WinCh` arm |
| `submit`, `dispatch`, `child` | in the `LineSubmitted` arm: before `leave_raw_mode`, in `dispatch_line`, waiting for `/bin/sh` |
| `leave` | the loop has returned `Ok`; before the last `leave_raw_mode` |
| `dropTty`, `dropGuard`, `exited` | dropping the fields of `TerminalSession`; gone |

One action per step, each the whole of the code between two points where a
signal can matter: signals may be handled in front of every one of them.
`At(p)` says the thread runs: it does not while a handler is due. `EnterRaw` and
`LeaveRaw` include what `tcsetattr(TCSAFLUSH)` does to unread input. `PumpFails`
is the `?` on the read and the echo; `EnterRawFails` the `?` on
`enter_raw_mode`. `Dispatch` stands for the three ways `dispatch_line` can go,
which module `Exec` opens up.

A keystroke is a key class and a number. The classes are the arms of the match
in `pump_input_once`; the number is its identity, which lets a property compare
bytes in the terminal, the batch and the line, and say when a byte was typed.
`floor` is a history variable, the number below which bytes must never run.

The environment: `Type` (in a cooked terminal ^C becomes SIGINT and flushes the
queue; the settings "altered" stand for any others a command leaves behind),
`Kill`, `ResizeWindow`, `Hangup` (reads return 0, settings cannot change any
more), `ChildSetsTermios`, `ChildExit`.

Abstracted away: the bytes of echo and prompt (that something was echoed is
kept, it decides whether ^D ends the shell), UTF-8 conversion of the line,
pselect failing other than by EINTR (reported as a timeout, the loop goes
round), window sizes (a generation number), a session without descriptors
(unreachable through `open`), the cooked fallback loop `run_cooked`.

### Startup

`Steps` is the order of the statements of `open` and of `install` inside it: tty,
pipe, flag, fd, handlers, ignore, winsize, probe; `at` says which is next and
`installed` how many of `CAUGHT_SIGNALS` have the handler. A pending signal
meets `DefaultAction` or `HandlerRuns` according to it. `HandlerRuns` has the
cases `SignalPipe.Handler` need not know: the flag not yet published, the write
end not yet published, the reader gone. `owners` is who holds the `Arc` of the
flag; `wild` records that a handler stored through the pointer after the last of
them let go. `MayFail` names the system calls that may fail, which takes the
code to `unwind`, the drop of what `open` holds, and for the shell to the cooked
loop only when there is no terminal. `program` is the shell, or
`xtask tty-probe`, which opens a session and drops it.

### Probe

An answer is two pieces, since a read may cut it anywhere; keys are pieces of
their own. `tty` is the terminal's queue, `buf` the probe's. `Top` is the head of
the loop in `drain_responses` with its three exits, `Readable`,
`SignalPipeReadable` and `Timeout` what pselect reports, `ReadChunk` one read
with `decode_available` over what it brought: `Consumed`, `NeedMore` (an
unfinished head stays) and `Resync` (a malformed head is dropped up to the next
ESC). `Tick` is the clock, and it moves at any time while the probe runs. A
terminal is described by what it `knows`, its answers' contents (`colors`,
`sync`) and whether it `refuses` new settings. The 512-byte cap on the buffer is
not modelled: three real answers do not come near it.

### Exec

The thread is `idle`, in the loop of `dispatch_script` (`lines`), in
`Command::output` (`child`), or `returned` with a `result`; one action per arm of
`dispatch_line` and of `try_run`. Each host begins (`ReplLine`, `HarnessCase`,
`EmbedderScript`) with the `ExecEnv` the code builds for it and takes the result
as the code does. `env` is empty when no environment is alive, which is how the
REPL and the harness leave it. Directories are sequences of names without links. `Walk` is what `fs::canonicalize`
does with a path: name by name, `..` to the parent, each directory on the way being
there (`Targets`); the root is `<<>>`, and a case's box a directory in it, so that
`..` out of a box leads to a directory of the host. `RemoveDir` and `MakeDir` stand for other processes and for the commands'
own effects, between any two steps; a process whose directory was removed keeps
having none (`procLive`), though its name may be made again. The four lists of
history (`script`, `began`, `ran`, `asked`) are what the properties speak of.
`fredshell -c` does not use the executor, it has three actions of its own.

### AnsiEncode, AnsiDecode, Vt, Codec

Bytes are one-character strings, except where a payload or a numeral needs their
value. `Item` is the set of all items the crate can build, whatever their numbers,
texts and styles; a run picks some. Per kind of item `EncodeDyn` gives what `encode` writes and
`EncodedLenDyn` what `encoded_len` announces, each from its own code, because they
are two functions in the crate too. A decoder is a function of the bytes received:
the scan of `parse_csi` is a fold of `CsiByte` over them.

`Codec` begins a batch (`Begin`), encodes an item at a time (`EncodeItem`, with the
debug assertion of `encode_checked`), or fails within one after any number of its
bytes (`WriterFails`). `TerminalObeys` takes one whole sequence, changes `screen`
and answers queries; `PressKey` puts keys among the answers; `Arrive` delivers one
byte; `Take` and `Drop` are the recovery of `decode_available`. The history
variable `asked` is the screen had the items themselves been obeyed (`Meaning`, from
the doc comment of each item), `told` what the terminal answered.

### Verdict, Corpus, Sheets, Reference, Workspace

A case is named by its path; what can be written in its file is a record (it is
there, its schema is right, its status, its script); next to it are three sidecars
and perhaps a skeleton directory. A sheet is its headings, its table lines as
sequences of cells, and the words of its section 6: both parsers, `ParseSheet` and
`MacroRows`, work on these lines with their different rules. TOML and Markdown are
abstracted that far and no further.

In `Workspace` the developer edits any file between two tools (`EditCase`,
`EditFixture`, `ChangeShell`, `EditSheet`, `EditSites`, `EditReference`, `BumpFlake`,
entering and leaving the shell), `spec record` writes one sidecar per step
(`RecordBegin`, `RecordWrite`, `RecordFails`, which may leave a truncated file),
`Build` is cargo, which compiles when a file in the dep-info changed,
`CompatUpdate` writes `COMPAT.md` under any filter, or a torn one
(`CompatUpdateFails`). The tools that only look are predicates of the checkout:
`LintOk`, `CheckSpecsOk`, `VersionsOk`, `PcOk`. `recorded` is the history of the
last completed recordings; editing a script does not clear it, as nothing in the
code notices that.

## 3. Properties and runs

Every run finishes within four minutes. `CHECK_DEADLOCK FALSE` everywhere: a shell
that waits for a user who has typed `MaxKeys` keys, or that has exited, really
stops; so does the probe when it has handed over, and an executor whose host has
called it `MaxScripts` times, a program that has written its batches, and a checkout
nobody edits any more.

| Run | Question | Bounds |
|---|---|---|
| `repl_safety` | `TypeOK`, `TerminalHandedBack`, `NeverBlocksInRead`, `KeysInOrder`, `WindowEventuallyCurrent`, `ImplementsLease` | 3 keys of 5 classes, 2 of 4 signals, pipe of 2, reads of 2, two terminal settings, all outcomes of a command |
| `repl_interrupts` | `FlagHasWakeup`, `CancelClearedByNextPrompt`, `ShutdownHonouredAlone`, `InputNotStarved` when only SIGINT, SIGTERM, SIGHUP arrive | 3 keys, 3 signals, pipe and drain of 2 |
| `repl_lost_shutdown` | `ShutdownHonoured` with SIGUSR1 besides: violated | 1 key, 2 signals |
| `repl_dropped_session` | `SessionDropRestoresTerminal`: violated | 1 key |
| `startup_safety` | `TypeOK`, `SignalsAccounted`, `InterruptIsFlagged`, `ResizeNotMissed` | 4 signals of 5 kinds, pipe of 3, both programs, every step may fail |
| `startup_dangling` | `NoWildStore`: violated | one SIGINT, nothing fails |
| `probe_safety` | `TypeOK`, `CapsAreWhatWasHeard`, `AnswersReadAreHeard`, `ImplementsLease`, `ProbeEnds` | every set of answers in every order, 2 keys, reads of 3 pieces, a clock of 1 tick, 3 environments |
| `exec_safety` | `TypeOK`, `StatusIsLastLine`, `RunsWhereCdSaid`, `NoHiddenFallback`, `CaseMeansItsScript`, `ExitLeavesShell` | four hosts, 13 lines, among them four relative cds, three of these with `..`, scripts of 2 of them or 3 of the 6 commonest, 2 scripts, 2 changes of the file system, a box with and without a directory |
| `exec_killed` | `OneShotTellsFailure`: violated | one command |
| `codec_safety` | `TypeOK`, `LenIsExact`, `TerminalAsAsked`, `AnswersAreTrue`, `NoAnswerStuck`, `OneMeaning`, `DecisionIsFinal` | two batches: every kind of item alone, moves after a move, a query after what it asks about; then a redraw or a query; writers failing at every byte; one key of 4 kinds |
| `codec_length` | `LenIsExact` for a bright background: violated | one item |
| `tools_safety` | `TypeOK`, `RecordingIsWhole`, `GreenCorpusIsTrue`, `ReportAccounts`, `MatrixMatchesCompat`, `RefusalsAreDocumented`, `BinaryCitesSheets`, `PinIsTheOracle` | two cases, two scripts, one sheet of several texts, three revisions; 2 edits of anything, 1 failed or interrupted write |

Why the bounds are enough. A read takes 2 bytes and the user types 3, so a line
spans reads, and a control byte has bytes before it, behind it in the same read
and behind it in the terminal. The self-pipe holds 2 bytes and 3 signals can be
in flight (SIGCHLD and SIGINT from the terminal are not counted in `MaxRaised`),
so the pipe is full while one more handler runs. The drain takes 2 bytes, so it
can drop one. Two settings tell the user's choice from the shell's.

In `startup_safety` more signals may arrive than the pipe holds, and all five
kinds of treatment occur: a flag and a byte (INT), a byte (TERM), a byte whose
default is to be ignored (CHLD, WINCH), a flag without a user (ALRM). In
`probe_safety` a read of 3 pieces takes one answer and the head of the next, and
two keys can stand before, between and behind answers. One tick is enough,
because the code only asks whether the budget is spent. The environments are one
for each color tier the heuristics give. In `exec_safety` three lines are enough
for a cd, a second cd or a failure, and a command, and for a cd into a box and one
out of it again; two removals empty the tree.
`CaseMeansItsScript` compares the steps with a definition of what a script means
as a fold over its lines.

In `codec_safety` the items take the values at which an encoding changes shape: no
attribute and several, every color form, counts 0 and above 9, coordinates off the
screen, relative and absolute paths with bytes that must be escaped, payloads of
every length modulo 3 with bytes that look like ESC, a device attribute above
65535. The scanner is limited to 3 parameters instead of 32, so that the limit is
met. A failing writer stands before a second batch, so that what a cut sequence
does to the next one is seen. In `tools_safety` the texts of the sheet are a good
one and one for each mistake a row can have (twice the same case, another spelling
of it, an empty cell, a missing one, a number that is a prefix of another, sections
out of order). bash 5.2 and 5.3 differ on one script, which a signal ends in 5.2, so that the 127
recorded for it can be cut to 12; one revision ships the versions of another. Two edits are enough for a change after a check and one
before it.

`repl_interrupts` restricts the signals, and `ShutdownHonouredAlone` and
`WindowEventuallyCurrent` are about behaviours in which only one kind arrives
(`OnlyEver`), because the loop acts on one byte of a drain (section 5): each holds
exactly when no byte that matters can stand behind one that does not.

Fairness (`FairSpec`): weak fairness of `Kernel` (pending unblocked signals are
delivered; fredshell never blocks them) and of `Shell` (a runnable thread is
scheduled, and pselect returns when a descriptor is ready). Nothing is assumed
of the user, of other processes or of commands: a command may run for ever,
which is why `InputNotStarved` and `WindowEventuallyCurrent` except it. `ShutdownHonouredAlone` needs no such
exception because its run spawns nothing; with a command that never ends, the code
really waits for it in `cmd.output()`.

For `Probe` it is weak fairness of the thread and of the clock: `ProbeEnds` then
holds for a terminal that never answers and for a self-pipe that stays readable,
the case in which every wait returns at once and only the check at the head of the
loop ends it.

## 4. Proofs

`ReplProofs` proves, for all values of the constants allowed by
`SignalAssumption` and `ReplAssumption` (the capacities are positive, "raw" is
not one of the user's settings):

- `TypeInvariance`: `Spec => []TypeOK`, with the bound of the self-pipe.
- `RawModeDisciplined`: `Spec => []RawModeDiscipline`. This is the inductive
  invariant of the session: inside the loop the terminal is raw and the guard
  holds the user's settings; outside it the guard is gone and the settings are
  the user's. It carries two facts the loop relies on: a drain finds a byte and
  a read finds input. They are inductive because a handler adds bytes and never
  removes any, and nothing but the shell takes input from the terminal in raw
  mode. `TerminalIsHandedBack` and `ReadNeverBlocks` are corollaries, neither is
  inductive by itself.
- `KeysStayInOrder`: `Spec => []KeysInOrder`, and its corollary
  `TypeaheadIsNeverRun`. `KeysInOrder` strengthens "line numbers are above the
  floor" to all three queues: line, batch and terminal, end to end, strictly
  increase. Most actions only discard (`DiscardKeepsOrder`); the lemmas
  `PrefixType`, `RestType` and `TailKeeps` say what `read` and the pump take and
  leave, so the theorem covers every way of splitting the input into reads.
- `FlagKeepsItsWakeup`: `Spec => []FlagHasWakeup` if only SIGINT, SIGTERM and
  SIGHUP arrive and nothing is spawned (the instance of `repl_interrupts`), by
  the invariant that every byte of the pipe is one of these.
- `PromptClearsCancel`: `Spec => CancelClearedByNextPrompt` under the same
  assumption. `OldFlagSeen` strengthens it: a flag older than the prompt on screen
  still has its byte in the pipe, and `wait` looks there before it reads.

`ReplProofs` also proves `ReplImplementsLease`: `Spec => ImplementsLease`. Under
the invariants above every action of `Repl` is an action of the lease or a
stutter; reading moves keystrokes from `unread` to `held`, a finished line, a
drop and ^C only forget. No separate invariant was needed, which says that
`RawModeDiscipline` and `KeysInOrder` are what the lease rests on.

`StartupProofs` proves, for every set of signals, every capacity of the pipe and
every choice of what may fail:

- `NoSignalIsLost`: `Spec => []SignalsAccounted`,
- `InterruptsAreFlagged`: `Spec => []InterruptIsFlagged`,
- `ResizeIsNotMissed`: `Spec => []ResizeNotMissed`,
- `StartupTypes`: `Spec => []TypeOK`.

They share one inductive invariant. Its part `Progress` says, for each value of
`at`, what has been installed and published by then: the flag before the write
end, the write end before the first handler, all handlers before the window size
is read. With it a pending signal either has no handler yet, and kills or is of no
interest, or its handler finds the flag and the pipe (`HandlerInv`); the other
actions keep the pipe or leave the states in which there is a session.

`ProbeProofs` proves, for every set of environments, budget, read size and number
of keys:

- `ProbeTypes`: `Spec => []TypeOK`. The buffer is bounded by one read and one piece,
  because outside `decode_available` it holds at most one piece (`ShortBuffer`).
- `CapsMeanAnswers`: `Spec => []CapsAreWhatWasHeard`, by the same statement about
  every state after `env` (`CapsSoFar`): the tier is the environment's unless
  that is 0, and an answer counts once.
- `AnswersAreHeard`: `Spec => []AnswersReadAreHeard`. The argument follows the
  stream of pieces from the terminal to the decoder, `buf \o tty`. It is `Paired`:
  every second half follows its first, every first half but the last piece is
  followed by its second. Sending keeps it paired (`PairedAppend`), reading does not
  change it, however it cuts, and the decoder removes prefixes that do not end
  inside an answer (`PairedDrop`): the head it drops is never half of one. So an
  answer that was read to the end is in the buffer until it is decoded, and
  outside the decoder the buffer is too short to hold one (`HeardByNow`).
- `ProbeImplementsLease`: `Spec => ImplementsLease`, with `GuardDiscipline`: the
  guard is held exactly while the terminal is raw for the probe.

`FoldFacts` holds what the proofs below need of recursion. The provers cannot
instantiate the library's induction theorems, which quantify over predicates; a
predicate written as a set they can use. So `SmallestSubset`, `NumbersInductive`
and `ListsInductive` state induction over subsets, numbers and lists for every
set, derived from the well-foundedness of strict inclusion, and `FoldEmpty`,
`FoldAppend` and their like say of each fold of the community modules what it is on
the empty list and on one element more. They are what makes theorems about scripts, corpora and byte
strings of every length possible.

`ExecProofs` proves, for scripts of any length and any number of them:

- `ExecTypes`: `Spec => []TypeOK`;
- `FallbackIsAskedFor`: `Spec => []NoHiddenFallback`, the policy of the host is that
  of the run until it returns;
- `LinesRunWhereCdSaid`: `Spec => []RunsWhereCdSaid`. The property compares each
  line with the last successful cd before it; the invariant says that the working
  directory of the environment alive is that of `DirBefore` for the next line, and
  that appending to the history leaves what was said of earlier lines alone;
- `ExitLeaves`: `Spec => []ExitLeavesShell`: while the directory is there an exit
  line leads to the step that ends the shell;
- `StatusSpeaksOfLastLine`: `Spec => []StatusIsLastLine`. `WalkInv` says at every
  point of the walk that some `n` lines of the script are behind it, that the lines
  run are those of the first `n` that are not blank, and that none of them, but
  perhaps the last, was an exit;
- `CasesAreHermetic`: `Spec => []CaseMeansItsScript`. `CaseInv`: after `n` lines of
  a case the environment and the status are what the fold of `Reads` over those `n`
  lines gives, in a box no other process can name (`BoxAssumption`), so the changes
  others make to the file system cannot tell. A walk with `..` in it stays in the box
  unless it passes the root (`WalkInBox`); of a case that does, as of one that gives
  cd an absolute path, nothing is claimed, because it then depends on the host.

`WorkspaceProofs` proves, for any finite sets of cases, sheets and plans, any texts
and any number of edits and failures:

- `WorkspaceTypes`: `Spec => []TypeOK`.
- `RecordingsAreWhole`: `Spec => []RecordingIsWhole`. While a recording runs, the
  sidecars before `next` already read as its result (`WholeInv`), whatever was
  there; a failure leaves no claim behind.
- `BuildsCiteSheets`: `Spec => []BinaryCitesSheets`: unless a build is due, no
  sheet the binary was built from has changed, since each citation makes its sheet
  an input.
- `CheckedShellIsOracle`: `Spec => []PinIsTheOracle`.
- `TallyAccounts`: `Spec => []ReportAccounts`. The tally is a sum over the verdicts;
  the verdicts split the cases that were run, so the sum counts each once.
- `GreenMeansTrue`: `Spec => []GreenCorpusIsTrue`: `pc` compares `COMPAT.md` with a
  fresh tally, and each number in that one is the size of a set of cases.
- `MatrixIsCompat`: `Spec => []MatrixMatchesCompat`. `check-specs` makes rows and
  cases a bijection, so that the sets are equal and as large as each other;
  `pc` makes the cases the entries of `COMPAT.md`. That a sheet has finitely many
  rows is a lemma about the filter its parser is. Of the fixtures, once `lint` has
  passed too, it says that each belongs to a case and that no exit sidecar is empty; a
  torn stdout or an exit cut to a shorter number passes all three checks.
- `RefusalsHaveWorkarounds`: `Spec => []RefusalsAreDocumented`. A row `refuse!` can
  cite is one `check-specs` has looked at, provided that no cell is empty; what the
  latter then guarantees is less than its comments say (section 5).

They assume that cells, results and texts are of their types, that a canonical
Corpus cell leads to the case it names (`WorkspaceAssumption`), that a table line is
a list of cells (`SheetsAssumption`), that there are finitely many plans
(`PlansFinite`) and that the bounds are numbers (`BoundsAssumption`).

`CodecProofs` proves, for every batch of items the crate can build, every key, every
device attribute, every size of the screen and every limit on parameters:

- `EncodeSize`, about all items: `encode` writes as many bytes as `encoded_len`
  announces, but for one more when the background is bright and not white. The
  lengths of the joined lists, of base64 and of percent-encoding are lemmas on the
  folds.
- `LengthsAreExact`: `Spec => []LenIsExact` if no batch has such a background
  (`Narrow`). The run `codec_length` shows that the hypothesis is needed: it is
  finding 7 of section 5, and `EncodeSize` says that there is no other.
- `MeaningIsOne`: `Spec => []OneMeaning`. Each decoder accepts one final byte or one
  introducer, and the parser finds one sequence at the head of the buffer.
- `VerdictsStand`: `Spec => DecisionIsFinal`. `ParseFinal` and `OscFinal`: a scan
  that has stopped gives the same on every longer stream. The limit on parameters
  and the numbers that are clamped are part of it.
- `CodecTyped`: `Spec => []TypeOK`: whatever arrives, each decoded number is in the
  range of its Rust type (clamped, or rejected), a payload is a list of octets, and
  the cursor stays on the screen.
- `AnswersAreRead`: what the terminal answers to any of the five queries, on any
  screen, is taken whole by the decoder of that answer, which yields what was
  reported. It rests on `Base64Back` (base64 of a payload of any length decodes to
  the payload), on the numerals of `itoa5` read back digit by digit, and, for the
  device attributes, on an induction over their number.
- `TakenArrived`: a decoder that accepts takes at least one of the bytes received and
  no more than those.

The theorems on verdicts and types rest on `StreamInv`: the streams stay byte strings and the terminal
stays a terminal, however a writer fails and keys fall among the answers.
`CodecAssumption` asks that batches are lists of items, that keys are bytes and that
the device attributes are numbers of five digits at most, which is how far `itoa5`
writes them; `DecodeAssumption` that the parser has room for the two parameters of a
cursor report, `VtAssumption` that the size of the screen is a `u16`.

`ConversationProofs` proves what program and terminal make of each other's bytes:

- `AnswersTrue`: `Spec => []AnswersAreTrue` if `KeysApart`. The invariant `TalkInv`
  looks at all bytes ever sent to the program as one list `z`: each answer has a place
  in it (`Sent`), in order and apart; between the places are keys; and the reader, who
  has taken `k` bytes, has taken exactly the answers that end there (`Received`).
  Sending adds a place, arriving moves a border, and the point is the reader: a
  decoder accepts only at the place of an answer, and takes it to its end
  (`TakeAnswer`), and a byte is dropped only outside them (`DropKey`).
- `AnswersReach`: `Spec => []NoAnswerStuck` if `KeysApart`, from `TalkInv` and `AskInv`.
  `AskInv` is the same picture of the other direction: of all bytes ever written each
  query has a place, and the terminal is never inside one. A query behind the
  torn rest of an item is still found (`NextBefore`: a sequence ends before the next
  ESC that begins one), and taken as a whole (`QueryTaken`). So when the terminal has
  nothing left to obey it has answered every query, and when all bytes are in, the
  reader's buffer holds an answer, with keys before it or not (`TalkReads`).

- `TerminalDraws`: `Spec => []TerminalAsAsked` if `PlainItems`, for items of every
  kind with any values, in batches of any length and number, whichever writers fail
  where. `ItemDrawn` says of each item that its bytes are one whole sequence (or none,
  for a move by zero), which the terminal takes as such whatever follows, and that
  obeying it is what the item means. That is a lemma per encoder: numerals and their
  separators are read back (`Written`), base64 and percent-encoding are undone
  (`Unbase64Back`, `DrawnDir`), and the parameters of a style take the pen, one after
  the other, from any style to the restyled one (`Drives`, `Penned`). The invariant
  `DrawInv` looks at all bytes ever written as one list, which falls into stages: a
  whole sequence, or the scrap a failing writer left, of which the terminal makes
  nothing and which cannot swallow the ESC of the next stage (`TornShape`, the ESC of
  a torn terminator included). The terminal is always between two stages, in a state
  from which the stages still to come lead to `asked` (`StandingNext`).

`KeysApart` says that keys hold no ESC, or no digit and no `;`. Without it
`AnswersAreTrue` is false, and no reader could make it true: a key that sends
`ESC [ 1 ; 2 R` (xterm sends that for Shift-F3) is a cursor report. The proof of
`NoAnswerStuck` needs `TalkInv`, and so `KeysApart` too. `PlainItems` says that the
text of a hyperlink does not end the sequence it is written into, which `Osc8` asks of
its caller for ST (`osc.rs:153-155`) and which holds of BEL and of the `;` of its
parameters as well; and that paths are of the bytes `PercentCode` lists. `MCCodec`
assumes both of its instances.

What the proofs found in the models: the arms of `Reads` in `Exec` overlapped, which
leaves open which of them counts; in `Verdict` a status that is not deferred could
name a plan; the terminal of `Vt` took for a link what is behind the last `;`, though a
link may have one in it; and `RefusalsAreDocumented` was false for sheets other than
the ones checked, because the search for a row number in section 6 does not look at
what stands before it (section 5).

Left to TLC: the liveness properties (`ShutdownHonouredAlone`,
`WindowEventuallyCurrent`, `InputNotStarved`, `ProbeEnds`), which need fairness and
ENABLED. Every invariant, every action property and both refinements that the runs
check are theorems.
`RawModeDiscipline` and `TypeaheadNeverRuns` are proved and are in no run of their
own.

## 5. Where the code and its documentation disagree

1. *A drained signal is dropped.* `drain_first_signal` (`tty/mod.rs:606-611`)
   reads up to 16 bytes and acts on the first. Its comment calls that benign
   because the loop waits again; but the bytes are gone, and with them a SIGTERM
   or SIGHUP behind a SIGUSR1, SIGCHLD or SIGWINCH. `repl_lost_shutdown`.
2. *The cancel flag outlives the prompt.* `cancellation_token` documents that
   the REPL clears the flag before it draws the next prompt; the `LineSubmitted`
   arm does not, and the SIGINT byte that would is dropped behind SIGCHLD, when ^C
   ends a command. The consequence of 1 for `CancelClearedByNextPrompt`, which
   `PromptClearsCancel` proves as long as no SIGCHLD can come.
3. *Dropping the session does not restore the terminal.* `enter_raw_mode`
   documents that it does; the fields drop in declaration order, so the
   descriptor is closed before the guard uses it. It shows when the loop returns
   an error. `repl_dropped_session`.
4. *The flag is freed under the handlers.* `signal.rs:251-254` requires the
   caller to keep the `Arc` alive for the lifetime of the process; the shell drops
   it with the session, before it exits, while the handlers stay. A SIGINT in
   between is stored through a dangling pointer. `startup_dangling`.
5. *A late answer is typed.* `PLAN_04_terminal_io.md:365` treats a slow answer as
   none; the REPL reads its bytes as keystrokes, ESC and all (`repl.rs:294-297`).
   No run: nothing in the code promises otherwise.
6. *A killed one-shot command is a success.* `fredshell -c` propagates the exit
   code; a command ended by a signal has none and the shell exits with 0.
   `exec_killed`.
7. *A bright background is one byte longer than announced.* `Color::param_len`
   (`sgr.rs:250`) counts two bytes for the bright colors but white, also as a
   background, whose parameter has three (100 to 106). `lib.rs:66-68` requires the
   exact number, and debug builds panic. `codec_length`; in `codec_safety` the only
   bright background is white.
8. *Incomplete where more cannot help.* `lib.rs:252-254` keeps Incomplete for a
   valid prefix of a response of the type; the OSC 52 decoder waits for five
   bytes, and the CSI decoders for the whole sequence, even when the first bytes
   already tell that it is another's. A caller that recovers as the probe does
   still finds every answer (`NoAnswerStuck`), so no run.
9. *The denominator keeps a wontfix case that matches.* `verdict.rs:274-276`
   explains the pass rate as without wontfix cases; one that matches is
   `reclassify` and is not subtracted. Likewise `verdict.rs:70-72` calls an expected
   failure excluded from the pass rate: it is not counted as a pass, but the
   denominator keeps it. `ReportAccounts` states what the code counts.
10. *A longer row number counts as the row's.* `check_specs.rs:266-272` says that
   section 6 cites the row, by a match "digit-boundary aware"; the code (`:274-278`)
   looks only at the character after the number, so that 13.1 counts for 3.1. No run: `RefusalsAreDocumented` asks for the number or a longer one that
   ends in it, which is what the code gives.

Not disagreements, but worth knowing:

- `dispatch_line` builds the environment before it looks at the line, so in a
  directory that has been removed no line is run, `exit` included.
  `ExitLeavesShell` holds while the directory is there.
- `check-specs` takes rows from any section of a sheet, not only the third; it
  decides ownership by the spelling of a cell, so `./tier1/cd` in a second row
  is a second owner nobody counts. `MatrixMatchesCompat` asks for canonical cells.
- `refuse!` drops empty cells and takes three, `check-specs` wants four, so a row
  with an empty cell may be cited and is checked by nobody.
  `RefusalsAreDocumented` excepts such sheets.
- A recording killed within the exit sidecar leaves a file the next recording
  cannot load, if it is empty; it must be removed by hand. Cut after a digit it is
  another number, and an exit fixture like any other; a torn stdout is so too. Only
  running the case tells, which a deferred case does not need to pass. A script edited after a recording keeps
  its old fixtures until someone records again.
- `COMPAT.md` written under a filter is caught by `pc`, which checks without one;
  `compat --check-readme` under the same filter would accept it.

## 6. Plan

Done: everything of section 2, in that order, with the proofs of section 4.

| Left | What | Waits for |
|---|---|---|
| Job control | `tty/pgrp.rs` with a foreground child and `give_foreground` / `take_foreground` | the loop to call it |
| The parser and the evaluator | one action per node instead of per line of the stub | their code |
| More sheets | two sheets and three cases in `tools_safety` | nothing but time: the theorems already cover any number |

## 7. Not modelled, and why

- The prompt (`fredshell-prompt`): rendering without state, which the loop does not
  call yet.
- The grammars: TOML of the case files, Markdown around the table lines, the quoting
  in `flake.nix`. The models start from what their parsers yield.
- The JSON report and the printed summaries of `compat`, the formatting of
  `COMPAT.md`, cargo aliases and coverage, `tty-probe`'s printing.
- Where the offset of a decoding error points and its wording.
- Copying a skeleton tree into a sandbox, beyond whether it is there (`Exec`).
- A developer who edits while a tool runs: each tool reads its files once.
- Logging and the command line.
- `tty/pgrp.rs`, `give_foreground`, `take_foreground`: nothing calls them.
- The cooked loop `run_cooked`, a `read_line` and `dispatch_line` in turn, beyond
  the way into and out of it (`Startup`).
- A second `install` (`AlreadyInstalled`): only tests call it twice.
- Symbolic links, renames and permissions in `Exec`; paths with a `.` or an empty
  name in them, which lead where the paths without do. What a case finds whose `..`
  climbs out of its box is the host's, and no property speaks of it.
- A write cut short in the middle of an output: of those beginnings only the empty one
  is kept, which reads as a missing file, and for an exit status of several digits one
  that is another number (`Cut`).
- The attributes that DECSC and DECRC save and restore besides the position
  (`cursor.rs:49-52`): `Meaning` and `Vt` restore the position only, and the pen after a
  restore is outside `TerminalAsAsked`.
