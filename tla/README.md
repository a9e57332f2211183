# TLA+ specifications of tg-vps-bot

The bot is one single-threaded C process that polls Telegram, runs commands on a VPS and answers.
It forks a child for every poll (libcurl) and for every external command (sudo). What is hard about it
is not the commands, most of which read something and format it, but four things around them:

* a **conversation** that spans several messages, clocks and reloads (two-step confirmation);
* a **position** in a stream of updates that must survive lost answers, failed writes and restarts;
* **signals** that arrive between any two instructions of the main loop, and a watchdog that kills it;
* **children** that time out, fill pipes and must be reaped.

Around them stand the parts that work on the host: settings and log, the upload directory, and loops that cut,
filter and count text in fixed buffers. All of these are modelled and checked here; every invariant of the runs is proved.

## Inventory

| Component (source) | State it keeps | Operations | Interacts with | What makes it correct |
|---|---|---|---|---|
| dispatcher, `commands.c` | `g_pending` (one slot) | commands_handle, request_confirmation, handle_confirm | security, TOTP, handlers | a code runs the latest request, once, in time |
| `security.c` | token, its time, failed attempts, block, burst, TTL, chat | issue and validate token, rate limit, chat and text checks | dispatcher, poll loop, reload | guessing is bounded; tokens are used once |
| `totp.c` | none | verify, base32 | dispatcher | accepts the codes of the window and no others |
| `cmd_control.c`, `cmd_services.c` | none | /reboot, /restart, legacy `*_confirm`, /service | dispatcher, lifecycle | what was confirmed happens |
| poll loop, `telegram_poll.c` | last_update_id, g_last_processed_update, the batch | telegram_poll, wait_for_child, process_updates | child, parser, offset, handlers | no update unseen, none twice |
| `telegram_parser.c` | none | keeps text and document messages | poll loop | every other update can be got past |
| `telegram_offset.c` | the offset file | load, save (tmp, fsync, rename) | poll loop, main | a restart continues where the bot was |
| `main.c` | consecutive_errors | the loop: watchdog, shutdown, reload, rotate, poll, sleep | everything | iterations end in time; gives up only in an outage |
| `lifecycle.c` | four flags set by signals | handlers, request, shutdown | main, poll loop, commands | accepted modes stand; signals are not lost |
| `exec.c` | none between calls | run a sudo child with a deadline | services, logs, security commands | true results, no zombie, no leak, ends where it can |
| `config.c` | g_cfg | load, reload | logger, security, commands | what is in force is what the file says |
| `logger.c` | file, early buffer, level | init, log, reopen, close | everything | no line lost in silence, none twice, in order |
| `upload.c`, `cmd_ssconfig.c` | files in UPLOAD_DIR | download, generate pair, list | telegram_http | an incomplete file has a crash or a full disk behind it; pairs fit |
| `telegram.c`, `telegram_http.c` | API base | send, request, download | poll loop, handlers | what is sent is what was written, cut to fit |
| `logs.c`, `logs_filter.c` | none | filter and cut a journal | exec | what is shown is the start of what matches |
| `logstat.c` | none | count and rank the lines of the log | logger's file | numbers agree with the lines |
| `utils.c`, `reply.c` | none | split, join, cut, fence | command handlers | nothing past a buffer, nothing half |
| `system.c`, `users.c`, `services.c`, `cmd_system.c`, `cmd_security.c`, `cmd_help.c`, `metrics.c`, `diagnostics.c` | counters | read and format | dispatcher | formatting |
| `environment.c`, `cli.c` | none | checks and modes before the loop | main | sequential |
| `tools/f2b-wrapper.c` | none | filter arguments, exec | a separate program | sequential |
| systemd (`tg-bot.service`, `sd_notify.h`) | watchdog timer | kill, restart | main loop | |

How they interact: `main.c` calls `telegram_poll()`, which forks, waits, parses, and calls
`commands_handle()` or the upload handler for each update, all in one thread. Signal handlers write flags
that the loop and the wait read. A confirmed command writes the same flags. `config_reload()` changes what
a half-finished confirmation is judged by. The offset file is the only state that survives a restart.

The hazards this leads to, each at its line and with the properties that watch it, are in `PROJECT.json`.

## Modules

| Module | What it is |
|---|---|
| `TwoStep` | what the confirmation protocol promises, without codes, clocks or names; a theorem about it |
| `Confirm` | dispatcher, token, TOTP, legacy commands, rate limiter, reload, restart |
| `MCConfirm` | a small instance of it |
| `ConfirmProofs` | its theorems, among them that it implements `TwoStep` |
| `Poll` | server, poll cycle, update loop, offset file, restarts |
| `PollProofs` | its theorems |
| `MainLoop` | main loop, flags, signal handlers, wait for the child, watchdog |
| `MCMainLoop` | the times of the source as values |
| `MainLoopProofs` | its theorems |
| `Pipes` | what all children share: descriptors, the flag of SIGTERM, children given up |
| `Exec` | exec_command() and its child, two actors and a pipe |
| `PollChild` | a poll cycle and its child: slices, header, data, reaping |
| `Children` | composes the two, with their properties and fairness |
| `ChildrenProofs` | their theorems |
| `Logger` | the log file, the early buffer, reopen |
| `Settings` | configuration, start, reload, rotation, over `Logger` |
| `SettingsProofs` | theorems about both |
| `Files` | uploads and pairs of configurations, step by step |
| `FilesProofs` | its theorems |
| `Text` | the loops that turn a text into another one within a buffer |
| `LogView` | /logs: arguments, filter, line loop |
| `LogStat` | /logstat: counting and ranking |
| `Host`, `MCHost` | `Settings`, `Files` and the last three side by side, and values for them |
| `HostProofs` | theorems about `Text`, `LogView`, `LogStat` and the five together |

A definition named `MutX` is `X` with a plausible slip. No action uses it; it stands before `X` so that `X`
can be replaced by it, to see that a property really depends on the line it is about.

### Confirm

One action is one call of `commands_handle()`, with every call it makes, or a reload, a restart, a second.

| Action | Code |
|---|---|
| RequestGated, RequestService | the gate in commands_handle (`/reboot`, `/restart`); cmd_service_v2 calling commands_request_confirm |
| ConfirmNothingPending, ConfirmRejected | handle_confirm without a live slot; with a wrong code, which empties the slot |
| ConfirmRuns, ConfirmAsksAgain, ConfirmUsage | handle_confirm with a right code, and the handler it calls: shutdown request; second call of /service; usage |
| LegacyRejected, LegacyRuns | `/reboot_confirm`, `/restart_confirm` |
| AnswerOnly, Throttled | texts that only count for the rate limiter; texts it refuses |
| Reload, Restart, Tick | config_reload(); process restart; the clock |

Abstractions. A token is any number up to `MaxToken`: `make_token()` mixes a salt, so any value may come.
The TOTP algorithm is a constant operator from time step to code. Arguments are model values; what matters of
them is whether they fit the slot (`LongArgs`) and whether /service reads them as a change (`ChangeArgs`).
There is one chat: other chats never get here (see Poll). The reads of the clock in one call agree, and the
clock does not go back.

History variables (`asked`, `lastAsk`, `accepted`, `runs`, `misses`, `examined`, ...) are written beside the
code's own state and read by properties and bounds only.

### Poll

`posted` and `confirmed` are Telegram's; `offsetFile`, `nextOffset`, `lastProcessed`, `batch` are
`TG_OFFSET_FILE`, `last_update_id`, `g_last_processed_update` and the parsed updates. A cycle is one step
(the loop stands still during it): it receives an answer, an answer that ignored the offset
(`PollReceivesStale`), or nothing, where the request may or may not have arrived (`PollFails`). `Take` moves
memory and file past an update, as the code does *before* it looks at it; `Handle` is the return of the
handler; `Restart` may come between any two steps. A save succeeds, keeps the old file, or leaves an empty
one: the result of `fprintf` is not looked at before the rename.

An update is a `command` of the allowed chat (a document counts as one), `refused` (foreign chat, control
characters), or `other`, which the parser drops. Updates are numbered without gaps.

### MainLoop

`pc` is where the main thread is, at the resolution at which a signal makes a difference: between the test of
a flag, the work, and the clearing; between the check and the assignment in `lifecycle_request_shutdown()`;
between two slices of the wait. `SigTerm`, `SigHup`, `SigUsr1` may come at each of them. `reloadOwed` and
`rotateOwed` say whether the file was read or opened since the last signal. Seconds are added to `sincePing`
by the step that takes them, chosen from `PollTimes` and `UpdateTimes`; `WatchdogKill` may come once it
passes `WatchdogSec`. Between setting `g_signal_received` and the mode a handler finds the flag set and
returns, so the two assignments are one step.

### Exec, PollChild, Children

Two actors each: the bot and the child. `pc` and `cpc` say where the bot is; one of them is always `"idle"`, since
one thread runs both. Children write, stall, close, exit or are killed when they like.

| Action | Code |
|---|---|
| ExecPipeFails, ExecForkFails, ExecFdopenFails, ExecStarts | the start of exec_command_internal() and its error paths |
| SelectReady, TimesOut, SelectFails | one turn of the read loop, up to fgets() |
| FgetsFills, FgetsLine, FgetsEof | fgets() on a FILE: it reads all that is in the pipe and returns one line, so that lines wait where select() does not see them |
| Kill, KilledReaped, Reaped, Return | SIGKILL after the grace period, waitpid(), classification |
| SigTermExec, SigTermPoll | SIGTERM to the bot: installed without SA_RESTART, it ends a blocked read or waitpid() |
| PollPipeFails, PollForkFails, PollStarts | the start of telegram_poll() |
| WaitReady, SliceExpires, WaitInterrupted, WaitStops, WaitTimesOut, WaitFails | wait_for_child(); the last three kill and reap |
| ReadHeader, NoHeader, ReadData, DataEnds | read_pipe_data() |
| Collected, PollReturns | waitpid() and the result |
| Kid*, Child* | what a child may do |

Abstractions. Output is characters and newlines; an answer is a header and pieces of data, as many as the pipe
holds or more. Time is counted in the 100 ms of the grace period and passes where the bot is blocked. Whether
kill() is permitted is chosen per child: sudo's child is root's, the poll child never is.

### Logger, Settings

Lines are numbers in the order they pass the level filter; `disk` is the content of every file ever created, `dir` where a
path leads now. So a rotated file that the bot still holds open is a file like any other. `logger_init(path, rc)` and
`logger_reopen(path, rc)` are the functions, `rc` the result chosen; `ConfigLoads`, `Reload`, `Rotates` call them.
`Apply` is one turn of config_load()'s loop, `Load` the whole. `Rotates` and `RotateCleared` are two
steps because a signal between them is lost (run `main_rotate`).
`source`, `refused`, `missed`, `renewed` are history: the file in use, and why the log may not be the configured one.

### Files

Each handler is cut where a crash would show: `UploadOpens` has emptied the destination, `TempWritten` has closed the
temporary file, `Renamed` has put it in place. A file remembers the run that wrote it and how much is there.
`unflushed` are the runs whose fclose() lost data, `clashed` the seconds in which a second pair was begun.

### Text, LogView, LogStat

One turn of a loop is one action; what the loop should come to is said without the loop in the property. Characters
are classes (back tick, space, dot, ...), a line of a journal is a kind, a length and the words in it, a line
of the log what stands at the offsets the extractors read. `count_newlines` is modelled at the level of bits: which
bytes of a block of 16 the mask of the SSE4.2 pass lets through.

## Runs

| Run | Shows |
|---|---|
| `confirm` (MCConfirm, 769,424 states) | `TypeOK`; `ImplementsTwoStep`; `OncePerRequest`; `FreshConfirmation`; `SlotRunsLastRequest`; `GuessRateBounded`; `CodesPerSecond` |
| `poll` (164,395 states) | `TypeOK`; `NothingForgotten`; `OncePerRun`; `OnceAcrossRestarts`; `LossBounded`; liveness `UpdatesReached` |
| `main_loop` (50,256 states) | `TypeOK`; `AcceptedModeKept`; `StopNotOverruled`; `SignalsNotLost`; `GiveUpMeansOutage`; `IdleIterationFits`; liveness `ShutdownHappens` |
| `children` (240,876 states) | `TypeOK`; `VerdictTruthful`; `OutputFaithful`; `OverrunNamed`; `NoChildLeft`; `DescriptorsBalanced`; `AnswerWhole`; liveness `CallsReturn`, `CyclesEnd` |
| `host` (MCHost, 385,664 states) | `HostTypeOK`; settings: `LinesKept`, `LinesOrdered`, `ConfigAsWritten`, `LogFollowsConfig`, `SettingsInForce`; files: `PartialExplained`, `PairWhole`; `TextsRight`; `ViewFaithful`; `StatsConsistent` |
| `confirm_service`, `confirm_cancelled`, `poll_duplicates`, `poll_dropped`, `main_watchdog`, `main_rotate`, `logstat` | one statement of the repository each that the code does not keep |

### Bounds

*confirm.* Two tokens, so that a guess can be right, wrong or malformed (a third value). Two failed attempts
open a block of two seconds, and the clock runs three, so that a block opens, holds and ends. A burst of two,
so that the limiter refuses. Two requests, so that one replaces another and two credentials coexist. TTL one
second by default, two after a reload, and an out-of-range value: requests expire and reloads lengthen or
shorten them. One argument fits the slot and one does not.
*poll.* Four updates in batches of two: two answers, and a batch full of dropped updates with one behind it.
Two restarts: one that loses and one that repeats.
*main_loop.* The limits of the source (5 errors, 5 s, 60 s, polls of 0 or 38 s, replies of 0 or 35 s), three
updates per batch, two signals of each kind: one to be worked on, one to come in between.
*children.* A timeout of two ticks and a clock of four, so that calls end before, at and after it. Buffers of none, one
byte (full at once) and three (full after two characters); up to three characters of output, so that a line is split
by the buffer. Answers of up to two pieces and a pipe of two, so that a child blocks. Three
descriptors: one leak leaves room for one more pipe, two leaks for none. One child may be given up, one signal
interrupts a wait.
*host.* Settings: an early buffer of one line and three lines, so that it overflows; two paths, four files ever created; two
starts, so that a file is appended to; one edit. For `--parse` every file of two lines out of twelve after the required ones. Files: three
runs in three seconds, so that a pair meets another one of its second and what a crash left. Text: every
text of up to four to eight characters at buffers around the limits of each loop; escape with dots and backslashes in
the text, three arguments at most, so that two are joined for the handler and a fourth is refused. LogView: every journal of up to three lines
at a response that holds between none and three. LogStat: every log of up to three lines; a line has up to 48 bytes, so that
blocks of 16 begin anywhere in it, and three pass the limit of 100. The five parts share no state, and a behaviour of `Host` is one part's.
Every bound is a constant; the theorems hold for all of their values.

Deadlock is not checked: descriptors, children, settings and files come to an end of their bounds; in Confirm the clock and the requests are bounded, in Poll the updates and restarts
are, and the main loop ends.

### Fairness

*Poll.* Weak fairness of the update loop: handlers return (their children have deadlines). Strong fairness of
`PollReceives`: the main loop polls again and again, and of infinitely many polls some are answered. None
for `Restart`, `PollFails`, saves.
*MainLoop.* Weak fairness of the main thread. Strong fairness of the end of the wait: it is counted down in
slices, and a child that answers or a deadline that passes ends it; without it the loop could be seen
to wait for ever in slices.
*Children.* Weak fairness of the bot's thread in a call and in a cycle, of time where it is blocked, and of the poll child
once its request is over (it only writes and exits). None for commands, for the request itself, for signals and errors.

### What the repository says and the code does not do

* `confirm_service`: `commands.h` and `architecture.md` say that the second call of /service executes. It asks
  again, with a new prompt, every time.
* `confirm_cancelled`: a command announced as cancelled can be confirmed by its legacy form with the token of the
  request that replaced it.
* `poll_duplicates`: "no duplicate messages". A save that fails unnoticed, then a restart, repeats an update.
  `OnceAcrossRestarts` says exactly when there are none.
* `poll_dropped`: "skip this update". A dropped update that is the newest is never confirmed and comes back in
  every poll; `UpdatesReached` says what is reached nevertheless.
* `main_watchdog`: an iteration "fits easily" in the watchdog's time. Replies and the wait for the child do not count
  in that sum; `IdleIterationFits` is what does hold.
* `main_rotate`: SIGUSR1 is not to be lost in silence. It is when it comes between the opening of the log and the
  clearing of the flag; `SignalsNotLost` names the window.
* `logstat`: "one newline found" in every block that has one. The count takes two of sixteen bits: newlines at other offsets
  are not counted. `StatsConsistent` is what holds: everything but that number.

Met on the way and not made a run:

* `exec.c:207-214` and `357-359` promise "exactly timeout_ms" and a waitpid() that returns at once; `OverrunNamed` has the three
  exceptions. `telegram_poll.c:630-633` says the same of waitpid(); `CyclesEnd` has the one exception. The
  "...truncated..." mark of `exec.c:429-431` appears only for output with a zero byte.
* `telegram.c:48-50` "Text is truncated to Telegram limits": a text of 4096 bytes or more is not copied, and what the buffer held before
  is sent (`Sends`); replies may have 8192. The message is not URL-encoded: an ampersand ends it.
* `architecture.md:536-537` has the backslash among the "special chars that must be escaped", and `telegram_escape_markdown()` is
  what it says to escape with; the characters of `telegram_parser.c:258` do not include it. `Escape` copies it as it is: a text
  that ends in one leaves it alone at the end, and one before a dot becomes `\\.` with the dot left special. `TextsRight` says
  what remains true: no special character without a backslash right before it, and no cut between the two.
* `cmd_ssconfig.c:218` "no collision": two runs in one second collide (`PairWhole`).
* CLOAK_SS_CONFIG and CLOAK_CK_CONFIG too long, "using default": the previous line's value stays. A TOKEN_TTL above the
  maximum is logged as the configuration and not in force (`SettingsInForce`).
* /logs: the error texts and the menu of logs_get() never reach the user; a "." in a filter is refused before; several
  keywords cannot be given, sscanf() splits them; a first argument that is a text is dropped when a second one is there; the
  semantic word "ip" is shorter than the least filter; a line that does not fit ends the list without a mark.
* `logstat.c:295` "line_len is always > 0" does not hold for empty lines; the share of a tag may pass 100 percent, since lines
  are counted too low.
* Answers of handlers for which commands_handle() returns -1 ("Too many arguments", "Unknown command") are never sent.

A code that is not a number does not clear the slot, although the comment of
`handle_confirm()` says that failure does (`commands.c:285`); arguments too long for the slot leave those of an
earlier request in it (`commands.c:207`); `graceful_shutdown()` logs that it saves the offset and does not
(nothing is lost, every update is saved when taken).

## Proofs

All theorems are checked by TLAPS (SMT, Zenon, LS4), for all values of the constants that satisfy the named
assumptions (`ConstantsOK` of each module). TLC evaluates those on every passing run.

*TwoStep.* `BudgetHolds`: acceptances plus live credentials never exceed two per request. Inductive as it stands,
with types.

*Confirm.* `TypeCorrect` carries the ranges of the counters. The rest goes by **step shapes**: `StepShape` shows
that every action is one of five effects on credentials (a request, a withdrawal, a change of method, an acceptance of
the slot, an acceptance of the token), and each invariant is then proved for five cases instead of sixteen. The
inductive invariant `CredentialInv` adds to the type that a live slot belongs to the last request (`SlotInv`), that a
live token belongs to a request and was issued no later than the last one (`TokenInv`), and the counting
(`OnceInv`, which also says that in TOTP mode no token is live unless the method was switched). From it follow `AtMostOncePerRequest`, `LatestRequestRuns`, `ConfirmationIsFresh`, the refinement
`Implementation`, and through it `BudgetOfTheBot`. `CodesAreRateLimited` needs `RateInv`: in the current second
no more codes were examined than the burst counter counted. `GuessesAreBounded` needs `GuessInv`, which relates the
window of remembered failures to the counter and to the end of the block: the failure before the current
series is the one that opened the last block.

*Poll.* `NothingIsForgotten` needs `PositionInv`: everything before any offset (in memory, on disk, confirmed) was
taken or is dropped by the parser, and the batch continues without a gap. `OnceInARun` needs that handled updates
are not after `g_last_processed_update`; `OnceOverall` needs, while saves succeed and offsets are honoured, that the
file's offset is past everything handled and the batch holds nothing before it (`FileInv`). `LossIsBounded` counts a finite set: only
`Restart` adds to it, and at most the update whose handler was running.

*MainLoop.* `TypeCorrect` is split by what steps touch. `ModeIsKept` and `StopIsKept` rest on: a mode other than stop
implies that a signal was received, and a waiting request implies stop (`ModeInv`). `GivingUpMeansOutage` on: failed polls are at least the counted errors.
`IdleFits` on `ClockInv`, under the assumption that one poll and the sleep after an error fit the watchdog's
time, which the constants of the source do (38 + 5 <= 60).

*Children.* `ChildrenInvariant` proves one conjunction inductive and the six properties follow from it. `ExecInv` says for each
place of a call what is known of child, pipe and clock (where the bot waits for a child and why; a verdict set before the kill;
nothing left at rest). `Stream` says that what was captured, what the FILE holds and what is in the pipe are together what the
child wrote: `OutputFaithful` needs it, for `out` alone is not inductive. `Handed` says it at the end of a call.
`PollInv` relates `sent`, `got`, `kidLen` and the place of the cycle.

*Settings.* `SettingsInvariant` carries where every line is. `LinesOrdered` is not inductive: a replay
appends the buffer to a file, so the invariant says that buffer and open file are ordered against each other
(`EarlyOrOpen`, `FilesOlder`), that no line is ahead of the counter (`NoneAhead`) and that files are apart
(`Apart`). `LogFollowsConfig` needs what is known between reopen and clearing of the flag (`Rotating`).
`SettingsTypes` adds that the early buffer stays within its size.

*config_load().* `LoadMeaning` says for every file, of any length, what the loop over its lines comes to: it is refused when
a required key is bad or missing, and otherwise each key has the value of its last line or its default. `ConfigAsWrittenAlways`
follows with `FromFile`: a configuration in use is the one of its file. The
theorem is about a fold, that is, about a function chosen by its recursive equation. Induction is over a set: the library's
`NatLessThanWellFounded` gives every non-empty set of numbers a least element (`LeastNumber`), so that a set that holds 0 and
with each number the next one holds all of them (`Induction`). With it `FoldExists` shows that a function as the fold
asks for exists, `LoadScan` that the fold is its last value, and `PrefixStep` what one more line does to it. The proof
met a slip of the model: the guards of the CASE in `Apply` overlapped (a bad value of a rejected configuration fell under several), and CASE does not
take them in order as TLC does. They are disjoint now.

*Files.* `FilesInvariant`: files of later seconds do not exist yet (`Dated`), files belong to runs that
were (`OwnFiles`), and what the current handler has written so far is as its place says (`PairSoFar`).

*LogView.* `ViewFaithful` says something of an answer only, so `ViewInvariant` adds what holds while lines are gone through
(`Progress`): shown is exactly what was to be shown and came before the current line, in order. One part of it is easily
missed: "no match" must not be said after a cut, and the cut comes before the match in the code. It
cannot, since as long as nothing matched the response holds the header and the reboot markers only, and these are too
few to reach the cap (`LogViewConstantsOK`: 200 markers of 16 bytes do not).

*LogStat.* `Tally` relates every counter to the number of its lines before the current one, `SortSoFar` is the invariant
of an exchange sort: a permutation, sorted before `si`, with the greatest of the rest so far at `si`. `Stages` carries
the result of one stage to the next, and the count of newlines, which is never above the real one. `NewlinesFew` proves that for
any text: the mask lets a subset of them through.

*Text.* `TextInvariant` has one invariant per loop and `TextsRight` follows at the end of each. Names and messages are
direct. Escapes, lists and arguments relate the buffer to the prefix read so far; for `FlattenSeq` that needs `FlatScan`
(it is the last of a series that grows by one piece, by `Induction`) and for the joining of arguments
`JoinScan`. That no argument is cut when the whole fits needs a bound on the words found, with
their separators, by the position (`ArgsSoFar`). `EscapeMarked` is what a cut must not break: a special
character and its backslash come into the buffer in one step (`MarkedNext`). The code block is the hard one. That no fence is left inside needs what
the last two characters written can be (`TickTail`): the loop looks ahead for three back ticks, so two of them at the end of
the block are the end of a run. That a text that fits is there whole, with exactly the first 3n back ticks of each
run masked, needs that the loop only ever stands at a multiple of three in a run or behind its masked part (`Aligned`);
`FenceMasked` and `OtherCopied` are the two steps of that argument.

*Host.* `HostParts`: every behaviour of the host is, for each part, one that its own specification allows. So the theorems of
the parts carry over, and `HostTypes` and `HostSafe` state all of the run's invariants of `HostSpec`.

Only model-checked: the liveness properties (`UpdatesReached`, `ShutdownHappens`, `CallsReturn`, `CyclesEnd`), which
rest on fairness and ENABLED and are beyond this prover; and the seven disagreements, each of which is one counterexample. The
histories that a run bounds (requests, edits, updates) are bounded in the theorems too, by constants of any size.

## Not modelled, and why

* Formatting, metrics, diagnostics and what is read from /proc, utmp and systemctl: no state that anything depends on; the
  loops that could go wrong in them are those of `Text`.
* HMAC-SHA1 and base32 (`totp.c`): arithmetic of bytes with published test vectors; an abstract function here.
* Environment checks, and the command-line modes other than `--parse`: sequential, before the loop.
* `/fail2ban`, `/sshkeys` and the fail2ban wrapper: tests of one string followed by an external command (`Exec`).
* Parsing of JSON, getFile and the source files of /ssconfig: a value is there or not.
* libcurl, cJSON, sudo, journalctl, logrotate and systemd: external, by what the code relies on.
* Mirroring of the log to a terminal; time stamps.
* A failed write while the early buffer is replayed (`logger.c:192-195`): those lines were already on stderr.
* An upload under the name of a file of /ssconfig: `Files` keeps the two kinds of names apart.
* What an upload replaces: `PartialExplained` says when a file is left incomplete, not that the older one of its name is gone
  from the moment of `UploadOpens` on. Likewise `SettingsInForce` does not forbid the two tokens in use after a reload
  that changes the token, it names them (`renewed`) and excludes any other divergence.

## Plan

Done, in this order: `TwoStep`, `Confirm`, `Poll`, `MainLoop`; `Exec` and `PollChild` with `Children`; `Logger` and `Settings`; `Files`;
`Text`, `LogView`, `LogStat`; and the proofs of all of them.

What would come next:

1. A composition of Confirm, Poll and MainLoop: a confirmed shutdown through the batch, the flags, the restart and the
   redelivery of updates, for what only shows when they meet.
2. An abstract log (a sequence of lines, none lost in silence) that `Settings` implements, in place of `LinesKept` and
   `LinesOrdered`.
3. Base32 and the windows of `totp.c` at the level of bits, as recursive functions against a reference definition.
