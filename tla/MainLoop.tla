------------------------------ MODULE MainLoop ------------------------------
(***************************************************************************)
(* The process around the bot: the main loop of main.c, the flags and      *)
(* handlers of lifecycle.c, which signals set between any two steps of the *)
(* loop, the wait of telegram_poll.c that a signal interrupts, and the     *)
(* watchdog of systemd.                                                    *)
(*                                                                         *)
(* A step ends where a signal makes a difference: at the flags.  Time is   *)
(* counted per iteration: sincePing adds up what the steps since the last  *)
(* sd_notify_watchdog() took.                                              *)
(*                                                                         *)
(* A definition named MutX is X with a plausible slip; no action uses it.  *)
(***************************************************************************)
EXTENDS Integers

CONSTANTS
  MaxErrors,    \* MAIN_MAX_CONSECUTIVE_ERRORS (5)
  ErrorSleep,   \* MAIN_POLL_ERROR_SLEEP_SEC (5)
  WatchdogSec,  \* WatchdogSec= of the unit (60)
  PollTimes,    \* seconds telegram_poll() may wait (up to TG_CHILD_WAIT_TIMEOUT_MS)
  UpdateTimes,  \* seconds of a handler and its reply (up to TG_HTTP_TIMEOUT_SEC each)
  MaxBatch,     \* bound of the updates in one answer
  MaxSignals    \* bound of the signals of each kind

ASSUME ConstantsOK ==
  /\ MaxErrors \in Nat \ {0} /\ ErrorSleep \in Nat /\ WatchdogSec \in Nat
  /\ PollTimes \subseteq Nat /\ UpdateTimes \subseteq Nat
  /\ MaxBatch \in Nat /\ MaxSignals \in Nat

VARIABLES
  pc,             \* where the main thread is
  signalReceived, \* g_signal_received
  mode,           \* g_shutdown_requested
  reloadFlag,     \* g_reload_config
  rotateFlag,     \* g_rotate_log
  errors,         \* consecutive_errors
  left,           \* updates of the batch not processed yet
  request,        \* mode lifecycle_request_shutdown() is about to record, or NoRequest
  sincePing       \* seconds since the last watchdog notification

\* What the properties need to know about the past.
VARIABLES
  hups, usrs,     \* signals received so far
  reloadOwed,     \* a SIGHUP came and the configuration was not read since
  rotateOwed,     \* a SIGUSR1 came and the log was not opened since
  reloadLate,     \* a SIGHUP came after the file was read, before the clearing
  rotateLate,     \* the same for SIGUSR1
  failedPolls,    \* polls since the last that succeeded
  worked,         \* an update was processed in this iteration
  outcome         \* how the process ended

signalVars == <<hups, usrs, reloadOwed, rotateOwed, reloadLate, rotateLate>>
flagVars == <<reloadFlag, rotateFlag, signalVars>>
shutdownVars == <<signalReceived, mode>>
vars == <<pc, errors, left, request, sincePing, failedPolls, worked, outcome,
          flagVars, shutdownVars>>

----------------------------------------------------------------------------
SHUTDOWN_STOP == 0
SHUTDOWN_RESTART == 1
SHUTDOWN_REBOOT == 2
Modes == {SHUTDOWN_STOP, SHUTDOWN_RESTART, SHUTDOWN_REBOOT}
NoRequest == -1

Places == {"top", "reload?", "reloading", "rotate?", "rotating", "poll", "waiting",
           "batch", "request", "failed", "pause", "shutdown", "gone"}

Alive == pc # "gone"

\* lifecycle_shutdown_requested()
MutShutdownRequested == mode # SHUTDOWN_STOP
ShutdownRequested == mode # SHUTDOWN_STOP \/ signalReceived

Goto(place) == pc' = place

----------------------------------------------------------------------------
(* Signal handlers, between any two steps of the main thread *)

\* handle_sigterm(), for SIGTERM and SIGINT.
MutSigTerm ==
  /\ Alive
  /\ signalReceived' = TRUE
  /\ mode' = SHUTDOWN_STOP
  /\ UNCHANGED <<pc, errors, left, request, sincePing, failedPolls, worked, outcome, flagVars>>
SigTerm ==
  /\ Alive
  /\ ~signalReceived
  /\ signalReceived' = TRUE
  /\ mode' = SHUTDOWN_STOP
  /\ UNCHANGED <<pc, errors, left, request, sincePing, failedPolls, worked, outcome, flagVars>>

\* handle_sighup()
SigHup ==
  /\ Alive /\ hups < MaxSignals
  /\ hups' = hups + 1
  /\ reloadFlag' = TRUE
  /\ reloadOwed' = TRUE /\ reloadLate' = (reloadLate \/ pc = "reloading")
  /\ UNCHANGED <<pc, errors, left, request, sincePing, failedPolls, worked, outcome,
                 shutdownVars, rotateFlag, usrs, rotateOwed, rotateLate>>

\* handle_sigusr1()
SigUsr1 ==
  /\ Alive /\ usrs < MaxSignals
  /\ usrs' = usrs + 1
  /\ rotateFlag' = TRUE
  /\ rotateOwed' = TRUE /\ rotateLate' = (rotateLate \/ pc = "rotating")
  /\ UNCHANGED <<pc, errors, left, request, sincePing, failedPolls, worked, outcome,
                 shutdownVars, reloadFlag, hups, reloadOwed, reloadLate>>

----------------------------------------------------------------------------
(* The main loop *)

\* An iteration begins: the watchdog is notified, then the shutdown flags
\* are looked at.
MutTopPing ==
  /\ pc = "top"
  /\ sincePing' = (IF errors = 0 THEN 0 ELSE sincePing) /\ worked' = FALSE
  /\ Goto(IF ShutdownRequested THEN "shutdown" ELSE "reload?")
  /\ UNCHANGED <<errors, left, request, failedPolls, outcome, flagVars, shutdownVars>>
Top ==
  /\ pc = "top"
  /\ sincePing' = 0 /\ worked' = FALSE
  /\ Goto(IF ShutdownRequested THEN "shutdown" ELSE "reload?")
  /\ UNCHANGED <<errors, left, request, failedPolls, outcome, flagVars, shutdownVars>>

\* config_reload() when its flag is set, as far as the reading of the file.
CheckReload ==
  /\ pc = "reload?"
  /\ IF reloadFlag THEN Goto("reloading") /\ reloadOwed' = FALSE
     ELSE Goto("rotate?") /\ UNCHANGED reloadOwed
  /\ UNCHANGED <<errors, left, request, sincePing, failedPolls, worked, outcome, shutdownVars,
                 reloadFlag, rotateFlag, hups, usrs, rotateOwed, reloadLate, rotateLate>>

\* It returns, with or without a new configuration: lifecycle_clear_reload().
MutReloaded ==
  /\ pc = "reloading"
  /\ reloadFlag' = FALSE /\ rotateFlag' = FALSE
  /\ Goto("rotate?")
  /\ UNCHANGED <<errors, left, request, sincePing, failedPolls, worked, outcome, shutdownVars,
                 signalVars>>
Reloaded ==
  /\ pc = "reloading"
  /\ reloadFlag' = FALSE
  /\ Goto("rotate?")
  /\ UNCHANGED <<errors, left, request, sincePing, failedPolls, worked, outcome, shutdownVars,
                 rotateFlag, signalVars>>

\* logger_reopen() as far as the opening of the file, and its end with
\* lifecycle_clear_rotate().
CheckRotate ==
  /\ pc = "rotate?"
  /\ IF rotateFlag THEN Goto("rotating") /\ rotateOwed' = FALSE
     ELSE Goto("poll") /\ UNCHANGED rotateOwed
  /\ UNCHANGED <<errors, left, request, sincePing, failedPolls, worked, outcome, shutdownVars,
                 reloadFlag, rotateFlag, hups, usrs, reloadOwed, reloadLate, rotateLate>>

Rotated ==
  /\ pc = "rotating"
  /\ rotateFlag' = FALSE
  /\ Goto("poll")
  /\ UNCHANGED <<errors, left, request, sincePing, failedPolls, worked, outcome, shutdownVars,
                 reloadFlag, signalVars>>

\* telegram_poll() returns an error after some seconds.
PollFailed(seconds) ==
  /\ Goto("failed")
  /\ sincePing' = sincePing + seconds
  /\ UNCHANGED <<errors, left, request, failedPolls, worked, outcome, flagVars, shutdownVars>>

\* No pipe or no child; or wait_for_child() sees the shutdown flags.
PollAborts(seconds) == pc = "poll" /\ PollFailed(seconds)

\* wait_for_child() looks at the flags, then waits for a slice.
Wait ==
  /\ pc = "poll" /\ ~ShutdownRequested
  /\ Goto("waiting")
  /\ UNCHANGED <<errors, left, request, sincePing, failedPolls, worked, outcome, flagVars,
                 shutdownVars>>

\* The slice ends without an answer, or a signal interrupts it.
WaitAgain ==
  /\ pc = "waiting"
  /\ Goto("poll")
  /\ UNCHANGED <<errors, left, request, sincePing, failedPolls, worked, outcome, flagVars,
                 shutdownVars>>

\* The time is up, the pipe breaks, or the child reports an HTTP error.
PollTimesOut(seconds) == pc = "waiting" /\ PollFailed(seconds)

\* The child delivers an answer with some updates; an unreadable answer
\* counts as one without updates.
Answered(seconds, updates) ==
  /\ pc = "waiting"
  /\ Goto("batch")
  /\ left' = updates
  /\ sincePing' = sincePing + seconds
  /\ UNCHANGED <<errors, request, failedPolls, worked, outcome, flagVars, shutdownVars>>

\* An update is handled and answered; the rest of the batch follows even
\* when a shutdown was requested.
HandleUpdate(seconds) ==
  /\ pc = "batch" /\ left > 0
  /\ left' = left - 1
  /\ sincePing' = sincePing + seconds /\ worked' = TRUE
  /\ UNCHANGED <<pc, errors, request, failedPolls, outcome, flagVars, shutdownVars>>

\* A confirmed /reboot or /restart: lifecycle_request_shutdown() returns when
\* something was requested before.
MutHandleShutdownCommand(wanted, seconds) ==
  /\ pc = "batch" /\ left > 0
  /\ left' = left - 1
  /\ sincePing' = sincePing + seconds /\ worked' = TRUE
  /\ Goto("request") /\ request' = wanted
  /\ UNCHANGED <<errors, failedPolls, outcome, flagVars, shutdownVars>>
HandleShutdownCommand(wanted, seconds) ==
  /\ pc = "batch" /\ left > 0
  /\ left' = left - 1
  /\ sincePing' = sincePing + seconds /\ worked' = TRUE
  /\ IF signalReceived THEN UNCHANGED <<pc, request>>
     ELSE Goto("request") /\ request' = wanted
  /\ UNCHANGED <<errors, failedPolls, outcome, flagVars, shutdownVars>>

\* Otherwise it records the request: after its check, so that it overrules a
\* signal that came in between.
RecordRequest ==
  /\ pc = "request"
  /\ signalReceived' = TRUE
  /\ mode' = request
  /\ request' = NoRequest
  /\ Goto("batch")
  /\ UNCHANGED <<errors, left, sincePing, failedPolls, worked, outcome, flagVars>>

MutPollSucceeded ==
  /\ pc = "batch" /\ left = 0
  /\ failedPolls' = 0
  /\ Goto("pause")
  /\ UNCHANGED <<errors, left, request, sincePing, worked, outcome, flagVars, shutdownVars>>
PollSucceeded ==
  /\ pc = "batch" /\ left = 0
  /\ errors' = 0 /\ failedPolls' = 0
  /\ Goto("pause")
  /\ UNCHANGED <<left, request, sincePing, worked, outcome, flagVars, shutdownVars>>

\* A failed poll with a shutdown requested.
FailedShutdown ==
  /\ pc = "failed" /\ ShutdownRequested
  /\ Goto("shutdown")
  /\ UNCHANGED <<errors, left, request, sincePing, failedPolls, worked, outcome, flagVars,
                 shutdownVars>>

\* A failed poll, one of not too many in a row: the loop sleeps, a signal may
\* cut the sleep short.
MutFailedRetry(seconds) ==
  /\ pc = "failed" /\ ~ShutdownRequested
  /\ errors' = errors + 1 /\ failedPolls' = failedPolls + 1
  /\ errors' <= MaxErrors
  /\ sincePing' = sincePing + seconds
  /\ Goto("pause")
  /\ UNCHANGED <<left, request, worked, outcome, flagVars, shutdownVars>>
FailedRetry(seconds) ==
  /\ pc = "failed" /\ ~ShutdownRequested
  /\ errors' = errors + 1 /\ failedPolls' = failedPolls + 1
  /\ errors' < MaxErrors
  /\ sincePing' = sincePing + seconds
  /\ Goto("pause")
  /\ UNCHANGED <<left, request, worked, outcome, flagVars, shutdownVars>>

\* One too many: the bot stops itself.
GiveUp ==
  /\ pc = "failed" /\ ~ShutdownRequested
  /\ errors' = errors + 1 /\ failedPolls' = failedPolls + 1
  /\ errors' >= MaxErrors
  /\ signalReceived' = TRUE /\ mode' = SHUTDOWN_STOP
  /\ Goto("shutdown")
  /\ outcome' = "gave up"
  /\ UNCHANGED <<left, request, sincePing, worked, flagVars>>

\* usleep() between two iterations.
Pause ==
  /\ pc = "pause"
  /\ Goto("top")
  /\ UNCHANGED <<errors, left, request, sincePing, failedPolls, worked, outcome, flagVars,
                 shutdownVars>>

\* lifecycle_handle_shutdown(): exit, or exec of sudo, which may fail; the
\* process ends in each case.
HandleShutdown ==
  /\ pc = "shutdown"
  /\ Goto("gone")
  /\ IF mode = SHUTDOWN_STOP
     THEN outcome' = IF outcome = "gave up" THEN outcome ELSE "stopped"
     ELSE outcome' \in {IF mode = SHUTDOWN_REBOOT THEN "rebooted" ELSE "restarted", "exec failed"}
  /\ UNCHANGED <<errors, left, request, sincePing, failedPolls, worked, flagVars, shutdownVars>>

\* systemd kills a bot that did not notify the watchdog in time.
WatchdogKill ==
  /\ Alive /\ sincePing > WatchdogSec
  /\ Goto("gone")
  /\ outcome' = "killed"
  /\ UNCHANGED <<errors, left, request, sincePing, failedPolls, worked, flagVars, shutdownVars>>

----------------------------------------------------------------------------
Init ==
  /\ pc = "top" /\ signalReceived = FALSE /\ mode = SHUTDOWN_STOP
  /\ reloadFlag = FALSE /\ rotateFlag = FALSE
  /\ errors = 0 /\ left = 0 /\ request = NoRequest /\ sincePing = 0
  /\ hups = 0 /\ usrs = 0 /\ reloadOwed = FALSE /\ rotateOwed = FALSE
  /\ reloadLate = FALSE /\ rotateLate = FALSE
  /\ failedPolls = 0 /\ worked = FALSE /\ outcome = "running"

Signals == SigTerm \/ SigHup \/ SigUsr1

MainThread ==
  \/ Top \/ CheckReload \/ Reloaded \/ CheckRotate \/ Rotated
  \/ Wait \/ WaitAgain
  \/ \E seconds \in PollTimes :
        \/ PollAborts(seconds)
        \/ PollTimesOut(seconds)
        \/ \E updates \in 0..MaxBatch : Answered(seconds, updates)
  \/ \E seconds \in UpdateTimes :
        \/ HandleUpdate(seconds)
        \/ \E wanted \in {SHUTDOWN_RESTART, SHUTDOWN_REBOOT} :
              HandleShutdownCommand(wanted, seconds)
  \/ RecordRequest \/ PollSucceeded
  \/ FailedShutdown
  \/ \E seconds \in {0, ErrorSleep} : FailedRetry(seconds)
  \/ GiveUp \/ Pause \/ HandleShutdown

Next == Signals \/ MainThread \/ WatchdogKill

Spec == Init /\ [][Next]_vars

\* The main thread runs, and no wait for the child lasts for ever.
FairSpec ==
  /\ Spec
  /\ WF_vars(MainThread)
  /\ SF_vars(\E seconds \in PollTimes :
               \/ PollTimesOut(seconds)
               \/ \E updates \in 0..MaxBatch : Answered(seconds, updates))

----------------------------------------------------------------------------
(* Properties *)

TypeOK ==
  /\ pc \in Places
  /\ signalReceived \in BOOLEAN /\ mode \in Modes
  /\ reloadFlag \in BOOLEAN /\ rotateFlag \in BOOLEAN
  /\ errors \in 0..MaxErrors
  /\ left \in 0..MaxBatch
  /\ request \in {NoRequest, SHUTDOWN_RESTART, SHUTDOWN_REBOOT}
  /\ sincePing \in Nat
  /\ hups \in 0..MaxSignals /\ usrs \in 0..MaxSignals
  /\ reloadOwed \in BOOLEAN /\ rotateOwed \in BOOLEAN
  /\ reloadLate \in BOOLEAN /\ rotateLate \in BOOLEAN
  /\ failedPolls \in Nat /\ worked \in BOOLEAN
  /\ outcome \in {"running", "gave up", "stopped", "restarted", "rebooted", "exec failed",
                  "killed"}

\* A reboot or restart that was accepted is not turned into a stop by a
\* SIGTERM, wherever the main thread is when it arrives.
AcceptedModeKept == [][mode # SHUTDOWN_STOP => mode' = mode]_vars

\* A SIGTERM is not overruled by a command whose handler starts after it;
\* only a command that had passed its check already overrules it.
StopNotOverruled ==
  [][ /\ signalReceived /\ mode = SHUTDOWN_STOP /\ mode' # mode => request # NoRequest
      /\ signalReceived /\ request = NoRequest => request' = NoRequest ]_vars

\* A SIGHUP or SIGUSR1 stays flagged until the file it is about is read or
\* opened, unless it came between that and the clearing of the flag for an
\* earlier signal; the two signals do not clear each other.
SignalsNotLost ==
  /\ reloadOwed /\ ~reloadLate => reloadFlag
  /\ rotateOwed /\ ~rotateLate => rotateFlag

\* The bot stops itself only when MaxErrors polls in a row have failed.
GiveUpMeansOutage == outcome = "gave up" => failedPolls >= MaxErrors

\* An iteration without updates notifies the watchdog in time, whatever the
\* poll and the sleep after an error take.
IdleIterationFits == Alive /\ ~worked => sincePing <= WatchdogSec

\* A requested shutdown is carried out at last.
ShutdownHappens == signalReceived ~> ~Alive

\* "One iteration ... fits easily" (main.c): every iteration notifies the
\* watchdog in time.
IterationFits == sincePing <= WatchdogSec

\* "handled independently to avoid silent SIGUSR1 loss" (architecture.md): a
\* SIGUSR1 after which the log was not opened is still flagged.
RotateNotLost == Alive /\ rotateOwed => rotateFlag
============================================================================
