-------------------------------- MODULE Exec --------------------------------
(***************************************************************************)
(* One external command at a time: exec_command() of exec.c and the sudo   *)
(* child it forks, two actors joined by a pipe.                            *)
(*                                                                         *)
(* The child writes characters ("c") and newlines ("n") when it likes, may *)
(* close its output without exiting, leave a descendant behind that keeps  *)
(* the output open, exit, or be killed.  The parent waits in select() for  *)
(* the pipe, reads lines through the buffer of its FILE, kills the child   *)
(* at the deadline and collects it.  Time passes, in ticks of the 100 ms   *)
(* that follow SIGTERM, only where the parent is blocked.                  *)
(*                                                                         *)
(* SIGTERM to the bot (handler without SA_RESTART) interrupts a read of    *)
(* the pipe and waitpid(); select() is retried.  Other signals restart     *)
(* both calls.  Signals to the child: its uid is that of root once sudo    *)
(* runs, so kill() may be refused; SIGTERM alone may also be ignored.      *)
(*                                                                         *)
(* Shared with PollChild: the variables of Pipes.                          *)
(* A definition named MutX is X with a plausible slip; no action uses it.  *)
(***************************************************************************)
EXTENDS Pipes, Sequences

CONSTANTS
  Timeout,    \* timeout_ms, in ticks
  Sizes,      \* sizes of the caller's buffer, 0 for none
  DrainSize,  \* size of the buffer used to drain without storing (256)
  MaxOutput,  \* bound of the number of characters of a child
  MaxWait     \* bound of the clock of a call; it stays there

ASSUME ExecConstantsOK ==
  /\ Timeout \in Nat \ {0}
  /\ Sizes \subseteq Nat
  /\ DrainSize \in Nat /\ DrainSize > 1
  /\ MaxOutput \in Nat
  /\ MaxWait \in Nat /\ MaxWait > Timeout + 1

VARIABLES
  pc,        \* where exec_command_internal() is
  size,      \* size of the caller's buffer
  out,       \* resp: what was stored in it
  fbuf,      \* what the FILE read from the pipe and fgets() has not returned
  waited,    \* ticks since the fork
  verdict    \* status on the way out

VARIABLES
  pipe,      \* what is in the pipe
  wrote,     \* all that ever went into it
  child,     \* "none", "running", "exited", "signaled"
  exitCode,  \* of a child that exited
  held,      \* a write end of the pipe is open
  killable   \* kill() of this child is permitted

parent == <<pc, size, out, fbuf, waited, verdict>>
process == <<pipe, wrote, child, exitCode, held, killable>>

----------------------------------------------------------------------------
Grace == 1                       \* ticks from SIGTERM to SIGKILL
ExitCodes == {0, 1, 127}         \* 127: dup2 or execv failed in the child
Statuses == {"OK", "FORK_FAILED", "EXEC_FAILED", "EXIT_NONZERO", "SIGNALED", "TIMEOUT",
             "PIPE_FAILED", "READ_FAILED"}
ExecPcs == {"idle", "select", "fgets", "grace", "killwait", "reap", "done"}

Units == {"c", "n"}

Alive == child = "running"
ReadEndOpen == pc \in {"select", "fgets", "grace"}

----------------------------------------------------------------------------
(* The child and what it leaves running. *)

\* A write into a pipe nobody reads ends the child (SIGPIPE); a child that
\* ignores that signal writes nothing.
ChildWrites ==
  /\ held
  /\ Len(wrote) < MaxOutput
  /\ \E u \in Units :
       IF ReadEndOpen
       THEN pipe' = Append(pipe, u) /\ wrote' = Append(wrote, u) /\ UNCHANGED <<child, held>>
       ELSE Alive /\ child' = "signaled" /\ held' = FALSE /\ UNCHANGED <<pipe, wrote>>
  /\ UNCHANGED <<shared, parent, exitCode, killable>>

ChildClosesOutput ==
  /\ held
  /\ held' = FALSE
  /\ UNCHANGED <<shared, parent, pipe, wrote, child, exitCode, killable>>

\* The output may stay open in a descendant.
ChildExits ==
  /\ Alive
  /\ child' = "exited"
  /\ exitCode' \in ExitCodes
  /\ held' \in {FALSE, held}
  /\ UNCHANGED <<shared, parent, pipe, wrote, killable>>

ChildCrashes ==
  /\ Alive
  /\ child' = "signaled"
  /\ held' \in {FALSE, held}
  /\ UNCHANGED <<shared, parent, pipe, wrote, exitCode, killable>>

----------------------------------------------------------------------------
(* The call: options, pipe, fork, fdopen. *)

Fail(status) == pc' = "done" /\ verdict' = status

ExecPipeFails ==
  /\ pc = "idle"
  /\ Fail("PIPE_FAILED")
  /\ UNCHANGED <<shared, size, out, fbuf, waited, process>>

\* Both ends are closed again.
ExecForkFails ==
  /\ pc = "idle"
  /\ PipeAvailable
  /\ Fail("FORK_FAILED")
  /\ UNCHANGED <<shared, size, out, fbuf, waited, process>>

Forked ==
  /\ pc = "idle"
  /\ lost < MaxLost
  /\ PipeAvailable
  /\ size' \in Sizes
  /\ held' = TRUE
  /\ killable' \in BOOLEAN
  /\ UNCHANGED <<stopping, lost, out, fbuf, waited, pipe, wrote, exitCode>>

\* The write end is closed in the parent; what remains is the read end.
ExecStarts ==
  /\ Forked
  /\ pc' = "select"
  /\ child' = "running"
  /\ openFds' = openFds + 1
  /\ UNCHANGED verdict

\* fdopen() fails: the read end is closed, SIGKILL sent, the child waited for.
ExecFdopenFails ==
  /\ Forked
  /\ pc' = "killwait"
  /\ child' = IF killable' THEN "signaled" ELSE "running"
  /\ verdict' = "READ_FAILED"
  /\ UNCHANGED openFds

----------------------------------------------------------------------------
(* The read loop. *)

capturing == size > 0
Full == capturing /\ Len(out) >= size - 1
Readable == pipe # <<>> \/ ~held
MutExpired == waited > MaxWait
Expired == waited >= Timeout

\* The most fgets() stores, without the terminating zero.
Room == IF capturing THEN size - Len(out) - 1 ELSE DrainSize - 1

\* The line in the buffer of the FILE, as far as there is room for it.
LineEnds == {k \in 1..Len(fbuf) : fbuf[k] = "n" \/ k = Room}

\* fclose(): the read end is closed.
CloseAndReap ==
  /\ pc' = "reap"
  /\ openFds' = openFds - 1
  /\ UNCHANGED <<out, fbuf, verdict>>

\* handle_timeout() and the other error of select() go through kill_and_reap().
BeginKill(status) ==
  /\ pc' = "grace"
  /\ verdict' = status
  /\ UNCHANGED <<openFds, out, fbuf>>

MutTimesOut ==
  /\ pc = "select" /\ Expired /\ ~Readable
  /\ pc' = "reap"
  /\ verdict' = "TIMEOUT"
  /\ openFds' = openFds - 1
  /\ UNCHANGED <<stopping, lost, out, fbuf, size, waited, process>>

TimesOut ==
  /\ pc = "select" /\ Expired
  /\ BeginKill("TIMEOUT")
  /\ UNCHANGED <<stopping, lost, size, waited, process>>

SelectFails ==
  /\ pc = "select" /\ ~Expired
  /\ BeginKill("READ_FAILED")
  /\ UNCHANGED <<stopping, lost, size, waited, process>>

\* Something to read: stop when the buffer is full, else read a line.
SelectReady ==
  /\ pc = "select" /\ ~Expired /\ Readable
  /\ IF Full THEN CloseAndReap
             ELSE pc' = "fgets" /\ UNCHANGED <<openFds, out, fbuf, verdict>>
  /\ UNCHANGED <<stopping, lost, size, waited, process>>

MutReturnLine(k) ==
  /\ pc' = "select"
  /\ out' = IF capturing THEN SubSeq(fbuf, 1, k) ELSE out
  /\ UNCHANGED openFds

\* fgets() returns the first k characters of the buffer of the FILE.
ReturnLine(k) ==
  LET got == out \o SubSeq(fbuf, 1, k)
  IN IF capturing /\ Len(got) >= size - 1
     THEN /\ pc' = "reap"
          /\ out' = got
          /\ openFds' = openFds - 1
     ELSE /\ pc' = "select"
          /\ out' = IF capturing THEN got ELSE out
          /\ UNCHANGED openFds

FgetsLine ==
  /\ pc = "fgets"
  /\ \E k \in LineEnds :
       /\ \A j \in LineEnds : k <= j
       /\ ReturnLine(k)
       /\ fbuf' = SubSeq(fbuf, k + 1, Len(fbuf))
  /\ UNCHANGED <<stopping, lost, size, waited, verdict, process>>

\* No line yet: the FILE reads all that is in the pipe.
FgetsFills ==
  /\ pc = "fgets"
  /\ LineEnds = {}
  /\ pipe # <<>>
  /\ fbuf' = fbuf \o pipe
  /\ pipe' = <<>>
  /\ UNCHANGED <<shared, pc, size, out, waited, verdict, wrote, child, exitCode, held, killable>>

\* End of file: what is left counts as a line; with nothing left fgets()
\* returns NULL and the loop ends.
FgetsEof ==
  /\ pc = "fgets"
  /\ LineEnds = {}
  /\ pipe = <<>> /\ ~held
  /\ IF fbuf = <<>>
     THEN CloseAndReap
     ELSE ReturnLine(Len(fbuf)) /\ fbuf' = <<>> /\ UNCHANGED verdict
  /\ UNCHANGED <<stopping, lost, size, waited, process>>

FgetsBlocked == pc = "fgets" /\ LineEnds = {} /\ pipe = <<>> /\ held

----------------------------------------------------------------------------
(* Killing, collecting, classifying. *)

\* After the grace period: SIGKILL, fclose().
Kill ==
  /\ pc = "grace"
  /\ waited' \in {waited, IF waited < MaxWait THEN waited + Grace ELSE waited}
  /\ pc' = "killwait"
  /\ openFds' = openFds - 1
  /\ IF killable /\ Alive THEN child' = "signaled" /\ held' \in {FALSE, held}
                          ELSE UNCHANGED <<child, held>>
  /\ UNCHANGED <<stopping, lost, size, out, fbuf, verdict, pipe, wrote, exitCode, killable>>

KilledReaped ==
  /\ pc = "killwait" /\ ~Alive
  /\ pc' = "done"
  /\ UNCHANGED <<shared, size, out, fbuf, waited, verdict, process>>

MutStatusOf ==
  IF exitCode = 127 THEN "EXEC_FAILED"
  ELSE IF exitCode = 0 THEN "OK" ELSE "EXIT_NONZERO"

\* waitpid() of the normal path and the classification of the result.
StatusOf ==
  IF child = "signaled" THEN "SIGNALED"
  ELSE IF exitCode = 127 THEN "EXEC_FAILED"
  ELSE IF exitCode = 0 THEN "OK" ELSE "EXIT_NONZERO"

Reaped ==
  /\ pc = "reap" /\ ~Alive
  /\ pc' = "done"
  /\ verdict' = StatusOf
  /\ UNCHANGED <<shared, size, out, fbuf, waited, process>>

\* The caller has the result; locals go out of scope.
Return ==
  /\ pc = "done"
  /\ pc' = "idle"
  /\ size' = 0 /\ out' = <<>> /\ fbuf' = <<>> /\ waited' = 0 /\ verdict' = "OK"
  /\ pipe' = <<>> /\ wrote' = <<>> /\ child' = "none" /\ exitCode' = 0
  /\ held' = FALSE /\ killable' = FALSE
  /\ UNCHANGED shared

----------------------------------------------------------------------------
(* Signals to the bot, and time. *)

\* Interrupted: a read is an error, which the loop takes for the end of the
\* output; waitpid() gives up the child.
SigTermExec ==
  /\ stopping' = TRUE
  /\ CASE FgetsBlocked -> CloseAndReap /\ UNCHANGED lost
       [] pc \in {"reap", "killwait"} /\ Alive ->
            /\ pc' = "done"
            /\ verdict' = IF pc = "reap" THEN "READ_FAILED" ELSE verdict
            /\ lost' = lost + 1
            /\ UNCHANGED <<openFds, out, fbuf>>
       [] OTHER -> UNCHANGED <<openFds, lost, pc, out, fbuf, verdict>>
  /\ UNCHANGED <<size, waited, process>>

SelectBlocked == pc = "select" /\ ~Expired /\ ~Readable
WaitBlocked == pc \in {"reap", "killwait"} /\ Alive

Tick ==
  /\ SelectBlocked \/ FgetsBlocked \/ WaitBlocked
  /\ waited < MaxWait
  /\ waited' = waited + 1
  /\ UNCHANGED <<shared, pc, size, out, fbuf, verdict, process>>

----------------------------------------------------------------------------
ExecInit ==
  /\ pc = "idle" /\ size = 0 /\ out = <<>> /\ fbuf = <<>> /\ waited = 0 /\ verdict = "OK"
  /\ pipe = <<>> /\ wrote = <<>> /\ child = "none" /\ exitCode = 0
  /\ held = FALSE /\ killable = FALSE

ChildStep == ChildWrites \/ ChildClosesOutput \/ ChildExits \/ ChildCrashes

CallStep == ExecPipeFails \/ ExecForkFails \/ ExecStarts \/ ExecFdopenFails

ParentStep ==
  \/ TimesOut \/ SelectReady
  \/ FgetsLine \/ FgetsFills \/ FgetsEof
  \/ Kill \/ KilledReaped \/ Reaped \/ Return

ExecTypeOK ==
  /\ pc \in ExecPcs /\ size \in Sizes \cup {0}
  /\ out \in Seq(Units) /\ fbuf \in Seq(Units) /\ pipe \in Seq(Units) /\ wrote \in Seq(Units)
  /\ waited \in 0..MaxWait /\ verdict \in Statuses
  /\ child \in {"none", "running", "exited", "signaled"} /\ exitCode \in ExitCodes
  /\ held \in BOOLEAN /\ killable \in BOOLEAN
============================================================================
