----------------------------- MODULE PollChild ------------------------------
(***************************************************************************)
(* One poll cycle as two processes: the forked child that asks Telegram    *)
(* (libcurl) and writes the answer into a pipe, and the parent in          *)
(* telegram_poll(), wait_for_child() and read_pipe_data().                 *)
(*                                                                         *)
(* The answer is a header (return code and length) followed by kidLen      *)
(* pieces of data, each as large as the unit PipeCap counts.  The child    *)
(* may take for ever to get it, crash at any point, and blocks when the    *)
(* pipe is full.  The wait is counted in slices of POLL_SHUTDOWN_CHECK_MS. *)
(*                                                                         *)
(* SIGTERM (handler without SA_RESTART) interrupts reads and waitpid();    *)
(* poll() is interrupted by every signal.  SIGKILL always works here: the  *)
(* child runs under the uid of the bot.                                    *)
(*                                                                         *)
(* Shared with Exec: the variables of Pipes.                               *)
(* A definition named MutX is X with a plausible slip; no action uses it.  *)
(***************************************************************************)
EXTENDS Pipes

CONSTANTS
  Slices,         \* TG_CHILD_WAIT_TIMEOUT_MS / POLL_SHUTDOWN_CHECK_MS
  PipeCap,        \* pieces that fit into a pipe nobody reads
  MaxData,        \* bound of the number of pieces of an answer
  MaxInterrupts,  \* bound of the signals during one wait
  MaxLeaks        \* bound of the number of leaked descriptors

ASSUME PollConstantsOK ==
  /\ Slices \in Nat \ {0}
  /\ PipeCap \in Nat \ {0}
  /\ MaxData \in Nat
  /\ MaxInterrupts \in Nat
  /\ MaxLeaks \in Nat

VARIABLES
  cpc,         \* where telegram_poll() is
  remaining,   \* remaining_ms, in slices
  interrupts,  \* signals that interrupted poll() in this wait
  httpRc,      \* http_rc as the parent knows it
  got,         \* pieces read from the pipe, the header included
  hasData,     \* chunk_data is a buffer
  broken,      \* fdopen() of the read end failed in this cycle
  leaked       \* read ends left open that way, for ever

VARIABLES
  kid,         \* "none", "requesting", "writing", "closed", "exited", "killed", "sigpipe"
  kidRc,       \* result of the HTTP request
  kidLen,      \* pieces of data in the answer
  sent         \* pieces written into the pipe, the header included

cycle == <<cpc, remaining, interrupts, httpRc, got, hasData, broken, leaked>>
kidVars == <<kid, kidRc, kidLen, sent>>

----------------------------------------------------------------------------
PollPcs == {"idle", "wait", "header", "data", "collect", "done"}
KidAlive == kid \in {"requesting", "writing", "closed"}
KidHoldsPipe == kid \in {"requesting", "writing"}

ReadEndKept == broken \/ cpc \in {"wait", "header", "data"}

PipeReady == sent > got \/ ~KidHoldsPipe
Whole == got = kidLen + 1

----------------------------------------------------------------------------
(* The child. *)

\* telegram_http_request() is over; an error has no data.
KidAnswers ==
  /\ kid = "requesting"
  /\ kid' = "writing"
  /\ \/ kidRc' = 0 /\ kidLen' \in 0..MaxData
     \/ kidRc' = -1 /\ kidLen' = 0
  /\ UNCHANGED <<shared, cycle, sent>>

\* fdopen() fails in the child: it closes the pipe without a word.
KidCannotOpen ==
  /\ kid = "requesting"
  /\ kid' = "closed"
  /\ UNCHANGED <<shared, cycle, kidRc, kidLen, sent>>

\* The next piece.  Nobody reads any more: SIGPIPE; the pipe is full: wait.
KidWrites ==
  /\ kid = "writing"
  /\ sent < kidLen + 1
  /\ IF ReadEndKept THEN sent - got < PipeCap /\ sent' = sent + 1 /\ UNCHANGED kid
                ELSE kid' = "sigpipe" /\ UNCHANGED sent
  /\ UNCHANGED <<shared, cycle, kidRc, kidLen>>

KidCloses ==
  /\ kid = "writing"
  /\ sent = kidLen + 1
  /\ kid' = "closed"
  /\ UNCHANGED <<shared, cycle, kidRc, kidLen, sent>>

KidExits ==
  /\ kid = "closed"
  /\ kid' = "exited"
  /\ UNCHANGED <<shared, cycle, kidRc, kidLen, sent>>

KidCrashes ==
  /\ KidAlive
  /\ kid' = "killed"
  /\ UNCHANGED <<shared, cycle, kidRc, kidLen, sent>>

----------------------------------------------------------------------------
(* The parent: pipe, fork, wait_for_child(). *)

PollPipeFails ==
  /\ cpc = "idle" /\ ~stopping
  /\ cpc' = "done"
  /\ UNCHANGED <<shared, remaining, interrupts, httpRc, got, hasData, broken, leaked, kidVars>>

PollForkFails == PipeAvailable /\ PollPipeFails

PollStarts ==
  /\ cpc = "idle" /\ ~stopping
  /\ PipeAvailable
  /\ lost < MaxLost
  /\ cpc' = "wait"
  /\ remaining' = Slices
  /\ kid' = "requesting"
  /\ openFds' = openFds + 1
  /\ UNCHANGED <<stopping, lost, interrupts, httpRc, got, hasData, broken, leaked, kidRc, kidLen, sent>>

MutKillLeaks ==
  /\ cpc = "wait"
  /\ cpc' = "done"
  /\ kid' = IF KidAlive THEN "killed" ELSE kid
  /\ UNCHANGED <<shared, remaining, interrupts, httpRc, got, hasData, broken, leaked, kidRc, kidLen, sent>>

MutKillAndReap ==
  /\ cpc = "wait"
  /\ cpc' = "done"
  /\ openFds' = openFds - 1
  /\ UNCHANGED <<stopping, lost, kidVars>>
  /\ UNCHANGED <<remaining, interrupts, httpRc, got, hasData, broken, leaked>>

\* kill_and_reap() and close(): unless another SIGTERM interrupts waitpid()
\* before the child is dead.
KillAndReap ==
  /\ cpc = "wait"
  /\ cpc' = "done"
  /\ openFds' = openFds - 1
  /\ kid' = IF KidAlive THEN "killed" ELSE kid
  /\ \/ UNCHANGED <<stopping, lost>>
     \/ KidAlive /\ stopping' = TRUE /\ lost' = lost + 1
  /\ UNCHANGED <<remaining, interrupts, httpRc, got, hasData, broken, leaked, kidRc, kidLen, sent>>

WaitStops == stopping /\ remaining > 0 /\ KillAndReap
WaitTimesOut == remaining = 0 /\ KillAndReap
WaitFails == ~stopping /\ remaining > 0 /\ KillAndReap   \* POLLERR, or poll() fails

Waiting == cpc = "wait" /\ ~stopping /\ remaining > 0

\* The pipe is readable or closed: read_pipe_data() begins with fdopen().
WaitReady ==
  /\ Waiting /\ PipeReady
  /\ \/ cpc' = "header" /\ UNCHANGED <<broken, leaked>>
     \/ leaked < MaxLeaks /\ cpc' = "collect" /\ broken' = TRUE /\ leaked' = leaked + 1
  /\ UNCHANGED <<shared, remaining, interrupts, httpRc, got, hasData, kidVars>>

MutSliceExpires ==
  /\ Waiting /\ ~PipeReady
  /\ UNCHANGED <<shared, cycle, kidVars>>

SliceExpires ==
  /\ Waiting /\ ~PipeReady
  /\ remaining' = remaining - 1
  /\ UNCHANGED <<shared, cpc, interrupts, httpRc, got, hasData, broken, leaked, kidVars>>

\* A signal ends the slice early and the time it took is not counted.
WaitInterrupted ==
  /\ Waiting /\ ~PipeReady
  /\ interrupts < MaxInterrupts
  /\ interrupts' = interrupts + 1
  /\ UNCHANGED <<shared, cpc, remaining, httpRc, got, hasData, broken, leaked, kidVars>>

----------------------------------------------------------------------------
(* The parent: read_pipe_data(). *)

MutCloseRead ==
  /\ cpc' = "collect"
  /\ openFds' = openFds - 2

CloseRead ==
  /\ cpc' = "collect"
  /\ openFds' = openFds - 1

\* Return code and length are there, and something other than white space
\* after them, or the end: fscanf() ends with "\n".
HeaderThere == sent > 1 \/ (sent = 1 /\ ~KidHoldsPipe)

ReadHeader ==
  /\ cpc = "header"
  /\ HeaderThere
  /\ httpRc' = kidRc
  /\ got' = 1
  /\ \/ kidLen > 0 /\ cpc' = "data" /\ hasData' = TRUE /\ UNCHANGED openFds
     \/ CloseRead /\ UNCHANGED hasData     \* no data, or malloc() fails
  /\ UNCHANGED <<stopping, lost, remaining, interrupts, broken, leaked, kidVars>>

NoHeader ==
  /\ cpc = "header"
  /\ sent = 0 /\ ~KidHoldsPipe
  /\ CloseRead
  /\ UNCHANGED <<stopping, lost, remaining, interrupts, httpRc, got, hasData, broken, leaked, kidVars>>

ReadData ==
  /\ cpc = "data"
  /\ got < sent
  /\ got' = sent
  /\ UNCHANGED <<shared, cpc, remaining, interrupts, httpRc, hasData, broken, leaked, kidVars>>

MutDataEnds ==
  /\ cpc = "data"
  /\ got = sent
  /\ CloseRead
  /\ UNCHANGED <<stopping, lost, remaining, interrupts, httpRc, got, hasData, broken, leaked, kidVars>>

\* fread() returns at the announced length or at the end of the pipe.
DataEnds ==
  /\ cpc = "data"
  /\ Whole \/ (got = sent /\ ~KidHoldsPipe)
  /\ CloseRead
  /\ UNCHANGED <<stopping, lost, remaining, interrupts, httpRc, got, hasData, broken, leaked, kidVars>>

----------------------------------------------------------------------------
(* waitpid(), the result, and signals. *)

Collected ==
  /\ cpc = "collect" /\ ~KidAlive
  /\ cpc' = "done"
  /\ UNCHANGED <<shared, remaining, interrupts, httpRc, got, hasData, broken, leaked, kidVars>>

\* The result is -1 unless httpRc is 0, and then the updates of chunk_data if
\* there is any; the parser takes a truncated answer for one without updates.
PollReturns ==
  /\ cpc = "done"
  /\ cpc' = "idle"
  /\ remaining' = 0 /\ interrupts' = 0 /\ httpRc' = -1 /\ got' = 0 /\ hasData' = FALSE
  /\ broken' = FALSE
  /\ kid' = "none" /\ kidRc' = -1 /\ kidLen' = 0 /\ sent' = 0
  /\ UNCHANGED <<shared, leaked>>

\* A blocked fscanf() or fread() ends with what it has, a blocked waitpid()
\* without the child; poll() comes back to the check of the flag.
SigTermPoll ==
  /\ stopping' = TRUE
  /\ CASE cpc = "header" /\ ~HeaderThere /\ KidHoldsPipe ->
            /\ CloseRead
            /\ httpRc' = IF sent = 1 /\ kidLen = 0 THEN kidRc ELSE -1
            /\ UNCHANGED lost
       [] cpc = "data" /\ got = sent /\ ~Whole /\ KidHoldsPipe ->
            CloseRead /\ UNCHANGED <<httpRc, lost>>
       [] cpc = "collect" /\ KidAlive ->
            /\ cpc' = "done"
            /\ lost' = lost + 1
            /\ UNCHANGED <<openFds, httpRc>>
       [] OTHER -> UNCHANGED <<openFds, lost, cpc, httpRc>>
  /\ UNCHANGED <<remaining, interrupts, got, hasData, broken, leaked, kidVars>>

----------------------------------------------------------------------------
PollInit ==
  /\ cpc = "idle" /\ remaining = 0 /\ interrupts = 0 /\ httpRc = -1 /\ got = 0
  /\ hasData = FALSE /\ broken = FALSE /\ leaked = 0
  /\ kid = "none" /\ kidRc = -1 /\ kidLen = 0 /\ sent = 0

\* What the child does once it has its answer; the request itself may hang.
KidStep == KidWrites \/ KidCloses \/ KidExits

CycleStart == PollPipeFails \/ PollForkFails \/ PollStarts

CycleStep ==
  \/ WaitStops \/ WaitTimesOut \/ WaitReady \/ SliceExpires
  \/ ReadHeader \/ NoHeader \/ ReadData \/ DataEnds
  \/ Collected \/ PollReturns

PollTypeOK ==
  /\ cpc \in PollPcs /\ remaining \in 0..Slices /\ interrupts \in 0..MaxInterrupts
  /\ httpRc \in {-1, 0} /\ kidRc \in {-1, 0} /\ hasData \in BOOLEAN /\ broken \in BOOLEAN
  /\ leaked \in 0..MaxLeaks /\ kidLen \in 0..MaxData
  /\ got \in 0..(MaxData + 1) /\ sent \in 0..(MaxData + 1)
  /\ kid \in {"none", "requesting", "writing", "closed", "exited", "killed", "sigpipe"}
============================================================================
