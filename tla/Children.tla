------------------------------ MODULE Children ------------------------------
(***************************************************************************)
(* The bot and its children: poll cycles (PollChild) and the commands of   *)
(* the handlers (Exec) take turns in the one thread of the bot and share   *)
(* its descriptors, its flag and its unreaped children.                    *)
(*                                                                         *)
(* A cycle starts only when no handler runs; the main loop starts none     *)
(* after SIGTERM, while the handlers of the batch still run to the end.    *)
(***************************************************************************)
EXTENDS Exec, PollChild

vars == <<shared, parent, process, cycle, kidVars>>

Init == SharedInit /\ ExecInit /\ PollInit

HandlerRuns ==
  /\ cpc = "idle"
  /\ CallStep \/ ParentStep \/ SelectFails \/ ChildStep \/ Tick
  /\ UNCHANGED <<cycle, kidVars>>

CycleRuns ==
  /\ pc = "idle"
  /\ \/ CycleStart \/ CycleStep \/ KidStep
     \/ KidAnswers \/ KidCannotOpen \/ KidCrashes \/ WaitFails \/ WaitInterrupted
  /\ UNCHANGED <<parent, process>>

SigTermInHandler == cpc = "idle" /\ SigTermExec /\ UNCHANGED <<cycle, kidVars>>
SigTermInCycle == pc = "idle" /\ SigTermPoll /\ UNCHANGED <<parent, process>>

Next == HandlerRuns \/ CycleRuns \/ SigTermInHandler \/ SigTermInCycle

Spec == Init /\ [][Next]_vars

----------------------------------------------------------------------------
\* The types of the three parts; with them the number of leaked descriptors,
\* of children given up and the program counters of the two calls.
TypeOK ==
  /\ SharedTypeOK
  /\ ExecTypeOK
  /\ PollTypeOK

\* What exec_command() reports is what became of the child: success only for
\* one that exited with 0, an exit status only for one that exited, a timeout
\* only at the deadline (exec.c, classification after waitpid()).
VerdictTruthful ==
  pc = "done" =>
    /\ verdict = "OK" => child = "exited" /\ exitCode = 0
    /\ verdict \in {"EXEC_FAILED", "EXIT_NONZERO"} => child = "exited" /\ exitCode # 0
    /\ verdict = "SIGNALED" => child = "signaled"
    /\ verdict = "TIMEOUT" => waited >= Timeout

\* The output handed to the caller of a finished command is what the command
\* wrote, in order, from its beginning; it is all of it unless the buffer is
\* full or SIGTERM interrupted a read (exec.c, read loop).
OutputFaithful ==
  pc = "done" /\ verdict \in {"OK", "EXIT_NONZERO"} /\ capturing =>
    /\ out = SubSeq(wrote, 1, Len(out))
    /\ out = wrote \/ Full \/ stopping

\* A call that is still blocked at its deadline is in one of three places: in
\* the middle of a line; in waitpid() for a child whose output ended, whose
\* output no longer fits, or that was given up reading for SIGTERM; or in
\* waitpid() for a child it may not kill.  The comments of exec.c name none
\* (exec.c:214, "always exactly timeout_ms").
OverrunNamed ==
  waited >= Timeout /\ (SelectBlocked \/ FgetsBlocked \/ WaitBlocked) =>
    \/ FgetsBlocked /\ fbuf # <<>> /\ (\A k \in 1..Len(fbuf) : fbuf[k] = "c")
    \/ pc = "reap" /\ (~held \/ Full \/ stopping)
    \/ pc = "killwait" /\ ~killable

\* A call or a cycle that is over leaves no child behind, unless SIGTERM
\* interrupted waitpid(), which ends the bot soon (exec.c and
\* telegram_poll.c, kill_and_reap() and the waits after reading).
NoChildLeft ==
  /\ pc = "done" /\ Alive => stopping
  /\ cpc = "done" /\ KidAlive => stopping

\* Every descriptor of a pipe is closed once, on every path; the one exception
\* is the read end of a poll pipe after fdopen() failed, which nobody closes
\* (telegram_poll.c:198).
DescriptorsBalanced ==
  openFds = leaked + (IF ReadEndOpen THEN 1 ELSE 0)
                   + (IF cpc \in {"wait", "header", "data"} THEN 1 ELSE 0)

\* A cycle reported as good had a good request, and the data given to the
\* parser is the whole answer unless the child died while it wrote or SIGTERM
\* interrupted the read (telegram_poll.c, read_pipe_data()).
AnswerWhole ==
  cpc = "done" /\ httpRc = 0 =>
    /\ kidRc = 0
    /\ hasData => Whole \/ kid = "killed" \/ stopping

----------------------------------------------------------------------------
(***************************************************************************)
(* Fairness: the thread of the bot runs, time passes where it is blocked,  *)
(* and the poll child finishes once its request is over.  Nothing is       *)
(* assumed of commands, of the request, of signals, and no error has to    *)
(* happen.                                                                 *)
(***************************************************************************)
HandlerProgress == cpc = "idle" /\ ParentStep /\ UNCHANGED <<cycle, kidVars>>
TimeProgress == cpc = "idle" /\ Tick /\ UNCHANGED <<cycle, kidVars>>
CycleProgress == pc = "idle" /\ CycleStep /\ UNCHANGED <<parent, process>>
KidProgress == pc = "idle" /\ KidStep /\ UNCHANGED <<parent, process>>

Fairness ==
  /\ WF_vars(HandlerProgress) /\ WF_vars(TimeProgress)
  /\ WF_vars(CycleProgress) /\ WF_vars(KidProgress)

FairSpec == Spec /\ Fairness

\* Every call of exec_command() returns, whatever its child does, unless it
\* stays for ever in the middle of a line or in waitpid() (exec.c).
CallsReturn == pc # "idle" ~> (pc = "idle" \/ [](FgetsBlocked \/ WaitBlocked))

\* Every poll cycle returns although its request may hang, unless fdopen()
\* failed: then a child whose answer does not fit the pipe waits for a reader
\* and the bot for the child (telegram_poll.c:636).
CyclesEnd ==
  cpc # "idle" ~> (cpc = "idle" \/ (broken /\ kid = "writing" /\ kidLen + 1 > PipeCap))
============================================================================
