--------------------------- MODULE ChildrenProofs ---------------------------
(***************************************************************************)
(* The safety properties of the bot and its children (Children), for any   *)
(* timeout, buffer sizes, capacity of a pipe and bounds.                   *)
(*                                                                         *)
(* ExecInv and PollInv say of each part, for every place its parent may be *)
(* at, what the properties say of the end: why it waits (WaitReasons), how *)
(* much of the output is where (Stream), what the child has sent (Sent).   *)
(* The other part only sets the flag of SIGTERM, which both allow.         *)
(***************************************************************************)
EXTENDS Children, SequenceTheorems, TLAPS

----------------------------------------------------------------------------
(* The poll cycle. *)

\* A cycle that has not begun, or not read anything, knows nothing.
NothingYet ==
  /\ cpc = "idle" => kid = "none"
  /\ cpc \in {"idle", "wait", "header"} => ~hasData /\ httpRc = -1 /\ got = 0
  /\ kid \in {"none", "requesting"} => sent = 0 /\ httpRc = -1

\* What was read was sent, and what was sent is part of the answer; a child
\* that closed the pipe sent all or nothing, one that nobody listened to ended
\* when the pipe was closed.
Sent ==
  /\ got <= sent /\ sent <= kidLen + 1
  /\ kid \in {"closed", "exited"} => sent = kidLen + 1 \/ sent = 0
  /\ kid = "sigpipe" => ~ReadEndKept
  /\ hasData => sent >= 1

Answered ==
  /\ httpRc = 0 => kidRc = 0
  /\ cpc \in {"collect", "done"} /\ hasData => Whole \/ kid = "killed" \/ stopping

NoKidLeft == cpc = "done" /\ KidAlive => stopping

PollInv == PollTypeOK /\ NothingYet /\ Sent /\ Answered /\ NoKidLeft

LEMMA PollInitOK == PollInit => PollInv
<1> SUFFICES ASSUME PollInit PROVE PollInv
  OBVIOUS
<1> USE PollConstantsOK DEF PollInit
<1>1. ~hasData /\ ~broken /\ hasData \in BOOLEAN /\ broken \in BOOLEAN
  BY Zenon
<1>2. PollTypeOK
  BY <1>1 DEF PollTypeOK, PollPcs
<1>3. NothingYet
  BY <1>1 DEF NothingYet
<1>4. Sent
  BY <1>1 DEF Sent
<1>5. Answered /\ NoKidLeft
  BY <1>1 DEF Answered, NoKidLeft
<1> QED
  BY <1>2, <1>3, <1>4, <1>5 DEF PollInv

\* Commands disturb the cycle by the flag only.
LEMMA PollUndisturbed ==
  ASSUME PollInv, UNCHANGED <<cycle, kidVars>>, stopping => stopping'
  PROVE  PollInv'
BY DEF PollInv, PollTypeOK, NothingYet, Sent, Answered, NoKidLeft, KidAlive, ReadEndKept, Whole,
       cycle, kidVars

LEMMA KidKeeps ==
  ASSUME PollInv,
         KidAnswers \/ KidCannotOpen \/ KidWrites \/ KidCloses \/ KidExits \/ KidCrashes
  PROVE  PollInv'
<1> USE PollConstantsOK
    DEF PollInv, PollTypeOK, NothingYet, Sent, Answered, NoKidLeft, KidAlive, ReadEndKept, Whole,
        shared, cycle, PollPcs
<1>1. CASE KidAnswers
  BY <1>1 DEF KidAnswers
<1>2. CASE KidCannotOpen
  BY <1>2 DEF KidCannotOpen
<1>3. CASE KidWrites
  BY <1>3 DEF KidWrites
<1>4. CASE KidCloses
  BY <1>4 DEF KidCloses
<1>5. CASE KidExits
  BY <1>5 DEF KidExits
<1>6. CASE KidCrashes
  BY <1>6 DEF KidCrashes
<1> QED
  BY <1>1, <1>2, <1>3, <1>4, <1>5, <1>6

LEMMA CycleKeeps ==
  ASSUME PollInv, CycleStart \/ CycleStep \/ WaitFails \/ WaitInterrupted \/ SigTermPoll
  PROVE  PollInv'
<1> USE PollConstantsOK
    DEF PollInv, PollTypeOK, NothingYet, Sent, Answered, NoKidLeft, KidAlive, ReadEndKept, Whole,
        shared, kidVars, PollPcs
<1>1. CASE PollPipeFails \/ PollForkFails
  BY <1>1 DEF PollPipeFails, PollForkFails
<1>2. CASE PollStarts
  BY <1>2 DEF PollStarts
<1>3. CASE WaitStops \/ WaitTimesOut \/ WaitFails
  BY <1>3 DEF WaitStops, WaitTimesOut, WaitFails, KillAndReap
<1>4. CASE WaitReady
  <2>0. broken' \in BOOLEAN
    BY <1>4, Zenon DEF WaitReady
  <2>1. PollTypeOK'
    BY <1>4, <2>0 DEF WaitReady, Waiting
  <2>2. NothingYet'
    BY <1>4 DEF WaitReady, Waiting
  <2>3. Sent'
    BY <1>4 DEF WaitReady, Waiting
  <2>4. Answered' /\ NoKidLeft'
    BY <1>4 DEF WaitReady, Waiting
  <2> QED
    BY <2>1, <2>2, <2>3, <2>4
<1>5. CASE SliceExpires
  BY <1>5 DEF SliceExpires, Waiting
<1>6. CASE WaitInterrupted
  BY <1>6 DEF WaitInterrupted, Waiting
<1>7. CASE ReadHeader
  <2>0. hasData' \in BOOLEAN
    BY <1>7, Zenon DEF ReadHeader
  <2>1. PollTypeOK'
    BY <1>7, <2>0 DEF ReadHeader, HeaderThere, CloseRead
  <2>2. NothingYet'
    BY <1>7 DEF ReadHeader, HeaderThere, CloseRead
  <2>3. Sent'
    BY <1>7 DEF ReadHeader, HeaderThere, CloseRead
  <2>4. Answered' /\ NoKidLeft'
    BY <1>7 DEF ReadHeader, HeaderThere, CloseRead
  <2> QED
    BY <2>1, <2>2, <2>3, <2>4
<1>8. CASE NoHeader
  BY <1>8 DEF NoHeader, CloseRead
<1>9. CASE ReadData
  BY <1>9 DEF ReadData
<1>10. CASE DataEnds
  BY <1>10 DEF DataEnds, CloseRead, KidHoldsPipe
<1>11. CASE Collected
  BY <1>11 DEF Collected
<1>12. CASE PollReturns
  <2>0. ~hasData' /\ ~broken' /\ hasData' \in BOOLEAN /\ broken' \in BOOLEAN
    BY <1>12, Zenon DEF PollReturns
  <2>1. PollTypeOK'
    BY <1>12, <2>0 DEF PollReturns
  <2>2. NothingYet'
    BY <1>12, <2>0 DEF PollReturns
  <2>3. Sent'
    BY <1>12, <2>0 DEF PollReturns
  <2>4. Answered' /\ NoKidLeft'
    BY <1>12, <2>0 DEF PollReturns
  <2> QED
    BY <2>1, <2>2, <2>3, <2>4
<1>13. CASE SigTermPoll
  BY <1>13 DEF SigTermPoll, HeaderThere, CloseRead
<1> QED
  BY <1>1, <1>2, <1>3, <1>4, <1>5, <1>6, <1>7, <1>8, <1>9, <1>10, <1>11, <1>12, <1>13
  DEF CycleStart, CycleStep

----------------------------------------------------------------------------
(* The command. *)

\* Between two calls nothing is left of the last one.
AtRest ==
  /\ pc = "idle" => /\ child = "none" /\ ~held /\ waited = 0 /\ size = 0
                    /\ out = <<>> /\ fbuf = <<>> /\ pipe = <<>> /\ wrote = <<>>
  /\ pc \in {"select", "fgets", "grace", "killwait", "reap"} => child # "none"

\* Why the parent is where it may block.
WaitReasons ==
  /\ pc = "fgets" => fbuf # <<>> \/ pipe # <<>> \/ ~held
  /\ pc = "killwait" /\ Alive => ~killable
  /\ pc = "reap" => ~held \/ Full \/ stopping

\* What the call will say of a child it kills.
KillVerdict ==
  pc \in {"grace", "killwait"} =>
    verdict \in {"TIMEOUT", "READ_FAILED"} /\ (verdict = "TIMEOUT" => waited >= Timeout)

NoChild == pc = "done" /\ Alive => stopping

ExecInv ==
  ExecTypeOK /\ AtRest /\ WaitReasons /\ KillVerdict /\ VerdictTruthful /\ NoChild

\* The output is in three places while it is read.
Stream == capturing /\ ReadEndOpen => (out \o fbuf) \o pipe = wrote

\* And in the caller's buffer afterwards, as far as it was read.
Handed ==
  capturing /\ (pc = "reap" \/ (pc = "done" /\ verdict \in {"OK", "EXIT_NONZERO"})) =>
    /\ out = SubSeq(wrote, 1, Len(out))
    /\ out = wrote \/ Full \/ stopping

LEMMA ExecInitOK == ExecInit => ExecInv /\ Stream /\ Handed
<1> SUFFICES ASSUME ExecInit PROVE ExecInv /\ Stream /\ Handed
  OBVIOUS
<1> USE ExecConstantsOK DEF ExecInit
<1>1. ~held /\ held \in BOOLEAN /\ killable \in BOOLEAN
  BY Zenon
<1>2. <<>> \in Seq(Units)
  OBVIOUS
<1>3. ExecTypeOK
  BY <1>1, <1>2 DEF ExecTypeOK, ExecPcs, Statuses, ExitCodes
<1>4. AtRest /\ WaitReasons /\ KillVerdict /\ VerdictTruthful /\ NoChild
  BY <1>1 DEF AtRest, WaitReasons, KillVerdict, VerdictTruthful, NoChild
<1>5. Stream /\ Handed
  BY DEF Stream, Handed, ReadEndOpen
<1> QED
  BY <1>3, <1>4, <1>5 DEF ExecInv

\* Poll cycles disturb a call by the flag only.
LEMMA ExecUndisturbed ==
  ASSUME ExecInv, Stream, Handed, UNCHANGED <<parent, process>>, stopping => stopping'
  PROVE  ExecInv' /\ Stream' /\ Handed'
<1>1. /\ UNCHANGED <<pc, size, out, fbuf, waited, verdict>>
      /\ UNCHANGED <<pipe, wrote, child, exitCode, held, killable>>
  BY DEF parent, process
<1>2. UNCHANGED <<Alive, Full, capturing, ReadEndOpen>>
  BY <1>1 DEF Alive, Full, capturing, ReadEndOpen
<1>3. ExecInv'
  BY <1>1, <1>2 DEF ExecInv, ExecTypeOK, AtRest, WaitReasons, KillVerdict, VerdictTruthful, NoChild
<1>4. Stream' /\ Handed'
  BY <1>1, <1>2 DEF Stream, Handed
<1> QED
  BY <1>3, <1>4

LEMMA ChildKeeps ==
  ASSUME ExecInv, ChildStep
  PROVE  ExecInv'
<1> USE ExecConstantsOK DEF ExecInv
<1>1. UNCHANGED <<pc, size, out, fbuf, waited, verdict, stopping, killable>>
  BY DEF ChildStep, ChildWrites, ChildClosesOutput, ChildExits, ChildCrashes, parent, shared
<1>2. UNCHANGED <<Full, ReadEndOpen>>
  BY <1>1 DEF Full, capturing, ReadEndOpen
<1>3. held' \in BOOLEAN /\ (held' => held)
  <2>1. held \in BOOLEAN
    BY DEF ExecTypeOK
  <2>2. held' = held \/ held' = FALSE
    BY Zenon DEF ChildStep, ChildWrites, ChildClosesOutput, ChildExits, ChildCrashes
  <2>3. CASE held' = held
    BY <2>1, <2>3
  <2>4. CASE held' = FALSE
    BY <2>4, Zenon
  <2> QED
    BY <2>2, <2>3, <2>4
<1>4. \/ pipe' = pipe /\ wrote' = wrote
      \/ /\ held /\ ReadEndOpen
         /\ \E u \in Units : pipe' = Append(pipe, u) /\ wrote' = Append(wrote, u)
         /\ child' = child /\ held' = held
  BY DEF ChildStep, ChildWrites, ChildClosesOutput, ChildExits, ChildCrashes
<1>5. \/ child' = child /\ exitCode' = exitCode
      \/ Alive /\ child' = "exited" /\ exitCode' \in ExitCodes
      \/ Alive /\ child' = "signaled" /\ exitCode' = exitCode
  BY DEF ChildStep, ChildWrites, ChildClosesOutput, ChildExits, ChildCrashes
<1>6. ExecTypeOK'
  <2>1. pipe' \in Seq(Units) /\ wrote' \in Seq(Units)
    <3>1. pipe \in Seq(Units) /\ wrote \in Seq(Units)
      BY DEF ExecTypeOK
    <3>2. CASE pipe' = pipe /\ wrote' = wrote
      BY <3>1, <3>2
    <3>3. ASSUME NEW u \in Units, pipe' = Append(pipe, u), wrote' = Append(wrote, u)
          PROVE  pipe' \in Seq(Units) /\ wrote' \in Seq(Units)
      BY <3>1, <3>3, AppendProperties
    <3> QED
      BY <1>4, <3>2, <3>3
  <2> QED
    BY <1>1, <1>3, <1>5, <2>1 DEF ExecTypeOK, Alive
<1>7. AtRest'
  BY <1>1, <1>3, <1>4, <1>5 DEF AtRest, Alive, ReadEndOpen
<1>8. WaitReasons'
  <2>1. (pc = "fgets" => fbuf # <<>> \/ pipe # <<>> \/ ~held)'
    <3>1. pipe # <<>> => pipe' # <<>>
      BY <1>4, AppendProperties DEF ExecTypeOK
    <3> QED
      BY <1>1, <1>3, <3>1 DEF WaitReasons
  <2> QED
    BY <1>1, <1>2, <1>3, <1>5, <2>1 DEF WaitReasons, Alive
<1>9. KillVerdict'
  BY <1>1 DEF KillVerdict
<1>10. VerdictTruthful' /\ NoChild'
  BY <1>1, <1>5 DEF VerdictTruthful, NoChild, Alive
<1> QED
  BY <1>6, <1>7, <1>8, <1>9, <1>10

LEMMA CallKeeps ==
  ASSUME ExecInv, CallStep
  PROVE  ExecInv'
<1> USE ExecConstantsOK DEF ExecInv
<1>1. CASE ExecPipeFails \/ ExecForkFails
  <2>1. /\ pc = "idle" /\ pc' = "done" /\ verdict' \in {"PIPE_FAILED", "FORK_FAILED"}
        /\ UNCHANGED <<size, out, fbuf, waited, pipe, wrote, child, exitCode, held, killable>>
    BY <1>1 DEF ExecPipeFails, ExecForkFails, Fail, process
  <2>2. ExecTypeOK'
    BY <2>1 DEF ExecTypeOK, ExecPcs, Statuses
  <2>3. AtRest' /\ WaitReasons' /\ KillVerdict' /\ VerdictTruthful' /\ NoChild'
    BY <2>1 DEF AtRest, WaitReasons, KillVerdict, VerdictTruthful, NoChild, Alive
  <2> QED
    BY <2>2, <2>3
<1>2. CASE ExecStarts \/ ExecFdopenFails
  <2>1. /\ size' \in Sizes /\ killable' \in BOOLEAN
        /\ UNCHANGED <<out, fbuf, waited, pipe, wrote, exitCode>>
        /\ pc' \in {"select", "killwait"}
        /\ pc' = "killwait" => /\ verdict' = "READ_FAILED"
                               /\ child' = IF killable' THEN "signaled" ELSE "running"
        /\ pc' = "select" => verdict' = verdict /\ child' = "running"
    BY <1>2 DEF ExecStarts, ExecFdopenFails, Forked
  <2>2. held' \in BOOLEAN
    BY <1>2, Zenon DEF ExecStarts, ExecFdopenFails, Forked
  <2>3. ExecTypeOK'
    BY <2>1, <2>2 DEF ExecTypeOK, ExecPcs, Statuses
  <2>4. AtRest' /\ WaitReasons' /\ KillVerdict' /\ VerdictTruthful' /\ NoChild'
    BY <2>1 DEF AtRest, WaitReasons, KillVerdict, VerdictTruthful, NoChild, Alive
  <2> QED
    BY <2>3, <2>4
<1> QED
  BY <1>1, <1>2 DEF CallStep

\* What fgets() leaves behind, in sequences.
LEMMA LineTypes ==
  ASSUME NEW b \in Seq(Units), NEW k \in 0..Len(b)
  PROVE  /\ SubSeq(b, 1, k) \in Seq(Units) /\ SubSeq(b, k + 1, Len(b)) \in Seq(Units)
         /\ SubSeq(b, 1, k) \o SubSeq(b, k + 1, Len(b)) = b
<1>1. Len(b) \in Nat /\ k \in Int /\ \A i \in 1..Len(b) : b[i] \in Units
  BY LenProperties, ElementOfSeq
<1>2. SubSeq(b, 1, k) \in Seq(Units)
  BY <1>1, SubSeqProperties
<1>3. SubSeq(b, k + 1, Len(b)) \in Seq(Units)
  BY <1>1, SubSeqProperties
<1>4. SubSeq(b, 1, k) \o SubSeq(b, k + 1, Len(b)) = SubSeq(b, 1, Len(b))
  <2>1. 1 \in 1..Len(b) + 1 /\ k \in 1 - 1..Len(b) /\ Len(b) \in k..Len(b)
    BY <1>1
  <2> QED
    BY <2>1, ConcatAdjacentSubSeq
<1> QED
  BY <1>2, <1>3, <1>4, SubSeqFull

\* Storing a line: what the caller has grows by it, or nothing is kept.
LEMMA ReturnTypes ==
  ASSUME ExecInv, NEW k \in 0..Len(fbuf), pc = "fgets", ReturnLine(k), UNCHANGED size
  PROVE  /\ pc' \in {"select", "reap"} /\ out' \in Seq(Units)
         /\ capturing => out' = out \o SubSeq(fbuf, 1, k)
         /\ pc' = "reap" => capturing' /\ Full'
<1>1. out \in Seq(Units) /\ fbuf \in Seq(Units)
  BY DEF ExecInv, ExecTypeOK
<1>2. SubSeq(fbuf, 1, k) \in Seq(Units)
  BY <1>1, LineTypes
<1>3. out \o SubSeq(fbuf, 1, k) \in Seq(Units)
  BY <1>1, <1>2, ConcatProperties
<1> DEFINE longer == out \o SubSeq(fbuf, 1, k)
<1>4. \/ capturing /\ Len(longer) >= size - 1 /\ pc' = "reap" /\ out' = longer
      \/ pc' = "select" /\ out' = IF capturing THEN longer ELSE out
  BY DEF ReturnLine
<1> HIDE DEF longer
<1>5. capturing' = capturing
  BY DEF capturing
<1>6. longer = out \o SubSeq(fbuf, 1, k) /\ longer \in Seq(Units)
  BY <1>3 DEF longer
<1> QED
  BY <1>1, <1>4, <1>5, <1>6 DEF Full

LEMMA ParentKeeps ==
  ASSUME ExecInv, ParentStep \/ SelectFails \/ Tick \/ SigTermExec
  PROVE  ExecInv'
<1> USE ExecConstantsOK DEF ExecInv
<1>1. CASE TimesOut \/ SelectFails
  <2>1. /\ pc = "select" /\ pc' = "grace" /\ verdict' \in {"TIMEOUT", "READ_FAILED"}
        /\ verdict' = "TIMEOUT" => waited >= Timeout
        /\ UNCHANGED <<size, out, fbuf, waited, pipe, wrote, child, exitCode, held, killable>>
    BY <1>1 DEF TimesOut, SelectFails, BeginKill, process, Expired
  <2>2. ExecTypeOK'
    BY <2>1 DEF ExecTypeOK, ExecPcs, Statuses
  <2>3. AtRest' /\ WaitReasons' /\ KillVerdict' /\ VerdictTruthful' /\ NoChild'
    BY <2>1 DEF AtRest, WaitReasons, KillVerdict, VerdictTruthful, NoChild, Alive
  <2> QED
    BY <2>2, <2>3
<1>2. CASE SelectReady
  <2>1. /\ pc = "select" /\ pc' \in {"fgets", "reap"}
        /\ pc' = "reap" => Full
        /\ pc' = "fgets" => pipe # <<>> \/ ~held
        /\ UNCHANGED <<verdict, size, out, fbuf, waited, pipe, wrote, child, exitCode, held, killable>>
    BY <1>2 DEF SelectReady, CloseAndReap, Readable, process
  <2>2. ExecTypeOK'
    BY <2>1 DEF ExecTypeOK, ExecPcs
  <2>3. Full' = Full
    BY <2>1 DEF Full, capturing
  <2>4. AtRest' /\ WaitReasons' /\ KillVerdict' /\ VerdictTruthful' /\ NoChild'
    BY <2>1, <2>3 DEF AtRest, WaitReasons, KillVerdict, VerdictTruthful, NoChild, Alive
  <2> QED
    BY <2>2, <2>4
<1>3. CASE FgetsLine
  <2>1. PICK k \in LineEnds : ReturnLine(k) /\ fbuf' = SubSeq(fbuf, k + 1, Len(fbuf))
    BY <1>3 DEF FgetsLine
  <2>2. /\ pc = "fgets"
        /\ UNCHANGED <<verdict, size, waited, pipe, wrote, child, exitCode, held, killable>>
    BY <1>3 DEF FgetsLine, process
  <2>3. k \in 0..Len(fbuf) /\ fbuf \in Seq(Units)
    BY <2>1 DEF LineEnds, ExecTypeOK
  <2>4. fbuf' \in Seq(Units) /\ out' \in Seq(Units) /\ pc' \in {"select", "reap"}
        /\ (pc' = "reap" => Full')
    BY <2>1, <2>2, <2>3, LineTypes, ReturnTypes
  <2>5. ExecTypeOK'
    BY <2>2, <2>4 DEF ExecTypeOK, ExecPcs
  <2>6. AtRest' /\ WaitReasons' /\ KillVerdict' /\ VerdictTruthful' /\ NoChild'
    BY <2>2, <2>4 DEF AtRest, WaitReasons, KillVerdict, VerdictTruthful, NoChild, Alive
  <2> QED
    BY <2>5, <2>6
<1>4. CASE FgetsFills
  <2>1. /\ pc = "fgets" /\ pipe # <<>> /\ fbuf' = fbuf \o pipe /\ pipe' = <<>>
        /\ UNCHANGED <<pc, verdict, size, out, waited, wrote, child, exitCode, held, killable>>
    BY <1>4 DEF FgetsFills
  <2>2. fbuf \in Seq(Units) /\ pipe \in Seq(Units)
    BY DEF ExecTypeOK
  <2>3. fbuf' \in Seq(Units) /\ fbuf' # <<>> /\ pipe' \in Seq(Units)
    BY <2>1, <2>2, ConcatProperties, ConcatEqualIffEmpty, EmptySeq
  <2>4. ExecTypeOK'
    BY <2>1, <2>3 DEF ExecTypeOK, ExecPcs
  <2>5. AtRest' /\ WaitReasons' /\ KillVerdict' /\ VerdictTruthful' /\ NoChild'
    BY <2>1, <2>3 DEF AtRest, WaitReasons, KillVerdict, VerdictTruthful, NoChild, Alive
  <2> QED
    BY <2>4, <2>5
<1>5. CASE FgetsEof
  <2>1. /\ pc = "fgets" /\ ~held
        /\ UNCHANGED <<verdict, size, waited, pipe, wrote, child, exitCode, held, killable>>
    BY <1>5 DEF FgetsEof, CloseAndReap, process
  <2>2. fbuf \in Seq(Units) /\ Len(fbuf) \in 0..Len(fbuf) /\ <<>> \in Seq(Units)
    BY LenProperties, EmptySeq DEF ExecTypeOK
  <2>3. fbuf' \in Seq(Units) /\ out' \in Seq(Units) /\ pc' \in {"select", "reap"}
    <3>1. CASE fbuf = <<>>
      BY <1>5, <2>2, <3>1 DEF FgetsEof, CloseAndReap, ExecTypeOK
    <3>2. CASE fbuf # <<>>
      <4>1. ReturnLine(Len(fbuf)) /\ fbuf' = <<>>
        BY <1>5, <3>2 DEF FgetsEof
      <4> QED
        BY <2>1, <2>2, <4>1, ReturnTypes
    <3> QED
      BY <3>1, <3>2
  <2>4. ExecTypeOK'
    BY <2>1, <2>3 DEF ExecTypeOK, ExecPcs
  <2>5. AtRest' /\ WaitReasons' /\ KillVerdict' /\ VerdictTruthful' /\ NoChild'
    BY <2>1, <2>3 DEF AtRest, WaitReasons, KillVerdict, VerdictTruthful, NoChild, Alive
  <2> QED
    BY <2>4, <2>5
<1>6. CASE Kill
  <2>1. /\ pc = "grace" /\ pc' = "killwait"
        /\ waited' \in 0..MaxWait /\ waited' >= waited
        /\ UNCHANGED <<verdict, size, out, fbuf, pipe, wrote, exitCode, killable>>
        /\ \/ killable /\ Alive /\ child' = "signaled"
           \/ ~(killable /\ Alive) /\ child' = child
    <3>1. waited \in 0..MaxWait /\ MaxWait \in Nat
      BY DEF ExecTypeOK
    <3>2. waited' = waited \/ (waited < MaxWait /\ waited' = waited + 1)
      BY <1>6 DEF Kill, Grace
    <3>3. waited' \in 0..MaxWait /\ waited' >= waited
      BY <3>1, <3>2
    <3> QED
      BY <1>6, <3>3 DEF Kill
  <2>2. held' \in BOOLEAN
    BY <1>6, Zenon DEF Kill, ExecTypeOK
  <2>3. ExecTypeOK'
    BY <2>1, <2>2 DEF ExecTypeOK, ExecPcs
  <2>4. AtRest' /\ WaitReasons' /\ VerdictTruthful' /\ NoChild'
    BY <2>1 DEF AtRest, WaitReasons, VerdictTruthful, NoChild, Alive
  <2>5. KillVerdict'
    BY <2>1 DEF KillVerdict, ExecTypeOK
  <2> QED
    BY <2>3, <2>4, <2>5
<1>7. CASE KilledReaped
  <2>1. /\ pc = "killwait" /\ pc' = "done" /\ ~Alive
        /\ UNCHANGED <<verdict, waited, size, out, fbuf, pipe, wrote, child, exitCode, held, killable>>
    BY <1>7 DEF KilledReaped, process
  <2>2. ExecTypeOK'
    BY <2>1 DEF ExecTypeOK, ExecPcs
  <2>3. AtRest' /\ WaitReasons' /\ KillVerdict' /\ VerdictTruthful' /\ NoChild'
    BY <2>1 DEF AtRest, WaitReasons, KillVerdict, VerdictTruthful, NoChild, Alive
  <2> QED
    BY <2>2, <2>3
<1>8. CASE Reaped
  <2>1. /\ pc = "reap" /\ pc' = "done" /\ ~Alive /\ verdict' = StatusOf
        /\ UNCHANGED <<waited, size, out, fbuf, pipe, wrote, child, exitCode, held, killable>>
    BY <1>8 DEF Reaped, process
  <2>2. child \in {"exited", "signaled"}
    BY <2>1 DEF AtRest, ExecTypeOK, Alive
  <2>3. ExecTypeOK'
    BY <2>1 DEF ExecTypeOK, ExecPcs, Statuses, StatusOf
  <2>4. VerdictTruthful'
    BY <2>1, <2>2 DEF VerdictTruthful, StatusOf
  <2>5. AtRest' /\ WaitReasons' /\ KillVerdict' /\ NoChild'
    BY <2>1 DEF AtRest, WaitReasons, KillVerdict, NoChild, Alive
  <2> QED
    BY <2>3, <2>4, <2>5
<1>9. CASE Return
  <2>1. held' \in BOOLEAN /\ killable' \in BOOLEAN /\ ~held'
    BY <1>9, Zenon DEF Return
  <2>2. <<>> \in Seq(Units)
    BY EmptySeq
  <2>3. ExecTypeOK'
    BY <1>9, <2>1, <2>2 DEF Return, ExecTypeOK, ExecPcs, Statuses, ExitCodes
  <2>4. AtRest' /\ WaitReasons' /\ KillVerdict' /\ VerdictTruthful' /\ NoChild'
    BY <1>9, <2>1 DEF Return, AtRest, WaitReasons, KillVerdict, VerdictTruthful, NoChild
  <2> QED
    BY <2>3, <2>4
<1>10. CASE Tick
  <2>1. /\ waited' = waited + 1 /\ waited < MaxWait
        /\ pc \in {"select", "fgets", "reap", "killwait"}
        /\ UNCHANGED <<pc, verdict, size, out, fbuf, pipe, wrote, child, exitCode, held, killable,
                       stopping>>
    BY <1>10 DEF Tick, SelectBlocked, FgetsBlocked, WaitBlocked, process, shared
  <2>2. Full' = Full
    BY <2>1 DEF Full, capturing
  <2>3. ExecTypeOK'
    BY <2>1 DEF ExecTypeOK
  <2>4. AtRest' /\ WaitReasons' /\ VerdictTruthful' /\ NoChild'
    BY <2>1, <2>2 DEF AtRest, WaitReasons, VerdictTruthful, NoChild, Alive
  <2>5. KillVerdict'
    BY <2>1 DEF KillVerdict, ExecTypeOK
  <2> QED
    BY <2>3, <2>4, <2>5
<1>11. CASE SigTermExec
  <2>1. stopping' /\ UNCHANGED <<size, waited, pipe, wrote, child, exitCode, held, killable>>
    BY <1>11, Zenon DEF SigTermExec, process
  <2>2. /\ UNCHANGED <<out, fbuf>>
        /\ \/ pc = "fgets" /\ pc' = "reap" /\ verdict' = verdict
           \/ pc = "reap" /\ pc' = "done" /\ verdict' = "READ_FAILED"
           \/ pc = "killwait" /\ pc' = "done" /\ verdict' = verdict
           \/ pc' = pc /\ verdict' = verdict
    BY <1>11 DEF SigTermExec, CloseAndReap, FgetsBlocked
  <2>3. Full' = Full
    BY <2>1, <2>2 DEF Full, capturing
  <2>4. ExecTypeOK'
    BY <2>1, <2>2 DEF ExecTypeOK, ExecPcs, Statuses
  <2>5. AtRest' /\ WaitReasons' /\ KillVerdict' /\ VerdictTruthful' /\ NoChild'
    BY <2>1, <2>2, <2>3 DEF AtRest, WaitReasons, KillVerdict, VerdictTruthful, NoChild, Alive
  <2> QED
    BY <2>4, <2>5
<1> QED
  BY <1>1, <1>2, <1>3, <1>4, <1>5, <1>6, <1>7, <1>8, <1>9, <1>10, <1>11 DEF ParentStep

----------------------------------------------------------------------------
(* Where the output is. *)

LEMMA Grouping ==
  ASSUME NEW s \in Seq(Units), NEW t \in Seq(Units), NEW v \in Seq(Units)
  PROVE  (s \o t) \o v = s \o (t \o v)
BY ConcatAssociative

LEMMA Regroup ==
  ASSUME NEW o \in Seq(Units), NEW b \in Seq(Units), NEW p \in Seq(Units)
  PROVE  /\ \A u \in Units : (o \o b) \o Append(p, u) = Append((o \o b) \o p, u)
         /\ (o \o (b \o p)) \o <<>> = (o \o b) \o p
         /\ \A k \in 0..Len(b) :
              ((o \o SubSeq(b, 1, k)) \o SubSeq(b, k + 1, Len(b))) \o p = (o \o b) \o p
         /\ o = SubSeq((o \o b) \o p, 1, Len(o))
<1>1. o \o b \in Seq(Units) /\ b \o p \in Seq(Units) /\ (o \o b) \o p \in Seq(Units)
  BY ConcatProperties
<1>2. ASSUME NEW u \in Units PROVE (o \o b) \o Append(p, u) = Append((o \o b) \o p, u)
  <2>1. <<u>> \in Seq(Units) /\ Append(p, u) = p \o <<u>>
    BY AppendIsConcat
  <2>2. (o \o b) \o (p \o <<u>>) = ((o \o b) \o p) \o <<u>>
    BY <1>1, <2>1, ConcatAssociative
  <2> QED
    BY <1>1, <2>1, <2>2, AppendIsConcat
<1>3. o \o (b \o p) = (o \o b) \o p
  BY ConcatAssociative
<1>4. (o \o (b \o p)) \o <<>> = (o \o b) \o p
  BY <1>1, <1>3, ConcatEmptySeq
<1>5. ASSUME NEW k \in 0..Len(b)
      PROVE  (o \o SubSeq(b, 1, k)) \o SubSeq(b, k + 1, Len(b)) = o \o b
  <2> DEFINE head == SubSeq(b, 1, k)
             rest == SubSeq(b, k + 1, Len(b))
  <2>1. head \in Seq(Units) /\ rest \in Seq(Units) /\ head \o rest = b
    BY LineTypes
  <2> HIDE DEF head, rest
  <2>2. \A h, r \in Seq(Units) : (o \o h) \o r = o \o (h \o r)
    BY Grouping
  <2>3. (o \o head) \o rest = o \o (head \o rest)
    BY <2>1, <2>2, Zenon
  <2> QED
    BY <2>1, <2>3 DEF head, rest
<1>6. o = SubSeq((o \o b) \o p, 1, Len(o))
  <2>1. CASE o = <<>>
    BY <2>1, SubSeqEmpty, EmptySeq
  <2>2. CASE o # <<>>
    <3>1. Len(o) \in Nat /\ 1 \in 1..Len(o) /\ Len(o) \in 1..Len(o)
      BY <2>2, LenProperties, EmptySeq
    <3>2. SubSeq(o \o (b \o p), 1, Len(o)) = SubSeq(o, 1, Len(o))
      BY <1>1, <3>1, SubSeqOfConcat1
    <3> QED
      BY <1>3, <3>2, SubSeqFull
  <2> QED
    BY <2>1, <2>2
<1> QED
  BY <1>2, <1>4, <1>5, <1>6

LEMMA StreamTypes ==
  ExecInv => /\ out \in Seq(Units) /\ fbuf \in Seq(Units)
             /\ pipe \in Seq(Units) /\ wrote \in Seq(Units)
BY DEF ExecInv, ExecTypeOK

\* While it is read, the output in the caller's buffer is its beginning.
LEMMA Beginning ==
  ASSUME ExecInv, Stream, capturing, ReadEndOpen
  PROVE  /\ out = SubSeq(wrote, 1, Len(out))
         /\ fbuf = <<>> /\ pipe = <<>> => out = wrote
<1>1. out \in Seq(Units) /\ fbuf \in Seq(Units) /\ pipe \in Seq(Units)
  BY StreamTypes
<1>2. (out \o fbuf) \o pipe = wrote
  BY DEF Stream
<1>3. out = SubSeq(wrote, 1, Len(out))
  BY <1>1, <1>2, Regroup
<1>4. (out \o <<>>) \o <<>> = out
  BY <1>1, ConcatEmptySeq
<1> QED
  BY <1>2, <1>3, <1>4

LEMMA ChildStreams ==
  ASSUME ExecInv, Stream, Handed, ChildStep
  PROVE  Stream' /\ Handed'
<1>1. UNCHANGED <<pc, size, out, fbuf, verdict, stopping>>
  BY DEF ChildStep, ChildWrites, ChildClosesOutput, ChildExits, ChildCrashes, parent, shared
<1>2. UNCHANGED <<Full, capturing, ReadEndOpen>>
  BY <1>1 DEF Full, capturing, ReadEndOpen
<1>3. CASE pipe' = pipe /\ wrote' = wrote
  BY <1>1, <1>2, <1>3 DEF Stream, Handed
<1>4. ASSUME ReadEndOpen, NEW u \in Units, pipe' = Append(pipe, u), wrote' = Append(wrote, u)
      PROVE  Stream' /\ Handed'
  <2>1. ~(pc = "reap" \/ pc = "done")
    BY <1>4 DEF ReadEndOpen
  <2>2. capturing => (out \o fbuf) \o Append(pipe, u) = Append(wrote, u)
    BY <1>4, StreamTypes, Regroup DEF Stream
  <2> QED
    BY <1>1, <1>2, <1>4, <2>1, <2>2 DEF Stream, Handed
<1> QED
  BY <1>3, <1>4 DEF ChildStep, ChildWrites, ChildClosesOutput, ChildExits, ChildCrashes

\* A line moves from the buffer of the FILE to that of the caller.
LEMMA LineStreams ==
  ASSUME ExecInv, Stream, pc = "fgets", NEW k \in 0..Len(fbuf), ReturnLine(k),
         fbuf' = SubSeq(fbuf, k + 1, Len(fbuf)), UNCHANGED <<size, pipe, wrote>>
  PROVE  Stream' /\ Handed'
<1>1. /\ pc' \in {"select", "reap"} /\ out' \in Seq(Units)
      /\ capturing => out' = out \o SubSeq(fbuf, 1, k)
      /\ pc' = "reap" => capturing' /\ Full'
  BY ReturnTypes
<1>2. capturing' = capturing /\ ReadEndOpen
  BY DEF capturing, ReadEndOpen
<1>3. capturing => (out' \o fbuf') \o pipe' = wrote'
  <2>1. ((out \o SubSeq(fbuf, 1, k)) \o SubSeq(fbuf, k + 1, Len(fbuf))) \o pipe
          = (out \o fbuf) \o pipe
    BY StreamTypes, Regroup, ZenonT(30)
  <2>2. capturing => (out \o fbuf) \o pipe = wrote
    BY <1>2 DEF Stream
  <2> QED
    BY <1>1, <2>1, <2>2
<1>4. fbuf' \in Seq(Units) /\ pipe' \in Seq(Units)
  BY StreamTypes, LineTypes
<1>5. capturing => out' = SubSeq(wrote', 1, Len(out'))
  <2>1. out' = SubSeq((out' \o fbuf') \o pipe', 1, Len(out'))
    BY <1>1, <1>4, Regroup
  <2> QED
    BY <1>3, <2>1
<1> QED
  BY <1>1, <1>2, <1>3, <1>5 DEF Stream, Handed

LEMMA ParentStreams ==
  ASSUME ExecInv, Stream, Handed,
         CallStep \/ ParentStep \/ SelectFails \/ Tick \/ SigTermExec
  PROVE  Stream' /\ Handed'
<1>1. CASE ExecPipeFails \/ ExecForkFails \/ ExecFdopenFails
  BY <1>1 DEF ExecPipeFails, ExecForkFails, ExecFdopenFails, Fail, Stream, Handed, ReadEndOpen
<1>2. CASE ExecStarts
  <2>1. /\ pc' = "select" /\ out' = <<>> /\ fbuf' = <<>> /\ pipe' = <<>> /\ wrote' = <<>>
    BY <1>2 DEF ExecStarts, Forked, ExecInv, AtRest
  <2>2. (<<>> \o <<>>) \o <<>> = <<>>
    BY ConcatEmptySeq, EmptySeq
  <2> QED
    BY <2>1, <2>2 DEF Stream, Handed
<1>3. CASE TimesOut \/ SelectFails \/ Tick
  <2>1. /\ UNCHANGED <<size, out, fbuf, pipe, wrote, stopping>>
        /\ \/ pc = "select" /\ pc' = "grace"
           \/ UNCHANGED <<pc, verdict>>
    BY <1>3 DEF TimesOut, SelectFails, Tick, BeginKill, process, shared
  <2>2. UNCHANGED <<Full, capturing>>
    BY <2>1 DEF Full, capturing
  <2> QED
    BY <2>1, <2>2 DEF Stream, Handed, ReadEndOpen
<1>4. CASE SelectReady
  <2>1. /\ UNCHANGED <<size, out, fbuf, pipe, wrote, stopping>> /\ pc = "select"
        /\ pc' = "fgets" \/ (pc' = "reap" /\ Full)
    BY <1>4 DEF SelectReady, CloseAndReap, process
  <2>2. UNCHANGED <<Full, capturing>>
    BY <2>1 DEF Full, capturing
  <2>3. ReadEndOpen
    BY <2>1 DEF ReadEndOpen
  <2>4. capturing => out = SubSeq(wrote, 1, Len(out))
    BY <2>3, Beginning
  <2> QED
    BY <2>1, <2>2, <2>3, <2>4 DEF Stream, Handed
<1>5. CASE FgetsLine
  <2>1. PICK k \in LineEnds : ReturnLine(k) /\ fbuf' = SubSeq(fbuf, k + 1, Len(fbuf))
    BY <1>5 DEF FgetsLine
  <2>2. k \in 0..Len(fbuf)
    BY <2>1, StreamTypes, LenProperties DEF LineEnds
  <2>3. pc = "fgets" /\ UNCHANGED <<size, pipe, wrote>>
    BY <1>5 DEF FgetsLine, process
  <2> QED
    BY <2>1, <2>2, <2>3, LineStreams
<1>6. CASE FgetsFills
  <2>1. /\ pc = "fgets" /\ fbuf' = fbuf \o pipe /\ pipe' = <<>>
        /\ UNCHANGED <<pc, size, out, wrote>>
    BY <1>6 DEF FgetsFills
  <2>2. capturing' = capturing /\ ReadEndOpen
    BY <2>1 DEF capturing, ReadEndOpen
  <2>3. capturing => (out \o (fbuf \o pipe)) \o <<>> = wrote
    BY <2>2, StreamTypes, Regroup, ZenonT(30) DEF Stream
  <2> QED
    BY <2>1, <2>2, <2>3 DEF Stream, Handed
<1>7. CASE FgetsEof
  <2>1. pc = "fgets" /\ pipe = <<>> /\ UNCHANGED <<size, pipe, wrote>>
    BY <1>7 DEF FgetsEof, process
  <2>2. capturing' = capturing /\ ReadEndOpen
    BY <2>1 DEF capturing, ReadEndOpen
  <2>3. CASE fbuf = <<>>
    <3>1. pc' = "reap" /\ out' = out
      BY <1>7, <2>3 DEF FgetsEof, CloseAndReap
    <3>2. capturing => out = SubSeq(wrote, 1, Len(out)) /\ out = wrote
      BY <2>1, <2>2, <2>3, Beginning
    <3> QED
      BY <2>1, <2>2, <3>1, <3>2 DEF Stream, Handed, ReadEndOpen
  <2>4. CASE fbuf # <<>>
    <3>1. ReturnLine(Len(fbuf)) /\ fbuf' = <<>>
      BY <1>7, <2>4 DEF FgetsEof
    <3>2. Len(fbuf) \in 0..Len(fbuf) /\ SubSeq(fbuf, Len(fbuf) + 1, Len(fbuf)) = <<>>
      BY StreamTypes, LenProperties, SubSeqEmpty
    <3> QED
      BY <2>1, <3>1, <3>2, LineStreams
  <2> QED
    BY <2>3, <2>4
<1>8. CASE Kill \/ KilledReaped
  <2>1. pc' \in {"killwait", "done"} /\ verdict' \in {"TIMEOUT", "READ_FAILED"}
    BY <1>8 DEF Kill, KilledReaped, ExecInv, KillVerdict
  <2> QED
    BY <2>1 DEF Stream, Handed, ReadEndOpen
<1>9. CASE Reaped
  <2>1. pc = "reap" /\ pc' = "done" /\ UNCHANGED <<size, out, wrote, stopping>>
    BY <1>9 DEF Reaped, process, shared
  <2>2. UNCHANGED <<Full, capturing>>
    BY <2>1 DEF Full, capturing
  <2> QED
    BY <2>1, <2>2 DEF Stream, Handed, ReadEndOpen
<1>10. CASE Return
  BY <1>10 DEF Return, Stream, Handed, ReadEndOpen
<1>11. CASE SigTermExec
  <2>1. stopping' /\ UNCHANGED <<size, out, fbuf, pipe, wrote>>
    <3>1. stopping' /\ UNCHANGED <<size, pipe, wrote>>
      BY <1>11, Zenon DEF SigTermExec, process
    <3> QED
      BY <1>11, <3>1 DEF SigTermExec, CloseAndReap
  <2>2. \/ pc = "fgets" /\ pc' = "reap"
        \/ pc = "reap" /\ pc' = "done" /\ verdict' = "READ_FAILED"
        \/ pc = "killwait" /\ pc' = "done" /\ verdict' = verdict
        \/ pc' = pc /\ verdict' = verdict
    BY <1>11 DEF SigTermExec, CloseAndReap, FgetsBlocked
  <2>3. UNCHANGED <<Full, capturing>>
    BY <2>1 DEF Full, capturing
  <2>4. CASE pc = "fgets" /\ pc' = "reap"
    <3>1. ReadEndOpen
      BY <2>4 DEF ReadEndOpen
    <3>2. capturing => out = SubSeq(wrote, 1, Len(out))
      BY <3>1, Beginning
    <3> QED
      BY <2>1, <2>3, <2>4, <3>2 DEF Stream, Handed, ReadEndOpen
  <2>5. CASE pc' = "done" /\ verdict' \in {"READ_FAILED", "TIMEOUT"}
    BY <2>5 DEF Stream, Handed, ReadEndOpen
  <2>6. CASE pc' = pc /\ verdict' = verdict
    BY <2>1, <2>3, <2>6 DEF Stream, Handed, ReadEndOpen
  <2> QED
    BY <2>2, <2>4, <2>5, <2>6 DEF ExecInv, KillVerdict
<1> QED
  BY <1>1, <1>2, <1>3, <1>4, <1>5, <1>6, <1>7, <1>8, <1>9, <1>10, <1>11 DEF CallStep, ParentStep

----------------------------------------------------------------------------
(* The two together. *)

CInv == /\ ExecInv /\ Stream /\ Handed
        /\ PollInv
        /\ stopping \in BOOLEAN /\ lost \in Nat
        /\ DescriptorsBalanced

\* Who runs.
LEMMA Sides ==
  ASSUME Next
  PROVE  \/ /\ ChildStep \/ CallStep \/ ParentStep \/ SelectFails \/ Tick \/ SigTermExec
            /\ UNCHANGED <<cycle, kidVars>>
         \/ /\ \/ KidAnswers \/ KidCannotOpen \/ KidWrites \/ KidCloses \/ KidExits \/ KidCrashes
               \/ CycleStart \/ CycleStep \/ WaitFails \/ WaitInterrupted \/ SigTermPoll
            /\ UNCHANGED <<parent, process>>
BY DEF Next, HandlerRuns, CycleRuns, SigTermInHandler, SigTermInCycle, KidStep

\* SIGTERM is not taken back, and the number of children given up only grows.
LEMMA SharedKeeps ==
  ASSUME stopping \in BOOLEAN, lost \in Nat, Next
  PROVE  (stopping => stopping') /\ stopping' \in BOOLEAN /\ lost' \in Nat
<1>1. stopping' = stopping \/ stopping' = TRUE
  <2>1. CASE ChildStep \/ CallStep \/ ParentStep \/ SelectFails \/ Tick \/ SigTermExec
    BY <2>1, Zenon
    DEF ChildStep, ChildWrites, ChildClosesOutput, ChildExits, ChildCrashes,
        CallStep, ExecPipeFails, ExecForkFails, ExecStarts, ExecFdopenFails, Forked,
        ParentStep, TimesOut, SelectFails, SelectReady, FgetsLine, FgetsFills, FgetsEof,
        Kill, KilledReaped, Reaped, Return, Tick, SigTermExec, shared
  <2>2. CASE \/ KidAnswers \/ KidCannotOpen \/ KidWrites \/ KidCloses \/ KidExits \/ KidCrashes
             \/ CycleStart \/ CycleStep \/ WaitFails \/ WaitInterrupted \/ SigTermPoll
    BY <2>2, Zenon
    DEF KidAnswers, KidCannotOpen, KidWrites, KidCloses, KidExits, KidCrashes,
        CycleStart, PollPipeFails, PollForkFails, PollStarts,
        CycleStep, WaitStops, WaitTimesOut, WaitFails, KillAndReap, WaitReady, SliceExpires,
        WaitInterrupted, ReadHeader, NoHeader, ReadData, DataEnds, Collected, PollReturns,
        SigTermPoll, shared
  <2> QED
    BY <2>1, <2>2, Sides
<1>2. lost' = lost \/ lost' = lost + 1
  <2>1. CASE ChildStep \/ CallStep \/ ParentStep \/ SelectFails \/ Tick \/ SigTermExec
    BY <2>1
    DEF ChildStep, ChildWrites, ChildClosesOutput, ChildExits, ChildCrashes,
        CallStep, ExecPipeFails, ExecForkFails, ExecStarts, ExecFdopenFails, Forked,
        ParentStep, TimesOut, SelectFails, SelectReady, FgetsLine, FgetsFills, FgetsEof,
        Kill, KilledReaped, Reaped, Return, Tick, SigTermExec, shared
  <2>2. CASE \/ KidAnswers \/ KidCannotOpen \/ KidWrites \/ KidCloses \/ KidExits \/ KidCrashes
             \/ CycleStart \/ CycleStep \/ WaitFails \/ WaitInterrupted \/ SigTermPoll
    BY <2>2
    DEF KidAnswers, KidCannotOpen, KidWrites, KidCloses, KidExits, KidCrashes,
        CycleStart, PollPipeFails, PollForkFails, PollStarts,
        CycleStep, WaitStops, WaitTimesOut, WaitFails, KillAndReap, WaitReady, SliceExpires,
        WaitInterrupted, ReadHeader, NoHeader, ReadData, DataEnds, Collected, PollReturns,
        SigTermPoll, shared
  <2> QED
    BY <2>1, <2>2, Sides
<1>3. (stopping => stopping') /\ stopping' \in BOOLEAN
  <2>1. CASE stopping' = stopping
    BY <2>1
  <2>2. CASE stopping' = TRUE
    BY <2>2, Zenon
  <2> QED
    BY <1>1, <2>1, <2>2
<1> QED
  BY <1>2, <1>3

\* Each part opens and closes what it counts.
LEMMA HandlerBalance ==
  ASSUME ChildStep \/ CallStep \/ ParentStep \/ SelectFails \/ Tick \/ SigTermExec
  PROVE  \/ openFds' = openFds + 1 /\ ~ReadEndOpen /\ ReadEndOpen'
         \/ openFds' = openFds - 1 /\ ReadEndOpen /\ ~ReadEndOpen'
         \/ openFds' = openFds /\ ReadEndOpen' = ReadEndOpen
<1>1. CASE ChildStep \/ Tick
  BY <1>1 DEF ChildStep, ChildWrites, ChildClosesOutput, ChildExits, ChildCrashes, Tick,
              shared, parent, ReadEndOpen
<1>2. CASE CallStep
  BY <1>2 DEF CallStep, ExecPipeFails, ExecForkFails, ExecStarts, ExecFdopenFails, Forked, Fail,
              shared, ReadEndOpen
<1>3. CASE TimesOut \/ SelectFails \/ SelectReady
  BY <1>3 DEF TimesOut, SelectFails, SelectReady, BeginKill, CloseAndReap, ReadEndOpen
<1>4. CASE FgetsLine
  BY <1>4 DEF FgetsLine, ReturnLine, ReadEndOpen
<1>5. CASE FgetsFills \/ FgetsEof
  BY <1>5 DEF FgetsFills, FgetsEof, ReturnLine, CloseAndReap, shared, ReadEndOpen
<1>6. CASE Kill \/ KilledReaped \/ Reaped \/ Return
  <2>1. CASE Kill
    BY <2>1 DEF Kill, ReadEndOpen
  <2>2. CASE KilledReaped
    BY <2>2 DEF KilledReaped, shared, ReadEndOpen
  <2>3. CASE Reaped
    BY <2>3 DEF Reaped, shared, ReadEndOpen
  <2>4. CASE Return
    BY <2>4 DEF Return, shared, ReadEndOpen
  <2> QED
    BY <1>6, <2>1, <2>2, <2>3, <2>4
<1>7. CASE SigTermExec
  BY <1>7 DEF SigTermExec, FgetsBlocked, CloseAndReap, ReadEndOpen
<1> QED
  BY <1>1, <1>2, <1>3, <1>4, <1>5, <1>6, <1>7 DEF ParentStep

LEMMA CycleBalance ==
  ASSUME \/ KidAnswers \/ KidCannotOpen \/ KidWrites \/ KidCloses \/ KidExits \/ KidCrashes
         \/ CycleStart \/ CycleStep \/ WaitFails \/ WaitInterrupted \/ SigTermPoll,
         leaked \in Nat
  PROVE  LET reading == cpc \in {"wait", "header", "data"}
         IN \/ openFds' = openFds + 1 /\ ~reading /\ reading' /\ leaked' = leaked
            \/ openFds' = openFds - 1 /\ reading /\ ~reading' /\ leaked' = leaked
            \/ openFds' = openFds /\ reading /\ ~reading' /\ leaked' = leaked + 1
            \/ openFds' = openFds /\ reading' = reading /\ leaked' = leaked
<1>1. CASE KidAnswers \/ KidCannotOpen \/ KidWrites \/ KidCloses \/ KidExits \/ KidCrashes
  BY <1>1 DEF KidAnswers, KidCannotOpen, KidWrites, KidCloses, KidExits, KidCrashes, shared, cycle
<1>2. CASE CycleStart
  BY <1>2 DEF CycleStart, PollPipeFails, PollForkFails, PollStarts, shared
<1>3. CASE WaitStops \/ WaitTimesOut \/ WaitFails
  BY <1>3 DEF WaitStops, WaitTimesOut, WaitFails, KillAndReap
<1>4. CASE WaitReady \/ SliceExpires \/ WaitInterrupted
  BY <1>4 DEF WaitReady, SliceExpires, WaitInterrupted, Waiting, shared
<1>5. CASE ReadHeader
  BY <1>5 DEF ReadHeader, CloseRead
<1>6. CASE NoHeader \/ ReadData \/ DataEnds
  BY <1>6 DEF NoHeader, ReadData, DataEnds, CloseRead, shared
<1>7. CASE Collected \/ PollReturns
  BY <1>7 DEF Collected, PollReturns, shared
<1>8. CASE SigTermPoll
  BY <1>8 DEF SigTermPoll, CloseRead
<1> QED
  BY <1>1, <1>2, <1>3, <1>4, <1>5, <1>6, <1>7, <1>8 DEF CycleStep

LEMMA BalanceKept ==
  ASSUME DescriptorsBalanced, leaked \in Nat, Next
  PROVE  DescriptorsBalanced'
<1>1. CASE /\ ChildStep \/ CallStep \/ ParentStep \/ SelectFails \/ Tick \/ SigTermExec
           /\ UNCHANGED <<cycle, kidVars>>
  <2>1. cpc' = cpc /\ leaked' = leaked
    BY <1>1 DEF cycle
  <2> QED
    BY <1>1, <2>1, HandlerBalance DEF DescriptorsBalanced
<1>2. CASE /\ \/ KidAnswers \/ KidCannotOpen \/ KidWrites \/ KidCloses \/ KidExits \/ KidCrashes
              \/ CycleStart \/ CycleStep \/ WaitFails \/ WaitInterrupted \/ SigTermPoll
           /\ UNCHANGED <<parent, process>>
  <2>1. ReadEndOpen' = ReadEndOpen
    BY <1>2 DEF parent, ReadEndOpen
  <2> QED
    BY <1>2, <2>1, CycleBalance DEF DescriptorsBalanced
<1> QED
  BY <1>1, <1>2, Sides

LEMMA ChildrenInitOK == Init => CInv
<1> SUFFICES ASSUME Init PROVE CInv
  OBVIOUS
<1>1. ExecInv /\ Stream /\ Handed /\ PollInv
  BY ExecInitOK, PollInitOK DEF Init
<1>2. stopping \in BOOLEAN
  BY Zenon DEF Init, SharedInit
<1>3. lost \in Nat /\ DescriptorsBalanced
  BY DEF Init, SharedInit, ExecInit, PollInit, DescriptorsBalanced, ReadEndOpen
<1> QED
  BY <1>1, <1>2, <1>3 DEF CInv

LEMMA ChildrenNextOK ==
  ASSUME CInv, [Next]_vars
  PROVE  CInv'
<1>1. /\ ExecInv /\ Stream /\ Handed /\ PollInv /\ DescriptorsBalanced
      /\ stopping \in BOOLEAN /\ lost \in Nat /\ leaked \in Nat
  BY PollConstantsOK DEF CInv, PollInv, PollTypeOK
<1>2. CASE Next
  <2>1. /\ (stopping => stopping') /\ stopping' \in BOOLEAN /\ lost' \in Nat
        /\ DescriptorsBalanced'
    BY <1>1, <1>2, SharedKeeps, BalanceKept
  <2>2. CASE /\ ChildStep \/ CallStep \/ ParentStep \/ SelectFails \/ Tick \/ SigTermExec
             /\ UNCHANGED <<cycle, kidVars>>
    <3>1. PollInv'
      BY <1>1, <2>1, <2>2, PollUndisturbed
    <3>2. ExecInv'
      BY <1>1, <2>2, ChildKeeps, CallKeeps, ParentKeeps
    <3>3. Stream' /\ Handed'
      BY <1>1, <2>2, ChildStreams, ParentStreams
    <3> QED
      BY <2>1, <3>1, <3>2, <3>3 DEF CInv
  <2>3. CASE /\ \/ KidAnswers \/ KidCannotOpen \/ KidWrites \/ KidCloses \/ KidExits \/ KidCrashes
                \/ CycleStart \/ CycleStep \/ WaitFails \/ WaitInterrupted \/ SigTermPoll
             /\ UNCHANGED <<parent, process>>
    <3>1. PollInv'
      BY <1>1, <2>3, KidKeeps, CycleKeeps
    <3>2. ExecInv' /\ Stream' /\ Handed'
      BY <1>1, <2>1, <2>3, ExecUndisturbed
    <3> QED
      BY <2>1, <3>1, <3>2 DEF CInv
  <2> QED
    BY <1>2, <2>2, <2>3, Sides
<1>3. CASE UNCHANGED vars
  <2>1. /\ UNCHANGED <<parent, process>> /\ UNCHANGED <<cycle, kidVars>>
        /\ UNCHANGED <<openFds, stopping, lost>>
    BY <1>3 DEF vars, shared
  <2>2. PollInv' /\ ExecInv' /\ Stream' /\ Handed'
    BY <1>1, <2>1, ExecUndisturbed, PollUndisturbed
  <2>3. UNCHANGED ReadEndOpen /\ UNCHANGED <<cpc, leaked>>
    BY <2>1 DEF parent, cycle, ReadEndOpen
  <2> QED
    BY <1>1, <2>1, <2>2, <2>3 DEF CInv, DescriptorsBalanced
<1> QED
  BY <1>2, <1>3

\* The strengthened invariant holds in every state (exec.c, telegram_poll.c).
THEOREM ChildrenInvariant == Spec => []CInv
BY ChildrenInitOK, ChildrenNextOK, PTL DEF Spec

\* Every variable of the calls and the cycles stays in its type.
THEOREM ChildrenTypes == Spec => []TypeOK
<1>1. CInv => TypeOK
  <2> SUFFICES ASSUME CInv PROVE TypeOK
    OBVIOUS
  <2>1. ExecTypeOK /\ PollTypeOK /\ stopping \in BOOLEAN /\ lost \in Nat /\ leaked \in Nat
    BY PollConstantsOK DEF CInv, ExecInv, PollInv, PollTypeOK
  <2>2. openFds \in Nat
    BY <2>1 DEF CInv, DescriptorsBalanced
  <2> QED
    BY <2>1, <2>2 DEF TypeOK, SharedTypeOK
<1> QED
  BY ChildrenInvariant, <1>1, PTL

\* What exec_command() reports is what became of the child (exec.c,
\* classification after waitpid()).
THEOREM VerdictTruthfulAlways == Spec => []VerdictTruthful
<1>1. CInv => VerdictTruthful
  BY DEF CInv, ExecInv
<1> QED
  BY ChildrenInvariant, <1>1, PTL

\* The caller of a finished command has the beginning of its output, and all
\* of it unless the buffer is full or SIGTERM came (exec.c, read loop).
THEOREM OutputFaithfulAlways == Spec => []OutputFaithful
<1>1. CInv => OutputFaithful
  BY DEF CInv, Handed, OutputFaithful
<1> QED
  BY ChildrenInvariant, <1>1, PTL

\* A call over its deadline is blocked in one of three places only (exec.c:214).
THEOREM OverrunNamedAlways == Spec => []OverrunNamed
<1>1. CInv => OverrunNamed
  <2> SUFFICES ASSUME CInv, waited >= Timeout, SelectBlocked \/ FgetsBlocked \/ WaitBlocked
               PROVE  \/ FgetsBlocked /\ fbuf # <<>> /\ (\A k \in 1..Len(fbuf) : fbuf[k] = "c")
                      \/ pc = "reap" /\ (~held \/ Full \/ stopping)
                      \/ pc = "killwait" /\ ~killable
    BY DEF OverrunNamed
  <2>1. ~SelectBlocked
    BY DEF SelectBlocked, Expired
  <2>2. CASE FgetsBlocked
    <3>1. fbuf # <<>>
      BY <2>2 DEF FgetsBlocked, CInv, ExecInv, WaitReasons
    <3>2. ASSUME NEW k \in 1..Len(fbuf) PROVE fbuf[k] = "c"
      <4>1. fbuf[k] \in Units
        BY StreamTypes, ElementOfSeq DEF CInv
      <4>2. fbuf[k] # "n"
        BY <2>2 DEF FgetsBlocked, LineEnds
      <4> QED
        BY <4>1, <4>2 DEF Units
    <3> QED
      BY <2>2, <3>1, <3>2
  <2>3. CASE WaitBlocked
    BY <2>3 DEF WaitBlocked, CInv, ExecInv, WaitReasons
  <2> QED
    BY <2>1, <2>2, <2>3
<1> QED
  BY ChildrenInvariant, <1>1, PTL

\* A call or a cycle that is over leaves no child, unless SIGTERM came (exec.c
\* and telegram_poll.c, kill_and_reap() and the waits after reading).
THEOREM NoChildLeftAlways == Spec => []NoChildLeft
<1>1. CInv => NoChildLeft
  BY DEF CInv, ExecInv, PollInv, NoChild, NoKidLeft, NoChildLeft
<1> QED
  BY ChildrenInvariant, <1>1, PTL

\* Every descriptor of a pipe is closed once, but for the named leak
\* (telegram_poll.c:198).
THEOREM DescriptorsBalancedAlways == Spec => []DescriptorsBalanced
<1>1. CInv => DescriptorsBalanced
  BY DEF CInv
<1> QED
  BY ChildrenInvariant, <1>1, PTL

\* A good cycle had a good request and hands over a whole answer, but for a
\* child that died or SIGTERM (telegram_poll.c, read_pipe_data()).
THEOREM AnswerWholeAlways == Spec => []AnswerWhole
<1>1. CInv => AnswerWhole
  BY DEF CInv, PollInv, Answered, AnswerWhole
<1> QED
  BY ChildrenInvariant, <1>1, PTL
============================================================================
