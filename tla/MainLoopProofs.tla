--------------------------- MODULE MainLoopProofs ---------------------------
(***************************************************************************)
(* Proofs about the main loop and its signal handlers, for every limit,    *)
(* duration and number of signals.                                         *)
(***************************************************************************)
EXTENDS MainLoop, TLAPS

USE DEF Goto, Alive, NoRequest, Modes,
        SHUTDOWN_STOP, SHUTDOWN_RESTART, SHUTDOWN_REBOOT

\* Steps of the main thread that concern one thing only, by what they concern.
FlagSteps == CheckReload \/ Reloaded \/ CheckRotate \/ Rotated
QuietSteps == Wait \/ WaitAgain \/ FailedShutdown \/ Pause
PollSteps ==
  \E seconds \in PollTimes :
    \/ PollAborts(seconds) \/ PollTimesOut(seconds)
    \/ \E updates \in 0..MaxBatch : Answered(seconds, updates)
UpdateSteps ==
  \E seconds \in UpdateTimes :
    \/ HandleUpdate(seconds)
    \/ \E wanted \in {SHUTDOWN_RESTART, SHUTDOWN_REBOOT} : HandleShutdownCommand(wanted, seconds)
RetrySteps == \E seconds \in {0, ErrorSleep} : FailedRetry(seconds)

\* Both commands ask for something.
LEMMA WantedIsRequest ==
  ASSUME NEW wanted \in {SHUTDOWN_RESTART, SHUTDOWN_REBOOT} PROVE wanted # NoRequest
OBVIOUS

\* Next, with the steps of the main thread in groups.
LEMMA NextSplit ==
  [Next]_vars <=>
    \/ SigTerm \/ SigHup \/ SigUsr1
    \/ Top \/ FlagSteps \/ QuietSteps \/ PollSteps \/ UpdateSteps
    \/ RecordRequest \/ PollSucceeded \/ RetrySteps \/ GiveUp
    \/ HandleShutdown \/ WatchdogKill
    \/ UNCHANGED vars
BY DEF Next, Signals, MainThread, FlagSteps, QuietSteps, PollSteps, UpdateSteps, RetrySteps

----------------------------------------------------------------------------
(* The type invariant, with what makes it inductive. *)

\* A request that is checked and not recorded is at its own place.
Labels ==
  /\ pc \in Places
  /\ mode \in Modes
  /\ request \in {NoRequest, SHUTDOWN_RESTART, SHUTDOWN_REBOOT}
  /\ outcome \in {"running", "gave up", "stopped", "restarted", "rebooted", "exec failed", "killed"}
  /\ pc = "request" => request # NoRequest
  /\ request # NoRequest => pc \in {"request", "gone"}

\* The error count reaches its limit only where the loop is left.
Counters ==
  /\ errors \in 0..MaxErrors
  /\ left \in 0..MaxBatch
  /\ sincePing \in Nat
  /\ hups \in 0..MaxSignals /\ usrs \in 0..MaxSignals
  /\ failedPolls \in Nat
  /\ pc \notin {"shutdown", "gone"} => errors < MaxErrors

Flags ==
  /\ signalReceived \in BOOLEAN
  /\ reloadFlag \in BOOLEAN /\ rotateFlag \in BOOLEAN
  /\ reloadOwed \in BOOLEAN /\ rotateOwed \in BOOLEAN
  /\ reloadLate \in BOOLEAN /\ rotateLate \in BOOLEAN
  /\ worked \in BOOLEAN

\* Every step keeps the ranges.
LEMMA LabelsStep == Labels /\ [Next]_vars => Labels'
<1> SUFFICES ASSUME Labels, [Next]_vars PROVE Labels' OBVIOUS
<1> USE DEF Labels, Places, flagVars, signalVars, shutdownVars
<1>1. CASE SigTerm BY <1>1 DEF SigTerm
<1>2. CASE SigHup BY <1>2 DEF SigHup
<1>3. CASE SigUsr1 BY <1>3 DEF SigUsr1
<1>4. CASE Top BY <1>4 DEF Top
<1>5. CASE FlagSteps BY <1>5 DEF FlagSteps, CheckReload, Reloaded, CheckRotate, Rotated
<1>6. CASE QuietSteps BY <1>6 DEF QuietSteps, Wait, WaitAgain, FailedShutdown, Pause
<1>7. CASE PollSteps BY <1>7 DEF PollSteps, PollAborts, PollTimesOut, PollFailed, Answered
<1>8. CASE UpdateSteps
  <2>1. ASSUME NEW seconds \in UpdateTimes, HandleUpdate(seconds) PROVE Labels'
    BY <2>1 DEF HandleUpdate
  <2>2. ASSUME NEW seconds \in UpdateTimes, NEW wanted \in {SHUTDOWN_RESTART, SHUTDOWN_REBOOT},
               HandleShutdownCommand(wanted, seconds)
        PROVE  Labels'
    <3>1. /\ pc = "batch" /\ mode' = mode /\ outcome' = outcome
          /\ \/ pc' = pc /\ request' = request
             \/ pc' = "request" /\ request' = wanted
      BY <2>2 DEF HandleShutdownCommand
    <3>2. CASE pc' = pc /\ request' = request BY <3>1, <3>2
    <3>3. CASE pc' = "request" /\ request' = wanted
      <4>1. wanted # NoRequest BY WantedIsRequest
      <4>2. mode' \in Modes /\ outcome' = outcome /\ pc' \in Places BY <3>1, <3>3
      <4> QED BY <3>3, <4>1, <4>2
    <3> QED BY <3>1, <3>2, <3>3
  <2> QED BY <1>8, <2>1, <2>2 DEF UpdateSteps
<1>9. CASE RecordRequest BY <1>9 DEF RecordRequest
<1>10. CASE PollSucceeded BY <1>10 DEF PollSucceeded
<1>11. CASE RetrySteps BY <1>11 DEF RetrySteps, FailedRetry
<1>12. CASE GiveUp BY <1>12 DEF GiveUp
<1>13. CASE HandleShutdown
  <2>1. outcome' \in {outcome, "stopped", "restarted", "rebooted", "exec failed"}
    BY <1>13 DEF HandleShutdown
  <2>2. pc = "shutdown" /\ pc' = "gone" /\ mode' = mode /\ request' = request
    BY <1>13 DEF HandleShutdown
  <2> QED BY <2>1, <2>2
<1>14. CASE WatchdogKill
  <2>1. pc # "gone" /\ pc' = "gone" /\ mode' = mode /\ request' = request /\ outcome' = "killed"
    BY <1>14 DEF WatchdogKill
  <2> QED BY <2>1
<1>15. CASE UNCHANGED vars BY <1>15 DEF vars
<1> QED BY <1>1, <1>2, <1>3, <1>4, <1>5, <1>6, <1>7, <1>8, <1>9, <1>10, <1>11, <1>12, <1>13,
           <1>14, <1>15, NextSplit

LEMMA CountersStep == Counters /\ [Next]_vars => Counters'
<1> SUFFICES ASSUME Counters, [Next]_vars PROVE Counters' OBVIOUS
<1> USE ConstantsOK DEF Counters, flagVars, signalVars
<1>1. CASE SigTerm BY <1>1 DEF SigTerm
<1>2. CASE SigHup BY <1>2 DEF SigHup
<1>3. CASE SigUsr1 BY <1>3 DEF SigUsr1
<1>4. CASE Top BY <1>4 DEF Top
<1>5. CASE FlagSteps BY <1>5 DEF FlagSteps, CheckReload, Reloaded, CheckRotate, Rotated
<1>6. CASE QuietSteps BY <1>6 DEF QuietSteps, Wait, WaitAgain, FailedShutdown, Pause
<1>7. CASE PollSteps BY <1>7 DEF PollSteps, PollAborts, PollTimesOut, PollFailed, Answered
<1>8. CASE UpdateSteps BY <1>8 DEF UpdateSteps, HandleUpdate, HandleShutdownCommand
<1>9. CASE RecordRequest BY <1>9 DEF RecordRequest
<1>10. CASE PollSucceeded BY <1>10 DEF PollSucceeded
<1>11. CASE RetrySteps BY <1>11 DEF RetrySteps, FailedRetry
<1>12. CASE GiveUp
  <2>1. pc = "failed" /\ errors' = errors + 1 /\ failedPolls' = failedPolls + 1
    BY <1>12 DEF GiveUp
  <2>2. errors' \in 0..MaxErrors /\ failedPolls' \in Nat BY <2>1
  <2> QED BY <1>12, <2>2 DEF GiveUp
<1>13. CASE HandleShutdown BY <1>13 DEF HandleShutdown
<1>14. CASE WatchdogKill BY <1>14 DEF WatchdogKill
<1>15. CASE UNCHANGED vars BY <1>15 DEF vars
<1> QED BY <1>1, <1>2, <1>3, <1>4, <1>5, <1>6, <1>7, <1>8, <1>9, <1>10, <1>11, <1>12, <1>13,
           <1>14, <1>15, NextSplit

LEMMA FlagsStep == Flags /\ [Next]_vars => Flags'
<1> SUFFICES ASSUME Flags, [Next]_vars PROVE Flags' OBVIOUS
<1> USE DEF Flags, flagVars, signalVars, shutdownVars
<1>1. CASE SigTerm BY <1>1 DEF SigTerm
<1>2. CASE SigHup BY <1>2 DEF SigHup
<1>3. CASE SigUsr1 BY <1>3 DEF SigUsr1
<1>4. CASE Top BY <1>4 DEF Top
<1>5. CASE FlagSteps BY <1>5 DEF FlagSteps, CheckReload, Reloaded, CheckRotate, Rotated
<1>6. CASE QuietSteps BY <1>6 DEF QuietSteps, Wait, WaitAgain, FailedShutdown, Pause
<1>7. CASE PollSteps BY <1>7 DEF PollSteps, PollAborts, PollTimesOut, PollFailed, Answered
<1>8. CASE UpdateSteps BY <1>8 DEF UpdateSteps, HandleUpdate, HandleShutdownCommand
<1>9. CASE RecordRequest BY <1>9 DEF RecordRequest
<1>10. CASE PollSucceeded BY <1>10 DEF PollSucceeded
<1>11. CASE RetrySteps BY <1>11 DEF RetrySteps, FailedRetry
<1>12. CASE GiveUp BY <1>12 DEF GiveUp
<1>13. CASE HandleShutdown BY <1>13 DEF HandleShutdown
<1>14. CASE WatchdogKill BY <1>14 DEF WatchdogKill
<1>15. CASE UNCHANGED vars BY <1>15 DEF vars
<1> QED BY <1>1, <1>2, <1>3, <1>4, <1>5, <1>6, <1>7, <1>8, <1>9, <1>10, <1>11, <1>12, <1>13,
           <1>14, <1>15, NextSplit

LEMMA LabelsInit == Init => Labels
BY DEF Init, Labels, Places

LEMMA CountersInit == Init => Counters
BY ConstantsOK DEF Init, Counters

LEMMA FlagsInit == Init => Flags
BY DEF Init, Flags

\* The types, with an error count that never passes its limit.
THEOREM TypeCorrect == Spec => []TypeOK
<1>1. Labels /\ Counters /\ Flags => TypeOK BY DEF Labels, Counters, Flags, TypeOK
<1> QED BY <1>1, LabelsInit, CountersInit, FlagsInit, LabelsStep, CountersStep, FlagsStep, PTL
        DEF Spec

----------------------------------------------------------------------------
(* The shutdown request. *)

\* A mode other than STOP was recorded together with the flag of the signals,
\* and no request waits to be recorded beside it.
ModeInv ==
  /\ mode # SHUTDOWN_STOP => signalReceived
  /\ request # NoRequest => mode = SHUTDOWN_STOP

LEMMA ModeStep == Labels /\ ModeInv /\ [Next]_vars => ModeInv'
<1> SUFFICES ASSUME Labels, ModeInv, [Next]_vars PROVE ModeInv' OBVIOUS
<1> USE DEF Labels, ModeInv, ShutdownRequested, flagVars, signalVars, shutdownVars
<1>1. CASE SigTerm BY <1>1 DEF SigTerm
<1>2. CASE SigHup BY <1>2 DEF SigHup
<1>3. CASE SigUsr1 BY <1>3 DEF SigUsr1
<1>4. CASE Top BY <1>4 DEF Top
<1>5. CASE FlagSteps BY <1>5 DEF FlagSteps, CheckReload, Reloaded, CheckRotate, Rotated
<1>6. CASE QuietSteps BY <1>6 DEF QuietSteps, Wait, WaitAgain, FailedShutdown, Pause
<1>7. CASE PollSteps
  <2>1. mode' = mode /\ signalReceived' = signalReceived /\ request' = request
    BY <1>7 DEF PollSteps, PollAborts, PollTimesOut, PollFailed, Answered
  <2> QED BY <2>1
<1>8. CASE UpdateSteps
  <2>1. /\ mode' = mode /\ signalReceived' = signalReceived
        /\ request' = request \/ ~signalReceived
    BY <1>8 DEF UpdateSteps, HandleUpdate, HandleShutdownCommand
  <2> QED BY <2>1
<1>9. CASE RecordRequest
  <2>1. signalReceived' /\ request' = NoRequest BY <1>9 DEF RecordRequest
  <2> QED BY <2>1
<1>10. CASE PollSucceeded BY <1>10 DEF PollSucceeded
<1>11. CASE RetrySteps BY <1>11 DEF RetrySteps, FailedRetry
<1>12. CASE GiveUp BY <1>12 DEF GiveUp
<1>13. CASE HandleShutdown BY <1>13 DEF HandleShutdown
<1>14. CASE WatchdogKill BY <1>14 DEF WatchdogKill
<1>15. CASE UNCHANGED vars BY <1>15 DEF vars
<1> QED BY <1>1, <1>2, <1>3, <1>4, <1>5, <1>6, <1>7, <1>8, <1>9, <1>10, <1>11, <1>12, <1>13,
           <1>14, <1>15, NextSplit

\* The steps that change the mode.
LEMMA ModeShape == [Next]_vars => mode' = mode \/ SigTerm \/ RecordRequest \/ GiveUp
<1> SUFFICES ASSUME [Next]_vars PROVE mode' = mode \/ SigTerm \/ RecordRequest \/ GiveUp OBVIOUS
<1> USE DEF shutdownVars
<1>1. CASE SigHup \/ SigUsr1 \/ Top BY <1>1 DEF SigHup, SigUsr1, Top
<1>2. CASE FlagSteps BY <1>2 DEF FlagSteps, CheckReload, Reloaded, CheckRotate, Rotated
<1>3. CASE QuietSteps BY <1>3 DEF QuietSteps, Wait, WaitAgain, FailedShutdown, Pause
<1>4. CASE PollSteps BY <1>4 DEF PollSteps, PollAborts, PollTimesOut, PollFailed, Answered
<1>5. CASE UpdateSteps BY <1>5 DEF UpdateSteps, HandleUpdate, HandleShutdownCommand
<1>6. CASE PollSucceeded \/ RetrySteps BY <1>6 DEF PollSucceeded, RetrySteps, FailedRetry
<1>7. CASE HandleShutdown \/ WatchdogKill BY <1>7 DEF HandleShutdown, WatchdogKill
<1>8. CASE UNCHANGED vars BY <1>8 DEF vars
<1> QED BY <1>1, <1>2, <1>3, <1>4, <1>5, <1>6, <1>7, <1>8, NextSplit

\* A recorded restart or reboot is final.
THEOREM ModeIsKept == Spec => AcceptedModeKept
<1>1. Init => ModeInv BY DEF Init, ModeInv
<1>2. Labels /\ ModeInv /\ [Next]_vars => [mode # SHUTDOWN_STOP => mode' = mode]_vars
  <2> SUFFICES ASSUME Labels, ModeInv, [Next]_vars, mode # SHUTDOWN_STOP PROVE mode' = mode
    OBVIOUS
  <2>1. signalReceived /\ request = NoRequest /\ pc # "request" BY DEF Labels, ModeInv
  <2> QED BY <2>1, ModeShape DEF SigTerm, RecordRequest, GiveUp, ShutdownRequested
<1> QED BY <1>1, <1>2, LabelsInit, LabelsStep, ModeStep, PTL DEF Spec, AcceptedModeKept

\* A stop that was requested is overruled only by a request checked before it.
THEOREM StopIsKept == Spec => StopNotOverruled
<1> DEFINE
  Kept == /\ signalReceived /\ mode = SHUTDOWN_STOP /\ mode' # mode => request # NoRequest
          /\ signalReceived /\ request = NoRequest => request' = NoRequest
<1>1. Labels /\ [Next]_vars => [Kept]_vars
  <2> SUFFICES ASSUME Labels, [Next]_vars, signalReceived PROVE Kept OBVIOUS
  <2>1. mode = SHUTDOWN_STOP /\ mode' # mode => request # NoRequest
    <3>1. pc = "request" => request # NoRequest BY DEF Labels
    <3> QED BY <3>1, ModeShape DEF SigTerm, RecordRequest, GiveUp, ShutdownRequested
  <2>2. request = NoRequest => request' = NoRequest
    <3> SUFFICES ASSUME request = NoRequest PROVE request' = request OBVIOUS
    <3>0. pc # "request" BY DEF Labels
    <3>1. CASE SigTerm \/ SigHup \/ SigUsr1 \/ Top BY <3>1 DEF SigTerm, SigHup, SigUsr1, Top
    <3>2. CASE FlagSteps BY <3>2 DEF FlagSteps, CheckReload, Reloaded, CheckRotate, Rotated
    <3>3. CASE QuietSteps BY <3>3 DEF QuietSteps, Wait, WaitAgain, FailedShutdown, Pause
    <3>4. CASE PollSteps BY <3>4 DEF PollSteps, PollAborts, PollTimesOut, PollFailed, Answered
    <3>5. CASE UpdateSteps BY <3>5 DEF UpdateSteps, HandleUpdate, HandleShutdownCommand
    <3>6. CASE RecordRequest BY <3>0, <3>6 DEF RecordRequest
    <3>7. CASE PollSucceeded \/ RetrySteps BY <3>7 DEF PollSucceeded, RetrySteps, FailedRetry
    <3>8. CASE GiveUp \/ HandleShutdown \/ WatchdogKill
      BY <3>8 DEF GiveUp, HandleShutdown, WatchdogKill
    <3>9. CASE UNCHANGED vars BY <3>9 DEF vars
    <3> QED BY <3>1, <3>2, <3>3, <3>4, <3>5, <3>6, <3>7, <3>8, <3>9, NextSplit
  <2> QED BY <2>1, <2>2
<1>2. StopNotOverruled <=> [][Kept]_vars BY DEF StopNotOverruled
<1> HIDE DEF Kept
<1> QED BY <1>1, <1>2, LabelsInit, LabelsStep, PTL DEF Spec

----------------------------------------------------------------------------
(* The flags of SIGHUP and SIGUSR1. *)

\* A signal that comes while the file is being read or opened is remembered
\* as late.
SignalInv ==
  /\ SignalsNotLost
  /\ pc = "reloading" /\ reloadOwed => reloadLate
  /\ pc = "rotating" /\ rotateOwed => rotateLate

LEMMA SignalStep == SignalInv /\ [Next]_vars => SignalInv'
<1> SUFFICES ASSUME SignalInv, [Next]_vars PROVE SignalInv' OBVIOUS
<1> USE DEF SignalInv, SignalsNotLost, flagVars, signalVars, shutdownVars
<1>1. CASE SigTerm BY <1>1 DEF SigTerm
<1>2. CASE SigHup BY <1>2 DEF SigHup
<1>3. CASE SigUsr1 BY <1>3 DEF SigUsr1
<1>4. CASE Top BY <1>4 DEF Top
<1>5. CASE FlagSteps BY <1>5 DEF FlagSteps, CheckReload, Reloaded, CheckRotate, Rotated
<1>6. CASE QuietSteps BY <1>6 DEF QuietSteps, Wait, WaitAgain, FailedShutdown, Pause
<1>7. CASE PollSteps BY <1>7 DEF PollSteps, PollAborts, PollTimesOut, PollFailed, Answered
<1>8. CASE UpdateSteps BY <1>8 DEF UpdateSteps, HandleUpdate, HandleShutdownCommand
<1>9. CASE RecordRequest BY <1>9 DEF RecordRequest
<1>10. CASE PollSucceeded BY <1>10 DEF PollSucceeded
<1>11. CASE RetrySteps BY <1>11 DEF RetrySteps, FailedRetry
<1>12. CASE GiveUp BY <1>12 DEF GiveUp
<1>13. CASE HandleShutdown BY <1>13 DEF HandleShutdown
<1>14. CASE WatchdogKill BY <1>14 DEF WatchdogKill
<1>15. CASE UNCHANGED vars BY <1>15 DEF vars
<1> QED BY <1>1, <1>2, <1>3, <1>4, <1>5, <1>6, <1>7, <1>8, <1>9, <1>10, <1>11, <1>12, <1>13,
           <1>14, <1>15, NextSplit

\* A SIGHUP or SIGUSR1 stays flagged until its file is read or opened, unless
\* it came before the flag of an earlier one was cleared.
THEOREM SignalsAreKept == Spec => []SignalsNotLost
<1>1. Init => SignalInv BY DEF Init, SignalInv, SignalsNotLost
<1>2. SignalInv => SignalsNotLost BY DEF SignalInv
<1> QED BY <1>1, <1>2, SignalStep, PTL DEF Spec

----------------------------------------------------------------------------
(* Giving up. *)

\* The error count counts no more than the failures since the last success.
ErrorsCounted == failedPolls >= errors

\* The arithmetic of one failure more.
LEMMA NoFewer ==
  ASSUME NEW e \in Nat, NEW f \in Nat, f >= e, e + 1 >= MaxErrors
  PROVE  f + 1 >= MaxErrors
BY ConstantsOK

\* The loop is left on giving up, so that the count of failures stays.
OutageInv == outcome = "gave up" => pc \in {"shutdown", "gone"} /\ failedPolls >= MaxErrors

LEMMA CountedStep == Counters /\ ErrorsCounted /\ [Next]_vars => ErrorsCounted'
<1> SUFFICES ASSUME Counters, ErrorsCounted, [Next]_vars PROVE ErrorsCounted' OBVIOUS
<1>0. errors \in Nat /\ failedPolls \in Nat BY DEF Counters
<1> USE DEF ErrorsCounted, flagVars, signalVars, shutdownVars
<1>1. CASE SigTerm BY <1>0, <1>1 DEF SigTerm
<1>2. CASE SigHup BY <1>0, <1>2 DEF SigHup
<1>3. CASE SigUsr1 BY <1>0, <1>3 DEF SigUsr1
<1>4. CASE Top BY <1>0, <1>4 DEF Top
<1>5. CASE FlagSteps BY <1>0, <1>5 DEF FlagSteps, CheckReload, Reloaded, CheckRotate, Rotated
<1>6. CASE QuietSteps BY <1>0, <1>6 DEF QuietSteps, Wait, WaitAgain, FailedShutdown, Pause
<1>7. CASE PollSteps BY <1>0, <1>7 DEF PollSteps, PollAborts, PollTimesOut, PollFailed, Answered
<1>8. CASE UpdateSteps BY <1>0, <1>8 DEF UpdateSteps, HandleUpdate, HandleShutdownCommand
<1>9. CASE RecordRequest BY <1>0, <1>9 DEF RecordRequest
<1>10. CASE PollSucceeded BY <1>0, <1>10 DEF PollSucceeded
<1>11. CASE RetrySteps BY <1>0, <1>11 DEF RetrySteps, FailedRetry
<1>12. CASE GiveUp
  <2>1. errors' = errors + 1 /\ failedPolls' = failedPolls + 1 BY <1>12 DEF GiveUp
  <2> QED BY <1>0, <2>1
<1>13. CASE HandleShutdown BY <1>0, <1>13 DEF HandleShutdown
<1>14. CASE WatchdogKill BY <1>0, <1>14 DEF WatchdogKill
<1>15. CASE UNCHANGED vars BY <1>0, <1>15 DEF vars
<1> QED BY <1>1, <1>2, <1>3, <1>4, <1>5, <1>6, <1>7, <1>8, <1>9, <1>10, <1>11, <1>12, <1>13,
           <1>14, <1>15, NextSplit

LEMMA OutageStep == Labels /\ Counters /\ ErrorsCounted /\ OutageInv /\ [Next]_vars => OutageInv'
<1> SUFFICES ASSUME Labels, Counters, ErrorsCounted, OutageInv, [Next]_vars PROVE OutageInv' OBVIOUS
<1>0. errors \in Nat /\ failedPolls \in Nat /\ failedPolls >= errors
  <2>1. errors \in Nat /\ failedPolls \in Nat BY DEF Counters
  <2> QED BY <2>1 DEF ErrorsCounted
<1> USE DEF OutageInv, flagVars, signalVars, shutdownVars
<1>1. CASE SigTerm BY <1>1 DEF SigTerm
<1>2. CASE SigHup BY <1>2 DEF SigHup
<1>3. CASE SigUsr1 BY <1>3 DEF SigUsr1
<1>4. CASE Top BY <1>4 DEF Top
<1>5. CASE FlagSteps BY <1>5 DEF FlagSteps, CheckReload, Reloaded, CheckRotate, Rotated
<1>6. CASE QuietSteps BY <1>6 DEF QuietSteps, Wait, WaitAgain, FailedShutdown, Pause
<1>7. CASE PollSteps BY <1>7 DEF PollSteps, PollAborts, PollTimesOut, PollFailed, Answered
<1>8. CASE UpdateSteps BY <1>8 DEF UpdateSteps, HandleUpdate, HandleShutdownCommand
<1>9. CASE RecordRequest BY <1>9 DEF RecordRequest
<1>10. CASE PollSucceeded BY <1>10 DEF PollSucceeded
<1>11. CASE RetrySteps BY <1>11 DEF RetrySteps, FailedRetry
<1>12. CASE GiveUp
  <2>1. /\ pc' = "shutdown" /\ errors' >= MaxErrors
        /\ errors' = errors + 1 /\ failedPolls' = failedPolls + 1
    BY <1>12 DEF GiveUp
  <2>2. failedPolls + 1 >= MaxErrors BY <1>0, <2>1, NoFewer
  <2> QED BY <2>1, <2>2
<1>13. CASE HandleShutdown BY <1>13 DEF HandleShutdown
<1>14. CASE WatchdogKill BY <1>14 DEF WatchdogKill
<1>15. CASE UNCHANGED vars BY <1>15 DEF vars
<1> QED BY <1>1, <1>2, <1>3, <1>4, <1>5, <1>6, <1>7, <1>8, <1>9, <1>10, <1>11, <1>12, <1>13,
           <1>14, <1>15, NextSplit

\* The bot stops itself only after MaxErrors failures in a row.
THEOREM GivingUpMeansOutage == Spec => []GiveUpMeansOutage
<1>1. Init => ErrorsCounted /\ OutageInv BY DEF Init, ErrorsCounted, OutageInv
<1>2. OutageInv => GiveUpMeansOutage BY DEF OutageInv, GiveUpMeansOutage
<1> QED BY <1>1, <1>2, LabelsInit, CountersInit, LabelsStep, CountersStep, CountedStep,
        OutageStep, PTL DEF Spec

----------------------------------------------------------------------------
(* The watchdog. *)

\* Between the notification and the end of the poll.
Fresh == pc \in {"reload?", "reloading", "rotate?", "rotating", "poll", "waiting"}

\* What a step does to the clock of the iteration.
Notified == sincePing' = 0 /\ pc' # "failed"
Unclocked ==
  sincePing' = sincePing /\ worked' = worked /\ (Fresh' => Fresh) /\ (pc' = "failed" => pc = "failed")
Polled ==
  /\ Fresh /\ ~Fresh' /\ worked' = worked
  /\ \E seconds \in PollTimes : sincePing' = sincePing + seconds
Slept ==
  /\ pc = "failed" /\ pc' = "pause" /\ worked' = worked /\ ~Fresh'
  /\ sincePing' \in {sincePing, sincePing + ErrorSleep}
Served == worked' /\ pc' # "failed" /\ ~Fresh'
ClockStep == Notified \/ Unclocked \/ Polled \/ Slept \/ Served

\* Every step is one of these for the clock.
LEMMA ClockShape == Counters /\ [Next]_vars => ClockStep
<1> SUFFICES ASSUME Counters, [Next]_vars PROVE ClockStep OBVIOUS
<1>0. sincePing \in Nat BY DEF Counters
<1> USE DEF ClockStep, Fresh
<1>1. CASE SigTerm BY <1>1 DEF SigTerm, Unclocked
<1>2. CASE SigHup BY <1>2 DEF SigHup, Unclocked
<1>3. CASE SigUsr1 BY <1>3 DEF SigUsr1, Unclocked
<1>4. CASE Top BY <1>4 DEF Top, Notified
<1>5. CASE FlagSteps BY <1>5 DEF FlagSteps, CheckReload, Reloaded, CheckRotate, Rotated, Unclocked
<1>6. CASE QuietSteps BY <1>6 DEF QuietSteps, Wait, WaitAgain, FailedShutdown, Pause, Unclocked
<1>7. CASE PollSteps BY <1>7 DEF PollSteps, PollAborts, PollTimesOut, PollFailed, Answered, Polled
<1>8. CASE UpdateSteps BY <1>8 DEF UpdateSteps, HandleUpdate, HandleShutdownCommand, Served
<1>9. CASE RecordRequest BY <1>9 DEF RecordRequest, Unclocked
<1>10. CASE PollSucceeded BY <1>10 DEF PollSucceeded, Unclocked
<1>11. CASE RetrySteps
  <2>1. PICK seconds \in {0, ErrorSleep} : FailedRetry(seconds) BY <1>11 DEF RetrySteps
  <2>2. sincePing + 0 = sincePing BY <1>0
  <2> QED BY <2>1, <2>2 DEF FailedRetry, Slept
<1>12. CASE GiveUp BY <1>12 DEF GiveUp, Unclocked
<1>13. CASE HandleShutdown BY <1>13 DEF HandleShutdown, Unclocked
<1>14. CASE WatchdogKill BY <1>14 DEF WatchdogKill, Unclocked
<1>15. CASE UNCHANGED vars BY <1>15 DEF vars, Unclocked
<1> QED BY <1>1, <1>2, <1>3, <1>4, <1>5, <1>6, <1>7, <1>8, <1>9, <1>10, <1>11, <1>12, <1>13,
           <1>14, <1>15, NextSplit

\* The clock is zero until the poll ends, and a failed poll leaves room for the
\* sleep after it.
ClockInv ==
  /\ Fresh => sincePing = 0
  /\ pc = "failed" => sincePing + ErrorSleep <= WatchdogSec
  /\ ~worked => sincePing <= WatchdogSec

LEMMA ClockInvStep ==
  ASSUME \A seconds \in PollTimes : seconds + ErrorSleep <= WatchdogSec,
         Counters, ClockInv, ClockStep
  PROVE  ClockInv'
<1>0. sincePing \in Nat /\ ErrorSleep \in Nat /\ WatchdogSec \in Nat /\ PollTimes \subseteq Nat
  BY ConstantsOK DEF Counters
<1>1. CASE Notified BY <1>0, <1>1 DEF Notified, ClockInv
<1>2. CASE Unclocked BY <1>2 DEF Unclocked, ClockInv
<1>3. CASE Polled
  <2>1. PICK seconds \in PollTimes : sincePing' = sincePing + seconds BY <1>3 DEF Polled
  <2>2. sincePing = 0 /\ ~Fresh' BY <1>3 DEF Polled, ClockInv
  <2>3. sincePing' + ErrorSleep <= WatchdogSec /\ sincePing' <= WatchdogSec
    BY <1>0, <2>1, <2>2
  <2> QED BY <2>2, <2>3 DEF ClockInv
<1>4. CASE Slept
  <2>1. sincePing' <= WatchdogSec BY <1>0, <1>4 DEF Slept, ClockInv
  <2> QED BY <1>4, <2>1 DEF Slept, ClockInv
<1>5. CASE Served BY <1>5 DEF Served, ClockInv
<1> QED BY <1>1, <1>2, <1>3, <1>4, <1>5 DEF ClockStep

\* An iteration without updates notifies the watchdog in time whenever a poll
\* and the sleep after an error together fit its period, which the constants
\* of the source do (38 + 5 <= 60).
THEOREM IdleFits ==
  ASSUME \A seconds \in PollTimes : seconds + ErrorSleep <= WatchdogSec
  PROVE  Spec => []IdleIterationFits
<1>1. Init => ClockInv BY ConstantsOK DEF Init, ClockInv, Fresh
<1>2. Counters /\ ClockInv /\ [Next]_vars => ClockInv' BY ClockShape, ClockInvStep
<1>3. ClockInv => IdleIterationFits BY DEF ClockInv, IdleIterationFits
<1> QED BY <1>1, <1>2, <1>3, CountersInit, CountersStep, PTL DEF Spec
=============================================================================
