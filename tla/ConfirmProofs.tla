--------------------------- MODULE ConfirmProofs ---------------------------
(***************************************************************************)
(* Proofs about the confirmation of dangerous commands, for every value of *)
(* the constants.                                                          *)
(***************************************************************************)
EXTENDS Confirm, TLAPS, SequenceTheorems

USE DEF NoToken, NoCommand, GatedCommands, Confirmable, NoPending, NoAsk, NoAccept

\* The argument a slot stores is one that fits, or the one it held.
LEMMA StoredArgsType ==
  ASSUME NEW slot,
         slot.args \in (Args \ LongArgs) \cup {NoArgs},
         NEW args \in Args \cup {NoArgs}
  PROVE  StoredArgs(slot, args) \in (Args \ LongArgs) \cup {NoArgs}
BY DEF StoredArgs

\* security_set_token_ttl() keeps the TTL within its documented range.
LEMMA TtlAfterType ==
  ASSUME NEW current \in 1..TokenTtlMax, NEW ttl \in Int
  PROVE  TtlAfter(current, ttl) \in 1..TokenTtlMax
BY ConstantsOK DEF TtlAfter

\* The end of a sequence, from a position on.
LEMMA TailFrom ==
  ASSUME NEW s \in Seq(Nat), NEW first \in 1..(Len(s) + 1),
         NEW t, t = SubSeq(s, first, Len(s))
  PROVE  /\ t \in Seq(Nat)
         /\ Len(t) = Len(s) - first + 1
         /\ \A i \in 1..(Len(s) - first + 1) : t[i] = s[first + i - 1]
<1>1. /\ Len(s) \in Nat /\ Len(s) \in Int /\ first \in Int
      /\ first >= 1 /\ first <= Len(s) + 1
  BY LenProperties
<1>2. \A i \in first..Len(s) : s[i] \in Nat
  BY <1>1, ElementOfSeq
<1>3. /\ t \in Seq(Nat)
      /\ Len(t) = IF first <= Len(s) THEN Len(s) - first + 1 ELSE 0
      /\ \A i \in 1..(Len(s) - first + 1) : t[i] = s[first + i - 1]
  BY <1>1, <1>2, SubSeqProperties
<1>4. Len(t) = Len(s) - first + 1
  <2>1. CASE first <= Len(s) BY <2>1, <1>3
  <2>2. CASE ~(first <= Len(s))
    <3>1. Len(s) - first + 1 = 0 BY <2>2, <1>1
    <3> QED BY <2>2, <3>1, <1>3
  <2> QED BY <2>1, <2>2
<1> QED BY <1>3, <1>4

\* The window of remembered failures is a sequence of times, no longer than
\* asked for.
LEMMA LastOfType ==
  ASSUME NEW s \in Seq(Nat), NEW n \in Nat \ {0}
  PROVE  /\ LastOf(s, n) \in Seq(Nat)
         /\ Len(LastOf(s, n)) = IF Len(s) < n THEN Len(s) ELSE n
         /\ \A i \in 1..Len(LastOf(s, n)) :
              LastOf(s, n)[i] = s[i + (Len(s) - Len(LastOf(s, n)))]
<1>1. PICK first : first = Larger(Len(s) - n + 1, 1) OBVIOUS
<1>2. PICK t : t = SubSeq(s, first, Len(s)) OBVIOUS
<1>3. LastOf(s, n) = t BY <1>1, <1>2 DEF LastOf
<1>4. /\ Len(s) \in Nat
      /\ first \in 1..(Len(s) + 1)
      /\ Len(s) - first + 1 = IF Len(s) < n THEN Len(s) ELSE n
  <2>1. Len(s) \in Nat BY LenProperties
  <2>2. PICK k \in Nat : k = Len(s) BY <2>1
  <2>3. first = IF k - n + 1 >= 1 THEN k - n + 1 ELSE 1 BY <1>1, <2>2 DEF Larger
  <2>4. first \in 1..(k + 1) /\ k - first + 1 = IF k < n THEN k ELSE n BY <2>3
  <2> QED BY <2>1, <2>2, <2>4
<1>5. /\ t \in Seq(Nat)
      /\ Len(t) = Len(s) - first + 1
      /\ \A i \in 1..(Len(s) - first + 1) : t[i] = s[first + i - 1]
  BY <1>2, <1>4, TailFrom
<1>6. ASSUME NEW i \in 1..Len(t)
      PROVE  t[i] = s[i + (Len(s) - Len(t))]
  <2>1. i \in 1..(Len(s) - first + 1) /\ first + i - 1 = i + (Len(s) - Len(t))
    BY <1>4, <1>5
  <2>2. t[i] = s[first + i - 1] BY <2>1, <1>5
  <2> QED BY <2>1, <2>2
<1> QED BY <1>3, <1>4, <1>5, <1>6

LEMMA GuessesAfterType ==
  ASSUME TypeOK, NEW verdict, GuessesAfter(verdict),
         verdict \in {"absent", "expired", "mismatch", "accepted", "format", "blocked"}
  PROVE  /\ failedAttempts' \in 0..(MaxFailedAttempts - 1)
         /\ blockUntil' \in Nat
         /\ misses' \in Seq(Nat)
<1>1. now \in Nat BY ConstantsOK DEF TypeOK
<1>2. CASE verdict \in {"absent", "expired", "mismatch"}
  <2>1. RegisterFailedAttempt BY <1>2 DEF GuessesAfter
  <2>2. misses' \in Seq(Nat)
    <3>1. Append(misses, now) \in Seq(Nat) BY <1>1 DEF TypeOK
    <3>2. MaxFailedAttempts + 1 \in Nat \ {0} BY ConstantsOK
    <3> QED BY <2>1, <3>1, <3>2, LastOfType DEF RegisterFailedAttempt
  <2> QED BY <2>1, <2>2, <1>1, ConstantsOK DEF RegisterFailedAttempt, TypeOK
<1>3. CASE verdict = "accepted"
  <2>1. failedAttempts' = 0 /\ blockUntil' = 0 /\ misses' = <<>>
    BY <1>3 DEF GuessesAfter
  <2> QED BY <2>1, ConstantsOK
<1>4. CASE verdict \in {"format", "blocked"}
  BY <1>4 DEF GuessesAfter, guessVars, TypeOK
<1> QED BY <1>2, <1>3, <1>4

LEMMA VerdictType ==
  ASSUME NEW code
  PROVE  TokenVerdict(code) \in
           {"absent", "expired", "mismatch", "accepted", "format", "blocked"}
BY DEF TokenVerdict

\* The parts of the type invariant that the helpers of the handlers change.
LEMMA CountCommandType ==
  ASSUME TypeOK, CountCommand
  PROVE  lastCmdTime' \in Nat /\ cmdBurst' \in 0..RateLimitMax
BY ConstantsOK DEF TypeOK, CountCommand, Bumped, Smaller

LEMMA OccupySlotType ==
  ASSUME TypeOK, NEW slot, NEW live \in BOOLEAN,
         slot.args \in (Args \ LongArgs) \cup {NoArgs},
         slot.command \in Confirmable \cup {NoCommand},
         NEW command \in Confirmable, NEW args \in Args \cup {NoArgs},
         OccupySlot(slot, live, command, args)
  PROVE  /\ pending' \in [active : BOOLEAN, command : Confirmable \cup {NoCommand},
                          args : (Args \ LongArgs) \cup {NoArgs}, expiresAt : Nat]
         /\ asked' \in 0..MaxAsks
         /\ lastAsk' \in [command : Confirmable \cup {NoCommand}, time : Nat, ttl : Nat]
         /\ cancelled' \subseteq Confirmable \cup {NoCommand}
<1>1. now \in Nat /\ tokenTtl \in Nat /\ now + tokenTtl \in Nat /\ asked \in Nat
  BY ConstantsOK DEF TypeOK
<1>2. StoredArgs(slot, args) \in (Args \ LongArgs) \cup {NoArgs}
  BY StoredArgsType
<1>3. asked' \in 0..MaxAsks
  BY <1>1, ConstantsOK DEF OccupySlot
<1>4. pending' \in [active : BOOLEAN, command : Confirmable \cup {NoCommand},
                    args : (Args \ LongArgs) \cup {NoArgs}, expiresAt : Nat]
  <2>1. command \in Confirmable \cup {NoCommand} OBVIOUS
  <2> QED BY <2>1, <1>1, <1>2 DEF OccupySlot
<1>5. lastAsk' \in [command : Confirmable \cup {NoCommand}, time : Nat, ttl : Nat]
  BY <1>1 DEF OccupySlot
<1>6. cancelled' \subseteq Confirmable \cup {NoCommand}
  BY DEF OccupySlot, TypeOK
<1> QED BY <1>3, <1>4, <1>5, <1>6

LEMMA TokenAfterType ==
  ASSUME TypeOK, NEW verdict, TokenAfter(verdict)
  PROVE  /\ lastToken' \in {NoToken} \cup 0..MaxToken
         /\ lastTokenTime' \in Nat /\ tokenAsk' \in Nat
BY SMTT(30) DEF TypeOK, TokenAfter, tokenVars

LEMMA IssueTokenType ==
  ASSUME TypeOK, IssueToken
  PROVE  /\ lastToken' \in {NoToken} \cup 0..MaxToken
         /\ lastTokenTime' \in Nat /\ tokenAsk' \in Nat
BY ConstantsOK DEF TypeOK, IssueToken

----------------------------------------------------------------------------
\* The types hold in every reachable state: the counters of security.c never
\* leave their ranges and the slot never holds arguments that do not fit.
THEOREM TypeCorrect == Spec => []TypeOK
<1>1. Init => TypeOK
  <2> SUFFICES ASSUME Init PROVE TypeOK OBVIOUS
  <2>1. tokenTtl \in 1..TokenTtlMax
    BY ConstantsOK, TtlAfterType DEF Init
  <2>2. misses \in Seq(Nat) BY DEF Init
  <2>3. /\ pending \in [active : BOOLEAN, command : Confirmable \cup {NoCommand},
                        args : (Args \ LongArgs) \cup {NoArgs}, expiresAt : Nat]
        /\ lastAsk \in [command : Confirmable \cup {NoCommand}, time : Nat, ttl : Nat]
        /\ lastAccept \in [command : Confirmable \cup {NoCommand}, via : {"none", "slot", "token"}]
    BY DEF Init
  <2>4. /\ now \in StartTime..MaxTime /\ failedAttempts \in 0..(MaxFailedAttempts - 1)
        /\ cmdBurst \in 0..RateLimitMax /\ asked \in 0..MaxAsks
    BY ConstantsOK DEF Init
  <2>5. totp \in BOOLEAN /\ modeSwitched \in BOOLEAN BY DEF Init
  <2> QED BY <2>1, <2>2, <2>3, <2>4, <2>5 DEF Init, TypeOK
<1>2. TypeOK /\ [Next]_vars => TypeOK'
  <2> SUFFICES ASSUME TypeOK, [Next]_vars PROVE TypeOK' OBVIOUS
  <2> USE ConstantsOK
  <2>slot. /\ pending.args \in (Args \ LongArgs) \cup {NoArgs}
           /\ pending.command \in Confirmable \cup {NoCommand}
           /\ NoPending.args \in (Args \ LongArgs) \cup {NoArgs}
           /\ NoPending.command \in Confirmable \cup {NoCommand}
           /\ SlotLive \in BOOLEAN
    BY DEF TypeOK, SlotLive
  <2>count. CountCommand => lastCmdTime' \in Nat /\ cmdBurst' \in 0..RateLimitMax
    BY CountCommandType
  <2>empty. NoPending \in [active : BOOLEAN, command : Confirmable \cup {NoCommand},
                           args : (Args \ LongArgs) \cup {NoArgs}, expiresAt : Nat]
    OBVIOUS
  <2>request. ASSUME NEW command \in Confirmable, NEW args \in Args \cup {NoArgs},
                     Admitted, RequestConfirmation(command, args),
                     UNCHANGED <<now, examined, confVars, acceptVars>>
              PROVE  TypeOK'
    <3>1. /\ pending' \in [active : BOOLEAN, command : Confirmable \cup {NoCommand},
                           args : (Args \ LongArgs) \cup {NoArgs}, expiresAt : Nat]
          /\ asked' \in 0..MaxAsks
          /\ lastAsk' \in [command : Confirmable \cup {NoCommand}, time : Nat, ttl : Nat]
          /\ cancelled' \subseteq Confirmable \cup {NoCommand}
      BY <2>request, <2>slot, OccupySlotType DEF RequestConfirmation
    <3>2. /\ lastToken' \in {NoToken} \cup 0..MaxToken
          /\ lastTokenTime' \in Nat /\ tokenAsk' \in Nat
      BY <2>request, IssueTokenType DEF RequestConfirmation, TypeOK, tokenVars
    <3>3. lastCmdTime' \in Nat /\ cmdBurst' \in 0..RateLimitMax
      BY <2>request, <2>count DEF Admitted
    <3>4. UNCHANGED guessVars BY <2>request DEF RequestConfirmation
    <3> QED BY <2>request, <3>1, <3>2, <3>3, <3>4
            DEF TypeOK, guessVars, confVars, acceptVars
  <2>quiet. ASSUME CountCommand, pending' \in {pending, NoPending},
                   UNCHANGED <<now, examined, tokenVars, guessVars, confVars, askVars, acceptVars>>
            PROVE  TypeOK'
    <3>1. pending' \in [active : BOOLEAN, command : Confirmable \cup {NoCommand},
                        args : (Args \ LongArgs) \cup {NoArgs}, expiresAt : Nat]
      BY <2>quiet, <2>empty DEF TypeOK
    <3> QED BY <2>quiet, <2>count, <3>1
            DEF TypeOK, tokenVars, guessVars, confVars, askVars, acceptVars
  <2>verdict. ASSUME NEW verdict \in {"absent", "expired", "mismatch", "accepted", "format", "blocked"},
                     TokenAfter(verdict), GuessesAfter(verdict)
              PROVE  /\ lastToken' \in {NoToken} \cup 0..MaxToken
                     /\ lastTokenTime' \in Nat /\ tokenAsk' \in Nat
                     /\ failedAttempts' \in 0..(MaxFailedAttempts - 1)
                     /\ blockUntil' \in Nat /\ misses' \in Seq(Nat)
    BY <2>verdict, TokenAfterType, GuessesAfterType
  <2>examine. ASSUME NEW compared, Examine(compared) PROVE examined' \in Nat
    BY <2>examine DEF Examine, TypeOK
  <2>accept. ASSUME NEW command \in Confirmable, NEW via \in {"slot", "token"},
                    Accept(command, via)
             PROVE  /\ accepted' \in Nat
                    /\ lastAccept' \in [command : Confirmable \cup {NoCommand},
                                        via : {"none", "slot", "token"}]
    BY <2>accept DEF Accept, TypeOK
  <2>shutdown. ASSUME NEW command \in GatedCommands, RequestShutdown(command)
               PROVE  runs' \in Nat /\ shutdown' \in GatedCommands \cup {NoCommand}
    BY <2>shutdown DEF RequestShutdown, TypeOK
  <2>1. ASSUME NEW command \in GatedCommands, NEW args \in Args \cup {NoArgs},
               RequestGated(command, args)
        PROVE  TypeOK'
    BY <2>1, <2>request DEF RequestGated
  <2>2. ASSUME NEW args \in ChangeArgs, RequestService(args) PROVE TypeOK'
    BY <2>2, <2>request DEF RequestService
  <2>3. CASE AnswerOnly BY <2>3, <2>quiet DEF AnswerOnly, Admitted
  <2>4. CASE Throttled BY <2>4, <2>quiet DEF Throttled
  <2>5. CASE ConfirmNothingPending
    BY <2>5, <2>quiet DEF ConfirmNothingPending, Admitted
  <2>6. ASSUME NEW code \in Codes, ConfirmRejected(code) PROVE TypeOK'
    <3>1. /\ lastToken' \in {NoToken} \cup 0..MaxToken
          /\ lastTokenTime' \in Nat /\ tokenAsk' \in Nat
          /\ failedAttempts' \in 0..(MaxFailedAttempts - 1)
          /\ blockUntil' \in Nat /\ misses' \in Seq(Nat)
          /\ examined' \in Nat
      <4>1. CASE totp
        <5>1. UNCHANGED <<tokenVars, guessVars>> /\ Examine(code <= MaxToken)
          BY <2>6, <4>1 DEF ConfirmRejected
        <5> QED BY <5>1, <2>examine DEF tokenVars, guessVars, TypeOK
      <4>2. CASE ~totp
        <5>1. /\ Examine(TokenVerdict(code) = "mismatch")
              /\ TokenAfter(TokenVerdict(code)) /\ GuessesAfter(TokenVerdict(code))
          BY <2>6, <4>2 DEF ConfirmRejected
        <5> QED BY <5>1, <2>examine, <2>verdict, VerdictType
      <4> QED BY <4>1, <4>2 DEF TypeOK
    <3>2. CountCommand /\ pending' = NoPending
          /\ UNCHANGED <<now, confVars, askVars, acceptVars>>
      BY <2>6 DEF ConfirmRejected, Admitted
    <3> QED BY <3>1, <3>2, <2>count, <2>empty DEF TypeOK, confVars, askVars, acceptVars
  <2>spent. ASSUME NEW code \in Codes,
                   IF totp THEN UNCHANGED <<tokenVars, guessVars>>
                   ELSE TokenAfter("accepted") /\ GuessesAfter("accepted")
            PROVE  /\ lastToken' \in {NoToken} \cup 0..MaxToken
                   /\ lastTokenTime' \in Nat /\ tokenAsk' \in Nat
                   /\ failedAttempts' \in 0..(MaxFailedAttempts - 1)
                   /\ blockUntil' \in Nat /\ misses' \in Seq(Nat)
    <3>1. CASE totp
      BY <2>spent, <3>1 DEF tokenVars, guessVars, TypeOK
    <3>2. CASE ~totp BY <2>spent, <3>2, <2>verdict
    <3> QED BY <3>1, <3>2
  <2>7. ASSUME NEW code \in Codes, ConfirmRuns(code) PROVE TypeOK'
    <3>1. /\ CountCommand /\ Examine(TRUE) /\ pending.command \in GatedCommands
          /\ Accept(pending.command, "slot") /\ RequestShutdown(pending.command)
          /\ pending' = NoPending
          /\ UNCHANGED <<now, confVars, askVars>>
          /\ IF totp THEN UNCHANGED <<tokenVars, guessVars>>
             ELSE TokenAfter("accepted") /\ GuessesAfter("accepted")
      BY <2>7 DEF ConfirmRuns, Admitted
    <3> QED BY <3>1, <2>count, <2>examine, <2>accept, <2>shutdown, <2>empty, <2>spent
            DEF TypeOK, confVars, askVars
  <2>8. ASSUME NEW code \in Codes, ConfirmAsksAgain(code) PROVE TypeOK'
    <3>1. /\ CountCommand /\ Examine(TRUE)
          /\ Accept("/service", "slot")
          /\ OccupySlot(NoPending, FALSE, "/service", pending.args)
          /\ UNCHANGED <<now, confVars, runs, shutdown>>
      BY <2>8 DEF ConfirmAsksAgain, Admitted
    <3>2. /\ pending' \in [active : BOOLEAN, command : Confirmable \cup {NoCommand},
                           args : (Args \ LongArgs) \cup {NoArgs}, expiresAt : Nat]
          /\ asked' \in 0..MaxAsks
          /\ lastAsk' \in [command : Confirmable \cup {NoCommand}, time : Nat, ttl : Nat]
          /\ cancelled' \subseteq Confirmable \cup {NoCommand}
      <4>1. pending.args \in Args \cup {NoArgs} BY <2>slot
      <4> QED BY <3>1, <4>1, <2>slot, OccupySlotType
    <3>3. /\ lastToken' \in {NoToken} \cup 0..MaxToken
          /\ lastTokenTime' \in Nat /\ tokenAsk' \in Nat
          /\ failedAttempts' \in 0..(MaxFailedAttempts - 1)
          /\ blockUntil' \in Nat /\ misses' \in Seq(Nat)
      <4>1. CASE totp
        <5>1. UNCHANGED <<tokenVars, guessVars>> BY <2>8, <4>1 DEF ConfirmAsksAgain
        <5> QED BY <5>1 DEF tokenVars, guessVars, TypeOK
      <4>2. CASE ~totp
        <5>1. IssueToken /\ GuessesAfter("accepted") BY <2>8, <4>2 DEF ConfirmAsksAgain
        <5> QED BY <5>1, IssueTokenType, GuessesAfterType
      <4> QED BY <4>1, <4>2 DEF TypeOK
    <3> QED BY <3>1, <3>2, <3>3, <2>count, <2>examine, <2>accept DEF TypeOK, confVars
  <2>9. ASSUME NEW code \in Codes, ConfirmUsage(code) PROVE TypeOK'
    <3>1. /\ CountCommand /\ Examine(TRUE)
          /\ Accept("/service", "slot")
          /\ pending' = NoPending
          /\ UNCHANGED <<now, confVars, askVars, runs, shutdown>>
          /\ IF totp THEN UNCHANGED <<tokenVars, guessVars>>
             ELSE TokenAfter("accepted") /\ GuessesAfter("accepted")
      BY <2>9 DEF ConfirmUsage, Admitted
    <3> QED BY <3>1, <2>count, <2>examine, <2>accept, <2>empty, <2>spent
            DEF TypeOK, confVars, askVars
  <2>10. ASSUME NEW code \in Codes, LegacyRejected(code) PROVE TypeOK'
    <3>1. /\ CountCommand /\ Examine(TokenVerdict(code) = "mismatch")
          /\ TokenAfter(TokenVerdict(code)) /\ GuessesAfter(TokenVerdict(code))
          /\ UNCHANGED <<now, pending, confVars, askVars, acceptVars>>
      BY <2>10 DEF LegacyRejected, Admitted
    <3> QED BY <3>1, <2>count, <2>examine, <2>verdict, VerdictType
            DEF TypeOK, confVars, askVars, acceptVars
  <2>11. ASSUME NEW code \in Codes, NEW command \in GatedCommands, LegacyRuns(command, code)
         PROVE  TypeOK'
    <3>1. /\ CountCommand /\ Examine(TRUE)
          /\ Accept(command, "token") /\ RequestShutdown(command)
          /\ TokenAfter("accepted") /\ GuessesAfter("accepted")
          /\ UNCHANGED <<now, pending, confVars, askVars>>
      BY <2>11 DEF LegacyRuns, Admitted
    <3> QED BY <3>1, <2>count, <2>examine, <2>accept, <2>shutdown, <2>verdict
            DEF TypeOK, confVars, askVars
  <2>12. ASSUME NEW useTotp \in BOOLEAN, NEW ttl \in ConfigTtls, Reload(useTotp, ttl)
         PROVE  TypeOK'
    <3>1. tokenTtl' \in 1..TokenTtlMax
      BY <2>12, TtlAfterType DEF Reload, TypeOK
    <3>2. modeSwitched' \in BOOLEAN BY <2>12 DEF Reload, TypeOK
    <3> QED BY <2>12, <3>1, <3>2
            DEF Reload, TypeOK, tokenVars, guessVars, rateVars, askVars, acceptVars
  <2>13. ASSUME NEW useTotp \in BOOLEAN, NEW ttl \in ConfigTtls, Restart(useTotp, ttl)
         PROVE  TypeOK'
    <3>1. tokenTtl' \in 1..TokenTtlMax
      BY <2>13, TtlAfterType DEF Restart
    <3>2. misses' \in Seq(Nat) BY <2>13 DEF Restart
    <3> QED BY <2>13, <3>1, <3>2, <2>empty DEF Restart, TypeOK
  <2>14. CASE Tick
    BY <2>14 DEF Tick, TypeOK, tokenVars, guessVars, rateVars, confVars, askVars, acceptVars
  <2>15. CASE UNCHANGED vars
    BY <2>15 DEF vars, TypeOK, tokenVars, guessVars, rateVars, confVars, askVars, acceptVars
  <2> QED
    BY <2>1, <2>2, <2>3, <2>4, <2>5, <2>6, <2>7, <2>8, <2>9, <2>10, <2>11, <2>12,
       <2>13, <2>14, <2>15 DEF Next
<1> QED BY <1>1, <1>2, PTL DEF Spec

----------------------------------------------------------------------------
(* The inductive invariants *)

\* A live slot is the slot of the latest request.
SlotInv ==
  pending.active => /\ asked > 0
                    /\ pending.command = lastAsk.command
                    /\ pending.expiresAt = lastAsk.time + lastAsk.ttl

\* A live token belongs to a request, and no request is newer than the clock
\* or older than the live token.
TokenInv ==
  /\ (tokenAsk # 0) <=> (lastToken >= 0)
  /\ tokenAsk <= asked
  /\ lastTokenTime <= lastAsk.time
  /\ lastAsk.time <= now

\* Without a change of the method a token is live only when tokens are used.
OnceInv ==
  /\ OncePerRequest
  /\ ~modeSwitched /\ totp => lastToken < 0

\* The comparisons of this second were counted by the rate limiter.
RateInv ==
  /\ lastCmdTime <= now
  /\ examined <= RateBurstMax
  /\ IF lastCmdTime = now THEN examined <= cmdBurst ELSE examined = 0

\* The failed attempt before the failedAttempts latest ones opened the block
\* that those had to wait for.
GuessInv ==
  /\ failedAttempts <= Len(misses) /\ Len(misses) <= MaxFailedAttempts + 1
  /\ \A i \in 1..Len(misses) : misses[i] <= now
  /\ \A i, j \in 1..Len(misses) : i <= j => misses[i] <= misses[j]
  /\ Len(misses) > failedAttempts
       => blockUntil = misses[Len(misses) - failedAttempts] + BlockDuration
  /\ GuessRateBounded

----------------------------------------------------------------------------
(* What the steps have in common: how they treat the two credentials. *)

TokenGone == lastToken' = NoToken /\ tokenAsk' = 0 /\ lastTokenTime' \in {lastTokenTime, 0}

\* A request takes the slot and, where tokens are used, the token.
NewRequest ==
  /\ \E slot, live, command, args : OccupySlot(slot, live, command, args)
  /\ IF totp THEN UNCHANGED tokenVars ELSE IssueToken

AskStep ==
  /\ NewRequest
  /\ UNCHANGED <<now, totp, modeSwitched, accepted, lastAccept>>

WithdrawStep ==
  /\ pending' \in {pending, NoPending}
  /\ UNCHANGED tokenVars \/ TokenGone
  /\ now' \in {now, now + 1}
  /\ UNCHANGED <<asked, lastAsk, totp, modeSwitched, accepted, lastAccept>>

SwitchStep ==
  /\ UNCHANGED <<now, asked, lastAsk, accepted, lastAccept>>
  /\ \/ /\ UNCHANGED <<pending, tokenVars>>
        /\ modeSwitched' = (modeSwitched \/ (totp' # totp /\ (pending.active \/ lastToken >= 0)))
     \/ pending' = NoPending /\ TokenGone /\ UNCHANGED modeSwitched

SlotAcceptStep ==
  /\ SlotLive /\ \E code \in Codes : CodeValid(code)
  /\ accepted' = accepted + 1
  /\ lastAccept' = [command |-> pending.command, via |-> "slot"]
  /\ UNCHANGED <<now, totp, modeSwitched>>
  /\ \/ NewRequest
     \/ /\ pending' = NoPending /\ UNCHANGED <<asked, lastAsk>>
        /\ IF totp THEN UNCHANGED tokenVars ELSE TokenGone

TokenAcceptStep ==
  /\ \E code \in Codes : TokenVerdict(code) = "accepted"
  /\ accepted' = accepted + 1
  /\ \E command : lastAccept' = [command |-> command, via |-> "token"]
  /\ TokenGone
  /\ UNCHANGED <<now, totp, modeSwitched, pending, asked, lastAsk>>

\* Every step of the bot treats the credentials in one of five ways.
LEMMA StepShape ==
  ASSUME [Next]_vars
  PROVE  AskStep \/ WithdrawStep \/ SwitchStep \/ SlotAcceptStep \/ TokenAcceptStep
<1>gone. ASSUME NEW verdict, TokenAfter(verdict) PROVE UNCHANGED tokenVars \/ TokenGone
  BY <1>gone DEF TokenAfter, TokenGone
<1>quiet. ASSUME pending' \in {pending, NoPending}, now' = now,
                 UNCHANGED <<confVars, askVars, accepted, lastAccept>>,
                 UNCHANGED tokenVars \/ TokenGone
          PROVE  WithdrawStep
  BY <1>quiet DEF WithdrawStep, confVars, askVars
<1>1. ASSUME NEW command \in GatedCommands, NEW args \in Args \cup {NoArgs},
             RequestGated(command, args)
      PROVE  AskStep
  BY <1>1 DEF RequestGated, RequestConfirmation, AskStep, NewRequest, confVars, acceptVars
<1>2. ASSUME NEW args \in ChangeArgs, RequestService(args) PROVE AskStep
  BY <1>2 DEF RequestService, RequestConfirmation, AskStep, NewRequest, confVars, acceptVars
<1>3. CASE AnswerOnly \/ Throttled \/ ConfirmNothingPending
  BY <1>3, <1>quiet DEF AnswerOnly, Throttled, ConfirmNothingPending, acceptVars
<1>4. ASSUME NEW code \in Codes, ConfirmRejected(code) PROVE WithdrawStep
  <2>1. UNCHANGED tokenVars \/ TokenGone
    <3>1. UNCHANGED tokenVars \/ TokenAfter(TokenVerdict(code)) BY <1>4 DEF ConfirmRejected
    <3> QED BY <3>1, <1>gone
  <2> QED BY <1>4, <2>1, <1>quiet DEF ConfirmRejected, acceptVars
<1>5. ASSUME NEW code \in Codes, LegacyRejected(code) PROVE WithdrawStep
  <2>1. UNCHANGED tokenVars \/ TokenGone BY <1>5, <1>gone DEF LegacyRejected
  <2> QED BY <1>5, <2>1, <1>quiet DEF LegacyRejected, acceptVars
<1>spent. TokenAfter("accepted") => TokenGone
  BY DEF TokenAfter, TokenGone
<1>6. ASSUME NEW code \in Codes, ConfirmRuns(code) PROVE SlotAcceptStep
  BY <1>6, <1>spent DEF ConfirmRuns, SlotAcceptStep, Accept, confVars, askVars
<1>7. ASSUME NEW code \in Codes, ConfirmUsage(code) PROVE SlotAcceptStep
  BY <1>7, <1>spent DEF ConfirmUsage, SlotAcceptStep, Accept, confVars, askVars
<1>8. ASSUME NEW code \in Codes, ConfirmAsksAgain(code) PROVE SlotAcceptStep
  BY <1>8 DEF ConfirmAsksAgain, SlotAcceptStep, NewRequest, Accept, confVars
<1>9. ASSUME NEW code \in Codes, NEW command \in GatedCommands, LegacyRuns(command, code)
      PROVE  TokenAcceptStep
  BY <1>9, <1>spent DEF LegacyRuns, TokenAcceptStep, Accept, confVars, askVars
<1>10. ASSUME NEW useTotp \in BOOLEAN, NEW ttl \in ConfigTtls,
              Reload(useTotp, ttl) \/ Restart(useTotp, ttl)
       PROVE  SwitchStep
  BY <1>10 DEF Reload, Restart, SwitchStep, TokenGone, askVars, acceptVars
<1>11. CASE Tick \/ UNCHANGED vars
  BY <1>11 DEF Tick, vars, WithdrawStep, tokenVars, confVars, askVars, acceptVars
<1> QED
  BY <1>1, <1>2, <1>3, <1>4, <1>5, <1>6, <1>7, <1>8, <1>9, <1>10, <1>11 DEF Next

\* The token a validation accepts is live and within the TTL in force.
LEMMA AcceptedToken ==
  ASSUME NEW code, TokenVerdict(code) = "accepted", TypeOK
  PROVE  lastToken >= 0 /\ now - lastTokenTime <= tokenTtl
BY ConstantsOK DEF TokenVerdict, TypeOK

CredentialInv == TypeOK /\ SlotInv /\ TokenInv /\ OnceInv

LEMMA SlotStep ==
  ASSUME TypeOK, SlotInv, [Next]_vars
  PROVE  SlotInv'
<1>1. CASE NewRequest
  BY <1>1 DEF NewRequest, OccupySlot, SlotInv, TypeOK
<1>2. CASE pending' \in {pending, NoPending} /\ UNCHANGED <<asked, lastAsk>>
  BY <1>2 DEF SlotInv
<1> QED
  BY <1>1, <1>2, StepShape
     DEF AskStep, WithdrawStep, SwitchStep, SlotAcceptStep, TokenAcceptStep

LEMMA TokenStep ==
  ASSUME TypeOK, TokenInv, [Next]_vars
  PROVE  TokenInv'
<1>. USE ConstantsOK DEF TokenInv, TypeOK
<1>1. ASSUME NewRequest, now' = now PROVE TokenInv'
  BY <1>1 DEF NewRequest, OccupySlot, IssueToken, tokenVars
<1>2. ASSUME UNCHANGED <<asked, lastAsk>>, UNCHANGED tokenVars \/ TokenGone,
             now' \in {now, now + 1}
      PROVE  TokenInv'
  BY <1>2 DEF TokenGone, tokenVars
<1>3. CASE AskStep BY <1>3, <1>1 DEF AskStep
<1>4. CASE WithdrawStep BY <1>4, <1>2 DEF WithdrawStep
<1>5. CASE SwitchStep BY <1>5, <1>2 DEF SwitchStep
<1>6. CASE SlotAcceptStep BY <1>6, <1>1, <1>2 DEF SlotAcceptStep
<1>7. CASE TokenAcceptStep BY <1>7, <1>2 DEF TokenAcceptStep
<1> QED BY <1>3, <1>4, <1>5, <1>6, <1>7, StepShape

\* The bookkeeping of the two methods: the credential in use accounts for
\* the requests that were not confirmed yet.
LEMMA OnceStep ==
  ASSUME TypeOK, OnceInv, [Next]_vars
  PROVE  OnceInv'
<1>. USE DEF OnceInv, OncePerRequest
<1>1. /\ asked \in Nat /\ accepted \in Nat /\ lastToken \in Int
      /\ totp \in BOOLEAN /\ modeSwitched \in BOOLEAN /\ pending.active \in BOOLEAN
  BY ConstantsOK DEF TypeOK
<1>2. CASE AskStep
  <2>1. asked' = asked + 1 /\ pending'.active = TRUE
    BY <1>2 DEF AskStep, NewRequest, OccupySlot
  <2>2. CASE totp
    BY <1>1, <1>2, <2>1, <2>2 DEF AskStep, NewRequest, tokenVars
  <2>3. CASE ~totp
    BY <1>1, <1>2, <2>1, <2>3, ConstantsOK DEF AskStep, NewRequest, IssueToken
  <2> QED BY <2>2, <2>3
<1>3. CASE WithdrawStep
  BY <1>1, <1>3 DEF WithdrawStep, TokenGone, tokenVars
<1>4. CASE SwitchStep
  <2>1. UNCHANGED <<asked, accepted>> BY <1>4 DEF SwitchStep
  <2>2. CASE pending' = NoPending /\ TokenGone /\ UNCHANGED modeSwitched
    <3>1. pending'.active = FALSE /\ lastToken' = NoToken BY <2>2 DEF TokenGone
    <3>2. ~modeSwitched => accepted <= asked BY <1>1
    <3>3. ~modeSwitched' => accepted' + 0 <= asked' BY <1>1, <2>1, <2>2, <3>2
    <3> QED BY <3>1, <3>3
  <2>3. CASE /\ UNCHANGED <<pending, tokenVars>>
             /\ modeSwitched' = (modeSwitched \/ (totp' # totp /\ (pending.active \/ lastToken >= 0)))
    <3>1. UNCHANGED <<pending, lastToken>> BY <2>3 DEF tokenVars
    <3>2. CASE modeSwitched'
      BY <3>2
    <3>3. CASE ~modeSwitched' /\ totp' # totp
      <4>1. ~modeSwitched /\ ~pending.active /\ ~(lastToken >= 0) BY <2>3, <3>3
      <4>2. accepted <= asked BY <1>1, <4>1
      <4> QED BY <1>1, <2>1, <3>1, <4>1, <4>2
    <3>4. CASE ~modeSwitched' /\ totp' = totp
      <4>1. ~modeSwitched BY <2>3, <3>4
      <4> QED BY <1>1, <2>1, <3>1, <3>4, <4>1
    <3> QED BY <3>2, <3>3, <3>4
  <2> QED BY <1>4, <2>2, <2>3 DEF SwitchStep
<1>5. CASE SlotAcceptStep
  <2>1. CASE totp
    <3>1. pending.active /\ UNCHANGED <<lastToken, totp, modeSwitched>> /\ accepted' = accepted + 1
      BY <1>5, <2>1 DEF SlotAcceptStep, NewRequest, SlotLive, tokenVars
    <3>2. \/ asked' = asked + 1 /\ pending'.active = TRUE
          \/ asked' = asked /\ pending'.active = FALSE
      BY <1>5 DEF SlotAcceptStep, NewRequest, OccupySlot
    <3> QED BY <1>1, <2>1, <3>1, <3>2
  <2>2. CASE ~totp
    <3>1. lastToken >= 0
      BY <1>5, <2>2, AcceptedToken DEF SlotAcceptStep, CodeValid
    <3>2. UNCHANGED <<totp, modeSwitched>> /\ accepted' = accepted + 1
      BY <1>5 DEF SlotAcceptStep
    <3>3. \/ asked' = asked + 1
          \/ asked' = asked /\ lastToken' = NoToken
      BY <1>5, <2>2 DEF SlotAcceptStep, NewRequest, OccupySlot, TokenGone
    <3> QED BY <1>1, <2>2, <3>1, <3>2, <3>3
  <2> QED BY <2>1, <2>2
<1>6. CASE TokenAcceptStep
  <2>1. lastToken >= 0 BY <1>6, AcceptedToken DEF TokenAcceptStep
  <2> QED BY <1>1, <1>6, <2>1 DEF TokenAcceptStep, TokenGone
<1> QED BY <1>2, <1>3, <1>4, <1>5, <1>6, StepShape

THEOREM CredentialInvariant == Spec => []CredentialInv
<1>1. Init => SlotInv /\ TokenInv /\ OnceInv
  BY ConstantsOK DEF Init, SlotInv, TokenInv, OnceInv, OncePerRequest
<1>2. TypeOK /\ SlotInv /\ TokenInv /\ OnceInv /\ [Next]_vars
        => SlotInv' /\ TokenInv' /\ OnceInv'
  BY SlotStep, TokenStep, OnceStep
<1> QED BY <1>1, <1>2, TypeCorrect, PTL DEF Spec, CredentialInv

\* One request is confirmed at most once unless a reload changes the method
\* under it.
THEOREM AtMostOncePerRequest == Spec => []OncePerRequest
<1>1. CredentialInv => OncePerRequest BY DEF CredentialInv, OnceInv
<1> QED BY <1>1, CredentialInvariant, PTL

\* /confirm confirms the command of the latest prompt.
THEOREM LatestRequestRuns == Spec => SlotRunsLastRequest
<1>1. ASSUME CredentialInv, [Next]_vars, accepted' # accepted, lastAccept'.via = "slot"
      PROVE  lastAccept'.command = lastAsk.command
  <2>1. SlotAcceptStep
    BY <1>1, StepShape DEF AskStep, WithdrawStep, SwitchStep, TokenAcceptStep
  <2> QED BY <1>1, <2>1 DEF SlotAcceptStep, SlotLive, CredentialInv, SlotInv
<1> QED BY <1>1, CredentialInvariant, PTL DEF Spec, SlotRunsLastRequest

\* No accepted code is older than the TTL announced with the request nor, for
\* a token, than the TTL in force.
THEOREM ConfirmationIsFresh == Spec => FreshConfirmation
<1>1. ASSUME CredentialInv, [Next]_vars, accepted' # accepted
      PROVE  /\ lastAccept'.via = "slot" => now - lastAsk.time <= lastAsk.ttl
             /\ lastAccept'.via = "token" \/ ~totp => now - lastAsk.time <= tokenTtl
  <2>1. /\ now \in Nat /\ lastAsk.time \in Nat /\ lastAsk.ttl \in Nat
        /\ lastTokenTime \in Nat /\ tokenTtl \in Nat
    BY <1>1, ConstantsOK DEF CredentialInv, TypeOK
  <2>2. lastTokenTime <= lastAsk.time BY <1>1 DEF CredentialInv, TokenInv
  <2>3. CASE SlotAcceptStep
    <3>1. now <= lastAsk.time + lastAsk.ttl
      BY <1>1, <2>3 DEF SlotAcceptStep, SlotLive, CredentialInv, SlotInv
    <3>2. ~totp => now - lastTokenTime <= tokenTtl
      BY <1>1, <2>3, AcceptedToken DEF SlotAcceptStep, CodeValid, CredentialInv
    <3>3. lastAccept'.via = "slot" BY <2>3 DEF SlotAcceptStep
    <3> QED BY <2>1, <2>2, <3>1, <3>2, <3>3
  <2>4. CASE TokenAcceptStep
    <3>1. now - lastTokenTime <= tokenTtl
      BY <1>1, <2>4, AcceptedToken DEF TokenAcceptStep, CredentialInv
    <3>2. lastAccept'.via = "token" BY <2>4 DEF TokenAcceptStep
    <3> QED BY <2>1, <2>2, <3>1, <3>2
  <2> QED
    BY <1>1, <2>3, <2>4, StepShape DEF AskStep, WithdrawStep, SwitchStep
<1> QED BY <1>1, CredentialInvariant, PTL DEF Spec, FreshConfirmation

\* The dispatcher implements the abstract protocol: the slot is the latest
\* request's while it is active, the token the one of the request that issued
\* it.
THEOREM Implementation == Spec => ImplementsTwoStep
<1>1. Init => Promise!Init
  BY DEF Init, Promise!Init
<1>2. ASSUME CredentialInv, [Next]_vars PROVE [Promise!Next]_(Promise!tsVars)
  <2> DEFINE slot == IF pending.active THEN asked ELSE 0
  <2>1. /\ asked \in Nat /\ tokenAsk \in Nat /\ accepted \in Nat
        /\ (tokenAsk # 0) <=> (lastToken >= 0)
        /\ pending.active => asked > 0
    BY <1>2, ConstantsOK DEF CredentialInv, TypeOK, TokenInv, SlotInv
  <2>2. NewRequest => /\ asked' = asked + 1 /\ slot' = asked'
                      /\ tokenAsk' \in {tokenAsk, asked'}
    BY DEF NewRequest, OccupySlot, IssueToken, tokenVars
  <2>3. UNCHANGED tokenVars \/ TokenGone => tokenAsk' \in {tokenAsk, 0}
    BY DEF tokenVars, TokenGone
  <2>4. pending' \in {pending, NoPending} /\ asked' = asked => slot' \in {slot, 0}
    OBVIOUS
  <2>5. CASE AskStep
    BY <2>2, <2>5 DEF AskStep, Promise!Next, Promise!Ask
  <2>6. CASE WithdrawStep
    BY <2>3, <2>4, <2>6 DEF WithdrawStep, Promise!Next, Promise!Withdraw
  <2>7. CASE SwitchStep
    BY <2>3, <2>4, <2>7 DEF SwitchStep, Promise!Next, Promise!Withdraw
  <2>8. CASE SlotAcceptStep
    <3>1. slot # 0 BY <2>1, <2>8 DEF SlotAcceptStep, SlotLive
    <3>2. CASE NewRequest
      BY <2>2, <2>8, <3>1, <3>2 DEF SlotAcceptStep, Promise!Next, Promise!AcceptSlot
    <3>3. CASE /\ pending' = NoPending /\ UNCHANGED <<asked, lastAsk>>
               /\ IF totp THEN UNCHANGED tokenVars ELSE TokenGone
      <4>1. slot' = 0 /\ tokenAsk' \in {tokenAsk, 0} /\ asked' = asked
        BY <2>3, <3>3
      <4> QED BY <2>8, <3>1, <4>1 DEF SlotAcceptStep, Promise!Next, Promise!AcceptSlot
    <3> QED BY <2>8, <3>2, <3>3 DEF SlotAcceptStep
  <2>9. CASE TokenAcceptStep
    <3>1. tokenAsk # 0 BY <1>2, <2>1, <2>9, AcceptedToken DEF TokenAcceptStep, CredentialInv
    <3> QED BY <2>9, <3>1 DEF TokenAcceptStep, TokenGone, Promise!Next, Promise!AcceptToken
  <2> QED BY <1>2, <2>5, <2>6, <2>7, <2>8, <2>9, StepShape
<1> QED
  BY <1>1, <1>2, CredentialInvariant, PTL DEF Spec, ImplementsTwoStep, Promise!Spec

\* The bot never accepts more codes than its requests minted credentials.
THEOREM BudgetOfTheBot == Spec => []Promise!CredentialBudget
BY Implementation, Promise!BudgetHolds, PTL DEF ImplementsTwoStep

----------------------------------------------------------------------------
(* The rate limiter and the block after failed attempts. *)

\* How a step treats the counter of the rate limiter.
RateStep ==
  \/ CountCommand /\ now' = now /\ examined' = examined
  \/ Admitted /\ now' = now /\ Examine(TRUE)
  \/ UNCHANGED <<rateVars, now, examined>>
  \/ now' = now + 1 /\ examined' = 0 /\ UNCHANGED rateVars
  \/ now' = now /\ examined' = 0 /\ lastCmdTime' = 0 /\ cmdBurst' = 0

LEMMA RateShape ==
  ASSUME TypeOK, [Next]_vars
  PROVE  RateStep
<1>1. ASSUME NEW compared, Examine(compared) PROVE Examine(TRUE) \/ examined' = examined
  BY <1>1 DEF Examine, TypeOK
<1>2. ASSUME Admitted, now' = now, examined' = examined PROVE RateStep
  BY <1>2 DEF RateStep, Admitted
<1>3. ASSUME Admitted, now' = now, NEW compared, Examine(compared) PROVE RateStep
  BY <1>3, <1>1 DEF RateStep, Admitted
<1>4. ASSUME NEW command \in GatedCommands, NEW args \in Args \cup {NoArgs},
             RequestGated(command, args)
      PROVE  RateStep
  BY <1>4, <1>2 DEF RequestGated
<1>5. ASSUME NEW args \in ChangeArgs, RequestService(args) PROVE RateStep
  BY <1>5, <1>2 DEF RequestService
<1>6. CASE AnswerOnly \/ ConfirmNothingPending
  BY <1>6, <1>2 DEF AnswerOnly, ConfirmNothingPending
<1>7. CASE Throttled BY <1>7 DEF Throttled, RateStep
<1>8. ASSUME NEW code \in Codes, ConfirmRejected(code) PROVE RateStep
  <2>1. PICK compared : Examine(compared) BY <1>8 DEF ConfirmRejected
  <2> QED BY <1>8, <2>1, <1>3 DEF ConfirmRejected
<1>9. ASSUME NEW code \in Codes, ConfirmRuns(code) \/ ConfirmAsksAgain(code) \/ ConfirmUsage(code)
      PROVE  RateStep
  BY <1>9 DEF ConfirmRuns, ConfirmAsksAgain, ConfirmUsage, RateStep
<1>10. ASSUME NEW code \in Codes, LegacyRejected(code) PROVE RateStep
  <2>1. PICK compared : Examine(compared) BY <1>10 DEF LegacyRejected
  <2> QED BY <1>10, <2>1, <1>3 DEF LegacyRejected
<1>11. ASSUME NEW code \in Codes, NEW command \in GatedCommands, LegacyRuns(command, code)
       PROVE  RateStep
  BY <1>11 DEF LegacyRuns, RateStep
<1>12. ASSUME NEW useTotp \in BOOLEAN, NEW ttl \in ConfigTtls,
              Reload(useTotp, ttl) \/ Restart(useTotp, ttl)
       PROVE  RateStep
  BY <1>12 DEF Reload, Restart, RateStep
<1>13. CASE Tick \/ UNCHANGED vars
  BY <1>13 DEF Tick, vars, RateStep
<1> QED
  BY <1>4, <1>5, <1>6, <1>7, <1>8, <1>9, <1>10, <1>11, <1>12, <1>13 DEF Next

\* No second of one run of the process sees more comparisons of codes than
\* the burst of the rate limiter.
THEOREM CodesAreRateLimited == Spec => []CodesPerSecond
<1>1. Init => RateInv
  BY ConstantsOK DEF Init, RateInv
<1>2. TypeOK /\ RateInv /\ [Next]_vars => RateInv'
  <2> SUFFICES ASSUME TypeOK, RateInv, [Next]_vars PROVE RateInv' OBVIOUS
  <2>1. /\ now \in Nat /\ now >= 1 /\ lastCmdTime \in Nat /\ examined \in Nat
        /\ cmdBurst \in 0..RateLimitMax
        /\ RateBurstMax \in Nat \ {0} /\ RateLimitMax \in Nat /\ RateBurstMax < RateLimitMax
    BY ConstantsOK DEF TypeOK
  <2>2. CASE CountCommand /\ now' = now /\ examined' = examined
    BY <2>1, <2>2 DEF RateInv, CountCommand, Bumped, Smaller
  <2>3. CASE Admitted /\ now' = now /\ Examine(TRUE)
    BY <2>1, <2>3 DEF RateInv, Admitted, RateExceeded, Examine, CountCommand, Bumped, Smaller
  <2>4. CASE UNCHANGED <<rateVars, now, examined>>
    BY <2>4 DEF RateInv, rateVars
  <2>5. CASE now' = now + 1 /\ examined' = 0 /\ UNCHANGED rateVars
    BY <2>1, <2>5 DEF RateInv, rateVars
  <2>6. CASE now' = now /\ examined' = 0 /\ lastCmdTime' = 0 /\ cmdBurst' = 0
    BY <2>1, <2>6 DEF RateInv
  <2> QED BY <2>2, <2>3, <2>4, <2>5, <2>6, RateShape DEF RateStep
<1>3. RateInv => CodesPerSecond BY DEF RateInv, CodesPerSecond
<1> QED BY <1>1, <1>2, <1>3, TypeCorrect, PTL DEF Spec

\* How a step treats the brute-force state: a failed attempt is registered
\* outside a block only, an accepted code and a restart forget everything.
GuessStep ==
  \/ UNCHANGED guessVars /\ now' \in {now, now + 1}
  \/ RegisterFailedAttempt /\ now >= blockUntil /\ now' = now
  \/ failedAttempts' = 0 /\ misses' = <<>> /\ now' = now

LEMMA GuessShape ==
  ASSUME TypeOK, [Next]_vars
  PROVE  GuessStep
<1>now. now \in Nat /\ blockUntil \in Nat BY ConstantsOK DEF TypeOK
<1>0. ASSUME NEW code, GuessesAfter(TokenVerdict(code)), now' = now PROVE GuessStep
  BY <1>0, <1>now DEF GuessesAfter, TokenVerdict, GuessStep
<1>spent. GuessesAfter("accepted") => failedAttempts' = 0 /\ misses' = <<>>
  BY DEF GuessesAfter
<1>1. ASSUME NEW command \in GatedCommands, NEW args \in Args \cup {NoArgs},
             RequestGated(command, args)
      PROVE  GuessStep
  BY <1>1 DEF RequestGated, RequestConfirmation, GuessStep
<1>2. ASSUME NEW args \in ChangeArgs, RequestService(args) PROVE GuessStep
  BY <1>2 DEF RequestService, RequestConfirmation, GuessStep
<1>3. CASE AnswerOnly \/ Throttled \/ ConfirmNothingPending
  BY <1>3 DEF AnswerOnly, Throttled, ConfirmNothingPending, GuessStep
<1>4. ASSUME NEW code \in Codes, ConfirmRejected(code) PROVE GuessStep
  <2>1. UNCHANGED guessVars \/ GuessesAfter(TokenVerdict(code))
    BY <1>4 DEF ConfirmRejected
  <2>2. now' = now BY <1>4 DEF ConfirmRejected
  <2> QED BY <2>1, <2>2, <1>0 DEF GuessStep
<1>5. ASSUME NEW code \in Codes, ConfirmRuns(code) \/ ConfirmUsage(code) \/ ConfirmAsksAgain(code)
      PROVE  GuessStep
  <2>1. UNCHANGED guessVars \/ GuessesAfter("accepted")
    BY <1>5 DEF ConfirmRuns, ConfirmUsage, ConfirmAsksAgain
  <2>2. now' = now BY <1>5 DEF ConfirmRuns, ConfirmUsage, ConfirmAsksAgain
  <2> QED BY <2>1, <2>2, <1>spent DEF GuessStep
<1>6. ASSUME NEW code \in Codes, LegacyRejected(code) PROVE GuessStep
  BY <1>6, <1>0 DEF LegacyRejected
<1>7. ASSUME NEW code \in Codes, NEW command \in GatedCommands, LegacyRuns(command, code)
      PROVE  GuessStep
  BY <1>7, <1>spent DEF LegacyRuns, GuessStep
<1>8. ASSUME NEW useTotp \in BOOLEAN, NEW ttl \in ConfigTtls,
             Reload(useTotp, ttl) \/ Restart(useTotp, ttl)
      PROVE  GuessStep
  BY <1>8 DEF Reload, Restart, GuessStep
<1>9. CASE Tick \/ UNCHANGED vars
  BY <1>9 DEF Tick, vars, GuessStep
<1> QED
  BY <1>1, <1>2, <1>3, <1>4, <1>5, <1>6, <1>7, <1>8, <1>9 DEF Next

\* The effect of a registered failure on the window of failures: the new
\* window is the old one without its head, when it is full, and with "now" at
\* the end.
LEMMA WindowAfterMiss ==
  ASSUME TypeOK, Len(misses) <= MaxFailedAttempts + 1, RegisterFailedAttempt
  PROVE  LET kept == IF Len(misses) < MaxFailedAttempts + 1 THEN Len(misses)
                                                           ELSE MaxFailedAttempts
         IN  /\ Len(misses') = kept + 1
             /\ misses'[kept + 1] = now
             /\ \A i \in 1..kept : misses'[i] = misses[i + (Len(misses) - kept)]
<1> DEFINE kept == IF Len(misses) < MaxFailedAttempts + 1 THEN Len(misses) ELSE MaxFailedAttempts
<1>1. PICK s : s = Append(misses, now) OBVIOUS
<1>2. /\ now \in Nat /\ misses \in Seq(Nat) /\ Len(misses) \in Nat
      /\ MaxFailedAttempts + 1 \in Nat \ {0} /\ MaxFailedAttempts \in Nat
  BY ConstantsOK, LenProperties DEF TypeOK
<1>3. /\ s \in Seq(Nat) /\ Len(s) = Len(misses) + 1
      /\ s[Len(misses) + 1] = now
      /\ \A i \in 1..Len(misses) : s[i] = misses[i]
  BY <1>1, <1>2, AppendProperties
<1>4. misses' = LastOf(s, MaxFailedAttempts + 1)
  BY <1>1 DEF RegisterFailedAttempt
<1>5. /\ Len(misses') = IF Len(s) < MaxFailedAttempts + 1 THEN Len(s) ELSE MaxFailedAttempts + 1
      /\ \A i \in 1..Len(misses') : misses'[i] = s[i + (Len(s) - Len(misses'))]
  BY <1>2, <1>3, <1>4, LastOfType
<1>6. Len(misses') = kept + 1 /\ kept \in Nat /\ kept <= Len(misses)
  BY <1>2, <1>3, <1>5
<1> HIDE DEF kept
<1>7. ASSUME NEW i \in 1..(kept + 1) PROVE misses'[i] = s[i + (Len(misses) - kept)]
  <2>1. Len(s) - Len(misses') = Len(misses) - kept BY <1>2, <1>3, <1>6
  <2>2. misses'[i] = s[i + (Len(s) - Len(misses'))] BY <1>5, <1>6
  <2> QED BY <2>1, <2>2
<1>8. misses'[kept + 1] = now
  BY <1>2, <1>3, <1>6, <1>7, SMTT(30)
<1>9. ASSUME NEW i \in 1..kept PROVE misses'[i] = misses[i + (Len(misses) - kept)]
  <2>1. i + (Len(misses) - kept) \in 1..Len(misses) BY <1>2, <1>6
  <2>2. i \in 1..(kept + 1) BY <1>6
  <2>3. misses'[i] = s[i + (Len(misses) - kept)] BY <2>2, <1>7
  <2>4. s[i + (Len(misses) - kept)] = misses[i + (Len(misses) - kept)] BY <2>1, <1>3
  <2> QED BY <2>3, <2>4
<1>10. kept = IF Len(misses) < MaxFailedAttempts + 1 THEN Len(misses) ELSE MaxFailedAttempts
  BY DEF kept
<1> QED BY <1>6, <1>8, <1>9, <1>10

\* However failures, blocks, expiries, reloads and restarts interleave, more
\* consecutive failed attempts than open a block take the time of a block.
THEOREM GuessesAreBounded == Spec => []GuessRateBounded
<1>1. Init => GuessInv
  BY ConstantsOK DEF Init, GuessInv, GuessRateBounded
<1>2. TypeOK /\ GuessInv /\ [Next]_vars => GuessInv'
  <2> SUFFICES ASSUME TypeOK, GuessInv, [Next]_vars PROVE GuessInv' OBVIOUS
  <2> DEFINE N == MaxFailedAttempts
             L == Len(misses)
             kept == IF L < N + 1 THEN L ELSE N
  <2>1. /\ N \in Nat \ {0} /\ BlockDuration \in Nat /\ now \in Nat /\ blockUntil \in Nat
        /\ L \in Nat /\ L <= N + 1
        /\ failedAttempts \in 0..(N - 1) /\ failedAttempts <= L
        /\ kept \in Nat /\ kept <= L /\ kept <= N /\ L - kept <= 1
        /\ \A i \in 1..L : misses[i] \in Nat
    <3>1. L \in Nat /\ \A i \in 1..L : misses[i] \in Nat
      BY LenProperties, ElementOfSeq DEF TypeOK
    <3> QED BY <3>1, ConstantsOK DEF TypeOK, GuessInv
  <2>2. /\ \A i \in 1..L : misses[i] <= now
        /\ \A i, j \in 1..L : i <= j => misses[i] <= misses[j]
        /\ L > failedAttempts => blockUntil = misses[L - failedAttempts] + BlockDuration
        /\ GuessRateBounded
    BY DEF GuessInv
  <2>3. CASE UNCHANGED guessVars /\ now' \in {now, now + 1}
    <3>1. \A i \in 1..L : misses[i] <= now'
      BY <2>1, <2>2, <2>3
    <3>2. UNCHANGED <<failedAttempts, blockUntil, misses>>
      BY <2>3 DEF guessVars
    <3> QED BY <3>1, <3>2 DEF GuessInv, GuessRateBounded
  <2>4. CASE failedAttempts' = 0 /\ misses' = <<>> /\ now' = now
    BY <2>4, <2>1 DEF GuessInv, GuessRateBounded
  <2>5. CASE RegisterFailedAttempt /\ now >= blockUntil /\ now' = now
    <3>1. /\ Len(misses') = kept + 1
          /\ misses'[kept + 1] = now
          /\ \A i \in 1..kept : misses'[i] = misses[i + (L - kept)]
      BY <2>1, <2>5, WindowAfterMiss
    <3> HIDE DEF kept, L
    <3>2. \A i \in 1..kept : i + (L - kept) \in 1..L
      BY <2>1
    <3>3. \A i \in 1..(kept + 1) : misses'[i] <= now
      <4>1. ASSUME NEW i \in 1..kept PROVE misses'[i] <= now
        BY <4>1, <3>1, <3>2, <2>2
      <4> QED BY <2>1, <3>1, <4>1
    <3>4. ASSUME NEW i \in 1..(kept + 1), NEW j \in 1..(kept + 1), i <= j
          PROVE  misses'[i] <= misses'[j]
      <4>1. CASE j = kept + 1 BY <4>1, <3>1, <3>3
      <4>2. CASE j # kept + 1
        <5>1. i \in 1..kept /\ j \in 1..kept BY <2>1, <3>4, <4>2
        <5>2. i + (L - kept) <= j + (L - kept) BY <2>1, <3>4
        <5>3. misses[i + (L - kept)] <= misses[j + (L - kept)]
          BY <5>1, <5>2, <3>2, <2>2
        <5> QED BY <5>1, <5>3, <3>1
      <4> QED BY <4>1, <4>2
    <3>5. \/ failedAttempts' = 0 /\ blockUntil' = now + BlockDuration
          \/ failedAttempts' = failedAttempts + 1 /\ failedAttempts' < N /\ blockUntil' = blockUntil
      BY <2>1, <2>5 DEF RegisterFailedAttempt
    <3>6. failedAttempts' <= kept + 1
      BY <2>1, <3>5 DEF kept
    <3>7. kept + 1 > failedAttempts'
            => blockUntil' = misses'[(kept + 1) - failedAttempts'] + BlockDuration
      <4>1. CASE failedAttempts' = 0 /\ blockUntil' = now + BlockDuration
        <5>1. (kept + 1) - failedAttempts' = kept + 1 BY <2>1, <4>1
        <5> QED BY <3>1, <4>1, <5>1
      <4>2. CASE /\ failedAttempts' = failedAttempts + 1 /\ failedAttempts' < N
                 /\ blockUntil' = blockUntil /\ kept + 1 > failedAttempts'
        <5>1. PICK k : k = (kept + 1) - failedAttempts' OBVIOUS
        <5>2. k \in 1..kept /\ k + (L - kept) = L - failedAttempts /\ L > failedAttempts
          BY <2>1, <4>2, <5>1
        <5>3. misses'[k] = misses[L - failedAttempts] BY <5>2, <3>1
        <5> QED BY <2>2, <4>2, <5>1, <5>2, <5>3
      <4> QED BY <3>5, <4>1, <4>2
    <3>8. kept + 1 = N + 1 => misses'[N + 1] - misses'[1] >= BlockDuration
      <4> SUFFICES ASSUME kept = N PROVE now - misses'[1] >= BlockDuration
        BY <2>1, <3>1
      <4>1. L - failedAttempts \in 1..L /\ L > failedAttempts
            /\ 1 + (L - kept) \in 1..L /\ 1 + (L - kept) <= L - failedAttempts
            /\ 1 \in 1..kept
        BY <2>1
      <4>2. misses'[1] = misses[1 + (L - kept)] BY <3>1, <4>1
      <4>3. misses[1 + (L - kept)] <= misses[L - failedAttempts]
        BY <4>1, <2>2
      <4>4. blockUntil = misses[L - failedAttempts] + BlockDuration
        BY <4>1, <2>2
      <4>5. misses[1 + (L - kept)] \in Nat /\ misses[L - failedAttempts] \in Nat
        BY <4>1, <2>1
      <4> QED BY <2>1, <2>5, <4>2, <4>3, <4>4, <4>5
    <3>9. kept + 1 <= N + 1 BY <2>1
    <3> QED
      BY <2>5, <3>1, <3>3, <3>4, <3>6, <3>7, <3>8, <3>9 DEF GuessInv, GuessRateBounded
  <2> QED BY <2>3, <2>4, <2>5, GuessShape DEF GuessStep
<1>3. GuessInv => GuessRateBounded BY DEF GuessInv
<1> QED BY <1>1, <1>2, <1>3, TypeCorrect, PTL DEF Spec
============================================================================
