----------------------------- MODULE PollProofs -----------------------------
(***************************************************************************)
(* Proofs about the way of updates through the poll loop, for every batch  *)
(* limit and any number of updates and restarts.                           *)
(***************************************************************************)
EXTENDS Poll, TLAPS, FiniteSetTheorems, SequenceTheorems

USE DEF NotLoaded, Kinds, Ids

\* What a save may leave in the offset file.
LEMMA SaveOutcome ==
  ASSUME TypeOK, NEW offset \in 0..(Len(posted) + 1), Save(offset)
  PROVE  /\ offsetFile' \in {offset, offsetFile, 0}
         /\ offsetFile' \in 0..(Len(posted) + 1)
         /\ badSave' \in BOOLEAN
         /\ ~badSave' => ~badSave /\ offsetFile' = offset
<1>1. Len(posted) \in Nat BY LenProperties DEF TypeOK
<1>2. badSave \in BOOLEAN /\ offsetFile \in 0..(Len(posted) + 1) BY DEF TypeOK
<1>3. CASE offsetFile' = offset /\ badSave' = badSave BY <1>1, <1>2, <1>3
<1>4. CASE offsetFile' \in {offsetFile, 0} /\ badSave' = TRUE
  <2>1. offsetFile' \in 0..(Len(posted) + 1) BY <1>1, <1>2, <1>4
  <2> QED BY <2>1, <1>4
<1> QED BY <1>3, <1>4 DEF Save

\* The offset a cycle asks with, and what loading and saving it does.
LEMMA LoadOutcome ==
  ASSUME TypeOK, LoadOffset
  PROVE  /\ Offset \in {nextOffset, offsetFile} \cap 0..(Len(posted) + 1)
         /\ nextOffset' = Offset
         /\ offsetFile' \in {Offset, offsetFile, 0}
         /\ offsetFile' \in 0..(Len(posted) + 1)
         /\ badSave' \in BOOLEAN
         /\ ~badSave' => /\ ~badSave
                         /\ offsetFile' = IF nextOffset = NotLoaded THEN Offset ELSE offsetFile
<1>1. Offset \in {nextOffset, offsetFile} /\ Offset \in 0..(Len(posted) + 1)
  BY DEF TypeOK, Offset
<1>2. CASE nextOffset = NotLoaded
  BY <1>1, <1>2, SaveOutcome DEF LoadOffset
<1>3. CASE nextOffset # NotLoaded
  BY <1>1, <1>3 DEF LoadOffset, TypeOK
<1> QED BY <1>1, <1>2, <1>3 DEF LoadOffset

\* A request confirms nothing beyond the updates before its offset.
LEMMA ConfirmedOutcome ==
  ASSUME TypeOK, NEW offset \in 0..(Len(posted) + 1)
  PROVE  /\ ConfirmedBy(offset) \in 0..Len(posted)
         /\ ConfirmedBy(offset) \in {confirmed, offset - 1}
         /\ ConfirmedBy(offset) >= offset - 1
<1>1. Len(posted) \in Nat BY LenProperties DEF TypeOK
<1> QED BY <1>1 DEF TypeOK, ConfirmedBy, Larger

\* The answer holds the updates after the confirmed ones that the parser keeps,
\* in an unbroken range.
LEMMA AnswerOutcome ==
  ASSUME TypeOK, Answer, confirmed' \in 0..Len(posted)
  PROVE  /\ batch' \subseteq Ids
         /\ \A k \in batch' : /\ k > confirmed'
                              /\ \A id \in (confirmed' + 1)..k :
                                   id \in batch' \/ posted[id] = "other"
<1>1. PICK n \in Nat : n = Len(posted) BY LenProperties DEF TypeOK
<1>2. PICK c \in 0..n : c = confirmed' BY <1>1
<1>3. PICK last \in Int : last <= n /\ last = Smaller(c + BatchLimit, n)
  BY ConstantsOK DEF Smaller
<1>4. batch' = {id \in (c + 1)..last : posted[id] # "other"}
  BY <1>1, <1>2, <1>3 DEF Answer, Parsed
<1>5. ASSUME NEW k \in batch' PROVE k \in (c + 1)..last /\ k \in 1..n
  <2>1. k \in (c + 1)..last BY <1>4
  <2> QED BY <1>3, <2>1
<1>6. ASSUME NEW k \in batch', NEW id \in (c + 1)..k
      PROVE  id \in batch' \/ posted[id] = "other"
  <2>1. k \in (c + 1)..last BY <1>5
  <2>2. id \in (c + 1)..last BY <1>3, <2>1
  <2> QED BY <2>2, <1>4
<1>7. batch' \subseteq 1..n BY <1>5
<1>8. \A k \in batch' : k > c BY <1>5
<1> QED BY <1>1, <1>2, <1>6, <1>7, <1>8

----------------------------------------------------------------------------
\* The parts of a cycle that the type invariant and the positions depend on:
\* the offset, the file, what is confirmed and the batch.
LEMMA CycleType ==
  ASSUME TypeOK, PollReceives \/ PollReceivesStale \/ PollFails
  PROVE  TypeOK'
<1>1. Len(posted) \in Nat /\ posted' = posted
  BY LenProperties DEF TypeOK, PollReceives, PollReceivesStale, PollFails, Answer
<1>2. LoadOffset BY DEF PollReceives, PollReceivesStale, PollFails
<1>3. /\ Offset \in 0..(Len(posted) + 1)
      /\ nextOffset' = Offset
      /\ offsetFile' \in 0..(Len(posted) + 1)
      /\ badSave' \in BOOLEAN
  BY <1>2, LoadOutcome
<1>4. confirmed' \in 0..Len(posted)
  BY <1>3, ConfirmedOutcome DEF PollReceives, PollReceivesStale, PollFails, TypeOK
<1>5. batch' \subseteq Ids
  <2>1. CASE Answer BY <2>1, <1>4, AnswerOutcome
  <2>2. CASE PollFails BY <2>2 DEF PollFails, TypeOK
  <2> QED BY <2>1, <2>2 DEF PollReceives, PollReceivesStale
<1>6. /\ lastProcessed' = lastProcessed /\ current' = current
      /\ taken' = taken /\ handledNow' = handledNow /\ handledBefore' = handledBefore
      /\ restarts' = restarts /\ lateConfirm' \in BOOLEAN
  BY DEF PollReceives, PollReceivesStale, PollFails, Answer, history, TypeOK
<1> QED BY <1>1, <1>3, <1>4, <1>5, <1>6 DEF TypeOK

\* All steps keep the types: in particular the position never passes the
\* updates Telegram has, whatever a save leaves in the file.
LEMMA TypeStep == TypeOK /\ [Next]_vars => TypeOK'
<1> SUFFICES ASSUME TypeOK, [Next]_vars PROVE TypeOK' OBVIOUS
<1>0. Len(posted) \in Nat BY LenProperties DEF TypeOK
<1>1. ASSUME NEW kind \in Kinds, Post(kind) PROVE TypeOK'
  <2>1. posted' \in Seq(Kinds) /\ Len(posted') = Len(posted) + 1
    BY <1>1, AppendProperties DEF Post, TypeOK
  <2>2. Len(posted') <= MaxUpdates BY <1>0, <1>1, <2>1, ConstantsOK DEF Post
  <2> QED BY <1>0, <1>1, <2>1, <2>2 DEF Post, TypeOK, memory, history
<1>2. CASE PollReceives \/ PollReceivesStale \/ PollFails BY <1>2, CycleType
<1>3. ASSUME NEW id \in batch, SkipDuplicate(id) PROVE TypeOK'
  BY <1>3 DEF SkipDuplicate, TypeOK, history
<1>4. ASSUME NEW id \in batch, Take(id) PROVE TypeOK'
  <2>1. id \in Ids /\ id + 1 \in 0..(Len(posted) + 1) BY <1>0 DEF TypeOK
  <2>2. offsetFile' \in 0..(Len(posted) + 1) /\ badSave' \in BOOLEAN
    BY <2>1, <1>4, SaveOutcome DEF Take
  <2> QED BY <1>0, <1>4, <2>1, <2>2 DEF Take, TypeOK
<1>5. CASE Handle BY <1>5 DEF Handle, TypeOK
<1>6. CASE Restart BY <1>0, <1>6, ConstantsOK DEF Restart, TypeOK
<1>7. CASE UNCHANGED vars BY <1>7 DEF vars, memory, history, TypeOK
<1> QED BY <1>1, <1>2, <1>3, <1>4, <1>5, <1>6, <1>7 DEF Next

LEMMA TypeInit == Init => TypeOK
<1> SUFFICES ASSUME Init PROVE TypeOK OBVIOUS
<1>1. posted \in Seq(Kinds) /\ Len(posted) = 0 BY EmptySeq DEF Init
<1>2. badSave \in BOOLEAN /\ lateConfirm \in BOOLEAN BY DEF Init
<1> QED BY <1>1, <1>2, ConstantsOK DEF Init, TypeOK

\* The ranges of offsets, positions and histories, however saves, requests and
\* runs end.
THEOREM TypeCorrect == Spec => []TypeOK
BY TypeInit, TypeStep, PTL DEF Spec

----------------------------------------------------------------------------
(* What the bot leaves behind it. *)

\* The loop need not come to it any more.
Settled(id) == id \in taken \/ posted[id] = "other"

\* Nothing unsettled lies before the offset in use, the one in the file, the
\* last processed update or what Telegram forgot; before an update of the
\* batch, only what the batch holds too.
PositionInv ==
  /\ \A id \in 1..confirmed : Settled(id)
  /\ \A id \in 1..(offsetFile - 1) : Settled(id)
  /\ \A id \in 1..(nextOffset - 1) : Settled(id)
  /\ \A id \in 1..lastProcessed : Settled(id)
  /\ \A k \in batch : \A id \in 1..k : Settled(id) \/ id \in batch

LEMMA UpperPart ==
  ASSUME NEW c \in Nat, NEW k \in Int, NEW id \in 1..k, ~(id <= c)
  PROVE  id \in (c + 1)..k
OBVIOUS

\* A cycle keeps the positions: it confirms only what lies before its offset.
LEMMA PositionCycle ==
  ASSUME TypeOK, PositionInv, PollReceives \/ PollReceivesStale \/ PollFails
  PROVE  PositionInv'
<1>1. /\ posted' = posted /\ taken' = taken /\ lastProcessed' = lastProcessed
      /\ LoadOffset
  BY DEF PollReceives, PollReceivesStale, PollFails, Answer, history
<1>2. \A id : Settled(id)' <=> Settled(id) BY <1>1 DEF Settled
<1>3. /\ Offset \in {nextOffset, offsetFile} /\ Offset \in 0..(Len(posted) + 1)
      /\ nextOffset' = Offset /\ offsetFile' \in {Offset, offsetFile, 0}
  BY <1>1, LoadOutcome
<1>4. \A id \in 1..(Offset - 1) : Settled(id) BY <1>3 DEF PositionInv
<1>5. \A id \in 1..(offsetFile' - 1) : Settled(id)
  <2>1. CASE offsetFile' = 0 BY <2>1
  <2> QED BY <2>1, <1>3, <1>4 DEF PositionInv
<1>6. /\ confirmed' \in 0..Len(posted)
      /\ \A id \in 1..confirmed' : Settled(id)
  <2>1. confirmed' \in {confirmed, ConfirmedBy(Offset)}
    BY DEF PollReceives, PollReceivesStale, PollFails
  <2>2. confirmed' \in 0..Len(posted) /\ confirmed' \in {confirmed, Offset - 1}
    BY <1>3, <2>1, ConfirmedOutcome DEF TypeOK
  <2> QED BY <1>4, <2>2 DEF PositionInv
<1>7. \A k \in batch' : \A id \in 1..k : Settled(id) \/ id \in batch'
  <2>1. CASE PollFails BY <2>1 DEF PollFails
  <2>2. CASE Answer
    <3> SUFFICES ASSUME NEW k \in batch', NEW id \in 1..k PROVE Settled(id) \/ id \in batch'
      OBVIOUS
    <3>1. k \in Ids BY <1>6, <2>2, AnswerOutcome
    <3>2. PICK c \in Nat : c = confirmed' BY <1>6
    <3>3. CASE id <= c BY <1>6, <3>2, <3>3
    <3>4. CASE ~(id <= c)
      <4>0. k \in Int /\ id \in Int /\ id <= k BY <3>1
      <4>1. id \in (c + 1)..k BY <4>0, <3>4, UpperPart
      <4> QED BY <1>6, <2>2, <3>2, <4>1, AnswerOutcome DEF Settled
    <3> QED BY <3>3, <3>4
  <2> QED BY <2>1, <2>2 DEF PollReceives, PollReceivesStale
<1> QED BY <1>1, <1>2, <1>3, <1>4, <1>5, <1>6, <1>7 DEF PositionInv

\* Taking the oldest update of the batch leaves nothing unsettled behind it.
LEMMA PositionTake ==
  ASSUME TypeOK, PositionInv, NEW id \in batch, Take(id)
  PROVE  PositionInv'
<1>0. id \in 1..Len(posted) /\ Len(posted) \in Nat BY LenProperties DEF TypeOK
<1>1. /\ posted' = posted /\ taken' = taken \cup {id} /\ lastProcessed' = id
      /\ nextOffset' = id + 1 /\ batch' = batch \ {id} /\ confirmed' = confirmed
      /\ \A other \in batch : id <= other
  BY DEF Take, Oldest
<1>2. \A i : Settled(i) => Settled(i)' BY <1>1 DEF Settled
<1>3. Settled(id)' BY <1>1 DEF Settled
<1>4. ASSUME NEW i \in 1..id PROVE Settled(i)'
  <2>1. Settled(i) \/ i \in batch BY DEF PositionInv
  <2>2. ASSUME i \in batch PROVE i = id BY <1>0, <1>1, <2>2
  <2> QED BY <1>2, <1>3, <2>1, <2>2
<1>5. offsetFile' \in {id + 1, offsetFile, 0}
  <2>1. id + 1 \in 0..(Len(posted) + 1) BY <1>0
  <2> QED BY <2>1, SaveOutcome DEF Take
<1>6. \A i \in 1..(offsetFile' - 1) : Settled(i)'
  <2>1. CASE offsetFile' = id + 1 BY <1>0, <1>4, <2>1
  <2>2. CASE offsetFile' = offsetFile BY <1>2, <2>2 DEF PositionInv
  <2>3. CASE offsetFile' = 0 BY <2>3
  <2> QED BY <1>5, <2>1, <2>2, <2>3
<1>7. \A i \in 1..(nextOffset' - 1) : Settled(i)' BY <1>0, <1>1, <1>4
<1>8. \A k \in batch' : \A i \in 1..k : Settled(i)' \/ i \in batch'
  BY <1>1, <1>2, <1>3 DEF PositionInv
<1> QED BY <1>1, <1>2, <1>4, <1>6, <1>7, <1>8 DEF PositionInv

LEMMA PositionStep == TypeOK /\ PositionInv /\ [Next]_vars => PositionInv'
<1> SUFFICES ASSUME TypeOK, PositionInv, [Next]_vars PROVE PositionInv' OBVIOUS
<1>1. ASSUME NEW kind \in Kinds, Post(kind) PROVE PositionInv'
  <2>0. Len(posted) \in Nat BY LenProperties DEF TypeOK
  <2>1. /\ taken' = taken /\ confirmed' = confirmed /\ offsetFile' = offsetFile
        /\ nextOffset' = nextOffset /\ lastProcessed' = lastProcessed /\ batch' = batch
        /\ posted' = Append(posted, kind)
    BY <1>1 DEF Post, memory, history
  <2>2. \A id \in 1..Len(posted) : posted'[id] = posted[id]
    BY <2>1, AppendProperties DEF TypeOK
  <2>3. \A id \in 1..Len(posted) : Settled(id) => Settled(id)' BY <2>1, <2>2 DEF Settled
  <2>4. /\ confirmed <= Len(posted) /\ offsetFile - 1 <= Len(posted)
        /\ nextOffset - 1 <= Len(posted) /\ lastProcessed <= Len(posted)
        /\ \A k \in batch : k <= Len(posted)
        /\ confirmed \in Int /\ offsetFile \in Int /\ nextOffset \in Int
        /\ lastProcessed \in Int /\ batch \subseteq Int
    BY <2>0 DEF TypeOK
  <2>5. \A n \in Int : n <= Len(posted) => 1..n \subseteq 1..Len(posted) BY <2>0
  <2> QED BY <2>1, <2>3, <2>4, <2>5 DEF PositionInv
<1>2. CASE PollReceives \/ PollReceivesStale \/ PollFails BY <1>2, PositionCycle
<1>3. ASSUME NEW id \in batch, SkipDuplicate(id) PROVE PositionInv'
  <2>1. id \in Int /\ lastProcessed \in Int /\ id >= 1 BY DEF TypeOK
  <2>2. id \in 1..lastProcessed BY <1>3, <2>1 DEF SkipDuplicate
  <2>3. Settled(id) BY <2>2 DEF PositionInv
  <2> QED BY <1>3, <2>3 DEF SkipDuplicate, PositionInv, Settled, history
<1>4. ASSUME NEW id \in batch, Take(id) PROVE PositionInv' BY <1>4, PositionTake
<1>5. CASE Handle BY <1>5 DEF Handle, PositionInv, Settled
<1>6. CASE Restart BY <1>6 DEF Restart, PositionInv, Settled
<1>7. CASE UNCHANGED vars BY <1>7 DEF vars, memory, history, PositionInv, Settled
<1> QED BY <1>1, <1>2, <1>3, <1>4, <1>5, <1>6, <1>7 DEF Next

\* No offset the bot sends makes Telegram forget an update the loop did not
\* come to, whatever saves fail and wherever the process ends.
THEOREM NothingIsForgotten == Spec => []NothingForgotten
<1>1. Init => PositionInv BY DEF Init, PositionInv
<1>2. PositionInv => NothingForgotten BY DEF PositionInv, NothingForgotten, Settled
<1> QED BY <1>1, <1>2, TypeInit, TypeStep, PositionStep, PTL DEF Spec

----------------------------------------------------------------------------
(* What the handlers see. *)

\* Within a run the last processed update is the newest one handled, or the
\* one being handled.
RunInv ==
  /\ OncePerRun
  /\ current # 0 => current = lastProcessed
  /\ \A id \in handledNow : id <= lastProcessed

LEMMA RunStep == TypeOK /\ RunInv /\ [Next]_vars => RunInv'
<1> SUFFICES ASSUME TypeOK, RunInv, [Next]_vars PROVE RunInv' OBVIOUS
<1>0. Len(posted) \in Nat BY LenProperties DEF TypeOK
<1> USE DEF RunInv, OncePerRun
<1>1. ASSUME NEW kind \in Kinds, Post(kind) PROVE RunInv' BY <1>1 DEF Post, memory, history
<1>2. CASE PollReceives \/ PollReceivesStale \/ PollFails
  BY <1>2 DEF PollReceives, PollReceivesStale, PollFails, Answer, history
<1>3. ASSUME NEW id \in batch, SkipDuplicate(id) PROVE RunInv'
  BY <1>3 DEF SkipDuplicate, history
<1>4. ASSUME NEW id \in batch, Take(id) PROVE RunInv'
  <2>1. /\ id > lastProcessed /\ lastProcessed' = id /\ current' \in {0, id}
        /\ handledNow' = handledNow
    BY <1>4 DEF Take
  <2>2. /\ id \in Int /\ lastProcessed \in Int /\ handledNow \subseteq Int BY <1>0 DEF TypeOK
  <2> QED BY <2>1, <2>2
<1>5. CASE Handle
  <2>1. /\ handledNow' = handledNow \cup {lastProcessed} /\ current' = 0
        /\ lastProcessed' = lastProcessed
    BY <1>5 DEF Handle
  <2>2. lastProcessed \in Int BY <1>0 DEF TypeOK
  <2> QED BY <2>1, <2>2
<1>6. CASE Restart BY <1>6 DEF Restart
<1>7. CASE UNCHANGED vars BY <1>7 DEF vars, memory, history
<1> QED BY <1>1, <1>2, <1>3, <1>4, <1>5, <1>6, <1>7 DEF Next

\* Handlers run in the order of the updates and at most once in a run of the
\* process, although Telegram delivers again what was not confirmed.
THEOREM OnceInARun == Spec => []OncePerRun
<1>1. Init => RunInv BY DEF Init, RunInv, OncePerRun
<1>2. RunInv => OncePerRun BY DEF RunInv
<1> QED BY <1>1, <1>2, TypeInit, TypeStep, RunStep, PTL DEF Spec

\* While saves succeed, the file is ahead of everything handled, and while
\* offsets are honoured, a batch holds nothing from before the file.
Good == ~badSave /\ ~lateConfirm
FileInv ==
  Good => /\ nextOffset \in {NotLoaded, offsetFile}
          /\ \A id \in handledNow \cup handledBefore : id < offsetFile
          /\ current # 0 => current < offsetFile /\ OnceAcrossRestarts
          /\ \A id \in batch : id >= offsetFile

LEMMA FileCycle ==
  ASSUME TypeOK, FileInv, PollReceives \/ PollReceivesStale \/ PollFails
  PROVE  FileInv'
<1> SUFFICES ASSUME Good' PROVE FileInv' BY DEF FileInv
<1>1. /\ LoadOffset /\ current = 0 /\ current' = 0 /\ ~badSave'
      /\ handledNow' = handledNow /\ handledBefore' = handledBefore
  BY DEF PollReceives, PollReceivesStale, PollFails, Answer, history, Good
<1>2. PollReceives \/ PollFails
  BY DEF PollReceivesStale, Good
<1>3. ~badSave BY <1>1, LoadOutcome
<1>4. Good
  BY <1>2, <1>3 DEF PollReceives, PollFails, Good
<1>5. nextOffset' = offsetFile /\ offsetFile' = offsetFile
  BY <1>1, <1>4, LoadOutcome DEF FileInv, Offset
<1>6. \A id \in batch' : id >= offsetFile'
  <2>1. CASE PollFails BY <2>1 DEF PollFails
  <2>2. CASE PollReceives
    <3>1. /\ Offset = offsetFile /\ offsetFile \in 0..(Len(posted) + 1)
          /\ confirmed' = ConfirmedBy(Offset) /\ Answer
      BY <2>2, <1>4 DEF PollReceives, FileInv, Offset, TypeOK
    <3>2. PICK c \in Int : c = confirmed' /\ c >= offsetFile - 1
      BY <3>1, ConfirmedOutcome
    <3>3. \A id \in batch' : id \in Ids /\ id > c
      BY <3>1, <3>2, ConfirmedOutcome, AnswerOutcome
    <3>4. \A id \in Ids : id > c => id >= offsetFile BY <3>1, <3>2
    <3> QED BY <3>3, <3>4, <1>5
  <2> QED BY <1>2, <2>1, <2>2
<1> QED BY <1>1, <1>4, <1>5, <1>6 DEF FileInv

LEMMA FileTake ==
  ASSUME TypeOK, FileInv, NEW id \in batch, Take(id)
  PROVE  FileInv'
<1> SUFFICES ASSUME Good' PROVE FileInv' BY DEF FileInv
<1>0. Len(posted) \in Nat BY LenProperties DEF TypeOK
<1>1. id \in Int /\ id + 1 \in 0..(Len(posted) + 1) /\ batch \subseteq Int /\ offsetFile \in Int
      /\ handledNow \subseteq Int /\ handledBefore \subseteq Int
  BY <1>0 DEF TypeOK
<1>2. Save(id + 1) /\ ~badSave' /\ ~lateConfirm' /\ lateConfirm' = lateConfirm
  BY DEF Take, Good
<1>3. ~badSave /\ offsetFile' = id + 1 BY <1>1, <1>2, SaveOutcome
<1>4. Good BY <1>2, <1>3 DEF Good
<1>5. /\ nextOffset' = id + 1 /\ batch' = batch \ {id} /\ current' \in {0, id}
      /\ handledNow' = handledNow /\ handledBefore' = handledBefore
      /\ \A other \in batch : id <= other
  BY DEF Take, Oldest
<1>6. /\ \A i \in handledNow \cup handledBefore : i < offsetFile
      /\ id >= offsetFile
  BY <1>4 DEF FileInv
<1>7. \A i \in handledNow \cup handledBefore : i < id BY <1>1, <1>6
<1>8. OnceAcrossRestarts' BY <1>5, <1>7 DEF OnceAcrossRestarts
<1>9. \A i \in batch \ {id} : i >= id + 1 BY <1>1, <1>5
<1>10. \A i \in handledNow \cup handledBefore : i < id + 1 BY <1>1, <1>7
<1>11. id < id + 1 BY <1>1
<1> QED BY <1>3, <1>5, <1>8, <1>9, <1>10, <1>11 DEF FileInv

LEMMA FileStep == TypeOK /\ FileInv /\ [Next]_vars => FileInv'
<1> SUFFICES ASSUME TypeOK, FileInv, [Next]_vars PROVE FileInv' OBVIOUS
<1> USE DEF FileInv, OnceAcrossRestarts, Good
<1>1. ASSUME NEW kind \in Kinds, Post(kind) PROVE FileInv' BY <1>1 DEF Post, memory, history
<1>2. CASE PollReceives \/ PollReceivesStale \/ PollFails BY <1>2, FileCycle
<1>3. ASSUME NEW id \in batch, SkipDuplicate(id) PROVE FileInv'
  BY <1>3 DEF SkipDuplicate, history
<1>4. ASSUME NEW id \in batch, Take(id) PROVE FileInv' BY <1>4, FileTake
<1>5. CASE Handle BY <1>5 DEF Handle
<1>6. CASE Restart BY <1>6 DEF Restart
<1>7. CASE UNCHANGED vars BY <1>7 DEF vars, memory, history
<1> QED BY <1>1, <1>2, <1>3, <1>4, <1>5, <1>6, <1>7 DEF Next

\* Nor does a handler run again after a restart, as long as saves succeed and
\* Telegram honours offsets.
THEOREM OnceOverall == Spec => []OnceAcrossRestarts
<1>1. Init => FileInv BY DEF Init, FileInv, OnceAcrossRestarts
<1>2. FileInv => OnceAcrossRestarts BY DEF FileInv, OnceAcrossRestarts, Good
<1> QED BY <1>1, <1>2, TypeInit, TypeStep, FileStep, PTL DEF Spec

----------------------------------------------------------------------------
(* What restarts lose. *)

\* Commands that were taken or forgotten, that no handler finished and none is
\* handling.
Lost == {id \in taken \cup 1..confirmed :
           /\ posted[id] = "command"
           /\ id \notin handledNow \cup handledBefore \cup {current}}

LEMMA LostType ==
  ASSUME TypeOK
  PROVE  Lost \subseteq Ids /\ IsFiniteSet(Lost) /\ Cardinality(Lost) \in Nat
<1>1. Len(posted) \in Nat BY LenProperties DEF TypeOK
<1>2. 1..confirmed \subseteq Ids BY <1>1 DEF TypeOK
<1>3. Lost \subseteq Ids BY <1>2 DEF TypeOK, Lost
<1>4. IsFiniteSet(Ids) BY <1>1, FS_Interval
<1> QED BY <1>3, <1>4, FS_Subset, FS_CardinalityType

LEMMA LostTaken ==
  ASSUME PositionInv
  PROVE  Lost = {id \in taken : /\ posted[id] = "command"
                                /\ id \notin handledNow \cup handledBefore \cup {current}}
BY DEF PositionInv, Settled, Lost

\* No step of a run loses a command.
LEMMA NothingLost ==
  ASSUME TypeOK, PositionInv, PositionInv', [Next]_vars, ~Restart
  PROVE  Lost' \subseteq Lost /\ restarts' = restarts
<1>0. Len(posted) \in Nat BY LenProperties DEF TypeOK
<1>a. Lost' = {id \in taken' : /\ posted'[id] = "command"
                               /\ id \notin handledNow' \cup handledBefore' \cup {current'}}
  BY DEF PositionInv, Settled, Lost
<1>b. /\ Lost = {id \in taken : /\ posted[id] = "command"
                                /\ id \notin handledNow \cup handledBefore \cup {current}}
      /\ taken \subseteq Ids /\ 0 \notin taken
  BY LostTaken, <1>0 DEF TypeOK
<1>1. ASSUME NEW kind \in Kinds, Post(kind) PROVE Lost' \subseteq Lost /\ restarts' = restarts
  <2>1. \A id \in taken : posted'[id] = posted[id]
    BY <1>1, <1>b, AppendProperties DEF Post, TypeOK
  <2> QED BY <1>1, <1>a, <1>b, <2>1 DEF Post, memory, history
<1>2. CASE PollReceives \/ PollReceivesStale \/ PollFails
  BY <1>2, <1>a, <1>b DEF PollReceives, PollReceivesStale, PollFails, Answer, history
<1>3. ASSUME NEW id \in batch, SkipDuplicate(id)
      PROVE  Lost' \subseteq Lost /\ restarts' = restarts
  BY <1>3, <1>a, <1>b DEF SkipDuplicate, history
<1>4. ASSUME NEW id \in batch, Take(id) PROVE Lost' \subseteq Lost /\ restarts' = restarts
  <2>1. /\ current = 0 /\ taken' = taken \cup {id} /\ posted' = posted
        /\ current' = IF posted[id] = "refused" THEN 0 ELSE id
        /\ handledNow' = handledNow /\ handledBefore' = handledBefore /\ restarts' = restarts
    BY <1>4 DEF Take
  <2>2. id \notin Lost' BY <1>a, <2>1
  <2> QED BY <1>a, <1>b, <2>1, <2>2
<1>5. CASE Handle
  <2>1. /\ handledNow' = handledNow \cup {current} /\ current' = 0
        /\ UNCHANGED <<taken, posted, handledBefore, restarts>>
    BY <1>5 DEF Handle
  <2> QED BY <1>a, <1>b, <2>1
<1>6. CASE UNCHANGED vars BY <1>6, <1>a, <1>b DEF vars, memory, history
<1> QED BY <1>1, <1>2, <1>3, <1>4, <1>5, <1>6 DEF Next

LossInv == Cardinality(Lost) <= restarts

LEMMA LossStep ==
  TypeOK /\ PositionInv /\ PositionInv' /\ TypeOK' /\ LossInv /\ [Next]_vars => LossInv'
<1> SUFFICES ASSUME TypeOK, PositionInv, PositionInv', TypeOK', LossInv, [Next]_vars
             PROVE  LossInv'
  OBVIOUS
<1>1. IsFiniteSet(Lost) /\ Cardinality(Lost) \in Nat /\ restarts \in Nat
  <2>1. restarts \in Nat BY DEF TypeOK
  <2> QED BY <2>1, LostType
<1>2. PICK after : after = Lost' OBVIOUS
<1>3. CASE ~Restart
  <2>1. after \in SUBSET Lost /\ restarts' = restarts BY <1>2, <1>3, NothingLost
  <2>2. Cardinality(after) <= Cardinality(Lost) /\ Cardinality(after) \in Nat
    BY <1>1, <2>1, FS_Subset, FS_CardinalityType
  <2> QED BY <1>1, <1>2, <2>1, <2>2 DEF LossInv
<1>4. CASE Restart
  <2>1. /\ restarts' = restarts + 1
        /\ after \in SUBSET (Lost \cup {current})
    BY <1>2, <1>4 DEF Restart, Lost
  <2>2. /\ IsFiniteSet(Lost \cup {current})
        /\ Cardinality(Lost \cup {current}) <= Cardinality(Lost) + 1
        /\ Cardinality(Lost \cup {current}) \in Nat
    <3>1. IsFiniteSet(Lost \cup {current}) BY <1>1, FS_AddElement
    <3>2. Cardinality(Lost \cup {current})
            = IF current \in Lost THEN Cardinality(Lost) ELSE Cardinality(Lost) + 1
      BY <1>1, FS_AddElement
    <3> QED BY <1>1, <3>1, <3>2
  <2>3. Cardinality(after) <= Cardinality(Lost \cup {current}) /\ Cardinality(after) \in Nat
    BY <2>1, <2>2, FS_Subset, FS_CardinalityType
  <2> QED BY <1>1, <1>2, <2>1, <2>2, <2>3 DEF LossInv
<1> QED BY <1>3, <1>4

\* Each restart costs at most one command, the one whose handler was running,
\* although the position moves past an update before its handler runs.
THEOREM LossIsBounded == Spec => []LossBounded
<1>1. Init => LossInv
  <2> SUFFICES ASSUME Init PROVE LossInv OBVIOUS
  <2>1. Lost = {} BY DEF Init, Lost
  <2> QED BY <2>1, FS_EmptySet DEF Init, LossInv
<1>2. Init => PositionInv BY DEF Init, PositionInv
<1>3. LossInv => LossBounded BY DEF LossInv, LossBounded, Lost
<1> QED BY <1>1, <1>2, <1>3, TypeInit, TypeStep, PositionStep, LossStep, PTL DEF Spec
=============================================================================
