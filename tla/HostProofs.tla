----------------------------- MODULE HostProofs -----------------------------
(***************************************************************************)
(* What the parts of the bot that work on the host promise, proved for any *)
(* journals, logs, texts and sizes of buffers:                             *)
(*   - LogView: the inductive invariant of /logs, from which what is shown *)
(*     is what was asked for, or is said to be cut;                        *)
(*   - LogStat: the one of /logstat, from which its counters, its ranking  *)
(*     of tags and its busiest hour are those of the lines read;           *)
(*   - Text: the one of the loops that write a text into a buffer, from    *)
(*     which none writes past the end or leaves half an escape;            *)
(*   - Host: each part keeps its own specification whatever the others do, *)
(*     so that all of this, and what SettingsProofs and FilesProofs show,  *)
(*     holds of the host.                                                  *)
(* What a loop has done so far is related to what it is to do by cutting   *)
(* the text at the place it has reached; a definition by FlattenSeq or     *)
(* FoldSeq is used through its value on a text cut by its last element.    *)
(***************************************************************************)
EXTENDS Host, SettingsProofs, FilesProofs, FiniteSetTheorems, SequenceTheorems

----------------------------------------------------------------------------
(* LogView *)

\* The markers among the lines gone through.
MarkersBefore == {k \in Reboots(journal) : k < at}

\* No line of the journal is in the response.
Fresh == shown = <<>> /\ matched = 0 /\ ~cut

\* While the lines are gone through, the response holds those that were to be
\* shown, in order; as long as none matched it holds markers only, and they
\* are too few to reach the cap.
Progress ==
  /\ shown \in Seq(Nat)
  /\ \A k, l \in DOMAIN shown : k < l => shown[k] < shown[l]
  /\ ToSet(shown) = {k \in ToShow : k < at}
  /\ matched = 0 => /\ \A k \in LinesToShow : k >= at
                    /\ used <= ViewHead + MarkerLen * Cardinality(MarkersBefore)
  /\ matched # 0 => shown # <<>>
  /\ ~cut

\* The inductive invariant of /logs: at rest and before the lines nothing is in
\* the response, between the lines it is as Progress says, and an answer is right.
VInv ==
  /\ ViewTypeOK
  /\ ViewFaithful
  /\ vpc # "answered" => reply = "none_yet"
  /\ vpc = "idle" => Fresh /\ journal = <<>>
  /\ vpc \in {"journal", "fallback"} => Fresh /\ used = ViewHead
  /\ vpc = "lines" => Progress

----------------------------------------------------------------------------
\* The smaller of two numbers.
LEMMA MinOfTwo ==
  ASSUME NEW a \in Int, NEW b \in Int
  PROVE  Min({a, b}) = IF a <= b THEN a ELSE b
BY DEF Min

\* The empty sequence.
LEMMA NoElements == Len(<<>>) = 0 /\ DOMAIN <<>> = {} /\ <<>> \in Seq(Nat)
OBVIOUS

\* The numbers among the constants.
LEMMA Sizes ==
  /\ LinesDefault \in 1..LinesMax /\ LinesMax \in Nat /\ IntMax \in Nat /\ SoftCap \in Nat
  /\ ViewSize \in Nat /\ ViewHead \in Nat /\ MarkerLen \in Nat /\ CutLen \in Nat
  /\ ViewHead <= SoftCap /\ SoftCap + CutLen < ViewSize
BY LogViewConstantsOK

\* A journal is a sequence of lines, its markers are finitely many, and too few
\* to fill the response up to the cap.
LEMMA JournalFacts ==
  ASSUME NEW j \in Journals \cup {<<>>}
  PROVE  /\ Len(j) \in Nat /\ DOMAIN j = 1..Len(j)
         /\ \A k \in 1..Len(j) : j[k].kind \in {"text", "reboot", "begin"} /\ j[k].len \in Nat
         /\ Reboots(j) \subseteq 1..Len(j)
         /\ \A n : LET some == {k \in Reboots(j) : k < n}
                  IN  /\ IsFiniteSet(some) /\ Cardinality(some) \in Nat
                      /\ ViewHead + MarkerLen * Cardinality(some) <= SoftCap
<1>1. j \in Seq(JournalLine)
  <2>1. Journals \subseteq Seq(JournalLine) /\ <<>> \in Seq(JournalLine)
    BY LogViewConstantsOK
  <2> QED
    BY <2>1
<1>2. /\ Len(j) \in Nat /\ DOMAIN j = 1..Len(j)
      /\ \A k \in 1..Len(j) : j[k] \in JournalLine
  BY <1>1
<1>3. Reboots(j) \subseteq 1..Len(j)
  BY <1>2 DEF Reboots
<1>4. IsFiniteSet(1..Len(j))
  BY <1>2, FS_Interval
<1>5. IsFiniteSet(Reboots(j))
  BY <1>3, <1>4, FS_Subset
<1>6. ViewHead + MarkerLen * Cardinality(Reboots(j)) <= SoftCap
  <2>1. CASE j \in Journals
    BY <2>1, LogViewConstantsOK
  <2>2. CASE j = <<>>
    <3>1. Reboots(j) = {}
      BY <2>2 DEF Reboots
    <3>2. Cardinality(Reboots(j)) = 0
      BY <3>1, FS_EmptySet
    <3> QED
      BY <3>2, Sizes
  <2> QED
    BY <2>1, <2>2
<1>7. ASSUME NEW n
      PROVE  LET some == {k \in Reboots(j) : k < n}
             IN  /\ IsFiniteSet(some) /\ Cardinality(some) \in Nat
                 /\ ViewHead + MarkerLen * Cardinality(some) <= SoftCap
  <2> DEFINE some == {k \in Reboots(j) : k < n}
             few == Cardinality(some)
             all == Cardinality(Reboots(j))
  <2>1. some \in SUBSET Reboots(j)
    OBVIOUS
  <2> HIDE DEF some
  <2>2. IsFiniteSet(some) /\ few \in Nat /\ all \in Nat /\ few <= all
    BY <1>5, <2>1, FS_Subset, FS_CardinalityType
  <2> HIDE DEF few, all
  <2>3. MarkerLen * few <= MarkerLen * all /\ MarkerLen * few \in Nat
    BY <2>2, Sizes
  <2>4. ViewHead + MarkerLen * few <= SoftCap
    <3>1. ViewHead + MarkerLen * all <= SoftCap /\ MarkerLen * all \in Nat
      BY <1>6, <2>2, Sizes DEF all
    <3> QED
      BY <2>3, <3>1, Sizes
  <2> QED
    BY <2>2, <2>4 DEF some, few
<1> QED
  BY <1>2, <1>3, <1>7 DEF JournalLine

\* The markers gone through, with the header, stay below the cap.
LEMMA MarkersFew ==
  ASSUME ViewTypeOK
  PROVE  /\ IsFiniteSet(MarkersBefore) /\ Cardinality(MarkersBefore) \in Nat
         /\ ViewHead + MarkerLen * Cardinality(MarkersBefore) <= SoftCap
BY JournalFacts DEF ViewTypeOK, MarkersBefore

\* What is to be shown depends on the request and the journal only.
LEMMA ToShowStays ==
  ASSUME UNCHANGED <<ask, journal>>
  PROVE  /\ LinesToShow' = LinesToShow /\ ToShow' = ToShow
         /\ Reboots(journal)' = Reboots(journal)
         /\ \A e : Matches(e)' = Matches(e)
BY DEF LinesToShow, ToShow, Reboots, Matches, match_semantic

\* The lines to be shown are lines of the journal.
LEMMA ToShowType ==
  ASSUME ViewTypeOK
  PROVE  /\ ToShow \subseteq 1..Len(journal) /\ LinesToShow \subseteq ToShow
         /\ Reboots(journal) \subseteq ToShow
         /\ Reboots(journal) \cap LinesToShow = {}
         /\ ToShow = LinesToShow \cup Reboots(journal)
         /\ Len(journal) \in Nat
BY JournalFacts DEF ViewTypeOK, LinesToShow, ToShow, Reboots

\* The sequence of lines shown grows by the line at hand.
LEMMA ShownGrows ==
  ASSUME ViewTypeOK, Progress, at \in ToShow, shown' = Append(shown, at),
         at' = at + 1, UNCHANGED <<ask, journal>>
  PROVE  /\ shown' \in Seq(Nat) /\ shown' # <<>>
         /\ \A k, l \in DOMAIN shown' : k < l => shown'[k] < shown'[l]
         /\ ToSet(shown') = {k \in ToShow' : k < at'}
<1>1. at \in Nat /\ shown \in Seq(Nat) /\ ToShow \subseteq Nat
  BY JournalFacts, ToShowType DEF ViewTypeOK, Progress
<1>2. /\ shown' \in Seq(Nat) /\ shown' # <<>>
      /\ Len(shown') = Len(shown) + 1 /\ Len(shown) \in Nat
      /\ DOMAIN shown = 1..Len(shown) /\ DOMAIN shown' = 1..(Len(shown) + 1)
      /\ \A k \in 1..Len(shown) : shown'[k] = shown[k]
      /\ shown'[Len(shown) + 1] = at
  BY <1>1
<1>3. ToSet(shown') = ToSet(shown) \cup {at}
  BY <1>2 DEF ToSet
<1>4. \A k \in DOMAIN shown : shown[k] < at /\ shown[k] \in Nat
  BY <1>1 DEF Progress, ToSet
<1>5. \A k, l \in DOMAIN shown' : k < l => shown'[k] < shown'[l]
  <2> SUFFICES ASSUME NEW k \in 1..(Len(shown) + 1), NEW l \in 1..(Len(shown) + 1), k < l
               PROVE  shown'[k] < shown'[l]
    BY <1>2
  <2>1. k \in 1..Len(shown)
    BY <1>2
  <2>2. CASE l \in 1..Len(shown)
    BY <1>2, <2>1, <2>2 DEF Progress
  <2>3. CASE l = Len(shown) + 1
    BY <1>2, <1>4, <2>1, <2>3
  <2> QED
    BY <1>2, <2>2, <2>3
<1>6. ToShow' = ToShow
  BY ToShowStays
<1>7. {k \in ToShow : k < at + 1} = {k \in ToShow : k < at} \cup {at}
  <2>1. \A k \in Nat : k < at + 1 <=> k < at \/ k = at
    BY <1>1
  <2> QED
    BY <1>1, <2>1
<1> QED
  BY <1>2, <1>3, <1>5, <1>6, <1>7 DEF Progress

----------------------------------------------------------------------------
\* Before a request, and after one.
LEMMA AtRest ==
  ASSUME ViewInit
  PROVE  VInv
<1>1. /\ vpc = "idle" /\ ask = NoAsk /\ journal = <<>> /\ global = FALSE /\ at = 1
      /\ used = 0 /\ shown = <<>> /\ matched = 0 /\ cut = FALSE /\ reply = "none_yet"
  BY DEF ViewInit
<1>2. Len(journal) = 0 /\ at \in 1..(Len(journal) + 1)
  <2>1. Len(journal) = 0 /\ at = 1
    BY <1>1, NoElements, Zenon
  <2> QED
    BY <2>1
<1>3. NoAsk.count \in 1..LinesMax
  BY Sizes DEF NoAsk
<1>4. ViewTypeOK
  BY <1>1, <1>2, <1>3 DEF ViewTypeOK
<1>5. 0 < ViewSize
  BY Sizes
<1> QED
  BY <1>1, <1>4, <1>5 DEF VInv, ViewFaithful, Fresh

\* A line is gone through: its types and the room it takes.
LEMMA Turn ==
  ASSUME VInv, Looking
  PROVE  /\ ViewTypeOK /\ Progress /\ reply = "none_yet" /\ vpc = "lines"
         /\ at \in 1..Len(journal) /\ Len(journal) \in Nat /\ used \in Nat
         /\ matched \in Nat /\ journal[at].len \in Nat
         /\ journal[at].kind \in {"text", "reboot", "begin"}
<1>1. ViewTypeOK /\ Progress /\ reply = "none_yet" /\ vpc = "lines"
  BY DEF VInv, Looking
<1>2. Len(journal) \in Nat /\ at \in 1..Len(journal)
  <2>1. journal \in Journals \cup {<<>>} /\ at \in 1..(Len(journal) + 1) /\ at <= Len(journal)
    BY <1>1 DEF ViewTypeOK, Looking
  <2>2. Len(journal) \in Nat
    BY <2>1, JournalFacts
  <2> QED
    BY <2>1, <2>2
<1> QED
  BY <1>1, <1>2, JournalFacts DEF ViewTypeOK

\* Refusals, the run of journalctl and the return.
LEMMA RequestSteps ==
  ASSUME VInv, ViewRefused \/ ViewAccepted \/ JournalRead \/ JournalFails \/ ViewReturns
  PROVE  VInv'
<1>1. CASE ViewRefused
  BY <1>1 DEF ViewRefused, Answers, viewAnswer, VInv, ViewTypeOK, ViewFaithful
<1>2. CASE ViewAccepted
  <2>1. PICK q \in Requests :
          /\ ~BadNumber(q)
          /\ ask' = [svc |-> q.svc, count |-> Clamped(q), filter |-> FilterOf(q)]
    BY <1>2 DEF ViewAccepted
  <2>2. LinesDefault \in 1..LinesMax /\ LinesMax \in Nat /\ IntMax \in Nat
        /\ ViewHead \in Nat /\ ViewHead < ViewSize
    BY Sizes
  <2>3. Clamped(q) \in 1..LinesMax
    BY <2>1, <2>2 DEF BadNumber, Clamped
  <2>4. ask'.count \in 1..LinesMax
    BY <2>1, <2>3
  <2>5. reply = "none_yet" /\ Fresh /\ vpc = "idle"
    BY <1>2 DEF ViewAccepted, VInv
  <2> QED
    BY <1>2, <2>2, <2>4, <2>5 DEF ViewAccepted, VInv, ViewTypeOK, ViewFaithful, Fresh
<1>3. CASE JournalRead
  <2>1. /\ vpc' = "lines" /\ journal' \in Journals /\ at' = 1
        /\ UNCHANGED <<ask, used, shown, matched, cut, reply>>
        /\ global' \in BOOLEAN
    BY <1>3 DEF JournalRead, viewAnswer
  <2>2. Fresh /\ used = ViewHead /\ reply = "none_yet" /\ ViewTypeOK
    BY <1>3 DEF JournalRead, VInv
  <2>3. Len(journal') \in Nat /\ at' \in 1..(Len(journal') + 1)
    <3>1. Len(journal') \in Nat
      BY <2>1, JournalFacts
    <3> QED
      BY <2>1, <3>1
  <2>4. ViewTypeOK'
    <3>1. ViewTypeOK
      BY <2>2
    <3>2. vpc' = "lines" /\ ask' = ask /\ used' = used /\ matched' = matched /\ cut' = cut
      BY <2>1
    <3> QED
      BY <2>1, <2>3, <3>1, <3>2, Zenon DEF ViewTypeOK
  <2>5. ToShow' \subseteq 1..Len(journal') /\ LinesToShow' \subseteq ToShow'
    BY <2>1, JournalFacts DEF ToShow, LinesToShow
  <2>6. Cardinality(MarkersBefore') \in Nat
    BY <2>1, JournalFacts DEF MarkersBefore
  <2>7. ToSet(shown') = {}
    <3>1. DOMAIN shown' = {}
      BY <2>1, <2>2, NoElements, Zenon DEF Fresh
    <3> QED
      BY <3>1 DEF ToSet
  <2>8. \A k \in 1..Len(journal') : ~(k < at') /\ k >= at'
    <3>1. at' = 1
      BY <2>1
    <3> QED
      BY <2>3, <3>1
  <2>9. Progress'
    <3>1. used' <= ViewHead + MarkerLen * Cardinality(MarkersBefore')
      <4> DEFINE few == Cardinality(MarkersBefore')
      <4>1. few \in Nat
        BY <2>6
      <4> HIDE DEF few
      <4>2. MarkerLen * few \in Nat
        BY <4>1, Sizes
      <4>3. used' = ViewHead
        BY <2>1, <2>2
      <4> QED
        BY <4>2, <4>3, Sizes DEF few
    <3>2. (\A k \in LinesToShow' : k >= at') /\ {k \in ToShow' : k < at'} = {}
      BY <2>5, <2>8
    <3>3. shown' = <<>> /\ matched' = 0 /\ ~cut'
      BY <2>1, <2>2 DEF Fresh
    <3> QED
      BY <2>7, <3>1, <3>2, <3>3, NoElements DEF Progress
  <2> QED
    BY <1>3, <2>1, <2>2, <2>4, <2>9, Sizes DEF VInv, ViewFaithful
<1>4. CASE JournalFails
  BY <1>4 DEF JournalFails, Answers, viewAnswer, VInv, ViewTypeOK, ViewFaithful
<1>5. CASE ViewReturns
  <2>1. ViewInit'
    BY <1>5 DEF ViewReturns, Forget, ViewInit
  <2> QED
    BY <2>1, AtRest, PTL
<1> QED
  BY <1>1, <1>2, <1>3, <1>4, <1>5

----------------------------------------------------------------------------
\* The types after a step through the journal.
LEMMA TypesStep ==
  ASSUME ViewTypeOK, at' \in {at, at + 1}, at' <= Len(journal) + 1,
         UNCHANGED <<ask, journal, global>>,
         vpc' \in {"lines", "fallback", "answered"}, cut' \in BOOLEAN,
         used' \in Nat, matched' \in Nat
  PROVE  ViewTypeOK'
<1>1. Len(journal) \in Nat
  BY JournalFacts DEF ViewTypeOK
<1>2. at' \in 1..(Len(journal') + 1)
  BY <1>1 DEF ViewTypeOK
<1> QED
  BY <1>2, Zenon DEF ViewTypeOK

\* A line that is not shown.
LEMMA SkipStep ==
  ASSUME VInv, LineSkipped
  PROVE  VInv'
<1>1. Looking /\ UNCHANGED <<vpc, ask, journal, global, used, shown, matched, cut, reply>> /\ at' = at + 1
  BY DEF LineSkipped, viewAnswer
<1>2. /\ ViewTypeOK /\ Progress /\ reply = "none_yet" /\ vpc = "lines"
      /\ at \in 1..Len(journal) /\ Len(journal) \in Nat
  BY <1>1, Turn
<1>3. at \notin ToShow
  BY DEF LineSkipped, ToShow, LinesToShow, Reboots
<1>4. ToShow' = ToShow /\ LinesToShow' = LinesToShow /\ Reboots(journal)' = Reboots(journal)
  BY <1>1, ToShowStays
<1>5. \A k \in ToShow : k \in Nat /\ (k < at + 1 <=> k < at) /\ (k >= at => k >= at + 1)
  <2>1. \A k \in ToShow : k \in 1..Len(journal) /\ k # at
    BY <1>2, <1>3, ToShowType
  <2> QED
    BY <1>2, <2>1
<1>6. LinesToShow \subseteq ToShow /\ Reboots(journal) \subseteq ToShow
  BY <1>2, ToShowType
<1>7. MarkersBefore' = MarkersBefore
  BY <1>1, <1>4, <1>5, <1>6 DEF MarkersBefore
<1>8. {k \in ToShow' : k < at'} = {k \in ToShow : k < at}
  BY <1>1, <1>4, <1>5
<1>9. Progress'
  BY <1>1, <1>2, <1>4, <1>5, <1>6, <1>7, <1>8 DEF Progress
<1>10. ViewTypeOK'
  <2>1. at' <= Len(journal) + 1
    BY <1>1, <1>2
  <2>2. used \in Nat /\ matched \in Nat /\ cut \in BOOLEAN
    BY <1>2 DEF ViewTypeOK
  <2> QED
    BY <1>1, <1>2, <2>1, <2>2, TypesStep
<1> QED
  BY <1>1, <1>2, <1>9, <1>10 DEF VInv, ViewFaithful

\* A reboot: its marker fits, since the cap was not passed.
LEMMA MarkerStep ==
  ASSUME VInv, RebootShown
  PROVE  VInv'
<1>1. /\ Looking /\ journal[at].kind = "reboot" /\ used' = Min({used + MarkerLen, ViewSize - 1})
      /\ shown' = Append(shown, at) /\ at' = at + 1
      /\ UNCHANGED <<vpc, ask, journal, global, matched, cut, reply>>
  BY DEF RebootShown
<1>2. /\ ViewTypeOK /\ Progress /\ reply = "none_yet" /\ vpc = "lines"
      /\ at \in 1..Len(journal) /\ Len(journal) \in Nat /\ used \in Nat /\ matched \in Nat
  BY <1>1, Turn
<1>3. at \in Reboots(journal) /\ at \in ToShow /\ at \notin LinesToShow
  <2>1. at \in Reboots(journal)
    BY <1>1, <1>2, JournalFacts DEF Reboots, ViewTypeOK
  <2> QED
    BY <1>2, <2>1, ToShowType
<1>4. ToShow' = ToShow /\ LinesToShow' = LinesToShow /\ Reboots(journal)' = Reboots(journal)
  BY <1>1, ToShowStays
<1>5. /\ shown' \in Seq(Nat) /\ shown' # <<>>
      /\ \A k, l \in DOMAIN shown' : k < l => shown'[k] < shown'[l]
      /\ ToSet(shown') = {k \in ToShow' : k < at'}
  BY <1>1, <1>2, <1>3, ShownGrows
<1>6. used' \in Nat /\ used' < ViewSize /\ used' <= used + MarkerLen
  <2>1. used' = IF used + MarkerLen <= ViewSize - 1 THEN used + MarkerLen ELSE ViewSize - 1
    BY <1>1, <1>2, Sizes, MinOfTwo
  <2>2. ViewSize \in Nat /\ ViewSize > 0 /\ MarkerLen \in Nat
    BY Sizes
  <2> QED
    BY <1>2, <2>1, <2>2
<1>7. Cardinality(MarkersBefore') = Cardinality(MarkersBefore) + 1
  <2>1. MarkersBefore' = MarkersBefore \cup {at} /\ at \notin MarkersBefore
    <3>1. \A k \in Reboots(journal) : k \in Nat
      BY <1>2, ToShowType
    <3>2. \A k \in Nat : k < at + 1 <=> k < at \/ k = at
      BY <1>2
    <3>3. ~(at < at)
      BY <1>2
    <3> QED
      BY <1>1, <1>3, <1>4, <3>1, <3>2, <3>3 DEF MarkersBefore
  <2>2. IsFiniteSet(MarkersBefore)
    BY <1>2, MarkersFew
  <2> QED
    BY <2>1, <2>2, FS_AddElement
<1>8. matched = 0 => /\ \A k \in LinesToShow : k >= at + 1
                     /\ used' <= ViewHead + MarkerLen * Cardinality(MarkersBefore')
  <2> SUFFICES ASSUME matched = 0
               PROVE  /\ \A k \in LinesToShow : k >= at + 1
                      /\ used' <= ViewHead + MarkerLen * Cardinality(MarkersBefore')
    OBVIOUS
  <2>1. ASSUME NEW k \in LinesToShow PROVE k >= at + 1
    <3>1. k >= at /\ k # at /\ k \in 1..Len(journal)
      BY <1>2, <1>3, ToShowType DEF Progress
    <3> QED
      BY <1>2, <3>1
  <2>2. used' <= ViewHead + MarkerLen * Cardinality(MarkersBefore')
    <3> DEFINE few == Cardinality(MarkersBefore)
    <3>1. used <= ViewHead + MarkerLen * few /\ few \in Nat
      BY <1>2, MarkersFew DEF Progress
    <3>2. Cardinality(MarkersBefore') = few + 1
      BY <1>7
    <3> HIDE DEF few
    <3>3. MarkerLen * (few + 1) = MarkerLen * few + MarkerLen /\ MarkerLen * few \in Nat
      BY <3>1, Sizes
    <3>4. used' <= ViewHead + (MarkerLen * few + MarkerLen)
      BY <1>2, <1>6, <3>1, <3>3, Sizes
    <3> QED
      BY <3>2, <3>3, <3>4
  <2> QED
    BY <2>1, <2>2
<1>9. Progress'
  <2>1. matched' = 0 => (\A k \in LinesToShow' : k >= at')
    BY <1>1, <1>4, <1>8
  <2>2. matched' = 0 => used' <= ViewHead + MarkerLen * Cardinality(MarkersBefore')
    BY <1>1, <1>8
  <2>3. ~cut'
    BY <1>1, <1>2 DEF Progress
  <2> QED
    BY <1>5, <2>1, <2>2, <2>3 DEF Progress
<1>10. ViewTypeOK'
  <2>1. at' <= Len(journal) + 1 /\ cut \in BOOLEAN
    BY <1>1, <1>2 DEF ViewTypeOK
  <2> QED
    BY <1>1, <1>2, <1>6, <2>1, TypesStep
<1> QED
  BY <1>1, <1>2, <1>6, <1>9, <1>10 DEF VInv, ViewFaithful

\* A line that matches and fits.
LEMMA ShowStep ==
  ASSUME VInv, LineShown
  PROVE  VInv'
<1>1. /\ Looking /\ journal[at].kind = "text" /\ Matches(journal[at]) /\ Fits(journal[at])
      /\ used' = used + journal[at].len + 1 /\ matched' = matched + 1
      /\ shown' = Append(shown, at) /\ at' = at + 1
      /\ UNCHANGED <<vpc, ask, journal, global, cut, reply>>
  BY DEF LineShown
<1>2. /\ ViewTypeOK /\ Progress /\ reply = "none_yet" /\ vpc = "lines"
      /\ at \in 1..Len(journal) /\ Len(journal) \in Nat /\ used \in Nat /\ matched \in Nat
      /\ journal[at].len \in Nat
  BY <1>1, Turn
<1>3. at \in ToShow
  BY <1>1, <1>2, JournalFacts DEF LinesToShow, ToShow, ViewTypeOK
<1>4. /\ shown' \in Seq(Nat) /\ shown' # <<>>
      /\ \A k, l \in DOMAIN shown' : k < l => shown'[k] < shown'[l]
      /\ ToSet(shown') = {k \in ToShow' : k < at'}
  BY <1>1, <1>2, <1>3, ShownGrows
<1>5. used' \in Nat /\ used' < ViewSize
  <2>1. used + journal[at].len < ViewSize - 5 /\ ViewSize \in Nat
    BY <1>1, Sizes DEF Fits
  <2> QED
    BY <1>1, <1>2, <2>1
<1>6. matched' \in Nat /\ matched' # 0
  BY <1>1, <1>2
<1>7. Progress'
  <2>1. ~cut'
    BY <1>1, <1>2 DEF Progress
  <2> QED
    BY <1>4, <1>6, <2>1 DEF Progress
<1>8. ViewTypeOK'
  <2>1. at' <= Len(journal) + 1 /\ cut \in BOOLEAN
    BY <1>1, <1>2 DEF ViewTypeOK
  <2> QED
    BY <1>1, <1>2, <1>5, <1>6, <2>1, TypesStep
<1> QED
  BY <1>1, <1>2, <1>5, <1>7, <1>8 DEF VInv, ViewFaithful

----------------------------------------------------------------------------
\* What the answer says, from the lines that were gone through.
LEMMA ListingFaithful ==
  ASSUME ViewTypeOK, Progress, used' \in Nat, used' < ViewSize,
         UNCHANGED <<ask, journal, at, shown>>, matched' \in Nat, cut' \in BOOLEAN,
         Concluded(matched'),
         matched' = 0 => LinesToShow = {} /\ ~cut',
         \A k \in ToShow : k >= at =>
           \/ cut' /\ used' > SoftCap
           \/ at \in LinesToShow /\ ~Fits(journal[at])'
  PROVE  ViewFaithful'
<1>1. ToShow' = ToShow /\ LinesToShow' = LinesToShow
  BY ToShowStays
<1>2. ToSet(shown) = {k \in ToShow : k < at} /\ ToSet(shown') = ToSet(shown)
  BY DEF Progress
<1>3. Len(journal) \in Nat /\ at \in 1..(Len(journal) + 1)
  BY ToShowType DEF ViewTypeOK
<1>4. ToShow \subseteq Nat /\ LinesToShow \subseteq ToShow
  BY <1>3, ToShowType
<1>5. /\ \A k, l \in DOMAIN shown' : k < l => shown'[k] < shown'[l]
      /\ ToSet(shown') \subseteq ToShow'
  BY <1>1, <1>2 DEF Progress
<1>6. at \notin ToSet(shown')
  BY <1>2, <1>3
<1>7. ASSUME NEW k \in ToShow' \ ToSet(shown')
      PROVE  /\ \A l \in ToSet(shown') : l < k
             /\ \/ cut' /\ used' > SoftCap
                \/ at' \in LinesToShow' \ ToSet(shown') /\ ~Fits(journal[at])'
  <2>1. k \in ToShow /\ k \in Nat /\ k >= at
    BY <1>1, <1>2, <1>3, <1>4
  <2>2. \A l \in ToSet(shown') : l < k
    <3> SUFFICES ASSUME NEW l \in ToSet(shown') PROVE l < k
      OBVIOUS
    <3>1. l \in ToShow /\ l < at
      BY <1>2
    <3>2. l \in Nat /\ at \in Nat /\ k \in Nat /\ k >= at
      BY <1>3, <1>4, <2>1, <3>1
    <3> QED
      BY <3>1, <3>2
  <2>3. \/ cut' /\ used' > SoftCap
        \/ at \in LinesToShow /\ ~Fits(journal[at])'
    BY <2>1
  <2> QED
    BY <1>1, <1>6, <2>2, <2>3
<1>8. reply' \in {"no_matches", "none_found"} => matched' = 0
  BY DEF Concluded, Answers
<1> QED
  BY <1>1, <1>5, <1>7, <1>8 DEF ViewFaithful

\* A line that does not fit ends the listing: it was to be shown and is not.
LEMMA TooLongStep ==
  ASSUME VInv, LineTooLong
  PROVE  VInv'
<1>1. /\ Looking /\ journal[at].kind = "text" /\ Matches(journal[at]) /\ ~Fits(journal[at])
      /\ matched' = matched + 1 /\ Concluded(matched') /\ vpc' = "answered"
      /\ UNCHANGED <<ask, journal, global, at, used, shown, cut>>
  BY DEF LineTooLong, Concluded, Answers
<1>2. /\ ViewTypeOK /\ Progress
      /\ at \in 1..Len(journal) /\ Len(journal) \in Nat /\ used \in Nat /\ matched \in Nat
  BY <1>1, Turn
<1>3. at \in LinesToShow
  BY <1>1, <1>2, JournalFacts DEF LinesToShow, ViewTypeOK
<1>4. matched' \in Nat /\ matched' # 0 /\ used' \in Nat /\ cut' \in BOOLEAN
  BY <1>1, <1>2 DEF ViewTypeOK
<1>5. used' < ViewSize
  BY <1>1 DEF VInv, ViewFaithful
<1>6. ~Fits(journal[at])'
  BY <1>1 DEF Fits
<1>7. ViewFaithful'
  BY <1>1, <1>2, <1>3, <1>4, <1>5, <1>6, ListingFaithful
<1>8. ViewTypeOK'
  BY <1>1, <1>2, <1>4, TypesStep
<1> QED
  BY <1>1, <1>7, <1>8 DEF VInv

\* Past the cap the listing ends, and something matched before.
LEMMA CutStep ==
  ASSUME VInv, ListingCut
  PROVE  VInv'
<1>1. /\ vpc = "lines" /\ at <= Len(journal) /\ used > SoftCap
      /\ used' = Min({used + CutLen, ViewSize - 1}) /\ cut' = TRUE
      /\ Concluded(matched) /\ vpc' = "answered"
      /\ UNCHANGED <<ask, journal, global, at, shown, matched>>
  BY DEF ListingCut, Concluded, Answers
<1>2. /\ ViewTypeOK /\ Progress /\ used \in Nat /\ matched \in Nat /\ used < ViewSize
  BY <1>1 DEF VInv, ViewFaithful, ViewTypeOK
<1>3. used' \in Nat /\ used' < ViewSize /\ used' > SoftCap
  <2>1. used' = IF used + CutLen <= ViewSize - 1 THEN used + CutLen ELSE ViewSize - 1
    BY <1>1, <1>2, Sizes, MinOfTwo
  <2>2. ViewSize \in Nat /\ ViewSize > 0 /\ CutLen \in Nat /\ SoftCap \in Nat
    BY Sizes
  <2> QED
    BY <1>1, <1>2, <2>1, <2>2
\* The markers alone do not reach the cap.
<1>4. matched # 0
  <2> SUFFICES ASSUME matched = 0 PROVE FALSE
    OBVIOUS
  <2>1. used <= ViewHead + MarkerLen * Cardinality(MarkersBefore)
    BY <1>2 DEF Progress
  <2> DEFINE most == ViewHead + MarkerLen * Cardinality(MarkersBefore)
  <2>2. most <= SoftCap /\ most \in Nat
    <3> DEFINE few == Cardinality(MarkersBefore)
    <3>1. few \in Nat /\ most <= SoftCap
      BY <1>2, MarkersFew
    <3> HIDE DEF few
    <3>2. ViewHead + MarkerLen * few \in Nat
      BY <3>1, Sizes
    <3> QED
      BY <3>1, <3>2 DEF few
  <2>3. used <= most
    BY <2>1
  <2> HIDE DEF most
  <2> QED
    BY <1>1, <1>2, <2>2, <2>3, Sizes
<1>5. matched' \in Nat /\ matched' # 0 /\ cut' \in BOOLEAN /\ Concluded(matched')
  BY <1>1, <1>2, <1>4
<1>6. ViewFaithful'
  BY <1>1, <1>2, <1>3, <1>5, ListingFaithful
<1>7. ViewTypeOK'
  <2>1. Len(journal) \in Nat /\ at \in 1..(Len(journal) + 1)
    BY <1>2, ToShowType DEF ViewTypeOK
  <2>2. at' <= Len(journal) + 1
    BY <1>1, <2>1
  <2> QED
    BY <1>1, <1>2, <1>3, <1>5, <2>2, TypesStep
<1> QED
  BY <1>1, <1>6, <1>7 DEF VInv

\* The second run starts with an empty response.
LEMMA FallbackStep ==
  ASSUME VInv, FallsBack
  PROVE  VInv'
<1>1. /\ vpc = "lines" /\ journal = <<>> /\ vpc' = "fallback" /\ used' = ViewHead
      /\ UNCHANGED <<ask, journal, global, at, shown, matched, cut, reply>>
  BY DEF FallsBack
<1>2. ViewTypeOK /\ Progress /\ reply = "none_yet"
  BY <1>1 DEF VInv
<1>3. ToShow = {}
  <2>1. Len(journal) = 0 /\ ToShow \subseteq 1..Len(journal)
    BY <1>1, <1>2, ToShowType, NoElements
  <2> QED
    BY <2>1
<1>4. shown = <<>>
  <2>1. ToSet(shown) = {} /\ shown \in Seq(Nat)
    BY <1>2, <1>3 DEF Progress
  <2>2. DOMAIN shown = {}
    BY <2>1 DEF ToSet
  <2> QED
    BY <2>1, <2>2
<1>5. Fresh' /\ reply' = "none_yet"
  BY <1>1, <1>2, <1>4 DEF Progress, Fresh
<1>6. ViewTypeOK'
  <2>1. Len(journal) \in Nat /\ at \in 1..(Len(journal) + 1)
    BY <1>2, ToShowType DEF ViewTypeOK
  <2>2. at' <= Len(journal) + 1
    BY <1>1, <2>1
  <2>3. matched' \in Nat /\ cut' \in BOOLEAN /\ used' \in Nat
    BY <1>1, <1>2, Sizes DEF ViewTypeOK
  <2> QED
    BY <1>1, <1>2, <2>2, <2>3, TypesStep
<1>7. used' < ViewSize
  BY <1>1, Sizes
<1> QED
  BY <1>1, <1>5, <1>6, <1>7 DEF VInv, ViewFaithful

\* After the last line all that was to be shown is shown.
LEMMA EndStep ==
  ASSUME VInv, ListingEnds
  PROVE  VInv'
<1>1. /\ vpc = "lines" /\ at > Len(journal) /\ Concluded(matched) /\ vpc' = "answered"
      /\ UNCHANGED <<ask, journal, global, at, used, shown, matched, cut>>
  BY DEF ListingEnds, Concluded, Answers, viewAnswer
<1>2. ViewTypeOK /\ Progress /\ used < ViewSize
  BY <1>1 DEF VInv, ViewFaithful
<1>3. Len(journal) \in Nat /\ at \in 1..(Len(journal) + 1)
  BY <1>2, ToShowType DEF ViewTypeOK
<1>4. \A k \in ToShow : ~(k >= at)
  <2>1. ToShow \subseteq 1..Len(journal)
    BY <1>2, ToShowType
  <2> QED
    BY <1>1, <1>3, <2>1
<1>5. matched = 0 => LinesToShow = {}
  BY <1>2, <1>4, ToShowType DEF Progress
<1>6. /\ used' \in Nat /\ used' < ViewSize /\ matched' \in Nat /\ cut' \in BOOLEAN
      /\ Concluded(matched') /\ ~cut'
  BY <1>1, <1>2 DEF ViewTypeOK, Progress
<1>7. matched' = 0 => LinesToShow = {} /\ ~cut'
  BY <1>1, <1>5, <1>6
<1>8. ViewFaithful'
  BY <1>1, <1>2, <1>4, <1>6, <1>7, ListingFaithful
<1>9. ViewTypeOK'
  <2>1. at' <= Len(journal) + 1
    BY <1>1, <1>3
  <2> QED
    BY <1>1, <1>2, <1>6, <2>1, TypesStep
<1> QED
  BY <1>1, <1>8, <1>9 DEF VInv

\* The invariant holds of every step of /logs.
THEOREM ViewInvariant == ViewSpec => []VInv
<1>1. VInv /\ [ViewNext]_viewVars => VInv'
  <2> SUFFICES ASSUME VInv, [ViewNext]_viewVars PROVE VInv'
    OBVIOUS
  <2>1. CASE ViewNext
    BY <2>1, RequestSteps, SkipStep, MarkerStep, ShowStep, TooLongStep, CutStep, FallbackStep,
       EndStep DEF ViewNext
  <2>2. CASE UNCHANGED viewVars
    <3>1. UNCHANGED <<vpc, ask, journal, global, at, used, shown, matched, cut, reply>>
      BY <2>2 DEF viewVars, viewAnswer
    <3>2. /\ LinesToShow' = LinesToShow /\ ToShow' = ToShow /\ MarkersBefore' = MarkersBefore
          /\ \A e : Fits(e)' = Fits(e)
      BY <3>1, ToShowStays DEF MarkersBefore, Fits
    <3> QED
      BY <3>1, <3>2 DEF VInv, ViewTypeOK, ViewFaithful, Fresh, Progress
  <2> QED
    BY <2>1, <2>2
<1> QED
  BY AtRest, <1>1, PTL DEF ViewSpec

\* For any journal and request, a listing holds the first of the lines that
\* match, in order and with the reboots between them, and ends before the last
\* only at the cap or at a line that does not fit; nothing is said to be missing
\* that is there (logs.c:239-308 and 538-552).
THEOREM ViewFaithfulAlways == ViewSpec => []ViewFaithful
<1>1. VInv => ViewFaithful
  BY DEF VInv
<1> QED
  BY ViewInvariant, <1>1, PTL

----------------------------------------------------------------------------
(* LogStat *)

\* How many of the first n lines show v.
Found(F, n, v) == Cardinality({k \in 1..n : F[k] = v})

\* What the extractors find in each line.
LevelsIn(s) == [k \in DOMAIN s |-> extract_level(s[k])]
TagsIn(s) == [k \in DOMAIN s |-> extract_tag(s[k])]
HoursIn(s) == [k \in DOMAIN s |-> extract_hour(s[k])]

\* The counters are those of the lines before the one to be read.
Tally ==
  /\ \A l \in StatLevels \cup {Nothing} : levels[l] = Found(LevelsIn(text), line - 1, l)
  /\ \A t \in StatTags : tags[t] = Found(TagsIn(text), line - 1, t)
  /\ \A h \in Hours : hours[h] = Found(HoursIn(text), line - 1, h)

\* The counting is done before the sort, and not begun before the log is read.
Stages ==
  /\ spc \in {"idle", "open", "failed"} => line = 1
  /\ spc \in {"idle", "open"} => total = 0
  /\ spc \in {"sort", "formatted"} =>
       line = Len(text) + 1 /\ \A h \in Hours : hours[h] <= hours[busiest]
  /\ spc \in {"lines", "sort", "formatted"} => total <= Cardinality(Newlines(text, ended))

\* The tags before si are in their places, and none between si and sj has more
\* lines than the one at si.
SortSoFar ==
  /\ \A t \in StatTags : \E k \in StatTags : order[k] = t
  /\ spc # "sort" /\ spc # "formatted" => si = 1 /\ sj = 2
  /\ IF si = 7 THEN sj = 8 ELSE sj \in (si + 1)..7
  /\ \A j, k \in StatTags : j < si /\ j < k => tags[order[j]] >= tags[order[k]]
  /\ \A k \in StatTags : si < k /\ k < sj => tags[order[si]] >= tags[order[k]]
  /\ spc = "formatted" => si = 7

\* The inductive invariant of the log statistics.
StInv ==
  /\ StatTypeOK /\ text \in Seq(StatLine) /\ ended \in BOOLEAN
  /\ Tally /\ Stages /\ SortSoFar

----------------------------------------------------------------------------
(* The helpers of the model. *)

\* Counting one line more.
LEMMA FoundFirst ==
  ASSUME NEW F, NEW v
  PROVE  Found(F, 0, v) = 0
<1>1. {k \in 1..0 : F[k] = v} = {}
  OBVIOUS
<1> QED
  BY <1>1, FS_EmptySet DEF Found

LEMMA FoundNext ==
  ASSUME NEW F, NEW v, NEW n \in Nat
  PROVE  /\ Found(F, n, v) \in Nat
         /\ Found(F, n + 1, v) = IF F[n + 1] = v THEN Found(F, n, v) + 1 ELSE Found(F, n, v)
<1> DEFINE S == {k \in 1..n : F[k] = v}
           T == {k \in 1..(n + 1) : F[k] = v}
<1>1. IsFiniteSet(S) /\ Cardinality(S) \in Nat
  <2>1. IsFiniteSet(1..n)
    BY FS_Interval
  <2> QED
    BY <2>1, FS_Subset, FS_CardinalityType
<1>2. \A k : k \in 1..(n + 1) <=> k \in 1..n \/ k = n + 1
  OBVIOUS
<1>3. n + 1 \notin S
  OBVIOUS
<1>4. T = IF F[n + 1] = v THEN S \cup {n + 1} ELSE S
  BY <1>2
<1> HIDE DEF S, T
<1>5. Cardinality(T) = IF F[n + 1] = v THEN Cardinality(S) + 1 ELSE Cardinality(S)
  BY <1>1, <1>3, <1>4, FS_AddElement
<1> QED
  BY <1>1, <1>5 DEF Found, S, T

\* What the extractors find is of its kind.
LEMMA Extracted ==
  ASSUME NEW l \in StatLine
  PROVE  /\ extract_hour(l) \in Hours \cup {Nothing}
         /\ extract_level(l) \in StatLevels \cup {Nothing}
         /\ extract_tag(l) \in StatTags \cup {Nothing}
BY DEF StatLine, extract_hour, extract_level, extract_tag

\* One of the hours has most lines.
LEMMA BusiestIs ==
  ASSUME NEW f \in [Hours -> Nat]
  PROVE  \E h \in Hours : \A g \in Hours : f[g] <= f[h]
<1> DEFINE T == {n \in 0..23 : \E h \in 0..n : \A g \in 0..n : f[g] <= f[h]}
<1>1. \A h \in 0..23 : f[h] \in Nat
  BY DEF Hours
<1>2. 0 \in T
  <2>1. 0..0 = {0}
    OBVIOUS
  <2> QED
    BY <1>1, <2>1
<1>3. ASSUME NEW n \in 0..(23 - 1), n \in T PROVE n + 1 \in T
  <2>1. PICK h \in 0..n : \A g \in 0..n : f[g] <= f[h]
    BY <1>3
  <2>2. n + 1 \in 0..23 /\ n + 1 \in 0..(n + 1) /\ h \in 0..(n + 1) /\ h \in 0..23
    OBVIOUS
  <2>3. \A g \in 0..(n + 1) : (g \in 0..n \/ g = n + 1) /\ g \in 0..23
    OBVIOUS
  <2>4. CASE f[n + 1] <= f[h]
    <3>1. \A g \in 0..(n + 1) : f[g] <= f[h]
      BY <2>1, <2>3, <2>4
    <3> QED
      BY <2>2, <3>1
  <2>5. CASE ~(f[n + 1] <= f[h])
    <3>1. \A g \in 0..(n + 1) : f[g] <= f[n + 1]
      BY <1>1, <2>1, <2>2, <2>3, <2>5
    <3> QED
      BY <2>2, <3>1
  <2> QED
    BY <2>4, <2>5
<1>4. 23 \in T
  <2> HIDE DEF T
  <2>1. 0..23 \subseteq T
    BY <1>2, <1>3, Induction
  <2> QED
    BY <2>1
<1> QED
  BY <1>4 DEF Hours

\* The newlines are finitely many, and never fewer than are counted.
LEMMA NewlinesFew ==
  ASSUME NEW s \in Seq(StatLine), NEW e
  PROVE  /\ Cardinality(Newlines(s, e)) \in Nat
         /\ count_newlines(s, e) \in Nat
         /\ count_newlines(s, e) <= Cardinality(Newlines(s, e))
<1> DEFINE m == IF e THEN Len(s) ELSE Len(s) - 1
           f == [k \in 1..m |-> BytesTo(s, k)]
           N == Newlines(s, e)
<1>1. m \in Int
  OBVIOUS
<1>2. N = {BytesTo(s, k) : k \in 1..m}
  BY DEF Newlines
<1> HIDE DEF m
<1>3. f \in Surjection(1..m, N)
  BY <1>2 DEF Surjection
<1>4. IsFiniteSet(1..m)
  BY <1>1, FS_Interval
<1>5. IsFiniteSet(N)
  <2> HIDE DEF f, N
  <2> QED
    BY <1>3, <1>4, FS_Surjection
<1> DEFINE C == {p \in N : p <= (Bytes(s, e) \div 16) * 16 => p % 8 = 0}
<1>6. count_newlines(s, e) = Cardinality(C)
  BY DEF count_newlines
<1>7. C \in SUBSET N
  OBVIOUS
<1> HIDE DEF N, C
<1>8. IsFiniteSet(C) /\ Cardinality(C) <= Cardinality(N)
  BY <1>5, <1>7, FS_Subset
<1>9. Cardinality(C) \in Nat /\ Cardinality(N) \in Nat
  BY <1>5, <1>8, FS_CardinalityType
<1> QED
  BY <1>6, <1>8, <1>9 DEF N

\* The bytes of any number of lines.
LEMMA SumType ==
  ASSUME NEW s \in Seq(StatLine)
  PROVE  FoldLeft(LAMBDA n, l : n + l.len + 1, 0, s) \in Nat
<1> DEFINE n == Len(s)
           G == [p \in Nat \X (1..n) |-> p[1] + s[p[2]].len + 1]
           Def(it) == [d \in SUBSET DOMAIN s |->
                         IF d = {} THEN 0 ELSE it[d \ {Max(d)}] + s[Max(d)].len + 1]
           fold == CHOOSE it : it = Def(it)
<1>1. n \in Nat /\ DOMAIN s = 1..n /\ \A i \in 1..n : s[i].len \in Nat
  <2>1. \A l \in StatLine : l.len \in Nat
    BY DEF StatLine
  <2> QED
    BY <2>1
<1>2. 0 \in Nat
  OBVIOUS
<1>3. G \in [Nat \X (1..n) -> Nat]
  <2> SUFFICES ASSUME NEW p \in Nat \X (1..n) PROVE p[1] + s[p[2]].len + 1 \in Nat
    OBVIOUS
  <2>1. p[1] \in Nat /\ p[2] \in 1..n
    OBVIOUS
  <2>2. s[p[2]].len \in Nat
    BY <1>1, <2>1
  <2> QED
    BY <2>1, <2>2
<1>4. \E it : it = Def(it)
  <2> HIDE DEF G, n
  <2>1. PICK it \in [SUBSET (1..n) -> Nat] : FoldOf(it, 0, n, G)
    BY <1>1, <1>2, <1>3, FoldExists
  <2>2. ASSUME NEW d \in SUBSET (1..n), d # {}
        PROVE  G[<<it[d \ {Max(d)}], Max(d)>>] = it[d \ {Max(d)}] + s[Max(d)].len + 1
    <3>1. Max(d) \in 1..n
      BY <1>1, <2>2, MaxOfSome
    <3>2. it[d \ {Max(d)}] \in Nat
      BY <2>1
    <3> QED
      BY <3>1, <3>2 DEF G
  <2>3. it = Def(it)
    BY <1>1, <2>1, <2>2 DEF FoldOf
  <2> QED
    BY <2>3
<1>5. fold = Def(fold)
  BY <1>4
<1>6. FoldLeft(LAMBDA m, l : m + l.len + 1, 0, s) = fold[1..n]
  BY <1>1 DEF FoldLeft, MapThenFoldSet
<1> HIDE DEF fold, n
<1> DEFINE T == {i \in 0..n : fold[1..i] \in Nat}
<1>7. 0 \in T
  <2>1. 1..0 = {} /\ 0 \in 0..n
    BY <1>1
  <2>2. fold[{}] = 0
    BY <1>1, <1>5
  <2> QED
    BY <2>1, <2>2
<1>8. ASSUME NEW i \in 0..(n - 1), i \in T PROVE i + 1 \in T
  <2>0. /\ i + 1 \in Nat /\ i + 1 # 0 /\ i + 1 \in 1..n /\ i + 1 \in 0..n /\ (i + 1) - 1 = i
        /\ i + 1 \in 1..(i + 1) /\ \A j \in 1..(i + 1) : j \in 1..n
    BY <1>1
  <2>1. 1..(i + 1) \in SUBSET (1..n) /\ 1..(i + 1) # {}
    BY <2>0
  <2>2. Max(1..(i + 1)) = i + 1 /\ (1..(i + 1)) \ {i + 1} = 1..i
    BY <2>0, MaxOfRange
  <2>3. fold[1..(i + 1)] = fold[1..i] + s[i + 1].len + 1
    <3> DEFINE d == 1..(i + 1)
    <3>1. d \in SUBSET (1..n) /\ d # {} /\ Max(d) = i + 1 /\ d \ {i + 1} = 1..i
      BY <2>1, <2>2
    <3> HIDE DEF d
    <3>2. fold[d] = fold[d \ {Max(d)}] + s[Max(d)].len + 1
      BY <1>1, <1>5, <3>1
    <3> QED
      BY <3>1, <3>2 DEF d
  <2>4. fold[1..(i + 1)] \in Nat
    BY <1>1, <1>8, <2>0, <2>3
  <2> QED
    BY <2>0, <2>4
<1>9. n \in T
  <2> HIDE DEF T
  <2>1. 0..n \subseteq T
    BY <1>1, <1>7, <1>8, Induction
  <2> QED
    BY <1>1, <2>1
<1> QED
  BY <1>6, <1>9

\* Lengths of texts are numbers.
LEMMA BytesType ==
  ASSUME NEW s \in Seq(StatLine), NEW k \in 0..Len(s)
  PROVE  BytesTo(s, k) \in Nat
<1> DEFINE p == SubSeq(s, 1, k)
<1>1. p \in Seq(StatLine)
  OBVIOUS
<1> HIDE DEF p
<1>2. FoldLeft(LAMBDA n, l : n + l.len + 1, 0, p) \in Nat
  BY <1>1, SumType
<1> QED
  BY <1>2 DEF BytesTo, p

\* The last n bytes are lines.
LEMMA TailType ==
  ASSUME NEW s \in Seq(StatLine), NEW e \in BOOLEAN, NEW n \in Nat
  PROVE  TailOf(s, e, n) \in Seq(StatLine)
<1> DEFINE M == {m \in 0..Len(s) : Bytes(s, e) - BytesTo(s, m) <= n}
           k == Min(M)
           rest == SubSeq(s, k + 1, Len(s))
           part == n - (Bytes(s, e) - BytesTo(s, k))
           first == [len |-> part - 1, hour |-> Nothing, level |-> Nothing, tag |-> Nothing]
<1>1. Len(s) \in Nat /\ BytesTo(s, Len(s)) \in Nat
  <2>1. Len(s) \in Nat /\ Len(s) \in 0..Len(s)
    OBVIOUS
  <2> QED
    BY <2>1, BytesType
<1>2. Bytes(s, e) \in Int /\ Bytes(s, e) <= BytesTo(s, Len(s))
  BY <1>1 DEF Bytes
<1>3. Len(s) \in M
  BY <1>1, <1>2
<1>4. M \subseteq Nat
  OBVIOUS
<1>5. k \in M
  <2> HIDE DEF M
  <2> QED
    BY <1>3, <1>4, MinOfSome
<1>6. k \in 0..Len(s) /\ Bytes(s, e) - BytesTo(s, k) <= n
  BY <1>5
<1> HIDE DEF k, M
<1>7. rest \in Seq(StatLine)
  BY <1>1, <1>6
<1>8. part \in Nat
  <2>1. BytesTo(s, k) \in Nat
    BY <1>6, BytesType
  <2> QED
    BY <1>2, <1>6, <2>1
<1>9. TailOf(s, e, n) = IF part = 0 THEN rest ELSE <<first>> \o rest
  BY DEF TailOf, k, M
<1> HIDE DEF part, rest
<1>10. CASE part # 0
  <2>1. first \in StatLine
    BY <1>8, <1>10 DEF StatLine
  <2> HIDE DEF first
  <2>2. <<first>> \in Seq(StatLine)
    BY <2>1
  <2>3. <<first>> \o rest \in Seq(StatLine)
    BY <1>7, <2>2
  <2> QED
    BY <1>9, <1>10, <2>3
<1> QED
  BY <1>7, <1>9, <1>10

----------------------------------------------------------------------------
(* The steps. *)

\* Before the first line every counter is zero, and zero is right.
Zero ==
  /\ \A l \in StatLevels \cup {Nothing} : levels[l] = 0
  /\ \A t \in StatTags : tags[t] = 0
  /\ \A h \in Hours : hours[h] = 0

\* Zero is the right count of no lines.
LEMMA TallyZero == line = 1 => (Tally <=> Zero)
<1> SUFFICES ASSUME line = 1 PROVE Tally <=> Zero
  OBVIOUS
<1>1. line - 1 = 0
  OBVIOUS
<1> QED
  BY <1>1, FoundFirst DEF Tally, Zero

\* The invariant holds at first, and is kept by every step.
LEMMA StatInitOK == StatInit => StInv
<1> SUFFICES ASSUME StatInit PROVE StInv
  OBVIOUS
<1>1. text \in Seq(StatLine) /\ Len(text) = 0 /\ ended \in BOOLEAN
  BY DEF StatInit
<1>2. levels \in [StatLevels \cup {Nothing} -> Nat] /\ tags \in [StatTags -> Nat] /\ hours \in [Hours -> Nat]
  BY DEF StatInit
<1>3. order \in [StatTags -> StatTags] /\ \A t \in StatTags : order[t] = t
  BY DEF StatInit
<1>4. StatTypeOK
  BY <1>1, <1>2, <1>3 DEF StatInit, StatTypeOK, Hours
<1>5. Zero /\ line = 1
  BY DEF StatInit, Zero
<1>6. Tally
  BY <1>5, TallyZero
<1>7. Stages
  BY DEF StatInit, Stages
<1>8. SortSoFar
  <2>1. si = 1 /\ sj = 2 /\ spc = "idle"
    BY DEF StatInit
  <2>2. \A k \in StatTags : ~(k < 1) /\ ~(1 < k /\ k < 2)
    BY DEF StatTags
  <2> QED
    BY <1>3, <2>1, <2>2 DEF SortSoFar
<1> QED
  BY <1>1, <1>4, <1>6, <1>7, <1>8 DEF StInv

\* What is kept while only the stage, the text or the total change and no line
\* was counted yet.
LEMMA NotBegun ==
  ASSUME StInv, line = 1, UNCHANGED <<line, levels, tags, hours, busiest, sorting>>,
         text' \in Seq(StatLine), ended' \in BOOLEAN, total' \in Nat,
         spc \in {"idle", "open"},
         spc' \in {"idle", "open", "lines", "sort", "formatted", "failed"}, spc' # "formatted"
  PROVE  /\ StatTypeOK' /\ Tally' /\ SortSoFar'
         /\ \A h \in Hours : hours'[h] <= hours'[busiest']
<1>1. StatTypeOK'
  BY DEF StInv, StatTypeOK, sorting
<1>2. Zero /\ Zero'
  <2>1. Zero
    BY TallyZero DEF StInv
  <2> QED
    BY <2>1 DEF Zero
<1>3. Tally'
  <2>1. line' - 1 = 0
    OBVIOUS
  <2> QED
    BY <1>2, <2>1, FoundFirst DEF Tally, Zero
<1>4. SortSoFar'
  BY DEF StInv, SortSoFar, sorting
<1>5. \A h \in Hours : hours'[h] <= hours'[busiest']
  BY <1>1, <1>2 DEF Zero, StatTypeOK
<1> QED
  BY <1>1, <1>3, <1>4, <1>5

LEMMA StatsStep == StInv /\ Stats => StInv'
<1> SUFFICES ASSUME StInv, Stats PROVE StInv'
  OBVIOUS
<1>1. PICK g \in StatLogs : text' = g.text /\ ended' = g.ended
  BY DEF Stats
<1>2. text' \in Seq(StatLine) /\ ended' \in BOOLEAN /\ Len(text') \in Nat
  BY <1>1, LogStatConstantsOK
<1>3. /\ spc = "idle" /\ line = 1 /\ line' = line /\ total' = 0 /\ total' \in Nat
      /\ UNCHANGED <<line, levels, tags, hours, busiest, sorting>>
  BY DEF Stats, StInv, Stages, counters
<1>4. spc' \in {"sort", "open", "failed"} /\ (spc' = "sort" => text' = <<>>)
  BY DEF Stats
<1>5. /\ StatTypeOK' /\ Tally' /\ SortSoFar' /\ \A h \in Hours : hours'[h] <= hours'[busiest']
  BY <1>2, <1>3, <1>4, NotBegun
<1>6. Cardinality(Newlines(text', ended')) \in Nat
  BY <1>2, NewlinesFew
<1>7. spc' = "sort" => Len(text') = 0
  BY <1>4
<1>8. Stages'
  BY <1>3, <1>4, <1>5, <1>6, <1>7 DEF Stages
<1> QED
  BY <1>2, <1>5, <1>8 DEF StInv

LEMMA OpensStep == StInv /\ (OpensLog \/ OpenFails) => StInv'
<1> SUFFICES ASSUME StInv, OpensLog \/ OpenFails PROVE StInv'
  OBVIOUS
<1>1. spc = "open" /\ line = 1 /\ total = 0 /\ text \in Seq(StatLine) /\ ended \in BOOLEAN
  BY DEF OpensLog, OpenFails, StInv, Stages
<1>2. CASE OpensLog
  <2>1. PICK g \in {[text |-> text, ended |-> ended], [text |-> <<>>, ended |-> TRUE]} :
          LET read == IF g.text # <<>> /\ Bytes(g.text, g.ended) > StatMax
                      THEN TailOf(g.text, g.ended, StatMax) ELSE g.text
          IN /\ text' = read /\ ended' = g.ended
             /\ total' = IF read = <<>> THEN 0 ELSE count_newlines(read, g.ended)
    BY <1>2 DEF OpensLog
  <2>2. g.text \in Seq(StatLine) /\ g.ended \in BOOLEAN
    <3>1. CASE g = [text |-> text, ended |-> ended]
      BY <1>1, <3>1
    <3>2. CASE g = [text |-> <<>>, ended |-> TRUE]
      BY <3>2
    <3> QED
      BY <3>1, <3>2
  <2>3. TailOf(g.text, g.ended, StatMax) \in Seq(StatLine)
    BY <2>2, TailType, LogStatConstantsOK
  <2>4. text' \in Seq(StatLine) /\ ended' \in BOOLEAN
    BY <2>1, <2>2, <2>3
  <2>5. total' \in Nat /\ total' <= Cardinality(Newlines(text', ended'))
    <3>1. total' = 0 \/ total' = count_newlines(text', ended')
      BY <2>1
    <3> QED
      BY <2>4, <3>1, NewlinesFew
  <2>6. UNCHANGED <<line, levels, tags, hours, busiest, sorting>> /\ spc' = "lines"
    BY <1>2 DEF OpensLog
  <2>7. StatTypeOK' /\ Tally' /\ SortSoFar'
    BY <1>1, <2>4, <2>5, <2>6, NotBegun
  <2>8. Stages'
    BY <2>5, <2>6 DEF Stages
  <2> QED
    BY <2>4, <2>7, <2>8 DEF StInv
<1>3. CASE OpenFails
  <2>1. /\ UNCHANGED <<line, levels, tags, hours, busiest, sorting>> /\ spc' = "failed"
        /\ text' \in Seq(StatLine) /\ ended' \in BOOLEAN /\ total' \in Nat
    BY <1>1, <1>3 DEF OpenFails, counters
  <2>2. StatTypeOK' /\ Tally' /\ SortSoFar'
    BY <1>1, <2>1, NotBegun
  <2>3. Stages'
    BY <1>1, <2>1 DEF Stages
  <2> QED
    BY <2>1, <2>2, <2>3 DEF StInv
<1> QED
  BY <1>2, <1>3

LEMMA CountedStep == StInv /\ Counted => StInv'
<1> SUFFICES ASSUME StInv, Counted PROVE StInv'
  OBVIOUS
<1> DEFINE l == text[line]
           n == line - 1
<1>1. /\ spc = "lines" /\ spc' = "lines" /\ line \in 1..Len(text) /\ n \in Nat /\ n + 1 = line
      /\ line' = line + 1 /\ line' - 1 = n + 1 /\ Len(text) \in Nat /\ text \in Seq(StatLine)
      /\ ended \in BOOLEAN /\ UNCHANGED <<text, ended, total, busiest, order, si, sj>>
  BY DEF StInv, StatTypeOK, Counted, sorting
<1>2. l \in StatLine
  BY <1>1
<1>3. /\ extract_hour(l) \in Hours \cup {Nothing} /\ extract_level(l) \in StatLevels \cup {Nothing}
      /\ extract_tag(l) \in StatTags \cup {Nothing}
      /\ Nothing \notin Hours /\ Nothing \notin StatTags
  <2>1. Nothing \notin Hours /\ Nothing \notin StatTags
    BY DEF Nothing, Hours, StatTags
  <2> HIDE DEF l
  <2> QED
    BY <1>2, <2>1, Extracted
<1>4. /\ LevelsIn(text)[n + 1] = extract_level(l) /\ TagsIn(text)[n + 1] = extract_tag(l)
      /\ HoursIn(text)[n + 1] = extract_hour(l)
  BY <1>1 DEF LevelsIn, TagsIn, HoursIn
<1>5. /\ hours' = IF extract_hour(l) # Nothing THEN [hours EXCEPT ![extract_hour(l)] = @ + 1] ELSE hours
      /\ levels' = [levels EXCEPT ![extract_level(l)] = @ + 1]
      /\ tags' = IF extract_tag(l) # Nothing THEN [tags EXCEPT ![extract_tag(l)] = @ + 1] ELSE tags
  BY DEF Counted
<1>6. /\ levels \in [StatLevels \cup {Nothing} -> Nat] /\ tags \in [StatTags -> Nat]
      /\ hours \in [Hours -> Nat]
  BY DEF StInv, StatTypeOK
<1> HIDE DEF l, n
<1>7. \A v \in StatLevels \cup {Nothing} : levels'[v] = Found(LevelsIn(text), n + 1, v)
  <2> TAKE v \in StatLevels \cup {Nothing}
  <2>1. levels[v] = Found(LevelsIn(text), n, v)
    BY DEF StInv, Tally, n
  <2>2. levels'[v] = IF extract_level(l) = v THEN levels[v] + 1 ELSE levels[v]
    BY <1>3, <1>5, <1>6
  <2>3. /\ Found(LevelsIn(text), n, v) \in Nat
        /\ Found(LevelsIn(text), n + 1, v) =
             IF LevelsIn(text)[n + 1] = v THEN Found(LevelsIn(text), n, v) + 1 ELSE Found(LevelsIn(text), n, v)
    BY <1>1, FoundNext
  <2> QED
    BY <1>4, <2>1, <2>2, <2>3
<1>8. \A v \in StatTags : tags'[v] = Found(TagsIn(text), n + 1, v)
  <2> TAKE v \in StatTags
  <2>1. tags[v] = Found(TagsIn(text), n, v)
    BY DEF StInv, Tally, n
  <2>2. tags'[v] = IF extract_tag(l) = v THEN tags[v] + 1 ELSE tags[v]
    BY <1>3, <1>5, <1>6
  <2>3. /\ Found(TagsIn(text), n, v) \in Nat
        /\ Found(TagsIn(text), n + 1, v) =
             IF TagsIn(text)[n + 1] = v THEN Found(TagsIn(text), n, v) + 1 ELSE Found(TagsIn(text), n, v)
    BY <1>1, FoundNext
  <2> QED
    BY <1>4, <2>1, <2>2, <2>3
<1>9. \A v \in Hours : hours'[v] = Found(HoursIn(text), n + 1, v)
  <2> TAKE v \in Hours
  <2>1. hours[v] = Found(HoursIn(text), n, v)
    BY DEF StInv, Tally, n
  <2>2. hours'[v] = IF extract_hour(l) = v THEN hours[v] + 1 ELSE hours[v]
    BY <1>3, <1>5, <1>6
  <2>3. /\ Found(HoursIn(text), n, v) \in Nat
        /\ Found(HoursIn(text), n + 1, v) =
             IF HoursIn(text)[n + 1] = v THEN Found(HoursIn(text), n, v) + 1 ELSE Found(HoursIn(text), n, v)
    BY <1>1, FoundNext
  <2> QED
    BY <1>4, <2>1, <2>2, <2>3
<1>10. Tally'
  BY <1>1, <1>7, <1>8, <1>9 DEF Tally
<1>11. /\ levels' \in [StatLevels \cup {Nothing} -> Nat] /\ tags' \in [StatTags -> Nat]
       /\ hours' \in [Hours -> Nat]
  BY <1>3, <1>5, <1>6
<1>12. StatTypeOK'
  <2>1. line' \in 1..(Len(text') + 1)
    BY <1>1
  <2> QED
    BY <1>1, <1>11, <2>1 DEF StInv, StatTypeOK
<1>13. Stages'
  BY <1>1 DEF StInv, Stages
<1>14. SortSoFar'
  <2>1. si = 1 /\ sj = 2 /\ \A t \in StatTags : \E k \in StatTags : order[k] = t
    BY <1>1 DEF StInv, SortSoFar
  <2>2. \A k \in StatTags : ~(k < 1) /\ ~(1 < k /\ k < 2)
    BY DEF StatTags
  <2> QED
    BY <1>1, <2>1, <2>2 DEF SortSoFar
<1> QED
  BY <1>1, <1>10, <1>12, <1>13, <1>14 DEF StInv

LEMMA BusiestStep == StInv /\ BusiestFound => StInv'
<1> SUFFICES ASSUME StInv, BusiestFound PROVE StInv'
  OBVIOUS
<1> DEFINE S == {h \in Hours : \A g \in Hours : hours[g] <= hours[h]}
<1>1. /\ spc = "lines" /\ spc' = "sort" /\ line = Len(text) + 1 /\ busiest' = Min(S)
      /\ UNCHANGED <<text, ended, line, total, levels, tags, hours, order, si, sj>>
  <2>1. line \in 1..(Len(text) + 1) /\ line > Len(text) /\ Len(text) \in Nat
    BY DEF StInv, StatTypeOK, BusiestFound
  <2>2. line = Len(text) + 1
    BY <2>1
  <2> QED
    BY <2>2 DEF BusiestFound, sorting
<1>2. hours \in [Hours -> Nat]
  BY DEF StInv, StatTypeOK
<1>3. S \subseteq Nat /\ S # {} /\ S \subseteq Hours
  BY <1>2, BusiestIs DEF Hours
<1>4. busiest' \in S
  <2> HIDE DEF S
  <2> QED
    BY <1>1, <1>3, MinOfSome
<1>5. busiest' \in Hours /\ \A h \in Hours : hours'[h] <= hours'[busiest']
  BY <1>1, <1>4
<1> HIDE DEF S
<1>6. StatTypeOK'
  BY <1>1, <1>5 DEF StInv, StatTypeOK
<1>7. Tally'
  BY <1>1 DEF StInv, Tally
<1>8. Stages'
  BY <1>1, <1>5 DEF StInv, Stages
<1>9. SortSoFar'
  BY <1>1 DEF StInv, SortSoFar
<1> QED
  BY <1>1, <1>6, <1>7, <1>8, <1>9 DEF StInv

LEMMA SortsStep == StInv /\ Sorts => StInv'
<1> SUFFICES ASSUME StInv, Sorts PROVE StInv'
  OBVIOUS
<1> USE DEF StatTags
<1>1. /\ spc = "sort" /\ si \in 1..6 /\ sj \in (si + 1)..7
      /\ order \in [1..7 -> 1..7] /\ tags \in [1..7 -> Nat]
      /\ \A t \in 1..7 : \E k \in 1..7 : order[k] = t
      /\ \A j, k \in 1..7 : j < si /\ j < k => tags[order[j]] >= tags[order[k]]
      /\ \A k \in 1..7 : si < k /\ k < sj => tags[order[si]] >= tags[order[k]]
  <2>1. si \in 1..7 /\ si < 7
    BY DEF StInv, StatTypeOK, Sorts
  <2>2. si # 7 /\ si \in 1..6
    BY <2>1
  <2>3. spc = "sort"
    BY DEF Sorts
  <2> QED
    BY <2>2, <2>3 DEF StInv, StatTypeOK, SortSoFar
<1>2. /\ order' = IF tags[order[sj]] > tags[order[si]]
                  THEN [order EXCEPT ![si] = order[sj], ![sj] = order[si]] ELSE order
      /\ si' = IF sj = 7 THEN si + 1 ELSE si
      /\ sj' = IF sj = 7 THEN si + 2 ELSE sj + 1
      /\ UNCHANGED <<spc, text, ended, line, total, levels, tags, hours, busiest>>
  BY DEF Sorts, counters
<1>3. si \in 1..7 /\ sj \in 1..7 /\ si < sj
  BY <1>1
<1>4. /\ order' \in [1..7 -> 1..7]
      /\ \A k \in 1..7 : k # si /\ k # sj => order'[k] = order[k]
      /\ \/ order'[si] = order[si] /\ order'[sj] = order[sj]
         \/ order'[si] = order[sj] /\ order'[sj] = order[si]
      /\ tags[order'[si]] >= tags[order[si]] /\ tags[order'[si]] >= tags[order'[sj]]
  <2>1. order[si] \in 1..7 /\ order[sj] \in 1..7
    BY <1>1, <1>3
  <2>2. tags[order[si]] \in Nat /\ tags[order[sj]] \in Nat
    BY <1>1, <2>1
  <2>3. CASE tags[order[sj]] > tags[order[si]]
    <3>1. order' = [order EXCEPT ![si] = order[sj], ![sj] = order[si]]
      BY <1>2, <2>3
    <3>2. order' \in [1..7 -> 1..7]
      BY <1>1, <1>3, <2>1, <3>1
    <3>3. /\ order'[si] = order[sj] /\ order'[sj] = order[si]
          /\ \A k \in 1..7 : k # si /\ k # sj => order'[k] = order[k]
      BY <1>1, <1>3, <3>1
    <3> QED
      BY <2>2, <2>3, <3>2, <3>3
  <2>4. CASE ~(tags[order[sj]] > tags[order[si]])
    BY <1>1, <1>2, <2>2, <2>4
  <2> QED
    BY <2>3, <2>4
<1>5. \A t \in 1..7 : \E k \in 1..7 : order'[k] = t
  <2> TAKE t \in 1..7
  <2>1. PICK k \in 1..7 : order[k] = t
    BY <1>1
  <2> QED
    BY <1>3, <1>4, <2>1
\* Positions from si on are permuted among themselves.
<1>6. \A k \in 1..7 : \E m \in 1..7 : order'[k] = order[m] /\ (k < si => m = k) /\ (k >= si => m >= si)
  <2> TAKE k \in 1..7
  <2>1. CASE k = si \/ k = sj
    BY <1>3, <1>4, <2>1
  <2>2. CASE k # si /\ k # sj
    BY <1>3, <1>4, <2>2
  <2> QED
    BY <2>1, <2>2
<1>7. ASSUME NEW j \in 1..7, NEW k \in 1..7, j < si, j < k
      PROVE  tags[order'[j]] >= tags[order'[k]]
  <2>1. PICK m \in 1..7 : order'[k] = order[m] /\ (k < si => m = k) /\ (k >= si => m >= si)
    BY <1>6
  <2>2. j < m
    BY <1>3, <1>7, <2>1
  <2>3. order'[j] = order[j]
    BY <1>3, <1>4, <1>7
  <2> QED
    BY <1>1, <1>7, <2>1, <2>2, <2>3
<1>8. ASSUME NEW k \in 1..7, si < k, k <= sj
      PROVE  tags[order'[si]] >= tags[order'[k]]
  <2>1. CASE k = sj
    BY <1>4, <2>1
  <2>2. CASE k # sj
    <3>1. k < sj /\ order'[k] = order[k]
      BY <1>3, <1>4, <1>8, <2>2
    <3>2. tags[order[si]] >= tags[order[k]]
      BY <1>1, <1>8, <3>1
    <3>3. tags[order[si]] \in Nat /\ tags[order[k]] \in Nat /\ tags[order'[si]] \in Nat
      BY <1>1, <1>3, <1>4
    <3> QED
      BY <1>4, <3>1, <3>2, <3>3
  <2> QED
    BY <2>1, <2>2
<1>9. SortSoFar'
  <2>1. CASE sj # 7
    <3>1. si' = si /\ sj' = sj + 1 /\ sj' \in (si' + 1)..7 /\ si' # 7
      BY <1>1, <1>2, <2>1
    <3>2. \A k \in 1..7 : k < sj + 1 => k <= sj
      BY <1>1
    <3> QED
      <4>1. \A k \in 1..7 : si' < k /\ k < sj' => tags'[order'[si']] >= tags'[order'[k]]
        BY <1>2, <1>8, <3>1, <3>2
      <4>2. \A j, k \in 1..7 : j < si' /\ j < k => tags'[order'[j]] >= tags'[order'[k]]
        BY <1>2, <1>7, <3>1
      <4>3. \A t \in 1..7 : \E k \in 1..7 : order'[k] = t
        BY <1>5
      <4>4. spc' = "sort"
        BY <1>1, <1>2
      <4> QED
        BY <3>1, <4>1, <4>2, <4>3, <4>4 DEF SortSoFar
  <2>2. CASE sj = 7
    <3>1. /\ si' = si + 1 /\ sj' = si + 2 /\ sj' = si' + 1
          /\ IF si' = 7 THEN sj' = 8 ELSE sj' \in (si' + 1)..7
      BY <1>1, <1>2, <2>2
    <3>2. ASSUME NEW j \in 1..7, NEW k \in 1..7, j < si', j < k
          PROVE  tags[order'[j]] >= tags[order'[k]]
      <4>1. CASE j < si
        BY <1>7, <3>2, <4>1
      <4>2. CASE ~(j < si)
        <5>1. j = si /\ si < k /\ k <= sj
          BY <1>3, <2>2, <3>1, <3>2, <4>2
        <5> QED
          BY <1>8, <5>1
      <4> QED
        BY <4>1, <4>2
    <3>3. \A k \in 1..7 : ~(si' < k /\ k < sj')
      BY <1>3, <3>1
    <3> QED
      BY <1>1, <1>2, <1>5, <3>1, <3>2, <3>3 DEF SortSoFar
  <2> QED
    BY <2>1, <2>2
<1>10. StatTypeOK'
  <2>1. si' \in 1..7 /\ sj' \in 2..8
    BY <1>1, <1>2
  <2> QED
    BY <1>2, <1>4, <2>1 DEF StInv, StatTypeOK
<1>11. Tally' /\ Stages'
  BY <1>2 DEF StInv, Tally, Stages
<1> QED
  BY <1>2, <1>9, <1>10, <1>11 DEF StInv

LEMMA EndsStep == StInv /\ (Formats \/ StatReturns \/ UNCHANGED statVars) => StInv'
<1> SUFFICES ASSUME StInv, Formats \/ StatReturns \/ UNCHANGED statVars PROVE StInv'
  OBVIOUS
<1>1. CASE Formats
  <2>1. /\ spc = "sort" /\ spc' = "formatted" /\ si = 7
        /\ UNCHANGED <<text, ended, line, total, levels, tags, hours, busiest, order, si, sj>>
    BY <1>1 DEF Formats, counters, sorting
  <2>2. StatTypeOK' /\ Tally' /\ Stages' /\ SortSoFar'
    BY <2>1 DEF StInv, StatTypeOK, Tally, Stages, SortSoFar
  <2> QED
    BY <2>1, <2>2 DEF StInv
<1>2. CASE StatReturns
  <2>1. StatInit'
    BY <1>2 DEF StatReturns, Reset, StatInit
  <2> QED
    BY <2>1, StatInitOK, PTL
<1>3. CASE UNCHANGED statVars
  <2>1. UNCHANGED <<spc, text, ended, line, total, levels, tags, hours, busiest, order, si, sj>>
    BY <1>3 DEF statVars, counters, sorting
  <2>2. StatTypeOK' /\ Tally' /\ Stages' /\ SortSoFar'
    BY <2>1 DEF StInv, StatTypeOK, Tally, Stages, SortSoFar
  <2> QED
    BY <2>1, <2>2 DEF StInv
<1> QED
  BY <1>1, <1>2, <1>3

\* The strengthened invariant of the log statistics, for any logs and any limit
\* on what is read (logstat.c, logstat_analyze() and logstat_format()).
THEOREM StatInvariant == StatSpec => []StInv
<1>1. StInv /\ [StatNext]_statVars => StInv'
  BY StatsStep, OpensStep, CountedStep, BusiestStep, SortsStep, EndsStep DEF StatNext
<1> QED
  BY StatInitOK, <1>1, PTL DEF StatSpec

\* The statistics shown agree with the lines read, for any log: each counter is
\* the number of its lines, the ranking is a sorted permutation of the tags, the
\* busiest hour is one, and no more newlines are reported than there are
\* (logstat.c:286-327 and 379-392).
THEOREM StatsConsistentAlways == StatSpec => []StatsConsistent
<1>1. StInv => StatsConsistent
  <2> SUFFICES ASSUME StInv, spc = "formatted" PROVE StatsConsistent
    BY DEF StatsConsistent
  <2>1. /\ Len(text) \in Nat /\ DOMAIN text = 1..Len(text) /\ line - 1 = Len(text) /\ si = 7
        /\ \A h \in Hours : hours[h] <= hours[busiest]
        /\ total <= Cardinality(Newlines(text, ended))
    <3>1. Len(text) \in Nat /\ DOMAIN text = 1..Len(text)
      BY DEF StInv
    <3>2. line = Len(text) + 1 /\ si = 7
      BY DEF StInv, Stages, SortSoFar
    <3> QED
      BY <3>1, <3>2 DEF StInv, Stages
  <2>2. \A l \in StatLevels \cup {Nothing} : levels[l] = LinesWith(extract_level, l)
    <3> TAKE v \in StatLevels \cup {Nothing}
    <3>1. {k \in 1..Len(text) : LevelsIn(text)[k] = v} = {k \in DOMAIN text : extract_level(text[k]) = v}
      BY <2>1 DEF LevelsIn
    <3> QED
      BY <2>1, <3>1 DEF StInv, Tally, Found, LinesWith
  <2>3. \A t \in StatTags : tags[t] = LinesWith(extract_tag, t)
    <3> TAKE v \in StatTags
    <3>1. {k \in 1..Len(text) : TagsIn(text)[k] = v} = {k \in DOMAIN text : extract_tag(text[k]) = v}
      BY <2>1 DEF TagsIn
    <3> QED
      BY <2>1, <3>1 DEF StInv, Tally, Found, LinesWith
  <2>4. \A h \in Hours : hours[h] = LinesWith(extract_hour, h)
    <3> TAKE v \in Hours
    <3>1. {k \in 1..Len(text) : HoursIn(text)[k] = v} = {k \in DOMAIN text : extract_hour(text[k]) = v}
      BY <2>1 DEF HoursIn
    <3> QED
      BY <2>1, <3>1 DEF StInv, Tally, Found, LinesWith
  <2>5. \A j, k \in StatTags : j < k => tags[order[j]] >= tags[order[k]]
    <3>1. \A j, k \in StatTags : j < k => j < 7
      BY DEF StatTags
    <3> QED
      BY <2>1, <3>1 DEF StInv, SortSoFar
  <2>6. \A t \in StatTags : \E k \in StatTags : order[k] = t
    BY DEF StInv, SortSoFar
  <2> QED
    BY <2>1, <2>2, <2>3, <2>4, <2>5, <2>6 DEF StatsConsistent
<1> QED
  BY StatInvariant, <1>1, PTL

----------------------------------------------------------------------------
(* Text *)

\* The characters that can be in a buffer.
Letters == STRING \cup {Space, Dot, Under, Tick, Quote, Back, Line, Plain, "junk"}

\* The texts and the buffer.
TextTypes ==
  /\ TextTypeOK
  /\ src \in Seq(STRING) /\ size \in Nat \ {0}
  /\ job = "send" => size = MsgMax
  /\ dst \in Seq(Letters)
  /\ job = "args" => words \in Seq(Seq(STRING))
  /\ job = "files" => words \in Seq(Nat)

\* Sequences, over any set.
LEMMA Wider ==
  ASSUME NEW S, NEW T, S \subseteq T, NEW s \in Seq(S)
  PROVE  s \in Seq(T)
OBVIOUS

LEMMA Appended ==
  ASSUME NEW S, NEW s \in Seq(S), NEW e \in S
  PROVE  /\ Append(s, e) \in Seq(S) /\ Len(s) \in Nat /\ Len(Append(s, e)) = Len(s) + 1
         /\ \A j \in 1..Len(s) : Append(s, e)[j] = s[j]
         /\ Append(s, e)[Len(s) + 1] = e
OBVIOUS

LEMMA Concatenated ==
  ASSUME NEW S, NEW s \in Seq(S), NEW t \in Seq(S)
  PROVE  /\ s \o t \in Seq(S) /\ Len(s) \in Nat /\ Len(t) \in Nat /\ Len(s \o t) = Len(s) + Len(t)
         /\ \A j \in 1..Len(s) : (s \o t)[j] = s[j]
         /\ \A k \in 1..Len(t) : (s \o t)[Len(s) + k] = t[k]
OBVIOUS

\* What the loops leave alone.
LEMMA Given ==
  ASSUME NEW j \in Jobs
  PROVE  Texts[j] \subseteq Seq(STRING) /\ BufSizes[j] \subseteq Nat \ {0}
BY TextConstantsOK

\* The constant texts.
LEMMA SmallSeqs ==
  /\ <<>> \in Seq(Letters) /\ Len(<<>>) = 0
  /\ Opening \in Seq(Letters) /\ Len(Opening) = 4
  /\ Fence \in Seq(Letters) /\ Len(Fence) = 3
  /\ Masked \in Seq(Letters) /\ Len(Masked) = 3
  /\ \A n \in Nat : Plains(n) \in Seq(Letters) /\ Len(Plains(n)) = n
<1>1. Tick \in Letters /\ Line \in Letters /\ Quote \in Letters /\ Plain \in Letters
  BY DEF Letters
<1> HIDE DEF Letters
<1>2. Fence \in Seq(Letters) /\ Len(Fence) = 3 /\ Masked \in Seq(Letters) /\ Len(Masked) = 3
  BY <1>1 DEF Fence, Masked
<1>3. Opening \in Seq(Letters) /\ Len(Opening) = 4
  <2>1. Append(Fence, Line) \in Seq(Letters) /\ Len(Append(Fence, Line)) = Len(Fence) + 1
    <3>1. Fence \in Seq(Letters) /\ Line \in Letters
      BY <1>1, <1>2
    <3> QED
      BY <3>1, Appended, Zenon
  <2> QED
    BY <1>2, <2>1 DEF Opening
<1>4. \A n \in Nat : Plains(n) \in Seq(Letters) /\ Len(Plains(n)) = n
  BY <1>1 DEF Plains
<1> QED
  BY <1>2, <1>3, <1>4

\* Where the next token is.
LEMMA TokenBounds ==
  ASSUME src \in Seq(STRING), pos \in Nat \ {0}
  PROVE  /\ TokenAt \in Nat /\ TokenAt <= Len(src) + 1
         /\ TokenAt <= Len(src) => TokenAt >= pos /\ src[TokenAt] # Space
         /\ \A k \in pos..Len(src) : k < TokenAt => src[k] = Space
         /\ TokenEnd \in Nat /\ TokenEnd <= Len(src) + 1
         /\ TokenAt <= Len(src) => TokenEnd > TokenAt
         /\ TokenEnd <= Len(src) => src[TokenEnd] = Space
         /\ \A k \in TokenAt..Len(src) : k < TokenEnd => src[k] # Space
<1> DEFINE A == {k \in pos..Len(src) : src[k] # Space} \cup {Len(src) + 1}
           B == {k \in TokenAt..Len(src) : src[k] = Space} \cup {Len(src) + 1}
<1>0. Len(src) \in Nat
  OBVIOUS
<1>1. A \subseteq Nat /\ A # {} /\ Len(src) + 1 \in A
  BY <1>0
<1>2. TokenAt \in A /\ \A k \in A : TokenAt <= k
  <2> HIDE DEF A
  <2>1. Min(A) \in A /\ \A k \in A : Min(A) <= k
    BY <1>1, MinOfSome
  <2> QED
    BY <2>1 DEF TokenAt, A
<1>3. /\ TokenAt \in Nat /\ TokenAt <= Len(src) + 1
      /\ TokenAt <= Len(src) => TokenAt >= pos /\ src[TokenAt] # Space
      /\ \A k \in pos..Len(src) : k < TokenAt => src[k] = Space
  BY <1>0, <1>2
<1>4. B \subseteq Nat /\ B # {} /\ Len(src) + 1 \in B
  BY <1>0, <1>3
<1>5. TokenEnd \in B /\ \A k \in B : TokenEnd <= k
  <2> HIDE DEF B
  <2>1. Min(B) \in B /\ \A k \in B : Min(B) <= k
    BY <1>4, MinOfSome
  <2> QED
    BY <2>1 DEF TokenEnd, B
<1>6. /\ TokenEnd \in Nat /\ TokenEnd <= Len(src) + 1
      /\ TokenAt <= Len(src) => TokenEnd > TokenAt
      /\ TokenEnd <= Len(src) => src[TokenEnd] = Space
      /\ \A k \in TokenAt..Len(src) : k < TokenEnd => src[k] # Space
  BY <1>0, <1>3, <1>5
<1> QED
  BY <1>3, <1>6

\* The joined arguments stay within the buffer, each of them added to those
\* before.
InBuffer == {b \in Seq(Letters) : Len(b) < size}

\* Joining cuts what would not fit.
LEMMA JoinedFits ==
  ASSUME size \in Nat \ {0}, NEW b \in InBuffer, NEW w, words[w] \in Seq(STRING), w \in Nat
  PROVE  Joined(b, w) \in InBuffer
<1> DEFINE spaced == IF w > 2 /\ Len(b) < size - 1 THEN Append(b, Space) ELSE b
           rem == size - Len(spaced) - 1
           t == words[w]
           m == Min({Len(t), rem})
<1>1. Joined(b, w) = spaced \o SubSeq(t, 1, m)
  BY DEF Joined
<1>2. b \in Seq(Letters) /\ Len(b) \in Nat /\ Len(b) <= size - 1 /\ t \in Seq(Letters) /\ Len(t) \in Nat
  <2>1. STRING \subseteq Letters
    BY DEF Letters
  <2>2. t \in Seq(STRING)
    OBVIOUS
  <2> HIDE DEF t
  <2>3. t \in Seq(Letters)
    BY <2>1, <2>2, Wider, Zenon
  <2>4. Len(t) \in Nat
    BY <2>2
  <2> QED
    BY <2>3, <2>4 DEF InBuffer
<1>3. spaced \in Seq(Letters) /\ Len(spaced) \in Nat /\ Len(spaced) <= size - 1
  <2>1. Space \in Letters
    BY DEF Letters
  <2>2. Append(b, Space) \in Seq(Letters) /\ Len(Append(b, Space)) = Len(b) + 1
    BY <1>2, <2>1
  <2> QED
    BY <1>2, <2>2
<1> HIDE DEF spaced, t
<1>4. m \in Nat /\ m <= Len(t) /\ m <= rem
  <2>1. {Len(t), rem} \subseteq Nat /\ {Len(t), rem} # {}
    BY <1>2, <1>3
  <2>2. Min({Len(t), rem}) \in {Len(t), rem} /\ \A k \in {Len(t), rem} : Min({Len(t), rem}) <= k
    BY <2>1, MinOfSome
  <2> QED
    BY <2>1, <2>2
<1> HIDE DEF m
<1>5. SubSeq(t, 1, m) \in Seq(Letters) /\ Len(SubSeq(t, 1, m)) = m
  BY <1>2, <1>4
<1>6. spaced \o SubSeq(t, 1, m) \in Seq(Letters) /\ Len(spaced \o SubSeq(t, 1, m)) = Len(spaced) + m
  BY <1>3, <1>5
<1> QED
  BY <1>1, <1>3, <1>4, <1>6 DEF InBuffer

\* The joined arguments are the last of a series of buffers, each one argument
\* longer than the one before.
LEMMA JoinScan ==
  ASSUME size \in Nat \ {0}, words \in Seq(Seq(STRING)), words # <<>>
  PROVE  \E r \in [0..(Len(words) - 1) -> InBuffer] :
           /\ r[0] = <<>>
           /\ \A i \in 1..(Len(words) - 1) : r[i] = Joined(r[i - 1], i + 1)
           /\ FoldLeft(Joined, <<>>, [w \in 1..(Len(words) - 1) |-> w + 1]) = r[Len(words) - 1]
<1> DEFINE n == Len(words) - 1
           f == [w \in 1..n |-> w + 1]
           G == [p \in InBuffer \X (1..n) |-> Joined(p[1], f[p[2]])]
           Def(it) == [s \in SUBSET DOMAIN f |->
                         IF s = {} THEN <<>> ELSE Joined(it[s \ {Max(s)}], f[Max(s)])]
           fold == CHOOSE it : it = Def(it)
<1>1. n \in Nat /\ n = Len(words) - 1 /\ DOMAIN f = 1..n
      /\ \A i \in 1..n : f[i] = i + 1 /\ f[i] \in Nat /\ words[f[i]] \in Seq(STRING)
  <2>1. Len(words) \in Nat /\ Len(words) # 0
    OBVIOUS
  <2> QED
    BY <2>1
<1>2. <<>> \in InBuffer
  BY SmallSeqs DEF InBuffer
<1>3. G \in [InBuffer \X (1..n) -> InBuffer]
  <2> SUFFICES ASSUME NEW p \in InBuffer \X (1..n) PROVE Joined(p[1], f[p[2]]) \in InBuffer
    OBVIOUS
  <2>1. p[1] \in InBuffer /\ p[2] \in 1..n
    OBVIOUS
  <2> HIDE DEF f, n
  <2> QED
    BY <1>1, <2>1, JoinedFits
<1>4. \E it : it = Def(it)
  <2> HIDE DEF G, n, f
  <2>1. PICK it \in [SUBSET (1..n) -> InBuffer] : FoldOf(it, <<>>, n, G)
    BY <1>1, <1>2, <1>3, FoldExists
  <2>2. ASSUME NEW s \in SUBSET (1..n), s # {}
        PROVE  G[<<it[s \ {Max(s)}], Max(s)>>] = Joined(it[s \ {Max(s)}], f[Max(s)])
    <3>1. Max(s) \in 1..n
      BY <1>1, <2>2, MaxOfSome
    <3>2. it[s \ {Max(s)}] \in InBuffer
      BY <2>1
    <3> QED
      BY <3>1, <3>2 DEF G
  <2>3. it = Def(it)
    BY <1>1, <2>1, <2>2 DEF FoldOf
  <2> QED
    BY <2>3
<1>5. fold = Def(fold)
  BY <1>4
<1>6. FoldLeft(Joined, <<>>, f) = fold[1..n]
  <2> HIDE DEF n
  <2> QED
    BY <1>1 DEF FoldLeft, MapThenFoldSet
<1> DEFINE r == [i \in 0..n |-> fold[1..i]]
<1> HIDE DEF fold, n, f
<1>7. r[0] = <<>>
  <2>1. fold[{}] = <<>>
    BY <1>1, <1>5
  <2>2. 1..0 = {} /\ 0 \in 0..n
    BY <1>1
  <2> QED
    BY <2>1, <2>2
<1>8. ASSUME NEW i \in 1..n PROVE r[i] = Joined(r[i - 1], i + 1)
  <2>1. i \in Nat /\ i # 0 /\ i \in 0..n /\ i - 1 \in 0..n /\ \A j \in 1..i : j \in 1..n
    BY <1>1
  <2> DEFINE d == 1..i
  <2>2. d \in SUBSET (1..n) /\ d # {} /\ Max(d) = i /\ d \ {i} = 1..(i - 1)
    <3>1. Max(d) = i /\ d \ {i} = 1..(i - 1)
      BY <2>1, MaxOfRange
    <3>2. i \in d /\ d \in SUBSET (1..n)
      BY <2>1
    <3> HIDE DEF d
    <3> QED
      BY <3>1, <3>2
  <2> HIDE DEF d
  <2>3. fold[d] = Joined(fold[d \ {Max(d)}], f[Max(d)])
    BY <1>1, <1>5, <2>2
  <2> QED
    BY <1>1, <2>1, <2>2, <2>3 DEF d
<1>9. r \in [0..n -> InBuffer]
  <2> DEFINE T == {i \in 0..n : r[i] \in InBuffer}
  <2> HIDE DEF r
  <2>1. 0 \in T
    BY <1>1, <1>2, <1>7
  <2>2. \A i \in 0..(n - 1) : i \in T => i + 1 \in T
    <3> SUFFICES ASSUME NEW i \in 0..(n - 1), r[i] \in InBuffer
                 PROVE  r[i + 1] \in InBuffer /\ i + 1 \in 0..n
      OBVIOUS
    <3>1. i + 1 \in 1..n /\ (i + 1) - 1 = i /\ i + 1 \in 0..n
      BY <1>1
    <3>2. r[i + 1] = Joined(r[i], f[i + 1])
      BY <1>1, <1>8, <3>1
    <3>3. f[i + 1] \in Nat /\ words[f[i + 1]] \in Seq(STRING)
      BY <1>1, <3>1
    <3>4. Joined(r[i], f[i + 1]) \in InBuffer
      BY <3>3, JoinedFits
    <3> QED
      BY <3>1, <3>2, <3>4
  <2>3. 0..n \subseteq T
    <3> HIDE DEF T
    <3> QED
      BY <1>1, <2>1, <2>2, Induction
  <2> QED
    BY <2>3 DEF r
<1>10. FoldLeft(Joined, <<>>, f) = r[n]
  BY <1>1, <1>6
<1> HIDE DEF r
<1> QED
  BY <1>1, <1>7, <1>8, <1>9, <1>10 DEF n, f

----------------------------------------------------------------------------
LEMMA TextAtRest == TextInit => TextTypes
BY SmallSeqs DEF TextInit, TextTypes, TextTypeOK, Jobs

\* The types are kept: in particular src and size are those of the call.
LEMMA TextTypesStep ==
  ASSUME TextTypes, [TextNext]_textVars
  PROVE  TextTypes'
<1>1. /\ job \in Jobs \cup {"none"} /\ pos \in Nat \ {0} /\ src \in Seq(STRING) /\ Len(src) \in Nat
      /\ size \in Nat \ {0}
      /\ dst \in Seq(Letters) /\ Len(dst) \in Nat
      /\ job # "none" => src \in Texts[job] /\ size \in BufSizes[job]
      /\ job = "none" <=> result = "none"
  BY DEF TextTypes, TextTypeOK
<1>2. STRING \subseteq Letters /\ Under \in Letters /\ Line \in Letters /\ Back \in Letters /\ Dot \in Letters
      /\ "junk" \in Letters
  BY DEF Letters
<1>3. MoreText => src[pos] \in STRING /\ src[pos] \in Letters
  <2>1. MoreText => pos \in 1..Len(src)
    BY <1>1 DEF MoreText
  <2>2. \A k \in 1..Len(src) : src[k] \in STRING
    BY <1>1
  <2> QED
    BY <1>2, <2>1, <2>2
<1>4. CASE JobBegins
  <2>1. /\ job' \in Jobs /\ src' \in Texts[job'] /\ size' \in BufSizes[job'] /\ pos' = 1 /\ words' = <<>>
    BY <1>4 DEF JobBegins
  <2>2. src' \in Seq(STRING) /\ size' \in Nat \ {0}
    BY <2>1, Given
  <2>3. result' \in {"untouched", "refused", "too_long", "working"}
    BY <1>4 DEF JobBegins
  <2>4. dst' \in {Opening, Plains(HeadLen), <<>>}
    BY <1>4 DEF JobBegins
  <2>5. dst' \in Seq(Letters)
    BY <2>4, SmallSeqs, TextConstantsOK
  <2>6. job' = "send" => size' = MsgMax
    BY <2>1, TextConstantsOK
  <2>7. words' \in Seq(Seq(STRING)) /\ words' \in Seq(Nat)
    BY <2>1
  <2> QED
    BY <2>1, <2>2, <2>3, <2>5, <2>6, <2>7 DEF TextTypes, TextTypeOK, Jobs
<1>5. CASE JobReturns
  <2>1. TextInit'
    BY <1>5 DEF JobReturns, TextInit
  <2> QED
    BY <2>1, TextAtRest, PTL
<1>6. ASSUME UNCHANGED <<given, words, result>>, pos' \in Nat \ {0}, dst' \in Seq(Letters)
      PROVE  TextTypes'
  BY <1>6 DEF TextTypes, TextTypeOK, given
<1>7. ASSUME UNCHANGED <<given, pos, words>>, job # "none", dst' \in Seq(Letters),
             result' \in {"untouched", "refused", "too_long", "too_many", "empty", "done"}
      PROVE  TextTypes'
  BY <1>7 DEF TextTypes, TextTypeOK, given
<1>8. CASE CodeMasks \/ CodeCopies
  <2>1. UNCHANGED <<given, words, result>> /\ pos' \in Nat \ {0} /\ MoreText
    BY <1>1, <1>8 DEF CodeMasks, CodeCopies, Continues
  <2>2. dst \o Masked \in Seq(Letters)
    BY <1>1, SmallSeqs, Concatenated
  <2>3. Append(dst, src[pos]) \in Seq(Letters)
    BY <1>1, <1>3, <2>1
  <2>4. dst' \in Seq(Letters)
    BY <1>1, <1>8, <2>2, <2>3 DEF CodeMasks, CodeCopies
  <2> QED
    BY <1>6, <2>1, <2>4
<1>9. CASE CodeCloses
  <2> DEFINE e == IF dst[Used] # Line /\ Used + 1 < size THEN Append(dst, Line) ELSE dst
  <2>1. e \in Seq(Letters)
    BY <1>1, <1>2
  <2>2. dst' = IF Len(e) + 4 <= size THEN e \o Fence ELSE e
    BY <1>9 DEF CodeCloses
  <2> HIDE DEF e
  <2>3. e \o Fence \in Seq(Letters)
    BY <2>1, SmallSeqs, Concatenated
  <2>4. dst' \in Seq(Letters)
    BY <2>1, <2>2, <2>3
  <2> QED
    BY <1>7, <1>9, <2>4 DEF CodeCloses, Works, Finishes, TextStays
<1>10. CASE NameSteps
  <2>1. UNCHANGED <<given, words, result>> /\ pos' \in Nat \ {0} /\ MoreText
    BY <1>1, <1>10 DEF NameSteps, Continues
  <2>2. Append(dst, src[pos]) \in Seq(Letters) /\ Append(dst, Under) \in Seq(Letters)
    BY <1>1, <1>2, <1>3, <2>1
  <2>3. dst' \in {Append(dst, Under), Append(dst, src[pos]), dst}
    BY <1>10 DEF NameSteps
  <2>4. dst' \in Seq(Letters)
    BY <1>1, <2>2, <2>3
  <2> QED
    BY <1>6, <2>1, <2>4
<1>11. CASE NameEnds \/ EscapeEnds \/ ArgsRefused \/ FilesEnds
  BY <1>1, <1>7, <1>11 DEF NameEnds, EscapeEnds, ArgsRefused, FilesEnds, Works, Finishes, TextStays
<1>12. CASE EscapeSteps
  <2>1. UNCHANGED <<given, words, result>> /\ pos' \in Nat \ {0} /\ MoreText
    BY <1>1, <1>12 DEF EscapeSteps, Continues
  <2>2. Escape(src[pos]) \in Seq(Letters)
    BY <1>2, <1>3, <2>1 DEF Escape
  <2>3. dst' \in Seq(Letters)
    BY <1>1, <1>12, <2>2, Concatenated DEF EscapeSteps
  <2> QED
    BY <1>6, <2>1, <2>3
<1>13. CASE ArgsToken
  <2>1. /\ job = "args" /\ TokenAt <= Len(src) /\ words' = Append(words, SubSeq(src, TokenAt, TokenEnd - 1))
        /\ pos' = TokenEnd + 1 /\ UNCHANGED <<given, dst, result>>
    BY <1>13 DEF ArgsToken, Works
  <2>2. TokenAt \in Nat /\ TokenAt >= 1 /\ TokenEnd \in Nat /\ TokenEnd <= Len(src) + 1
    BY <1>1, <2>1, TokenBounds
  <2>3. SubSeq(src, TokenAt, TokenEnd - 1) \in Seq(STRING)
    BY <1>1, <2>2
  <2>4. words' \in Seq(Seq(STRING))
    <3>1. words \in Seq(Seq(STRING))
      BY <2>1 DEF TextTypes
    <3> QED
      BY <2>1, <2>3, <3>1, Appended
  <2>5. pos' \in Nat \ {0}
    BY <2>1, <2>2
  <2> QED
    BY <2>1, <2>4, <2>5 DEF TextTypes, TextTypeOK, given
<1>14. CASE ArgsJoined
  <2>1. words \in Seq(Seq(STRING)) /\ words # <<>>
    BY <1>14 DEF ArgsJoined, Works, TextTypes
  <2>2. dst' \in InBuffer
    <3>1. PICK r \in [0..(Len(words) - 1) -> InBuffer] :
            FoldLeft(Joined, <<>>, [w \in 1..(Len(words) - 1) |-> w + 1]) = r[Len(words) - 1]
      BY <1>1, <2>1, JoinScan
    <3>2. Len(words) - 1 \in 0..(Len(words) - 1)
      <4>1. Len(words) \in Nat /\ Len(words) # 0
        BY <2>1
      <4> QED
        BY <4>1
    <3> QED
      BY <1>14, <3>1, <3>2 DEF ArgsJoined
  <2>3. dst' \in Seq(Letters)
    BY <2>2 DEF InBuffer
  <2> QED
    BY <1>7, <1>14, <2>3 DEF ArgsJoined, Works, Finishes, TextStays
<1>15. CASE FilesSkips
  BY <1>1, <1>6, <1>15 DEF FilesSkips, Continues
<1>16. CASE FilesLists
  <2>1. /\ job = "files" /\ UNCHANGED <<given, result>> /\ words' = Append(words, pos) /\ pos' = pos + 1
        /\ dst' = dst \o Plains(EntryLen[src[pos]]) /\ src[pos] \in DOMAIN EntryLen
    BY <1>16 DEF FilesLists, Works
  <2>2. words \in Seq(Nat)
    BY <2>1 DEF TextTypes
  <2>3. words' \in Seq(Nat)
    BY <1>1, <2>1, <2>2
  <2>4. dst' \in Seq(Letters)
    BY <1>1, <2>1, SmallSeqs, Concatenated, TextConstantsOK
  <2>5. pos' \in Nat \ {0}
    BY <1>1, <2>1
  <2> QED
    BY <2>1, <2>3, <2>4, <2>5 DEF TextTypes, TextTypeOK, given
<1>17. CASE Sends
  <2>1. dst' \in Seq(Letters)
    <3>1. CASE Len(src) < MsgMax
      <4>1. dst' = src
        BY <1>17, <3>1 DEF Sends
      <4> QED
        BY <1>1, <1>2, <4>1, Wider, Zenon
    <3>2. CASE ~(Len(src) < MsgMax)
      <4>1. PICK n \in 0..(MsgMax - 1) : dst' = [k \in 1..n |-> "junk"]
        BY <1>17, <3>2 DEF Sends
      <4>2. n \in Nat
        BY TextConstantsOK
      <4> QED
        BY <1>2, <4>1, <4>2
    <3> QED
      BY <3>1, <3>2
  <2> QED
    BY <1>7, <1>17, <2>1 DEF Sends, Works, Finishes, TextStays
<1>18. CASE UNCHANGED textVars
  BY <1>18 DEF textVars, given, TextTypes, TextTypeOK
<1> QED
  BY <1>4, <1>5, <1>8, <1>9, <1>10, <1>11, <1>12, <1>13, <1>14, <1>15, <1>16, <1>17, <1>18
  DEF TextNext

----------------------------------------------------------------------------
(* FlattenSeq(), one sequence after the other. *)

\* FlattenSeq() is the last of a series, each one the one before and the next
\* sequence.
FlatStep(ss, fl, i) == fl[i] = IF i = 1 THEN ss[i] ELSE fl[i - 1] \o ss[i]

LEMMA FlatExists ==
  ASSUME NEW S, NEW ss \in Seq(Seq(S))
  PROVE  \E fl \in [1..Len(ss) -> Seq(S)] : \A i \in 1..Len(ss) : FlatStep(ss, fl, i)
<1> DEFINE n == Len(ss)
           Good(fl, m) == fl \in [1..m -> Seq(S)] /\ \A i \in 1..m : FlatStep(ss, fl, i)
           T == {m \in 0..n : \E fl : Good(fl, m)}
<1>1. n \in Nat /\ \A i \in 1..n : ss[i] \in Seq(S)
  OBVIOUS
<1> HIDE DEF n
<1>2. 0 \in T
  <2> DEFINE fl == [i \in 1..0 |-> <<>>]
  <2>1. 1..0 = {} /\ 0 \in 0..n
    BY <1>1
  <2>2. Good(fl, 0)
    BY <2>1
  <2> HIDE DEF Good, fl
  <2> QED
    BY <2>1, <2>2
<1>3. ASSUME NEW m \in 0..(n - 1), m \in T PROVE m + 1 \in T
  <2>1. PICK fl : Good(fl, m)
    BY <1>3
  <2>2. m \in Nat /\ m + 1 \in 1..n /\ m + 1 \in 0..n /\ \A i \in 1..(m + 1) : i = m + 1 \/ i \in 1..m
    BY <1>1
  <2> DEFINE last == IF m = 0 THEN ss[1] ELSE fl[m] \o ss[m + 1]
             up == [i \in 1..(m + 1) |-> IF i = m + 1 THEN last ELSE fl[i]]
  <2>3. last \in Seq(S)
    <3>1. CASE m = 0
      BY <1>1, <2>2, <3>1
    <3>2. CASE m # 0
      <4>1. fl[m] \in Seq(S) /\ ss[m + 1] \in Seq(S)
        <5>1. m \in 1..m
          BY <2>2, <3>2
        <5> QED
          BY <1>1, <2>1, <2>2, <5>1
      <4> QED
        BY <3>2, <4>1
    <3> QED
      BY <3>1, <3>2
  <2>4. up \in [1..(m + 1) -> Seq(S)]
    <3> HIDE DEF last
    <3> QED
      BY <2>1, <2>2, <2>3
  <2>5. ASSUME NEW i \in 1..(m + 1) PROVE FlatStep(ss, up, i)
    <3>1. CASE i = m + 1
      <4>1. up[m + 1] = last /\ (m # 0 => up[m] = fl[m])
        <5> HIDE DEF last
        <5>1. m + 1 \in 1..(m + 1) /\ (m # 0 => m \in 1..(m + 1)) /\ m # m + 1
          BY <2>2
        <5> QED
          BY <5>1
      <4>2. (m + 1) - 1 = m /\ (m + 1 = 1 <=> m = 0)
        BY <2>2
      <4> HIDE DEF up
      <4> QED
        BY <3>1, <4>1, <4>2 DEF FlatStep
    <3>2. CASE i # m + 1
      <4>1. i \in 1..m /\ (i # 1 => i - 1 \in 1..m)
        BY <2>2, <3>2
      <4>2. \A k \in 1..m : up[k] = fl[k]
        <5> HIDE DEF last
        <5>1. \A k \in 1..m : k \in 1..(m + 1) /\ k # m + 1
          BY <2>2
        <5> QED
          BY <5>1
      <4>3. FlatStep(ss, fl, i)
        BY <2>1, <4>1
      <4> HIDE DEF up
      <4> QED
        BY <4>1, <4>2, <4>3 DEF FlatStep
    <3> QED
      BY <3>1, <3>2
  <2>6. Good(up, m + 1)
    <3> HIDE DEF up
    <3> QED
      BY <2>4, <2>5
  <2> HIDE DEF up, Good
  <2> QED
    BY <2>2, <2>6
<1>4. n \in T
  <2> HIDE DEF T
  <2>1. 0..n \subseteq T
    BY <1>1, <1>2, <1>3, Induction
  <2> QED
    BY <1>1, <2>1
<1> QED
  BY <1>4 DEF n

LEMMA FlatScan ==
  ASSUME NEW S, NEW ss \in Seq(Seq(S))
  PROVE  \E r \in [0..Len(ss) -> Seq(S)] :
           /\ r[0] = <<>>
           /\ \A i \in 1..Len(ss) : r[i] = r[i - 1] \o ss[i]
           /\ FlattenSeq(ss) = r[Len(ss)]
<1> DEFINE n == Len(ss)
           Def(fl) == [i \in 1..Len(ss) |-> IF i = 1 THEN ss[i] ELSE fl[i - 1] \o ss[i]]
           flatten == CHOOSE fl : fl = Def(fl)
           r == [i \in 0..n |-> IF i = 0 THEN <<>> ELSE flatten[i]]
<1>1. n \in Nat /\ \A i \in 1..n : ss[i] \in Seq(S)
  OBVIOUS
<1>2. \E fl : fl = Def(fl)
  <2>1. PICK fl \in [1..n -> Seq(S)] : \A i \in 1..n : FlatStep(ss, fl, i)
    BY FlatExists
  <2>2. fl = Def(fl)
    BY <2>1 DEF FlatStep
  <2> QED
    BY <2>2
<1>3. flatten = Def(flatten)
  BY <1>2
<1>4. n # 0 => FlattenSeq(ss) = flatten[n]
  BY DEF FlattenSeq
<1>5. n = 0 => FlattenSeq(ss) = <<>>
  BY DEF FlattenSeq
<1> HIDE DEF flatten, n
<1>6. r[0] = <<>>
  BY <1>1
<1>7. \A i \in 1..n : flatten[i] = IF i = 1 THEN ss[i] ELSE flatten[i - 1] \o ss[i]
  BY <1>3 DEF n
<1>8. \A i \in 1..n : r[i] = flatten[i] /\ i - 1 \in 0..n
          /\ (i # 1 => r[i - 1] = flatten[i - 1]) /\ (i = 1 => r[i - 1] = <<>>)
  BY <1>1
<1>9. \A t \in Seq(S) : <<>> \o t = t
  OBVIOUS
<1>10. \A i \in 1..n : r[i] = r[i - 1] \o ss[i]
  <2> TAKE i \in 1..n
  <2> HIDE DEF r
  <2> QED
    BY <1>1, <1>7, <1>8, <1>9
<1>11. FlattenSeq(ss) = r[n]
  BY <1>1, <1>4, <1>5
<1>12. r \in [0..n -> Seq(S)]
  <2> DEFINE T == {i \in 0..n : r[i] \in Seq(S)}
  <2>0. r = [i \in 0..n |-> r[i]]
    OBVIOUS
  <2> HIDE DEF r
  <2>1. 0 \in T
    <3>1. <<>> \in Seq(S) /\ 0 \in 0..n
      BY <1>1
    <3> QED
      BY <1>6, <3>1
  <2>2. \A i \in 0..(n - 1) : i \in T => i + 1 \in T
    <3> SUFFICES ASSUME NEW i \in 0..(n - 1), r[i] \in Seq(S) PROVE r[i + 1] \in Seq(S) /\ i + 1 \in 0..n
      OBVIOUS
    <3>1. i + 1 \in 1..n /\ (i + 1) - 1 = i /\ i + 1 \in 0..n
      BY <1>1
    <3>2. r[i + 1] = r[i] \o ss[i + 1] /\ ss[i + 1] \in Seq(S)
      BY <1>1, <1>10, <3>1
    <3> QED
      BY <3>1, <3>2
  <2>3. 0..n \subseteq T
    <3> HIDE DEF T
    <3> QED
      BY <1>1, <2>1, <2>2, Induction
  <2>4. \A i \in 0..n : r[i] \in Seq(S)
    BY <2>3
  <2> QED
    BY <2>0, <2>4
<1> HIDE DEF r
<1> QED
  BY <1>6, <1>10, <1>11, <1>12 DEF n

\* Of no sequences, and of sequences over a set.
LEMMA FlatEmpty == FlattenSeq(<<>>) = <<>>
<1>1. Len(<<>>) = 0
  OBVIOUS
<1> QED
  BY <1>1 DEF FlattenSeq

LEMMA FlatType ==
  ASSUME NEW S, NEW ss \in Seq(Seq(S))
  PROVE  FlattenSeq(ss) \in Seq(S)
<1>1. PICK r \in [0..Len(ss) -> Seq(S)] : FlattenSeq(ss) = r[Len(ss)]
  BY FlatScan
<1>2. Len(ss) \in 0..Len(ss)
  OBVIOUS
<1> QED
  BY <1>1, <1>2

\* One more sequence at the end.
LEMMA FlatNext ==
  ASSUME NEW S, NEW ss \in Seq(Seq(S)), NEW tt \in Seq(Seq(S)), Len(tt) = Len(ss) + 1,
         \A i \in 1..Len(ss) : tt[i] = ss[i]
  PROVE  FlattenSeq(tt) = FlattenSeq(ss) \o tt[Len(ss) + 1]
<1> DEFINE n == Len(ss)
<1>1. n \in Nat
  OBVIOUS
<1>2. PICK r \in [0..n -> Seq(S)] : /\ r[0] = <<>> /\ \A i \in 1..n : r[i] = r[i - 1] \o ss[i]
                                    /\ FlattenSeq(ss) = r[n]
  BY FlatScan
<1>3. PICK u : /\ u[0] = <<>> /\ \A i \in 1..(n + 1) : u[i] = u[i - 1] \o tt[i]
               /\ FlattenSeq(tt) = u[n + 1]
  <2>1. PICK u \in [0..Len(tt) -> Seq(S)] : /\ u[0] = <<>> /\ \A i \in 1..Len(tt) : u[i] = u[i - 1] \o tt[i]
                                           /\ FlattenSeq(tt) = u[Len(tt)]
    BY FlatScan
  <2>2. Len(tt) = n + 1
    OBVIOUS
  <2> QED
    BY <2>1, <2>2
<1>0. \A i \in 1..n : tt[i] = ss[i]
  OBVIOUS
<1> HIDE DEF n
<1> DEFINE T == {i \in 0..n : u[i] = r[i]}
<1>4. 0 \in T
  BY <1>1, <1>2, <1>3
<1>5. ASSUME NEW i \in 0..(n - 1), i \in T PROVE i + 1 \in T
  <2>1. i + 1 \in 1..n /\ i + 1 \in 1..(n + 1) /\ (i + 1) - 1 = i /\ i + 1 \in 0..n
    BY <1>1
  <2>2. r[i + 1] = r[i] \o ss[i + 1] /\ u[i + 1] = u[i] \o tt[i + 1]
    BY <1>2, <1>3, <2>1
  <2> QED
    BY <1>0, <1>5, <2>1, <2>2
<1>6. n \in T
  <2> HIDE DEF T
  <2>1. 0..n \subseteq T
    BY <1>1, <1>4, <1>5, Induction
  <2> QED
    BY <1>1, <2>1
<1>7. n + 1 \in 1..(n + 1) /\ (n + 1) - 1 = n
  BY <1>1
<1> QED
  BY <1>2, <1>3, <1>6, <1>7 DEF n

\* A step runs the loop of the job at hand, or begins or ends a call.
LEMMA LoopSteps ==
  ASSUME TextTypes, [TextNext]_textVars
  PROVE  \/ UNCHANGED <<job, src, size, pos, dst, words, result>>
         \/ JobBegins
         \/ job' = "none" /\ dst' = <<>> /\ size' = 1
         \/ /\ job \in Jobs /\ Works(job) /\ UNCHANGED <<job, src, size>>
            /\ job = "code" => CodeMasks \/ CodeCopies \/ CodeCloses
            /\ job = "name" => NameSteps \/ NameEnds
            /\ job = "escape" => EscapeSteps \/ EscapeEnds
            /\ job = "args" => ArgsToken \/ ArgsRefused \/ ArgsJoined
            /\ job = "files" => FilesSkips \/ FilesLists \/ FilesEnds
            /\ job = "send" => Sends
<1>1. CASE UNCHANGED textVars
  BY <1>1 DEF textVars, given
<1>2. CASE JobBegins \/ JobReturns
  BY <1>2 DEF JobReturns
<1>3. CASE CodeMasks \/ CodeCopies \/ CodeCloses
  BY <1>3 DEF CodeMasks, CodeCopies, CodeCloses, Works, Continues, TextStays, given, Jobs
<1>4. CASE NameSteps \/ NameEnds
  BY <1>4 DEF NameSteps, NameEnds, Works, Continues, TextStays, given, Jobs
<1>5. CASE EscapeSteps \/ EscapeEnds
  BY <1>5 DEF EscapeSteps, EscapeEnds, Works, Continues, TextStays, given, Jobs
<1>6. CASE ArgsToken \/ ArgsRefused \/ ArgsJoined
  BY <1>6 DEF ArgsToken, ArgsRefused, ArgsJoined, Works, TextStays, given, Jobs
<1>7. CASE FilesSkips \/ FilesLists \/ FilesEnds
  BY <1>7 DEF FilesSkips, FilesLists, FilesEnds, Works, Continues, TextStays, given, Jobs
<1>8. CASE Sends
  BY <1>8 DEF Sends, Works, TextStays, given, Jobs
<1> QED
  BY <1>1, <1>2, <1>3, <1>4, <1>5, <1>6, <1>7, <1>8 DEF TextNext

USE DEF Used

\* sanitize_filename(): the name is made of the characters it allows.
Clean == {Dot, Under, Plain}

\* The name fits, and is not empty or hidden when the loop is done.
NameInv ==
  job = "name" =>
    /\ Used < size
    /\ dst \in Seq(Clean)
    /\ result = "done" => dst # <<>> /\ Head(dst) # Dot

LEMMA NameKeeps ==
  ASSUME TextTypes, NameInv, [TextNext]_textVars
  PROVE  NameInv'
<1> SUFFICES ASSUME job' = "name"
             PROVE  (Used < size /\ dst \in Seq(Clean) /\ (result = "done" => dst # <<>> /\ Head(dst) # Dot))'
  BY DEF NameInv
<1>1. CASE UNCHANGED <<job, src, size, pos, dst, words, result>>
  BY <1>1 DEF NameInv
<1>2. CASE JobBegins
  <2>1. dst' = <<>> /\ result' # "done" /\ size' \in Nat \ {0}
    BY <1>2, Given DEF JobBegins
  <2> QED
    BY <2>1
<1>3. CASE Works("name") /\ UNCHANGED <<job, src, size>> /\ NameSteps
  <2>1. /\ Used < size - 1 /\ dst \in Seq(Clean) /\ Len(dst) \in Nat /\ size \in Nat /\ result' = "working" /\ size' = size
    BY <1>3 DEF NameInv, NameSteps, Works, Continues, TextTypes
  <2>2. dst' = dst \/ \E c \in Clean : dst' = Append(dst, c)
    BY <1>3 DEF NameSteps, Clean
  <2>3. ASSUME NEW c \in Clean, dst' = Append(dst, c) PROVE dst' \in Seq(Clean) /\ Len(dst') = Len(dst) + 1
    BY <2>1, <2>3, Appended
  <2> QED
    BY <2>1, <2>2, <2>3
<1>4. CASE Works("name") /\ UNCHANGED <<job, src, size>> /\ NameEnds
  <2>1. dst' = dst /\ size' = size /\ Used < size /\ dst \in Seq(Clean)
        /\ (result' = "done" => dst # <<>> /\ Head(dst) # Dot)
    BY <1>4 DEF NameEnds, NameInv, Works, Finishes
  <2> QED
    BY <2>1
<1> QED
  BY <1>1, <1>2, <1>3, <1>4, LoopSteps

\* What the invariant says of the name.
LEMMA NameRight ==
  TextTypes /\ NameInv /\ Done("name") =>
    Used < size /\ dst # <<>> /\ Head(dst) # Dot /\ {Slash, Space} \cap ToSet(dst) = {}
<1>1. Slash \notin Clean /\ Space \notin Clean
  BY DEF Clean, Slash, Space, Dot, Under, Plain
<1>2. \A s \in Seq(Clean) : {Slash, Space} \cap ToSet(s) = {}
  BY <1>1 DEF ToSet
<1> QED
  BY <1>2 DEF NameInv, Done

\* telegram_escape_markdown(): what is in the buffer is what has been read.
Escaped(n) == [k \in 1..n |-> Escape(src[k])]

\* The invariant of the escape: all that was read is there, each special
\* character behind a backslash, and nothing after the last one read.
EscapeMarked ==
  /\ \A k \in 1..Used : dst[k] \in {Dot, Under} => k > 1 /\ dst[k - 1] = Back
  /\ Used > 0 => dst[Used] = src[pos - 1]

EscapeSoFar ==
  /\ Used < size
  /\ EscapeMarked
  /\ pos <= Len(src) + 1
  /\ result \in {"working", "done"} /\ dst = FlattenSeq(Escaped(pos - 1))
  /\ result = "done" => pos > Len(src) \/ Used + 2 >= size

EscapeInv == job = "escape" => EscapeSoFar

\* One more character, with its backslash when it is a special one.
LEMMA MarkedNext ==
  ASSUME dst \in Seq(Letters), src \in Seq(STRING), pos \in 1..Len(src),
         EscapeMarked,
         dst' = dst \o Escape(src[pos]), src' = src, pos' = pos + 1
  PROVE  EscapeMarked'
<1> DEFINE c == src[pos]
<1>1. Len(dst) \in Nat /\ c \in Letters /\ Back \in Letters /\ Back \notin {Dot, Under}
  BY DEF Letters, Back, Dot, Under
<1>2. src'[pos' - 1] = c
  OBVIOUS
<1> HIDE DEF Letters
<1>3. CASE c \in {Dot, Under}
  <2>1. dst' = dst \o <<Back, c>>
    BY <1>3 DEF Escape
  <2>2. /\ Len(dst') = Len(dst) + 2
        /\ \A k \in 1..Len(dst) : dst'[k] = dst[k]
        /\ dst'[Len(dst) + 1] = Back /\ dst'[Len(dst) + 2] = c
    BY <1>1, <2>1
  <2> HIDE DEF c
  <2>3. ASSUME NEW k \in 1..Len(dst'), dst'[k] \in {Dot, Under}
        PROVE  k > 1 /\ dst'[k - 1] = Back
    <3>1. CASE k \in 1..Len(dst)
      <4>1. k > 1 /\ dst[k - 1] = Back
        BY <2>2, <2>3, <3>1 DEF EscapeMarked
      <4>2. k - 1 \in 1..Len(dst)
        BY <1>1, <3>1, <4>1
      <4> QED
        BY <2>2, <4>1, <4>2
    <3>2. CASE k = Len(dst) + 1
      BY <1>1, <2>2, <2>3, <3>2
    <3>3. CASE k = Len(dst) + 2
      <4>1. k > 1 /\ k - 1 = Len(dst) + 1
        BY <1>1, <3>3
      <4> QED
        BY <2>2, <4>1
    <3> QED
      BY <1>1, <2>2, <2>3, <3>1, <3>2, <3>3
  <2>4. dst'[Len(dst')] = src'[pos' - 1]
    BY <1>2, <2>2
  <2> QED
    BY <2>3, <2>4 DEF EscapeMarked
<1>4. CASE c \notin {Dot, Under}
  <2>1. dst' = dst \o <<c>>
    BY <1>4 DEF Escape
  <2>2. /\ Len(dst') = Len(dst) + 1
        /\ \A k \in 1..Len(dst) : dst'[k] = dst[k]
        /\ dst'[Len(dst) + 1] = c
    BY <1>1, <2>1
  <2> HIDE DEF c
  <2> QED
    BY <1>1, <1>2, <1>4, <2>2 DEF EscapeMarked
<1> QED
  BY <1>3, <1>4

LEMMA EscapeKeeps ==
  ASSUME TextTypes, EscapeInv, [TextNext]_textVars
  PROVE  EscapeInv'
<1> SUFFICES ASSUME job' = "escape"
             PROVE  EscapeSoFar'
  BY DEF EscapeInv
<1>a. job = "escape" => EscapeSoFar
  BY DEF EscapeInv
<1>0. pos \in Nat \ {0} /\ src \in Seq(STRING) /\ Len(src) \in Nat /\ size \in Nat \ {0}
      /\ dst \in Seq(Letters) /\ Len(dst) \in Nat
  BY DEF TextTypes, TextTypeOK
<1>1. CASE UNCHANGED <<job, src, size, pos, dst, words, result>>
  BY <1>1, <1>a DEF EscapeSoFar, EscapeMarked, Escaped
<1>2. CASE JobBegins
  <2>1. dst' = <<>> /\ result' = "working" /\ size' \in Nat \ {0} /\ pos' = 1 /\ src' \in Seq(STRING)
    BY <1>2, Given DEF JobBegins
  <2>2. Escaped(pos - 1)' = <<>>
    BY <2>1 DEF Escaped
  <2>3. FlattenSeq(Escaped(pos - 1))' = <<>>
    BY <2>2, FlatEmpty
  <2>4. Len(src') \in Nat /\ Len(<<>>) = 0
    BY <2>1
  <2> QED
    BY <2>1, <2>3, <2>4 DEF EscapeSoFar, EscapeMarked
<1>3. CASE Works("escape") /\ UNCHANGED <<job, src, size>> /\ EscapeSteps
  <2>1. /\ Used + 2 < size /\ dst = FlattenSeq(Escaped(pos - 1)) /\ pos <= Len(src)
        /\ dst' = dst \o Escape(src[pos]) /\ pos' = pos + 1 /\ result' = "working" /\ size' = size /\ src' = src
    BY <1>0, <1>a, <1>3 DEF EscapeSoFar, EscapeSteps, Works, Continues, MoreText
  <2>2. \A k \in 1..Len(src) : Escape(src[k]) \in Seq(Letters) /\ Len(Escape(src[k])) \in {1, 2}
    <3> SUFFICES ASSUME NEW k \in 1..Len(src) PROVE Escape(src[k]) \in Seq(Letters) /\ Len(Escape(src[k])) \in {1, 2}
      OBVIOUS
    <3>1. src[k] \in Letters /\ Back \in Letters
      BY <1>0 DEF Letters
    <3> HIDE DEF Letters
    <3> QED
      BY <3>1 DEF Escape
  <2>3. /\ Escaped(pos - 1) \in Seq(Seq(Letters)) /\ Len(Escaped(pos - 1)) = pos - 1
        /\ Escaped(pos) \in Seq(Seq(Letters)) /\ Len(Escaped(pos)) = pos
        /\ \A i \in 1..(pos - 1) : Escaped(pos)[i] = Escaped(pos - 1)[i]
        /\ Escaped(pos)[pos] = Escape(src[pos])
    BY <1>0, <2>1, <2>2 DEF Escaped
  <2>4. FlattenSeq(Escaped(pos)) = FlattenSeq(Escaped(pos - 1)) \o Escaped(pos)[pos]
    <3>1. \A i \in 1..Len(Escaped(pos - 1)) : Escaped(pos)[i] = Escaped(pos - 1)[i]
      BY <2>3
    <3>2. Len(Escaped(pos)) = Len(Escaped(pos - 1)) + 1 /\ Len(Escaped(pos - 1)) + 1 = pos
      BY <1>0, <2>3
    <3>3. Escaped(pos - 1) \in Seq(Seq(Letters)) /\ Escaped(pos) \in Seq(Seq(Letters))
      BY <2>3
    <3>4. FlattenSeq(Escaped(pos)) = FlattenSeq(Escaped(pos - 1)) \o Escaped(pos)[Len(Escaped(pos - 1)) + 1]
      BY <3>1, <3>2, <3>3, FlatNext
    <3> QED
      BY <3>2, <3>4
  <2>5. FlattenSeq(Escaped(pos - 1))' = FlattenSeq(Escaped(pos))
    BY <1>0, <2>1 DEF Escaped
  <2>6. Len(dst') = Len(dst) + Len(Escape(src[pos])) /\ Len(Escape(src[pos])) \in {1, 2}
    BY <1>0, <2>1, <2>2, Concatenated
  <2>7. dst' = FlattenSeq(Escaped(pos - 1))'
    BY <1>0, <2>1, <2>3, <2>4, <2>5
  <2>8. Len(dst') < size /\ Len(dst') \in Nat
    <3> DEFINE n == Len(Escape(src[pos]))
    <3>1. n \in {1, 2} /\ Len(dst') = Len(dst) + n
      BY <2>6
    <3> HIDE DEF n
    <3>2. Len(dst) + 2 < size
      BY <2>1
    <3> QED
      BY <1>0, <3>1, <3>2
  <2>9. EscapeMarked'
    <3>1. EscapeMarked
      BY <1>a, <1>3 DEF EscapeSoFar, Works
    <3> QED
      BY <1>0, <2>1, <3>1, MarkedNext
  <2> QED
    BY <1>0, <2>1, <2>7, <2>8, <2>9 DEF EscapeSoFar
<1>4. CASE Works("escape") /\ UNCHANGED <<job, src, size>> /\ EscapeEnds
  <2>1. /\ dst' = dst /\ size' = size /\ src' = src /\ pos' = pos /\ result' = "done"
        /\ ~(MoreText /\ Used + 2 < size)
    BY <1>4 DEF EscapeEnds, TextStays, Finishes
  <2> QED
    BY <1>0, <1>a, <1>4, <2>1 DEF EscapeSoFar, EscapeMarked, Works, Escaped, MoreText
<1> QED
  BY <1>1, <1>2, <1>3, <1>4, LoopSteps

\* upload_list_files(): those listed are the entries gone through that are to
\* be listed.
Listed == {k \in 1..(pos - 1) : src[k] \in DOMAIN EntryLen}

\* The invariant of the listing: it ends at an entry that does not fit.
FilesSoFar ==
  /\ Used < size
  /\ result \in {"working", "done"} /\ ToSet(words) = Listed
  /\ result = "done" /\ pos <= Len(src) =>
       src[pos] \in DOMAIN EntryLen /\ Used + EntryLen[src[pos]] >= size

FilesInv == job = "files" => FilesSoFar

LEMMA FilesKeeps ==
  ASSUME TextTypes, FilesInv, [TextNext]_textVars
  PROVE  FilesInv'
<1> SUFFICES ASSUME job' = "files" PROVE FilesSoFar'
  BY DEF FilesInv
<1>a. job = "files" => FilesSoFar
  BY DEF FilesInv
<1>0. pos \in Nat \ {0} /\ src \in Seq(STRING) /\ Len(src) \in Nat /\ size \in Nat \ {0}
      /\ dst \in Seq(Letters) /\ Len(dst) \in Nat
  BY DEF TextTypes, TextTypeOK
<1>1. CASE UNCHANGED <<job, src, size, pos, dst, words, result>>
  BY <1>1, <1>a DEF FilesSoFar, Listed
<1>2. CASE JobBegins
  <2>1. result' = "working" /\ size' \in Nat \ {0} /\ pos' = 1 /\ words' = <<>>
    BY <1>2, Given DEF JobBegins
  <2>2. Listed' = {} /\ ToSet(words') = {}
    <3>1. 1..(pos' - 1) = {}
      BY <2>1
    <3> QED
      BY <2>1, <3>1 DEF Listed, ToSet
  <2>3. dst' = IF HeadLen < size' THEN Plains(HeadLen) ELSE <<>>
    BY <1>2 DEF JobBegins
  <2>4. Len(dst') < size'
    BY <2>1, <2>3, SmallSeqs, TextConstantsOK
  <2> QED
    BY <2>1, <2>2, <2>4 DEF FilesSoFar
<1>3. CASE Works("files") /\ FilesSkips
  <2>1. /\ FilesSoFar /\ src[pos] \notin DOMAIN EntryLen /\ result' = "working"
        /\ UNCHANGED <<src, size, dst, words>> /\ pos' = pos + 1
    BY <1>3, <1>a DEF FilesSkips, Continues, Works, given
  <2>2. Listed' = Listed
    <3>1. \A k : k \in 1..(pos' - 1) <=> k \in 1..(pos - 1) \/ k = pos
      BY <1>0, <2>1
    <3> QED
      BY <2>1, <3>1 DEF Listed
  <2> QED
    BY <2>1, <2>2 DEF FilesSoFar
<1>4. CASE Works("files") /\ FilesLists
  <2>1. /\ FilesSoFar /\ src[pos] \in DOMAIN EntryLen /\ result' = "working"
        /\ UNCHANGED <<src, size>> /\ pos' = pos + 1 /\ words' = Append(words, pos)
        /\ Used + EntryLen[src[pos]] < size /\ dst' = dst \o Plains(EntryLen[src[pos]])
    BY <1>4, <1>a DEF FilesLists, Works, given
  <2>2. Listed' = Listed \cup {pos}
    <3>1. \A k : k \in 1..(pos' - 1) <=> k \in 1..(pos - 1) \/ k = pos
      BY <1>0, <2>1
    <3> QED
      BY <2>1, <3>1 DEF Listed
  <2>3. ToSet(words') = ToSet(words) \cup {pos}
    <3>1. words \in Seq(Nat)
      BY <1>4 DEF Works, TextTypes
    <3>2. DOMAIN words' = 1..(Len(words) + 1) /\ words'[Len(words) + 1] = pos
          /\ DOMAIN words = 1..Len(words) /\ Len(words) \in Nat
          /\ \A k \in 1..Len(words) : words'[k] = words[k]
      BY <1>0, <2>1, <3>1
    <3>3. \A k : k \in 1..(Len(words) + 1) <=> k \in 1..Len(words) \/ k = Len(words) + 1
      BY <3>2
    <3>4. \A e : e \in ToSet(words') <=> e \in ToSet(words) \cup {pos}
      BY <3>2, <3>3, Zenon DEF ToSet
    <3> QED
      BY <3>4
  <2>4. Len(dst') < size'
    <3> DEFINE n == EntryLen[src[pos]]
    <3>1. n \in Nat
      BY <2>1, TextConstantsOK
    <3>2. Plains(n) \in Seq(Letters) /\ Len(Plains(n)) = n
      BY <3>1, SmallSeqs
    <3>0. dst' = dst \o Plains(n)
      BY <2>1
    <3> HIDE DEF n
    <3>3. Len(dst') = Len(dst) + n
      <4>1. Len(dst \o Plains(n)) = Len(dst) + Len(Plains(n))
        BY <1>0, <3>2, Concatenated, Zenon
      <4> QED
        BY <3>0, <3>2, <4>1
    <3> QED
      BY <2>1, <3>3 DEF n
  <2> QED
    BY <2>1, <2>2, <2>3, <2>4 DEF FilesSoFar
<1>5. CASE Works("files") /\ FilesEnds
  <2>1. /\ FilesSoFar /\ UNCHANGED <<src, size, pos, words, dst>> /\ result' = "done"
        /\ MoreText => src[pos] \in DOMAIN EntryLen /\ Used + EntryLen[src[pos]] >= size
    BY <1>5, <1>a DEF FilesEnds, Works, TextStays, Finishes, given
  <2>2. Listed' = Listed
    BY <2>1 DEF Listed
  <2> QED
    BY <2>1, <2>2 DEF FilesSoFar, MoreText
<1> QED
  BY <1>1, <1>2, <1>3, <1>4, <1>5, LoopSteps

\* telegram_send_message(): a text that fits is sent whole.
SendInv ==
  job = "send" => Used < size /\ (result = "done" /\ Len(src) < MsgMax => dst = src)

LEMMA SendKeeps ==
  ASSUME TextTypes, SendInv, [TextNext]_textVars
  PROVE  SendInv'
<1> SUFFICES ASSUME job' = "send" PROVE (Used < size /\ (result = "done" /\ Len(src) < MsgMax => dst = src))'
  BY DEF SendInv
<1>1. CASE UNCHANGED <<job, src, size, pos, dst, words, result>>
  BY <1>1 DEF SendInv
<1>2. CASE JobBegins
  <2>1. dst' = <<>> /\ result' # "done" /\ size' \in Nat \ {0}
    BY <1>2, Given DEF JobBegins
  <2> QED
    BY <2>1
<1>3. CASE job = "send" /\ UNCHANGED <<job, src, size>> /\ Sends
  <2>1. size = MsgMax /\ MsgMax \in Nat \ {0} /\ Len(src) \in Nat
    BY <1>3, TextConstantsOK DEF TextTypes
  <2>2. CASE Len(src) < MsgMax
    BY <1>3, <2>1, <2>2 DEF Sends
  <2>3. CASE ~(Len(src) < MsgMax)
    <3>1. PICK n \in 0..(MsgMax - 1) : dst' = [k \in 1..n |-> "junk"]
      BY <1>3, <2>3 DEF Sends
    <3>2. Len(dst') = n /\ n < MsgMax
      <4>1. n \in Nat
        BY <2>1
      <4> QED
        BY <2>1, <3>1, <4>1
    <3> QED
      BY <1>3, <2>1, <2>3, <3>2
  <2> QED
    BY <2>2, <2>3
<1> QED
  BY <1>1, <1>2, <1>3, LoopSteps

(* Texts without their spaces. *)

\* The text cut into characters, without the spaces.
Piece(c) == IF c = Space THEN <<>> ELSE <<c>>
Pieces(s, n) == [k \in 1..n |-> Piece(s[k])]

LEMMA PiecesType ==
  ASSUME NEW S, NEW s \in Seq(S), NEW n \in 0..Len(s)
  PROVE  /\ Pieces(s, n) \in Seq(Seq(S)) /\ Len(Pieces(s, n)) = n
         /\ \A k \in 1..n : Pieces(s, n)[k] = Piece(s[k])
         /\ FlattenSeq(Pieces(s, n)) \in Seq(S)
<1>1. \A k \in 1..n : Piece(s[k]) \in Seq(S)
  <2>1. \A k \in 1..n : s[k] \in S
    OBVIOUS
  <2> QED
    BY <2>1 DEF Piece
<1>2. Len(s) \in Nat /\ n \in Nat
  OBVIOUS
<1>3. /\ Pieces(s, n) \in Seq(Seq(S)) /\ Len(Pieces(s, n)) = n
      /\ \A k \in 1..n : Pieces(s, n)[k] = Piece(s[k])
  BY <1>1, <1>2 DEF Pieces
<1> QED
  BY <1>3, FlatType

LEMMA PiecesNext ==
  ASSUME NEW S, NEW s \in Seq(S), NEW n \in 0..(Len(s) - 1)
  PROVE  FlattenSeq(Pieces(s, n + 1)) = FlattenSeq(Pieces(s, n)) \o Piece(s[n + 1])
<1>1. n \in 0..Len(s) /\ n + 1 \in 0..Len(s) /\ n \in Nat /\ n + 1 \in 1..(n + 1)
      /\ \A i \in 1..n : i \in 1..(n + 1)
  OBVIOUS
<1>2. /\ Pieces(s, n) \in Seq(Seq(S)) /\ Len(Pieces(s, n)) = n
      /\ \A k \in 1..n : Pieces(s, n)[k] = Piece(s[k])
  BY <1>1, PiecesType
<1>3. /\ Pieces(s, n + 1) \in Seq(Seq(S)) /\ Len(Pieces(s, n + 1)) = n + 1
      /\ \A k \in 1..(n + 1) : Pieces(s, n + 1)[k] = Piece(s[k])
  BY <1>1, PiecesType
<1>4. \A i \in 1..Len(Pieces(s, n)) : Pieces(s, n + 1)[i] = Pieces(s, n)[i]
  BY <1>1, <1>2, <1>3
<1>5. Len(Pieces(s, n + 1)) = Len(Pieces(s, n)) + 1
  BY <1>2, <1>3
<1>6. FlattenSeq(Pieces(s, n + 1)) = FlattenSeq(Pieces(s, n)) \o Pieces(s, n + 1)[Len(Pieces(s, n)) + 1]
  BY <1>2, <1>3, <1>4, <1>5, FlatNext
<1> QED
  BY <1>1, <1>2, <1>3, <1>6

\* A run of spaces adds nothing.
LEMMA SpacesAdd ==
  ASSUME NEW S, NEW s \in Seq(S), NEW a \in 0..Len(s), NEW b \in a..Len(s),
         \A k \in (a + 1)..b : s[k] = Space
  PROVE  FlattenSeq(Pieces(s, b)) = FlattenSeq(Pieces(s, a))
<1> DEFINE T == {i \in 0..(b - a) : FlattenSeq(Pieces(s, a + i)) = FlattenSeq(Pieces(s, a))}
<1>1. a \in Nat /\ b \in Nat /\ b - a \in Nat /\ Len(s) \in Nat /\ a + (b - a) = b
  OBVIOUS
<1>2. 0 \in T
  <2>1. a + 0 = a /\ 0 \in 0..(b - a)
    BY <1>1
  <2> QED
    BY <2>1
<1>3. ASSUME NEW i \in 0..((b - a) - 1), i \in T PROVE i + 1 \in T
  <2>1. a + i \in 0..(Len(s) - 1) /\ (a + i) + 1 \in (a + 1)..b /\ a + (i + 1) = (a + i) + 1 /\ i + 1 \in 0..(b - a)
        /\ a + i \in 0..Len(s)
    BY <1>1
  <2>2. FlattenSeq(Pieces(s, (a + i) + 1)) = FlattenSeq(Pieces(s, a + i)) \o Piece(s[(a + i) + 1])
    BY <2>1, PiecesNext
  <2>3. Piece(s[(a + i) + 1]) = <<>>
    BY <2>1 DEF Piece
  <2>4. FlattenSeq(Pieces(s, a + i)) \in Seq(S)
    BY <2>1, PiecesType
  <2>5. \A u \in Seq(S) : u \o <<>> = u
    OBVIOUS
  <2>6. FlattenSeq(Pieces(s, a + (i + 1))) = FlattenSeq(Pieces(s, a + i))
    BY <2>1, <2>2, <2>3, <2>4, <2>5
  <2> QED
    BY <1>3, <2>1, <2>6
<1>4. b - a \in T
  <2> HIDE DEF T
  <2>1. 0..(b - a) \subseteq T
    BY <1>1, <1>2, <1>3, Induction
  <2> QED
    BY <1>1, <2>1
<1> QED
  BY <1>1, <1>4

\* One letter more at the end.
OneMore(u, v, c) == (u \o v) \o <<c>> = u \o Append(v, c)

LEMMA ConcatLetter ==
  ASSUME NEW S, NEW u \in Seq(S), NEW v \in Seq(S), NEW c \in S
  PROVE  OneMore(u, v, c)
<1>1. <<c>> \in Seq(S)
  OBVIOUS
<1>2. (u \o v) \o <<c>> = u \o (v \o <<c>>)
  BY <1>1, ConcatAssociative
<1>3. Append(v, c) = v \o <<c>>
  BY AppendIsConcat
<1> QED
  BY <1>2, <1>3 DEF OneMore

\* A run without spaces is added as it is.
LEMMA LettersAdd ==
  ASSUME NEW S, NEW s \in Seq(S), NEW a \in 0..Len(s), NEW b \in a..Len(s),
         \A k \in (a + 1)..b : s[k] # Space
  PROVE  FlattenSeq(Pieces(s, b)) = FlattenSeq(Pieces(s, a)) \o SubSeq(s, a + 1, b)
<1> DEFINE T == {i \in 0..(b - a) : FlattenSeq(Pieces(s, a + i)) =
                                  FlattenSeq(Pieces(s, a)) \o SubSeq(s, a + 1, a + i)}
<1>1. a \in Nat /\ b \in Nat /\ b - a \in Nat /\ Len(s) \in Nat /\ a + (b - a) = b
  OBVIOUS
<1>0. FlattenSeq(Pieces(s, a)) \in Seq(S)
  BY PiecesType
<1>2. 0 \in T
  <2>1. a + 0 = a /\ 0 \in 0..(b - a)
    BY <1>1
  <2>2. SubSeq(s, a + 1, a) = <<>>
    BY <1>1
  <2>3. \A u \in Seq(S) : u \o <<>> = u
    OBVIOUS
  <2> QED
    BY <1>0, <2>1, <2>2, <2>3
<1>3. ASSUME NEW i \in 0..((b - a) - 1), i \in T PROVE i + 1 \in T
  <2>1. a + i \in 0..(Len(s) - 1) /\ (a + i) + 1 \in (a + 1)..b /\ a + (i + 1) = (a + i) + 1 /\ i + 1 \in 0..(b - a)
    BY <1>1
  <2>2. FlattenSeq(Pieces(s, (a + i) + 1)) = FlattenSeq(Pieces(s, a + i)) \o Piece(s[(a + i) + 1])
    BY <2>1, PiecesNext
  <2>3. Piece(s[(a + i) + 1]) = <<s[(a + i) + 1]>>
    BY <2>1 DEF Piece
  <2>4. SubSeq(s, a + 1, a + i) \in Seq(S) /\ s[(a + i) + 1] \in S
    BY <1>1, <2>1
  <2>5. (FlattenSeq(Pieces(s, a)) \o SubSeq(s, a + 1, a + i)) \o <<s[(a + i) + 1]>>
          = FlattenSeq(Pieces(s, a)) \o Append(SubSeq(s, a + 1, a + i), s[(a + i) + 1])
    <3> DEFINE u == FlattenSeq(Pieces(s, a))
               v == SubSeq(s, a + 1, a + i)
               c == s[(a + i) + 1]
    <3>1. u \in Seq(S) /\ v \in Seq(S) /\ c \in S
      BY <1>0, <2>4
    <3> HIDE DEF u, v, c
    <3>2. OneMore(u, v, c)
      BY <3>1, ConcatLetter
    <3> QED
      BY <3>2 DEF u, v, c, OneMore
  <2>6. Append(SubSeq(s, a + 1, a + i), s[(a + i) + 1]) = SubSeq(s, a + 1, (a + i) + 1)
    BY <1>1, <2>1
  <2>7. FlattenSeq(Pieces(s, (a + i) + 1)) = FlattenSeq(Pieces(s, a)) \o SubSeq(s, a + 1, (a + i) + 1)
    BY <1>0, <1>3, <2>2, <2>3, <2>4, <2>5, <2>6
  <2> QED
    BY <2>1, <2>7
<1>4. b - a \in T
  <2> HIDE DEF T
  <2>1. 0..(b - a) \subseteq T
    BY <1>1, <1>2, <1>3, Induction
  <2> QED
    BY <1>1, <2>1
<1> QED
  BY <1>1, <1>4

\* A text without its spaces, over the same set.
LEMMA UnspacedPieces ==
  ASSUME NEW S, NEW s \in Seq(S)
  PROVE  Unspaced(s) = FlattenSeq(Pieces(s, Len(s))) /\ Unspaced(s) \in Seq(S)
<1>1. DOMAIN s = 1..Len(s) /\ Len(s) \in 0..Len(s)
  OBVIOUS
<1>2. Unspaced(s) = FlattenSeq(Pieces(s, Len(s)))
  BY <1>1 DEF Unspaced, Pieces, Piece
<1> QED
  BY <1>1, <1>2, PiecesType

\* A space added, and a word.
LEMMA UnspacedSpace ==
  ASSUME NEW S, Space \in S, NEW s \in Seq(S)
  PROVE  Unspaced(Append(s, Space)) = Unspaced(s)
<1> DEFINE u == Append(s, Space)
<1>1. u \in Seq(S) /\ Len(u) = Len(s) + 1 /\ Len(s) \in Nat /\ u[Len(s) + 1] = Space
      /\ \A k \in 1..Len(s) : u[k] = s[k]
  BY Appended
<1> HIDE DEF u
<1>2. Pieces(u, Len(s)) = Pieces(s, Len(s))
  BY <1>1 DEF Pieces
<1>3. FlattenSeq(Pieces(u, Len(u))) = FlattenSeq(Pieces(u, Len(s)))
  <2>1. Len(s) \in 0..Len(u) /\ Len(u) \in Len(s)..Len(u) /\ \A k \in (Len(s) + 1)..Len(u) : u[k] = Space
    BY <1>1
  <2> QED
    BY <1>1, <2>1, SpacesAdd
<1>4. Unspaced(u) = FlattenSeq(Pieces(u, Len(u))) /\ Unspaced(s) = FlattenSeq(Pieces(s, Len(s)))
  BY <1>1, UnspacedPieces
<1> QED
  BY <1>2, <1>3, <1>4 DEF u

LEMMA UnspacedWord ==
  ASSUME NEW S, NEW s \in Seq(S), NEW t \in Seq(S), Space \notin ToSet(t)
  PROVE  Unspaced(s \o t) = Unspaced(s) \o t
<1> DEFINE u == s \o t
<1>1. u \in Seq(S) /\ Len(u) = Len(s) + Len(t) /\ Len(s) \in Nat /\ Len(t) \in Nat
      /\ (\A k \in 1..Len(s) : u[k] = s[k]) /\ (\A k \in 1..Len(t) : u[Len(s) + k] = t[k])
  BY Concatenated
<1>2. \A k \in (Len(s) + 1)..Len(u) : u[k] # Space
  <2> SUFFICES ASSUME NEW k \in (Len(s) + 1)..Len(u) PROVE u[k] # Space
    OBVIOUS
  <2>1. k - Len(s) \in 1..Len(t) /\ Len(s) + (k - Len(s)) = k
    BY <1>1
  <2>2. u[k] = t[k - Len(s)]
    BY <1>1, <2>1
  <2>3. t[k - Len(s)] \in ToSet(t)
    BY <2>1 DEF ToSet
  <2> QED
    BY <2>2, <2>3
<1>3. SubSeq(u, Len(s) + 1, Len(u)) = t
  BY <1>1
<1> HIDE DEF u
<1>4. Pieces(u, Len(s)) = Pieces(s, Len(s))
  BY <1>1 DEF Pieces
<1>5. FlattenSeq(Pieces(u, Len(u))) = FlattenSeq(Pieces(u, Len(s))) \o SubSeq(u, Len(s) + 1, Len(u))
  <2>1. Len(s) \in 0..Len(u) /\ Len(u) \in Len(s)..Len(u)
    BY <1>1
  <2> QED
    BY <1>1, <1>2, <2>1, LettersAdd
<1>6. Unspaced(u) = FlattenSeq(Pieces(u, Len(u))) /\ Unspaced(s) = FlattenSeq(Pieces(s, Len(s)))
  BY <1>1, UnspacedPieces
<1> QED
  BY <1>3, <1>4, <1>5, <1>6 DEF u

\* The first of the sequences and the others.
LEMMA FlatFirst ==
  ASSUME NEW S, NEW ss \in Seq(Seq(S)), ss # <<>>
  PROVE  /\ Tail(ss) \in Seq(Seq(S)) /\ Len(Tail(ss)) = Len(ss) - 1
         /\ Len(FlattenSeq(ss)) = Len(ss[1]) + Len(FlattenSeq(Tail(ss)))
<1> DEFINE n == Len(ss) - 1
<1>1. n \in Nat /\ Len(ss) = n + 1 /\ Tail(ss) \in Seq(Seq(S)) /\ Len(Tail(ss)) = n
      /\ (\A k \in 1..n : Tail(ss)[k] = ss[k + 1]) /\ (\A k \in 1..(n + 1) : ss[k] \in Seq(S))
  <2>1. Len(ss) \in Nat /\ Len(ss) # 0
    OBVIOUS
  <2> QED
    BY <2>1
<1> HIDE DEF n
<1>2. PICK r \in [0..(n + 1) -> Seq(S)] : /\ r[0] = <<>> /\ \A i \in 1..(n + 1) : r[i] = r[i - 1] \o ss[i]
                                         /\ FlattenSeq(ss) = r[n + 1]
  <2>1. \E r \in [0..Len(ss) -> Seq(S)] : /\ r[0] = <<>> /\ \A i \in 1..Len(ss) : r[i] = r[i - 1] \o ss[i]
                                         /\ FlattenSeq(ss) = r[Len(ss)]
    BY FlatScan
  <2> QED
    BY <1>1, <2>1
<1>3. PICK u \in [0..n -> Seq(S)] : /\ u[0] = <<>> /\ \A i \in 1..n : u[i] = u[i - 1] \o Tail(ss)[i]
                                   /\ FlattenSeq(Tail(ss)) = u[n]
  <2> DEFINE v == Tail(ss)
  <2>1. v \in Seq(Seq(S)) /\ Len(v) = n
    BY <1>1
  <2> HIDE DEF v
  <2>2. \E u \in [0..n -> Seq(S)] : /\ u[0] = <<>> /\ \A i \in 1..n : u[i] = u[i - 1] \o v[i]
                                   /\ FlattenSeq(v) = u[n]
    BY <2>1, FlatScan
  <2> QED
    BY <2>2 DEF v
<1> DEFINE T == {i \in 0..n : Len(r[i + 1]) = Len(ss[1]) + Len(u[i])}
<1>4. 0 \in T
  <2>1. 0 \in 0..n /\ 1 \in 1..(n + 1) /\ 0 + 1 = 1 /\ 1 - 1 = 0
    BY <1>1
  <2>2. r[1] = r[0] \o ss[1]
    BY <1>2, <2>1
  <2>3. \A v \in Seq(S) : <<>> \o v = v
    OBVIOUS
  <2>4. r[1] = ss[1] /\ Len(u[0]) = 0 /\ Len(ss[1]) \in Nat
    BY <1>1, <1>2, <1>3, <2>1, <2>2, <2>3
  <2> QED
    BY <2>1, <2>4
<1>5. ASSUME NEW i \in 0..(n - 1), i \in T PROVE i + 1 \in T
  <2>1. /\ i + 1 \in 1..n /\ i + 1 \in 0..n /\ i \in 0..n /\ (i + 1) - 1 = i /\ (i + 1) + 1 \in 1..(n + 1)
        /\ ((i + 1) + 1) - 1 = i + 1 /\ i + 1 \in 0..(n + 1) /\ 1 \in 1..(n + 1)
    BY <1>1
  <2>2. r[(i + 1) + 1] = r[i + 1] \o ss[(i + 1) + 1] /\ u[i + 1] = u[i] \o Tail(ss)[i + 1]
        /\ Tail(ss)[i + 1] = ss[(i + 1) + 1] /\ ss[(i + 1) + 1] \in Seq(S)
    BY <1>1, <1>2, <1>3, <2>1
  <2>3. r[i + 1] \in Seq(S) /\ u[i] \in Seq(S) /\ ss[1] \in Seq(S)
    BY <1>1, <2>1
  <2> DEFINE w == ss[(i + 1) + 1]
  <2>4. Len(r[i + 1] \o w) = Len(r[i + 1]) + Len(w) /\ Len(u[i] \o w) = Len(u[i]) + Len(w)
    BY <2>2, <2>3, Concatenated
  <2>5. Len(r[(i + 1) + 1]) = Len(r[i + 1]) + Len(w) /\ Len(u[i + 1]) = Len(u[i]) + Len(w)
    BY <2>2, <2>4
  <2>6. Len(u[i]) \in Nat /\ Len(w) \in Nat /\ Len(ss[1]) \in Nat /\ Len(r[i + 1]) = Len(ss[1]) + Len(u[i])
    BY <1>5, <2>2, <2>3
  <2> HIDE DEF w
  <2> DEFINE a == Len(u[i])  b == Len(w)  c == Len(ss[1])
  <2>7. Len(r[(i + 1) + 1]) = Len(ss[1]) + Len(u[i + 1])
    <3>1. a \in Nat /\ b \in Nat /\ c \in Nat
      BY <2>6
    <3>2. Len(r[(i + 1) + 1]) = (c + a) + b /\ Len(u[i + 1]) = a + b
      BY <2>5, <2>6
    <3> HIDE DEF a, b, c
    <3>3. (c + a) + b = c + (a + b)
      BY <3>1
    <3> QED
      BY <3>2, <3>3 DEF c
  <2> QED
    BY <2>1, <2>7
<1>6. n \in T
  <2> HIDE DEF T
  <2>1. 0..n \subseteq T
    BY <1>1, <1>4, <1>5, Induction
  <2> QED
    BY <1>1, <2>1
<1> QED
  BY <1>1, <1>2, <1>3, <1>6

(* split_args() and the joining. *)

\* How much of the text is in the tokens found, and the tokens there are.
Gone == IF pos - 1 <= Len(src) THEN pos - 1 ELSE Len(src)
TokensGone == {k \in Tokens : k < pos}

\* The tokens found are those of the text gone through, which ends behind a
\* space or behind the text; they and their separators are not longer than it.
ArgsSoFar ==
  /\ Len(src) < size
  /\ pos <= Len(src) + 2
  /\ pos = 1 \/ pos - 1 > Len(src) \/ src[pos - 1] = Space
  /\ \A w \in DOMAIN words : words[w] # <<>> /\ Space \notin ToSet(words[w])
  /\ Len(words) <= MaxArgs
  /\ Len(words) = Cardinality(TokensGone)
  /\ FlattenSeq(words) = FlattenSeq(Pieces(src, Gone))
  /\ Len(FlattenSeq(words)) + Len(words) <= pos - 1

\* What the joined arguments come to.
ArgsWhole ==
  /\ TokenAt > Len(src) /\ words # <<>>
  /\ Unspaced(dst) = FlattenSeq(Tail(words))
  /\ Len(words) > 1 => Used = Len(FlattenSeq(Tail(words))) + Len(words) - 2

\* The invariant of the arguments: a text too long is refused at once.
ArgsInv ==
  job = "args" =>
    /\ Used < size
    /\ result # "too_long" => ArgsSoFar
    /\ result = "done" => ArgsWhole

\* There are finitely many tokens.
LEMMA TokensFew ==
  ASSUME src \in Seq(STRING)
  PROVE  Tokens \subseteq 1..Len(src) /\ IsFiniteSet(TokensGone)
<1>1. Tokens \subseteq 1..Len(src) /\ TokensGone \subseteq 1..Len(src) /\ 1 \in Int /\ Len(src) \in Int
  BY DEF Tokens, TokensGone
<1>2. IsFiniteSet(1..Len(src))
  BY <1>1, FS_Interval
<1> QED
  BY <1>1, <1>2, FS_Subset

\* The beginning of the split.
ArgsAtFirst == src \in Seq(STRING) /\ pos = 1 /\ words = <<>> /\ Len(src) < size

LEMMA ArgsBegin == ArgsAtFirst => ArgsSoFar
<1> SUFFICES ASSUME src \in Seq(STRING), pos = 1, words = <<>>, Len(src) < size
             PROVE  ArgsSoFar
  BY DEF ArgsAtFirst
<1>1. TokensGone = {}
  <2>1. \A k \in Tokens : k >= 1
    BY TokensFew
  <2>2. \A k \in Tokens : ~(k < pos)
    BY <2>1, TokensFew
  <2> QED
    BY <2>2 DEF TokensGone
<1>2. Gone = 0 /\ Len(src) \in Nat
  BY DEF Gone
<1>3. Pieces(src, 0) = <<>>
  BY DEF Pieces
<1>4. Cardinality(TokensGone) = 0
  BY <1>1, FS_EmptySet
<1>5. FlattenSeq(words) = FlattenSeq(Pieces(src, Gone)) /\ Len(FlattenSeq(words)) = 0 /\ Len(words) = 0
  BY <1>2, <1>3, FlatEmpty
<1>6. MaxArgs \in Nat
  BY TextConstantsOK
<1> QED
  BY <1>2, <1>4, <1>5, <1>6 DEF ArgsSoFar

\* One more token.
LEMMA ArgsMore ==
  ASSUME TextTypes, job = "args", ArgsSoFar, ArgsToken
  PROVE  ArgsSoFar'
<1> DEFINE a == TokenAt
           e == TokenEnd
           t == SubSeq(src, a, e - 1)
<1>0. pos \in Nat \ {0} /\ src \in Seq(STRING) /\ Len(src) \in Nat /\ size \in Nat \ {0} /\ words \in Seq(Seq(STRING))
      /\ Len(words) \in Nat /\ MaxArgs \in Nat
  BY TextConstantsOK DEF TextTypes, TextTypeOK
<1>1. /\ a <= Len(src) /\ Len(words) < MaxArgs /\ words' = Append(words, t) /\ pos' = e + 1
      /\ UNCHANGED <<src, size>>
  BY DEF ArgsToken, given
<1>2. /\ a \in Nat /\ e \in Nat /\ a >= pos /\ e > a /\ e <= Len(src) + 1 /\ src[a] # Space
      /\ \A k \in pos..Len(src) : k < a => src[k] = Space
      /\ e <= Len(src) => src[e] = Space
      /\ \A k \in a..Len(src) : k < e => src[k] # Space
  BY <1>0, <1>1, TokenBounds
<1> HIDE DEF a, e
<1>3. t \in Seq(STRING) /\ Len(t) = e - a /\ \A k \in 1..(e - a) : t[k] = src[a + k - 1]
  <2>1. \A s \in Seq(STRING), m \in Nat, n \in Nat :
          m >= 1 /\ m <= n /\ n <= Len(s) =>
            /\ SubSeq(s, m, n) \in Seq(STRING) /\ Len(SubSeq(s, m, n)) = n - m + 1
            /\ \A k \in 1..(n - m + 1) : SubSeq(s, m, n)[k] = s[m + k - 1]
    OBVIOUS
  <2>2. e - 1 \in Nat /\ a >= 1 /\ a <= e - 1 /\ e - 1 <= Len(src) /\ (e - 1) - a + 1 = e - a
    BY <1>0, <1>1, <1>2
  <2> QED
    BY <1>0, <1>2, <2>1, <2>2
<1>4. t # <<>> /\ Space \notin ToSet(t)
  <2>1. \A k \in 1..(e - a) : t[k] # Space
    <3> TAKE k \in 1..(e - a)
    <3>1. a + k - 1 \in a..Len(src) /\ a + k - 1 < e
      BY <1>0, <1>1, <1>2
    <3> QED
      BY <1>2, <1>3, <3>1
  <2>2. DOMAIN t = 1..(e - a)
    BY <1>3
  <2>3. Len(t) # 0
    BY <1>2, <1>3
  <2> HIDE DEF t
  <2> QED
    BY <2>1, <2>2, <2>3 DEF ToSet
<1> HIDE DEF t
<1>5. /\ words' \in Seq(Seq(STRING)) /\ Len(words') = Len(words) + 1 /\ words'[Len(words) + 1] = t
      /\ \A k \in 1..Len(words) : words'[k] = words[k]
  BY <1>0, <1>1, <1>3, Appended
<1>6. \A w \in DOMAIN words' : words'[w] # <<>> /\ Space \notin ToSet(words'[w])
  <2>1. DOMAIN words = 1..Len(words) /\ DOMAIN words' = 1..(Len(words) + 1)
        /\ \A k \in 1..(Len(words) + 1) : k \in 1..Len(words) \/ k = Len(words) + 1
    BY <1>0, <1>5
  <2> QED
    BY <1>4, <1>5, <2>1 DEF ArgsSoFar
<1>7. Cardinality(TokensGone') = Cardinality(TokensGone) + 1
  <2>1. Tokens' = Tokens
    BY <1>1 DEF Tokens
  <2>2. a \in Tokens
    <3>1. a = 1 \/ src[a - 1] = Space
      <4>1. CASE a = pos
        BY <1>0, <1>1, <4>1 DEF ArgsSoFar
      <4>2. CASE a # pos
        <5>1. a - 1 \in pos..Len(src) /\ a - 1 < a
          BY <1>0, <1>1, <1>2, <4>2
        <5> QED
          BY <1>2, <5>1
      <4> QED
        BY <4>1, <4>2
    <3>2. a \in DOMAIN src
      BY <1>0, <1>1, <1>2
    <3> QED
      BY <1>2, <3>1, <3>2 DEF Tokens
  <2>3. a \notin TokensGone
    BY <1>0, <1>2 DEF TokensGone
  <2>4. \A k \in Tokens : k < e + 1 <=> k < pos \/ k = a
    <3> SUFFICES ASSUME NEW k \in Tokens, k >= pos, k # a PROVE ~(k < e + 1)
      <4>1. \A k \in Tokens : k \in Nat
        BY <1>0, TokensFew
      <4> QED
        BY <1>0, <1>2, <4>1
    <3>1. k \in 1..Len(src) /\ src[k] # Space /\ (k = 1 \/ src[k - 1] = Space)
      BY <1>0, TokensFew DEF Tokens
    <3>2. ~(k < a)
      BY <1>0, <1>2, <3>1
    <3>3. CASE k > a /\ k < e
      <4>1. k - 1 \in a..Len(src) /\ k - 1 < e /\ k # 1
        BY <1>0, <1>2, <3>1, <3>3
      <4> QED
        BY <1>2, <3>1, <4>1
    <3>4. k # e
      BY <1>0, <1>2, <3>1
    <3> QED
      BY <1>0, <1>2, <3>1, <3>2, <3>3, <3>4
  <2>5. TokensGone' = TokensGone \cup {a}
    BY <1>1, <2>1, <2>2, <2>4 DEF TokensGone
  <2>6. IsFiniteSet(TokensGone)
    BY <1>0, TokensFew
  <2> QED
    BY <2>3, <2>5, <2>6, FS_AddElement
<1>8. FlattenSeq(words') = FlattenSeq(words) \o t
  <2>1. FlattenSeq(words') = FlattenSeq(words) \o words'[Len(words) + 1]
    BY <1>0, <1>5, FlatNext
  <2> QED
    BY <1>5, <2>1
<1>9. FlattenSeq(words') = FlattenSeq(Pieces(src, Gone))'
  <2>1. pos - 1 \in 0..Len(src) /\ Gone = pos - 1 /\ a - 1 \in (pos - 1)..Len(src) /\ a - 1 \in 0..Len(src)
        /\ e - 1 \in (a - 1)..Len(src) /\ e - 1 \in 0..Len(src) /\ (a - 1) + 1 = a /\ (e - 1) + 1 = e
        /\ (pos - 1) + 1 = pos
    BY <1>0, <1>1, <1>2 DEF Gone
  <2>2. \A k \in ((pos - 1) + 1)..(a - 1) : src[k] = Space
    <3> TAKE k \in ((pos - 1) + 1)..(a - 1)
    <3>1. k \in pos..Len(src) /\ k < a
      BY <1>0, <1>1, <1>2
    <3> QED
      BY <1>2, <3>1
  <2>3. \A k \in ((a - 1) + 1)..(e - 1) : src[k] # Space
    <3> TAKE k \in ((a - 1) + 1)..(e - 1)
    <3>1. k \in a..Len(src) /\ k < e
      BY <1>0, <1>1, <1>2
    <3> QED
      BY <1>2, <3>1
  <2>4. FlattenSeq(Pieces(src, a - 1)) = FlattenSeq(Pieces(src, pos - 1))
    BY <1>0, <2>1, <2>2, SpacesAdd
  <2>5. FlattenSeq(Pieces(src, e - 1)) = FlattenSeq(Pieces(src, a - 1)) \o t
    <3>1. FlattenSeq(Pieces(src, e - 1)) = FlattenSeq(Pieces(src, a - 1)) \o SubSeq(src, (a - 1) + 1, e - 1)
      BY <1>0, <2>1, <2>3, LettersAdd
    <3> QED
      BY <2>1, <3>1 DEF t
  <2>6. FlattenSeq(Pieces(src, Gone')) = FlattenSeq(Pieces(src, e - 1))
    <3>1. CASE e <= Len(src)
      <4>1. Gone' = e /\ e \in 0..Len(src) /\ e \in (e - 1)..Len(src)
        BY <1>0, <1>1, <1>2, <3>1 DEF Gone
      <4>2. \A k \in ((e - 1) + 1)..e : src[k] = Space
        BY <1>2, <3>1, <2>1
      <4> QED
        BY <1>0, <2>1, <4>1, <4>2, SpacesAdd
    <3>2. CASE ~(e <= Len(src))
      <4>1. Gone' = e - 1
        <5>0. Len(src) \in Int /\ e \in Int /\ e <= Len(src) + 1 /\ ~(e <= Len(src)) /\ pos' = e + 1
          BY <1>0, <1>1, <1>2, <3>2
        <5>1. e = Len(src) + 1 /\ pos' - 1 = e
          BY <5>0
        <5>2. ~(pos' - 1 <= Len(src)) /\ Len(src) = e - 1
          BY <1>0, <5>1
        <5> QED
          BY <1>1, <5>2 DEF Gone
      <4> QED
        BY <4>1
    <3> QED
      BY <3>1, <3>2
  <2>7. FlattenSeq(words) = FlattenSeq(Pieces(src, pos - 1))
    BY <2>1 DEF ArgsSoFar
  <2>8. (FlattenSeq(Pieces(src, Gone)))' = FlattenSeq(Pieces(src, Gone'))
    BY <1>1 DEF Pieces
  <2> QED
    BY <1>8, <2>4, <2>5, <2>6, <2>7, <2>8
<1>10. Len(FlattenSeq(words')) + Len(words') <= e
  <2>1. FlattenSeq(words) \in Seq(STRING)
    BY <1>0, FlatType
  <2>2. Len(FlattenSeq(words) \o t) = Len(FlattenSeq(words)) + Len(t) /\ Len(FlattenSeq(words)) \in Nat
    BY <1>3, <2>1, Concatenated
  <2>3. Len(FlattenSeq(words)) + Len(words) <= pos - 1
    BY DEF ArgsSoFar
  <2> DEFINE f == Len(FlattenSeq(words))
  <2>4. Len(FlattenSeq(words')) = f + (e - a) /\ f \in Nat /\ f + Len(words) <= pos - 1
    BY <1>3, <1>8, <2>2, <2>3
  <2> HIDE DEF f
  <2> QED
    BY <1>0, <1>2, <1>5, <2>4
<1>11. Len(src') < size' /\ pos' <= Len(src') + 2 /\ (pos' - 1 > Len(src') \/ src'[pos' - 1] = Space)
  <2>1. pos' - 1 = e /\ pos' = e + 1
    BY <1>1, <1>2
  <2>2. Len(src') < size' /\ src' = src /\ Len(src) \in Int /\ e \in Int
    <3>1. src' = src /\ size' = size
      BY <1>1
    <3>2. Len(src) < size
      BY DEF ArgsSoFar
    <3> QED
      BY <1>0, <1>2, <3>1, <3>2
  <2>3. e <= Len(src) + 1 /\ (e > Len(src) \/ src[e] = Space)
    BY <1>0, <1>2
  <2>4. pos' <= Len(src) + 2
    BY <2>1, <2>2, <2>3
  <2> QED
    BY <2>1, <2>2, <2>3, <2>4
<1>12. Len(words') <= MaxArgs /\ Len(words') = Cardinality(TokensGone')
  BY <1>0, <1>1, <1>5, <1>7 DEF ArgsSoFar
<1>13. Len(FlattenSeq(words')) + Len(words') <= pos' - 1
  BY <1>1, <1>2, <1>10
<1> QED
  BY <1>6, <1>9, <1>11, <1>12, <1>13 DEF ArgsSoFar

\* Joining an argument there is room for.
LEMMA JoinOne ==
  ASSUME size \in Nat \ {0}, NEW b \in Seq(Letters), NEW w \in Nat, words[w] \in Seq(STRING),
         Space \notin ToSet(words[w]),
         NEW gap \in {0, 1}, gap = 1 <=> w > 2,
         Len(b) + Len(words[w]) + gap < size
  PROVE  /\ Joined(b, w) \in Seq(Letters)
         /\ Unspaced(Joined(b, w)) = Unspaced(b) \o words[w]
         /\ Len(Joined(b, w)) = Len(b) + Len(words[w]) + gap
<1> DEFINE spaced == IF w > 2 /\ Len(b) < size - 1 THEN Append(b, Space) ELSE b
           rem == size - Len(spaced) - 1
           t == words[w]
           m == Min({Len(t), rem})
<1>1. Joined(b, w) = spaced \o SubSeq(t, 1, m)
  BY DEF Joined
<1>2. Len(b) \in Nat /\ t \in Seq(Letters) /\ Len(t) \in Nat /\ Space \notin ToSet(t) /\ Space \in Letters
      /\ Len(b) + Len(t) + gap < size
  <2>1. STRING \subseteq Letters /\ Space \in Letters
    BY DEF Letters
  <2>2. t \in Seq(STRING) /\ Space \notin ToSet(t) /\ Len(b) + Len(t) + gap < size
    OBVIOUS
  <2> HIDE DEF t
  <2>3. t \in Seq(Letters)
    BY <2>1, <2>2, Wider, Zenon
  <2>4. Len(t) \in Nat
    BY <2>2
  <2>5. Len(b) \in Nat
    OBVIOUS
  <2> QED
    BY <2>1, <2>2, <2>3, <2>4, <2>5
<1> HIDE DEF t
<1>3. spaced \in Seq(Letters) /\ Len(spaced) = Len(b) + gap /\ Unspaced(spaced) = Unspaced(b)
  <2>1. CASE w > 2
    <3>1. gap = 1 /\ Len(b) < size - 1
      BY <1>2, <2>1
    <3>2. spaced = Append(b, Space)
      BY <2>1, <3>1
    <3>3. Append(b, Space) \in Seq(Letters) /\ Len(Append(b, Space)) = Len(b) + 1
      BY <1>2, Appended
    <3>4. Unspaced(Append(b, Space)) = Unspaced(b)
      BY <1>2, UnspacedSpace
    <3> QED
      BY <3>1, <3>2, <3>3, <3>4
  <2>2. CASE ~(w > 2)
    <3>1. spaced = b /\ gap = 0
      BY <2>2
    <3> QED
      BY <1>2, <3>1
  <2> QED
    BY <2>1, <2>2
<1> HIDE DEF spaced
<1>4. m = Len(t)
  <2>1. {Len(t), rem} \subseteq Nat /\ {Len(t), rem} # {} /\ Len(t) <= rem
    BY <1>2, <1>3
  <2>2. Min({Len(t), rem}) \in {Len(t), rem} /\ \A k \in {Len(t), rem} : Min({Len(t), rem}) <= k
    BY <2>1, MinOfSome
  <2> QED
    BY <2>1, <2>2
<1>5. SubSeq(t, 1, m) = t
  <2> HIDE DEF m
  <2> QED
    BY <1>2, <1>4
<1>6. Joined(b, w) = spaced \o t
  BY <1>1, <1>5
<1>7. spaced \o t \in Seq(Letters) /\ Len(spaced \o t) = Len(spaced) + Len(t)
  <2>1. spaced \in Seq(Letters) /\ t \in Seq(Letters)
    BY <1>2, <1>3
  <2> HIDE DEF t
  <2> QED
    BY <2>1, Concatenated
<1>8. Unspaced(spaced \o t) = Unspaced(spaced) \o t
  BY <1>2, <1>3, UnspacedWord
<1>9. Len(Joined(b, w)) = Len(b) + Len(t) + gap
  <2>1. Len(Joined(b, w)) = (Len(b) + gap) + Len(t)
    BY <1>3, <1>6, <1>7
  <2> QED
    BY <1>2, <2>1
<1> QED
  BY <1>3, <1>6, <1>7, <1>8, <1>9 DEF t

\* None of the arguments is cut.
LEMMA ArgsJoins ==
  ASSUME TextTypes, job = "args", ArgsSoFar, words # <<>>,
         NEW joined, joined = FoldLeft(Joined, <<>>, [w \in 1..(Len(words) - 1) |-> w + 1])
  PROVE  /\ Unspaced(joined) = FlattenSeq(Tail(words))
         /\ Len(joined) < size
         /\ Len(words) > 1 => Len(joined) = Len(FlattenSeq(Tail(words))) + Len(words) - 2
<1> DEFINE n == Len(words) - 1
           tail == Tail(words)
<1>0. size \in Nat \ {0} /\ Len(src) \in Nat /\ words \in Seq(Seq(STRING)) /\ pos \in Nat /\ STRING \subseteq Letters
  BY DEF TextTypes, TextTypeOK, Letters
<1>1. n \in Nat /\ Len(words) = n + 1 /\ tail \in Seq(Seq(STRING)) /\ Len(tail) = n
      /\ (\A k \in 1..n : tail[k] = words[k + 1]) /\ (\A k \in 1..(n + 1) : words[k] \in Seq(STRING))
      /\ DOMAIN words = 1..(n + 1)
  <2>1. Len(words) \in Nat /\ Len(words) # 0
    BY <1>0
  <2> QED
    BY <1>0, <2>1
<1>2. PICK r \in [0..n -> InBuffer] :
        r[0] = <<>> /\ (\A i \in 1..n : r[i] = Joined(r[i - 1], i + 1)) /\ joined = r[n]
  BY <1>0, JoinScan
<1>3. PICK t \in [0..n -> Seq(STRING)] :
        t[0] = <<>> /\ (\A i \in 1..n : t[i] = t[i - 1] \o tail[i]) /\ FlattenSeq(tail) = t[n]
  <2> HIDE DEF tail, n
  <2>1. \E t \in [0..Len(tail) -> Seq(STRING)] :
          t[0] = <<>> /\ (\A i \in 1..Len(tail) : t[i] = t[i - 1] \o tail[i]) /\ FlattenSeq(tail) = t[Len(tail)]
    BY <1>1, FlatScan
  <2> QED
    BY <1>1, <2>1
<1>4. Len(t[n]) + n <= Len(src) - 1 /\ Len(t[n]) \in Nat
  <2>1. Len(FlattenSeq(words)) = Len(words[1]) + Len(FlattenSeq(tail))
    BY <1>0, FlatFirst
  <2>2. Len(words[1]) \in Nat /\ Len(words[1]) >= 1
    <3>1. 1 \in DOMAIN words /\ words[1] \in Seq(STRING)
      BY <1>1
    <3>2. words[1] # <<>>
      BY <3>1 DEF ArgsSoFar
    <3> QED
      BY <3>1, <3>2
  <2>3. Len(FlattenSeq(words)) + (n + 1) <= Len(src) + 1
    <3>1. Len(FlattenSeq(words)) + Len(words) <= pos - 1 /\ pos <= Len(src) + 2
      BY DEF ArgsSoFar
    <3>2. FlattenSeq(words) \in Seq(STRING)
      BY <1>0, FlatType
    <3>3. Len(FlattenSeq(words)) \in Nat /\ Len(words) = n + 1
      BY <1>1, <3>2
    <3> HIDE DEF n
    <3> QED
      BY <1>0, <1>1, <3>1, <3>3
  <2>4. FlattenSeq(tail) = t[n] /\ t[n] \in Seq(STRING)
    <3> HIDE DEF n, tail
    <3> QED
      BY <1>1, <1>3
  <2>5. Len(t[n]) \in Nat
    <3> HIDE DEF n
    <3> QED
      BY <2>4
  <2> HIDE DEF n, tail
  <2> DEFINE f == Len(t[n])  g == Len(words[1])
  <2>6. Len(FlattenSeq(words)) = g + f /\ f \in Nat /\ g \in Nat /\ g >= 1
    BY <2>1, <2>2, <2>4, <2>5
  <2> HIDE DEF f, g
  <2>7. f + n <= Len(src) - 1
    BY <1>0, <1>1, <2>3, <2>6
  <2> QED
    BY <2>5, <2>7 DEF f
<1>5. Len(src) < size
  BY DEF ArgsSoFar
<1>6. \A i \in 1..n : tail[i] \in Seq(STRING) /\ Space \notin ToSet(tail[i]) /\ words[i + 1] = tail[i]
  <2> TAKE i \in 1..n
  <2>1. i + 1 \in 1..(n + 1)
    BY <1>1
  <2> HIDE DEF n, tail
  <2> QED
    BY <1>1, <2>1 DEF ArgsSoFar
<1> HIDE DEF n, tail
<1>7. \A i \in 1..n : /\ t[i] = t[i - 1] \o tail[i] /\ t[i - 1] \in Seq(STRING) /\ i - 1 \in 0..n
                      /\ Len(t[i]) = Len(t[i - 1]) + Len(tail[i])
                      /\ Len(t[i - 1]) \in Nat /\ Len(tail[i]) \in Nat
  <2> TAKE i \in 1..n
  <2>1. i - 1 \in 0..n
    BY <1>1
  <2>2. t[i - 1] \in Seq(STRING) /\ t[i] = t[i - 1] \o tail[i] /\ tail[i] \in Seq(STRING)
    BY <1>3, <1>6, <2>1
  <2>3. Len(t[i - 1] \o tail[i]) = Len(t[i - 1]) + Len(tail[i]) /\ Len(t[i - 1]) \in Nat /\ Len(tail[i]) \in Nat
    BY <2>2, Concatenated
  <2> QED
    BY <2>1, <2>2, <2>3
<1>8. \A i \in 0..n : Len(t[i]) <= Len(t[n])
  <2> DEFINE T == {j \in 0..n : \A i \in 0..j : Len(t[i]) <= Len(t[j])}
  <2>1. 0 \in T
    <3>1. 0 \in 0..n /\ \A i \in 0..0 : i = 0
      BY <1>1
    <3>2. Len(t[0]) = 0
      BY <1>3
    <3> QED
      BY <3>1, <3>2
  <2>2. ASSUME NEW j \in 0..(n - 1), j \in T PROVE j + 1 \in T
    <3>1. j + 1 \in 1..n /\ j + 1 \in 0..n /\ (j + 1) - 1 = j /\ \A i \in 0..(j + 1) : i \in 0..j \/ i = j + 1
      BY <1>1
    <3>2. Len(t[j + 1]) = Len(t[j]) + Len(tail[j + 1]) /\ Len(t[j]) \in Nat /\ Len(tail[j + 1]) \in Nat
      BY <1>7, <3>1
    <3>3. \A i \in 0..j : Len(t[i]) \in Nat
      <4>1. \A i \in 0..j : t[i] \in Seq(STRING)
        BY <1>1
      <4> QED
        BY <4>1
    <3>5. Len(t[j + 1]) \in Nat /\ Len(t[j]) <= Len(t[j + 1])
      <4> DEFINE x == Len(t[j])  y == Len(tail[j + 1])  z == Len(t[j + 1])
      <4>1. z = x + y /\ x \in Nat /\ y \in Nat
        BY <3>2
      <4> HIDE DEF x, y, z
      <4>2. z \in Nat /\ x <= z
        BY <4>1
      <4> QED
        BY <4>2 DEF x, z
    <3>4. \A i \in 0..(j + 1) : Len(t[i]) <= Len(t[j + 1])
      <4> TAKE i \in 0..(j + 1)
      <4>1. CASE i = j + 1
        <5>1. t[i] = t[j + 1]
          BY <4>1
        <5>2. \A x \in Nat : x <= x
          OBVIOUS
        <5> QED
          BY <3>5, <5>1, <5>2
      <4>2. CASE i \in 0..j
        <5>0. \A x, y, z \in Nat : x <= y /\ y <= z => x <= z
          OBVIOUS
        <5>1. Len(t[i]) <= Len(t[j]) /\ Len(t[i]) \in Nat /\ Len(t[j]) \in Nat
          BY <2>2, <3>2, <3>3, <4>2
        <5> QED
          BY <3>5, <5>0, <5>1
      <4> QED
        BY <3>1, <4>1, <4>2
    <3> QED
      BY <3>1, <3>4
  <2>3. n \in T
    <3> HIDE DEF T
    <3>1. 0..n \subseteq T
      BY <1>1, <2>1, <2>2, Induction
    <3> QED
      BY <1>1, <3>1
  <2> QED
    BY <2>3
<1> DEFINE Good(i) == /\ r[i] \in Seq(Letters) /\ Unspaced(r[i]) = t[i]
                      /\ Len(r[i]) = Len(t[i]) + (IF i = 0 THEN 0 ELSE i - 1)
           T == {i \in 0..n : Good(i)}
<1>9. 0 \in T
  <2>1. Unspaced(<<>>) = <<>>
    <3>1. [k \in DOMAIN <<>> |-> IF <<>>[k] = Space THEN <<>> ELSE <<(<<>>)[k]>>] = <<>>
      OBVIOUS
    <3> QED
      BY <3>1, FlatEmpty DEF Unspaced
  <2>2. r[0] = <<>> /\ t[0] = <<>> /\ <<>> \in Seq(Letters) /\ Len(<<>>) = 0 /\ 0 \in 0..n
    BY <1>1, <1>2, <1>3
  <2> QED
    BY <2>1, <2>2
<1>10. ASSUME NEW i \in 0..(n - 1), i \in T PROVE i + 1 \in T
  <2>1. i + 1 \in 1..n /\ i + 1 \in 0..n /\ (i + 1) - 1 = i /\ (i + 1) + 1 \in Nat /\ i \in Nat
        /\ ((i + 1) + 1 > 2 <=> i > 0) /\ i + 1 <= n
    BY <1>1
  <2> DEFINE w == tail[i + 1]
             gap == IF i > 0 THEN 1 ELSE 0
  <2>2. /\ r[i + 1] = Joined(r[i], (i + 1) + 1) /\ words[(i + 1) + 1] = w /\ w \in Seq(STRING)
        /\ Space \notin ToSet(w) /\ t[i + 1] = t[i] \o w /\ Len(t[i + 1]) = Len(t[i]) + Len(w)
        /\ Len(t[i]) \in Nat /\ Len(w) \in Nat
    BY <1>2, <1>6, <1>7, <2>1
  <2>3. Good(i)
    BY <1>10
  <2>4. Len(t[i + 1]) <= Len(t[n])
    BY <1>8, <2>1
  <2> HIDE DEF w
  <2>5. gap \in {0, 1} /\ (gap = 1 <=> (i + 1) + 1 > 2) /\ gap = (IF i > 0 THEN 1 ELSE 0)
    BY <2>1
  <2> HIDE DEF gap
  <2> DEFINE a == Len(t[i])  b == Len(w)  c == Len(t[n])
  <2>6. /\ Len(r[i]) = a + (IF i = 0 THEN 0 ELSE i - 1) /\ Len(t[i + 1]) = a + b
        /\ a + b <= c /\ c + n <= Len(src) - 1 /\ a \in Nat /\ b \in Nat /\ c \in Nat
    BY <1>4, <2>2, <2>3, <2>4
  <2> HIDE DEF a, b, c
  <2>7. Len(r[i]) + b + gap = (a + b) + i /\ Len(r[i]) + b + gap < size
    <3>1. CASE i = 0
      <4>1. gap = 0 /\ Len(r[i]) = a
        BY <2>1, <2>5, <2>6, <3>1
      <4> HIDE DEF gap
      <4>2. a + b + 0 = (a + b) + i /\ a + b < size
        BY <1>0, <1>1, <1>5, <2>1, <2>6, <3>1
      <4> QED
        BY <4>1, <4>2, <2>6
    <3>2. CASE i # 0
      <4>1. gap = 1 /\ Len(r[i]) = a + (i - 1)
        BY <2>1, <2>5, <2>6, <3>2
      <4>2. (a + (i - 1)) + b + 1 = (a + b) + i /\ (a + b) + i < size
        BY <1>0, <1>1, <1>5, <2>1, <2>6, <3>2
      <4> QED
        BY <4>1, <4>2
    <3> QED
      BY <3>1, <3>2
  <2>8. /\ r[i + 1] \in Seq(Letters) /\ Unspaced(r[i + 1]) = Unspaced(r[i]) \o w
        /\ Len(r[i + 1]) = Len(r[i]) + Len(w) + gap
    <3>1. r[i] \in Seq(Letters)
      BY <2>3
    <3>2. Len(r[i]) + Len(w) + gap < size
      BY <2>7 DEF b
    <3> QED
      <4> DEFINE k == (i + 1) + 1
      <4>1. k \in Nat /\ words[k] = w /\ (gap = 1 <=> k > 2) /\ r[i + 1] = Joined(r[i], k)
        BY <2>1, <2>2, <2>5
      <4> HIDE DEF k
      <4>2. words[k] \in Seq(STRING) /\ Space \notin ToSet(words[k]) /\ Len(r[i]) + Len(words[k]) + gap < size
        BY <2>2, <3>2, <4>1
      <4>3. /\ Joined(r[i], k) \in Seq(Letters) /\ Unspaced(Joined(r[i], k)) = Unspaced(r[i]) \o words[k]
            /\ Len(Joined(r[i], k)) = Len(r[i]) + Len(words[k]) + gap
        BY <1>0, <2>5, <3>1, <4>1, <4>2, JoinOne
      <4> QED
        BY <4>1, <4>3
  <2>9. Unspaced(r[i + 1]) = t[i + 1]
    BY <2>2, <2>3, <2>8
  <2>10. Len(r[i + 1]) = Len(t[i + 1]) + (IF i + 1 = 0 THEN 0 ELSE (i + 1) - 1)
    <3>1. Len(r[i + 1]) = (a + b) + i
      BY <2>7, <2>8 DEF b
    <3> QED
      BY <2>1, <2>6, <3>1
  <2> QED
    BY <2>1, <2>8, <2>9, <2>10
<1>11. n \in T
  <2> HIDE DEF T
  <2>1. 0..n \subseteq T
    BY <1>1, <1>9, <1>10, Induction
  <2> QED
    BY <1>1, <2>1
<1>12. Unspaced(joined) = FlattenSeq(tail) /\ Len(joined) = Len(t[n]) + (IF n = 0 THEN 0 ELSE n - 1)
  BY <1>2, <1>3, <1>11
<1>13. Len(joined) < size
  <2> DEFINE f == Len(t[n])
  <2>1. f \in Nat /\ f + n <= Len(src) - 1 /\ Len(joined) = f + (IF n = 0 THEN 0 ELSE n - 1)
    BY <1>4, <1>12
  <2> HIDE DEF f
  <2> QED
    BY <1>0, <1>1, <1>5, <2>1
<1>14. Len(words) > 1 => Len(joined) = Len(FlattenSeq(tail)) + Len(words) - 2
  <2> DEFINE f == Len(t[n])
  <2>1. f \in Nat /\ Len(FlattenSeq(tail)) = f /\ Len(joined) = f + (IF n = 0 THEN 0 ELSE n - 1)
    BY <1>3, <1>4, <1>12
  <2> HIDE DEF f
  <2> SUFFICES ASSUME Len(words) > 1 PROVE Len(joined) = f + Len(words) - 2
    BY <2>1
  <2>0. n # 0
    BY <1>1
  <2>2. n # 0 /\ Len(joined) = f + (n - 1)
    BY <2>0, <2>1
  <2> QED
    BY <1>1, <2>1, <2>2
<1> QED
  BY <1>12, <1>13, <1>14 DEF tail

\* The invariant of the arguments is kept.
LEMMA ArgsKeeps ==
  ASSUME TextTypes, ArgsInv, [TextNext]_textVars
  PROVE  ArgsInv'
<1> SUFFICES ASSUME job' = "args"
             PROVE /\ Len(dst') < size'
                   /\ result' # "too_long" => ArgsSoFar'
                   /\ result' = "done" => ArgsWhole'
  BY DEF ArgsInv
<1>0. pos \in Nat \ {0} /\ src \in Seq(STRING) /\ Len(src) \in Nat /\ size \in Nat \ {0}
      /\ (job = "args" => words \in Seq(Seq(STRING)) /\ Len(words) \in Nat)
  BY DEF TextTypes, TextTypeOK
<1>1. ASSUME UNCHANGED <<src, size, pos, words>> PROVE ArgsSoFar' = ArgsSoFar
  <2>1. TokensGone' = TokensGone /\ Gone' = Gone /\ (\A n : Pieces(src, n)' = Pieces(src, n))
    BY <1>1 DEF TokensGone, Tokens, Gone, Pieces
  <2>2. FlattenSeq(Pieces(src, Gone))' = FlattenSeq(Pieces(src, Gone))
    BY <1>1, <2>1 DEF Gone, Pieces
  <2> QED
    BY <1>1, <2>1, <2>2 DEF ArgsSoFar
<1>2. CASE UNCHANGED <<job, src, size, pos, dst, words, result>>
  <2>1. ArgsWhole' = ArgsWhole
    BY <1>2 DEF ArgsWhole, TokenAt, Unspaced
  <2> QED
    BY <1>1, <1>2, <2>1 DEF ArgsInv
<1>3. CASE JobBegins
  <2>1. /\ dst' = <<>> /\ result' \in {"working", "too_long"} /\ size' \in Nat \ {0} /\ pos' = 1 /\ words' = <<>>
        /\ src' \in Seq(STRING) /\ (result' = "working" => ~(Len(src') >= size'))
    BY <1>3, Given DEF JobBegins
  <2>2. ArgsAtFirst' => ArgsSoFar'
    BY ArgsBegin, PTL
  <2>3. Len(src') \in Nat /\ Len(<<>>) = 0
    BY <2>1
  <2>4. Len(dst') < size' /\ result' # "done" /\ (result' = "working" => Len(src') < size')
    BY <2>1, <2>3
  <2> QED
    BY <2>1, <2>2, <2>4 DEF ArgsAtFirst
<1>4. CASE job = "args" /\ Works(job) /\ UNCHANGED <<job, src, size>> /\ ArgsToken
  <2>1. ArgsSoFar /\ UNCHANGED <<size, dst>> /\ result' = "working" /\ Len(dst) < size
    BY <1>4 DEF ArgsInv, Works, ArgsToken
  <2>2. ArgsSoFar'
    BY <1>4, <2>1, ArgsMore
  <2> QED
    BY <2>1, <2>2
<1>5. CASE job = "args" /\ Works(job) /\ UNCHANGED <<job, src, size>> /\ ArgsRefused
  <2>1. ArgsSoFar /\ UNCHANGED <<src, size, pos, words, dst>> /\ result' \in {"empty", "too_many"} /\ Len(dst) < size
    BY <1>5 DEF ArgsInv, Works, ArgsRefused, TextStays, Finishes
  <2> QED
    BY <1>1, <2>1
<1>6. CASE job = "args" /\ Works(job) /\ UNCHANGED <<job, src, size>> /\ ArgsJoined
  <2>1. /\ ArgsSoFar /\ UNCHANGED <<src, size, pos, words>> /\ result' = "done" /\ words # <<>> /\ TokenAt > Len(src)
        /\ dst' = FoldLeft(Joined, <<>>, [w \in 1..(Len(words) - 1) |-> w + 1])
    BY <1>6 DEF ArgsInv, Works, ArgsJoined, TextStays, Finishes
  <2>2. /\ Unspaced(dst') = FlattenSeq(Tail(words)) /\ Len(dst') < size
        /\ Len(words) > 1 => Len(dst') = Len(FlattenSeq(Tail(words))) + Len(words) - 2
    BY <1>6, <2>1, ArgsJoins
  <2>3. TokenAt' = TokenAt
    BY <2>1 DEF TokenAt
  <2>4. ArgsWhole'
    <3>1. Unspaced(dst)' = Unspaced(dst')
      BY DEF Unspaced
    <3> QED
      BY <2>1, <2>2, <2>3, <3>1 DEF ArgsWhole
  <2> QED
    BY <1>1, <2>1, <2>2, <2>4
<1> QED
  BY <1>2, <1>3, <1>4, <1>5, <1>6, LoopSteps

\* What the handler is given, once the text has no token left.
LEMMA ArgsRight ==
  ASSUME TextTypes, ArgsInv, Done("args")
  PROVE  /\ Len(words) = Cardinality(Tokens) /\ Len(words) \in 1..MaxArgs
         /\ \A w \in DOMAIN words : words[w] # <<>> /\ Space \notin ToSet(words[w])
         /\ FlattenSeq(words) = Unspaced(src)
         /\ Unspaced(dst) = FlattenSeq(Tail(words))
         /\ Len(words) > 1 => Used = Len(FlattenSeq(Tail(words))) + Len(words) - 2
<1>0. pos \in Nat \ {0} /\ src \in Seq(STRING) /\ Len(src) \in Nat /\ words \in Seq(Seq(STRING)) /\ Len(words) \in Nat
      /\ MaxArgs \in Nat
  BY TextConstantsOK DEF TextTypes, TextTypeOK, Done
<1>1. ArgsSoFar /\ ArgsWhole
  BY DEF ArgsInv, Done
<1>2. \A k \in pos..Len(src) : src[k] = Space
  <2>1. TokenAt \in Nat /\ TokenAt > Len(src) /\ \A k \in pos..Len(src) : k < TokenAt => src[k] = Space
    BY <1>0, <1>1, TokenBounds DEF ArgsWhole
  <2>2. \A k \in pos..Len(src) : k < TokenAt
    BY <1>0, <2>1
  <2> QED
    BY <2>1, <2>2
<1>3. TokensGone = Tokens
  <2>1. \A k \in Tokens : k \in 1..Len(src) /\ src[k] # Space
    BY <1>0, TokensFew DEF Tokens
  <2>2. \A k \in Tokens : k < pos
    BY <1>0, <1>2, <2>1
  <2> QED
    BY <2>2 DEF TokensGone
<1>4. FlattenSeq(Pieces(src, Len(src))) = FlattenSeq(Pieces(src, Gone))
  <2>1. Gone \in 0..Len(src) /\ Len(src) \in Gone..Len(src) /\ Gone >= (IF pos - 1 <= Len(src) THEN pos - 1 ELSE Len(src))
    BY <1>0 DEF Gone
  <2>2. \A k \in (Gone + 1)..Len(src) : src[k] = Space
    <3> TAKE k \in (Gone + 1)..Len(src)
    <3>1. k \in pos..Len(src)
      BY <1>0 DEF Gone
    <3> QED
      BY <1>2, <3>1
  <2> QED
    BY <1>0, <2>1, <2>2, SpacesAdd
<1>5. FlattenSeq(words) = Unspaced(src)
  BY <1>0, <1>1, <1>4, UnspacedPieces DEF ArgsSoFar
<1>6. Len(words) \in 1..MaxArgs
  <2>1. Len(words) # 0 /\ Len(words) <= MaxArgs
    BY <1>0, <1>1 DEF ArgsWhole, ArgsSoFar
  <2> QED
    BY <1>0, <2>1
<1> QED
  BY <1>1, <1>3, <1>5, <1>6 DEF ArgsSoFar, ArgsWhole

\* All but the code block: what the invariants say at the end of a call.
LEMMA OthersHold ==
  ASSUME TextTypes, NameInv, EscapeInv, ArgsInv, FilesInv, SendInv
  PROVE  OthersRight
<1>1. Done("name") => dst # <<>> /\ Head(dst) # Dot /\ {Slash, Space} \cap ToSet(dst) = {}
  BY NameRight
<1>2. Done("escape") =>
        /\ dst = FlattenSeq([k \in 1..(pos - 1) |-> Escape(src[k])])
        /\ \A k \in 1..Used : dst[k] \in {Dot, Under} => k > 1 /\ dst[k - 1] = Back
        /\ Used > 0 => dst[Used] = src[pos - 1]
        /\ pos > Len(src) \/ Used + 2 >= size
  BY DEF EscapeInv, EscapeSoFar, EscapeMarked, Escaped, Done
<1>3. Done("files") =>
        /\ ToSet(words) = {k \in 1..(pos - 1) : src[k] \in DOMAIN EntryLen}
        /\ pos <= Len(src) => Used + EntryLen[src[pos]] >= size
  BY DEF FilesInv, FilesSoFar, Listed, Done
<1>4. Done("send") /\ Len(src) < MsgMax => dst = src
  BY DEF SendInv, Done
<1> QED
  BY <1>1, <1>2, <1>3, <1>4, ArgsRight DEF OthersRight

(* safe_code_block(). *)

\* Three back ticks of the text from q on.
FenceAt(q) == 1 <= q /\ q + 2 <= Len(src) /\ src[q] = Tick /\ src[q + 1] = Tick /\ src[q + 2] = Tick

\* Back ticks at the end of the block are the last ones read, and no fence
\* begins at them.
TickTail ==
  /\ Used > 4 /\ dst[Used] = Tick => pos > 1 /\ src[pos - 1] = Tick /\ ~FenceAt(pos - 1)
  /\ Used > 5 /\ dst[Used] = Tick /\ dst[Used - 1] = Tick =>
       pos > 2 /\ src[pos - 2] = Tick /\ ~FenceAt(pos - 2)

\* Behind the opening there are no three back ticks.
NoFence(s) == \A k \in 5..(Len(s) - 2) : ~(s[k] = Tick /\ s[k + 1] = Tick /\ s[k + 2] = Tick)

\* A back tick to be read is at the start of three that are masked, or behind
\* all of its run that are.
OnThird(q) ==
  \/ (q - RunStart(q)) % 3 = 0
  \/ q - RunStart(q) >= 3 * ((RunEnd(q) - RunStart(q) + 1) \div 3)
Aligned(q) == q <= Len(src) /\ src[q] = Tick => OnThird(q)

\* A text that fits is there up to the position.
CopiedSoFar ==
  /\ Used = pos + 3
  /\ \A k \in 1..(pos - 1) : dst[k + 4] = AllMasked[k]
  /\ Aligned(pos)

\* The block as long as it is being written; room is left for the closing.
CodeSoFar ==
  /\ size >= 8 /\ Used >= 4 /\ pos <= Len(src) + 1
  /\ \A k \in 1..4 : dst[k] = Opening[k]
  /\ Used = 4 \/ Used + 5 <= size
  /\ NoFence(dst) /\ TickTail
  /\ Len(src) + 10 <= size => CopiedSoFar

\* The invariant of the code block.
CodeInv ==
  job = "code" => Used < size /\ (result = "working" => CodeSoFar)

\* The characters.
LEMMA Chars ==
  /\ Tick # Line /\ Tick # Quote /\ Line # Quote
  /\ Len(Fence) = 3 /\ Fence[1] = Tick /\ Fence[2] = Tick /\ Fence[3] = Tick
  /\ Len(Masked) = 3 /\ Masked[1] = Quote /\ Masked[2] = Quote /\ Masked[3] = Quote
  /\ Len(Opening) = 4 /\ Opening[4] = Line
  /\ Tick \in Letters /\ Line \in Letters /\ Quote \in Letters
<1>1. Tick # Line /\ Tick # Quote /\ Line # Quote
  BY DEF Tick, Line, Quote
<1>2. Tick \in Letters /\ Line \in Letters /\ Quote \in Letters
  BY DEF Letters
<1>3. Len(Fence) = 3 /\ Fence[1] = Tick /\ Fence[2] = Tick /\ Fence[3] = Tick
  BY DEF Fence
<1>4. Len(Masked) = 3 /\ Masked[1] = Quote /\ Masked[2] = Quote /\ Masked[3] = Quote
  BY DEF Masked
<1>5. Len(Opening) = 4 /\ Opening[4] = Line
  <2>1. Fence \in Seq(Letters)
    BY SmallSeqs
  <2>2. Len(Append(Fence, Line)) = Len(Fence) + 1 /\ Append(Fence, Line)[Len(Fence) + 1] = Line
    BY <1>2, <2>1, Appended
  <2> QED
    BY <1>3, <2>2 DEF Opening
<1> QED
  BY <1>1, <1>2, <1>3, <1>4, <1>5

\* Three characters of a text.
LEMMA ThreeOf ==
  ASSUME NEW S, NEW s \in Seq(S), NEW m \in Nat \ {0}, m + 2 <= Len(s)
  PROVE  /\ SubSeq(s, m, m + 2) \in Seq(S) /\ Len(SubSeq(s, m, m + 2)) = 3
         /\ SubSeq(s, m, m + 2)[1] = s[m] /\ SubSeq(s, m, m + 2)[2] = s[m + 1]
         /\ SubSeq(s, m, m + 2)[3] = s[m + 2]
OBVIOUS

LEMMA AtFence ==
  ASSUME src \in Seq(STRING), pos \in Nat \ {0}
  PROVE  At(Fence) <=> FenceAt(pos)
<1>1. Len(src) \in Nat
  OBVIOUS
<1>2. CASE ~(pos + 2 <= Len(src))
  BY <1>1, <1>2, Chars DEF At, FenceAt
<1>3. CASE pos + 2 <= Len(src)
  <2> DEFINE u == SubSeq(src, pos, pos + 2)
  <2>1. u \in Seq(STRING) /\ Len(u) = 3 /\ u[1] = src[pos] /\ u[2] = src[pos + 1] /\ u[3] = src[pos + 2]
    BY <1>1, <1>3, ThreeOf
  <2> HIDE DEF u
  <2>2. u = Fence <=> u[1] = Tick /\ u[2] = Tick /\ u[3] = Tick
    BY <2>1, Chars DEF Fence
  <2>3. At(Fence) <=> u = Fence
    <3>1. pos + Len(Fence) <= Len(src) + 1 /\ pos + Len(Fence) - 1 = pos + 2
      BY <1>1, <1>3, Chars
    <3> QED
      BY <3>1 DEF At, u
  <2> QED
    BY <1>1, <1>3, <2>1, <2>2, <2>3 DEF FenceAt
<1> QED
  BY <1>2, <1>3

\* The run of back ticks around one of them.
LEMMA RunFacts ==
  ASSUME src \in Seq(STRING), NEW q \in 1..Len(src), src[q] = Tick
  PROVE  /\ RunStart(q) \in 1..q /\ RunEnd(q) \in q..Len(src)
         /\ \A k \in RunStart(q)..q : src[k] = Tick
         /\ \A k \in q..RunEnd(q) : src[k] = Tick
         /\ RunStart(q) = q \/ src[q - 1] = Tick
         /\ q = 1 \/ src[q - 1] # Tick => RunStart(q) = q
         /\ RunEnd(q) = Len(src) \/ src[RunEnd(q) + 1] # Tick
<1> DEFINE A == {k \in 1..(q - 1) : src[k] # Tick} \cup {0}
           B == {k \in q..Len(src) : src[k] # Tick} \cup {Len(src) + 1}
<1>0. Len(src) \in Nat /\ q \in Nat /\ q >= 1 /\ q <= Len(src)
  OBVIOUS
<1>1. A \subseteq Nat /\ A # {} /\ \A k \in A : k <= Len(src)
  BY <1>0
<1>2. Max(A) \in A /\ \A k \in A : k <= Max(A)
  <2> HIDE DEF A
  <2>1. A \subseteq 0..Len(src)
    BY <1>0, <1>1
  <2> QED
    BY <1>0, <1>1, <2>1, MaxOfNats
<1>3. RunStart(q) = 1 + Max(A)
  BY DEF RunStart
<1>4. B \subseteq Nat /\ B # {}
  BY <1>0
<1>5. Min(B) \in B /\ \A k \in B : Min(B) <= k
  <2> HIDE DEF B
  <2> QED
    BY <1>4, MinOfSome
<1>6. RunEnd(q) = Min(B) - 1
  BY DEF RunEnd
<1> DEFINE a == Max(A)  b == Min(B)
<1>7. /\ a \in Nat /\ a <= q - 1 /\ (a = 0 \/ src[a] # Tick)
      /\ \A k \in 1..(q - 1) : src[k] # Tick => k <= a
  BY <1>0, <1>2
<1>8. /\ b \in Nat /\ b > q /\ b <= Len(src) + 1 /\ (b = Len(src) + 1 \/ src[b] # Tick)
      /\ \A k \in q..Len(src) : src[k] # Tick => b <= k
  <2>1. b \in Nat /\ b >= q /\ b <= Len(src) + 1 /\ (b = Len(src) + 1 \/ (b \in q..Len(src) /\ src[b] # Tick))
    BY <1>0, <1>5
  <2>2. b # q
    BY <1>0, <2>1
  <2>3. \A k \in q..Len(src) : src[k] # Tick => b <= k
    BY <1>5
  <2> HIDE DEF b
  <2> QED
    BY <1>0, <2>1, <2>2, <2>3
<1> HIDE DEF a, b
<1>9. RunStart(q) = 1 + a /\ RunEnd(q) = b - 1
  BY <1>3, <1>6 DEF a, b
<1>10. RunStart(q) \in 1..q /\ RunEnd(q) \in q..Len(src)
  BY <1>0, <1>7, <1>8, <1>9
<1>11. \A k \in RunStart(q)..q : src[k] = Tick
  <2> TAKE k \in RunStart(q)..q
  <2>1. k = q \/ (k \in 1..(q - 1) /\ ~(k <= a))
    BY <1>0, <1>7, <1>9
  <2> QED
    BY <1>7, <2>1
<1>12. \A k \in q..RunEnd(q) : src[k] = Tick
  <2> TAKE k \in q..RunEnd(q)
  <2>1. k \in q..Len(src) /\ ~(b <= k)
    BY <1>0, <1>8, <1>9
  <2> QED
    BY <1>8, <2>1
<1>13. RunStart(q) = q \/ src[q - 1] = Tick
  <2>1. CASE a = q - 1
    BY <1>0, <1>9, <2>1
  <2>2. CASE a # q - 1
    <3>1. q - 1 \in 1..(q - 1) /\ ~(q - 1 <= a)
      BY <1>0, <1>7, <2>2
    <3> QED
      BY <1>7, <3>1
  <2> QED
    BY <2>1, <2>2
<1>14. q = 1 \/ src[q - 1] # Tick => RunStart(q) = q
  <2>1. CASE q = 1
    BY <1>7, <1>9, <2>1
  <2>2. CASE q # 1 /\ src[q - 1] # Tick
    <3>1. q - 1 <= a
      BY <1>0, <1>7, <2>2
    <3> QED
      BY <1>0, <1>7, <1>9, <3>1
  <2> QED
    BY <2>1, <2>2
<1>15. RunEnd(q) = Len(src) \/ src[RunEnd(q) + 1] # Tick
  BY <1>0, <1>8, <1>9
<1> QED
  BY <1>10, <1>11, <1>12, <1>13, <1>14, <1>15

\* Two of them in a row are of the same run.
LEMMA RunSame ==
  ASSUME src \in Seq(STRING), NEW q \in 1..(Len(src) - 1), src[q] = Tick, src[q + 1] = Tick
  PROVE  RunStart(q + 1) = RunStart(q) /\ RunEnd(q + 1) = RunEnd(q)
<1>1. {k \in 1..((q + 1) - 1) : src[k] # Tick} = {k \in 1..(q - 1) : src[k] # Tick}
  <2>1. \A k : k \in 1..((q + 1) - 1) <=> k \in 1..(q - 1) \/ k = q
    OBVIOUS
  <2> QED
    BY <2>1
<1>2. {k \in (q + 1)..Len(src) : src[k] # Tick} = {k \in q..Len(src) : src[k] # Tick}
  <2>1. \A k : k \in q..Len(src) <=> k \in (q + 1)..Len(src) \/ k = q
    OBVIOUS
  <2> QED
    BY <2>1
<1> QED
  BY <1>1, <1>2 DEF RunStart, RunEnd

\* The mask does not depend on what is in the buffer.
LEMMA MaskStays ==
  ASSUME UNCHANGED src
  PROVE  /\ AllMasked' = AllMasked /\ (\A q : FenceAt(q)' = FenceAt(q))
         /\ (\A q : RunStart(q)' = RunStart(q) /\ RunEnd(q)' = RunEnd(q))
         /\ (\A q : Aligned(q)' = Aligned(q))
BY DEF AllMasked, IsMasked, RunStart, RunEnd, FenceAt, Aligned, OnThird

\* Of multiples of three.
LEMMA Thirds ==
  ASSUME NEW m \in Nat, NEW d \in Nat
  PROVE  /\ 3 * (m \div 3) \in Nat /\ 3 * (m \div 3) <= m /\ m < 3 * (m \div 3) + 3
         /\ d % 3 = 0 /\ d < 3 * (m \div 3) => d + 3 <= 3 * (m \div 3)
         /\ d % 3 = 0 => (d + 3) % 3 = 0
OBVIOUS

\* The fences that the loop finds are the parts of the runs that are masked.
LEMMA FenceMasked ==
  ASSUME src \in Seq(STRING), NEW q \in 1..Len(src), Aligned(q), FenceAt(q)
  PROVE  /\ q + 2 <= Len(src) /\ Aligned(q + 3)
         /\ AllMasked[q] = Quote /\ AllMasked[q + 1] = Quote /\ AllMasked[q + 2] = Quote
<1> DEFINE a == RunStart(q)
           b == RunEnd(q)
           d == q - a
           m == b - a + 1
<1>1. /\ Len(src) \in Nat /\ q \in Nat /\ q >= 1 /\ q + 2 <= Len(src)
      /\ src[q] = Tick /\ src[q + 1] = Tick /\ src[q + 2] = Tick
      /\ q + 1 \in 1..(Len(src) - 1) /\ q \in 1..(Len(src) - 1) /\ q + 2 \in 1..Len(src) /\ q + 1 \in 1..Len(src)
      /\ (q + 1) + 1 = q + 2
  BY DEF FenceAt
<1>2. RunStart(q + 1) = a /\ RunEnd(q + 1) = b
  BY <1>1, RunSame
<1>3. RunStart(q + 2) = a /\ RunEnd(q + 2) = b
  <2>1. RunStart((q + 1) + 1) = RunStart(q + 1) /\ RunEnd((q + 1) + 1) = RunEnd(q + 1)
    BY <1>1, RunSame
  <2> QED
    BY <1>1, <1>2, <2>1
<1>4. a \in 1..q /\ b \in (q + 2)..Len(src)
  <2>1. RunStart(q) \in 1..q
    BY <1>1, RunFacts
  <2>2. RunEnd(q + 2) \in (q + 2)..Len(src)
    BY <1>1, RunFacts
  <2> QED
    BY <1>3, <2>1, <2>2
<1>5. d % 3 = 0 \/ d >= 3 * (m \div 3)
  BY <1>1 DEF Aligned, OnThird
<1> HIDE DEF a, b
<1>6. d \in Nat /\ m \in Nat /\ d + 3 <= m
  BY <1>1, <1>4
<1> HIDE DEF d, m
<1>7. d % 3 = 0 /\ d + 3 <= 3 * (m \div 3)
  BY <1>5, <1>6, Thirds
<1>8. d < 3 * (m \div 3) /\ d + 1 < 3 * (m \div 3) /\ d + 2 < 3 * (m \div 3)
  BY <1>6, <1>7, Thirds
<1>9. (q + 1) - a = d + 1 /\ (q + 2) - a = d + 2 /\ (q + 3) - a = d + 3 /\ q - a = d
  BY <1>1, <1>4 DEF d
<1>10. AllMasked[q] = Quote /\ AllMasked[q + 1] = Quote /\ AllMasked[q + 2] = Quote
  <2>1. IsMasked(q)
    BY <1>1, <1>8, <1>9 DEF IsMasked, a, b, m
  <2>2. IsMasked(q + 1)
    BY <1>1, <1>2, <1>8, <1>9 DEF IsMasked, m
  <2>3. IsMasked(q + 2)
    BY <1>1, <1>3, <1>8, <1>9 DEF IsMasked, m
  <2>4. q \in DOMAIN src /\ q + 1 \in DOMAIN src /\ q + 2 \in DOMAIN src
    BY <1>1
  <2> QED
    BY <2>1, <2>2, <2>3, <2>4 DEF AllMasked
<1>11. Aligned(q + 3)
  <2> SUFFICES ASSUME q + 3 <= Len(src), src[q + 3] = Tick PROVE OnThird(q + 3)
    BY DEF Aligned
  <2>1. q + 2 \in 1..(Len(src) - 1) /\ (q + 2) + 1 = q + 3
    BY <1>1
  <2>2. RunStart(q + 3) = a
    <3>1. RunStart((q + 2) + 1) = RunStart(q + 2)
      BY <1>1, <2>1, RunSame
    <3> QED
      BY <1>3, <2>1, <3>1
  <2>3. (d + 3) % 3 = 0
    BY <1>6, <1>7, Thirds
  <2>4. (q + 3) - RunStart(q + 3) = d + 3
    BY <1>9, <2>2
  <2> QED
    BY <2>3, <2>4 DEF OnThird
<1> QED
  BY <1>1, <1>10, <1>11

\* The characters that the loop copies are those that are not masked.
LEMMA OtherCopied ==
  ASSUME src \in Seq(STRING), NEW q \in 1..Len(src), Aligned(q), ~FenceAt(q)
  PROVE  AllMasked[q] = src[q] /\ Aligned(q + 1)
<1>0. Len(src) \in Nat /\ q \in Nat /\ q >= 1 /\ q <= Len(src) /\ q \in DOMAIN src
  OBVIOUS
<1>1. CASE src[q] # Tick
  <2>1. AllMasked[q] = src[q]
    BY <1>0, <1>1 DEF AllMasked, IsMasked
  <2>2. Aligned(q + 1)
    <3> SUFFICES ASSUME q + 1 <= Len(src), src[q + 1] = Tick PROVE OnThird(q + 1)
      BY DEF Aligned
    <3>1. q + 1 \in 1..Len(src) /\ (q + 1) - 1 = q
      BY <1>0
    <3>2. RunStart(q + 1) = q + 1
      BY <1>1, <3>1, RunFacts
    <3> QED
      BY <1>0, <3>2 DEF OnThird
  <2> QED
    BY <2>1, <2>2
<1>2. CASE src[q] = Tick
  <2> DEFINE a == RunStart(q)
             b == RunEnd(q)
             d == q - a
             m == b - a + 1
  <2>1. a \in 1..q /\ b \in q..Len(src) /\ \A k \in q..b : src[k] = Tick
    BY <1>2, RunFacts
  <2>2. d % 3 = 0 \/ d >= 3 * (m \div 3)
    BY <1>0, <1>2 DEF Aligned, OnThird
  <2> HIDE DEF a, b
  <2>3. ~(b >= q + 2)
    <3> SUFFICES ASSUME b >= q + 2 PROVE FenceAt(q)
      OBVIOUS
    <3>1. q + 1 \in q..b /\ q + 2 \in q..b /\ q + 2 <= Len(src)
      BY <1>0, <2>1
    <3> QED
      BY <1>0, <1>2, <2>1, <3>1 DEF FenceAt
  <2>4. d \in Nat /\ m \in Nat /\ ~(d + 3 <= m)
    BY <1>0, <2>1, <2>3
  <2> HIDE DEF d, m
  <2>5. d >= 3 * (m \div 3) /\ 3 * (m \div 3) \in Nat
    BY <2>2, <2>4, Thirds
  <2>6. AllMasked[q] = src[q]
    <3>1. ~IsMasked(q)
      BY <2>4, <2>5 DEF IsMasked, a, b, d, m
    <3> QED
      BY <1>0, <3>1 DEF AllMasked
  <2>7. Aligned(q + 1)
    <3> SUFFICES ASSUME q + 1 <= Len(src), src[q + 1] = Tick
                 PROVE  OnThird(q + 1)
      BY DEF Aligned
    <3>1. q \in 1..(Len(src) - 1)
      BY <1>0
    <3>2. RunStart(q + 1) = a /\ RunEnd(q + 1) = b
      BY <1>2, <3>1, RunSame DEF a, b
    <3>3. q + 1 - a = d + 1
      BY <1>0, <2>1 DEF d
    <3>4. d + 1 >= 3 * (m \div 3)
      BY <2>4, <2>5
    <3>5. (q + 1) - RunStart(q + 1) = d + 1 /\ RunEnd(q + 1) - RunStart(q + 1) + 1 = m
      <4>1. RunEnd(q + 1) - RunStart(q + 1) + 1 = m
        BY <3>2 DEF m
      <4>2. (q + 1) - RunStart(q + 1) = d + 1
        BY <1>0, <2>1, <2>4, <3>2, <3>3
      <4> QED
        BY <4>1, <4>2
    <3> QED
      BY <3>4, <3>5 DEF OnThird
  <2> QED
    BY <2>6, <2>7
<1> QED
  BY <1>1, <1>2

\* The beginning of the block.
CodeAtFirst == src \in Seq(STRING) /\ size \in Nat /\ size >= 8 /\ dst = Opening /\ pos = 1

LEMMA CodeBegin == CodeAtFirst => CodeSoFar
<1> SUFFICES ASSUME src \in Seq(STRING), size \in Nat, size >= 8, dst = Opening, pos = 1 PROVE CodeSoFar
  BY DEF CodeAtFirst
<1>1. Len(src) \in Nat /\ Len(dst) = 4
  BY Chars
<1>2. Aligned(1)
  <2> SUFFICES ASSUME 1 <= Len(src), src[1] = Tick PROVE OnThird(1)
    BY DEF Aligned
  <2>1. RunStart(1) = 1
    <3>1. 1 \in 1..Len(src)
      BY <1>1
    <3> QED
      BY <3>1, RunFacts
  <2> QED
    BY <2>1 DEF OnThird
<1>3. CopiedSoFar
  <2>1. 1..(pos - 1) = {} /\ Len(dst) = pos + 3
    BY <1>1
  <2> QED
    BY <1>2, <2>1 DEF CopiedSoFar
<1>4. NoFence(dst) /\ TickTail
  <2>1. 5..(Len(dst) - 2) = {} /\ ~(Len(dst) > 4) /\ ~(Len(dst) > 5)
    BY <1>1
  <2> QED
    BY <2>1 DEF NoFence, TickTail
<1>5. pos <= Len(src) + 1 /\ Len(dst) >= 4
  BY <1>1
<1> QED
  BY <1>1, <1>3, <1>4, <1>5 DEF CodeSoFar

\* A fence that is masked, or left out.
LEMMA CodeMore ==
  ASSUME TextTypes, CodeSoFar, MoreText, Room(0), At(Fence),
         dst' = IF Room(3) THEN dst \o Masked ELSE dst, pos' = pos + 3, UNCHANGED <<src, size>>
  PROVE  CodeSoFar'
<1>0. /\ pos \in Nat \ {0} /\ src \in Seq(STRING) /\ Len(src) \in Nat /\ size \in Nat /\ dst \in Seq(Letters)
      /\ Len(dst) \in Nat /\ Len(dst) + 5 < size
  BY DEF TextTypes, TextTypeOK, Room
<1>1. FenceAt(pos) /\ pos + 2 <= Len(src) /\ pos \in 1..Len(src) /\ src[pos] = Tick /\ src[pos + 1] = Tick
  <2>1. FenceAt(pos)
    BY <1>0, AtFence
  <2> QED
    BY <1>0, <2>1 DEF FenceAt
<1>2. /\ size >= 8 /\ Len(dst) >= 4 /\ (\A k \in 1..4 : dst[k] = Opening[k]) /\ NoFence(dst) /\ TickTail
      /\ Len(src) + 10 <= size => CopiedSoFar
  BY DEF CodeSoFar
<1>3. Len(dst) > 4 => dst[Len(dst)] # Tick
  <2> SUFFICES ASSUME Len(dst) > 4, dst[Len(dst)] = Tick PROVE FALSE
    OBVIOUS
  <2>1. pos > 1 /\ src[pos - 1] = Tick /\ ~FenceAt(pos - 1)
    BY <1>2 DEF TickTail
  <2>2. 1 <= pos - 1 /\ (pos - 1) + 2 <= Len(src) /\ (pos - 1) + 1 = pos /\ (pos - 1) + 2 = pos + 1
    BY <1>0, <1>1, <2>1
  <2> QED
    BY <1>1, <2>1, <2>2 DEF FenceAt
<1>4. pos' <= Len(src') + 1 /\ size' >= 8
  BY <1>0, <1>1, <1>2
<1>5. CASE Room(3)
  <2>1. /\ Len(dst') = Len(dst) + 3 /\ (\A k \in 1..Len(dst) : dst'[k] = dst[k])
        /\ dst'[Len(dst) + 1] = Quote /\ dst'[Len(dst) + 2] = Quote /\ dst'[Len(dst) + 3] = Quote
    <3>1. Masked \in Seq(Letters) /\ dst' = dst \o Masked
      BY <1>5, SmallSeqs
    <3>2. Len(dst \o Masked) = Len(dst) + 3 /\ (\A k \in 1..Len(dst) : (dst \o Masked)[k] = dst[k])
          /\ \A k \in 1..3 : (dst \o Masked)[Len(dst) + k] = Masked[k]
      <4>1. /\ Len(dst \o Masked) = Len(dst) + Len(Masked)
            /\ (\A k \in 1..Len(dst) : (dst \o Masked)[k] = dst[k])
            /\ \A k \in 1..Len(Masked) : (dst \o Masked)[Len(dst) + k] = Masked[k]
        BY <1>0, <3>1, Concatenated
      <4> QED
        BY <4>1, Chars
    <3>3. 1 \in 1..3 /\ 2 \in 1..3 /\ 3 \in 1..3
      OBVIOUS
    <3> QED
      BY <3>1, <3>2, <3>3, Chars
  <2>2. \A k \in 1..4 : dst'[k] = Opening[k]
    BY <1>0, <1>2, <2>1
  <2>3. NoFence(dst')
    <3> SUFFICES ASSUME NEW k \in 5..(Len(dst') - 2) PROVE ~(dst'[k] = Tick /\ dst'[k + 1] = Tick /\ dst'[k + 2] = Tick)
      BY DEF NoFence
    <3>1. CASE k + 2 <= Len(dst)
      <4>1. k \in 5..(Len(dst) - 2) /\ k \in 1..Len(dst) /\ k + 1 \in 1..Len(dst) /\ k + 2 \in 1..Len(dst)
        BY <1>0, <3>1
      <4> QED
        BY <1>2, <2>1, <4>1 DEF NoFence
    <3>2. CASE ~(k + 2 <= Len(dst))
      <4>1. k + 2 = Len(dst) + 1 \/ k + 2 = Len(dst) + 2 \/ k + 2 = Len(dst) + 3
        BY <1>0, <2>1, <3>2
      <4> QED
        BY <2>1, <4>1, Chars
    <3> QED
      BY <3>1, <3>2
  <2>4. dst'[Len(dst')] # Tick
    BY <2>1, Chars
  <2>5. TickTail'
    BY <2>4 DEF TickTail
  <2>6. Len(dst') + 5 <= size' /\ Len(dst') >= 4
    <3>1. Len(dst) + 3 + 5 < size
      BY <1>5 DEF Room
    <3> QED
      BY <1>0, <1>2, <2>1, <3>1
  <2>7. ASSUME Len(src') + 10 <= size' PROVE CopiedSoFar'
    <3>1. Len(dst) = pos + 3 /\ (\A k \in 1..(pos - 1) : dst[k + 4] = AllMasked[k]) /\ Aligned(pos)
      BY <1>2, <2>7 DEF CopiedSoFar
    <3>2. Aligned(pos + 3) /\ AllMasked[pos] = Quote /\ AllMasked[pos + 1] = Quote /\ AllMasked[pos + 2] = Quote
      BY <1>0, <1>1, <3>1, FenceMasked
    <3>3. \A k \in 1..(pos' - 1) : dst'[k + 4] = AllMasked[k]
      <4>0. pos' - 1 = pos + 2
        BY <1>0
      <4> SUFFICES ASSUME NEW k \in 1..(pos + 2) PROVE dst'[k + 4] = AllMasked[k]
        BY <4>0
      <4>1. CASE k \in 1..(pos - 1)
        <5>1. k + 4 \in 1..Len(dst)
          BY <1>0, <3>1, <4>1
        <5> QED
          BY <2>1, <3>1, <4>1, <5>1
      <4>2. CASE k \notin 1..(pos - 1)
        <5>1. k = pos \/ k = pos + 1 \/ k = pos + 2
          BY <1>0, <4>2
        <5>2. pos + 4 = Len(dst) + 1 /\ (pos + 1) + 4 = Len(dst) + 2 /\ (pos + 2) + 4 = Len(dst) + 3
          BY <1>0, <3>1
        <5> QED
          BY <2>1, <3>2, <5>1, <5>2
      <4> QED
        BY <4>1, <4>2
    <3>4. Len(dst') = pos' + 3
      BY <1>0, <2>1, <3>1
    <3>5. Aligned(pos)' /\ AllMasked' = AllMasked
      <4>1. AllMasked' = AllMasked
        BY MaskStays
      <4>2. Aligned(pos)' = Aligned(pos + 3)
        BY DEF Aligned, OnThird, RunStart, RunEnd
      <4> QED
        BY <3>2, <4>1, <4>2
    <3> QED
      BY <3>3, <3>4, <3>5 DEF CopiedSoFar
  <2> QED
    BY <1>4, <2>2, <2>3, <2>5, <2>6, <2>7 DEF CodeSoFar
<1>6. CASE ~Room(3)
  <2>1. dst' = dst
    BY <1>6
  <2>2. ~(Len(src) + 10 <= size)
    <3> SUFFICES ASSUME Len(src) + 10 <= size PROVE FALSE
      OBVIOUS
    <3>1. Len(dst) = pos + 3
      BY <1>2 DEF CopiedSoFar
    <3>2. ~(Len(dst) + 3 + 5 < size)
      BY <1>6 DEF Room
    <3> QED
      BY <1>0, <1>1, <3>1, <3>2
  <2>3. TickTail'
    <3>1. Len(dst') > 4 => dst'[Len(dst')] # Tick
      BY <1>3, <2>1
    <3>2. Len(dst') > 5 => Len(dst') > 4
      BY <1>0, <2>1
    <3> QED
      BY <3>1, <3>2 DEF TickTail
  <2>4. Len(dst) = 4 \/ Len(dst) + 5 <= size
    BY <1>0
  <2> QED
    BY <1>2, <1>4, <2>1, <2>2, <2>3, <2>4 DEF CodeSoFar
<1> QED
  BY <1>5, <1>6

\* A character that begins no fence.
LEMMA CodeCopied ==
  ASSUME TextTypes, CodeSoFar, MoreText, Room(0), ~At(Fence),
         dst' = Append(dst, src[pos]), pos' = pos + 1, UNCHANGED <<src, size>>
  PROVE  CodeSoFar'
<1> DEFINE c == src[pos]
<1>0. /\ pos \in Nat \ {0} /\ src \in Seq(STRING) /\ Len(src) \in Nat /\ size \in Nat /\ dst \in Seq(Letters)
      /\ Len(dst) \in Nat /\ Len(dst) + 5 < size /\ pos \in 1..Len(src)
  BY DEF TextTypes, TextTypeOK, Room, MoreText
<1>1. ~FenceAt(pos)
  BY <1>0, AtFence
<1>2. /\ size >= 8 /\ Len(dst) >= 4 /\ (\A k \in 1..4 : dst[k] = Opening[k]) /\ NoFence(dst) /\ TickTail
      /\ Len(src) + 10 <= size => CopiedSoFar
  BY DEF CodeSoFar
<1>3. /\ Len(dst') = Len(dst) + 1 /\ (\A k \in 1..Len(dst) : dst'[k] = dst[k]) /\ dst'[Len(dst) + 1] = c
  <2>1. c \in Letters
    <3>1. c \in STRING
      BY <1>0
    <3> HIDE DEF c
    <3> QED
      BY <3>1 DEF Letters
  <2>2. dst' = Append(dst, c)
    OBVIOUS
  <2> HIDE DEF c
  <2> QED
    BY <1>0, <2>1, <2>2, Appended
<1>4. pos' <= Len(src') + 1 /\ size' >= 8 /\ Len(dst') >= 4 /\ Len(dst') + 5 <= size'
  BY <1>0, <1>2, <1>3
<1>5. \A k \in 1..4 : dst'[k] = Opening[k]
  BY <1>0, <1>2, <1>3
<1>6. NoFence(dst')
  <2> SUFFICES ASSUME NEW k \in 5..(Len(dst') - 2), dst'[k] = Tick, dst'[k + 1] = Tick, dst'[k + 2] = Tick
               PROVE  FALSE
    BY DEF NoFence
  <2>1. CASE k + 2 <= Len(dst)
    <3>1. k \in 5..(Len(dst) - 2) /\ k \in 1..Len(dst) /\ k + 1 \in 1..Len(dst) /\ k + 2 \in 1..Len(dst)
      BY <1>0, <2>1
    <3> QED
      BY <1>2, <1>3, <3>1 DEF NoFence
  <2>2. CASE ~(k + 2 <= Len(dst))
    <3>1. k + 1 = Len(dst) /\ k = Len(dst) - 1 /\ k + 2 = Len(dst) + 1 /\ Len(dst) > 5 /\ Len(dst) > 4
          /\ k \in 1..Len(dst) /\ k + 1 \in 1..Len(dst)
      BY <1>0, <1>3, <2>2
    <3>2. dst[Len(dst)] = Tick /\ dst[Len(dst) - 1] = Tick /\ c = Tick
      BY <1>3, <3>1
    <3>3. pos > 2 /\ src[pos - 1] = Tick /\ src[pos - 2] = Tick /\ ~FenceAt(pos - 2)
      BY <1>2, <3>1, <3>2 DEF TickTail
    <3>4. 1 <= pos - 2 /\ (pos - 2) + 2 <= Len(src) /\ (pos - 2) + 1 = pos - 1 /\ (pos - 2) + 2 = pos
      <4>1. pos \in Nat /\ Len(src) \in Nat /\ pos <= Len(src)
        BY <1>0
      <4>2. pos > 2
        BY <3>3
      <4> QED
        BY <4>1, <4>2
    <3> QED
      BY <3>2, <3>3, <3>4 DEF FenceAt
  <2> QED
    BY <2>1, <2>2
<1>7. TickTail'
  <2>0. pos' - 1 = pos /\ pos' - 2 = pos - 1 /\ pos' > 1 /\ Len(dst') - 1 = Len(dst) /\ dst'[Len(dst')] = c
        /\ Len(dst) \in 1..Len(dst)
    BY <1>0, <1>2, <1>3
  <2>1. dst'[Len(dst') - 1] = dst[Len(dst)]
    BY <1>3, <2>0
  <2>2. ASSUME Len(dst') > 5, dst'[Len(dst')] = Tick, dst'[Len(dst') - 1] = Tick
        PROVE  pos' > 2 /\ src'[pos' - 2] = Tick /\ ~FenceAt(pos - 2)'
    <3>1. Len(dst) > 4 /\ dst[Len(dst)] = Tick
      BY <1>0, <1>3, <2>1, <2>2
    <3>2. pos > 1 /\ src[pos - 1] = Tick /\ ~FenceAt(pos - 1)
      BY <1>2, <3>1 DEF TickTail
    <3>3. FenceAt(pos - 2)' = FenceAt(pos - 1)
      BY <2>0 DEF FenceAt
    <3> QED
      BY <1>0, <2>0, <3>2, <3>3
  <2>3. FenceAt(pos - 1)' = FenceAt(pos)
    BY <2>0 DEF FenceAt
  <2> QED
    BY <1>1, <2>0, <2>2, <2>3 DEF TickTail
<1>8. ASSUME Len(src') + 10 <= size' PROVE CopiedSoFar'
  <2>1. Len(dst) = pos + 3 /\ (\A k \in 1..(pos - 1) : dst[k + 4] = AllMasked[k]) /\ Aligned(pos)
    BY <1>2, <1>8 DEF CopiedSoFar
  <2>2. Aligned(pos + 1) /\ AllMasked[pos] = c
    BY <1>0, <1>1, <2>1, OtherCopied
  <2> HIDE DEF c
  <2>3. \A k \in 1..(pos' - 1) : dst'[k + 4] = AllMasked[k]
    <3>0. pos' - 1 = pos
      BY <1>0
    <3> SUFFICES ASSUME NEW k \in 1..pos PROVE dst'[k + 4] = AllMasked[k]
      BY <3>0
    <3>1. CASE k \in 1..(pos - 1)
      <4>1. k + 4 \in 1..Len(dst)
        BY <1>0, <2>1, <3>1
      <4> QED
        BY <1>3, <2>1, <3>1, <4>1
    <3>2. CASE k \notin 1..(pos - 1)
      <4>1. k = pos /\ pos + 4 = Len(dst) + 1
        BY <1>0, <2>1, <3>2
      <4> QED
        BY <1>3, <2>2, <4>1
    <3> QED
      BY <3>1, <3>2
  <2>4. Len(dst') = pos' + 3
    BY <1>0, <1>3, <2>1
  <2>5. Aligned(pos)' /\ AllMasked' = AllMasked
    <3>1. AllMasked' = AllMasked
      BY MaskStays
    <3>2. Aligned(pos)' = Aligned(pos + 1)
      BY DEF Aligned, OnThird, RunStart, RunEnd
    <3> QED
      BY <2>2, <3>1, <3>2
  <2> QED
    BY <2>3, <2>4, <2>5 DEF CopiedSoFar
<1> QED
  BY <1>4, <1>5, <1>6, <1>7, <1>8 DEF CodeSoFar

\* The l elements of a sequence behind the o-th one.
PartOf(u, S, s, o, l) == u \in Seq(S) /\ Len(u) = l /\ \A k \in 1..l : u[k] = s[k + o]

\* A part of a sequence.
LEMMA Part ==
  ASSUME NEW S, NEW s \in Seq(S), NEW a, NEW b, NEW o \in Nat, NEW l \in Nat,
         a = o + 1, b = o + l, b <= Len(s)
  PROVE  PartOf(SubSeq(s, a, b), S, s, o, l)
<1>1. Len(s) \in Nat /\ a \in Nat /\ b \in Nat /\ l = b - a + 1
  OBVIOUS
<1>2. \A k \in 1..l : a + k - 1 = k + o /\ k + o \in 1..Len(s)
  BY <1>1
<1> QED
  BY <1>1, <1>2 DEF PartOf

\* Sequences of the same elements.
LEMMA SameSeq ==
  ASSUME NEW S, NEW s \in Seq(S), NEW t \in Seq(S), NEW l \in Nat, Len(s) = l, Len(t) = l,
         \A k \in 1..l : s[k] = t[k]
  PROVE  s = t
OBVIOUS

\* What is in the block, and closing it.
LEMMA CodeClosed ==
  ASSUME TextTypes, CodeSoFar, ~(MoreText /\ Room(0)),
         NEW shut, shut = IF dst[Used] # Line /\ Used + 1 < size THEN Append(dst, Line) ELSE dst,
         NEW d, d = IF Len(shut) + 4 <= size THEN shut \o Fence ELSE shut
  PROVE  /\ Len(d) < size /\ Len(d) >= 7
         /\ SubSeq(d, 1, 4) = Opening
         /\ SubSeq(d, Len(d) - 3, Len(d)) = <<Line>> \o Fence
         /\ ~HasFence(SubSeq(d, 5, Len(d) - 3))
         /\ Len(src) + 10 <= size => SubSeq(d, 5, Len(d) - 3) \in {AllMasked, Append(AllMasked, Line)}
<1>0. /\ pos \in Nat \ {0} /\ src \in Seq(STRING) /\ Len(src) \in Nat /\ size \in Nat /\ dst \in Seq(Letters)
      /\ Len(dst) \in Nat
  BY DEF TextTypes, TextTypeOK
<1>1. /\ size >= 8 /\ Len(dst) >= 4 /\ (\A k \in 1..4 : dst[k] = Opening[k]) /\ NoFence(dst)
      /\ (Len(dst) = 4 \/ Len(dst) + 5 <= size) /\ pos <= Len(src) + 1
      /\ Len(src) + 10 <= size => CopiedSoFar
  BY DEF CodeSoFar
<1>2. dst[4] = Line
  BY <1>1, Chars
<1> DEFINE n == Len(shut)
<1>3. /\ shut \in Seq(Letters) /\ n \in Nat /\ n + 4 <= size /\ n >= 4 /\ shut[n] = Line
      /\ n = Len(dst) \/ n = Len(dst) + 1
      /\ n = Len(dst) => shut = dst
      /\ \A k \in 1..Len(dst) : shut[k] = dst[k]
  <2>1. CASE dst[Len(dst)] = Line
    <3>1. shut = dst
      BY <2>1
    <3> HIDE DEF n
    <3>2. n = Len(dst)
      BY <3>1 DEF n
    <3>3. shut \in Seq(Letters) /\ shut[n] = Line /\ \A k \in 1..Len(dst) : shut[k] = dst[k]
      BY <1>0, <2>1, <3>1, <3>2
    <3>4. n + 4 <= size /\ n >= 4 /\ n \in Nat
      BY <1>0, <1>1, <3>2
    <3> QED
      BY <3>1, <3>2, <3>3, <3>4
  <2>2. CASE dst[Len(dst)] # Line
    <3>1. Len(dst) # 4 /\ Len(dst) + 5 <= size
      BY <1>1, <1>2, <2>2
    <3>2. shut = Append(dst, Line)
      BY <1>0, <2>2, <3>1
    <3>3. /\ Append(dst, Line) \in Seq(Letters) /\ Len(Append(dst, Line)) = Len(dst) + 1
          /\ Append(dst, Line)[Len(dst) + 1] = Line /\ \A k \in 1..Len(dst) : Append(dst, Line)[k] = dst[k]
      BY <1>0, Chars, Appended
    <3>4. n = Len(dst) + 1
      BY <3>2, <3>3
    <3> HIDE DEF n
    <3>5. shut \in Seq(Letters) /\ shut[n] = Line /\ \A k \in 1..Len(dst) : shut[k] = dst[k]
      BY <3>2, <3>3, <3>4
    <3>6. n + 4 <= size /\ n >= 4 /\ n \in Nat /\ n # Len(dst)
      BY <1>0, <1>1, <3>1, <3>4
    <3> QED
      BY <3>4, <3>5, <3>6
  <2> QED
    BY <2>1, <2>2
<1>4. /\ d \in Seq(Letters) /\ Len(d) = n + 3 /\ (\A k \in 1..n : d[k] = shut[k])
      /\ d[n + 1] = Tick /\ d[n + 2] = Tick /\ d[n + 3] = Tick
  <2>1. d = shut \o Fence /\ Fence \in Seq(Letters)
    BY <1>3, SmallSeqs
  <2>2. /\ shut \o Fence \in Seq(Letters) /\ Len(shut \o Fence) = n + Len(Fence)
        /\ (\A k \in 1..n : (shut \o Fence)[k] = shut[k])
        /\ \A k \in 1..Len(Fence) : (shut \o Fence)[n + k] = Fence[k]
    BY <1>3, <2>1, Concatenated
  <2>3. 1 \in 1..Len(Fence) /\ 2 \in 1..Len(Fence) /\ 3 \in 1..Len(Fence)
    BY Chars
  <2> QED
    BY <2>1, <2>2, <2>3, Chars
<1> HIDE DEF n
<1>5. Len(d) < size /\ Len(d) >= 7
  BY <1>0, <1>3, <1>4
<1>7. SubSeq(d, 1, 4) = Opening
  <2> DEFINE u == SubSeq(d, 1, 4)
  <2>1. u \in Seq(Letters) /\ Len(u) = 4 /\ \A k \in 1..4 : u[k] = d[k + 0]
    <3>1. 1 = 0 + 1 /\ 4 = 0 + 4 /\ 4 <= Len(d) /\ 0 \in Nat /\ 4 \in Nat
      BY <1>3, <1>4
    <3>2. d \in Seq(Letters)
      BY <1>4
    <3>3. PartOf(u, Letters, d, 0, 4)
      BY <3>1, <3>2, Part
    <3> QED
      BY <3>3 DEF PartOf
  <2> HIDE DEF u
  <2>2. \A k \in 1..4 : u[k] = Opening[k]
    <3> TAKE k \in 1..4
    <3>1. k + 0 = k /\ k \in 1..n /\ k \in 1..Len(dst)
      BY <1>0, <1>1, <1>3
    <3>2. u[k] = d[k] /\ d[k] = shut[k] /\ shut[k] = dst[k] /\ dst[k] = Opening[k]
      BY <1>1, <1>3, <1>4, <2>1, <3>1
    <3> QED
      BY <3>2
  <2>3. Opening \in Seq(Letters) /\ Len(Opening) = 4
    BY SmallSeqs
  <2> HIDE DEF u
  <2>4. u = Opening
    BY <2>1, <2>2, <2>3, SameSeq
  <2> QED
    BY <2>4 DEF u
<1>8. SubSeq(d, Len(d) - 3, Len(d)) = <<Line>> \o Fence
  <2> DEFINE u == SubSeq(d, n, n + 3)
  <2> DEFINE o == n - 1
  <2>0. o \in Nat /\ n = o + 1 /\ n + 3 = o + 4 /\ n + 3 <= Len(d) /\ 4 \in Nat
    BY <1>3, <1>4
  <2> HIDE DEF o
  <2>1. u \in Seq(Letters) /\ Len(u) = 4 /\ \A k \in 1..4 : u[k] = d[k + o]
    <3>1. PartOf(u, Letters, d, o, 4)
      BY <1>4, <2>0, Part
    <3> QED
      BY <3>1 DEF PartOf
  <2> HIDE DEF u
  <2>2. u[1] = Line /\ u[2] = Tick /\ u[3] = Tick /\ u[4] = Tick
    <3>1. 1 + o = n /\ 2 + o = n + 1 /\ 3 + o = n + 2 /\ 4 + o = n + 3 /\ n \in 1..n
      BY <1>3, <2>0
    <3>2. u[1] = d[1 + o] /\ u[2] = d[2 + o] /\ u[3] = d[3 + o] /\ u[4] = d[4 + o]
      <4>1. 1 \in 1..4 /\ 2 \in 1..4 /\ 3 \in 1..4 /\ 4 \in 1..4
        OBVIOUS
      <4> QED
        BY <2>1, <4>1, Zenon
    <3>3. d[n] = Line
      BY <1>3, <1>4, <3>1
    <3> QED
      BY <1>4, <3>1, <3>2, <3>3
  <2> DEFINE v == <<Line>> \o Fence
  <2>3. v \in Seq(Letters) /\ Len(v) = 4 /\ v[1] = Line /\ v[2] = Tick /\ v[3] = Tick /\ v[4] = Tick
    <3>1. <<Line>> \in Seq(Letters) /\ Fence \in Seq(Letters) /\ Len(<<Line>>) = 1 /\ <<Line>>[1] = Line
      BY SmallSeqs, Chars
    <3>2. /\ v \in Seq(Letters) /\ Len(v) = Len(<<Line>>) + Len(Fence)
          /\ (\A k \in 1..Len(<<Line>>) : v[k] = <<Line>>[k])
          /\ \A k \in 1..Len(Fence) : v[Len(<<Line>>) + k] = Fence[k]
      BY <3>1, Concatenated
    <3> HIDE DEF v
    <3>3. (\A k \in 1..1 : v[k] = <<Line>>[k]) /\ (\A k \in 1..3 : v[1 + k] = Fence[k]) /\ Len(v) = 4
      BY <3>1, <3>2, Chars
    <3>4. v[1] = <<Line>>[1] /\ v[2] = Fence[1] /\ v[3] = Fence[2] /\ v[4] = Fence[3]
      BY <3>3
    <3> QED
      BY <3>1, <3>2, <3>3, <3>4, Chars
  <2> HIDE DEF v
  <2>4. u = v
    BY <2>1, <2>2, <2>3
  <2>5. Len(d) - 3 = n
    BY <1>3, <1>4
  <2> QED
    BY <1>4, <2>4, <2>5 DEF u, v
<1> DEFINE body == SubSeq(d, 5, n)
<1>9. /\ body \in Seq(Letters) /\ Len(body) = n - 4 /\ \A k \in 1..(n - 4) : body[k] = shut[k + 4]
  <2>1. 5 = 4 + 1 /\ n <= Len(d) /\ n = 4 + (n - 4) /\ n - 4 \in Nat /\ 4 \in Nat
    BY <1>3, <1>4
  <2>2. body \in Seq(Letters) /\ Len(body) = n - 4 /\ \A k \in 1..(n - 4) : body[k] = d[k + 4]
    <3>1. PartOf(body, Letters, d, 4, n - 4)
      BY <1>4, <2>1, Part
    <3> QED
      BY <3>1 DEF PartOf
  <2> HIDE DEF body
  <2>3. \A k \in 1..(n - 4) : k + 4 \in 1..n
    BY <1>3
  <2> QED
    BY <1>4, <2>2, <2>3
<1> HIDE DEF body
<1>10. ~HasFence(body)
  <2> SUFFICES ASSUME NEW k \in 1..(Len(body) - 2), SubSeq(body, k, k + 2) = Fence PROVE FALSE
    BY DEF HasFence
  <2> DEFINE o == k - 1
  <2>1. k \in Nat /\ o \in Nat /\ k = o + 1 /\ k + 2 = o + 3 /\ k + 2 <= Len(body) /\ 3 \in Nat
    BY <1>3, <1>9
  <2> HIDE DEF o
  <2>2. \A i \in 1..3 : SubSeq(body, k, k + 2)[i] = body[i + o]
    <3>1. PartOf(SubSeq(body, k, k + 2), Letters, body, o, 3)
      BY <1>9, <2>1, Part
    <3> QED
      BY <3>1 DEF PartOf
  <2>3. body[k] = Tick /\ body[k + 1] = Tick /\ body[k + 2] = Tick
    <3>0. 1 \in 1..3 /\ 2 \in 1..3 /\ 3 \in 1..3
      OBVIOUS
    <3>1. body[1 + o] = Fence[1] /\ body[2 + o] = Fence[2] /\ body[3 + o] = Fence[3]
      BY <2>2, <3>0, Zenon
    <3>2. 1 + o = k /\ 2 + o = k + 1 /\ 3 + o = k + 2
      BY <2>1
    <3> QED
      BY <3>1, <3>2, Chars
  <2> DEFINE q == k + 4
  <2>4. shut[q] = Tick /\ shut[q + 1] = Tick /\ shut[q + 2] = Tick /\ q \in Nat /\ q >= 5 /\ q + 2 <= n
    <3>1. k \in 1..(n - 4) /\ k + 1 \in 1..(n - 4) /\ k + 2 \in 1..(n - 4)
      BY <1>3, <1>9, <2>1
    <3>2. shut[k + 4] = Tick /\ shut[(k + 1) + 4] = Tick /\ shut[(k + 2) + 4] = Tick
      BY <1>9, <2>3, <3>1
    <3>3. (k + 1) + 4 = q + 1 /\ (k + 2) + 4 = q + 2
      BY <2>1
    <3> QED
      BY <1>3, <2>1, <3>1, <3>2, <3>3
  <2> HIDE DEF q
  <2>5. q + 2 # n
    BY <1>3, <2>4, Chars
  <2>6. q \in 5..(Len(dst) - 2) /\ q \in 1..Len(dst) /\ q + 1 \in 1..Len(dst) /\ q + 2 \in 1..Len(dst)
    BY <1>0, <1>3, <2>4, <2>5
  <2> QED
    BY <1>1, <1>3, <2>4, <2>6 DEF NoFence
<1>11. ASSUME Len(src) + 10 <= size PROVE body \in {AllMasked, Append(AllMasked, Line)}
  <2>1. Len(dst) = pos + 3 /\ \A k \in 1..(pos - 1) : dst[k + 4] = AllMasked[k]
    BY <1>1, <1>11 DEF CopiedSoFar
  <2>2. pos = Len(src) + 1
    <3>1. CASE MoreText
      BY <1>0, <1>11, <2>1, <3>1 DEF MoreText, Room
    <3>2. CASE ~MoreText
      BY <1>0, <1>1, <3>2 DEF MoreText
    <3> QED
      BY <3>1, <3>2
  <2>3. AllMasked \in Seq(Letters) /\ Len(AllMasked) = Len(src)
    <3>1. \A q \in 1..Len(src) : src[q] \in Letters
      <4>1. \A q \in 1..Len(src) : src[q] \in STRING
        BY <1>0
      <4> QED
        BY <4>1 DEF Letters
    <3>2. DOMAIN src = 1..Len(src)
      BY <1>0
    <3> QED
      BY <1>0, <3>1, <3>2, Chars DEF AllMasked
  <2>4. \A k \in 1..Len(src) : dst[k + 4] = AllMasked[k] /\ k + 4 \in 1..Len(dst) /\ shut[k + 4] = dst[k + 4]
    <3>1. \A k \in 1..Len(src) : k \in 1..(pos - 1) /\ k + 4 \in 1..Len(dst)
      BY <1>0, <2>1, <2>2
    <3> QED
      BY <1>3, <2>1, <3>1
  <2>5. CASE n = Len(dst)
    <3>1. n - 4 = Len(src)
      BY <1>0, <2>1, <2>2, <2>5
    <3>2. \A k \in 1..Len(src) : body[k] = AllMasked[k]
      BY <1>9, <2>4, <3>1
    <3>3. body = AllMasked
      <4>1. body \in Seq(Letters) /\ Len(body) = Len(src) /\ Len(src) \in Nat
        BY <1>0, <1>9, <3>1
      <4> QED
        BY <2>3, <3>2, <4>1, SameSeq
    <3> QED
      BY <3>3
  <2>6. CASE n = Len(dst) + 1
    <3> DEFINE w == Append(AllMasked, Line)
    <3>1. n - 4 = Len(src) + 1 /\ (Len(src) + 1) + 4 = n /\ Len(src) + 1 \in 1..(n - 4)
          /\ \A k \in 1..(Len(src) + 1) : k \in 1..Len(src) \/ k = Len(src) + 1
      BY <1>0, <2>1, <2>2, <2>6
    <3>2. w \in Seq(Letters) /\ Len(w) = Len(src) + 1 /\ w[Len(src) + 1] = Line
          /\ \A k \in 1..Len(src) : w[k] = AllMasked[k]
      BY <2>3, Chars, Appended
    <3> HIDE DEF w
    <3>3. \A k \in 1..(Len(src) + 1) : body[k] = w[k]
      BY <1>3, <1>9, <2>4, <3>1, <3>2
    <3>4. body = w
      <4>1. Len(src) + 1 \in Nat /\ Len(body) = Len(src) + 1
        BY <1>0, <1>9, <3>1
      <4> QED
        BY <1>9, <3>2, <3>3, <4>1, SameSeq
    <3> QED
      BY <3>4 DEF w
  <2> QED
    BY <1>3, <2>5, <2>6
<1>12. Len(d) - 3 = n
  BY <1>3, <1>4
<1> QED
  BY <1>5, <1>7, <1>8, <1>10, <1>11, <1>12 DEF body

\* The invariant of the code block is kept, and the block is right when closed.
LEMMA CodeKeeps ==
  ASSUME TextTypes, CodeInv, CodeRight, [TextNext]_textVars
  PROVE  CodeInv' /\ CodeRight'
<1> SUFFICES ASSUME job' = "code"
             PROVE  Len(dst') < size' /\ (result' = "working" => CodeSoFar') /\ CodeRight'
  BY DEF CodeInv, CodeRight, Done
<1>0. size \in Nat \ {0} /\ src \in Seq(STRING) /\ pos \in Nat \ {0} /\ dst \in Seq(Letters) /\ Len(dst) \in Nat
  BY DEF TextTypes, TextTypeOK
<1>1. CASE UNCHANGED <<job, src, size, pos, dst, words, result>>
  <2>1. CodeSoFar' = CodeSoFar
    <3>1. FenceAt(pos - 1)' = FenceAt(pos - 1) /\ FenceAt(pos - 2)' = FenceAt(pos - 2) /\ AllMasked' = AllMasked
          /\ Aligned(pos)' = Aligned(pos)
      BY <1>1 DEF FenceAt, AllMasked, IsMasked, Aligned, OnThird, RunStart, RunEnd
    <3> QED
      BY <1>1, <3>1 DEF CodeSoFar, TickTail, CopiedSoFar, NoFence
  <2>2. CodeRight' = CodeRight
    <3>1. AllMasked' = AllMasked
      BY <1>1, MaskStays
    <3> QED
      BY <1>1, <3>1 DEF CodeRight, Done, HasFence
  <2> QED
    BY <1>1, <2>1, <2>2 DEF CodeInv
<1>2. CASE JobBegins
  <2>1. /\ src' \in Seq(STRING) /\ size' \in Nat \ {0} /\ pos' = 1 /\ result' # "done"
        /\ result' = "working" => ~(size' < 8)
        /\ dst' = IF size' >= 8 THEN Opening ELSE <<>>
    BY <1>2, Given DEF JobBegins
  <2>2. result' = "working" => CodeAtFirst'
    BY <2>1 DEF CodeAtFirst
  <2>3. CodeAtFirst' => CodeSoFar'
    BY CodeBegin, PTL
  <2>4. Len(dst') < size'
    <3>1. Len(Opening) = 4 /\ Len(<<>>) = 0
      BY Chars
    <3>2. CASE size' >= 8
      <4>1. Len(dst') = 4
        BY <2>1, <3>1, <3>2
      <4>2. \A y \in Nat : y >= 8 => 4 < y
        OBVIOUS
      <4> QED
        BY <2>1, <3>2, <4>1, <4>2
    <3>3. CASE ~(size' >= 8)
      <4>1. Len(dst') = 0
        BY <2>1, <3>1, <3>3
      <4> QED
        BY <2>1, <4>1
    <3> QED
      BY <3>2, <3>3
  <2> QED
    BY <2>1, <2>2, <2>3, <2>4 DEF CodeRight, Done
<1>3. CASE Works("code") /\ UNCHANGED <<job, src, size>> /\ (CodeMasks \/ CodeCopies)
  <2>1. CodeSoFar /\ Len(dst) + 5 < size /\ result' # "done"
    BY <1>3 DEF CodeInv, Works, CodeMasks, CodeCopies, Room, Continues
  <2>2. CodeSoFar'
    BY <1>3, <2>1, CodeMore, CodeCopied DEF CodeMasks, CodeCopies
  <2>3. Len(dst') < size'
    <3>1. Len(dst') = 4 \/ Len(dst') + 5 <= size'
      BY <2>2 DEF CodeSoFar
    <3>2. dst' \in Seq(Letters) /\ size' \in Nat /\ size' >= 8
      <4>1. TextTypes'
        BY TextTypesStep
      <4> QED
        BY <2>2, <4>1 DEF TextTypes, CodeSoFar
    <3>3. Len(dst') \in Nat
      BY <3>2
    <3>4. \A x \in Nat, y \in Nat : y >= 8 /\ (x = 4 \/ x + 5 <= y) => x < y
      OBVIOUS
    <3> QED
      BY <3>1, <3>2, <3>3, <3>4
  <2> QED
    BY <2>1, <2>2, <2>3 DEF CodeRight, Done
<1>4. CASE Works("code") /\ UNCHANGED <<job, src, size>> /\ CodeCloses
  <2> DEFINE shut == IF dst[Used] # Line /\ Used + 1 < size THEN Append(dst, Line) ELSE dst
  <2>1. /\ CodeSoFar /\ ~(MoreText /\ Room(0)) /\ result' = "done"
        /\ dst' = IF Len(shut) + 4 <= size THEN shut \o Fence ELSE shut
    BY <1>4 DEF CodeInv, Works, CodeCloses, Finishes
  <2>2. /\ Len(dst') < size /\ Len(dst') >= 7
        /\ SubSeq(dst', 1, 4) = Opening
        /\ SubSeq(dst', Len(dst') - 3, Len(dst')) = <<Line>> \o Fence
        /\ ~HasFence(SubSeq(dst', 5, Len(dst') - 3))
        /\ Len(src) + 10 <= size => SubSeq(dst', 5, Len(dst') - 3) \in {AllMasked, Append(AllMasked, Line)}
    <3> DEFINE d == dst'
    <3>1. shut = IF dst[Used] # Line /\ Used + 1 < size THEN Append(dst, Line) ELSE dst
      OBVIOUS
    <3>2. d = IF Len(shut) + 4 <= size THEN shut \o Fence ELSE shut
      BY <2>1
    <3> HIDE DEF shut
    <3> QED
      BY <2>1, <3>1, <3>2, CodeClosed
  <2>3. AllMasked' = AllMasked
    BY <1>4, MaskStays
  <2>4. CodeRight'
    BY <1>4, <2>2, <2>3 DEF CodeRight, HasFence
  <2> QED
    BY <1>4, <2>1, <2>2, <2>4
<1> QED
  BY <1>1, <1>2, <1>3, <1>4, LoopSteps

\* The inductive invariant of the text loops.
TextInv ==
  /\ TextTypes
  /\ CodeInv /\ CodeRight
  /\ NameInv /\ EscapeInv /\ ArgsInv /\ FilesInv /\ SendInv
  /\ job = "none" => Used < size

\* The invariant holds at first.
LEMMA AtRestInv == TextInit => TextInv
<1>1. TextInit => /\ CodeInv /\ CodeRight /\ NameInv /\ EscapeInv /\ ArgsInv /\ FilesInv /\ SendInv
  BY DEF TextInit, CodeInv, CodeRight, Done, NameInv, EscapeInv, ArgsInv, FilesInv, SendInv
<1>2. TextInit => Used < size
  BY DEF TextInit
<1> QED
  BY <1>1, <1>2, TextAtRest DEF TextInv

\* The strengthened invariant of the text loops, for any texts and buffers: what
\* is written so far is the image of what is read so far, and it fits.
THEOREM TextInvariant == TextSpec => []TextInv
<1>1. TextInv /\ [TextNext]_textVars => TextInv'
  <2> SUFFICES ASSUME TextInv, [TextNext]_textVars PROVE TextInv'
    OBVIOUS
  <2>1. /\ TextTypes /\ CodeInv /\ CodeRight /\ NameInv /\ EscapeInv /\ ArgsInv /\ FilesInv /\ SendInv
    BY DEF TextInv
  <2>2. TextTypes' /\ CodeInv' /\ CodeRight'
    BY <2>1, TextTypesStep, CodeKeeps
  <2>3. NameInv' /\ EscapeInv' /\ ArgsInv'
    BY <2>1, NameKeeps, EscapeKeeps, ArgsKeeps
  <2>4. FilesInv' /\ SendInv'
    BY <2>1, FilesKeeps, SendKeeps
  <2>5. job' = "none" => Len(dst') < size'
    <3>1. CASE UNCHANGED <<job, src, size, pos, dst, words, result>>
      BY <3>1 DEF TextInv
    <3>2. job' = "none" /\ dst' = <<>> /\ size' = 1 => Len(dst') < size'
      OBVIOUS
    <3>3. job \in Jobs /\ UNCHANGED job => job' # "none"
      BY DEF Jobs
    <3>4. JobBegins => job' # "none"
      BY DEF JobBegins, Jobs
    <3> QED
      BY <2>1, <3>1, <3>2, <3>3, <3>4, LoopSteps
  <2> QED
    BY <2>2, <2>3, <2>4, <2>5 DEF TextInv
<1> QED
  BY AtRestInv, <1>1, PTL DEF TextSpec

\* For any texts and buffers, no loop writes past its buffer: a code block is
\* opened and closed and holds no fence, a name on disk is not hidden and has no
\* slash, every special character of an escaped text stands behind a backslash
\* that no cut parts from it (a backslash of the text itself is not escaped), a
\* handler gets every argument, the files listed are the first ones and a
\* message below the limit is sent whole
\* (utils.c:92-146, upload.c:77-102 and 315-382, telegram_parser.c:257-265,
\* commands.c:428-444, telegram.c:56-110).
THEOREM TextsRightAlways == TextSpec => []TextsRight
<1>1. TextInv => TextsRight
  <2> SUFFICES ASSUME TextInv PROVE TextsRight
    OBVIOUS
  <2>1. Used < size
    <3>1. job \in Jobs \cup {"none"}
      BY DEF TextInv, TextTypes, TextTypeOK
    <3>2. job = "code" \/ job = "name" \/ job = "escape" \/ job = "args" \/ job = "files" \/ job = "send" \/ job = "none"
      BY <3>1 DEF Jobs
    <3> QED
      BY <3>2 DEF TextInv, CodeInv, NameInv, EscapeInv, EscapeSoFar, ArgsInv, FilesInv, FilesSoFar, SendInv
  <2>2. OthersRight
    BY OthersHold DEF TextInv
  <2> QED
    BY <2>1, <2>2 DEF TextsRight, TextInv
<1> QED
  BY TextInvariant, <1>1, PTL

----------------------------------------------------------------------------
(* The parts together. *)

\* A step of the host is a step of each part, or leaves that part as it is.
LEMMA HostSteps ==
  ASSUME [HostNext]_hostVars
  PROVE  /\ [SettingsNext]_settingsVars /\ [FilesNext]_filesVars /\ [TextNext]_textVars
         /\ [ViewNext]_viewVars /\ [StatNext]_statVars
BY DEF HostNext, hostVars

\* Whatever the others do, each part behaves as its own specification says:
\* commands run one after the other in one thread, and none of these handlers
\* touches what another one keeps (config.c, logger.c, upload.c, logs.c).
THEOREM HostParts ==
  HostSpec => SettingsSpec /\ FilesSpec /\ TextSpec /\ ViewSpec /\ StatSpec
<1>1. HostInit => SettingsInit /\ FilesInit /\ TextInit /\ ViewInit /\ StatInit
  BY DEF HostInit
<1> QED
  BY <1>1, HostSteps, PTL DEF HostSpec, SettingsSpec, FilesSpec, TextSpec, ViewSpec, StatSpec

\* The types of all parts, the limits of their counters and the bound of the
\* early buffer of logger.c with them, hold of the host.
THEOREM HostTypes == HostSpec => []HostTypeOK
<1>1. FInv => FilesTypeOK
  BY DEF FInv
<1>2. TextInv => TextTypeOK
  BY DEF TextInv, TextTypes
<1>3. VInv => ViewTypeOK
  BY DEF VInv
<1>4. StInv => StatTypeOK
  BY DEF StInv
<1>5. SettingsTypeOK /\ FilesTypeOK /\ TextTypeOK /\ ViewTypeOK /\ StatTypeOK => HostTypeOK
  BY DEF HostTypeOK
<1> QED
  BY HostParts, SettingsTypes, FilesInvariant, TextInvariant, ViewInvariant, StatInvariant,
     <1>1, <1>2, <1>3, <1>4, <1>5, PTL

\* What each part promises holds of the host, where all of them run in one
\* thread (the properties the model checker looks at on a small instance).
HostSafety ==
  /\ LinesKept /\ LinesOrdered /\ ConfigAsWritten /\ LogFollowsConfig /\ SettingsInForce
  /\ PartialExplained /\ PairWhole
  /\ TextsRight /\ ViewFaithful /\ StatsConsistent

\* Lines are kept and ordered, the settings in force are those written, files of
\* an upload come in whole pairs, texts, journal and statistics are shown as they
\* are (config.c, logger.c, upload.c, utils.c, logs.c, logstat.c).
THEOREM HostSafe == HostSpec => []HostSafety
<1>1. /\ LinesKept /\ LinesOrdered /\ ConfigAsWritten /\ LogFollowsConfig /\ SettingsInForce
      /\ PartialExplained /\ PairWhole
      /\ TextsRight /\ ViewFaithful /\ StatsConsistent
      => HostSafety
  BY DEF HostSafety
<1> QED
  BY HostParts, LinesKeptAlways, LinesOrderedAlways, ConfigAsWrittenAlways, LogFollowsConfigAlways,
     SettingsInForceAlways, PartialExplainedAlways, PairWholeAlways, TextsRightAlways,
     ViewFaithfulAlways, StatsConsistentAlways, <1>1, PTL
=============================================================================
