-------------------------------- MODULE Poll --------------------------------
(***************************************************************************)
(* How updates travel from Telegram to the handlers, at most once: the     *)
(* poll cycle and the update loop of telegram_poll.c, the filter of        *)
(* telegram_parser.c and the offset file of telegram_offset.c, with a      *)
(* server that keeps updates until an offset confirms them, requests and   *)
(* answers that get lost, writes that fail and restarts at any point.      *)
(*                                                                         *)
(* Updates are numbered from 1 in the order Telegram accepted them.  The   *)
(* update loop stands still during the handler of an update, so the steps  *)
(* are: a poll cycle, taking the next update of the batch (position in     *)
(* memory and in the file), and the return of its handler.  The second     *)
(* save of every fifth update writes the value the first one wrote: its    *)
(* outcomes are those of one save.                                         *)
(*                                                                         *)
(* A definition named MutX is X with a plausible slip; no action uses it.  *)
(***************************************************************************)
EXTENDS Integers, Sequences, FiniteSets

CONSTANTS
  BatchLimit,   \* updates in one answer of getUpdates (100)
  MaxUpdates,   \* bound of the number of updates
  MaxRestarts   \* bound of the number of restarts

ASSUME ConstantsOK ==
  /\ BatchLimit \in Nat \ {0}
  /\ MaxUpdates \in Nat
  /\ MaxRestarts \in Nat

VARIABLES
  posted,         \* Telegram: the kinds of the updates accepted so far
  confirmed,      \* Telegram: updates up to this one are forgotten
  offsetFile,     \* the number in TG_OFFSET_FILE, 0 when it has none
  nextOffset,     \* last_update_id of telegram_poll(), NotLoaded at first
  lastProcessed,  \* g_last_processed_update
  batch,          \* the parsed updates process_updates() has not come to, which it
                  \* takes in ascending order
  current         \* the update whose handler is running, 0 when none is

\* What the properties need to know about the past.
VARIABLES
  taken,          \* updates the loop came to, in this or an earlier run
  handledNow,     \* updates whose handler returned, in this run
  handledBefore,  \* and in earlier runs
  restarts,       \* number of restarts
  badSave,        \* a save failed
  lateConfirm     \* an answer ignored the offset of its request

memory == <<nextOffset, lastProcessed, batch, current>>
history == <<taken, handledNow, handledBefore, restarts>>
vars == <<posted, confirmed, offsetFile, memory, history, badSave, lateConfirm>>

----------------------------------------------------------------------------
NotLoaded == -1

\* A command or a document of the allowed chat; something the loop refuses (a
\* foreign chat, a text with control characters); something the parser drops
\* (an edited message, a sticker, a photo).
Kinds == {"command", "refused", "other"}

Ids == 1..Len(posted)
Larger(a, b) == IF a >= b THEN a ELSE b
Smaller(a, b) == IF a <= b THEN a ELSE b

\* telegram_offset_save(): the temporary file cannot be opened or renamed and
\* the file keeps its number, or the unchecked write fails and an empty file
\* takes its place, which telegram_offset_load() reads as 0.
MutSave(offset) == UNCHANGED <<offsetFile, badSave>>
Save(offset) ==
  \/ offsetFile' = offset /\ UNCHANGED badSave
  \/ offsetFile' \in {offsetFile, 0} /\ badSave' = TRUE

\* The offset of the next request: the first cycle of a run loads it.
Offset == IF nextOffset = NotLoaded THEN offsetFile ELSE nextOffset

\* The first cycle of a run saves what it loaded.
MutLoadOffset ==
  /\ nextOffset' = IF nextOffset = NotLoaded THEN offsetFile + 1 ELSE nextOffset
  /\ IF nextOffset = NotLoaded THEN Save(Offset) ELSE UNCHANGED <<offsetFile, badSave>>
LoadOffset ==
  /\ nextOffset' = Offset
  /\ IF nextOffset = NotLoaded THEN Save(Offset) ELSE UNCHANGED <<offsetFile, badSave>>

\* telegram_parse_updates(): what it keeps of the updates first..last.
Parsed(first, last) == {id \in first..last : posted[id] # "other"}

\* The update the loop comes to next.
Oldest(id) == id \in batch /\ \A other \in batch : id <= other

----------------------------------------------------------------------------
(* Telegram *)

Post(kind) ==
  /\ Len(posted) < MaxUpdates
  /\ posted' = Append(posted, kind)
  /\ UNCHANGED <<confirmed, offsetFile, memory, history, badSave, lateConfirm>>

\* A request with an offset confirms the updates before it.
ConfirmedBy(offset) == Larger(confirmed, offset - 1)

----------------------------------------------------------------------------
(* telegram_poll() *)

\* The answer: the oldest updates that are not confirmed.
Answer ==
  /\ batch' = Parsed(confirmed' + 1, Smaller(confirmed' + BatchLimit, Len(posted)))
  /\ UNCHANGED <<posted, lastProcessed, current, history>>

\* A cycle whose answer arrives.
PollReceives ==
  /\ batch = {} /\ current = 0
  /\ LoadOffset
  /\ confirmed' = ConfirmedBy(Offset)
  /\ Answer
  /\ UNCHANGED lateConfirm

\* Telegram answers before it has taken note of the new offset.
PollReceivesStale ==
  /\ batch = {} /\ current = 0
  /\ confirmed < ConfirmedBy(Offset)
  /\ LoadOffset
  /\ UNCHANGED confirmed
  /\ Answer
  /\ lateConfirm' = TRUE

\* A cycle without a usable answer: no pipe or child, a timeout, an HTTP or
\* API error, a truncated answer, no memory.  The request may have arrived.
PollFails ==
  /\ batch = {} /\ current = 0
  /\ LoadOffset
  /\ confirmed' \in {confirmed, ConfirmedBy(Offset)}
  /\ UNCHANGED <<posted, lastProcessed, batch, current, history, lateConfirm>>

----------------------------------------------------------------------------
(* process_updates() *)

\* An update that is not newer than the last processed one.
SkipDuplicate(id) ==
  /\ current = 0 /\ Oldest(id)
  /\ id <= lastProcessed
  /\ batch' = batch \ {id}
  /\ UNCHANGED <<posted, confirmed, offsetFile, nextOffset, lastProcessed, current,
                 history, badSave, lateConfirm>>

\* The position moves past the update, in memory and in the file, before it
\* is looked at; a refused update ends there.
MutTakeBatch(id) ==
  /\ current = 0 /\ Oldest(id)
  /\ id > lastProcessed
  /\ lastProcessed' = id
  /\ \E last \in batch : /\ \A other \in batch : other <= last
                         /\ nextOffset' = last + 1
                         /\ Save(last + 1)
  /\ taken' = taken \cup {id}
  /\ current' = IF posted[id] = "refused" THEN 0 ELSE id
  /\ batch' = batch \ {id}
  /\ UNCHANGED <<posted, confirmed, handledNow, handledBefore, restarts, lateConfirm>>
MutTakeUnchecked(id) ==
  /\ current = 0 /\ Oldest(id)
  /\ lastProcessed' = id
  /\ nextOffset' = id + 1
  /\ Save(id + 1)
  /\ taken' = taken \cup {id}
  /\ current' = IF posted[id] = "refused" THEN 0 ELSE id
  /\ batch' = batch \ {id}
  /\ UNCHANGED <<posted, confirmed, handledNow, handledBefore, restarts, lateConfirm>>
MutTakeSavesOnly(id) ==
  /\ current = 0 /\ Oldest(id)
  /\ id > lastProcessed
  /\ lastProcessed' = id
  /\ Save(id + 1)
  /\ taken' = taken \cup {id}
  /\ current' = IF posted[id] = "refused" THEN 0 ELSE id
  /\ batch' = batch \ {id}
  /\ UNCHANGED <<posted, confirmed, nextOffset, handledNow, handledBefore, restarts,
                 lateConfirm>>
Take(id) ==
  /\ current = 0 /\ Oldest(id)
  /\ id > lastProcessed
  /\ lastProcessed' = id
  /\ nextOffset' = id + 1
  /\ Save(id + 1)
  /\ taken' = taken \cup {id}
  /\ current' = IF posted[id] = "refused" THEN 0 ELSE id
  /\ batch' = batch \ {id}
  /\ UNCHANGED <<posted, confirmed, handledNow, handledBefore, restarts, lateConfirm>>

\* The command or upload handler returns; whether its reply arrives or not,
\* the loop goes on.
Handle ==
  /\ current # 0
  /\ handledNow' = handledNow \cup {current}
  /\ current' = 0
  /\ UNCHANGED <<posted, confirmed, offsetFile, nextOffset, lastProcessed, batch,
                 taken, handledBefore, restarts, badSave, lateConfirm>>

\* The process ends, whatever it is doing, and systemd starts it again.
Restart ==
  /\ restarts < MaxRestarts
  /\ restarts' = restarts + 1
  /\ nextOffset' = NotLoaded /\ lastProcessed' = 0
  /\ batch' = {} /\ current' = 0
  /\ handledBefore' = handledBefore \cup handledNow /\ handledNow' = {}
  /\ UNCHANGED <<posted, confirmed, offsetFile, taken, badSave, lateConfirm>>

----------------------------------------------------------------------------
Init ==
  /\ posted = <<>> /\ confirmed = 0 /\ offsetFile = 0
  /\ nextOffset = NotLoaded /\ lastProcessed = 0 /\ batch = {} /\ current = 0
  /\ taken = {} /\ handledNow = {} /\ handledBefore = {} /\ restarts = 0
  /\ badSave = FALSE /\ lateConfirm = FALSE

Next ==
  \/ \E kind \in Kinds : Post(kind)
  \/ PollReceives
  \/ PollReceivesStale
  \/ PollFails
  \/ \E id \in batch : SkipDuplicate(id) \/ Take(id)
  \/ Handle
  \/ Restart

Spec == Init /\ [][Next]_vars

\* The main loop polls again and again and handlers return; of infinitely
\* many cycles some get an answer that honours their offset.
Fairness ==
  /\ SF_vars(PollReceives)
  /\ WF_vars(Handle \/ \E id \in batch : SkipDuplicate(id) \/ Take(id))

FairSpec == Spec /\ Fairness

----------------------------------------------------------------------------
(* Properties *)

TypeOK ==
  /\ posted \in Seq(Kinds) /\ Len(posted) <= MaxUpdates
  /\ confirmed \in 0..Len(posted)
  /\ offsetFile \in 0..(Len(posted) + 1)
  /\ nextOffset \in {NotLoaded} \cup 0..(Len(posted) + 1)
  /\ lastProcessed \in {0} \cup Ids
  /\ batch \subseteq Ids
  /\ current \in {0} \cup Ids
  /\ taken \subseteq Ids /\ handledNow \subseteq Ids /\ handledBefore \subseteq Ids
  /\ restarts \in 0..MaxRestarts
  /\ badSave \in BOOLEAN /\ lateConfirm \in BOOLEAN

\* Telegram is never told to forget an update the loop did not come to,
\* whatever saves fail and wherever the process ends.
NothingForgotten == \A id \in 1..confirmed : id \in taken \/ posted[id] = "other"

\* Handlers run in the order of the updates and, within a run of the process,
\* at most once, even when Telegram delivers an update again.
OncePerRun == current # 0 => \A id \in handledNow : id < current

\* Across restarts too, as long as saves succeed and offsets are honoured.
OnceAcrossRestarts ==
  current # 0 /\ ~badSave /\ ~lateConfirm
    => \A id \in handledNow \cup handledBefore : id < current

\* A restart loses at most the one update whose handler was running.
LossBounded ==
  LET lost == {id \in taken \cup 1..confirmed :
                 /\ posted[id] = "command"
                 /\ id \notin handledNow \cup handledBefore \cup {current}}
  IN  Cardinality(lost) <= restarts

\* Updates the parser drops never move the offset, so BatchLimit of them in a
\* row hide what follows.
Hidden(id) ==
  \E first \in Ids : /\ first + BatchLimit <= id
                     /\ \A i \in first..(first + BatchLimit - 1) : posted[i] = "other"

\* Whatever requests, answers and saves fail, and after the last restart, the
\* loop comes to every update that is not hidden.
UpdatesReached ==
  \A id \in 1..MaxUpdates :
    (id \in Ids /\ posted[id] # "other" /\ ~Hidden(id)) ~> (id \in taken)

\* "no duplicate messages" (README.md): as long as Telegram honours offsets,
\* no update is handled a second time.
NoDuplicates == ~lateConfirm => current \notin handledNow \cup handledBefore

\* "Neither text nor document -- skip this update" (telegram_parser.c): the
\* bot gets past an update the parser drops.
DroppedIsSkipped ==
  \A id \in 1..MaxUpdates :
    (id \in Ids /\ posted[id] = "other") ~> (confirmed >= id)
============================================================================
