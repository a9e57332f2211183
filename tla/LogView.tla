------------------------------ MODULE LogView ------------------------------
(***************************************************************************)
(* /logs: cmd_logs_v2() of cmd_services.c, logs_get() of logs.c with the   *)
(* filter of logs_filter.c.  journalctl runs through exec_command(); here  *)
(* it fails or answers with one of Journals.                               *)
(*                                                                         *)
(* A journal is a sequence of lines [kind, len, has]: its kind ("text",    *)
(* "reboot" for the marker, "begin" for journald's own header), the length *)
(* and the words it holds once carriage return and colours are stripped.   *)
(* Empty lines are none: strtok_r() skips them.  An argument is            *)
(* [is, n, word]: "absent", a "number" (all digits) or a "text".  Only one *)
(* word reaches the filter, for sscanf() splits at every space.            *)
(* A definition named MutX is X with a plausible slip; no action uses it.  *)
(***************************************************************************)
EXTENDS Integers, SequencesExt, FiniteSetsExt

CONSTANTS
  Journals,     \* what journalctl may print
  Requests,     \* [svc, first, second]: the arguments of /logs
  Groups,       \* [word -> the patterns it stands for], the semantic words
  WordLen,      \* [word -> its length]
  OddWords,     \* words with a character that is not allowed
  LinesMax,     \* LOGS_MAX_LINES
  LinesDefault, \* LOGS_DEFAULT_LINES
  IntMax,       \* INT_MAX
  SoftCap,      \* LOGS_BUFFER_SOFT_CAP
  ViewSize,     \* size of the response buffer
  ViewHead,     \* length of the header
  MarkerLen,    \* length of the line for a reboot
  CutLen        \* length of the mark for a cut

JournalLine == [kind : {"text", "reboot", "begin"}, len : Nat, has : SUBSET STRING]
Reboots(j) == {k \in DOMAIN j : j[k].kind = "reboot"}

\* The reboot markers of one request do not fill the buffer up to the cap: 200
\* of 16 bytes do not.
ASSUME LogViewConstantsOK ==
  /\ Journals \subseteq Seq(JournalLine)
  /\ LinesDefault \in 1..LinesMax
  /\ {LinesMax, IntMax, SoftCap, ViewSize, ViewHead, MarkerLen, CutLen} \subseteq Nat
  /\ ViewHead <= SoftCap /\ SoftCap + CutLen < ViewSize
  /\ \A j \in Journals : ViewHead + MarkerLen * Cardinality(Reboots(j)) <= SoftCap

VARIABLES
  vpc,      \* "idle", "journal", "lines", "fallback", "answered"
  ask,      \* [svc, count, filter] once the arguments are accepted
  journal,  \* tmp: the lines to go through
  global,   \* the second run, without a service
  at,       \* the line strtok_r() is at
  used,     \* bytes of the response
  shown,    \* lines of the journal in the response, markers included
  matched,  \* res.matched
  cut,      \* the response ends with the mark for a cut
  reply     \* what was answered

viewAnswer == <<used, shown, matched, cut>>
viewVars == <<vpc, ask, journal, global, at, viewAnswer, reply>>

----------------------------------------------------------------------------
NoFilter == "no_filter"
NoAsk == [svc |-> "", count |-> LinesDefault, filter |-> NoFilter]

Answers(r) == vpc' = "answered" /\ reply' = r

\* Which argument the filter is, and what is wrong with the arguments.  The
\* command looks at the characters of all of them; that logs_get() would allow
\* a "." in a filter, and has a menu of its own, comes too late.
FilterOf(q) ==
  CASE q.second.is # "absent" -> q.second.word
    [] q.second.is = "absent" /\ q.first.is = "text" -> q.first.word
    [] OTHER -> NoFilter

OddArgs(q) == {q.first.word, q.second.word} \cap OddWords # {}
BadNumber(q) == q.first.is = "number" /\ q.first.n \notin 1..IntMax
BadFilter(w) == w # NoFilter /\ WordLen[w] \notin 3..32

Clamped(q) ==
  CASE q.first.is # "number" -> LinesDefault
    [] q.first.is = "number" /\ q.first.n > LinesMax -> LinesMax
    [] OTHER -> q.first.n

\* What logs_get() says of an error is overwritten by the command.  No memory
\* is one of the errors.
ViewRefused ==
  /\ vpc = "idle"
  /\ \E q \in Requests :
       \/ q.svc = "" /\ Answers("menu")
       \/ q.svc # "" /\ OddArgs(q) /\ Answers("invalid_arguments")
       \/ q.svc # "" /\ ~OddArgs(q) /\ Answers("failed")
  /\ UNCHANGED <<ask, journal, global, at, viewAnswer>>

ViewAccepted ==
  /\ vpc = "idle"
  /\ \E q \in Requests :
       /\ q.svc = "known" /\ ~OddArgs(q) /\ ~BadNumber(q) /\ ~BadFilter(FilterOf(q))
       /\ ask' = [svc |-> q.svc, count |-> Clamped(q), filter |-> FilterOf(q)]
  /\ vpc' = "journal"
  /\ used' = ViewHead
  /\ UNCHANGED <<journal, global, at, shown, matched, cut, reply>>

\* exec_command(): for the service, or for the whole journal.
JournalRead ==
  /\ vpc \in {"journal", "fallback"}
  /\ journal' \in Journals
  /\ global' = (vpc = "fallback")
  /\ at' = 1
  /\ vpc' = "lines"
  /\ UNCHANGED <<ask, viewAnswer, reply>>

JournalFails ==
  /\ vpc \in {"journal", "fallback"}
  /\ Answers("failed")
  /\ UNCHANGED <<ask, journal, global, at, viewAnswer>>

----------------------------------------------------------------------------
(* process_logs_output() *)

match_semantic(line, w) ==
  IF w \in DOMAIN Groups THEN Groups[w] \cap line.has # {} ELSE w \in line.has

Matches(line) == ask.filter = NoFilter \/ match_semantic(line, ask.filter)

Looking == vpc = "lines" /\ at <= Len(journal) /\ used <= SoftCap
Fits(line) == used + line.len < ViewSize - 5

LineSkipped ==
  /\ Looking
  /\ \/ journal[at].kind = "begin"
     \/ journal[at].kind = "text" /\ ~Matches(journal[at])
  /\ at' = at + 1
  /\ UNCHANGED <<vpc, ask, journal, global, viewAnswer, reply>>

RebootShown ==
  /\ Looking
  /\ journal[at].kind = "reboot"
  /\ used' = Min({used + MarkerLen, ViewSize - 1})
  /\ shown' = Append(shown, at)
  /\ at' = at + 1
  /\ UNCHANGED <<vpc, ask, journal, global, matched, cut, reply>>

LineShown ==
  /\ Looking
  /\ journal[at].kind = "text" /\ Matches(journal[at]) /\ Fits(journal[at])
  /\ used' = used + journal[at].len + 1
  /\ shown' = Append(shown, at)
  /\ matched' = matched + 1
  /\ at' = at + 1
  /\ UNCHANGED <<vpc, ask, journal, global, cut, reply>>

\* No line matched: the response is overwritten.
Concluded(m) ==
  Answers(CASE m > 0 -> "lines"
            [] m = 0 /\ ask.filter # NoFilter -> "no_matches"
            [] OTHER -> "none_found")

\* The first line that does not fit ends the listing; it counts as matched.
MutLineTooLong ==
  /\ Looking
  /\ journal[at].kind = "text" /\ Matches(journal[at]) /\ ~Fits(journal[at])
  /\ Concluded(matched)
  /\ UNCHANGED <<ask, journal, global, at, used, shown, matched, cut>>

LineTooLong ==
  /\ Looking
  /\ journal[at].kind = "text" /\ Matches(journal[at]) /\ ~Fits(journal[at])
  /\ matched' = matched + 1
  /\ Concluded(matched')
  /\ UNCHANGED <<ask, journal, global, at, used, shown, cut>>

\* A further line, whatever it is, when the cap is passed.
ListingCut ==
  /\ vpc = "lines" /\ at <= Len(journal) /\ used > SoftCap
  /\ used' = Min({used + CutLen, ViewSize - 1})
  /\ cut' = TRUE
  /\ Concluded(matched)
  /\ UNCHANGED <<ask, journal, global, at, shown, matched>>

\* Nothing at all for the service: once more for the whole journal.
FallsBack ==
  /\ vpc = "lines"
  /\ journal = <<>> /\ ~global
  /\ vpc' = "fallback"
  /\ used' = ViewHead
  /\ UNCHANGED <<ask, journal, global, at, shown, matched, cut, reply>>

ListingEnds ==
  /\ vpc = "lines" /\ at > Len(journal)
  /\ journal # <<>> \/ global
  /\ Concluded(matched)
  /\ UNCHANGED <<ask, journal, global, at, viewAnswer>>

Forget ==
  /\ vpc' = "idle" /\ ask' = NoAsk /\ journal' = <<>> /\ global' = FALSE /\ at' = 1
  /\ used' = 0 /\ shown' = <<>> /\ matched' = 0 /\ cut' = FALSE /\ reply' = "none_yet"

ViewReturns == vpc = "answered" /\ Forget

----------------------------------------------------------------------------
ViewInit ==
  /\ vpc = "idle" /\ ask = NoAsk /\ journal = <<>> /\ global = FALSE /\ at = 1
  /\ used = 0 /\ shown = <<>> /\ matched = 0 /\ cut = FALSE /\ reply = "none_yet"

ViewNext ==
  \/ ViewRefused \/ ViewAccepted \/ JournalRead \/ JournalFails
  \/ LineSkipped \/ RebootShown \/ LineShown \/ LineTooLong
  \/ ListingCut \/ FallsBack \/ ListingEnds \/ ViewReturns

ViewSpec == ViewInit /\ [][ViewNext]_viewVars

ViewTypeOK ==
  /\ vpc \in {"idle", "journal", "lines", "fallback", "answered"}
  /\ ask.count \in 1..LinesMax
  /\ journal \in Journals \cup {<<>>}
  /\ global \in BOOLEAN /\ cut \in BOOLEAN
  /\ at \in 1..(Len(journal) + 1)
  /\ used \in Nat /\ matched \in Nat

----------------------------------------------------------------------------
\* The lines an answer is about, said without the loop.
LinesToShow == {k \in DOMAIN journal : journal[k].kind = "text" /\ Matches(journal[k])}
ToShow == LinesToShow \cup Reboots(journal)

\* A listing holds the first of the lines that match, in order and with the
\* reboots between them, and ends before the last of them only at the cap or at
\* a line that does not fit; "no_matches" and "no logs" are said only when no
\* line matches; and the response never outgrows its buffer
\* (logs.c:239-308 and 538-552).
ViewFaithful ==
  /\ used < ViewSize
  /\ reply = "lines" =>
       /\ \A k, l \in DOMAIN shown : k < l => shown[k] < shown[l]
       /\ ToSet(shown) \subseteq ToShow
       /\ \A k \in ToShow \ ToSet(shown) :
            /\ \A l \in ToSet(shown) : l < k
            /\ \/ cut /\ used > SoftCap
               \/ at \in LinesToShow \ ToSet(shown) /\ ~Fits(journal[at])
  /\ reply \in {"no_matches", "none_found"} => LinesToShow = {} /\ ~cut
============================================================================
