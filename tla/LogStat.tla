------------------------------ MODULE LogStat ------------------------------
(***************************************************************************)
(* /logstat: logstat_analyze() and the ranking of logstat_format() in      *)
(* logstat.c.                                                              *)
(*                                                                         *)
(* A log is a sequence of lines [len, hour, level, tag]: what stands at    *)
(* the offsets the extractors read, or Nothing; with the newline a line    *)
(* takes len + 1 bytes, the last one len when the log does not end in one. *)
(* The text holds no zero byte.                                            *)
(* A definition named MutX is X with a plausible slip; no action uses it.  *)
(***************************************************************************)
EXTENDS Integers, SequencesExt, FiniteSetsExt

CONSTANTS
  StatLogs,  \* the logs there may be
  StatMax    \* LOGSTAT_MAX_SIZE

VARIABLES
  spc,       \* "idle", "open", "lines", "sort", "formatted", "failed"
  text,      \* the lines to count
  ended,     \* the last of them has its newline
  line,      \* the line of the scalar pass
  total,     \* total_lines
  levels, tags, hours,      \* the counters
  busiest,   \* busiest_hour
  order,     \* order[] of the tags
  si, sj     \* the indices of the two loops of the sort

counters == <<total, levels, tags, hours, busiest>>
sorting == <<order, si, sj>>
statVars == <<spc, text, ended, line, counters, sorting>>

----------------------------------------------------------------------------
Nothing == -1
StatLevels == 0..3               \* error, warn, info, debug
StatTags == 1..7                 \* LOGSTAT_TAG_COUNT, in the order of tag_names
Hours == 0..23
StatLine == [len : Nat, hour : Hours \cup {Nothing}, level : StatLevels \cup {Nothing},
             tag : StatTags \cup {Nothing}]

\* A last line that is empty and has no newline is no line.
ASSUME LogStatConstantsOK ==
  /\ StatMax \in Nat \ {0}
  /\ StatLogs \subseteq [text : Seq(StatLine), ended : BOOLEAN]
  /\ \A g \in StatLogs : g.ended \/ (g.text # <<>> /\ Last(g.text).len > 0)

\* What the extractors find in a line.
extract_hour(l) == IF l.len >= 15 THEN l.hour ELSE Nothing
extract_level(l) == IF l.len >= 35 THEN l.level ELSE Nothing
extract_tag(l) == IF l.len >= 43 THEN l.tag ELSE Nothing

\* Bytes up to the end of the k-th line, its newline included.
BytesTo(s, k) == FoldLeft(LAMBDA n, l : n + l.len + 1, 0, SubSeq(s, 1, k))
Bytes(s, e) == BytesTo(s, Len(s)) - (IF e THEN 0 ELSE 1)

\* The last n bytes: a line that lost its start shows nothing of its fields.
TailOf(s, e, n) ==
  LET k == Min({m \in 0..Len(s) : Bytes(s, e) - BytesTo(s, m) <= n})
      rest == SubSeq(s, k + 1, Len(s))
      part == n - (Bytes(s, e) - BytesTo(s, k))
  IN IF part = 0 THEN rest
     ELSE <<[len |-> part - 1, hour |-> Nothing, level |-> Nothing, tag |-> Nothing]>> \o rest

Newlines(s, e) == {BytesTo(s, k) : k \in 1..(IF e THEN Len(s) ELSE Len(s) - 1)}

\* count_newlines_sse42(): the mask has one bit for each of the 16 bytes of a
\* block, and pmovmskb takes bits 7 and 15 of it; the rest is counted in full.
count_newlines(s, e) ==
  LET whole == (Bytes(s, e) \div 16) * 16
  IN Cardinality({p \in Newlines(s, e) : p <= whole => p % 8 = 0})

Reset ==
  /\ line' = 1 /\ total' = 0
  /\ levels' = [l \in StatLevels \cup {Nothing} |-> 0]
  /\ tags' = [t \in StatTags |-> 0] /\ hours' = [h \in Hours |-> 0]
  /\ busiest' = 0 /\ order' = [t \in StatTags |-> t] /\ si' = 1 /\ sj' = 2

----------------------------------------------------------------------------
\* stat() of the log; an empty one has nothing to read.
Stats ==
  /\ spc = "idle"
  /\ \E g \in StatLogs : text' = g.text /\ ended' = g.ended
  /\ spc' \in IF text' = <<>> THEN {"sort", "failed"} ELSE {"open", "failed"}
  /\ UNCHANGED <<line, counters, sorting>>

\* The log may be rotated between stat() and fopen(); then it is read as it is
\* now, empty.  Newlines are counted right after the read.
OpensLog ==
  /\ spc = "open"
  /\ \E g \in {[text |-> text, ended |-> ended], [text |-> <<>>, ended |-> TRUE]} :
       LET read == IF g.text # <<>> /\ Bytes(g.text, g.ended) > StatMax
                   THEN TailOf(g.text, g.ended, StatMax) ELSE g.text
       IN /\ text' = read /\ ended' = g.ended
          /\ total' = IF read = <<>> THEN 0 ELSE count_newlines(read, g.ended)
  /\ spc' = "lines"
  /\ UNCHANGED <<line, levels, tags, hours, busiest, sorting>>

\* No memory, or the log cannot be opened.
OpenFails ==
  /\ spc = "open"
  /\ spc' = "failed"
  /\ UNCHANGED <<text, ended, line, counters, sorting>>

\* One turn of the scalar pass.
Counted ==
  /\ spc = "lines"
  /\ line <= Len(text)
  /\ LET l == text[line]
         hour == extract_hour(l)
         tag == extract_tag(l)
     IN /\ hours' = IF hour # Nothing THEN [hours EXCEPT ![hour] = @ + 1] ELSE hours
        /\ levels' = [levels EXCEPT ![extract_level(l)] = @ + 1]
        /\ tags' = IF tag # Nothing THEN [tags EXCEPT ![tag] = @ + 1] ELSE tags
  /\ line' = line + 1
  /\ UNCHANGED <<spc, text, ended, total, busiest, sorting>>

\* The first of the hours with most lines.
BusiestFound ==
  /\ spc = "lines"
  /\ line > Len(text)
  /\ busiest' = Min({h \in Hours : \A g \in Hours : hours[g] <= hours[h]})
  /\ spc' = "sort"
  /\ UNCHANGED <<text, ended, line, total, levels, tags, hours, sorting>>

\* One comparison of the sort.
MutSorts ==
  /\ spc = "sort"
  /\ si < 7
  /\ order' = IF tags[order[sj]] > tags[order[si]]
              THEN [order EXCEPT ![si] = order[sj]]
              ELSE order
  /\ si' = IF sj = 7 THEN si + 1 ELSE si
  /\ sj' = IF sj = 7 THEN si + 2 ELSE sj + 1
  /\ UNCHANGED <<spc, text, ended, line, counters>>

Sorts ==
  /\ spc = "sort"
  /\ si < 7
  /\ order' = IF tags[order[sj]] > tags[order[si]]
              THEN [order EXCEPT ![si] = order[sj], ![sj] = order[si]]
              ELSE order
  /\ si' = IF sj = 7 THEN si + 1 ELSE si
  /\ sj' = IF sj = 7 THEN si + 2 ELSE sj + 1
  /\ UNCHANGED <<spc, text, ended, line, counters>>

Formats ==
  /\ spc = "sort"
  /\ si = 7
  /\ spc' = "formatted"
  /\ UNCHANGED <<text, ended, line, counters, sorting>>

StatReturns ==
  /\ spc \in {"formatted", "failed"}
  /\ spc' = "idle"
  /\ text' = <<>> /\ ended' = TRUE
  /\ Reset

----------------------------------------------------------------------------
StatInit ==
  /\ spc = "idle" /\ text = <<>> /\ ended = TRUE /\ line = 1 /\ total = 0
  /\ levels = [l \in StatLevels \cup {Nothing} |-> 0]
  /\ tags = [t \in StatTags |-> 0] /\ hours = [h \in Hours |-> 0]
  /\ busiest = 0 /\ order = [t \in StatTags |-> t] /\ si = 1 /\ sj = 2

StatNext ==
  \/ Stats \/ OpensLog \/ OpenFails \/ Counted \/ BusiestFound
  \/ Sorts \/ Formats \/ StatReturns

StatSpec == StatInit /\ [][StatNext]_statVars

StatTypeOK ==
  /\ spc \in {"idle", "open", "lines", "sort", "formatted", "failed"}
  /\ line \in 1..(Len(text) + 1)
  /\ total \in Nat
  /\ levels \in [StatLevels \cup {Nothing} -> Nat]
  /\ tags \in [StatTags -> Nat] /\ hours \in [Hours -> Nat]
  /\ busiest \in Hours
  /\ order \in [StatTags -> StatTags]
  /\ si \in 1..7 /\ sj \in 2..8

----------------------------------------------------------------------------
LinesWith(f(_), v) == Cardinality({k \in DOMAIN text : f(text[k]) = v})

\* The statistics shown agree with the lines read: every line is of one level
\* or of none, each counter is the number of its lines, no tag comes before one
\* with more lines and none is listed twice, no hour has more lines than the
\* busiest, and the number of lines is at most that of the newlines
\* (logstat.c:286-327 and 379-392).
StatsConsistent ==
  spc = "formatted" =>
    /\ \A l \in StatLevels \cup {Nothing} : levels[l] = LinesWith(extract_level, l)
    /\ \A t \in StatTags : tags[t] = LinesWith(extract_tag, t)
    /\ \A h \in Hours : hours[h] = LinesWith(extract_hour, h) /\ hours[h] <= hours[busiest]
    /\ \A t \in StatTags : \E k \in StatTags : order[k] = t
    /\ \A j, k \in StatTags : j < k => tags[order[j]] >= tags[order[k]]
    /\ total <= Cardinality(Newlines(text, ended))

\* The number of lines shown is the number of newlines read
\* (docs/architecture.md:673-684, logstat.c:44).
NewlinesCounted ==
  spc = "formatted" => total = Cardinality(Newlines(text, ended))
============================================================================
