--------------------------- MODULE SettingsProofs ---------------------------
(***************************************************************************)
(* The properties of the log and of the settings in force (Logger,         *)
(* Settings), for any configuration files, paths and bounds.               *)
(*                                                                         *)
(* LinesOrdered is not inductive: the replay of the early buffer keeps a   *)
(* file in order only because all that is in files is older than what      *)
(* waits (FilesOlder), and that because nothing waits while a file is open *)
(* (EarlyOrOpen).                                                          *)
(*                                                                         *)
(* ConfigAsWritten speaks of a fold over the lines of a file.  The second  *)
(* part proves that such a fold exists and what it comes to (FoldExists),  *)
(* by induction over a set of numbers (Induction), and from it what        *)
(* config_load() makes of any file (LoadMeaning).                          *)
(***************************************************************************)
EXTENDS Settings, WellFoundedInduction, TLAPS

\* The part of the type invariant the proofs use.
LogTypes ==
  /\ lines \in Nat
  /\ early \in Seq(Nat)
  /\ disk \in Seq(Seq(Nat))
  /\ handle \in 0..Len(disk)
  /\ dir \in [LogPaths -> 0..Len(disk)]

\* No line is in a file or waits before it was logged.
NoneAhead ==
  /\ \A i \in Inodes : \A j \in 1..Len(disk[i]) : disk[i][j] \in 1..lines
  /\ \A k \in 1..Len(early) : early[k] \in 1..lines

EarlyOrOpen == handle # 0 => early = <<>>

FilesOlder ==
  \A i \in Inodes : \A j \in 1..Len(disk[i]) : \A k \in 1..Len(early) :
    disk[i][j] < early[k]

\* LinesOrdered, line by line.
InOrder ==
  /\ \A i \in Inodes : \A j, k \in 1..Len(disk[i]) : j < k => disk[i][j] < disk[i][k]
  /\ \A j, k \in 1..Len(early) : j < k => early[j] < early[k]

Apart ==
  \A i, m \in Inodes : \A j \in 1..Len(disk[i]) : \A k \in 1..Len(disk[m]) :
    i # m => disk[i][j] # disk[m][k]

\* LinesKept, line by line.
Somewhere ==
  \A n \in 1..lines :
    \/ \E i \in Inodes : \E j \in 1..Len(disk[i]) : disk[i][j] = n
    \/ n \in echoed \cup spoilt

Seen ==
  /\ echoed \subseteq 1..lines /\ spoilt \subseteq 1..lines
  /\ \A k \in 1..Len(early) : early[k] \in echoed

LInv ==
  LogTypes /\ NoneAhead /\ EarlyOrOpen /\ FilesOlder /\ InOrder /\ Apart /\ Somewhere /\ Seen

\* Facts of sequences, for the provers.
LEMMA SeqFacts ==
  /\ \A s \in Seq(Nat) : Len(s) \in Nat /\ \A j \in 1..Len(s) : s[j] \in Nat
  /\ \A d \in Seq(Seq(Nat)) : Len(d) \in Nat /\ \A i \in 1..Len(d) : d[i] \in Seq(Nat)
OBVIOUS

\* The elements of a longer one.
LEMMA ConcatFacts ==
  ASSUME NEW s \in Seq(Nat), NEW t \in Seq(Nat)
  PROVE  /\ s \o t \in Seq(Nat) /\ Len(s \o t) = Len(s) + Len(t)
         /\ \A j \in 1..Len(s) : (s \o t)[j] = s[j]
         /\ \A k \in 1..Len(t) : (s \o t)[Len(s) + k] = t[k]
OBVIOUS

LEMMA AppendFacts ==
  ASSUME NEW s \in Seq(Nat), NEW n \in Nat
  PROVE  /\ Append(s, n) \in Seq(Nat) /\ Len(Append(s, n)) = Len(s) + 1
         /\ \A j \in 1..Len(s) : Append(s, n)[j] = s[j]
         /\ Append(s, n)[Len(s) + 1] = n
OBVIOUS

\* No position is one of the empty sequence.
LEMMA EmptyFact == \A j : j \notin 1..Len(<<>>)
OBVIOUS

\* What the invariant says of the lines.
LEMMA InvLines == LInv => LinesKept /\ LinesOrdered
<1> SUFFICES ASSUME LInv PROVE LinesKept /\ LinesOrdered
  OBVIOUS
<1> USE DEF LInv, Inodes
<1>1. \A n : n \in Filed <=> \E i \in Inodes : \E j \in 1..Len(disk[i]) : disk[i][j] = n
  BY DEF Filed, RangeOf
<1>2. (1..lines) = Filed \cup echoed \cup spoilt
  <2>1. ASSUME NEW n \in 1..lines PROVE n \in Filed \cup echoed \cup spoilt
    BY <1>1 DEF Somewhere
  <2>2. ASSUME NEW n \in Filed PROVE n \in 1..lines
    BY <1>1 DEF NoneAhead
  <2> QED
    BY <2>1, <2>2 DEF Seen
<1>3. RangeOf(early) \subseteq echoed
  BY DEF RangeOf, Seen
<1>4. LinesKept
  BY <1>2, <1>3 DEF LinesKept
<1>5. \A i \in Inodes : RangeOf(disk[i]) \cap RangeOf(early) = {}
  <2>1. SUFFICES ASSUME NEW i \in Inodes, NEW j \in 1..Len(disk[i]), NEW k \in 1..Len(early)
                 PROVE  disk[i][j] # early[k]
    BY DEF RangeOf
  <2>2. disk[i][j] < early[k] /\ disk[i][j] \in Int /\ early[k] \in Int
    BY DEF FilesOlder, NoneAhead
  <2> QED
    BY <2>2
<1>6. \A i, m \in Inodes : i # m => RangeOf(disk[i]) \cap RangeOf(disk[m]) = {}
  BY DEF RangeOf, Apart
<1>7. LinesOrdered
  BY <1>5, <1>6 DEF LinesOrdered, InOrder
<1> QED
  BY <1>4, <1>7

----------------------------------------------------------------------------
(* What the functions of logger.c do to the invariant. *)

\* A path leads to a file of the directory, perhaps a new and empty one.
LEMMA PathOpened ==
  ASSUME LInv, NEW path \in LogPaths
  PROVE  /\ DiskWith(path) \in Seq(Seq(Nat))
         /\ InodeOf(path) \in 1..Len(DiskWith(path))
         /\ Len(DiskWith(path)) >= Len(disk)
         /\ \A i \in Inodes : DiskWith(path)[i] = disk[i]
         /\ \A i \in 1..Len(DiskWith(path)) : i \notin Inodes => DiskWith(path)[i] = <<>>
<1>1. disk \in Seq(Seq(Nat)) /\ Len(disk) \in Nat /\ dir[path] \in 0..Len(disk) /\ <<>> \in Seq(Nat)
  BY SeqFacts DEF LInv, LogTypes
<1>2. CASE dir[path] = 0
  <2>1. DiskWith(path) = Append(disk, <<>>) /\ InodeOf(path) = Len(disk) + 1
    BY <1>2 DEF DiskWith, InodeOf
  <2>2. /\ Append(disk, <<>>) \in Seq(Seq(Nat)) /\ Len(Append(disk, <<>>)) = Len(disk) + 1
        /\ \A i \in 1..Len(disk) : Append(disk, <<>>)[i] = disk[i]
        /\ Append(disk, <<>>)[Len(disk) + 1] = <<>>
    BY <1>1
  <2> QED
    BY <1>1, <2>1, <2>2 DEF Inodes
<1>3. CASE dir[path] # 0
  BY <1>1, <1>3 DEF DiskWith, InodeOf, Inodes
<1> QED
  BY <1>2, <1>3

\* What holds of the disk holds of one that differs in empty files, whether the
\* early lines stay or are dropped.
LEMMA SameLines ==
  ASSUME LInv, NEW d \in Seq(Seq(Nat)), Len(d) >= Len(disk),
         \A i \in Inodes : d[i] = disk[i],
         \A i \in 1..Len(d) : i \notin Inodes => d[i] = <<>>,
         disk' = d, handle' \in 0..Len(d), dir' \in [LogPaths -> 0..Len(d)],
         UNCHANGED <<lines, echoed, spoilt>>,
         early' = early \/ early' = <<>>,
         handle' # 0 => early' = <<>>
  PROVE  LInv'
<1>1. /\ Len(disk) \in Nat /\ Len(d) \in Nat /\ Inodes = 1..Len(disk) /\ Inodes' = 1..Len(d)
      /\ Inodes \subseteq Inodes'
  BY SeqFacts DEF LInv, LogTypes, Inodes
<1>2. lines' = lines /\ echoed' = echoed /\ spoilt' = spoilt
  OBVIOUS
<1>3. \A i \in Inodes' : (i \in Inodes /\ disk'[i] = disk[i]) \/ disk'[i] = <<>>
  BY <1>1
<1>4. \A j : j \notin 1..Len(<<>>)
  BY EmptyFact
<1>5. ASSUME NEW i \in Inodes', NEW j \in 1..Len(disk'[i])
      PROVE  i \in Inodes /\ disk'[i] = disk[i] /\ j \in 1..Len(disk[i])
  BY <1>3, <1>4
<1>6. /\ early' \in Seq(Nat)
      /\ \A k \in 1..Len(early') : k \in 1..Len(early) /\ early'[k] = early[k]
  <2>1. CASE early' = early
    BY <2>1 DEF LInv, LogTypes
  <2>2. CASE early' = <<>>
    BY <1>4, <2>2
  <2> QED
    BY <2>1, <2>2
<1>7. LogTypes'
  BY <1>2, <1>6 DEF LInv, LogTypes
<1>8. NoneAhead'
  BY <1>2, <1>5, <1>6 DEF LInv, NoneAhead
<1>9. EarlyOrOpen' /\ FilesOlder'
  <2>1. SUFFICES ASSUME NEW i \in Inodes', NEW j \in 1..Len(disk'[i]), NEW k \in 1..Len(early')
                 PROVE  disk'[i][j] < early'[k]
    BY DEF EarlyOrOpen, FilesOlder
  <2> QED
    BY <1>5, <1>6 DEF LInv, FilesOlder
<1>10. InOrder'
  <2>1. ASSUME NEW i \in Inodes', NEW j \in 1..Len(disk'[i]), NEW k \in 1..Len(disk'[i]), j < k
        PROVE  disk'[i][j] < disk'[i][k]
    <3>1. i \in Inodes /\ disk'[i] = disk[i]
      BY <1>5
    <3> QED
      BY <2>1, <3>1 DEF LInv, InOrder
  <2>2. ASSUME NEW j \in 1..Len(early'), NEW k \in 1..Len(early'), j < k
        PROVE  early'[j] < early'[k]
    BY <1>6, <2>2 DEF LInv, InOrder
  <2> QED
    BY <2>1, <2>2 DEF InOrder
<1>11. Apart'
  <2>1. ASSUME NEW i \in Inodes', NEW m \in Inodes', NEW j \in 1..Len(disk'[i]),
               NEW k \in 1..Len(disk'[m]), i # m
        PROVE  disk'[i][j] # disk'[m][k]
    <3>1. i \in Inodes /\ disk'[i] = disk[i] /\ m \in Inodes /\ disk'[m] = disk[m]
      BY <1>5
    <3> QED
      BY <2>1, <3>1 DEF LInv, Apart
  <2> QED
    BY <2>1, Zenon DEF Apart
<1>12. Somewhere'
  <2>1. SUFFICES ASSUME NEW n \in 1..lines, n \notin echoed \cup spoilt
                 PROVE  \E i \in Inodes' : \E j \in 1..Len(disk'[i]) : disk'[i][j] = n
    BY <1>2 DEF Somewhere
  <2>2. PICK i \in Inodes : \E j \in 1..Len(disk[i]) : disk[i][j] = n
    BY <2>1 DEF LInv, Somewhere
  <2>3. i \in Inodes' /\ disk'[i] = disk[i]
    BY <1>1
  <2> QED
    BY <2>2, <2>3
<1>13. Seen'
  BY <1>2, <1>6 DEF LInv, Seen
<1> QED
  BY <1>7, <1>8, <1>9, <1>10, <1>11, <1>12, <1>13 DEF LInv

\* fopen() succeeds: the early lines are appended to the file.
LEMMA OpenedKeeps ==
  ASSUME LInv, NEW path \in LogPaths, Opened(path), UNCHANGED <<lines, echoed, spoilt>>
  PROVE  LInv'
<1> DEFINE d == DiskWith(path)
           f == InodeOf(path)
<1>1. /\ d \in Seq(Seq(Nat)) /\ f \in 1..Len(d) /\ Len(d) >= Len(disk)
      /\ \A i \in Inodes : d[i] = disk[i]
      /\ \A i \in 1..Len(d) : i \notin Inodes => d[i] = <<>>
  BY PathOpened
<1>2. /\ handle' = f /\ early' = <<>> /\ disk' = [d EXCEPT ![f] = d[f] \o early]
      /\ dir' = [dir EXCEPT ![path] = f]
  BY DEF Opened
<1> HIDE DEF d, f
<1>3. /\ Len(d) \in Nat /\ Len(disk) \in Nat /\ d[f] \in Seq(Nat) /\ Len(d[f]) \in Nat
      /\ early \in Seq(Nat) /\ Len(early) \in Nat /\ d[f] \o early \in Seq(Nat)
  BY <1>1, SeqFacts DEF LInv, LogTypes
<1>4. disk' \in Seq(Seq(Nat)) /\ Len(disk') = Len(d) /\ Inodes' = 1..Len(d)
  BY <1>1, <1>2, <1>3 DEF Inodes
<1>5. \A i \in 1..Len(d) : disk'[i] = IF i = f THEN d[f] \o early ELSE d[i]
  BY <1>1, <1>2, <1>3
<1>6. /\ Len(disk'[f]) = Len(d[f]) + Len(early)
      /\ \A j \in 1..Len(d[f]) : disk'[f][j] = d[f][j]
      /\ \A k \in 1..Len(early) : disk'[f][Len(d[f]) + k] = early[k]
  <2>1. disk'[f] = d[f] \o early
    BY <1>1, <1>5
  <2> QED
    BY <1>3, <2>1, ConcatFacts
\* A line of the new disk is an old one or was waiting.
<1>7. ASSUME NEW i \in Inodes', NEW j \in 1..Len(disk'[i])
      PROVE  \/ i \in Inodes /\ j \in 1..Len(disk[i]) /\ disk'[i][j] = disk[i][j]
             \/ /\ i = f /\ j > Len(d[f]) /\ j - Len(d[f]) \in 1..Len(early)
                /\ disk'[i][j] = early[j - Len(d[f])]
  <2>0. i \in Inodes \/ d[i] = <<>>
    BY <1>1, <1>4
  <2>1. CASE i # f
    <3>1. disk'[i] = d[i]
      BY <1>4, <1>5, <2>1
    <3>2. i \in Inodes /\ d[i] = disk[i]
      BY <1>1, <2>0, <3>1, EmptyFact
    <3> QED
      BY <3>1, <3>2
  <2>2. CASE i = f /\ j <= Len(d[f])
    <3>1. disk'[i][j] = d[f][j] /\ j \in 1..Len(d[f])
      BY <1>3, <1>6, <2>2
    <3>2. i \in Inodes /\ d[i] = disk[i]
      BY <1>1, <2>0, <2>2, <3>1, EmptyFact
    <3> QED
      BY <2>2, <3>1, <3>2
  <2>3. CASE i = f /\ j > Len(d[f])
    <3>1. j - Len(d[f]) \in 1..Len(early) /\ j = Len(d[f]) + (j - Len(d[f]))
      BY <1>3, <1>6, <2>3, SMTT(30)
    <3> QED
      BY <1>6, <2>3, <3>1
  <2> QED
    BY <2>1, <2>2, <2>3, <1>3
<1>8. LogTypes'
  BY <1>1, <1>2, <1>3, <1>4 DEF LInv, LogTypes
<1>9. NoneAhead'
  BY <1>2, <1>7 DEF LInv, NoneAhead
<1>10. EarlyOrOpen' /\ FilesOlder'
  BY <1>2 DEF EarlyOrOpen, FilesOlder
<1>11. InOrder'
  <2>1. SUFFICES ASSUME NEW i \in Inodes', NEW j \in 1..Len(disk'[i]), NEW k \in 1..Len(disk'[i]), j < k
                 PROVE  disk'[i][j] < disk'[i][k]
    BY <1>2 DEF InOrder
  <2>2. i \in Inodes => Len(disk[i]) = Len(d[i])
    BY <1>1
  <2>3. CASE j > Len(d[f]) /\ i = f
    <3>1. /\ disk'[i][j] = early[j - Len(d[f])] /\ disk'[i][k] = early[k - Len(d[f])]
          /\ j - Len(d[f]) \in 1..Len(early) /\ k - Len(d[f]) \in 1..Len(early)
          /\ j - Len(d[f]) < k - Len(d[f])
      <4>1. \A x \in 1..Len(disk'[f]) : x > Len(d[f]) =>
              x - Len(d[f]) \in 1..Len(early) /\ disk'[f][x] = early[x - Len(d[f])]
        <5> TAKE x \in 1..Len(disk'[f])
        <5>1. SUFFICES ASSUME x > Len(d[f])
                       PROVE  x - Len(d[f]) \in 1..Len(early) /\ disk'[f][x] = early[x - Len(d[f])]
          OBVIOUS
        <5>2. x - Len(d[f]) \in 1..Len(early) /\ x = Len(d[f]) + (x - Len(d[f]))
          BY <1>3, <1>6, <5>1
        <5> QED
          BY <1>6, <5>2
      <4>2. j \in Nat /\ k \in Nat /\ Len(disk'[f]) \in Nat
        BY <1>3, <1>6, <2>3
      <4>3. k > Len(d[f]) /\ j \in 1..Len(disk'[f]) /\ k \in 1..Len(disk'[f])
        BY <1>3, <2>1, <2>3, <4>2
      <4>4. /\ j - Len(d[f]) \in 1..Len(early) /\ disk'[f][j] = early[j - Len(d[f])]
            /\ k - Len(d[f]) \in 1..Len(early) /\ disk'[f][k] = early[k - Len(d[f])]
        BY <2>3, <4>1, <4>3
      <4> QED
        BY <1>3, <2>1, <2>3, <4>2, <4>4
    <3> QED
      BY <3>1 DEF LInv, InOrder
  <2>4. CASE ~(j > Len(d[f]) /\ i = f)
    <3>1. i \in Inodes /\ j \in 1..Len(disk[i]) /\ disk'[i][j] = disk[i][j]
      BY <1>7, <2>4
    <3> QED
      BY <1>7, <2>1, <3>1 DEF LInv, InOrder, FilesOlder
  <2> QED
    BY <2>3, <2>4
<1>12. Apart'
  <2>2. \A n \in Inodes : \A l \in 1..Len(disk[n]) : \A q \in 1..Len(early) :
          disk[n][l] # early[q]
    BY DEF LInv, FilesOlder, NoneAhead
  <2>3. ASSUME NEW i \in Inodes', NEW m \in Inodes', NEW j \in 1..Len(disk'[i]),
               NEW k \in 1..Len(disk'[m]), i # m
        PROVE  disk'[i][j] # disk'[m][k]
    <3> DEFINE Old(x, l) == x \in Inodes /\ l \in 1..Len(disk[x]) /\ disk'[x][l] = disk[x][l]
               Waited(x, l) == /\ x = f
                               /\ \E q \in 1..Len(early) : disk'[x][l] = early[q]
    <3>1. (Old(i, j) \/ Waited(i, j)) /\ (Old(m, k) \/ Waited(m, k))
      BY <1>7
    <3>2. CASE Old(i, j) /\ Old(m, k)
      BY <2>3, <3>2 DEF LInv, Apart
    <3>3. CASE Old(i, j) /\ Waited(m, k)
      BY <2>2, <3>3
    <3>4. CASE Waited(i, j) /\ Old(m, k)
      BY <2>2, <3>4
    <3> QED
      BY <2>3, <3>1, <3>2, <3>3, <3>4
  <2> QED
    BY <2>3, Zenon DEF Apart
<1>13. Somewhere'
  <2>1. SUFFICES ASSUME NEW n \in 1..lines, n \notin echoed \cup spoilt
                 PROVE  \E i \in Inodes' : \E j \in 1..Len(disk'[i]) : disk'[i][j] = n
    BY DEF Somewhere
  <2>2. PICK i \in Inodes : \E j \in 1..Len(disk[i]) : disk[i][j] = n
    BY <2>1 DEF LInv, Somewhere
  <2>3. PICK j \in 1..Len(disk[i]) : disk[i][j] = n
    BY <2>2
  <2>4. i \in Inodes' /\ d[i] = disk[i]
    BY <1>1, <1>3, <1>4 DEF Inodes
  <2>5. j \in 1..Len(disk'[i]) /\ disk'[i][j] = n
    <3>1. CASE i = f
      <4>1. j \in 1..Len(d[f]) /\ d[f][j] = n
        BY <2>3, <2>4, <3>1
      <4> QED
        BY <1>3, <1>6, <3>1, <4>1, SMTT(30)
    <3>2. CASE i # f
      BY <1>4, <1>5, <2>3, <2>4, <3>2
    <3> QED
      BY <3>1, <3>2
  <2> QED
    BY <2>4, <2>5
<1>14. Seen'
  BY <1>2 DEF LInv, Seen
<1> QED
  BY <1>8, <1>9, <1>10, <1>11, <1>12, <1>13, <1>14 DEF LInv

\* log_msg() without a file.
LEMMA BufferedKeeps ==
  ASSUME LInv, Buffered, lines' = lines + 1, UNCHANGED <<handle, dir>>
  PROVE  LInv'
<1>1. /\ lines \in Nat /\ lines + 1 \in Nat /\ early \in Seq(Nat) /\ Len(early) \in Nat
      /\ handle = 0 /\ handle' = 0 /\ disk' = disk /\ Inodes' = Inodes /\ spoilt' = spoilt
      /\ echoed' = echoed \cup {lines + 1} /\ dir' = dir
  BY SeqFacts DEF LInv, LogTypes, Buffered, Inodes
<1>2. /\ early' \in Seq(Nat) /\ Len(early') \in Nat
      /\ \A k \in 1..Len(early') :
           \/ k \in 1..Len(early) /\ early'[k] = early[k]
           \/ k = Len(early') /\ k = Len(early) + 1 /\ early'[k] = lines + 1
  <2>1. CASE early' = early
    BY <1>1, <2>1
  <2>2. CASE early' = Append(early, lines + 1)
    <3>1. /\ early' \in Seq(Nat) /\ Len(early') = Len(early) + 1
          /\ \A j \in 1..Len(early) : early'[j] = early[j]
          /\ early'[Len(early) + 1] = lines + 1
      BY <1>1, <2>2, AppendFacts
    <3>2. \A k \in 1..Len(early) + 1 : k \in 1..Len(early) \/ k = Len(early) + 1
      BY <1>1
    <3> QED
      BY <1>1, <3>1, <3>2
  <2> QED
    BY <2>1, <2>2 DEF Buffered
<1>3. LogTypes'
  BY <1>1, <1>2 DEF LInv, LogTypes
<1>4. NoneAhead'
  <2>1. ASSUME NEW i \in Inodes', NEW j \in 1..Len(disk'[i]) PROVE disk'[i][j] \in 1..lines'
    <3>1. disk[i][j] \in 1..lines
      BY <1>1, <2>1 DEF LInv, NoneAhead
    <3> QED
      BY <1>1, <3>1
  <2>2. ASSUME NEW k \in 1..Len(early') PROVE early'[k] \in 1..lines'
    <3>1. early'[k] \in 1..lines \/ early'[k] = lines + 1
      BY <1>2, <2>2 DEF LInv, NoneAhead
    <3> QED
      BY <1>1, <3>1
  <2> QED
    BY <2>1, <2>2 DEF NoneAhead
<1>5. EarlyOrOpen'
  BY <1>1 DEF EarlyOrOpen
<1>6. FilesOlder'
  <2>1. ASSUME NEW i \in Inodes', NEW j \in 1..Len(disk'[i]), NEW k \in 1..Len(early')
        PROVE  disk'[i][j] < early'[k]
    <3>1. disk[i][j] \in 1..lines /\ disk'[i] = disk[i] /\ i \in Inodes
      BY <1>1, <2>1 DEF LInv, NoneAhead
    <3>2. CASE k \in 1..Len(early) /\ early'[k] = early[k]
      BY <1>1, <2>1, <3>1, <3>2 DEF LInv, FilesOlder
    <3>3. CASE early'[k] = lines + 1
      BY <1>1, <3>1, <3>3
    <3> QED
      BY <1>2, <3>2, <3>3
  <2> QED
    BY <2>1 DEF FilesOlder
<1>7. InOrder'
  <2>1. \A i \in Inodes' : \A j, k \in 1..Len(disk'[i]) : j < k => disk'[i][j] < disk'[i][k]
    BY <1>1 DEF LInv, InOrder
  <2>2. ASSUME NEW j \in 1..Len(early'), NEW k \in 1..Len(early'), j < k
        PROVE  early'[j] < early'[k]
    <3>1. j \in 1..Len(early) /\ early'[j] = early[j] /\ early[j] \in 1..lines
      BY <1>1, <1>2, <2>2 DEF LInv, NoneAhead
    <3>2. CASE k \in 1..Len(early) /\ early'[k] = early[k]
      BY <2>2, <3>1, <3>2 DEF LInv, InOrder
    <3>3. CASE early'[k] = lines + 1
      BY <1>1, <3>1, <3>3
    <3> QED
      BY <1>2, <3>2, <3>3
  <2> QED
    BY <2>1, <2>2 DEF InOrder
<1>8. Apart'
  BY <1>1 DEF LInv, Apart
<1>9. Somewhere'
  <2>1. ASSUME NEW n \in 1..lines', n \notin echoed' \cup spoilt'
        PROVE  \E i \in Inodes' : \E j \in 1..Len(disk'[i]) : disk'[i][j] = n
    <3>1. n \in 1..lines /\ n \notin echoed \cup spoilt
      BY <1>1, <2>1
    <3> QED
      BY <1>1, <3>1 DEF LInv, Somewhere
  <2> QED
    BY <2>1 DEF Somewhere
<1>10. Seen'
  <2>1. echoed' \subseteq 1..lines' /\ spoilt' \subseteq 1..lines'
    BY <1>1 DEF LInv, Seen
  <2>2. \A k \in 1..Len(early') : early'[k] \in echoed'
    BY <1>1, <1>2 DEF LInv, Seen
  <2> QED
    BY <2>1, <2>2 DEF Seen
<1> QED
  BY <1>3, <1>4, <1>5, <1>6, <1>7, <1>8, <1>9, <1>10 DEF LInv

\* log_msg() with a file.
LEMMA WrittenKeeps ==
  ASSUME LInv, Written, lines' = lines + 1, UNCHANGED <<handle, dir>>
  PROVE  LInv'
<1>1. /\ lines \in Nat /\ lines + 1 \in Nat /\ early' = early /\ echoed' = echoed
      /\ handle \in Inodes /\ handle' = handle /\ dir' = dir
      /\ Len(disk) \in Nat /\ disk \in Seq(Seq(Nat)) /\ disk[handle] \in Seq(Nat)
      /\ Len(disk[handle]) \in Nat
  <2>1. /\ lines \in Nat /\ disk \in Seq(Seq(Nat)) /\ handle \in 0..Len(disk) /\ handle # 0
    BY DEF LInv, LogTypes, Written
  <2>2. Len(disk) \in Nat
    BY <2>1, SeqFacts
  <2>3. handle \in Inodes
    BY <2>1, <2>2 DEF Inodes
  <2> QED
    BY <2>1, <2>2, <2>3, SeqFacts DEF Inodes, Written
<1>2. \A k : k \notin 1..Len(early)
  BY <1>1, EmptyFact DEF LInv, EarlyOrOpen, Written
<1>3. early \in Seq(Nat) /\ (handle # 0 => early = <<>>)
  BY DEF LInv, LogTypes, EarlyOrOpen
\* The line is in the file, or its write failed.
<1>4. /\ disk' \in Seq(Seq(Nat)) /\ Len(disk') = Len(disk) /\ Inodes' = Inodes
      /\ \A i \in Inodes : i # handle => disk'[i] = disk[i]
      /\ \A j \in 1..Len(disk[handle]) : disk'[handle][j] = disk[handle][j]
      /\ \/ Len(disk'[handle]) = Len(disk[handle]) /\ spoilt' = spoilt \cup {lines + 1}
         \/ /\ Len(disk'[handle]) = Len(disk[handle]) + 1 /\ spoilt' = spoilt
            /\ disk'[handle][Len(disk[handle]) + 1] = lines + 1
  <2>1. CASE disk' = disk /\ spoilt' = spoilt \cup {lines + 1}
    BY <1>1, <2>1 DEF Inodes
  <2>2. CASE disk' = [disk EXCEPT ![handle] = Append(disk[handle], lines + 1)] /\ spoilt' = spoilt
    <3>1. /\ Append(disk[handle], lines + 1) \in Seq(Nat)
          /\ Len(Append(disk[handle], lines + 1)) = Len(disk[handle]) + 1
          /\ \A j \in 1..Len(disk[handle]) :
               Append(disk[handle], lines + 1)[j] = disk[handle][j]
          /\ Append(disk[handle], lines + 1)[Len(disk[handle]) + 1] = lines + 1
      BY <1>1, AppendFacts
    <3>2. disk' \in Seq(Seq(Nat)) /\ Len(disk') = Len(disk) /\ Inodes' = Inodes
      BY <1>1, <2>2, <3>1 DEF Inodes
    <3>3. /\ disk'[handle] = Append(disk[handle], lines + 1)
          /\ \A i \in Inodes : i # handle => disk'[i] = disk[i]
      BY <1>1, <2>2 DEF Inodes
    <3> QED
      BY <2>2, <3>1, <3>2, <3>3
  <2> QED
    BY <2>1, <2>2 DEF Written
\* A line of the new disk is an old one or the last of the open file.
<1>5. ASSUME NEW i \in Inodes', NEW j \in 1..Len(disk'[i])
      PROVE  \/ i \in Inodes /\ j \in 1..Len(disk[i]) /\ disk'[i][j] = disk[i][j]
             \/ i = handle /\ j = Len(disk[handle]) + 1 /\ disk'[i][j] = lines + 1
  <2>1. CASE i # handle
    BY <1>4, <2>1
  <2>2. CASE i = handle
    <3>1. j \in 1..Len(disk[handle]) \/ (/\ j = Len(disk[handle]) + 1
                                         /\ Len(disk'[handle]) = Len(disk[handle]) + 1)
      BY <1>1, <1>4, <2>2
    <3>2. Len(disk'[handle]) = Len(disk[handle]) + 1 =>
            disk'[handle][Len(disk[handle]) + 1] = lines + 1
      BY <1>1, <1>4
    <3> QED
      BY <1>1, <1>4, <2>2, <3>1, <3>2
  <2> QED
    BY <2>1, <2>2
<1>6. \A i \in Inodes : \A j \in 1..Len(disk[i]) : disk[i][j] \in 1..lines
  BY DEF LInv, NoneAhead
<1>7. LogTypes'
  BY <1>1, <1>3, <1>4 DEF LInv, LogTypes
<1>8. NoneAhead'
  <2>1. ASSUME NEW i \in Inodes', NEW j \in 1..Len(disk'[i]) PROVE disk'[i][j] \in 1..lines'
    <3>1. disk'[i][j] \in 1..lines \/ disk'[i][j] = lines + 1
      BY <1>5, <1>6
    <3> QED
      BY <1>1, <3>1
  <2> QED
    BY <1>1, <1>2, <2>1 DEF NoneAhead
<1>9. EarlyOrOpen' /\ FilesOlder'
  BY <1>1, <1>2, <1>3 DEF EarlyOrOpen, FilesOlder
<1>10. InOrder'
  <2>1. ASSUME NEW i \in Inodes', NEW j \in 1..Len(disk'[i]), NEW k \in 1..Len(disk'[i]), j < k
        PROVE  disk'[i][j] < disk'[i][k]
    <3>1. CASE i # handle
      <4>1. i \in Inodes /\ disk'[i] = disk[i]
        BY <1>4, <3>1
      <4> QED
        BY <2>1, <4>1 DEF LInv, InOrder
    <3>2. CASE i = handle
      <4>1. Len(disk'[handle]) = Len(disk[handle]) \/ Len(disk'[handle]) = Len(disk[handle]) + 1
        BY <1>4
      <4>2. j \in 1..Len(disk[handle]) /\ disk'[handle][j] = disk[handle][j]
        <5>1. j \in Nat /\ k \in Nat /\ 1 <= j /\ j < k /\ k <= Len(disk[handle]) + 1
          BY <1>1, <2>1, <3>2, <4>1
        <5>2. j \in 1..Len(disk[handle])
          BY <1>1, <5>1
        <5> QED
          BY <1>4, <5>2
      <4>3. CASE k \in 1..Len(disk[handle])
        <5>1. disk'[handle][k] = disk[handle][k]
          BY <1>4, <4>3
        <5> QED
          BY <1>1, <2>1, <3>2, <4>2, <4>3, <5>1 DEF LInv, InOrder
      <4>4. CASE disk'[i][k] = lines + 1
        BY <1>1, <1>6, <3>2, <4>2, <4>4
      <4> QED
        BY <1>5, <3>2, <4>3, <4>4
    <3> QED
      BY <3>1, <3>2
  <2> QED
    BY <1>1, <1>2, <2>1 DEF InOrder
<1>11. Apart'
  <2>1. ASSUME NEW i \in Inodes', NEW m \in Inodes', NEW j \in 1..Len(disk'[i]),
               NEW k \in 1..Len(disk'[m]), i # m
        PROVE  disk'[i][j] # disk'[m][k]
    <3> DEFINE Old(x, l) == x \in Inodes /\ l \in 1..Len(disk[x]) /\ disk'[x][l] = disk[x][l]
               New(x, l) == x = handle /\ disk'[x][l] = lines + 1
    <3>1. (Old(i, j) \/ New(i, j)) /\ (Old(m, k) \/ New(m, k))
      BY <1>5
    <3>2. CASE Old(i, j) /\ Old(m, k)
      BY <2>1, <3>2 DEF LInv, Apart
    <3>3. CASE Old(i, j) /\ New(m, k)
      BY <1>1, <1>6, <3>3, SMTT(30)
    <3>4. CASE New(i, j) /\ Old(m, k)
      BY <1>1, <1>6, <3>4
    <3> QED
      BY <2>1, <3>1, <3>2, <3>3, <3>4
  <2> QED
    BY <2>1, Zenon DEF Apart
<1>12. Somewhere'
  <2>1. ASSUME NEW n \in 1..lines', n \notin echoed' \cup spoilt'
        PROVE  \E i \in Inodes' : \E j \in 1..Len(disk'[i]) : disk'[i][j] = n
    <3>1. CASE n = lines + 1
      <4>1. /\ Len(disk'[handle]) = Len(disk[handle]) + 1
            /\ disk'[handle][Len(disk[handle]) + 1] = lines + 1
        BY <1>4, <2>1, <3>1
      <4>2. Len(disk[handle]) + 1 \in 1..Len(disk'[handle]) /\ handle \in Inodes'
        BY <1>1, <1>4, <4>1
      <4> QED
        BY <3>1, <4>1, <4>2
    <3>2. CASE n # lines + 1
      <4>1. n \in 1..lines /\ n \notin echoed \cup spoilt
        BY <1>1, <1>4, <2>1, <3>2
      <4>2. PICK i \in Inodes : \E j \in 1..Len(disk[i]) : disk[i][j] = n
        BY <4>1 DEF LInv, Somewhere
      <4>3. PICK j \in 1..Len(disk[i]) : disk[i][j] = n
        BY <4>2
      <4>4. i \in Inodes' /\ j \in 1..Len(disk'[i]) /\ disk'[i][j] = disk[i][j]
        <5>1. CASE i = handle
          <6>1. /\ Len(disk[handle]) \in Nat /\ j \in 1..Len(disk[handle])
                /\ \/ Len(disk'[handle]) = Len(disk[handle])
                   \/ Len(disk'[handle]) = Len(disk[handle]) + 1
            BY <1>1, <1>4, <4>3, <5>1
          <6>2. j \in 1..Len(disk'[handle])
            BY <6>1
          <6> QED
            BY <1>4, <5>1, <6>1, <6>2
        <5>2. CASE i # handle
          BY <1>4, <4>3, <5>2
        <5> QED
          BY <5>1, <5>2
      <4> QED
        BY <4>3, <4>4
    <3> QED
      BY <3>1, <3>2
  <2> QED
    BY <2>1 DEF Somewhere
<1>13. Seen'
  <2>1. echoed \subseteq 1..lines /\ spoilt \subseteq 1..lines
    BY DEF LInv, Seen
  <2>2. /\ echoed' = echoed /\ lines' = lines + 1 /\ lines \in Nat
        /\ spoilt' = spoilt \/ spoilt' = spoilt \cup {lines + 1}
    <3>1. spoilt' = spoilt \/ spoilt' = spoilt \cup {lines + 1}
      BY DEF Written
    <3> QED
      BY <1>1, <3>1
  <2>3. echoed' \subseteq 1..lines' /\ spoilt' \subseteq 1..lines'
    <3>1. 1..lines \subseteq 1..(lines + 1) /\ lines + 1 \in 1..(lines + 1)
      BY <2>2
    <3>2. lines' = lines + 1
      BY <2>2
    <3> QED
      BY <2>1, <2>2, <3>1, <3>2, Zenon
  <2> QED
    BY <1>1, <1>2, <2>3 DEF Seen
<1> QED
  BY <1>7, <1>8, <1>9, <1>10, <1>11, <1>12, <1>13 DEF LInv
\* logger_reopen() and logger_init(), whatever comes of them.
LEMMA ReopenKeeps ==
  ASSUME LInv, NEW path \in LogPaths, NEW rc,
         logger_reopen(path, rc) \/ logger_init(path, rc),
         UNCHANGED <<lines, echoed, spoilt>>
  PROVE  LInv'
<1>1. /\ disk \in Seq(Seq(Nat)) /\ Len(disk) \in Nat /\ handle \in 0..Len(disk)
      /\ dir \in [LogPaths -> 0..Len(disk)]
      /\ handle # 0 => early = <<>>
      /\ \A i \in 1..Len(disk) : i \notin Inodes => disk[i] = <<>>
  BY SeqFacts DEF LInv, LogTypes, EarlyOrOpen, Inodes
<1>2. CASE Opened(path)
  BY <1>2, OpenedKeeps
<1>3. CASE disk' = disk /\ dir' = dir /\ early' = early /\ (handle' = 0 \/ handle' = handle)
  <2>1. \A i \in Inodes : disk'[i] = disk[i]
    BY <1>3
  <2> QED
    BY <1>1, <1>3, <2>1, SameLines
<1>4. CASE /\ handle' = 0 /\ early' = early /\ disk' = DiskWith(path)
           /\ dir' = [dir EXCEPT ![path] = InodeOf(path)]
  <2> DEFINE d == DiskWith(path)
  <2>1. /\ d \in Seq(Seq(Nat)) /\ InodeOf(path) \in 1..Len(d) /\ Len(d) >= Len(disk)
        /\ \A i \in Inodes : d[i] = disk[i]
        /\ \A i \in 1..Len(d) : i \notin Inodes => d[i] = <<>>
    BY PathOpened
  <2>2. disk' = d
    BY <1>4
  <2> HIDE DEF d
  <2>3. Len(d) \in Nat
    BY <2>1, SeqFacts
  <2>4. dir' \in [LogPaths -> 0..Len(d)] /\ handle' \in 0..Len(d)
    BY <1>1, <1>4, <2>1, <2>3
  <2> QED
    BY <1>4, <2>1, <2>2, <2>4, SameLines
<1> QED
  BY <1>2, <1>3, <1>4 DEF logger_reopen, logger_init

\* A line logged keeps the invariant, wherever it goes.
LEMMA LogMsgKeeps ==
  ASSUME LInv, NEW l, log_msg(l)
  PROVE  LInv'
BY BufferedKeeps, WrittenKeeps DEF log_msg

\* A new process finds the files as they are and knows nothing else.
LEMMA ForgottenKeeps ==
  ASSUME LInv, Forgotten
  PROVE  LInv'
<1>1. /\ disk \in Seq(Seq(Nat)) /\ Len(disk) \in Nat
      /\ dir \in [LogPaths -> 0..Len(disk)]
      /\ \A i \in 1..Len(disk) : i \notin Inodes => disk[i] = <<>>
  BY SeqFacts DEF LInv, LogTypes, Inodes
<1>2. /\ disk' = disk /\ dir' = dir /\ early' = <<>> /\ handle' = 0
      /\ UNCHANGED <<lines, echoed, spoilt>>
  BY DEF Forgotten
<1> QED
  BY <1>1, <1>2, SameLines

\* A renamed file keeps its lines; the new one has none.
LEMMA LogrotateKeeps ==
  ASSUME LInv, Logrotate
  PROVE  LInv'
<1>1. PICK p \in LogPaths : /\ disk' = Append(disk, <<>>)
                            /\ dir' = [dir EXCEPT ![p] = Len(disk) + 1]
  BY DEF Logrotate
<1>2. /\ disk \in Seq(Seq(Nat)) /\ Len(disk) \in Nat /\ handle \in 0..Len(disk)
      /\ dir \in [LogPaths -> 0..Len(disk)] /\ <<>> \in Seq(Nat)
      /\ handle # 0 => early = <<>>
  BY SeqFacts DEF LInv, LogTypes, EarlyOrOpen
<1>3. /\ disk' \in Seq(Seq(Nat)) /\ Len(disk') = Len(disk) + 1
      /\ \A i \in 1..Len(disk) : disk'[i] = disk[i]
      /\ disk'[Len(disk) + 1] = <<>>
  BY <1>1, <1>2
<1>4. /\ \A i \in Inodes : disk'[i] = disk[i]
      /\ \A i \in 1..Len(disk') : i \notin Inodes => disk'[i] = <<>>
  BY <1>2, <1>3 DEF Inodes
<1>5. /\ handle' \in 0..Len(disk') /\ dir' \in [LogPaths -> 0..Len(disk')]
      /\ Len(disk') >= Len(disk)
  BY <1>1, <1>2, <1>3 DEF Logrotate, logVars
<1> QED
  BY <1>2, <1>3, <1>4, <1>5, SameLines DEF Logrotate

----------------------------------------------------------------------------
(* The invariant of the specification. *)

\* A flag cleared after the reopen, or a failure, is all that keeps the log
\* from following its path while a rotation is under way.
Rotating == phase = "rotating" => handle = dir[cfg.LOG_FILE] \/ refused \/ missed

SInv ==
  /\ LInv
  /\ file \in ConfigFiles
  /\ Up => cfg.LOG_FILE \in LogPaths
  /\ Rotating
  /\ LogFollowsConfig
  /\ SettingsInForce

\* The TTL of a new process is in range.
LEMMA FirstTtl == Default.TOKEN_TTL # OutOfRange
<1>1. "TOKEN_TTL" \in Keys /\ "TOKEN_TTL" \notin Required /\ "TOKEN_TTL" # "UPLOAD_ENABLED"
  BY DEF Keys, Required, Defaulted
<1>2. Default["TOKEN_TTL"] = "default"
  BY <1>1 DEF Default
<1> QED
  BY <1>2 DEF OutOfRange

\* The invariant holds at first.
LEMMA SettingsInitOK == SettingsInit => SInv
<1> SUFFICES ASSUME SettingsInit PROVE SInv
  OBVIOUS
<1>1. /\ handle = 0 /\ early = <<>> /\ dir = [p \in LogPaths |-> 0] /\ disk = <<>>
      /\ lines = 0 /\ echoed = {} /\ spoilt = {} /\ phase = "off" /\ file \in ConfigFiles
  BY DEF SettingsInit, LoggerInit
<1>2. /\ Len(disk) = 0 /\ Inodes = {} /\ disk \in Seq(Seq(Nat)) /\ early \in Seq(Nat)
      /\ \A k : k \notin 1..Len(early)
  BY <1>1, EmptyFact DEF Inodes
<1>3. LogTypes
  BY <1>1, <1>2 DEF LogTypes
<1>4. 1..lines = {}
  BY <1>1
<1>5. LInv
  BY <1>1, <1>2, <1>3, <1>4
  DEF LInv, NoneAhead, EarlyOrOpen, FilesOlder, InOrder, Apart, Somewhere, Seen
<1>6. ttl # OutOfRange
  BY FirstTtl DEF SettingsInit
<1> QED
  BY <1>1, <1>5, <1>6 DEF SInv, Up, Rotating, LogFollowsConfig, SettingsInForce

\* A file that is not rejected names a log path.
LEMMA LoadedOK ==
  ASSUME file \in ConfigFiles, Load(file) # Rejected
  PROVE  Load(file).LOG_FILE \in LogPaths
BY SettingsConstantsOK
LEMMA SettingsLines ==
  ASSUME SInv, SettingsNext
  PROVE  LInv' /\ file' \in ConfigFiles /\ (Up => cfg.LOG_FILE \in LogPaths)'
<1>1. LInv /\ file \in ConfigFiles /\ (Up => cfg.LOG_FILE \in LogPaths)
  BY DEF SInv
<1>2. CASE Starts \/ ConfigParsed \/ RotateCleared \/ Edits
  <2>1. UNCHANGED logVars
    BY <1>2 DEF Starts, ConfigParsed, RotateCleared, Edits
  <2>2. UNCHANGED Inodes
    BY <2>1 DEF logVars, Inodes
  <2>3. LInv'
    BY <1>1, <2>1, <2>2
    DEF logVars, LInv, LogTypes, NoneAhead, EarlyOrOpen, FilesOlder, InOrder, Apart, Somewhere, Seen
  <2>4. file' \in ConfigFiles /\ (Up => cfg.LOG_FILE \in LogPaths)'
    BY <1>1, <1>2 DEF Starts, ConfigParsed, RotateCleared, Edits, Up, kept, around
  <2> QED
    BY <2>3, <2>4
<1>3. CASE LoggerStarts
  <2>1. LInv'
    BY <1>1, <1>3, ReopenKeeps, SettingsConstantsOK DEF LoggerStarts
  <2> QED
    BY <1>1, <1>3, <2>1 DEF LoggerStarts, Up, kept, around
<1>4. CASE ConfigLoads
  <2>1. Load(file).LOG_FILE \in LogPaths
    BY <1>1, <1>4, LoadedOK DEF ConfigLoads
  <2>2. LInv'
    BY <1>1, <1>4, <2>1, ReopenKeeps DEF ConfigLoads
  <2> QED
    BY <1>1, <1>4, <2>1, <2>2 DEF ConfigLoads, Up, around
<1>5. CASE ConfigRejected \/ Stops
  <2>1. LInv'
    BY <1>1, <1>5, ForgottenKeeps DEF ConfigRejected, Stops
  <2> QED
    BY <1>1, <1>5, <2>1 DEF ConfigRejected, Stops, Up, around
<1>6. CASE Reload
  <2>1. Load(file).LOG_FILE \in LogPaths
    BY <1>1, <1>6, LoadedOK DEF Reload
  <2>2. LInv'
    <3>1. UNCHANGED <<lines, echoed, spoilt>>
      BY <1>6 DEF Reload
    <3>2. CASE UNCHANGED <<handle, early, dir, disk>>
      <4>1. UNCHANGED Inodes
        BY <3>2 DEF Inodes
      <4> QED
        BY <1>1, <3>1, <3>2, <4>1
        DEF LInv, LogTypes, NoneAhead, EarlyOrOpen, FilesOlder, InOrder, Apart, Somewhere, Seen
    <3>3. CASE \E rc \in {-1, 0} : logger_reopen(Load(file).LOG_FILE, rc)
      BY <1>1, <2>1, <3>1, <3>3, ReopenKeeps
    <3> QED
      BY <1>6, <3>2, <3>3 DEF Reload
  <2> QED
    BY <1>1, <1>6, <2>1, <2>2 DEF Reload, Up, around
<1>7. CASE Rotates
  <2>1. LInv'
    BY <1>1, <1>7, ReopenKeeps DEF Rotates, Up
  <2> QED
    BY <1>1, <1>7, <2>1 DEF Rotates, Up, kept, around
<1>8. CASE Logs
  <2>1. LInv'
    BY <1>1, <1>8, LogMsgKeeps DEF Logs
  <2> QED
    BY <1>1, <1>8, <2>1 DEF Logs, Up, kept, around
<1>9. CASE Logrotate
  <2>1. LInv'
    BY <1>1, <1>9, LogrotateKeeps
  <2> QED
    BY <1>1, <1>9, <2>1 DEF Logrotate, Up, kept, around
<1> QED
  BY <1>2, <1>3, <1>4, <1>5, <1>6, <1>7, <1>8, <1>9 DEF SettingsNext

\* A log that was opened is the one its path leads to.
LEMMA Followed ==
  ASSUME LInv, NEW path \in LogPaths, NEW rc, logger_reopen(path, rc), rc = 0
  PROVE  handle' = dir'[path]
<1>1. dir \in [LogPaths -> 0..Len(disk)]
  BY DEF LInv, LogTypes
<1> QED
  BY <1>1 DEF logger_reopen, Opened

\* The log goes to the configured file, after every step.
LEMMA SettingsFollow ==
  ASSUME SInv, SettingsNext
  PROVE  Rotating' /\ LogFollowsConfig'
<1>1. /\ LInv /\ file \in ConfigFiles /\ (Up => cfg.LOG_FILE \in LogPaths)
      /\ Rotating /\ LogFollowsConfig
  BY DEF SInv
<1>2. CASE Starts \/ LoggerStarts \/ ConfigRejected \/ ConfigParsed \/ Stops
  BY <1>2 DEF Starts, LoggerStarts, ConfigRejected, ConfigParsed, Stops, Rotating,
              LogFollowsConfig, Up
<1>3. CASE ConfigLoads
  <2>1. Load(file).LOG_FILE \in LogPaths
    BY <1>1, <1>3, LoadedOK DEF ConfigLoads
  <2>2. PICK rc \in {-1, 0} : logger_reopen(Load(file).LOG_FILE, rc) /\ refused' = (rc # 0)
    BY <1>3 DEF ConfigLoads
  <2>3. rc # 0 \/ handle' = dir'[Load(file).LOG_FILE]
    BY <1>1, <2>1, <2>2, Followed
  <2> QED
    BY <1>3, <2>2, <2>3 DEF ConfigLoads, Rotating, LogFollowsConfig, Up
<1>4. CASE Reload
  <2>1. Load(file).LOG_FILE \in LogPaths
    BY <1>1, <1>4, LoadedOK DEF Reload
  <2>2. phase' = "running" /\ cfg' = Load(file) /\ rotate' = rotate
    BY <1>4 DEF Reload
  <2>3. CASE Load(file).LOG_FILE # cfg.LOG_FILE
    <3>1. PICK rc \in {-1, 0} : logger_reopen(Load(file).LOG_FILE, rc) /\ refused' = (rc # 0)
      BY <1>4, <2>3 DEF Reload
    <3>2. rc # 0 \/ handle' = dir'[Load(file).LOG_FILE]
      BY <1>1, <2>1, <3>1, Followed
    <3> QED
      BY <2>2, <3>1, <3>2 DEF Rotating, LogFollowsConfig, Up
  <2>4. CASE Load(file).LOG_FILE = cfg.LOG_FILE
    <3>1. UNCHANGED <<handle, dir, refused, missed>>
      BY <1>4, <2>4 DEF Reload
    <3> QED
      BY <1>1, <1>4, <2>2, <2>4, <3>1 DEF Reload, Rotating, LogFollowsConfig, Up
  <2> QED
    BY <2>3, <2>4
<1>5. CASE Rotates
  <2>1. cfg' = cfg /\ phase' = "rotating" /\ cfg.LOG_FILE \in LogPaths
    BY <1>1, <1>5 DEF Rotates, Up, kept
  <2>2. PICK rc \in {-1, 0} : logger_reopen(cfg.LOG_FILE, rc) /\ refused' = (rc # 0)
    BY <1>5 DEF Rotates
  <2>3. rc # 0 \/ handle' = dir'[cfg.LOG_FILE]
    BY <1>1, <2>1, <2>2, Followed
  <2> QED
    BY <2>1, <2>2, <2>3 DEF Rotating, LogFollowsConfig, Up
<1>6. CASE RotateCleared \/ Edits
  BY <1>1, <1>6 DEF RotateCleared, Edits, logVars, kept, history, Rotating, LogFollowsConfig, Up
<1>7. CASE Logs
  <2>1. UNCHANGED <<handle, dir, phase, cfg, refused, missed, rotate>>
    BY <1>7 DEF Logs, log_msg, kept, history
  <2> QED
    BY <1>1, <2>1 DEF Rotating, LogFollowsConfig, Up
<1>8. CASE Logrotate
  BY <1>8 DEF Logrotate, Rotating, LogFollowsConfig, Up, kept
<1> QED
  BY <1>2, <1>3, <1>4, <1>5, <1>6, <1>7, <1>8 DEF SettingsNext

\* What is in force follows the configuration, after every step.
LEMMA SettingsForce ==
  ASSUME SInv, SettingsNext
  PROVE  SettingsInForce'
<1>1. SettingsInForce
  BY DEF SInv
<1>2. CASE Starts \/ LoggerStarts \/ ConfigRejected \/ ConfigParsed \/ Stops
  BY <1>1, <1>2, FirstTtl
  DEF Starts, LoggerStarts, ConfigRejected, ConfigParsed, Stops, Forgotten, kept,
      SettingsInForce, Up
<1>3. CASE ConfigLoads
  BY <1>1, <1>3 DEF ConfigLoads, SettingsInForce, Up, TtlAfter
<1>4. CASE Reload
  BY <1>1, <1>4 DEF Reload, SettingsInForce, Up, TtlAfter
<1>5. CASE Rotates \/ RotateCleared \/ Edits \/ Logrotate
  <2>1. UNCHANGED <<level, chat, ttl, base, cfg, renewed>> /\ (Up' => Up)
    BY <1>5 DEF Rotates, RotateCleared, Edits, Logrotate, logVars, kept, history, Up
  <2> QED
    BY <1>1, <2>1 DEF SettingsInForce
<1>6. CASE Logs
  <2>1. UNCHANGED <<level, chat, ttl, base, cfg, renewed, phase>>
    BY <1>6 DEF Logs, log_msg, kept, history
  <2> QED
    BY <1>1, <2>1 DEF SettingsInForce, Up
<1> QED
  BY <1>2, <1>3, <1>4, <1>5, <1>6 DEF SettingsNext

\* The invariant survives a stutter.
LEMMA SettingsStutter ==
  ASSUME SInv, UNCHANGED settingsVars
  PROVE  SInv'
<1>1. UNCHANGED <<handle, early, level, dir, disk, lines, echoed, spoilt>> /\ UNCHANGED Inodes
  BY DEF settingsVars, logVars, Inodes
<1>2. /\ UNCHANGED <<phase, cfg, chat, ttl, base, refused, missed, renewed, file, rotate>>
      /\ UNCHANGED Up
  BY DEF settingsVars, kept, history, around, Up
<1>3. LInv'
  BY <1>1
  DEF SInv, LInv, LogTypes, NoneAhead, EarlyOrOpen, FilesOlder, InOrder, Apart, Somewhere, Seen
<1> QED
  BY <1>1, <1>2, <1>3 DEF SInv, Rotating, LogFollowsConfig, SettingsInForce

\* The strengthened invariant holds in every state (logger.c, config.c, main.c).
THEOREM SettingsInvariant == SettingsSpec => []SInv
<1>1. SInv /\ [SettingsNext]_settingsVars => SInv'
  BY SettingsLines, SettingsFollow, SettingsForce, SettingsStutter DEF SInv
<1> QED
  BY SettingsInitOK, <1>1, PTL DEF SettingsSpec

\* No line that passed the filter is lost without a trace (logger.c, log_msg()
\* and logger_init()), for any size of the early buffer and any configurations.
THEOREM LinesKeptAlways == SettingsSpec => []LinesKept
<1>1. SInv => LinesKept
  BY InvLines DEF SInv
<1> QED
  BY SettingsInvariant, <1>1, PTL

\* Replayed lines keep their order and none is written twice (logger.c, the
\* replay and reset of the early buffer).
THEOREM LinesOrderedAlways == SettingsSpec => []LinesOrdered
<1>1. SInv => LinesOrdered
  BY InvLines DEF SInv
<1> QED
  BY SettingsInvariant, <1>1, PTL

\* The log goes where the configuration says, but for the named exceptions
\* (config.c:377, main.c:194-202).
THEOREM LogFollowsConfigAlways == SettingsSpec => []LogFollowsConfig
<1>1. SInv => LogFollowsConfig
  BY DEF SInv
<1> QED
  BY SettingsInvariant, <1>1, PTL

\* What security.c, logger.c and the HTTP client hold is the configuration in
\* use (config.c:369-387, upload.c:263).
THEOREM SettingsInForceAlways == SettingsSpec => []SettingsInForce
<1>1. SInv => SettingsInForce
  BY DEF SInv
<1> QED
  BY SettingsInvariant, <1>1, PTL

----------------------------------------------------------------------------
(* Induction over numbers, for sets; and what it says of the folds.        *)

\* A set of numbers has a least one.
LEMMA LeastNumber ==
  ASSUME NEW T, T \subseteq Nat, T # {}
  PROVE  \E m \in T : \A k \in T : m <= k
<1>1. PICK m \in T : \A k \in T : ~(<<k, m>> \in OpToRel(<, Nat))
  BY NatLessThanWellFounded, WFMin
<1>2. ASSUME NEW k \in T PROVE m <= k
  <2>1. k \in Nat /\ m \in Nat
    OBVIOUS
  <2>2. <<k, m>> \notin OpToRel(<, Nat)
    BY <1>1
  <2>3. ~(k < m)
    BY <2>1, <2>2 DEF OpToRel
  <2> QED
    BY <2>1, <2>3
<1> QED
  BY <1>2

\* The least of a set of numbers, and the greatest of one that is bounded.
LEMMA MinOfSome ==
  ASSUME NEW S, S \subseteq Nat, S # {}
  PROVE  Min(S) \in S /\ \A k \in S : Min(S) <= k
BY LeastNumber DEF Min

\* A set that holds 0 and, with a number, the next one, up to n, holds all of
\* them.
LEMMA Induction ==
  ASSUME NEW T, NEW n \in Nat, 0 \in T, \A k \in 0..(n - 1) : k \in T => k + 1 \in T
  PROVE  0..n \subseteq T
<1> SUFFICES ASSUME ~(0..n \subseteq T) PROVE FALSE
  OBVIOUS
<1> DEFINE U == (0..n) \ T
<1>1. PICK m \in U : \A k \in U : m <= k
  <2>1. U \subseteq Nat /\ U # {}
    OBVIOUS
  <2> HIDE DEF U
  <2> QED
    BY <2>1, LeastNumber
<1>2. m # 0 /\ m \in 0..n
  BY <1>1
<1>3. m - 1 \in 0..(n - 1) /\ m - 1 \in 0..n /\ m - 1 \notin U
  BY <1>1, <1>2
<1>4. m - 1 \in T
  BY <1>3
<1>5. (m - 1) + 1 \in T
  BY <1>3, <1>4
<1> QED
  BY <1>2, <1>5

LEMMA MaxOfRange ==
  ASSUME NEW k \in Nat, k # 0
  PROVE  Max(1..k) = k /\ (1..k) \ {k} = 1..(k - 1)
<1>1. k \in 1..k /\ \A y \in 1..k : k >= y
  OBVIOUS
<1>2. \A x \in 1..k : (\A y \in 1..k : x >= y) => x = k
  BY <1>1
<1> QED
  BY <1>1, <1>2 DEF Max

LEMMA MaxOfNats ==
  ASSUME NEW n \in Nat, NEW s \in SUBSET (0..n), s # {}
  PROVE  Max(s) \in s /\ \A y \in s : y <= Max(s)
<1> DEFINE T == {n - x : x \in s}
<1>1. \A x \in s : x \in Int /\ n - x \in Nat
  OBVIOUS
<1>2. T \subseteq Nat /\ T # {}
  BY <1>1
<1>3. PICK m \in T : \A k \in T : m <= k
  <2> HIDE DEF T
  <2> QED
    BY <1>2, LeastNumber
<1>4. PICK x \in s : m = n - x
  BY <1>3
<1>5. \A y \in s : x >= y
  <2> SUFFICES ASSUME NEW y \in s PROVE x >= y
    OBVIOUS
  <2>1. n - x <= n - y
    BY <1>3, <1>4
  <2> QED
    BY <1>1, <2>1
<1> QED
  BY <1>4, <1>5 DEF Max

LEMMA MaxOfSome ==
  ASSUME NEW n \in Nat, NEW s \in SUBSET (1..n), s # {}
  PROVE  Max(s) \in s /\ \A y \in s : y <= Max(s)
<1>1. s \in SUBSET (0..n)
  OBVIOUS
<1> QED
  BY <1>1, MaxOfNats

\* The function by which a fold over 1..n is defined.
FoldOf(it, start, n, G) ==
  \A s \in SUBSET (1..n) :
    it[s] = IF s = {} THEN start ELSE G[<<it[s \ {Max(s)}], Max(s)>>]

\* The function that MapThenFoldSet() computes exists, where the operation
\* stays within a set S.
LEMMA FoldExists ==
  ASSUME NEW S, NEW start \in S, NEW n \in Nat, NEW G \in [S \X (1..n) -> S]
  PROVE  \E it \in [SUBSET (1..n) -> S] : FoldOf(it, start, n, G)
<1> DEFINE Good(it, m) ==
      /\ it \in [SUBSET (1..m) -> S]
      /\ \A s \in SUBSET (1..m) :
           it[s] = IF s = {} THEN start ELSE G[<<it[s \ {Max(s)}], Max(s)>>]
    T == {m \in 0..n : \E it : Good(it, m)}
<1>1. 0 \in T
  <2> DEFINE it == [s \in SUBSET (1..0) |-> start]
  <2>1. 1..0 = {}
    OBVIOUS
  <2>2. \A s \in SUBSET (1..0) : s = {}
    BY <2>1
  <2>3. Good(it, 0)
    BY <2>2
  <2> HIDE DEF Good, it
  <2> QED
    BY <2>3
<1>2. ASSUME NEW m \in 0..(n - 1), m \in T PROVE m + 1 \in T
  <2>1. PICK it : Good(it, m)
    BY <1>2
  <2> DEFINE up == [s \in SUBSET (1..(m + 1)) |->
                      IF m + 1 \in s THEN G[<<it[s \ {m + 1}], m + 1>>] ELSE it[s]]
  <2>2. ASSUME NEW s \in SUBSET (1..(m + 1)), m + 1 \in s
        PROVE  s \ {m + 1} \in SUBSET (1..m) /\ Max(s) = m + 1
    <3>1. \A x \in s : x \in 1..(m + 1)
      OBVIOUS
    <3>2. \A x \in s : m + 1 >= x
      BY <3>1
    <3>3. \A x \in s : (\A y \in s : x >= y) => x = m + 1
      BY <2>2, <3>1, <3>2
    <3>4. Max(s) = m + 1
      BY <2>2, <3>2, <3>3 DEF Max
    <3> QED
      BY <3>1, <3>4
  <2>3. ASSUME NEW s \in SUBSET (1..(m + 1)), m + 1 \notin s
        PROVE  s \in SUBSET (1..m) /\ (s # {} => s \ {Max(s)} \in SUBSET (1..m))
    <3>1. \A x \in s : x \in 1..(m + 1) /\ x # m + 1
      BY <2>3
    <3>2. \A x \in s : x \in 1..m
      BY <3>1
    <3> QED
      BY <3>2
  <2>4. up \in [SUBSET (1..(m + 1)) -> S]
    <3> SUFFICES ASSUME NEW s \in SUBSET (1..(m + 1)) PROVE up[s] \in S
      OBVIOUS
    <3>1. CASE m + 1 \in s
      <4>1. it[s \ {m + 1}] \in S /\ m + 1 \in 1..n
        BY <2>1, <2>2, <3>1
      <4> QED
        BY <3>1, <4>1
    <3>2. CASE m + 1 \notin s
      BY <2>1, <2>3, <3>2
    <3> QED
      BY <3>1, <3>2
  <2>5. ASSUME NEW s \in SUBSET (1..(m + 1))
        PROVE  up[s] = IF s = {} THEN start ELSE G[<<up[s \ {Max(s)}], Max(s)>>]
    <3>1. CASE m + 1 \in s
      <4>1. up[s] = G[<<it[s \ {m + 1}], m + 1>>] /\ Max(s) = m + 1 /\ s # {}
        BY <2>2, <3>1
      <4>2. up[s \ {m + 1}] = it[s \ {m + 1}]
        <5>1. s \ {m + 1} \in SUBSET (1..(m + 1)) /\ m + 1 \notin s \ {m + 1}
          OBVIOUS
        <5> QED
          BY <5>1
      <4> QED
        BY <4>1, <4>2
    <3>2. CASE m + 1 \notin s
      <4>1. up[s] = it[s] /\ s \in SUBSET (1..m)
        BY <2>3, <3>2
      <4>2. up[s \ {Max(s)}] = it[s \ {Max(s)}]
        <5>1. s \ {Max(s)} \in SUBSET (1..(m + 1)) /\ m + 1 \notin s \ {Max(s)}
          BY <3>2
        <5> QED
          BY <5>1
      <4>3. it[s] = IF s = {} THEN start ELSE G[<<it[s \ {Max(s)}], Max(s)>>]
        BY <2>1, <4>1
      <4> QED
        BY <4>1, <4>2, <4>3
    <3> QED
      BY <3>1, <3>2
  <2>6. Good(up, m + 1)
    <3> HIDE DEF up
    <3> QED
      BY <2>4, <2>5
  <2>7. m + 1 \in 0..n
    OBVIOUS
  <2> HIDE DEF up, Good
  <2> QED
    BY <2>6, <2>7
<1>3. n \in T
  <2> HIDE DEF T
  <2>1. 0..n \subseteq T
    BY <1>1, <1>2, Induction
  <2> QED
    BY <2>1
<1>4. PICK it : Good(it, n)
  BY <1>3
<1> QED
  BY <1>4 DEF FoldOf

----------------------------------------------------------------------------
(* config_load(): the loop over the lines of a file.                       *)

\* The values of keys.
Values == STRING \cup {Default[k] : k \in Keys}
Configs == [Keys -> Values] \cup {Rejected}

\* The keys, and the default configuration.
LEMMA ConfigFacts ==
  /\ Default \in [Keys -> Values] /\ Rejected \notin [Keys -> Values]
  /\ \A c \in [Keys -> Values] : c # Rejected /\ DOMAIN c = Keys
  /\ \A k \in Required : k \in Keys /\ k \notin Kept /\ Default[k] = None
  /\ "UPLOAD_DIR" \in Keys /\ "UPLOAD_ENABLED" \in Keys
  /\ "UPLOAD_ENABLED" \notin Required /\ "UPLOAD_DIR" \notin Required
<1>1. "TOKEN" \in Keys /\ DOMAIN Rejected = {}
  BY DEF Keys, Required, Rejected
<1>2. \A c \in [Keys -> Values] : c # Rejected /\ DOMAIN c = Keys
  BY <1>1
<1>3. Default \in [Keys -> Values]
  <2>1. \A k \in Keys : Default[k] \in Values
    BY DEF Values
  <2>2. Default = [k \in Keys |-> Default[k]]
    BY DEF Default
  <2> QED
    BY <2>1, <2>2
<1>4. \A k \in Required : k \in Keys /\ k \notin Kept /\ Default[k] = None
  BY DEF Keys, Required, Kept, Default
<1>5. /\ "UPLOAD_DIR" \in Keys /\ "UPLOAD_ENABLED" \in Keys
      /\ "UPLOAD_ENABLED" \notin Required /\ "UPLOAD_DIR" \notin Required
  BY DEF Keys, Required, Defaulted
<1> QED
  BY <1>2, <1>3, <1>4, <1>5

\* What a line does to a configuration.
LEMMA ApplyLine ==
  ASSUME NEW c \in [Keys -> Values], NEW line \in ConfigLine
  PROVE  /\ line.key \notin Keys => Apply(c, line) = c
         /\ line.key \in Required /\ line.value = Bad => Apply(c, line) = Rejected
         /\ line.key \in Keys /\ line.value # Bad =>
              Apply(c, line) = [c EXCEPT ![line.key] = line.value]
         /\ line.key \in Kept /\ line.value = Bad => Apply(c, line) = c
         /\ line.key \in Keys /\ line.key \notin Required /\ line.key \notin Kept /\ line.value = Bad =>
              Apply(c, line) = [c EXCEPT ![line.key] = Default[line.key]]
<1>1. c # Rejected
  BY ConfigFacts
<1>2. /\ Keys = Required \cup Kept \cup Defaulted
      /\ Required \cap Kept = {} /\ Required \cap Defaulted = {} /\ Kept \cap Defaulted = {}
  BY DEF Keys, Required, Kept, Defaulted
<1>3. line.key \notin Keys => Apply(c, line) = c
  BY <1>1 DEF Apply
<1>4. line.key \in Keys /\ line.value # Bad => Apply(c, line) = [c EXCEPT ![line.key] = line.value]
  BY <1>1 DEF Apply
<1>5. line.key \in Required /\ line.value = Bad => Apply(c, line) = Rejected
  BY <1>1, <1>2 DEF Apply
<1>6. line.key \in Kept /\ line.value = Bad => Apply(c, line) = c
  BY <1>1, <1>2 DEF Apply
<1>7. line.key \in Keys /\ line.key \notin Required /\ line.key \notin Kept /\ line.value = Bad =>
        Apply(c, line) = [c EXCEPT ![line.key] = Default[line.key]]
  BY <1>1, <1>2 DEF Apply
<1> QED
  BY <1>3, <1>4, <1>5, <1>6, <1>7

\* One line gives a configuration or a rejection.
LEMMA ApplyType ==
  ASSUME NEW c \in Configs, NEW line \in ConfigLine
  PROVE  Apply(c, line) \in Configs
<1>1. CASE c = Rejected
  <2>1. Apply(c, line) = c
    BY <1>1 DEF Apply
  <2> QED
    BY <2>1
<1>2. CASE c \in [Keys -> Values]
  <2>1. line.value \in Values
    BY DEF ConfigLine, Values
  <2>2. [c EXCEPT ![line.key] = line.value] \in [Keys -> Values]
    BY <1>2, <2>1
  <2>3. line.key \in Keys => [c EXCEPT ![line.key] = Default[line.key]] \in [Keys -> Values]
    BY <1>2, ConfigFacts
  <2> QED
    BY <1>2, <2>2, <2>3, ApplyLine DEF Configs
<1> QED
  BY <1>1, <1>2 DEF Configs

\* The loop, line by line.
LEMMA LoadScan ==
  ASSUME NEW f \in Seq(ConfigLine)
  PROVE  \E r \in [0..Len(f) -> Configs] :
           /\ r[0] = Default
           /\ \A i \in 1..Len(f) : r[i] = Apply(r[i - 1], f[i])
           /\ FoldLeft(Apply, Default, f) = r[Len(f)]
<1> DEFINE n == Len(f)
           G == [p \in Configs \X (1..n) |-> Apply(p[1], f[p[2]])]
           Def(it) == [s \in SUBSET DOMAIN f |->
                         IF s = {} THEN Default ELSE Apply(it[s \ {Max(s)}], f[Max(s)])]
           fold == CHOOSE it : it = Def(it)
<1>1. n \in Nat /\ DOMAIN f = 1..n /\ \A i \in 1..n : f[i] \in ConfigLine
  OBVIOUS
<1>2. Default \in Configs
  BY ConfigFacts DEF Configs
<1>3. G \in [Configs \X (1..n) -> Configs]
  BY <1>1, ApplyType
<1>4. \E it : it = Def(it)
  <2> HIDE DEF G, n
  <2>1. PICK it \in [SUBSET (1..n) -> Configs] : FoldOf(it, Default, n, G)
    BY <1>1, <1>2, <1>3, FoldExists
  <2>2. ASSUME NEW s \in SUBSET (1..n), s # {}
        PROVE  G[<<it[s \ {Max(s)}], Max(s)>>] = Apply(it[s \ {Max(s)}], f[Max(s)])
    <3>1. Max(s) \in 1..n
      BY <1>1, <2>2, MaxOfSome
    <3>2. it[s \ {Max(s)}] \in Configs
      BY <2>1
    <3> QED
      BY <3>1, <3>2 DEF G
  <2>3. it = Def(it)
    BY <1>1, <2>1, <2>2 DEF FoldOf
  <2> QED
    BY <2>3
<1>5. fold = Def(fold)
  BY <1>4
<1>6. FoldLeft(Apply, Default, f) = fold[1..n]
  BY <1>1 DEF FoldLeft, MapThenFoldSet
<1> DEFINE r == [i \in 0..n |-> fold[1..i]]
<1> HIDE DEF fold, n
<1>7. r[0] = Default
  BY <1>1, <1>5
<1>8. ASSUME NEW i \in 1..n PROVE r[i] = Apply(r[i - 1], f[i])
  <2>1. 1..i \in SUBSET (1..n) /\ 1..i # {} /\ i \in Nat
    BY <1>1
  <2>2. Max(1..i) = i /\ (1..i) \ {i} = 1..(i - 1)
    BY <2>1, MaxOfRange
  <2>3. fold[1..i] = Apply(fold[1..(i - 1)], f[i])
    BY <1>1, <1>5, <2>1, <2>2
  <2> QED
    BY <1>1, <2>3
<1>9. r \in [0..n -> Configs]
  <2> DEFINE T == {i \in 0..n : r[i] \in Configs}
  <2> HIDE DEF r
  <2>1. 0 \in T
    BY <1>1, <1>2, <1>7
  <2>2. \A i \in 0..(n - 1) : i \in T => i + 1 \in T
    <3> SUFFICES ASSUME NEW i \in 0..(n - 1), r[i] \in Configs PROVE r[i + 1] \in Configs /\ i + 1 \in 0..n
      OBVIOUS
    <3>1. i + 1 \in 1..n /\ (i + 1) - 1 = i
      BY <1>1
    <3>2. r[i + 1] = Apply(r[i], f[i + 1])
      BY <1>8, <3>1
    <3> QED
      BY <1>1, <3>1, <3>2, ApplyType
  <2>3. 0..n \subseteq T
    <3> HIDE DEF T
    <3> QED
      BY <1>1, <2>1, <2>2, Induction
  <2> QED
    BY <2>3 DEF r
<1>10. FoldLeft(Apply, Default, f) = r[n]
  BY <1>1, <1>6
<1> HIDE DEF r
<1> QED
  BY <1>7, <1>8, <1>9, <1>10 DEF n

\* What holds of the configuration c after the first i lines.
BadTo(f, i) == \E j \in 1..i : f[j].key \in Required /\ f[j].value = Bad
Says(line, k) == IF line.value = Bad THEN Default[k] ELSE line.value

\* What the first i lines of a file give.
PrefixRead(f, c, i) ==
  /\ BadTo(f, i) => c = Rejected
  /\ ~BadTo(f, i) =>
       /\ c \in [Keys -> Values]
       /\ \A k \in Keys : (\A j \in 1..i : j \notin Counting(f, k)) => c[k] = Default[k]
       /\ \A k \in Keys : \A j \in 1..i :
            j \in Counting(f, k) /\ (\A m \in 1..i : m \in Counting(f, k) => m <= j)
              => c[k] = Says(f[j], k)

\* One line more.
LEMMA PrefixStep ==
  ASSUME NEW f \in Seq(ConfigLine), NEW i \in 0..(Len(f) - 1), NEW c \in Configs, PrefixRead(f, c, i)
  PROVE  PrefixRead(f, Apply(c, f[i + 1]), i + 1)
<1> DEFINE line == f[i + 1]
           d == Apply(c, line)
<1>1. /\ Len(f) \in Nat /\ i \in Nat /\ i + 1 \in 1..Len(f) /\ DOMAIN f = 1..Len(f)
      /\ line \in ConfigLine
  OBVIOUS
<1>2. \A j \in 1..(i + 1) : j \in 1..i \/ j = i + 1
  BY <1>1
<1>3. i + 1 \in 1..(i + 1) /\ 1..i \subseteq 1..(i + 1) /\ \A j \in 1..i : j <= i + 1 /\ ~(i + 1 <= j)
  BY <1>1
<1>4. BadTo(f, i + 1) <=> BadTo(f, i) \/ (line.key \in Required /\ line.value = Bad)
  BY <1>2, <1>3 DEF BadTo
<1>5. \A k : i + 1 \in Counting(f, k) <=> line.key = k /\ (line.value # Bad \/ k \notin Kept)
  BY <1>1 DEF Counting
<1> HIDE DEF line
<1>6. CASE BadTo(f, i)
  <2>1. c = Rejected
    BY <1>6 DEF PrefixRead
  <2>2. d = Rejected
    BY <2>1 DEF Apply
  <2> QED
    BY <1>4, <1>6, <2>2 DEF PrefixRead, line
<1>7. CASE ~BadTo(f, i) /\ line.key \in Required /\ line.value = Bad
  <2>1. c \in [Keys -> Values]
    BY <1>7 DEF PrefixRead
  <2>2. d = Rejected
    BY <1>1, <1>7, <2>1, ApplyLine
  <2> QED
    BY <1>4, <1>7, <2>2 DEF PrefixRead, line
<1>8. CASE ~BadTo(f, i) /\ ~(line.key \in Required /\ line.value = Bad)
  <2>1. c \in [Keys -> Values]
    BY <1>8 DEF PrefixRead
  <2>2. ~BadTo(f, i + 1)
    BY <1>4, <1>8
  <2>3. /\ d \in [Keys -> Values]
        /\ \A k \in Keys : i + 1 \in Counting(f, k) => d[k] = Says(line, k)
        /\ \A k \in Keys : i + 1 \notin Counting(f, k) => d[k] = c[k]
    <3>1. Required \subseteq Keys /\ Kept \subseteq Keys /\ line.value \in Values
      BY <1>1 DEF Keys, ConfigLine, Values
    <3>2. CASE line.key \notin Keys
      <4>1. d = c
        BY <1>1, <2>1, <3>2, ApplyLine
      <4> QED
        BY <1>5, <2>1, <3>2, <4>1
    <3>3. CASE line.key \in Keys /\ line.value # Bad
      <4>1. d = [c EXCEPT ![line.key] = line.value]
        BY <1>1, <2>1, <3>3, ApplyLine
      <4> HIDE DEF d
      <4> QED
        BY <1>5, <2>1, <3>1, <3>3, <4>1 DEF Says
    <3>4. CASE line.key \in Kept /\ line.value = Bad
      <4>1. d = c
        BY <1>1, <2>1, <3>4, ApplyLine
      <4> QED
        BY <1>5, <2>1, <3>1, <3>4, <4>1
    <3>5. CASE line.key \in Keys /\ line.key \notin Required /\ line.key \notin Kept /\ line.value = Bad
      <4>1. d = [c EXCEPT ![line.key] = Default[line.key]]
        BY <1>1, <2>1, <3>5, ApplyLine
      <4>2. Default[line.key] \in Values
        BY <3>5 DEF Values
      <4> HIDE DEF d
      <4> QED
        BY <1>5, <2>1, <3>5, <4>1, <4>2 DEF Says
    <3> QED
      BY <1>8, <3>2, <3>3, <3>4, <3>5
  <2> HIDE DEF d
  <2>4. ASSUME NEW k \in Keys, \A j \in 1..(i + 1) : j \notin Counting(f, k)
        PROVE  d[k] = Default[k]
    BY <1>3, <1>8, <2>3, <2>4 DEF PrefixRead
  <2>5. ASSUME NEW k \in Keys, NEW j \in 1..(i + 1), j \in Counting(f, k),
               \A m \in 1..(i + 1) : m \in Counting(f, k) => m <= j
        PROVE  d[k] = Says(f[j], k)
    <3>1. CASE j = i + 1
      BY <2>3, <2>5, <3>1 DEF line
    <3>2. CASE j # i + 1
      <4>1. j \in 1..i /\ i + 1 \notin Counting(f, k)
        BY <1>2, <1>3, <2>5, <3>2
      <4>2. \A m \in 1..i : m \in Counting(f, k) => m <= j
        BY <1>3, <2>5
      <4>3. c[k] = Says(f[j], k)
        BY <1>8, <2>5, <4>1, <4>2 DEF PrefixRead
      <4> QED
        BY <2>3, <4>1, <4>3
    <3> QED
      BY <3>1, <3>2
  <2>6. PrefixRead(f, d, i + 1)
    BY <2>2, <2>3, <2>4, <2>5 DEF PrefixRead
  <2> QED
    BY <2>6 DEF d, line
<1> QED
  BY <1>6, <1>7, <1>8

\* The configuration after the last line.
LEMMA LoopMeaning ==
  ASSUME NEW f \in Seq(ConfigLine)
  PROVE  PrefixRead(f, FoldLeft(Apply, Default, f), Len(f))
<1> DEFINE n == Len(f)
<1>1. n \in Nat /\ DOMAIN f = 1..n /\ \A i \in 1..n : f[i] \in ConfigLine
  OBVIOUS
<1>2. PICK r \in [0..n -> Configs] :
        /\ r[0] = Default
        /\ \A i \in 1..n : r[i] = Apply(r[i - 1], f[i])
        /\ FoldLeft(Apply, Default, f) = r[n]
  BY LoadScan
<1> HIDE DEF n
<1> DEFINE T == {i \in 0..n : PrefixRead(f, r[i], i)}
<1>3. 0 \in T
  <2>1. PrefixRead(f, Default, 0)
    <3>1. 1..0 = {}
      OBVIOUS
    <3> QED
      BY <3>1, ConfigFacts DEF PrefixRead, BadTo
  <2> QED
    BY <1>1, <1>2, <2>1
<1>4. ASSUME NEW i \in 0..(n - 1), i \in T PROVE i + 1 \in T
  <2>1. i + 1 \in 1..n /\ (i + 1) - 1 = i /\ i \in 0..n
    BY <1>1
  <2>2. r[i + 1] = Apply(r[i], f[i + 1]) /\ r[i] \in Configs
    BY <1>2, <2>1
  <2>3. PrefixRead(f, r[i], i)
    BY <1>4
  <2>4. PrefixRead(f, r[i + 1], i + 1)
    BY <2>2, <2>3, PrefixStep DEF n
  <2> QED
    BY <2>1, <2>4
<1>5. n \in T
  <2> HIDE DEF T
  <2>1. 0..n \subseteq T
    BY <1>1, <1>3, <1>4, Induction
  <2> QED
    BY <1>1, <2>1
<1> QED
  BY <1>2, <1>5 DEF n

\* Meaning() is what the last counting line says, or the default.
LEMMA MeaningLine ==
  ASSUME NEW f \in Seq(ConfigLine), NEW c, NEW k \in Keys, ~BadTo(f, Len(f)), PrefixRead(f, c, Len(f))
  PROVE  c[k] = Meaning(f, k)
<1> DEFINE n == Len(f)
           C == Counting(f, k)
           last == CHOOSE i \in C : \A j \in C : j <= i
<1>1. n \in Nat /\ DOMAIN f = 1..n /\ C \in SUBSET (1..n)
  BY DEF Counting
<1>2. Meaning(f, k) = IF C = {} \/ f[last].value = Bad THEN Default[k] ELSE f[last].value
  BY DEF Meaning
<1>3. CASE C = {}
  <2>1. c[k] = Default[k]
    BY <1>3 DEF PrefixRead
  <2> QED
    BY <1>2, <1>3, <2>1
<1>4. CASE C # {}
  <2>1. last \in C /\ \A j \in C : j <= last
    <3> HIDE DEF C
    <3>1. \E i \in C : \A j \in C : j <= i
      BY <1>1, <1>4, MaxOfSome
    <3> QED
      BY <3>1
  <2> HIDE DEF last
  <2>2. c[k] = Says(f[last], k)
    BY <1>1, <2>1 DEF PrefixRead
  <2> QED
    BY <1>2, <1>4, <2>2 DEF Says
<1> QED
  BY <1>3, <1>4

\* What config_load() makes of any file: it refuses exactly the unusable ones,
\* and otherwise each key has the value of the last line for it that counts;
\* uploads are off without a directory (config.c, config_load()).
THEOREM LoadMeaning ==
  ASSUME NEW f \in Seq(ConfigLine)
  PROVE  /\ Load(f) = Rejected <=> Unusable(f)
         /\ Load(f) # Rejected =>
              /\ Load(f) \in [Keys -> Values \cup {"no"}]
              /\ \A k \in Keys :
                   Load(f)[k] = IF k = "UPLOAD_ENABLED" /\ Meaning(f, "UPLOAD_DIR") = "empty"
                                THEN "no" ELSE Meaning(f, k)
<1> DEFINE c == FoldLeft(Apply, Default, f)
<1>1. Len(f) \in Nat /\ DOMAIN f = 1..Len(f) /\ PrefixRead(f, c, Len(f))
  BY LoopMeaning
<1>2. BadTo(f, Len(f)) <=> \E i \in DOMAIN f : f[i].key \in Required /\ f[i].value = Bad
  BY <1>1 DEF BadTo
<1>3. Load(f) = CASE c = Rejected -> Rejected
                  [] c # Rejected /\ \E k \in Required : c[k] = None -> Rejected
                  [] OTHER -> IF c.UPLOAD_DIR = "empty" THEN [c EXCEPT !.UPLOAD_ENABLED = "no"] ELSE c
  BY DEF Load
<1> HIDE DEF c
<1>4. CASE BadTo(f, Len(f))
  <2>1. c = Rejected
    BY <1>1, <1>4 DEF PrefixRead
  <2>2. Load(f) = Rejected
    BY <1>3, <2>1
  <2> QED
    BY <1>2, <1>4, <2>2 DEF Unusable
<1>5. CASE ~BadTo(f, Len(f))
  <2>1. c \in [Keys -> Values] /\ c # Rejected
    BY <1>1, <1>5, ConfigFacts DEF PrefixRead
  <2>2. \A k \in Keys : c[k] = Meaning(f, k)
    BY <1>1, <1>5, MeaningLine
  <2>3. /\ "UPLOAD_DIR" \in Keys /\ "UPLOAD_ENABLED" \in Keys /\ Required \subseteq Keys
        /\ "UPLOAD_ENABLED" \notin Required
    BY ConfigFacts
  <2>4. Unusable(f) <=> \E k \in Required : c[k] = None
    BY <1>2, <1>5, <2>2, <2>3 DEF Unusable
  <2>5. CASE \E k \in Required : c[k] = None
    <3>1. Load(f) = Rejected
      BY <1>3, <2>1, <2>5
    <3> QED
      BY <2>4, <2>5, <3>1
  <2>6. CASE ~\E k \in Required : c[k] = None
    <3>1. Load(f) = IF c["UPLOAD_DIR"] = "empty" THEN [c EXCEPT !["UPLOAD_ENABLED"] = "no"] ELSE c
      BY <1>3, <2>1, <2>6
    <3>2. Load(f) \in [Keys -> Values \cup {"no"}]
      BY <2>1, <2>3, <3>1
    <3>3. Load(f) # Rejected
      <4>1. "TOKEN" \in Keys /\ DOMAIN Rejected = {}
        BY DEF Keys, Required, Rejected
      <4> QED
        BY <3>2, <4>1
    <3>4. \A k \in Keys :
            Load(f)[k] = IF k = "UPLOAD_ENABLED" /\ c["UPLOAD_DIR"] = "empty" THEN "no" ELSE c[k]
      BY <2>1, <2>3, <3>1
    <3>5. c["UPLOAD_DIR"] = Meaning(f, "UPLOAD_DIR")
      BY <2>2, <2>3
    <3> QED
      BY <2>2, <2>4, <2>6, <3>2, <3>3, <3>4, <3>5
  <2> QED
    BY <2>5, <2>6
<1> QED
  BY <1>4, <1>5

----------------------------------------------------------------------------
\* The configuration held is the one its file gives.
FromFile ==
  /\ file \in ConfigFiles
  /\ Up => source \in ConfigFiles /\ cfg = Load(source) /\ cfg # Rejected
  /\ phase = "parsed" => source \in ParsedFiles /\ cfg = Load(source)

\* FromFile is inductive.
LEMMA FromFileInit == SettingsInit => FromFile
BY DEF SettingsInit, FromFile, Up

LEMMA FromFileStep ==
  ASSUME FromFile, [SettingsNext]_settingsVars
  PROVE  FromFile'
<1>1. CASE Starts \/ LoggerStarts
  BY <1>1 DEF Starts, LoggerStarts, FromFile, Up, around
<1>2. CASE ConfigLoads
  BY <1>2 DEF ConfigLoads, FromFile, Up, around
<1>3. CASE ConfigRejected \/ Stops
  BY <1>3 DEF ConfigRejected, Stops, FromFile, Up, around
<1>4. CASE ConfigParsed
  BY <1>4 DEF ConfigParsed, FromFile, Up, around
<1>5. CASE Reload
  BY <1>5 DEF Reload, FromFile, Up, around
<1>6. CASE Rotates \/ RotateCleared
  BY <1>6 DEF Rotates, RotateCleared, FromFile, Up, around, kept, history
<1>7. CASE Logs \/ Logrotate
  BY <1>7 DEF Logs, Logrotate, FromFile, Up, around, kept, history
<1>8. CASE Edits
  BY <1>8 DEF Edits, FromFile, Up, kept, history
<1>9. CASE UNCHANGED settingsVars
  BY <1>9 DEF settingsVars, FromFile, Up, around, kept, history
<1> QED
  BY <1>1, <1>2, <1>3, <1>4, <1>5, <1>6, <1>7, <1>8, <1>9 DEF SettingsNext

\* A configuration in use, and one shown by --parse, is what its file says,
\* for any files (config.c, config_load(); cli.c, --parse).
THEOREM ConfigAsWrittenAlways == SettingsSpec => []ConfigAsWritten
<1>1. FromFile => ConfigAsWritten
  <2> SUFFICES ASSUME FromFile PROVE ConfigAsWritten
    OBVIOUS
  <2>1. ConfigFiles \subseteq Seq(ConfigLine) /\ ParsedFiles \subseteq Seq(ConfigLine)
    BY SettingsConstantsOK
  <2>2. CASE Up
    <3>1. source \in Seq(ConfigLine) /\ cfg = Load(source) /\ cfg # Rejected /\ phase # "parsed"
      BY <2>1, <2>2 DEF FromFile, Up
    <3> QED
      BY <2>2, <3>1, LoadMeaning DEF ConfigAsWritten
  <2>3. CASE phase = "parsed"
    <3>1. source \in Seq(ConfigLine) /\ cfg = Load(source) /\ ~Up
      BY <2>1, <2>3 DEF FromFile, Up
    <3> QED
      BY <2>3, <3>1, LoadMeaning DEF ConfigAsWritten
  <2>4. CASE ~Up /\ phase # "parsed"
    BY <2>4 DEF ConfigAsWritten
  <2> QED
    BY <2>2, <2>3, <2>4
<1> QED
  BY FromFileInit, FromFileStep, <1>1, PTL DEF SettingsSpec

----------------------------------------------------------------------------
\* The rest of the types: the early buffer stays within its size, the level is
\* one of logger.c's.
Limits ==
  /\ Len(early) <= EarlyMax /\ level \in Levels
  /\ phase \in {"off", "early", "logging", "running", "rotating", "parsed"}
  /\ rotate \in BOOLEAN /\ refused \in BOOLEAN /\ missed \in BOOLEAN /\ renewed \in BOOLEAN
  /\ edits \in 0..MaxEdits /\ starts \in 0..MaxStarts

\* Lines and levels.
LEMMA LineSeq ==
  ASSUME NEW n \in Nat, NEW s \in Seq(Nat), \A k \in 1..Len(s) : s[k] \in 1..n
  PROVE  s \in Seq(1..n)
<1> DEFINE T == 1..n
<1>1. \A k \in 1..Len(s) : s[k] \in T
  OBVIOUS
<1> HIDE DEF T
<1>2. s \in Seq(T)
  BY <1>1
<1> QED
  BY <1>2 DEF T

LEMMA LevelsOf ==
  ASSUME file \in ConfigFiles, Load(file) # Rejected
  PROVE  LevelOf[Load(file).LOG_LEVEL] \in Levels
<1>1. \A x \in DOMAIN LevelOf : LevelOf[x] \in Levels
  BY DEF LevelOf, Levels, LOG_INFO
<1>2. Load(file).LOG_LEVEL \in DOMAIN LevelOf
  BY SettingsConstantsOK
<1> QED
  BY <1>1, <1>2

\* The early buffer does not outgrow its size.
LEMMA EarlyFits ==
  ASSUME early \in Seq(Nat), Len(early) <= EarlyMax, NEW path, NEW rc,
         logger_init(path, rc) \/ logger_reopen(path, rc)
  PROVE  Len(early') <= EarlyMax
<1>1. early' = early \/ early' = <<>>
  BY DEF logger_init, logger_reopen, Opened
<1>2. EarlyMax \in Nat /\ Len(<<>>) = 0
  BY LoggerConstantsOK
<1> QED
  BY <1>1, <1>2

\* The types and limits hold at first, and are kept by every step.
LEMMA LimitsInit == SettingsInit => Limits
<1>1. EarlyMax \in Nat /\ Len(<<>>) = 0 /\ MaxEdits \in Nat /\ MaxStarts \in Nat
  BY LoggerConstantsOK, SettingsConstantsOK
<1> SUFFICES ASSUME SettingsInit PROVE Limits
  OBVIOUS
<1>2. early = <<>> /\ level \in Levels
  BY DEF SettingsInit, LoggerInit, Levels, LOG_INFO
<1>3. Len(early) <= EarlyMax
  BY <1>1, <1>2
<1>4. edits \in 0..MaxEdits /\ starts \in 0..MaxStarts
  BY <1>1 DEF SettingsInit
<1> QED
  BY <1>2, <1>3, <1>4 DEF SettingsInit, Limits

LEMMA LimitsStep ==
  ASSUME SInv, Limits, [SettingsNext]_settingsVars
  PROVE  Limits'
<1>1. early \in Seq(Nat) /\ lines \in Nat /\ file \in ConfigFiles
  BY DEF SInv, LInv, LogTypes
<1>2. EarlyMax \in Nat /\ Len(<<>>) = 0 /\ MaxEdits \in Nat /\ MaxStarts \in Nat
  BY LoggerConstantsOK, SettingsConstantsOK
<1>3. CASE Starts
  BY <1>2, <1>3 DEF Starts, Limits, logVars, history
<1>4. CASE LoggerStarts
  <2>1. Len(early') <= EarlyMax
    BY <1>1, <1>4, EarlyFits DEF LoggerStarts, Limits
  <2> QED
    BY <1>4, <2>1 DEF LoggerStarts, Limits, history, around
<1>5. CASE ConfigLoads
  <2>1. Len(early') <= EarlyMax
    BY <1>1, <1>5, EarlyFits DEF ConfigLoads, Limits
  <2>2. level' \in Levels
    BY <1>1, <1>5, LevelsOf DEF ConfigLoads
  <2> QED
    BY <1>5, <2>1, <2>2 DEF ConfigLoads, Limits, around
<1>6. CASE ConfigRejected \/ Stops
  <2>1. early' = <<>> /\ level' \in Levels
    BY <1>6 DEF ConfigRejected, Stops, Forgotten, Levels, LOG_INFO
  <2>2. Len(early') <= EarlyMax
    BY <1>2, <2>1
  <2> QED
    BY <1>6, <2>1, <2>2 DEF ConfigRejected, Stops, Forgotten, Limits, around
<1>7. CASE ConfigParsed
  BY <1>7 DEF ConfigParsed, Limits, logVars, around
<1>8. CASE Reload
  <2>1. Len(early') <= EarlyMax
    BY <1>1, <1>8, EarlyFits DEF Reload, Limits
  <2>2. level' \in Levels
    BY <1>1, <1>8, LevelsOf DEF Reload
  <2>3. refused' \in BOOLEAN /\ missed' \in BOOLEAN
    BY <1>8 DEF Reload, Limits
  <2> QED
    BY <1>8, <2>1, <2>2, <2>3 DEF Reload, Limits, around
<1>9. CASE Rotates
  <2>1. Len(early') <= EarlyMax
    BY <1>1, <1>9, EarlyFits DEF Rotates, Limits
  <2>2. refused' \in BOOLEAN /\ missed' \in BOOLEAN
    BY <1>9 DEF Rotates, Limits
  <2> QED
    BY <1>9, <2>1, <2>2 DEF Rotates, Limits, around
<1>10. CASE RotateCleared \/ Edits
  <2>1. CASE RotateCleared
    BY <2>1 DEF RotateCleared, Limits, logVars, history, around
  <2>2. CASE Edits
    <3>1. edits' \in 0..MaxEdits
      BY <1>2, <2>2 DEF Edits, Limits
    <3> QED
      BY <2>2, <3>1 DEF Edits, Limits, logVars, history
  <2> QED
    BY <1>10, <2>1, <2>2
<1>11. CASE Logs
  <2>1. Len(early') <= EarlyMax
    <3>1. early' = early \/ (Len(early) < EarlyMax /\ early' = Append(early, lines + 1))
      BY <1>11 DEF Logs, log_msg, Buffered, Written
    <3>2. Len(Append(early, lines + 1)) = Len(early) + 1 /\ Len(early) \in Nat
      BY <1>1
    <3> QED
      BY <1>2, <3>1, <3>2 DEF Limits
  <2> QED
    BY <1>11, <2>1 DEF Logs, log_msg, Limits, history, around
<1>12. CASE Logrotate
  BY <1>12 DEF Logrotate, Limits, around
<1>13. CASE UNCHANGED settingsVars
  BY <1>13 DEF settingsVars, logVars, Limits, history, around
<1> QED
  BY <1>3, <1>4, <1>5, <1>6, <1>7, <1>8, <1>9, <1>10, <1>11, <1>12, <1>13 DEF SettingsNext

\* All variables keep their types: the early buffer never exceeds its size and
\* a handle or a path leads to a file there is (logger.c), a configuration in
\* use has every key (config.c, config_load()).
THEOREM SettingsTypes == SettingsSpec => []SettingsTypeOK
<1>1. SInv /\ FromFile /\ Limits => SettingsTypeOK
  <2> SUFFICES ASSUME SInv, FromFile, Limits PROVE SettingsTypeOK
    OBVIOUS
  <2>1. LInv
    BY DEF SInv
  <2>2. /\ early \in Seq(Nat) /\ disk \in Seq(Seq(Nat)) /\ lines \in Nat /\ handle \in 0..Len(disk)
        /\ dir \in [LogPaths -> 0..Len(disk)] /\ NoneAhead
    BY <2>1 DEF LInv, LogTypes
  <2>3. early \in Seq(1..lines)
    <3>1. \A k \in 1..Len(early) : early[k] \in 1..lines
      BY <2>2 DEF NoneAhead
    <3> QED
      BY <2>2, <3>1
  <2>4. \A i \in 1..Len(disk) : disk[i] \in Seq(1..lines)
    <3>1. SUFFICES ASSUME NEW i \in 1..Len(disk) PROVE disk[i] \in Seq(1..lines)
      OBVIOUS
    <3>2. disk[i] \in Seq(Nat)
      BY <2>2
    <3>3. \A k \in 1..Len(disk[i]) : disk[i][k] \in 1..lines
      BY <2>2 DEF NoneAhead, Inodes
    <3> QED
      BY <2>2, <3>2, <3>3, LineSeq
  <2>5. disk \in Seq(Seq(1..lines))
    <3> DEFINE S == Seq(1..lines)
               R == Seq(Nat)
    <3>1. disk \in Seq(R) /\ \A i \in 1..Len(disk) : disk[i] \in S
      BY <2>2, <2>4
    <3> HIDE DEF S, R
    <3>2. disk \in Seq(S)
      BY <3>1
    <3> QED
      BY <3>2 DEF S
  <2>6. LoggerTypeOK
    BY <2>1, <2>2, <2>3, <2>5 DEF LoggerTypeOK, Limits, LInv, Seen
  <2>7. Up => DOMAIN cfg = Keys
    <3>1. SUFFICES ASSUME Up PROVE DOMAIN cfg = Keys
      OBVIOUS
    <3>2. source \in Seq(ConfigLine) /\ cfg = Load(source) /\ cfg # Rejected
      BY <3>1, SettingsConstantsOK DEF FromFile
    <3>3. Load(source) \in [Keys -> Values \cup {"no"}]
      BY <3>2, LoadMeaning
    <3> QED
      BY <3>2, <3>3
  <2> QED
    BY <2>6, <2>7 DEF SettingsTypeOK, SInv, Limits
<1> QED
  BY SettingsInvariant, SettingsInitOK, FromFileInit, FromFileStep, LimitsInit, LimitsStep, <1>1, PTL
  DEF SettingsSpec
============================================================================
