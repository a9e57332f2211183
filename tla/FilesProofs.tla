---------------------------- MODULE FilesProofs ----------------------------
(***************************************************************************)
(* The two properties of the upload directory (Files), for any number of   *)
(* runs, names and seconds.                                                *)
(*                                                                         *)
(* PartialExplained is not inductive: that nothing half written outlives   *)
(* its run rests on where the current run may have such a file at all      *)
(* (OwnFiles).  PairWhole rests on what a pair looks like while its two    *)
(* files are written (PairSoFar).                                          *)
(***************************************************************************)
EXTENDS Files, TLAPS

Writing == fpc \in {"open", "write", "rename"}

\* Nothing is of a run still to come.
Dated ==
  /\ ~Idle => run >= 1
  /\ \A n \in FileNames : files[n].by <= run
  /\ \A n \in Pairs : temps[n].by <= run

\* What the current run has, as long as it runs.
OwnFiles ==
  /\ \A n \in FileNames :
       ~Idle /\ files[n].by = run /\ files[n].has = "part" =>
         (fpc = "download" /\ n = name) \/ run \in unflushed
  /\ \A n \in Pairs :
       ~Idle /\ temps[n].by = run => fpc \in {"write", "rename"} /\ n = name
  /\ fpc \in {"write", "rename"} => temps[name].by = run /\ temps[name].has # "error"
  /\ fpc = "rename" /\ temps[name].has = "part" => run \in unflushed

\* The current run has a file of a pair only between the two of them; the second
\* that is being written is empty before, unless two runs fell into it.
PairSoFar ==
  /\ \A n \in Pairs :
       ~Idle /\ files[n].by = run => Writing /\ name = <<"ss", n[2]>> /\ n[1] = "cloak"
  /\ Writing /\ name[2] \notin clashed =>
       /\ ~Present(<<"ss", name[2]>>)
       /\ name[1] = "cloak" => ~Present(Cloak)
       /\ name[1] = "ss" => files[Cloak].by = run

FInv == FilesTypeOK /\ Dated /\ OwnFiles /\ PartialExplained /\ PairSoFar /\ PairWhole

----------------------------------------------------------------------------
\* What pairs and uploads are called.
LEMMA NamesApart ==
  /\ \A n \in Pairs : n \notin Uploads /\ n \in FileNames /\ n = <<n[1], n[2]>>
                      /\ n[1] \in {"cloak", "ss"} /\ n[2] \in 0..MaxTime
  /\ \A t \in 0..MaxTime : <<"cloak", t>> \in Pairs /\ <<"ss", t>> \in Pairs
                           /\ <<"cloak", t>> # <<"ss", t>>
  /\ \A n \in Uploads : n \in FileNames /\ n \notin Pairs
BY DEF Pairs, Uploads, FileNames

LEMMA TypeInit == FilesInit => FilesTypeOK
BY FilesConstantsOK DEF FilesInit, FilesTypeOK, Absent, File, Parts, FileNames, Pairs, Uploads

\* The types, action by action.
LEMMA TypeStep == FilesTypeOK /\ Dated /\ [FilesNext]_filesVars => FilesTypeOK'
<1> SUFFICES ASSUME FilesTypeOK, Dated, [FilesNext]_filesVars PROVE FilesTypeOK'
  OBVIOUS
<1> USE FilesConstantsOK, NamesApart DEF FilesTypeOK, Idle, File, Absent, Parts, dirVars, historyF
<1>1. CASE UploadRefused \/ SsRefused
  BY <1>1 DEF UploadRefused, SsRefused, Begins
<1>2. CASE UploadOpens
  BY <1>2 DEF UploadOpens, Begins
<1>3. CASE DownloadDone
  BY <1>3 DEF DownloadDone, Ends, Dated
<1>4. CASE DownloadFails
  BY <1>4 DEF DownloadFails, Ends
<1>5. CASE SsBegins
  BY <1>5 DEF SsBegins, Begins
<1>6. CASE TempOpens
  BY <1>6 DEF TempOpens
<1>7. CASE TempNotOpened
  BY <1>7 DEF TempNotOpened, PairFails, Ends, Cloak
<1>8. CASE TempNotWritten
  BY <1>8 DEF TempNotWritten, PairFails, Ends, Cloak
<1>9. CASE TempWritten
  BY <1>9 DEF TempWritten, Dated
<1>10. CASE RenameFails
  BY <1>10 DEF RenameFails, PairFails, Ends, Cloak
<1>11. CASE Renamed
  BY <1>11 DEF Renamed, Ends, Dated
<1>12. CASE Crashes
  BY <1>12 DEF Crashes, Dated
<1>13. CASE Passes
  BY <1>13 DEF Passes
<1>14. CASE UNCHANGED filesVars
  BY <1>14 DEF filesVars
<1> QED
  BY <1>1, <1>2, <1>3, <1>4, <1>5, <1>6, <1>7, <1>8, <1>9, <1>10, <1>11, <1>12, <1>13, <1>14
     DEF FilesNext

\* No run writes under a number that is not its own.
LEMMA DatedStep == FilesTypeOK /\ Dated /\ [FilesNext]_filesVars => Dated'
<1> SUFFICES ASSUME FilesTypeOK, Dated, [FilesNext]_filesVars PROVE Dated'
  OBVIOUS
<1> USE FilesConstantsOK, NamesApart DEF FilesTypeOK, Dated, Idle, File, Absent, dirVars, historyF
<1>1. CASE UploadRefused \/ SsRefused
  BY <1>1 DEF UploadRefused, SsRefused, Begins
<1>2. CASE UploadOpens
  BY <1>2 DEF UploadOpens, Begins
<1>3. CASE DownloadDone
  BY <1>3, SMTT(30) DEF DownloadDone, Ends
<1>4. CASE DownloadFails
  BY <1>4 DEF DownloadFails, Ends
<1>5. CASE SsBegins
  BY <1>5 DEF SsBegins, Begins
<1>6. CASE TempOpens
  BY <1>6 DEF TempOpens
<1>7. CASE TempNotOpened
  BY <1>7 DEF TempNotOpened, PairFails, Ends, Cloak
<1>8. CASE TempNotWritten
  BY <1>8 DEF TempNotWritten, PairFails, Ends, Cloak
<1>9. CASE TempWritten
  BY <1>9 DEF TempWritten
<1>10. CASE RenameFails
  BY <1>10 DEF RenameFails, PairFails, Ends, Cloak
<1>11. CASE Renamed
  BY <1>11 DEF Renamed, Ends
<1>12. CASE Crashes
  BY <1>12 DEF Crashes
<1>13. CASE Passes
  BY <1>13 DEF Passes
<1>14. CASE UNCHANGED filesVars
  BY <1>14 DEF filesVars
<1> QED
  BY <1>1, <1>2, <1>3, <1>4, <1>5, <1>6, <1>7, <1>8, <1>9, <1>10, <1>11, <1>12, <1>13, <1>14
     DEF FilesNext

----------------------------------------------------------------------------
\* Where the current run has files, and what is left of the others.
LEMMA OwnStep ==
  ASSUME FilesTypeOK, Dated, OwnFiles, PartialExplained, [FilesNext]_filesVars
  PROVE  OwnFiles' /\ PartialExplained'
<1> USE FilesConstantsOK, NamesApart
    DEF FilesTypeOK, Dated, OwnFiles, PartialExplained, Running, Present, Idle,
        File, Absent, dirVars, historyF
<1>1. CASE UploadRefused \/ SsRefused
  BY <1>1 DEF UploadRefused, SsRefused, Begins
<1>2. CASE UploadOpens
  BY <1>2 DEF UploadOpens, Begins
<1>3. CASE DownloadDone
  BY <1>3 DEF DownloadDone, Ends
<1>4. CASE DownloadFails
  BY <1>4 DEF DownloadFails, Ends
<1>5. CASE SsBegins
  BY <1>5 DEF SsBegins, Begins
<1>6. CASE TempOpens
  BY <1>6 DEF TempOpens
<1>7. CASE TempNotOpened
  BY <1>7 DEF TempNotOpened, PairFails, Ends, Cloak
<1>8. CASE TempNotWritten
  BY <1>8 DEF TempNotWritten, PairFails, Ends, Cloak
<1>9. CASE TempWritten
  BY <1>9 DEF TempWritten
<1>10. CASE RenameFails
  BY <1>10 DEF RenameFails, PairFails, Ends, Cloak
<1>11. CASE Renamed
  BY <1>11 DEF Renamed, Ends
<1>12. CASE Crashes
  BY <1>12 DEF Crashes
<1>13. CASE Passes
  BY <1>13 DEF Passes
<1>14. CASE UNCHANGED filesVars
  BY <1>14 DEF filesVars
<1> QED
  BY <1>1, <1>2, <1>3, <1>4, <1>5, <1>6, <1>7, <1>8, <1>9, <1>10, <1>11, <1>12, <1>13, <1>14
     DEF FilesNext

----------------------------------------------------------------------------
\* What the pair being written looks like, and the others.
LEMMA PairStep ==
  ASSUME FilesTypeOK, Dated, OwnFiles, PairSoFar, PairWhole, [FilesNext]_filesVars
  PROVE  PairSoFar' /\ PairWhole'
<1> USE FilesConstantsOK, NamesApart
    DEF FilesTypeOK, Dated, PairSoFar, PairWhole, Writing, Running, Present, Cloak, Idle,
        File, Absent, dirVars, historyF
<1>1. CASE UploadRefused \/ SsRefused
  BY <1>1 DEF UploadRefused, SsRefused, Begins
<1>2. CASE UploadOpens
  BY <1>2 DEF UploadOpens, Begins
<1>3. CASE DownloadDone
  <2>1. \A n \in Pairs : files'[n] = files[n]
    BY <1>3 DEF DownloadDone
  <2>2. ~Writing' /\ Idle' /\ run' = run /\ clashed' = clashed /\ killed' = killed
    BY <1>3 DEF DownloadDone, Ends
  <2>3. PairSoFar'
    BY <2>2
  <2>4. ASSUME NEW u \in (0..MaxTime) \ clashed
        PROVE  /\ files'[<<"ss", u>>] = files[<<"ss", u>>]
               /\ files'[<<"cloak", u>>] = files[<<"cloak", u>>]
               /\ files[<<"cloak", u>>].by # run
    BY <2>1, <1>3 DEF DownloadDone
  <2> QED
    BY <2>2, <2>3, <2>4
<1>4. CASE DownloadFails
  BY <1>4 DEF DownloadFails, Ends
<1>5. CASE SsBegins
  BY <1>5 DEF SsBegins, Begins
<1>6. CASE TempOpens
  BY <1>6 DEF TempOpens
<1>7. CASE TempNotOpened
  BY <1>7 DEF TempNotOpened, PairFails, Ends
<1>8. CASE TempNotWritten
  BY <1>8 DEF TempNotWritten, PairFails, Ends
<1>9. CASE TempWritten
  BY <1>9 DEF TempWritten
<1>10. CASE RenameFails
  BY <1>10 DEF RenameFails, PairFails, Ends
<1>11. CASE Renamed
  <2>1. files' = [files EXCEPT ![name] = temps[name]] /\ name \in Pairs
    BY <1>11 DEF Renamed
  <2>2. CASE name[1] = "cloak"
    <3>1. PICK s \in 0..MaxTime : name = <<"cloak", s>> /\ <<"cloak", s>> \in Pairs
      BY <2>1, <2>2
    <3>2. name' = <<"ss", s>> /\ fpc' = "open" /\ Running(run)' /\ name[2] = s /\ Writing
      BY <1>11, <2>2, <3>1 DEF Renamed
    <3>3. run' = run /\ clashed' = clashed /\ killed' = killed
      BY <1>11 DEF Renamed
    <3>4. temps[name].by = run
      BY <1>11 DEF Renamed, OwnFiles
    <3>5. files'[<<"cloak", s>>].by = run
      BY <2>1, <3>1, <3>4
    <3>6. \A n \in FileNames : n # <<"cloak", s>> => files'[n] = files[n]
      BY <2>1, <3>1
    <3>7. s \notin clashed => files[<<"ss", s>>].by = 0
      BY <3>1, <3>2
    <3>8. PairSoFar'
      BY <3>2, <3>3, <3>5, <3>6, <3>7
    <3>9. PairWhole'
      <4> SUFFICES ASSUME NEW u \in (0..MaxTime) \ clashed
                   PROVE  /\ Present(<<"ss", u>>)' =>
                               files'[<<"ss", u>>].by = files'[<<"cloak", u>>].by
                          /\ Present(<<"cloak", u>>)' /\ ~Present(<<"ss", u>>)' =>
                               Running(files[<<"cloak", u>>].by)' \/ files'[<<"cloak", u>>].by \in killed
        BY <3>3
      <4>1. CASE u = s
        BY <4>1, <3>2, <3>3, <3>5, <3>6, <3>7
      <4>2. CASE u # s
        <5>1. /\ files'[<<"ss", u>>] = files[<<"ss", u>>]
              /\ files'[<<"cloak", u>>] = files[<<"cloak", u>>]
          BY <4>2, <3>6
        <5> QED
          BY <5>1, <3>2, <3>3
      <4> QED
        BY <4>1, <4>2
    <3> QED
      BY <3>8, <3>9
  <2>3. CASE name[1] = "ss"
    <3>1. PICK s \in 0..MaxTime : name = <<"ss", s>> /\ <<"ss", s>> \in Pairs
      BY <2>1, <2>3
    <3>2. Idle' /\ name[2] = s /\ Cloak = <<"cloak", s>> /\ Writing /\ run # 0
      BY <1>11, <2>3, <3>1 DEF Renamed, Ends
    <3>3. run' = run /\ clashed' = clashed /\ killed' = killed
      BY <1>11, <2>3 DEF Renamed, Ends
    <3>4. temps[name].by = run
      BY <1>11 DEF Renamed, OwnFiles
    <3>5. files'[<<"ss", s>>].by = run
      BY <2>1, <3>1, <3>4
    <3>6. \A n \in FileNames : n # <<"ss", s>> => files'[n] = files[n]
      BY <2>1, <3>1
    <3>7. s \notin clashed => files[<<"cloak", s>>].by = run
      BY <3>1, <3>2
    <3>8. PairSoFar'
      BY <3>2
    <3>9. PairWhole'
      <4> SUFFICES ASSUME NEW u \in (0..MaxTime) \ clashed
                   PROVE  /\ Present(<<"ss", u>>)' =>
                               files'[<<"ss", u>>].by = files'[<<"cloak", u>>].by
                          /\ Present(<<"cloak", u>>)' /\ ~Present(<<"ss", u>>)' =>
                               files'[<<"cloak", u>>].by \in killed
        BY <3>3
      <4>1. CASE u = s
        BY <4>1, <3>2, <3>3, <3>5, <3>6, <3>7
      <4>2. CASE u # s
        <5>1. /\ files'[<<"ss", u>>] = files[<<"ss", u>>]
              /\ files'[<<"cloak", u>>] = files[<<"cloak", u>>]
              /\ files[<<"cloak", u>>].by # run
          BY <4>2, <3>1, <3>2, <3>6
        <5> QED
          BY <5>1, <3>2, <3>3
      <4> QED
        BY <4>1, <4>2
    <3> QED
      BY <3>8, <3>9
  <2> QED
    BY <2>1, <2>2, <2>3
<1>12. CASE Crashes
  BY <1>12 DEF Crashes
<1>13. CASE Passes
  BY <1>13 DEF Passes
<1>14. CASE UNCHANGED filesVars
  BY <1>14 DEF filesVars
<1> QED
  BY <1>1, <1>2, <1>3, <1>4, <1>5, <1>6, <1>7, <1>8, <1>9, <1>10, <1>11, <1>12, <1>13, <1>14
     DEF FilesNext

----------------------------------------------------------------------------
\* FInv holds of all reachable states.
THEOREM FilesInvariant == FilesSpec => []FInv
<1>1. FilesInit => FInv
  <2> SUFFICES ASSUME FilesInit PROVE FInv
    OBVIOUS
  <2>1. FilesTypeOK
    BY TypeInit
  <2>2. Dated /\ OwnFiles /\ PartialExplained /\ PairSoFar /\ PairWhole
    BY NamesApart DEF FilesInit, Dated, OwnFiles, PartialExplained, PairSoFar, PairWhole,
       Writing, Present, Idle, Absent, FileNames
  <2> QED
    BY <2>1, <2>2 DEF FInv
<1>2. FInv /\ [FilesNext]_filesVars => FInv'
  BY TypeStep, DatedStep, OwnStep, PairStep DEF FInv
<1> QED
  BY <1>1, <1>2, PTL DEF FilesSpec

\* Whatever is not whole in the upload directory is explained: it is being
\* written, or a crash or an unnoticed error of fclose() left it; error texts are
\* uploads that were reported as saved (upload.c, cmd_ssconfig.c).
THEOREM PartialExplainedAlways == FilesSpec => []PartialExplained
<1>1. FInv => PartialExplained
  BY DEF FInv
<1> QED
  BY <1>1, FilesInvariant, PTL

\* The files of a pair belong together, outside of seconds in which a pair was
\* begun twice (cmd_ssconfig.c:365-430).
THEOREM PairWholeAlways == FilesSpec => []PairWhole
<1>1. FInv => PairWhole
  BY DEF FInv
<1> QED
  BY <1>1, FilesInvariant, PTL
============================================================================
