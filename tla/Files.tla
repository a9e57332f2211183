------------------------------- MODULE Files --------------------------------
(***************************************************************************)
(* What the bot writes into UPLOAD_DIR: uploads (upload.c, cmd_upload.c)   *)
(* and the pairs of client configurations of /ssconfig (cmd_ssconfig.c),   *)
(* one handler at a time, each in the steps a crash can separate.          *)
(*                                                                         *)
(* A file remembers the run of a handler that wrote it and how much of it  *)
(* is there.  Data that a FILE still buffers at fclose() may be lost to a  *)
(* full disk, which no caller notices.  A download may also be the text of *)
(* an HTTP error, which libcurl hands over like any other body.  remove()  *)
(* of a file just written does not fail.                                   *)
(*                                                                         *)
(* The name of a pair holds the second it was written in.                  *)
(* A definition named MutX is X with a plausible slip; no action uses it.  *)
(***************************************************************************)
EXTENDS Integers

CONSTANTS
  Names,     \* what the names of uploads become (sanitize_filename)
  MaxRuns,   \* bound of the number of runs of a handler
  MaxTime    \* bound of the clock

ASSUME FilesConstantsOK == MaxRuns \in Nat /\ MaxTime \in Nat

VARIABLES
  fpc,       \* where the handler is
  run,       \* number of the current run, or of the last one
  name,      \* the file the handler writes
  now,       \* the clock, in seconds
  files,     \* UPLOAD_DIR: what each name holds
  temps      \* UPLOAD_DIR: what the .tmp file of each name holds

VARIABLES
  saved,     \* runs the user was told a success of
  killed,    \* runs that a crash ended
  unflushed, \* runs that lost data in fclose()
  clashed    \* seconds in which a pair was begun a second time

dirVars == <<files, temps>>
historyF == <<saved, killed, unflushed, clashed>>
filesVars == <<fpc, run, name, now, dirVars, historyF>>

----------------------------------------------------------------------------
Pairs == {"cloak", "ss"} \X (0..MaxTime)
Uploads == {"upload"} \X Names
FileNames == Uploads \cup Pairs
Parts == {"part", "whole", "error"}
Absent == [by |-> 0, has |-> "part"]
File(r, p) == [by |-> r, has |-> p]
Present(n) == files[n].by # 0

Cloak == <<"cloak", name[2]>>     \* the partner of the ss file being written
Idle == fpc = "idle"

Begins ==
  /\ Idle
  /\ run < MaxRuns
  /\ run' = run + 1

\* The handler is over; success or failure is all the user hears.
Ends(success) ==
  /\ fpc' = "idle"
  /\ saved' = IF success THEN saved \cup {run} ELSE saved

----------------------------------------------------------------------------
(* cmd_handle_upload(), upload_receive_file() *)

\* Disabled, no file id, getFile() fails, path too long, fopen() fails.
UploadRefused ==
  /\ Begins
  /\ UNCHANGED <<fpc, name, now, dirVars, historyF>>

\* fopen(path, "wb") has emptied the destination.
UploadOpens ==
  /\ Begins
  /\ \E n \in Uploads :
       /\ name' = n
       /\ files' = [files EXCEPT ![n] = File(run', "part")]
  /\ fpc' = "download"
  /\ UNCHANGED <<now, temps, historyF>>

\* The body is complete; the last of it is written by fclose(), unchecked.
MutDownloadDone ==
  /\ fpc = "download"
  /\ Ends(TRUE)
  /\ UNCHANGED <<run, name, now, files, temps, killed, unflushed, clashed>>

DownloadDone ==
  /\ fpc = "download"
  /\ \/ /\ \E p \in {"whole", "error"} : files' = [files EXCEPT ![name] = File(run, p)]
        /\ UNCHANGED unflushed
     \/ unflushed' = unflushed \cup {run} /\ UNCHANGED files
  /\ Ends(TRUE)
  /\ UNCHANGED <<run, name, now, temps, killed, clashed>>

\* Transport error, or a short write: the file is removed.
DownloadFails ==
  /\ fpc = "download"
  /\ files' = [files EXCEPT ![name] = Absent]
  /\ Ends(FALSE)
  /\ UNCHANGED <<run, name, now, temps, killed, unflushed, clashed>>

----------------------------------------------------------------------------
(* cmd_ssconfig_v2(), write_json_file_atomic() *)

\* Not configured, uploads off, no address, a source file without a value
\* that has no default.
SsRefused ==
  /\ Begins
  /\ UNCHANGED <<fpc, name, now, dirVars, historyF>>

SsBegins ==
  /\ Begins
  /\ name' = <<"cloak", now>>
  /\ clashed' = IF Present(<<"cloak", now>>) \/ Present(<<"ss", now>>)
                THEN clashed \cup {now} ELSE clashed
  /\ fpc' = "open"
  /\ UNCHANGED <<now, dirVars, saved, killed, unflushed>>

\* The first file of a pair is not there: nothing else was written.  The
\* second one is not: the first one is removed, whoever wrote it.
MutPairFails ==
  /\ files' = files
  /\ Ends(FALSE)

PairFails ==
  /\ files' = IF name[1] = "ss" THEN [files EXCEPT ![Cloak] = Absent] ELSE files
  /\ Ends(FALSE)

TempOpens ==
  /\ fpc = "open"
  /\ temps' = [temps EXCEPT ![name] = File(run, "part")]
  /\ fpc' = "write"
  /\ UNCHANGED <<run, name, now, files, historyF>>

TempNotOpened ==
  /\ fpc = "open"
  /\ PairFails
  /\ UNCHANGED <<run, name, now, temps, killed, unflushed, clashed>>

\* fputs() fails: the temporary file is removed.
TempNotWritten ==
  /\ fpc = "write"
  /\ temps' = [temps EXCEPT ![name] = Absent]
  /\ PairFails
  /\ UNCHANGED <<run, name, now, killed, unflushed, clashed>>

\* fputs() succeeds, fclose() writes what it buffered or loses it.
TempWritten ==
  /\ fpc = "write"
  /\ fpc' = "rename"
  /\ \/ temps' = [temps EXCEPT ![name] = File(run, "whole")] /\ UNCHANGED unflushed
     \/ unflushed' = unflushed \cup {run} /\ UNCHANGED temps
  /\ UNCHANGED <<run, name, now, files, saved, killed, clashed>>

RenameFails ==
  /\ fpc = "rename"
  /\ temps' = [temps EXCEPT ![name] = Absent]
  /\ PairFails
  /\ UNCHANGED <<run, name, now, killed, unflushed, clashed>>

\* The first rename is followed by the second file, the second by the reply.
Renamed ==
  /\ fpc = "rename"
  /\ files' = [files EXCEPT ![name] = temps[name]]
  /\ temps' = [temps EXCEPT ![name] = Absent]
  /\ IF name[1] = "cloak"
     THEN name' = <<"ss", name[2]>> /\ fpc' = "open" /\ UNCHANGED saved
     ELSE Ends(TRUE) /\ UNCHANGED name
  /\ UNCHANGED <<run, now, killed, unflushed, clashed>>

----------------------------------------------------------------------------
\* Crash or kill anywhere in a handler; the restart takes its time.
Crashes ==
  /\ ~Idle
  /\ now < MaxTime
  /\ now' = now + 1
  /\ fpc' = "idle"
  /\ killed' = killed \cup {run}
  /\ UNCHANGED <<run, name, dirVars, saved, unflushed, clashed>>

Passes ==
  /\ now < MaxTime
  /\ now' = now + 1
  /\ UNCHANGED <<fpc, run, name, dirVars, historyF>>

FilesInit ==
  /\ fpc = "idle" /\ run = 0 /\ name = <<"ss", 0>> /\ now = 0
  /\ files = [n \in FileNames |-> Absent] /\ temps = [n \in Pairs |-> Absent]
  /\ saved = {} /\ killed = {} /\ unflushed = {} /\ clashed = {}

FilesNext ==
  \/ UploadRefused \/ UploadOpens \/ DownloadDone \/ DownloadFails
  \/ SsRefused \/ SsBegins \/ TempOpens \/ TempNotOpened \/ TempNotWritten
  \/ TempWritten \/ RenameFails \/ Renamed
  \/ Crashes \/ Passes

FilesSpec == FilesInit /\ [][FilesNext]_filesVars

FilesTypeOK ==
  /\ fpc \in {"idle", "download", "open", "write", "rename"}
  /\ run \in 0..MaxRuns /\ now \in 0..MaxTime
  /\ fpc = "download" => name \in Uploads
  /\ fpc \in {"open", "write", "rename"} => name \in Pairs
  /\ files \in [FileNames -> [by : 0..MaxRuns, has : Parts]]
  /\ temps \in [Pairs -> [by : 0..MaxRuns, has : Parts]]
  /\ saved \subseteq 1..run /\ killed \subseteq 1..run /\ unflushed \subseteq 1..run
  /\ clashed \subseteq 0..MaxTime

----------------------------------------------------------------------------
Running(r) == ~Idle /\ r = run

\* A file that is not whole is being written, or a crash ended its run, or
\* fclose() lost its end; a temporary file that is still there is in use or
\* was left by a crash; the error text of a failed download is told as saved
\* (upload.c:270-288, cmd_ssconfig.c:222-253).
PartialExplained ==
  /\ \A n \in FileNames : Present(n) =>
       /\ files[n].has = "part" => \/ Running(files[n].by)
                                   \/ files[n].by \in killed \cup unflushed
       /\ files[n].has = "error" => n \in Uploads /\ files[n].by \in saved
  /\ \A n \in Pairs : temps[n].by # 0 => Running(temps[n].by) \/ temps[n].by \in killed

\* An ss file names the cloak file of its second: that file is there and of the
\* same run; and a cloak file is not left without its ss file but by a crash.
\* Neither holds where two runs fell into one second: the later one takes the
\* first one's cloak file away when it cannot finish
\* (cmd_ssconfig.c:426-430).
PairWhole ==
  \A t \in (0..MaxTime) \ clashed :
    LET cloak == <<"cloak", t>>
        ss == <<"ss", t>>
    IN /\ Present(ss) => files[ss].by = files[cloak].by
       /\ Present(cloak) /\ ~Present(ss) =>
            Running(files[cloak].by) \/ files[cloak].by \in killed
============================================================================
