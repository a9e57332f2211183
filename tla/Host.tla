-------------------------------- MODULE Host --------------------------------
(***************************************************************************)
(* The parts of the bot that work on the host and not on the wire: the     *)
(* settings with their log (Settings), the upload directory (Files), the   *)
(* text loops (Text), /logs (LogView) and /logstat (LogStat).              *)
(*                                                                         *)
(* They share no state and one thread runs them all, so that what one of   *)
(* them does leaves the others as they are.  Bound: a behaviour is one     *)
(* part's, chosen at the start, with the others at rest.                   *)
(***************************************************************************)
EXTENDS Settings, Files, Text, LogView, LogStat

CONSTANT Scenes   \* the parts a run looks at

ASSUME HostConstantsOK == Scenes \subseteq {"settings", "files", "text", "view", "stat"}

VARIABLE scene    \* the part this behaviour is about

hostVars == <<scene, settingsVars, filesVars, textVars, viewVars, statVars>>

HostInit ==
  /\ scene \in Scenes
  /\ SettingsInit /\ FilesInit /\ TextInit /\ ViewInit /\ StatInit
  /\ scene # "settings" => file = CHOOSE f \in ConfigFiles : TRUE

Play(s) == scene = s /\ UNCHANGED scene

HostNext ==
  \/ Play("settings") /\ SettingsNext /\ UNCHANGED <<filesVars, textVars, viewVars, statVars>>
  \/ Play("files") /\ FilesNext /\ UNCHANGED <<settingsVars, textVars, viewVars, statVars>>
  \/ Play("text") /\ TextNext /\ UNCHANGED <<settingsVars, filesVars, viewVars, statVars>>
  \/ Play("view") /\ ViewNext /\ UNCHANGED <<settingsVars, filesVars, textVars, statVars>>
  \/ Play("stat") /\ StatNext /\ UNCHANGED <<settingsVars, filesVars, textVars, viewVars>>

HostSpec == HostInit /\ [][HostNext]_hostVars

\* The types of all parts, with the limits the code keeps: the early buffer of
\* logger.c, the program counters and counters of the others.
HostTypeOK ==
  /\ SettingsTypeOK /\ FilesTypeOK /\ TextTypeOK /\ ViewTypeOK /\ StatTypeOK
============================================================================
