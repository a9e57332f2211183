------------------------------ MODULE Settings ------------------------------
(***************************************************************************)
(* The configuration and what the bot keeps of it: config_load() and       *)
(* config_reload() of config.c, the start-up and the log rotation of       *)
(* main.c, "--parse" of cli.c, over the logger.                            *)
(*                                                                         *)
(* A configuration file is a sequence of lines [key, value]; a comment, a  *)
(* line without "=" and an unknown key are lines whose key is none of      *)
(* Keys.  A value that is too long or does not parse is Bad.               *)
(*                                                                         *)
(* The administrator edits the file and logrotate renames the log, creates *)
(* a new one and sends SIGUSR1, at any time.  The process may stop at any  *)
(* time and is started again.                                              *)
(* A definition named MutX is X with a plausible slip; no action uses it.  *)
(***************************************************************************)
EXTENDS Logger, SequencesExt

CONSTANTS
  ConfigFiles,   \* the files a bot may run with
  ParsedFiles,   \* the files that may be given to --parse
  MaxEdits,      \* bound of the edits of the file
  MaxStarts      \* bound of the starts of the process

VARIABLES
  phase,    \* "off", "early", "logging", "running", "rotating", "parsed"
  cfg,      \* g_cfg; for --parse its own copy
  chat,     \* allowed chat in security.c
  ttl,      \* token TTL in security.c
  base      \* token in the base URL of telegram_http.c

VARIABLES
  file,     \* the configuration file
  rotate,   \* g_rotate_log
  edits, starts,
  source,   \* the file cfg was loaded from
  refused,  \* the last attempt to open cfg's log failed
  missed,   \* SIGUSR1 came between the reopen and the clearing of its flag
  renewed   \* a reload changed the token since the start

kept == <<cfg, chat, ttl, base>>
history == <<source, refused, missed, renewed>>
around == <<file, edits, starts>>
settingsVars == <<logVars, phase, kept, history, around, rotate>>

----------------------------------------------------------------------------
(* config_load() *)

Bad == "bad"
None == "none"
DefaultLog == "default"
Required == {"TOKEN", "CHAT_ID"}
Kept == {"CLOAK_SS_CONFIG", "CLOAK_CK_CONFIG", "SUDO_PATH", "SYSTEMCTL_PATH",
         "JOURNALCTL_PATH", "F2B_WRAPPER_PATH"}
Defaulted == {"LOG_FILE", "TOKEN_TTL", "LOG_LEVEL", "TOTP_SECRET", "TOTP_SETUP",
              "UPLOAD_ENABLED", "UPLOAD_DIR", "SSH_KEYS_PATH", "CLOAK_PUBLIC_KEY"}
Keys == Required \cup Kept \cup Defaulted

Default == [k \in Keys |-> IF k \in Required THEN None
                           ELSE IF k = "UPLOAD_ENABLED" THEN "no" ELSE "default"]
Rejected == <<>>                 \* config_load() returned -1
OutOfRange == "9999"             \* a TTL that parses and that security.c refuses

MutApply(c, line) ==
  IF c = Rejected \/ line.key \notin Keys THEN c
  ELSE CASE line.value # Bad -> [c EXCEPT ![line.key] = line.value]
         [] line.value = Bad /\ line.key \in Required -> Rejected
         [] line.value = Bad /\ line.key \notin Required -> c

\* One line of the file.
Apply(c, line) ==
  IF c = Rejected \/ line.key \notin Keys THEN c
  ELSE CASE line.value # Bad -> [c EXCEPT ![line.key] = line.value]
         [] line.value = Bad /\ line.key \in Required -> Rejected
         [] line.value = Bad /\ line.key \in Kept -> c
         [] line.value = Bad /\ line.key \in Defaulted -> [c EXCEPT ![line.key] = Default[line.key]]

\* All lines, then the checks after the loop.
Load(f) ==
  LET c == FoldLeft(Apply, Default, f)
  IN CASE c = Rejected -> Rejected
       [] c # Rejected /\ \E k \in Required : c[k] = None -> Rejected
       [] OTHER -> IF c.UPLOAD_DIR = "empty" THEN [c EXCEPT !.UPLOAD_ENABLED = "no"] ELSE c

\* security_set_token_ttl()
TtlAfter(current, new) == IF new = OutOfRange THEN current ELSE new

LevelOf == [ERROR |-> 0, WARN |-> 1, INFO |-> 2, DEBUG |-> 3, default |-> LOG_INFO]

ConfigLine == [key : STRING, value : STRING]

ASSUME SettingsConstantsOK ==
  /\ MaxEdits \in Nat /\ MaxStarts \in Nat
  /\ DefaultLog \in LogPaths
  /\ ConfigFiles \cup ParsedFiles \subseteq Seq(ConfigLine)
  /\ \A f \in ConfigFiles :
       Load(f) = Rejected \/ (/\ Load(f).LOG_FILE \in LogPaths
                              /\ Load(f).LOG_LEVEL \in DOMAIN LevelOf)

----------------------------------------------------------------------------
(* main(): the start, and the end. *)

Forgotten ==
  /\ handle' = 0 /\ early' = <<>> /\ level' = LOG_INFO
  /\ cfg' = Rejected /\ chat' = None /\ ttl' = Default.TOKEN_TTL /\ base' = None
  /\ rotate' = FALSE
  /\ source' = <<>> /\ refused' = FALSE /\ missed' = FALSE /\ renewed' = FALSE
  /\ UNCHANGED <<dir, disk, lines, echoed, spoilt>>

Starts ==
  /\ phase = "off"
  /\ starts < MaxStarts
  /\ phase' = "early"
  /\ starts' = starts + 1
  /\ UNCHANGED <<logVars, kept, history, rotate, file, edits>>

\* The default log, until the configuration is known.
LoggerStarts ==
  /\ phase = "early"
  /\ phase' = "logging"
  /\ \E rc \in {-1, 0} : logger_init(DefaultLog, rc)
  /\ UNCHANGED <<level, lines, echoed, spoilt, kept, history, rotate, around>>

\* What security.c and the HTTP client are told once, at the start.
ConfigLoads ==
  /\ phase = "logging"
  /\ Load(file) # Rejected
  /\ phase' = "running"
  /\ cfg' = Load(file)
  /\ source' = file
  /\ \E rc \in {-1, 0} : logger_reopen(Load(file).LOG_FILE, rc) /\ refused' = (rc # 0)
  /\ level' = LevelOf[Load(file).LOG_LEVEL]
  /\ chat' = Load(file).CHAT_ID
  /\ ttl' = TtlAfter(ttl, Load(file).TOKEN_TTL)
  /\ base' = Load(file).TOKEN
  /\ UNCHANGED <<lines, echoed, spoilt, missed, renewed, rotate, around>>

ConfigRejected ==
  /\ phase = "logging"
  /\ Load(file) = Rejected
  /\ phase' = "off"
  /\ Forgotten
  /\ UNCHANGED around

\* "--parse": the log goes to /dev/null meanwhile; nothing else is touched.
\* Bound: only in the first process, before it logs.
ConfigParsed ==
  /\ phase = "early"
  /\ starts = 1 /\ lines = 0
  /\ phase' = "parsed"
  /\ source' \in ParsedFiles
  /\ cfg' = Load(source')
  /\ UNCHANGED <<logVars, chat, ttl, base, refused, missed, renewed, rotate, around>>

\* Shutdown, crash or kill; the next start is a new process.
Stops ==
  /\ phase # "off"
  /\ phase' = "off"
  /\ Forgotten
  /\ UNCHANGED around

----------------------------------------------------------------------------
(* The main loop. *)

\* config_reload(): the log is reopened when its path changed, whatever comes
\* of it; then level, chat and TTL, then g_cfg itself.
MutReloadStale ==
  /\ phase = "running"
  /\ Load(file) # Rejected
  /\ cfg' = Load(file)
  /\ source' = file
  /\ IF Load(file).LOG_FILE # cfg.LOG_FILE
     THEN \E rc \in {-1, 0} : /\ logger_reopen(Load(file).LOG_FILE, rc)
                              /\ refused' = (rc # 0)
                              /\ missed' = (missed /\ rc # 0)
     ELSE UNCHANGED <<handle, early, dir, disk, refused, missed>>
  /\ level' = LevelOf[Load(file).LOG_LEVEL]
  /\ chat' = Load(file).CHAT_ID
  /\ renewed' = (renewed \/ Load(file).TOKEN # cfg.TOKEN)
  /\ UNCHANGED <<phase, lines, echoed, spoilt, ttl, base, rotate, around>>

MutReload ==
  /\ phase = "running"
  /\ Load(file) # Rejected
  /\ cfg' = Load(file)
  /\ source' = file
  /\ UNCHANGED <<handle, early, dir, disk, refused, missed>>
  /\ level' = LevelOf[Load(file).LOG_LEVEL]
  /\ chat' = Load(file).CHAT_ID
  /\ ttl' = TtlAfter(ttl, Load(file).TOKEN_TTL)
  /\ renewed' = (renewed \/ Load(file).TOKEN # cfg.TOKEN)
  /\ UNCHANGED <<phase, lines, echoed, spoilt, base, rotate, around>>

Reload ==
  /\ phase = "running"
  /\ Load(file) # Rejected
  /\ cfg' = Load(file)
  /\ source' = file
  /\ IF Load(file).LOG_FILE # cfg.LOG_FILE
     THEN \E rc \in {-1, 0} : /\ logger_reopen(Load(file).LOG_FILE, rc)
                              /\ refused' = (rc # 0)
                              /\ missed' = (missed /\ rc # 0)
     ELSE UNCHANGED <<handle, early, dir, disk, refused, missed>>
  /\ level' = LevelOf[Load(file).LOG_LEVEL]
  /\ chat' = Load(file).CHAT_ID
  /\ ttl' = TtlAfter(ttl, Load(file).TOKEN_TTL)
  /\ renewed' = (renewed \/ Load(file).TOKEN # cfg.TOKEN)
  /\ UNCHANGED <<phase, lines, echoed, spoilt, base, rotate, around>>

\* SIGUSR1: reopen, then clear the flag.
Rotates ==
  /\ phase = "running"
  /\ rotate
  /\ phase' = "rotating"
  /\ \E rc \in {-1, 0} : /\ logger_reopen(cfg.LOG_FILE, rc)
                         /\ refused' = (rc # 0)
                         /\ missed' = (missed /\ rc # 0)
  /\ UNCHANGED <<level, lines, echoed, spoilt, kept, source, renewed, rotate, around>>

RotateCleared ==
  /\ phase = "rotating"
  /\ phase' = "running"
  /\ rotate' = FALSE
  /\ UNCHANGED <<logVars, kept, history, around>>

Logs ==
  /\ phase \in {"early", "logging", "running", "rotating"}
  /\ \E l \in {0, LOG_INFO} : log_msg(l)
  /\ UNCHANGED <<phase, kept, history, rotate, around>>

----------------------------------------------------------------------------
(* Around the process. *)

Edits ==
  /\ edits < MaxEdits
  /\ edits' = edits + 1
  /\ file' \in ConfigFiles
  /\ UNCHANGED <<logVars, phase, kept, history, rotate, starts>>

\* logrotate: the file of this path is renamed, an empty one created, and the
\* bot signalled if it runs.
Logrotate ==
  /\ \E p \in LogPaths :
       /\ dir[p] # 0
       /\ disk[dir[p]] # <<>>
       /\ Len(disk) < MaxInodes
       /\ disk' = Append(disk, <<>>)
       /\ dir' = [dir EXCEPT ![p] = Len(disk) + 1]
  /\ rotate' = (phase # "off")
  /\ missed' = (missed \/ phase = "rotating")
  /\ UNCHANGED <<handle, early, level, lines, echoed, spoilt, phase, kept,
                 source, refused, renewed, around>>

----------------------------------------------------------------------------
SettingsInit ==
  /\ LoggerInit
  /\ phase = "off"
  /\ cfg = Rejected /\ chat = None /\ ttl = Default.TOKEN_TTL /\ base = None
  /\ file \in ConfigFiles
  /\ rotate = FALSE /\ edits = 0 /\ starts = 0
  /\ source = <<>> /\ refused = FALSE /\ missed = FALSE /\ renewed = FALSE

SettingsNext ==
  \/ Starts \/ LoggerStarts \/ ConfigLoads \/ ConfigRejected \/ ConfigParsed \/ Stops
  \/ Reload \/ Rotates \/ RotateCleared \/ Logs
  \/ Edits \/ Logrotate

SettingsSpec == SettingsInit /\ [][SettingsNext]_settingsVars

Up == phase \in {"running", "rotating"}

SettingsTypeOK ==
  /\ LoggerTypeOK
  /\ phase \in {"off", "early", "logging", "running", "rotating", "parsed"}
  /\ file \in ConfigFiles
  /\ Up => DOMAIN cfg = Keys /\ cfg.LOG_FILE \in LogPaths
  /\ rotate \in BOOLEAN /\ refused \in BOOLEAN /\ missed \in BOOLEAN /\ renewed \in BOOLEAN
  /\ edits \in 0..MaxEdits /\ starts \in 0..MaxStarts

----------------------------------------------------------------------------
\* What each key means in a file, said without the loop: the last line for it
\* that counts, and a line counts unless its value is bad and the key is one
\* whose bad values are skipped.
Counting(f, k) == {i \in DOMAIN f : f[i].key = k /\ (f[i].value # Bad \/ k \notin Kept)}

Meaning(f, k) ==
  LET last == CHOOSE i \in Counting(f, k) : \A j \in Counting(f, k) : j <= i
  IN IF Counting(f, k) = {} \/ f[last].value = Bad THEN Default[k] ELSE f[last].value

Unusable(f) ==
  \/ \E i \in DOMAIN f : f[i].key \in Required /\ f[i].value = Bad
  \/ \E k \in Required : Meaning(f, k) = None

\* A configuration in use, and one shown by --parse, is what its file says;
\* a file is refused exactly for a bad or missing TOKEN or CHAT_ID; uploads
\* are off without a directory (config.c, config_load()).
ConfigAsWritten ==
  /\ Up => ~Unusable(source)
  /\ phase = "parsed" => (cfg = Rejected <=> Unusable(source))
  /\ Up \/ (phase = "parsed" /\ cfg # Rejected) =>
       \A k \in Keys :
         cfg[k] = IF k = "UPLOAD_ENABLED" /\ Meaning(source, "UPLOAD_DIR") = "empty"
                  THEN "no" ELSE Meaning(source, k)

\* While the bot runs, the log goes to the file that the configured path leads
\* to now, unless the last attempt to open it failed, or a rotation is still
\* to be handled, or its signal came while the flag was being cleared
\* (config.c:377, logger_reopen() with its result ignored; main.c:194-202).
LogFollowsConfig ==
  Up => handle = dir[cfg.LOG_FILE] \/ refused \/ rotate \/ missed

\* Level, chat and TTL in use are those of the configuration in use, also
\* after a reload that was refused; but a TTL out of range is never in use, an
\* earlier one is.  The token of the API requests is the one of the
\* configuration, which downloads use, unless a reload has changed it
\* (config.c:369-387, security.c:123-126, upload.c:263).
SettingsInForce ==
  /\ ttl # OutOfRange
  /\ Up =>
       /\ level = LevelOf[cfg.LOG_LEVEL]
       /\ chat = cfg.CHAT_ID
       /\ ttl = cfg.TOKEN_TTL \/ cfg.TOKEN_TTL = OutOfRange
       /\ base = cfg.TOKEN \/ renewed
============================================================================
