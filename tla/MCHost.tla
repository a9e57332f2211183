------------------------------- MODULE MCHost -------------------------------
(* Values for the runs of Host and of the log statistics. *)
EXTENDS Host

Strings(S, n) == UNION {[1..k -> S] : k \in 0..n}

\* Settings
L(k, v) == [key |-> k, value |-> v]
Good == <<L("TOKEN", "t1"), L("CHAT_ID", "c1")>>

MCConfigFiles ==
  {Good,
   Good \o <<L("LOG_FILE", "b"), L("LOG_LEVEL", "ERROR"), L("TOKEN_TTL", "9999")>>,
   Good \o <<L("TOKEN", "t2"), L("TOKEN_TTL", "5")>>,
   Good \o <<L("CHAT_ID", Bad)>>}

ConfigLines ==
  {L("TOKEN", Bad), L("TOKEN", None), L("CHAT_ID", "c2"), L("#", "x"),
   L("LOG_FILE", "b"), L("LOG_FILE", Bad), L("SUDO_PATH", "s"), L("SUDO_PATH", Bad),
   L("UPLOAD_ENABLED", "yes"), L("UPLOAD_ENABLED", Bad),
   L("UPLOAD_DIR", "empty"), L("UPLOAD_DIR", Bad)}

MCParsedFiles == {Good \o s : s \in Strings(ConfigLines, 2)} \cup Strings(ConfigLines, 1)

\* Text
MCTexts ==
  [code   |-> Strings({Tick, Line, Plain}, 5),
   name   |-> Strings({Space, Dot, Slash, Plain}, 4),
   escape |-> Strings({Dot, Back, Plain}, 4),
   args   |-> Strings({Space, Plain}, 8),
   files  |-> Strings({"hidden", "short", "long"}, 4),
   send   |-> Strings({Plain}, 6)]

MCBufSizes ==
  [code |-> {7, 8, 10, 11, 12, 13, 15}, name |-> {3, 5}, escape |-> {3, 6, 12},
   args |-> {6, 8}, files |-> {3, 7, 9}, send |-> {5}]

MCEntryLen == [short |-> 1, long |-> 3]

\* LogView
Said(n, ws) == [kind |-> "text", len |-> n, has |-> ws]

JournalLines ==
  {Said(3, {}), Said(6, {"denied"}), Said(11, {"ssh"}), Said(30, {"ssh", "fail"}),
   [kind |-> "reboot", len |-> 4, has |-> {}], [kind |-> "begin", len |-> 4, has |-> {}]}

MCJournals == {j \in Strings(JournalLines, 3) : Cardinality(Reboots(j)) <= 2}

Arg(is, n, w) == [is |-> is, n |-> n, word |-> w]
NoArg == Arg("absent", 0, NoFilter)

Numbers ==
  {Arg("number", 0, "0"), Arg("number", 2, "2"), Arg("number", 8, "008"), Arg("number", 10, "10")}
MCArgs == Numbers \cup {Arg("text", 0, w) : w \in {"error", "ssh", "ip", "a;b"}}

MCRequests ==
  [svc : {"known"}, first : MCArgs, second : MCArgs \cup {NoArg}]
    \cup [svc : {"", "known", "unknown"}, first : {NoArg}, second : {NoArg}]

MCGroups == [error |-> {"fail", "error", "denied"}, ip |-> {" from "}]
MCWordLen ==
  [w \in {"0", "2", "10", "ip", "error", "ssh", "008", "a;b"} |->
     IF w \in {"error", "ssh", "008", "a;b"} THEN 3 ELSE 2]

\* LogStat
Logged(n, h, l, t) == [len |-> n, hour |-> h, level |-> l, tag |-> t]

LoggedLines ==
  {Logged(0, Nothing, Nothing, Nothing), Logged(34, 7, 2, 1), Logged(39, 7, 0, Nothing),
   Logged(47, 23, 2, 7), Logged(44, 0, Nothing, 1), Logged(15, 23, Nothing, Nothing)}

MCStatLogs ==
  {g \in [text : Strings(LoggedLines, 3), ended : BOOLEAN] :
     g.ended \/ (g.text # <<>> /\ Last(g.text).len > 0)}
============================================================================
