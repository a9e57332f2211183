-------------------------------- MODULE Text --------------------------------
(***************************************************************************)
(* The loops that turn one text into another within a buffer, one step of  *)
(* the loop an action:                                                     *)
(*   code     safe_code_block() of utils.c                                 *)
(*   name     sanitize_filename() of upload.c                              *)
(*   escape   telegram_escape_markdown() of telegram_parser.c              *)
(*   args     split_args() of utils.c and the joining in commands.c        *)
(*   files    upload_list_files() of upload.c                              *)
(*   send     telegram_send_message(), telegram_send_plain() of telegram.c *)
(*                                                                         *)
(* Characters stand for the classes the loops tell apart; Space, Dot,      *)
(* Slash (not allowed in a name), Tick (back tick), Quote, Back            *)
(* (backslash), Line (newline), Plain.  The terminating zero is not part   *)
(* of a text: one of length n needs n + 1 bytes.                           *)
(* A definition named MutX is X with a plausible slip; no action uses it.  *)
(***************************************************************************)
EXTENDS Integers, SequencesExt, FiniteSetsExt

CONSTANTS
  Texts,      \* [job -> the texts it may be given]
  BufSizes,   \* [job -> the sizes of its buffer]
  MaxArgs,    \* MAX_ARGS
  EntryLen,   \* /files: length of the line of an entry, by kind
  HeadLen,    \* /files: length of the header
  MsgMax      \* MSG_BUF_MAX, which is TG_LIMIT too

VARIABLES
  job,     \* "none" or the loop that runs
  src,     \* what it was given
  size,    \* size of the buffer
  pos,       \* position in src
  dst,     \* what is in the buffer
  words,   \* args: argv; files: the entries listed
  result   \* "working", or how the call ended

given == <<job, src, size>>
textVars == <<given, pos, dst, words, result>>

----------------------------------------------------------------------------
Jobs == {"code", "name", "escape", "args", "files", "send"}

ASSUME TextConstantsOK ==
  /\ MaxArgs \in Nat /\ HeadLen \in Nat /\ MsgMax \in Nat \ {0}
  /\ \A j \in Jobs : Texts[j] \subseteq Seq(STRING) /\ BufSizes[j] \subseteq Nat \ {0}
  /\ BufSizes["send"] = {MsgMax}
  /\ \A k \in DOMAIN EntryLen : EntryLen[k] \in Nat

Space == "space"  Dot == "dot"    Under == "under"  Slash == "slash"
Tick == "tick"    Quote == "quote"  Back == "back"
Line == "line"    Plain == "plain"

Fence == <<Tick, Tick, Tick>>
Masked == <<Quote, Quote, Quote>>
Opening == Append(Fence, Line)
Plains(n) == [k \in 1..n |-> Plain]
Used == Len(dst)

Works(j) == job = j /\ result = "working"
MoreText == pos <= Len(src)
At(s) == pos + Len(s) <= Len(src) + 1 /\ SubSeq(src, pos, pos + Len(s) - 1) = s

Finishes(r) == result' = r
Continues == UNCHANGED <<given, words, result>>
TextStays == UNCHANGED <<given, pos, words>>

JobBegins ==
  /\ job = "none"
  /\ job' \in Jobs
  /\ src' \in Texts[job']
  /\ size' \in BufSizes[job']
  /\ pos' = 1 /\ words' = <<>>
  /\ dst' = CASE job' = "code" /\ size' >= 8 -> Opening
              [] job' = "files" /\ HeadLen < size' -> Plains(HeadLen)
              [] OTHER -> <<>>
  /\ result' = CASE job' = "code" /\ size' < 8 -> "untouched"
                 [] job' = "name" /\ src' = <<>> -> "refused"
                 [] job' = "args" /\ Len(src') >= size' -> "too_long"
                 [] OTHER -> "working"

JobReturns ==
  /\ result \notin {"working", "none"}
  /\ job' = "none" /\ src' = <<>> /\ size' = 1 /\ pos' = 1
  /\ dst' = <<>> /\ words' = <<>> /\ result' = "none"

----------------------------------------------------------------------------
(* safe_code_block() *)

\* Room for the newline, the closing fence and the terminating zero.
MutRoom(n) == Used + n + 3 < size

Room(n) == Used + n + 5 < size

\* A fence inside the text is masked, or left out when it does not fit.
CodeMasks ==
  /\ Works("code") /\ MoreText /\ Room(0)
  /\ At(Fence)
  /\ dst' = IF Room(3) THEN dst \o Masked ELSE dst
  /\ pos' = pos + 3
  /\ Continues

CodeCopies ==
  /\ Works("code") /\ MoreText /\ Room(0)
  /\ ~At(Fence)
  /\ dst' = Append(dst, src[pos])
  /\ pos' = pos + 1
  /\ Continues

CodeCloses ==
  /\ Works("code")
  /\ ~(MoreText /\ Room(0))
  /\ LET ended == IF dst[Used] # Line /\ Used + 1 < size THEN Append(dst, Line) ELSE dst
     IN dst' = IF Len(ended) + 4 <= size THEN ended \o Fence ELSE ended
  /\ Finishes("done")
  /\ TextStays

----------------------------------------------------------------------------
(* sanitize_filename(), telegram_escape_markdown() *)

NameSteps ==
  /\ Works("name") /\ MoreText /\ Used < size - 1
  /\ dst' = CASE src[pos] = Space -> Append(dst, Under)
              [] src[pos] \in {Dot, Under, Plain} -> Append(dst, src[pos])
              [] OTHER -> dst
  /\ pos' = pos + 1
  /\ Continues

NameEnds ==
  /\ Works("name")
  /\ ~(MoreText /\ Used < size - 1)
  /\ Finishes(IF dst = <<>> \/ Head(dst) = Dot THEN "refused" ELSE "done")
  /\ TextStays /\ UNCHANGED dst

Escape(c) == IF c \in {Dot, Under} THEN <<Back, c>> ELSE <<c>>

EscapeSteps ==
  /\ Works("escape") /\ MoreText /\ Used + 2 < size
  /\ dst' = dst \o Escape(src[pos])
  /\ pos' = pos + 1
  /\ Continues

EscapeEnds ==
  /\ Works("escape")
  /\ ~(MoreText /\ Used + 2 < size)
  /\ Finishes("done")
  /\ TextStays /\ UNCHANGED dst

----------------------------------------------------------------------------
(* split_args(), and the arguments joined again for the handler. *)

\* Where strtok_r() finds the next token, Len(src) + 1 for nowhere; and where
\* that token ends.
TokenAt == Min({k \in pos..Len(src) : src[k] # Space} \cup {Len(src) + 1})
TokenEnd == Min({k \in TokenAt..Len(src) : src[k] = Space} \cup {Len(src) + 1})

ArgsToken ==
  /\ Works("args")
  /\ TokenAt <= Len(src)
  /\ Len(words) < MaxArgs
  /\ words' = Append(words, SubSeq(src, TokenAt, TokenEnd - 1))
  /\ pos' = TokenEnd + 1
  /\ UNCHANGED <<given, dst, result>>

ArgsRefused ==
  /\ Works("args")
  /\ IF TokenAt <= Len(src) THEN Len(words) >= MaxArgs ELSE words = <<>>
  /\ Finishes(IF words = <<>> THEN "empty" ELSE "too_many")
  /\ TextStays /\ UNCHANGED dst

\* args_buffer is as large as the command buffer; an argument is cut at its end.
Joined(b, w) ==
  LET spaced == IF w > 2 /\ Len(b) < size - 1 THEN Append(b, Space) ELSE b
      rem == size - Len(spaced) - 1
  IN spaced \o SubSeq(words[w], 1, Min({Len(words[w]), rem}))

ArgsJoined ==
  /\ Works("args")
  /\ TokenAt > Len(src) /\ words # <<>>
  /\ dst' = FoldLeft(Joined, <<>>, [w \in 1..(Len(words) - 1) |-> w + 1])
  /\ Finishes("done")
  /\ TextStays

----------------------------------------------------------------------------
(* upload_list_files(): src holds the kinds of the directory's entries. *)

\* Names that start with a dot, what is no regular file, and the like.
FilesSkips ==
  /\ Works("files") /\ MoreText
  /\ src[pos] \notin DOMAIN EntryLen
  /\ pos' = pos + 1
  /\ UNCHANGED dst /\ Continues

FilesLists ==
  /\ Works("files") /\ MoreText
  /\ src[pos] \in DOMAIN EntryLen
  /\ Used + EntryLen[src[pos]] < size
  /\ dst' = dst \o Plains(EntryLen[src[pos]])
  /\ words' = Append(words, pos)
  /\ pos' = pos + 1
  /\ UNCHANGED <<given, result>>

\* The first entry that does not fit ends the list; the total is of those
\* listed, and is cut when it does not fit.
FilesEnds ==
  /\ Works("files")
  /\ MoreText => src[pos] \in DOMAIN EntryLen /\ Used + EntryLen[src[pos]] >= size
  /\ Finishes("done")
  /\ TextStays /\ UNCHANGED dst

----------------------------------------------------------------------------
(* telegram_send_message(), telegram_send_plain() *)

\* A text that does not fit is not copied at all: what is sent is whatever the
\* buffer held, up to its last byte.  The cut at TG_LIMIT comes after that and
\* finds no text as long.
Sends ==
  /\ Works("send")
  /\ dst' \in IF Len(src) < MsgMax THEN {src}
              ELSE {[k \in 1..n |-> "junk"] : n \in 0..(MsgMax - 1)}
  /\ Finishes("done")
  /\ TextStays

----------------------------------------------------------------------------
TextInit ==
  /\ job = "none" /\ src = <<>> /\ size = 1 /\ pos = 1
  /\ dst = <<>> /\ words = <<>> /\ result = "none"

TextNext ==
  \/ JobBegins \/ JobReturns
  \/ CodeMasks \/ CodeCopies \/ CodeCloses
  \/ NameSteps \/ NameEnds \/ EscapeSteps \/ EscapeEnds
  \/ ArgsToken \/ ArgsRefused \/ ArgsJoined
  \/ FilesSkips \/ FilesLists \/ FilesEnds
  \/ Sends

TextSpec == TextInit /\ [][TextNext]_textVars

TextTypeOK ==
  /\ job \in Jobs \cup {"none"}
  /\ job # "none" => src \in Texts[job] /\ size \in BufSizes[job]
  /\ pos \in Nat \ {0}
  /\ job = "none" <=> result = "none"
  /\ result \in {"none", "working", "untouched", "refused", "too_long", "too_many",
                 "empty", "done"}

----------------------------------------------------------------------------
(* What the loops should come to, said without them. *)

Done(j) == job = j /\ result = "done"

\* The back ticks of a run are masked in threes, from its start.
RunStart(q) == 1 + Max({k \in 1..(q - 1) : src[k] # Tick} \cup {0})
RunEnd(q) == Min({k \in q..Len(src) : src[k] # Tick} \cup {Len(src) + 1}) - 1
IsMasked(q) ==
  src[q] = Tick /\ q - RunStart(q) < 3 * ((RunEnd(q) - RunStart(q) + 1) \div 3)
AllMasked == [q \in DOMAIN src |-> IF IsMasked(q) THEN Quote ELSE src[q]]

HasFence(s) == \E k \in 1..(Len(s) - 2) : SubSeq(s, k, k + 2) = Fence

\* A code block is always opened and closed, whatever the text and wherever it
\* is cut; no fence is left inside it; a text that fits is there whole.
CodeRight ==
  Done("code") =>
    LET body == SubSeq(dst, 5, Used - 3)
    IN /\ Used >= 7
       /\ SubSeq(dst, 1, 4) = Opening
       /\ SubSeq(dst, Used - 3, Used) = <<Line>> \o Fence
       /\ ~HasFence(body)
       /\ Len(src) + 10 <= size => body \in {AllMasked, Append(AllMasked, Line)}

Unspaced(s) == FlattenSeq([k \in DOMAIN s |-> IF s[k] = Space THEN <<>> ELSE <<s[k]>>])
Tokens == {k \in DOMAIN src : src[k] # Space /\ (k = 1 \/ src[k - 1] = Space)}

\* A name on disk is not empty, not hidden and without a slash.  In an escaped
\* text a backslash stands before every special character, and the cut falls
\* behind the last character read, never between it and its backslash.  A
\* backslash of the text itself is copied as it is (it is not among those of
\* telegram_parser.c:258): only such a one can end the escaped text alone, or
\* take away the effect of the one added behind it.  The handler gets every
\* argument, with one space between two of them and none cut.  The files
\* listed are the first ones, and all of them unless one does not fit.  A
\* message below the limit is sent whole.
OthersRight ==
  /\ Done("name") =>
       dst # <<>> /\ Head(dst) # Dot /\ {Slash, Space} \cap ToSet(dst) = {}
  /\ Done("escape") =>
       /\ dst = FlattenSeq([k \in 1..(pos - 1) |-> Escape(src[k])])
       /\ \A k \in 1..Used : dst[k] \in {Dot, Under} => k > 1 /\ dst[k - 1] = Back
       /\ Used > 0 => dst[Used] = src[pos - 1]
       /\ pos > Len(src) \/ Used + 2 >= size
  /\ Done("args") =>
       /\ Len(words) = Cardinality(Tokens) /\ Len(words) \in 1..MaxArgs
       /\ \A w \in DOMAIN words : words[w] # <<>> /\ Space \notin ToSet(words[w])
       /\ FlattenSeq(words) = Unspaced(src)
       /\ Unspaced(dst) = FlattenSeq(Tail(words))
       /\ Len(words) > 1 =>
            Used = Len(FlattenSeq(Tail(words))) + Len(words) - 2
  /\ Done("files") =>
       /\ ToSet(words) = {k \in 1..(pos - 1) : src[k] \in DOMAIN EntryLen}
       /\ pos <= Len(src) => Used + EntryLen[src[pos]] >= size
  /\ Done("send") /\ Len(src) < MsgMax => dst = src

\* No loop writes past its buffer, whatever it is given (utils.c:92-146,
\* upload.c:77-102 and 315-382, telegram_parser.c:257-265, commands.c:428-444,
\* telegram.c:56-110), and what it leaves there is right.
TextsRight ==
  /\ Used < size
  /\ CodeRight
  /\ OthersRight
============================================================================
