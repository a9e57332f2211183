------------------------------ MODULE Confirm ------------------------------
(***************************************************************************)
(* The two-step confirmation of dangerous commands: the dispatcher of      *)
(* commands.c with its single pending slot, the token, brute-force and     *)
(* rate-limit state of security.c, the TOTP check of totp.c, the handlers  *)
(* of cmd_control.c (/reboot, /restart and their legacy *_confirm forms)   *)
(* and the /service handler of cmd_services.c.                             *)
(*                                                                         *)
(* Every action is one call of commands_handle() for a text of the allowed *)
(* chat, a configuration reload, a restart of the process, or one second   *)
(* of the wall clock.  A handler reads time(NULL) several times; the       *)
(* reads of one call return the same second here.                          *)
(*                                                                         *)
(* A definition named MutX is X with a plausible slip; no action uses it.  *)
(* It stands before X so that X can be replaced by it, to see that the     *)
(* property it threatens is not vacuous.                                   *)
(***************************************************************************)
EXTENDS Integers, Sequences

CONSTANTS
  MaxToken,           \* largest token or TOTP code (999999)
  MaxFailedAttempts,  \* SECURITY_MAX_FAILED_ATTEMPTS (5)
  BlockDuration,      \* SECURITY_BLOCK_DURATION_SEC (30)
  RateBurstMax,       \* SECURITY_RATE_BURST_MAX (5)
  RateLimitMax,       \* RATE_LIMIT_MAX, where the burst counter stops (16)
  TokenTtlMax,        \* SECURITY_TOKEN_TTL_MAX (3600)
  DefaultTtl,         \* initial value of g_token_ttl (60)
  ConfigTtls,         \* values TOKEN_TTL may have in the configuration file
  TotpStep,           \* TOTP_STEP (30)
  TotpWindow,         \* TOTP_WINDOW (1)
  TotpCode(_),        \* the code of the authenticator for a time step
  Args,               \* argument strings of confirmable commands
  ChangeArgs,         \* those /service reads as start, stop or restart of a known alias
  LongArgs,           \* those that do not fit pending_confirm_t.args
  NoArgs,             \* the empty argument string
  StartTime,          \* the clock at the start
  MaxTime,            \* bound of the clock
  MaxAsks             \* bound of the number of confirmation requests

ASSUME ConstantsOK ==
  /\ MaxToken \in Nat /\ TokenTtlMax \in Nat /\ TotpWindow \in Nat
  /\ MaxFailedAttempts \in Nat \ {0} /\ BlockDuration \in Nat
  /\ DefaultTtl \in 1..TokenTtlMax /\ ConfigTtls \subseteq Int
  /\ TotpStep \in Nat \ {0}
  /\ ChangeArgs \subseteq Args /\ LongArgs \subseteq Args /\ NoArgs \notin Args
  /\ StartTime \in Nat \ {0} /\ MaxTime \in Nat /\ StartTime <= MaxTime
  /\ MaxAsks \in Nat
  \* The burst counter must be able to pass the limit it is compared with.
  /\ RateBurstMax \in Nat \ {0} /\ RateLimitMax \in Nat /\ RateBurstMax < RateLimitMax

VARIABLES
  now,            \* time(NULL)
  totp,           \* g_cfg.totp_secret is not empty
  tokenTtl,       \* g_token_ttl
  pending,        \* g_pending: the slot of the command waiting for /confirm
  lastToken,      \* g_last_token, NoToken when none is live
  lastTokenTime,  \* g_last_token_time
  failedAttempts, \* g_failed_attempts
  blockUntil,     \* g_block_until
  lastCmdTime,    \* g_last_cmd_time
  cmdBurst,       \* g_cmd_burst
  shutdown        \* the mode lifecycle_request_shutdown() recorded

\* What the properties need to know about the past.
VARIABLES
  asked,          \* number of confirmation requests sent
  lastAsk,        \* the latest of them: command, time, announced TTL
  cancelled,      \* commands announced as cancelled and not requested since
  tokenAsk,       \* the request that issued the live token, 0 when none
  accepted,       \* number of codes accepted
  lastAccept,     \* the latest of them: command and credential
  runs,           \* number of confirmed operations started
  misses,         \* times of the latest failed attempts since a success
  examined,       \* codes compared in the current second
  modeSwitched    \* a reload changed the method while a credential was stored

tokenVars == <<lastToken, lastTokenTime, tokenAsk>>
guessVars == <<failedAttempts, blockUntil, misses>>
rateVars == <<lastCmdTime, cmdBurst>>
confVars == <<totp, tokenTtl, modeSwitched>>
askVars == <<asked, lastAsk, cancelled>>
acceptVars == <<accepted, lastAccept, runs, shutdown>>
vars == <<now, pending, examined, tokenVars, guessVars, rateVars, confVars, askVars, acceptVars>>

----------------------------------------------------------------------------
NoToken == -1

\* Numbers a user may send as a code; one of them has more than six digits.
Codes == 0..(MaxToken + 1)

NoCommand == "none"
GatedCommands == {"/reboot", "/restart"}        \* requires_confirmation = 1
Confirmable == GatedCommands \cup {"/service"}

NoPending == [active |-> FALSE, command |-> NoCommand, args |-> NoArgs, expiresAt |-> 0]
NoAsk == [command |-> NoCommand, time |-> 0, ttl |-> 0]
NoAccept == [command |-> NoCommand, via |-> "none"]

Smaller(a, b) == IF a <= b THEN a ELSE b
Larger(a, b) == IF a >= b THEN a ELSE b
LastOf(s, n) == SubSeq(s, Larger(Len(s) - n + 1, 1), Len(s))

----------------------------------------------------------------------------
(* security.c and totp.c *)

\* security_set_token_ttl(): an out-of-range value keeps the previous one.
TtlAfter(current, ttl) ==
  IF ttl > 0 /\ ttl <= TokenTtlMax THEN ttl ELSE current

\* security_rate_limit(): the burst counter of the current second.
MutBumped == Smaller(cmdBurst + 1, RateBurstMax)
Bumped == Smaller(cmdBurst + 1, RateLimitMax)

RateExceeded == now = lastCmdTime /\ Bumped > RateBurstMax

CountCommand ==
  /\ lastCmdTime' = now
  /\ cmdBurst' = IF now = lastCmdTime THEN Bumped ELSE 1

\* A text that passes the rate limiter.
Admitted == ~RateExceeded /\ CountCommand

\* security_validate_reboot_token(): its checks in their order.
TokenVerdict(code) ==
  IF code > MaxToken THEN "format"
  ELSE IF now < blockUntil THEN "blocked"
  ELSE IF lastToken < 0 THEN "absent"
  ELSE IF now - lastTokenTime > tokenTtl THEN "expired"
  ELSE IF code # lastToken THEN "mismatch"
  ELSE "accepted"

\* What a validation does to the token: a mismatch leaves it live.
MutTokenAfter(verdict) == UNCHANGED tokenVars
TokenAfter(verdict) ==
  IF verdict \in {"expired", "accepted"}
  THEN lastToken' = NoToken /\ tokenAsk' = 0 /\ UNCHANGED lastTokenTime
  ELSE UNCHANGED tokenVars

\* register_failed_attempt(): the last one of a series opens a block.
MutRegisterLate ==
  /\ IF failedAttempts + 1 > MaxFailedAttempts
     THEN blockUntil' = now + BlockDuration /\ failedAttempts' = 0
     ELSE failedAttempts' = failedAttempts + 1 /\ UNCHANGED blockUntil
  /\ misses' = LastOf(Append(misses, now), MaxFailedAttempts + 1)
MutRegisterUnblocked ==
  /\ failedAttempts' = (failedAttempts + 1) % MaxFailedAttempts
  /\ UNCHANGED blockUntil
  /\ misses' = LastOf(Append(misses, now), MaxFailedAttempts + 1)
RegisterFailedAttempt ==
  /\ IF failedAttempts + 1 >= MaxFailedAttempts
     THEN blockUntil' = now + BlockDuration /\ failedAttempts' = 0
     ELSE failedAttempts' = failedAttempts + 1 /\ UNCHANGED blockUntil
  /\ misses' = LastOf(Append(misses, now), MaxFailedAttempts + 1)

\* What a validation does to the brute-force state.
GuessesAfter(verdict) ==
  IF verdict \in {"absent", "expired", "mismatch"} THEN RegisterFailedAttempt
  ELSE IF verdict = "accepted" THEN failedAttempts' = 0 /\ blockUntil' = 0 /\ misses' = <<>>
  ELSE UNCHANGED guessVars

\* security_generate_reboot_token(): some six-digit number, which replaces
\* the live token whatever that one was issued for.
IssueToken ==
  /\ lastToken' \in 0..MaxToken
  /\ lastTokenTime' = now
  /\ tokenAsk' = asked + 1

\* totp_verify(): the code of the current step or of a neighbouring one.
TotpAccepts(code) ==
  LET current == now \div TotpStep
  IN  /\ code <= MaxToken
      /\ \E step \in (current - TotpWindow)..(current + TotpWindow) : code = TotpCode(step)

\* A comparison of a code with the token or with the TOTP codes.
Examine(compared) == examined' = examined + (IF compared THEN 1 ELSE 0)

----------------------------------------------------------------------------
(* commands.c *)

\* pending_expired() is the negation of this.
MutSlotLive == pending.active
SlotLive == pending.active /\ now <= pending.expiresAt

\* safe_copy() of the arguments into the slot: arguments that do not fit are
\* not copied, and the field keeps what it held.
StoredArgs(slot, args) == IF args \in LongArgs THEN slot.args ELSE args

\* The slot, request and notice part of request_confirmation(), for a slot
\* that holds "slot" and is live or not.
MutOccupySlot(slot, live, command, args) ==
  /\ asked < MaxAsks
  /\ asked' = asked + 1
  /\ pending' = IF live THEN [slot EXCEPT !.expiresAt = now + tokenTtl]
                ELSE [active |-> TRUE, command |-> command,
                      args |-> StoredArgs(slot, args), expiresAt |-> now + tokenTtl]
  /\ lastAsk' = [command |-> command, time |-> now, ttl |-> tokenTtl]
  /\ UNCHANGED cancelled
OccupySlot(slot, live, command, args) ==
  /\ asked < MaxAsks
  /\ asked' = asked + 1
  /\ pending' = [active |-> TRUE, command |-> command,
                 args |-> StoredArgs(slot, args), expiresAt |-> now + tokenTtl]
  /\ lastAsk' = [command |-> command, time |-> now, ttl |-> tokenTtl]
  /\ cancelled' = (IF live THEN cancelled \cup {slot.command} ELSE cancelled) \ {command}

\* request_confirmation(): a prompt for a TOTP code, or a fresh token.
RequestConfirmation(command, args) ==
  /\ OccupySlot(pending, SlotLive, command, args)
  /\ IF totp THEN UNCHANGED tokenVars ELSE IssueToken
  /\ UNCHANGED guessVars

\* lifecycle_request_shutdown(): the first mode wins.
RequestShutdown(command) ==
  /\ shutdown' = IF shutdown = NoCommand THEN command ELSE shutdown
  /\ runs' = runs + 1

Accept(command, via) ==
  /\ accepted' = accepted + 1
  /\ lastAccept' = [command |-> command, via |-> via]

\* The gate for /reboot and /restart, which may carry arguments.
RequestGated(command, args) ==
  /\ Admitted
  /\ RequestConfirmation(command, args)
  /\ UNCHANGED <<now, examined, confVars, acceptVars>>

\* cmd_service_v2() for start, stop and restart of a known alias.
RequestService(args) ==
  /\ Admitted
  /\ RequestConfirmation("/service", args)
  /\ UNCHANGED <<now, examined, confVars, acceptVars>>

\* Texts that pass the rate limiter and leave the confirmation state alone:
\* unknown or too long commands, commands without confirmation, /service
\* with other arguments, a legacy confirmation without a number, /confirm
\* without argument, and /confirm with a live slot and something that
\* parse_int_nonneg() refuses.
AnswerOnly ==
  /\ Admitted
  /\ UNCHANGED <<now, pending, examined, tokenVars, guessVars, confVars, askVars, acceptVars>>

\* security_rate_limit() refuses a text before it is parsed.
Throttled ==
  /\ RateExceeded
  /\ CountCommand
  /\ UNCHANGED <<now, pending, examined, tokenVars, guessVars, confVars, askVars, acceptVars>>

\* /confirm <argument> finds no live slot.
ConfirmNothingPending ==
  /\ ~SlotLive
  /\ Admitted
  /\ pending' = NoPending
  /\ UNCHANGED <<now, examined, tokenVars, guessVars, confVars, askVars, acceptVars>>

\* /confirm <code> with a wrong code empties the slot.
ConfirmRejected(code) ==
  /\ SlotLive
  /\ Admitted
  /\ IF totp
     THEN /\ ~TotpAccepts(code)
          /\ Examine(code <= MaxToken)
          /\ UNCHANGED <<tokenVars, guessVars>>
     ELSE LET verdict == TokenVerdict(code)
          IN  /\ verdict # "accepted"
              /\ Examine(verdict = "mismatch")
              /\ TokenAfter(verdict)
              /\ GuessesAfter(verdict)
  /\ pending' = NoPending
  /\ UNCHANGED <<now, confVars, askVars, acceptVars>>

\* The right code for the method in force.
CodeValid(code) == IF totp THEN TotpAccepts(code) ELSE TokenVerdict(code) = "accepted"

\* /confirm <code> for /reboot or /restart: the slot is emptied, then the
\* handler asks for the shutdown.
MutConfirmRuns(code) ==
  /\ SlotLive /\ pending.command \in GatedCommands
  /\ Admitted
  /\ CodeValid(code) /\ Examine(TRUE)
  /\ Accept(pending.command, "slot")
  /\ RequestShutdown(pending.command)
  /\ IF totp THEN UNCHANGED <<tokenVars, guessVars>>
     ELSE TokenAfter("accepted") /\ GuessesAfter("accepted")
  /\ UNCHANGED <<now, pending, confVars, askVars>>
ConfirmRuns(code) ==
  /\ SlotLive /\ pending.command \in GatedCommands
  /\ Admitted
  /\ CodeValid(code) /\ Examine(TRUE)
  /\ Accept(pending.command, "slot")
  /\ RequestShutdown(pending.command)
  /\ pending' = NoPending
  /\ IF totp THEN UNCHANGED <<tokenVars, guessVars>>
     ELSE TokenAfter("accepted") /\ GuessesAfter("accepted")
  /\ UNCHANGED <<now, confVars, askVars>>

\* /confirm <code> for /service: the handler runs a second time with the
\* stored arguments and asks for a confirmation again.
ConfirmAsksAgain(code) ==
  /\ SlotLive /\ pending.command = "/service" /\ pending.args \in ChangeArgs
  /\ Admitted
  /\ CodeValid(code) /\ Examine(TRUE)
  /\ Accept("/service", "slot")
  /\ OccupySlot(NoPending, FALSE, "/service", pending.args)
  /\ IF totp THEN UNCHANGED <<tokenVars, guessVars>>
     ELSE IssueToken /\ GuessesAfter("accepted")
  /\ UNCHANGED <<now, confVars, runs, shutdown>>

\* /confirm <code> for /service when the stored arguments are not those of
\* the request (they did not fit): the handler answers with its usage.
ConfirmUsage(code) ==
  /\ SlotLive /\ pending.command = "/service" /\ pending.args \notin ChangeArgs
  /\ Admitted
  /\ CodeValid(code) /\ Examine(TRUE)
  /\ Accept("/service", "slot")
  /\ pending' = NoPending
  /\ IF totp THEN UNCHANGED <<tokenVars, guessVars>>
     ELSE TokenAfter("accepted") /\ GuessesAfter("accepted")
  /\ UNCHANGED <<now, confVars, askVars, runs, shutdown>>

\* /reboot_confirm and /restart_confirm (legacy_confirm() of cmd_control.c):
\* the token alone decides, in both methods, and the slot is not looked at.
LegacyRejected(code) ==
  /\ Admitted
  /\ LET verdict == TokenVerdict(code)
     IN  /\ verdict # "accepted"
         /\ Examine(verdict = "mismatch")
         /\ TokenAfter(verdict)
         /\ GuessesAfter(verdict)
  /\ UNCHANGED <<now, pending, confVars, askVars, acceptVars>>

LegacyRuns(command, code) ==
  /\ Admitted
  /\ TokenVerdict(code) = "accepted" /\ Examine(TRUE)
  /\ Accept(command, "token")
  /\ RequestShutdown(command)
  /\ TokenAfter("accepted")
  /\ GuessesAfter("accepted")
  /\ UNCHANGED <<now, pending, confVars, askVars>>

----------------------------------------------------------------------------
(* Around the dispatcher *)

\* config_reload() on SIGHUP: the main loop does not get there once a
\* shutdown was requested.
Reload(useTotp, ttl) ==
  /\ shutdown = NoCommand
  /\ totp' = useTotp
  /\ tokenTtl' = TtlAfter(tokenTtl, ttl)
  /\ modeSwitched' = (modeSwitched \/ (useTotp # totp /\ (pending.active \/ lastToken >= 0)))
  /\ UNCHANGED <<now, pending, examined, tokenVars, guessVars, rateVars, askVars, acceptVars>>

\* The process ends (shutdown, crash) and systemd starts it again.
Restart(useTotp, ttl) ==
  /\ totp' = useTotp
  /\ tokenTtl' = TtlAfter(DefaultTtl, ttl)
  /\ pending' = NoPending
  /\ lastToken' = NoToken /\ lastTokenTime' = 0 /\ tokenAsk' = 0
  /\ failedAttempts' = 0 /\ blockUntil' = 0 /\ misses' = <<>>
  /\ lastCmdTime' = 0 /\ cmdBurst' = 0 /\ examined' = 0
  /\ shutdown' = NoCommand
  /\ cancelled' = {}
  /\ UNCHANGED <<now, modeSwitched, asked, lastAsk, accepted, lastAccept, runs>>

Tick ==
  /\ now < MaxTime
  /\ now' = now + 1
  /\ examined' = 0
  /\ UNCHANGED <<pending, tokenVars, guessVars, rateVars, confVars, askVars, acceptVars>>

Init ==
  /\ now = StartTime
  /\ totp \in BOOLEAN
  /\ \E ttl \in ConfigTtls : tokenTtl = TtlAfter(DefaultTtl, ttl)
  /\ modeSwitched = FALSE
  /\ pending = NoPending
  /\ lastToken = NoToken /\ lastTokenTime = 0 /\ tokenAsk = 0
  /\ failedAttempts = 0 /\ blockUntil = 0 /\ misses = <<>>
  /\ lastCmdTime = 0 /\ cmdBurst = 0 /\ examined = 0
  /\ asked = 0 /\ lastAsk = NoAsk /\ cancelled = {}
  /\ accepted = 0 /\ lastAccept = NoAccept /\ runs = 0 /\ shutdown = NoCommand

Next ==
  \/ \E command \in GatedCommands, args \in Args \cup {NoArgs} : RequestGated(command, args)
  \/ \E args \in ChangeArgs : RequestService(args)
  \/ AnswerOnly
  \/ Throttled
  \/ ConfirmNothingPending
  \/ \E code \in Codes :
        \/ ConfirmRejected(code)
        \/ ConfirmRuns(code)
        \/ ConfirmAsksAgain(code)
        \/ ConfirmUsage(code)
        \/ LegacyRejected(code)
        \/ \E command \in GatedCommands : LegacyRuns(command, code)
  \/ \E useTotp \in BOOLEAN, ttl \in ConfigTtls : Reload(useTotp, ttl) \/ Restart(useTotp, ttl)
  \/ Tick

Spec == Init /\ [][Next]_vars

----------------------------------------------------------------------------
(* Properties *)

\* The types, with the ranges the counters of the code must stay in: fewer
\* failed attempts than open a block, a burst counter that stops at its cap.
TypeOK ==
  /\ now \in StartTime..MaxTime
  /\ totp \in BOOLEAN
  /\ tokenTtl \in 1..TokenTtlMax
  /\ pending \in [active : BOOLEAN, command : Confirmable \cup {NoCommand},
                  args : (Args \ LongArgs) \cup {NoArgs}, expiresAt : Nat]
  /\ lastToken \in {NoToken} \cup 0..MaxToken
  /\ lastTokenTime \in Nat
  /\ failedAttempts \in 0..(MaxFailedAttempts - 1)
  /\ blockUntil \in Nat
  /\ lastCmdTime \in Nat
  /\ cmdBurst \in 0..RateLimitMax
  /\ shutdown \in GatedCommands \cup {NoCommand}
  /\ asked \in 0..MaxAsks
  /\ lastAsk \in [command : Confirmable \cup {NoCommand}, time : Nat, ttl : Nat]
  /\ cancelled \subseteq Confirmable \cup {NoCommand}
  /\ tokenAsk \in Nat
  /\ accepted \in Nat
  /\ lastAccept \in [command : Confirmable \cup {NoCommand}, via : {"none", "slot", "token"}]
  /\ runs \in Nat
  /\ misses \in Seq(Nat)
  /\ examined \in Nat
  /\ modeSwitched \in BOOLEAN

\* The dispatcher keeps the promise of TwoStep: whatever the order of
\* requests, wrong codes, expiries, reloads and restarts, every accepted code
\* consumes a credential that a request minted and that was still live.
Promise == INSTANCE TwoStep WITH
  slot <- IF pending.active THEN asked ELSE 0,
  token <- tokenAsk
ImplementsTwoStep == Promise!Spec

\* One request is confirmed at most once, although it mints two credentials,
\* as long as no reload changes the confirmation method under it.
OncePerRequest ==
  LET live == IF totp THEN pending.active ELSE lastToken >= 0
  IN  ~modeSwitched => accepted + (IF live THEN 1 ELSE 0) <= asked

\* A code that is accepted confirms a request that is still valid: by the
\* TTL announced with the request and, for a token, by the TTL in force, so
\* that a reload can shorten a request but never prolong one that /confirm
\* accepts.
FreshConfirmation ==
  [][ accepted' # accepted =>
        LET age == now - lastAsk.time
        IN  /\ lastAccept'.via = "slot" => age <= lastAsk.ttl
            /\ (lastAccept'.via = "token" \/ ~totp) => age <= tokenTtl ]_vars

\* /confirm confirms the command of the latest prompt, never one that a
\* later request replaced.
SlotRunsLastRequest ==
  [][ (accepted' # accepted /\ lastAccept'.via = "slot")
        => lastAccept'.command = lastAsk.command ]_vars

\* However validations, blocks, expiries and reloads interleave, any
\* MaxFailedAttempts + 1 consecutive failed attempts take a block's time.
GuessRateBounded ==
  Len(misses) = MaxFailedAttempts + 1
    => misses[Len(misses)] - misses[1] >= BlockDuration

\* The rate limiter is all that bounds the comparisons with TOTP codes: no
\* second sees more of them than its burst.
CodesPerSecond == examined <= RateBurstMax

\* "on the second call the handler executes the actual operation instead of
\* requesting confirmation" (commands.h): every accepted code starts an
\* operation.
AcceptedCodesRun == runs = accepted

\* A command the user was told is cancelled is not confirmed before it is
\* requested again.
CancelledNeverRuns ==
  [][ accepted' # accepted => lastAccept'.command \notin cancelled ]_vars
============================================================================
