------------------------------ MODULE TwoStep ------------------------------
(***************************************************************************)
(* What the confirmation protocol of the bot promises, independently of    *)
(* codes, clocks and command names: an operation that needs a confirmation *)
(* happens only against a live credential, and the credential it happened  *)
(* against is gone afterwards.                                             *)
(*                                                                         *)
(* The bot has two credentials: the pending slot of the dispatcher         *)
(* (g_pending, confirmed with /confirm) and the classic token              *)
(* (g_last_token, confirmed with /confirm or with the hidden legacy        *)
(* commands).  Each is identified by the request that minted it; 0 stands  *)
(* for "none".                                                             *)
(***************************************************************************)
EXTENDS Integers, TLAPS

VARIABLES
  asked,    \* number of confirmation requests made so far
  slot,     \* the request that owns the pending slot, or 0
  token,    \* the request whose token is live, or 0
  accepted  \* number of confirmations accepted so far

tsVars == <<asked, slot, token, accepted>>

Init ==
  /\ asked = 0
  /\ slot = 0
  /\ token = 0
  /\ accepted = 0

\* A request takes over the slot, and the token too where one is issued.
Ask ==
  /\ asked' = asked + 1
  /\ slot' = asked'
  /\ token' \in {token, asked'}
  /\ UNCHANGED accepted

\* Expiry, a failed confirmation, a restart: credentials only disappear.
Withdraw ==
  /\ slot' \in {slot, 0}
  /\ token' \in {token, 0}
  /\ UNCHANGED <<asked, accepted>>

\* A confirmation consumes the slot.  The confirmed handler may itself ask
\* again, which mints fresh credentials.
AcceptSlot ==
  /\ slot # 0
  /\ accepted' = accepted + 1
  /\ \/ /\ slot' = 0
        /\ token' \in {token, 0}
        /\ UNCHANGED asked
     \/ /\ asked' = asked + 1
        /\ slot' = asked'
        /\ token' \in {token, asked'}

\* A confirmation consumes the token and leaves the slot alone.
AcceptToken ==
  /\ token # 0
  /\ accepted' = accepted + 1
  /\ token' = 0
  /\ UNCHANGED <<asked, slot>>

Next == Ask \/ Withdraw \/ AcceptSlot \/ AcceptToken

Spec == Init /\ [][Next]_tsVars

----------------------------------------------------------------------------
\* A credential belongs to a request that was made, and every request is
\* confirmed at most once per credential it minted.
CredentialBudget ==
  LET live == (IF slot # 0 THEN 1 ELSE 0) + (IF token # 0 THEN 1 ELSE 0)
  IN  accepted + live <= 2 * asked

\* The budget holds however requests, withdrawals and acceptances interleave.
THEOREM BudgetHolds == Spec => []CredentialBudget
<1> DEFINE
  Inv == /\ asked \in Nat /\ slot \in Nat /\ token \in Nat /\ accepted \in Nat
         /\ CredentialBudget
<1>1. Init => Inv
  BY DEF Init, CredentialBudget
<1>2. Inv /\ [Next]_tsVars => Inv'
  <2> SUFFICES ASSUME Inv, [Next]_tsVars PROVE Inv' OBVIOUS
  <2> USE DEF CredentialBudget
  <2>1. CASE Ask BY <2>1 DEF Ask
  <2>2. CASE Withdraw BY <2>2 DEF Withdraw
  <2>3. CASE AcceptSlot BY <2>3 DEF AcceptSlot
  <2>4. CASE AcceptToken BY <2>4 DEF AcceptToken
  <2>5. CASE UNCHANGED tsVars BY <2>5 DEF tsVars
  <2> QED BY <2>1, <2>2, <2>3, <2>4, <2>5 DEF Next
<1> HIDE DEF Inv
<1>3. Inv => CredentialBudget BY DEF Inv
<1> QED BY <1>1, <1>2, <1>3, PTL DEF Spec
============================================================================
