----------------------------- MODULE MCConfirm -----------------------------
(***************************************************************************)
(* A small bot for TLC: a clock of a few seconds, two-value tokens, a      *)
(* block after two failed attempts.                                        *)
(***************************************************************************)
EXTENDS Confirm

CONSTANTS svc, long

MCArgs == {svc, long}
MCChangeArgs == {svc, long}
MCLongArgs == {long}
MCTtls == {2, 4}   \* one in range, one above TokenTtlMax

\* The authenticator shows another code in every step.
MCTotpCode(step) == step % 2
============================================================================
