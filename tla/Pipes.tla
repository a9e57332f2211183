------------------------------- MODULE Pipes --------------------------------
(***************************************************************************)
(* What the bot's children have in common, whoever forks them: the         *)
(* descriptors of their pipes, the flag SIGTERM sets, and children that    *)
(* were given up.                                                          *)
(***************************************************************************)
EXTENDS Integers

CONSTANTS
  FdLimit,   \* descriptors the bot may have open for pipes
  MaxLost    \* bound of the number of children left unreaped

ASSUME PipesConstantsOK == FdLimit \in Nat /\ MaxLost \in Nat

VARIABLES
  openFds,   \* descriptors of pipes the parent holds
  stopping,  \* g_signal_received: SIGTERM came
  lost       \* children the bot no longer waits for and did not reap

shared == <<openFds, stopping, lost>>

\* pipe2() needs two descriptors; of a pipe that is in use the parent keeps one.
PipeAvailable == openFds + 2 <= FdLimit

SharedInit == openFds = 0 /\ stopping = FALSE /\ lost = 0

SharedTypeOK == openFds \in Nat /\ stopping \in BOOLEAN /\ lost \in Nat
============================================================================
