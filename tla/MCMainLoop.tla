----------------------------- MODULE MCMainLoop -----------------------------
(***************************************************************************)
(* The main loop with the times of the source: a poll is over at once or   *)
(* after the whole wait for the child, an update takes no time or one HTTP *)
(* timeout.                                                                *)
(***************************************************************************)
EXTENDS MainLoop

MCPollTimes == {0, 38}
MCUpdateTimes == {0, 35}
============================================================================
