---------------------------- MODULE MCAgentTurns ----------------------------
(***************************************************************************)
(* Two requests at a time over one concept or two.                          *)
(***************************************************************************)
EXTENDS AgentTurns
=============================================================================
