----------------------------- MODULE MCAgentPages -----------------------------
(* A small instance of the pages that act on agents and vaults. *)
EXTENDS AgentPages

\* Two calls at once everywhere but on the setup page, which never stops loading.
TwoSlots == {1, 2}
=============================================================================
