---------------------------- MODULE MCSessionPages ----------------------------
(* A small instance of the session and of what is watched with it. *)
EXTENDS SessionPages

CONSTANTS a1, a2

MCAccounts == {a1, a2}
MCTokens == {a1}
=============================================================================
