---------------------------- MODULE MCSettlement ----------------------------
(* A small instance of the live mode. *)
EXTENDS Settlement, TLC

CONSTANTS alice, bot

\* The limit is met by two requests of 1 or one of 2, and the cap expires while
\* requests may still be under way.
MCTerms0 == [allowedActions |-> Actions, maxPerTx |-> 2, dailyLimit |-> 2,
             expiration |-> 1, cooldown |-> 0]
MCTerms == {MCTerms0}
MCUsers == {alice, bot}
Symmetric == Permutations(Requests)
=============================================================================
