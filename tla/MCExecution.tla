---------------------------- MODULE MCExecution ----------------------------
(* Small instances of the execution pipeline, and what the documents say of it *)
EXTENDS Execution, TLC

OneAgent == [c \in CapIds |-> CHOOSE a \in Agents : TRUE]

\* Two agents, the rows of agent_caps alternate between them.
TwoAgents ==
    LET a == CHOOSE x \in Agents : TRUE
        b == CHOOSE x \in Agents : x # a
    IN [c \in CapIds |-> IF c % 2 = 1 THEN a ELSE b]

\* What a request may name: nothing, or any integer.
AnyAmounts == {-1, 1, 2}

Symmetric == Permutations(Requests)

\* "total_spent + amount <= total_budget", validated atomically
\* (docs/wallet-design.md, of agent_withdraw and its mirror), for any number of
\* requests at the same time.
BudgetHolds == vault.totalSpent <= Budget

\* "Pause vault: blocks all agent withdrawals", the first thing agent_withdraw
\* is said to validate (docs/wallet-design.md): no request gets past the reading
\* of the vaults row while it is paused.
PausedVaultAuthorisesNothing ==
    [][\A r \in Requests :
          At(r, "capRead") /\ vault.status = "paused" => req'[r].stage # "vaultRead"]_vars
=============================================================================
