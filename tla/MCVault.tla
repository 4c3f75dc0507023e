------------------------------ MODULE MCVault ------------------------------
(* Small instances of the on-chain wallet. *)
EXTENDS Vault, FiniteSets, TLC, Functions

CONSTANTS alice, bot, swap

\* One cap that expires soon, has no cooldown and a limit below its largest
\* transaction, and one that lives on, with a cooldown, and comes up to its limit
\* in two transactions.
MCTerms ==
    {[allowedActions |-> {swap}, maxPerTx |-> 2, dailyLimit |-> 1,
      expiration |-> 2, cooldown |-> 0],
     [allowedActions |-> {"transfer"}, maxPerTx |-> 1, dailyLimit |-> 2,
      expiration |-> 3, cooldown |-> 2]}

MCUsers == {alice, bot}
MCActions == {swap, "transfer"}
Symmetric == Permutations(MCUsers) \cup Permutations(VaultIds) \cup Permutations(CapIds)

\* Two caps of one vault, or two vaults and a cap that could be mixed up.
MaxObjects == 3
FewObjects ==
    Cardinality({v \in VaultIds : Created(v)}) + Cardinality({c \in CapIds : Issued(c)})
    <= MaxObjects

FewObjectsSpec == Init /\ [][Next /\ FewObjects']_vars

\* A day of the documents, in ticks of the model's clock.
DayLength == 2

\* The documents call daily_limit a daily spending cap (docs/wallet-design.md,
\* README.md): daily_spent would be what the cap spent on the current day.
DailySpentIsTodays ==
    \A c \in CapIds :
        agentCap[c].dailySpent =
            SumFunctionOnSet([i \in DOMAIN withdrawn |-> withdrawn[i].amount],
                             {i \in DOMAIN withdrawn :
                                 /\ withdrawn[i].cap = c
                                 /\ withdrawn[i].at \div DayLength = now \div DayLength})

\* "Vault debits require linked AgentCap" (README.md, Security Principles):
\* what leaves a vault and does not go to its owner is charged to a cap of it.
DebitsNeedCap ==
    [][\A v \in VaultIds :
          LET paid == vault[v].balance - vault'[v].balance IN
          paid > 0 =>
              \/ coins' = [coins EXCEPT ![vault[v].owner] = @ + paid]
              \/ \E c \in CapIds :
                    /\ agentCap[c].vaultId = v
                    /\ agentCap'[c].dailySpent = agentCap[c].dailySpent + paid]_vars
=============================================================================
