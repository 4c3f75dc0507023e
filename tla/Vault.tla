------------------------------- MODULE Vault -------------------------------
(***************************************************************************)
(* The FRX wallet on Sui: the shared Vault object, its OwnerCap and the    *)
(* AgentCap objects (contracts/wallet/sources/{vault,agent_cap}.move).     *)
(*                                                                         *)
(* One action is one successful Move call inside a transaction.  A call    *)
(* whose assertion fails aborts and changes nothing, so it is no action.   *)
(* Sui executes the transactions on a shared object one after the other.   *)
(* Any address may call any public function on a Vault, record_spend and   *)
(* take_balance included; only what asks for an OwnerCap or takes an       *)
(* AgentCap depends on who calls.                                          *)
(*                                                                         *)
(* A vault that does not exist yet has no owner, a cap that does not exist *)
(* yet has no vault.  The OwnerCap stays with the creator of its vault,    *)
(* where the transaction that creates both sends it: assert_owner wants    *)
(* both, so giving it away would only take calls from its owner.           *)
(***************************************************************************)
EXTENDS Integers, FiniteSets, Sequences, Functions

CONSTANTS
    Users,      \* addresses: vault owners and agents
    VaultIds,   \* object ids new vaults may get
    CapIds,     \* object ids new AgentCaps may get
    Actions,    \* action tags ("swap", "transfer", ...)
    Terms,      \* what an owner may write into a new AgentCap
    Amounts,    \* amounts a call may name, zero included
    Budgets,    \* total budgets an owner may set
    Purse,      \* SUI every address starts with
    MaxTime,    \* bound on the chain clock
    MaxU64,     \* the largest u64; small in the runs
    NoUser, NoVault, NoTerms

TermsType == [allowedActions : SUBSET Actions, maxPerTx : Nat,
              dailyLimit : Nat, expiration : Nat, cooldown : Nat]

ASSUME ConstantsAssumption ==
    /\ NoUser \notin Users
    /\ NoVault \notin VaultIds
    /\ NoTerms \notin Terms
    /\ IsFiniteSet(CapIds)
    /\ Terms \subseteq TermsType
    /\ MaxU64 \in Nat
    /\ Amounts \subseteq 0 .. MaxU64
    /\ Budgets \subseteq 0 .. MaxU64
    /\ Purse \in Nat
    /\ MaxTime \in Nat

VARIABLES
    vault,      \* the shared Vault objects
    agentCap,   \* the AgentCap objects
    holder,     \* the address that owns each AgentCap
    coins,      \* SUI outside vaults, by address
    withdrawn,  \* the AgentWithdrawn events, in order
    now         \* sui::clock, in ms

vars == <<vault, agentCap, holder, coins, withdrawn, now>>

VaultType == [owner : Users \cup {NoUser}, balance : Nat,
              status : {"active", "paused"}, totalBudget : 0 .. MaxU64,
              totalSpent : 0 .. MaxU64, revokedCaps : SUBSET CapIds]

AgentCapType == [vaultId : VaultIds \cup {NoVault}, terms : Terms \cup {NoTerms},
                 dailySpent : Nat, lastAction : Nat]

WithdrawnType == [cap : CapIds, vault : VaultIds, action : Actions,
                  amount : Nat \ {0}, at : Nat]

(* Slips the properties below would catch; the specification uses none. *)
SwappedVault(owner, deposit, budget) ==
    [owner |-> owner, balance |-> budget, status |-> "active",
     totalBudget |-> deposit, totalSpent |-> 0, revokedCaps |-> {}]
NeverRevoked(c, v) == FALSE
NeverPaused(v) == TRUE
AlwaysCovers(v, amount) == TRUE
CooldownOffByOne(c) ==
    agentCap[c].lastAction > 0 =>
        now - agentCap[c].lastAction + 1 >= agentCap[c].terms.cooldown
LimitBeforeAmount(c, amount) == agentCap[c].dailySpent < agentCap[c].terms.dailyLimit
BudgetWithoutAmount(v, amount) == vault[v].totalSpent <= vault[v].totalBudget
TakenNotRecorded(v, amount) == [vault EXCEPT ![v].balance = @ - amount]

NewVault(owner, deposit, budget) ==
    [owner |-> owner, balance |-> deposit, status |-> "active",
     totalBudget |-> budget, totalSpent |-> 0, revokedCaps |-> {}]

NewAgentCap(v, terms) ==
    [vaultId |-> v, terms |-> terms, dailySpent |-> 0, lastAction |-> 0]

Created(v) == vault[v].owner # NoUser
Issued(c) == agentCap[c].vaultId # NoVault

Init ==
    /\ vault = [v \in VaultIds |-> NewVault(NoUser, 0, 0)]
    /\ agentCap = [c \in CapIds |-> NewAgentCap(NoVault, NoTerms)]
    /\ holder = [c \in CapIds |-> NoUser]
    /\ coins = [u \in Users |-> Purse]
    /\ withdrawn = <<>>
    /\ now = 1

-----------------------------------------------------------------------------
(* vault.move *)

AssertOwner(s, v) == vault[v].owner = s
IsActive(v) == vault[v].status = "active"
IsCapRevoked(c, v) == c \in vault[v].revokedCaps
BalanceCovers(v, amount) == vault[v].balance >= amount

CreateVault(s, v, amount, budget) ==
    /\ ~Created(v)
    /\ amount > 0
    /\ coins[s] >= amount
    /\ vault' = [vault EXCEPT ![v] = NewVault(s, amount, budget)]
    /\ coins' = [coins EXCEPT ![s] = @ - amount]
    /\ UNCHANGED <<agentCap, holder, withdrawn, now>>

\* Any address may add money to an active vault.
Deposit(s, v, amount) ==
    /\ Created(v)
    /\ IsActive(v)
    /\ amount > 0
    /\ coins[s] >= amount
    /\ vault' = [vault EXCEPT ![v].balance = @ + amount]
    /\ coins' = [coins EXCEPT ![s] = @ - amount]
    /\ UNCHANGED <<agentCap, holder, withdrawn, now>>

OwnerWithdraw(s, v, amount) ==
    /\ AssertOwner(s, v)
    /\ amount > 0
    /\ BalanceCovers(v, amount)
    /\ vault' = [vault EXCEPT ![v].balance = @ - amount]
    /\ coins' = [coins EXCEPT ![s] = @ + amount]
    /\ UNCHANGED <<agentCap, holder, withdrawn, now>>

Pause(s, v) ==
    /\ AssertOwner(s, v)
    /\ vault[v].status = "active"
    /\ vault' = [vault EXCEPT ![v].status = "paused"]
    /\ UNCHANGED <<agentCap, holder, coins, withdrawn, now>>

Unpause(s, v) ==
    /\ AssertOwner(s, v)
    /\ vault[v].status = "paused"
    /\ vault' = [vault EXCEPT ![v].status = "active"]
    /\ UNCHANGED <<agentCap, holder, coins, withdrawn, now>>

UpdateBudget(s, v, budget) ==
    /\ AssertOwner(s, v)
    /\ vault' = [vault EXCEPT ![v].totalBudget = budget]
    /\ UNCHANGED <<agentCap, holder, coins, withdrawn, now>>

\* revoke_agent_cap and revoke_cap_id: any id an owner names, even that of
\* another vault's cap; table::add aborts on an id that is already there.
RevokeAgentCap(s, v, c) ==
    /\ AssertOwner(s, v)
    /\ Issued(c)
    /\ c \notin vault[v].revokedCaps
    /\ vault' = [vault EXCEPT ![v].revokedCaps = @ \cup {c}]
    /\ UNCHANGED <<agentCap, holder, coins, withdrawn, now>>

\* record_spend asks for nothing; u64 addition aborts when it overflows.
RecordSpend(v, amount) ==
    /\ Created(v)
    /\ vault[v].totalSpent + amount <= MaxU64
    /\ vault' = [vault EXCEPT ![v].totalSpent = @ + amount]
    /\ UNCHANGED <<agentCap, holder, coins, withdrawn, now>>

\* take_balance hands the coin to whoever calls.
TakeBalance(s, v, amount) ==
    /\ Created(v)
    /\ IsActive(v)
    /\ BalanceCovers(v, amount)
    /\ vault' = [vault EXCEPT ![v].balance = @ - amount]
    /\ coins' = [coins EXCEPT ![s] = @ + amount]
    /\ UNCHANGED <<agentCap, holder, withdrawn, now>>

-----------------------------------------------------------------------------
(* agent_cap.move *)

CreateAgentCap(s, v, c, terms, recipient) ==
    /\ AssertOwner(s, v)
    /\ ~Issued(c)
    /\ agentCap' = [agentCap EXCEPT ![c] = NewAgentCap(v, terms)]
    /\ holder' = [holder EXCEPT ![c] = recipient]
    /\ UNCHANGED <<vault, coins, withdrawn, now>>

TransferAgentCap(c, recipient) ==
    /\ Issued(c)
    /\ holder' = [holder EXCEPT ![c] = recipient]
    /\ UNCHANGED <<vault, agentCap, coins, withdrawn, now>>

BelongsTo(c, v) == agentCap[c].vaultId = v
CooledDown(c) ==
    agentCap[c].lastAction > 0 =>
        now - agentCap[c].lastAction >= agentCap[c].terms.cooldown
WithinLimit(c, amount) ==
    agentCap[c].dailySpent + amount <= agentCap[c].terms.dailyLimit
\* A sum that overflows aborts, like one beyond the budget.
WithinBudget(v, amount) == vault[v].totalSpent + amount <= vault[v].totalBudget

ValidateWithdraw(c, v, amount, action) ==
    /\ amount > 0
    /\ BelongsTo(c, v)
    /\ ~IsCapRevoked(c, v)
    /\ IsActive(v)
    /\ now <= agentCap[c].terms.expiration
    /\ CooledDown(c)
    /\ amount <= agentCap[c].terms.maxPerTx
    /\ WithinLimit(c, amount)
    /\ WithinBudget(v, amount)
    /\ action \in agentCap[c].terms.allowedActions

\* agent_withdraw calls take_balance and record_spend on the vault.
PaidVault(v, amount) ==
    [vault EXCEPT ![v].balance = @ - amount, ![v].totalSpent = @ + amount]
ChargedCap(c, amount) ==
    [agentCap EXCEPT ![c].dailySpent = @ + amount, ![c].lastAction = now]

\* The coin goes to the signer of the transaction, who is the cap's holder.
AgentWithdraw(c, v, amount, action) ==
    /\ Issued(c)
    /\ ValidateWithdraw(c, v, amount, action)
    /\ BalanceCovers(v, amount)
    /\ vault' = PaidVault(v, amount)
    /\ agentCap' = ChargedCap(c, amount)
    /\ coins' = [coins EXCEPT ![holder[c]] = @ + amount]
    /\ withdrawn' = Append(withdrawn, [cap |-> c, vault |-> v, action |-> action,
                                       amount |-> amount, at |-> now])
    /\ UNCHANGED <<holder, now>>

Tick ==
    /\ now < MaxTime
    /\ now' = now + 1
    /\ UNCHANGED <<vault, agentCap, holder, coins, withdrawn>>

-----------------------------------------------------------------------------

\* Calls that ask for no capability.
AnyoneStep(s, v) ==
    \E a \in Amounts : Deposit(s, v, a) \/ RecordSpend(v, a) \/ TakeBalance(s, v, a)

OwnerStep(s, v) ==
    \/ \E a \in Amounts, b \in Budgets : CreateVault(s, v, a, b)
    \/ \E a \in Amounts : OwnerWithdraw(s, v, a)
    \/ Pause(s, v)
    \/ Unpause(s, v)
    \/ \E b \in Budgets : UpdateBudget(s, v, b)
    \/ \E c \in CapIds : RevokeAgentCap(s, v, c)
    \/ \E c \in CapIds, t \in Terms, r \in Users : CreateAgentCap(s, v, c, t, r)

AgentStep(c) ==
    \/ \E r \in Users : TransferAgentCap(c, r)
    \/ \E v \in VaultIds, a \in Amounts, x \in Actions : AgentWithdraw(c, v, a, x)

Next ==
    \/ \E s \in Users, v \in VaultIds : AnyoneStep(s, v) \/ OwnerStep(s, v)
    \/ \E c \in CapIds : AgentStep(c)
    \/ Tick

Spec == Init /\ [][Next]_vars

-----------------------------------------------------------------------------
(* What the wallet promises *)

\* Every object has the shape its Move struct gives it; an issued AgentCap has
\* terms and a holder, and neither the clock nor last_action_ms runs ahead.
TypeOK ==
    /\ vault \in [VaultIds -> VaultType]
    /\ agentCap \in [CapIds -> AgentCapType]
    /\ holder \in [CapIds -> Users \cup {NoUser}]
    /\ coins \in [Users -> Nat]
    /\ withdrawn \in Seq(WithdrawnType)
    /\ now \in Nat \ {0}
    /\ \A c \in CapIds :
          /\ Issued(c) => agentCap[c].terms \in Terms /\ holder[c] \in Users
          /\ agentCap[c].lastAction <= now

\* No withdrawal escapes the budget: the counter of a vault is never behind
\* the counters of its caps, whatever caps are issued, moved and revoked.  It
\* may be ahead of them, since record_spend can be called on its own.
TotalSpentCoversCaps ==
    \A v \in VaultIds :
        SumFunctionOnSet([c \in CapIds |-> agentCap[c].dailySpent],
                         {c \in CapIds : agentCap[c].vaultId = v})
            <= vault[v].totalSpent

KeepsTerms(w) ==
    /\ agentCap[w.cap].vaultId = w.vault
    /\ w.amount <= agentCap[w.cap].terms.maxPerTx
    /\ w.at <= agentCap[w.cap].terms.expiration
    /\ w.action \in agentCap[w.cap].terms.allowedActions

\* Every withdrawal with a cap that was ever made kept the terms its cap was issued with
\* (validate_withdraw); two withdrawals with one cap are at least its cooldown
\* apart, other caps, vaults and owner calls in between or not; and all of them
\* together stay inside the cap's limit.
WithdrawalsKeepTerms ==
    /\ \A i \in DOMAIN withdrawn : KeepsTerms(withdrawn[i])
    /\ \A i, j \in DOMAIN withdrawn :
          i < j /\ withdrawn[i].cap = withdrawn[j].cap =>
              withdrawn[j].at - withdrawn[i].at
                  >= agentCap[withdrawn[i].cap].terms.cooldown
    /\ \A c \in CapIds :
          Issued(c) => agentCap[c].dailySpent <= agentCap[c].terms.dailyLimit

\* The AgentWithdrawn events are a complete record: the amounts of a cap's
\* events add up to what the cap has spent.
EventsAccountForSpend ==
    \A c \in CapIds :
        agentCap[c].dailySpent =
            SumFunctionOnSet([i \in DOMAIN withdrawn |-> withdrawn[i].amount],
                             {i \in DOMAIN withdrawn : withdrawn[i].cap = c})

\* Money, budget and terms move together or not at all.  A step that changes an
\* issued cap is one withdrawal: the counter of that cap, the balance and the
\* counter of its vault, the purse of its holder and the events move by the same
\* amount, inside the budget in force, and nothing else moves.  A step that
\* changes the counter of a vault and no cap (record_spend on its own) raises
\* it, and moves no money.
SpendIsDoubleEntry ==
    [][/\ \A c \in CapIds : Issued(c) /\ agentCap'[c] # agentCap[c] =>
             LET v == agentCap[c].vaultId
                 paid == agentCap'[c].dailySpent - agentCap[c].dailySpent IN
             /\ paid > 0
             /\ vault[v].totalSpent + paid <= vault[v].totalBudget
             /\ vault' = [vault EXCEPT ![v].balance = @ - paid, ![v].totalSpent = @ + paid]
             /\ agentCap' = [agentCap EXCEPT ![c].dailySpent = @ + paid,
                                             ![c].lastAction = now]
             /\ coins' = [coins EXCEPT ![holder[c]] = @ + paid]
             /\ \E x \in Actions :
                   withdrawn' = Append(withdrawn, [cap |-> c, vault |-> v, action |-> x,
                                                   amount |-> paid, at |-> now])
       /\ \A v \in VaultIds :
             vault'[v].totalSpent # vault[v].totalSpent /\ agentCap' = agentCap =>
                 /\ vault'[v].totalSpent > vault[v].totalSpent
                 /\ coins' = coins /\ withdrawn' = withdrawn
                 /\ \A w \in VaultIds : vault'[w].balance = vault[w].balance]_vars

\* No call creates or destroys SUI: a step that changes the balance of a vault
\* changes no other vault, and one purse by the opposite amount; and no purse
\* changes without a vault.
MoneyIsConserved ==
    [][/\ \A v \in VaultIds : vault'[v].balance # vault[v].balance =>
             /\ \A w \in VaultIds \ {v} : vault'[w].balance = vault[w].balance
             /\ \E u \in Users :
                   coins' = [coins EXCEPT ![u] = @ + vault[v].balance - vault'[v].balance]
       /\ coins' # coins => \E v \in VaultIds : vault'[v].balance # vault[v].balance]_vars

\* "Revoke AgentCap - instant": once its vault lists a cap, the cap is frozen
\* for ever, and no later call takes it off the list.
RevocationIsFinal ==
    [][\A v \in VaultIds : \A c \in vault[v].revokedCaps :
          /\ c \in vault'[v].revokedCaps
          /\ agentCap[c].vaultId = v => agentCap'[c] = agentCap[c]]_vars

\* "Pause vault - blocks all agent withdrawals": the balance of a vault that is
\* paused only changes by what its owner takes out; neither a cap nor
\* take_balance gets at it.
PausedPaysOnlyOwner ==
    [][\A v \in VaultIds :
          vault[v].status = "paused" /\ vault'[v].balance # vault[v].balance =>
              /\ vault'[v].balance < vault[v].balance
              /\ coins'[vault[v].owner] > coins[vault[v].owner]
              /\ vault'[v].totalSpent = vault[v].totalSpent]_vars

Ledger == INSTANCE SpendLedger WITH
    Accounts <- VaultIds, Payers <- CapIds, NoAccount <- NoVault,
    Budgets <- Budgets \cup {0}, Limits <- {t.dailyLimit : t \in Terms} \cup {0},
    budget <- [v \in VaultIds |-> vault[v].totalBudget],
    spent <- [v \in VaultIds |-> vault[v].totalSpent],
    home <- [c \in CapIds |-> agentCap[c].vaultId],
    limit <- [c \in CapIds |-> IF Issued(c) THEN agentCap[c].terms.dailyLimit ELSE 0],
    paid <- [c \in CapIds |-> agentCap[c].dailySpent]

\* Three records of what agents spent, kept by separate statements in separate
\* objects: the events and the caps agree, and the vault counts all of it.
SpendIsAccountedFor == TotalSpentCoversCaps /\ EventsAccountForSpend

\* The Move modules implement the open ledger: agent_withdraw pays in one step,
\* inside both limits of that moment; others may use up the budget of a vault
\* (record_spend), and nothing else changes what a cap has charged, its limit
\* or its vault.
ImplementsLedger == Ledger!OpenSpec
=============================================================================
