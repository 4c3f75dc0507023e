----------------------------- MODULE Settlement -----------------------------
(***************************************************************************)
(* The live mode: a request is paid on chain by the chain runner and then  *)
(* booked in PostgreSQL (services/wallet.rs, services/sui.rs,              *)
(* chain-runner/src/index.js), after the browser has created the vault and *)
(* its AgentCap and reported them (frontend wallet/setup/page.tsx).        *)
(*                                                                         *)
(* Chain is the Move wallet, module Vault: every step here is one of its   *)
(* calls or leaves it alone.  The API and the runner share no transaction  *)
(* and no request id: an answer may be lost on the way, the API may give a *)
(* request up while the runner goes on with it, and the owner may act on   *)
(* chain without the API, or in the API without the chain.  On chain any   *)
(* other address calls what asks for no capability, and the holders of     *)
(* further caps the owner issues there use them.                           *)
(*                                                                         *)
(* One owner, one agent; one vault is set up.  The runner's key does only  *)
(* what the runner does with the cap of the setup.                         *)
(***************************************************************************)
EXTENDS Integers, FiniteSets, Sequences, Functions

CONSTANTS
    Users, VaultIds, CapIds, Actions, Terms, Amounts, Budgets, Purse, MaxTime,
    MaxU64, NoUser, NoVault, NoTerms,       \* the constants of Vault
    owner, agentKey,    \* the user's wallet; the runner's FRX_AGENT_PRIVATE_KEY
    v0, cap0,           \* the objects the browser creates
    deposit0, budget0, terms0,      \* what the setup form says
    LocalCaps,          \* caps created by POST /vaults/:id/agent-caps
    Requests,
    MaxOtherCalls,      \* bound on calls past the browser's setup and the runner
    MaxFaults           \* bound on lost answers and abandoned handlers

Rows == {cap0} \cup LocalCaps
NoRow == "no row"

ASSUME SettlementAssumption ==
    /\ {owner, agentKey} \subseteq Users
    /\ v0 \in VaultIds /\ cap0 \in CapIds
    /\ deposit0 \in Amounts /\ budget0 \in Budgets /\ terms0 \in Terms
    /\ IsFiniteSet(Requests) /\ IsFiniteSet(LocalCaps)
    /\ CapIds \cap LocalCaps = {} /\ NoRow \notin CapIds \cup LocalCaps
    /\ MaxOtherCalls \in Nat /\ MaxFaults \in Nat

VARIABLES
    vault, agentCap, holder, coins, withdrawn, now,     \* the chain
    setup,      \* how far the browser has come
    row,        \* the vaults row
    caps,       \* the agent_caps rows, created_at as a rank
    withdrawRows,   \* requests with a vault_transactions row
    req,        \* the handler of every request
    runner,     \* the chain runner's handler of POST /execute/agent-withdraw
    otherCalls, faults

chain == <<vault, agentCap, holder, coins, withdrawn, now>>
database == <<row, caps, withdrawRows>>
vars == <<chain, setup, database, req, runner, otherCalls, faults>>

Chain == INSTANCE Vault

ASSUME ChainAssumption == Chain!ConstantsAssumption

Stages == {"new", "withdrawing", "capRead", "posted", "paid", "debited", "capCharged",
           "outside", "done"}

ReqType == [stage : Stages, live : BOOLEAN, action : Actions, amount : Amounts \ {0},
            cap : Rows \cup {NoRow}]

\* is_on_chain_object_id: setup stores the ids of objects, create_agent_cap makes one up.
OnChain(c) == c \in CapIds
At(r, stage) == req[r].live /\ req[r].stage = stage

Init ==
    /\ Chain!Init
    /\ setup = "start"
    /\ row = [balance |-> 0, totalSpent |-> 0]
    /\ caps = [c \in Rows |-> [spent |-> 0, status |-> "none", createdAt |-> 0]]
    /\ withdrawRows = {}
    /\ req \in [Requests -> [stage : {"new"}, live : {TRUE}, action : Actions,
                             amount : Amounts \ {0}, cap : {NoRow}]]
    /\ runner = [r \in Requests |-> "idle"]
    /\ otherCalls = 0
    /\ faults = 0

WithRow(c) ==
    [caps EXCEPT ![c].status = "active",
                 ![c].createdAt = 1 + Cardinality({d \in Rows : caps[d].status # "none"})]

-----------------------------------------------------------------------------
(* The browser sets the wallet up: two transactions, then one call. *)

SignVault ==
    /\ setup = "start"
    /\ Chain!CreateVault(owner, v0, deposit0, budget0)
    /\ setup' = "vaultSigned"
    /\ UNCHANGED <<database, req, runner, otherCalls, faults>>

SignCap ==
    /\ setup = "vaultSigned"
    /\ Chain!CreateAgentCap(owner, v0, cap0, terms0, agentKey)
    /\ setup' = "capSigned"
    /\ UNCHANGED <<database, req, runner, otherCalls, faults>>

\* setup_complete takes the ids and the form's figures as they come.
CompleteSetup ==
    /\ setup = "capSigned"
    /\ setup' = "complete"
    /\ row' = [row EXCEPT !.balance = deposit0]
    /\ caps' = WithRow(cap0)
    /\ UNCHANGED <<withdrawRows, chain, req, runner, otherCalls, faults>>

\* The page is closed or a step fails: what is on chain stays there.
LeaveSetup ==
    /\ setup \in {"vaultSigned", "capSigned"}
    /\ faults < MaxFaults
    /\ faults' = faults + 1
    /\ setup' = "left"
    /\ UNCHANGED <<chain, database, req, runner, otherCalls>>

-----------------------------------------------------------------------------
(* ExecutionGateway::execute and WalletService::agent_withdraw in live mode *)

Goto(r, stage) == req' = [req EXCEPT ![r].stage = stage]
Refuse(r) == req' = [req EXCEPT ![r].live = FALSE]

\* get_agent_cap_for_agent: the last row that is active, if there is one.
ActiveRows == {c \in Rows : caps[c].status = "active"}
IsNewest(c) == c \in ActiveRows /\ \A d \in ActiveRows : caps[d].createdAt <= caps[c].createdAt

(* Slips the properties below would catch; the specification uses none. *)
AnyAnswerIsADigest(r) ==
    /\ At(r, "posted")
    /\ runner[r] # "posted"
    /\ Goto(r, "paid")
    /\ UNCHANGED <<chain, setup, database, runner, otherCalls, faults>>
SubmitAgain(r) ==
    /\ runner[r] \in {"posted", "executed"}
    /\ Chain!AgentWithdraw(req[r].cap, v0, req[r].amount, req[r].action)
    /\ runner' = [runner EXCEPT ![r] = "executed"]
    /\ UNCHANGED <<setup, database, req, otherCalls, faults>>
SetupCapCharged(r) == [caps EXCEPT ![cap0].spent = @ + req[r].amount]

Dispatch(r) ==
    /\ At(r, "new")
    /\ setup = "complete"
    /\ Goto(r, IF ActiveRows # {} THEN "withdrawing" ELSE "outside")
    /\ UNCHANGED <<chain, setup, database, runner, otherCalls, faults>>

\* SuiService::execute_transaction sends no object ids, so POST /execute of the
\* runner submits nothing and makes up a digest.
ExecuteOutsideVault(r) ==
    /\ At(r, "outside")
    /\ req' = [req EXCEPT ![r].stage = "done", ![r].live = FALSE]
    /\ UNCHANGED <<chain, setup, database, runner, otherCalls, faults>>

\* Caps created in the API get the limits of the form, like the first.
CapCovers(c, r) ==
    /\ caps[c].spent + req[r].amount <= terms0.dailyLimit
    /\ req[r].amount <= terms0.maxPerTx
    /\ req[r].action \in terms0.allowedActions

ReadCap(r) ==
    /\ At(r, "withdrawing")
    /\ \/ \E c \in Rows :
             /\ IsNewest(c) /\ CapCovers(c, r)
             /\ req' = [req EXCEPT ![r].stage = "capRead", ![r].cap = c]
       \/ /\ ~ \E c \in Rows : IsNewest(c) /\ CapCovers(c, r)
          /\ Refuse(r)
    /\ UNCHANGED <<chain, setup, database, runner, otherCalls, faults>>

RowCovers(amount) == row.balance >= amount /\ row.totalSpent + amount <= budget0

\* Only a cap with an object behind it goes to the runner; for the others the
\* digest is made up and the rows are booked as in mock mode.
ReadVault(r) ==
    /\ At(r, "capRead")
    /\ \/ /\ ~RowCovers(req[r].amount)
          /\ Refuse(r)
          /\ UNCHANGED runner
       \/ /\ RowCovers(req[r].amount) /\ OnChain(req[r].cap)
          /\ Goto(r, "posted")
          /\ runner' = [runner EXCEPT ![r] = "posted"]
       \/ /\ RowCovers(req[r].amount) /\ ~OnChain(req[r].cap)
          /\ Goto(r, "paid")
          /\ UNCHANGED runner
    /\ UNCHANGED <<chain, setup, database, otherCalls, faults>>

\* signAndExecuteTransaction; agent_withdraw pays the runner's own address.
RunnerExecutes(r) ==
    /\ runner[r] = "posted"
    /\ holder[req[r].cap] = agentKey
    /\ Chain!AgentWithdraw(req[r].cap, v0, req[r].amount, req[r].action)
    /\ runner' = [runner EXCEPT ![r] = "executed"]
    /\ UNCHANGED <<setup, database, req, otherCalls, faults>>

\* The call aborts, or the transaction never gets in (gas, locked object, RPC).
RunnerFails(r) ==
    /\ runner[r] = "posted"
    /\ runner' = [runner EXCEPT ![r] = "failed"]
    /\ UNCHANGED <<chain, setup, database, req, otherCalls, faults>>

ReceiveDigest(r) ==
    /\ At(r, "posted")
    /\ runner[r] = "executed"
    /\ Goto(r, "paid")
    /\ UNCHANGED <<chain, setup, database, runner, otherCalls, faults>>

ReceiveError(r) ==
    /\ At(r, "posted")
    /\ runner[r] = "failed"
    /\ Refuse(r)
    /\ UNCHANGED <<chain, setup, database, runner, otherCalls, faults>>

\* No answer, or an error from behind a transaction that was executed: the API
\* gives up, whatever the runner has done or is still going to do.
LoseAnswer(r) ==
    /\ At(r, "posted")
    /\ runner[r] \in {"posted", "executed"}
    /\ faults < MaxFaults
    /\ faults' = faults + 1
    /\ Refuse(r)
    /\ UNCHANGED <<chain, setup, database, runner, otherCalls>>

DebitedRow(amount) == [row EXCEPT !.balance = @ - amount, !.totalSpent = @ + amount]
ChargedCaps(r) == [caps EXCEPT ![req[r].cap].spent = @ + req[r].amount]

DebitVault(r) ==
    /\ At(r, "paid")
    /\ row' = DebitedRow(req[r].amount)
    /\ Goto(r, "debited")
    /\ UNCHANGED <<chain, setup, caps, withdrawRows, runner, otherCalls, faults>>

ChargeCap(r) ==
    /\ At(r, "debited")
    /\ caps' = ChargedCaps(r)
    /\ Goto(r, "capCharged")
    /\ UNCHANGED <<chain, setup, row, withdrawRows, runner, otherCalls, faults>>

RecordWithdraw(r) ==
    /\ At(r, "capCharged")
    /\ withdrawRows' = withdrawRows \cup {r}
    /\ req' = [req EXCEPT ![r].stage = "done", ![r].live = FALSE]
    /\ UNCHANGED <<chain, setup, row, caps, runner, otherCalls, faults>>

\* The handler ends at an await; the runner, if it was asked, goes on.
Abandon(r) ==
    /\ req[r].live /\ req[r].stage \notin {"new", "posted"}
    /\ faults < MaxFaults
    /\ faults' = faults + 1
    /\ Refuse(r)
    /\ UNCHANGED <<chain, setup, database, runner, otherCalls>>

-----------------------------------------------------------------------------
(* The owner and others on chain, and the owner in the API *)

OtherCall ==
    /\ otherCalls < MaxOtherCalls
    /\ otherCalls' = otherCalls + 1

\* Any call of the Move wallet but the browser's own and those that take the
\* setup's cap; new objects get ids of their own.  So the owner issues further
\* caps and their holders withdraw, and any address calls record_spend.
OthersOnChain ==
    /\ OtherCall
    /\ \/ \E s \in Users, v \in VaultIds : Chain!AnyoneStep(s, v) \/ Chain!OwnerStep(s, v)
       \/ \E c \in CapIds \ {cap0} : Chain!AgentStep(c)
    /\ agentCap'[cap0] = agentCap[cap0]
    /\ vault'[v0].owner = vault[v0].owner
    /\ UNCHANGED <<setup, database, req, runner, faults>>

\* POST /vaults/:id/deposit, /vaults/:id/agent-caps, /agent-caps/:id/revoke: the
\* rows only, no transaction is sent.  Pausing does not touch these rows.
DepositInApi(amount) ==
    /\ OtherCall
    /\ setup = "complete"
    /\ row' = [row EXCEPT !.balance = @ + amount]
    /\ UNCHANGED <<chain, setup, caps, withdrawRows, req, runner, faults>>

CreateCapInApi(c) ==
    /\ OtherCall
    /\ setup = "complete"
    /\ caps[c].status = "none"
    /\ caps' = WithRow(c)
    /\ UNCHANGED <<chain, setup, row, withdrawRows, req, runner, faults>>

RevokeCapInApi(c) ==
    /\ OtherCall
    /\ caps[c].status # "none"
    /\ caps' = [caps EXCEPT ![c].status = "revoked"]
    /\ UNCHANGED <<chain, setup, row, withdrawRows, req, runner, faults>>

Tick == Chain!Tick /\ UNCHANGED <<setup, database, req, runner, otherCalls, faults>>

-----------------------------------------------------------------------------

Handle(r) ==
    \/ Dispatch(r) \/ ExecuteOutsideVault(r) \/ ReadCap(r) \/ ReadVault(r)
    \/ ReceiveDigest(r) \/ ReceiveError(r) \/ LoseAnswer(r)
    \/ DebitVault(r) \/ ChargeCap(r) \/ RecordWithdraw(r) \/ Abandon(r)

Next ==
    \/ SignVault \/ SignCap \/ CompleteSetup \/ LeaveSetup
    \/ \E r \in Requests : Handle(r) \/ RunnerExecutes(r) \/ RunnerFails(r)
    \/ OthersOnChain
    \/ \E a \in Amounts \ {0} : DepositInApi(a)
    \/ \E c \in LocalCaps : CreateCapInApi(c)
    \/ \E c \in Rows : RevokeCapInApi(c)
    \/ Tick

Spec == Init /\ [][Next]_vars

-----------------------------------------------------------------------------
(* What can be relied on *)

Sum(rs) == SumFunctionOnSet([r \in Requests |-> req[r].amount], rs)

Executed == {r \in Requests : runner[r] = "executed"}
Debited == {r \in Requests : /\ req[r].cap # NoRow
                             /\ req[r].stage \in {"debited", "capCharged", "done"}}
Charged == {r \in Debited : req[r].stage # "debited"}
ByRowsOnly == {r \in Debited : ~OnChain(req[r].cap)}

\* A request is debited from the rows, and gets a row with a digest, only after
\* the chain has paid it, unless its cap never had an object.
DebitsWerePaid ==
    /\ Debited \subseteq Executed \cup ByRowsOnly
    /\ withdrawRows \subseteq Charged

\* Every payment with the setup's cap is the payment of a request that asked for
\* it, and of one only: for every amount and action there are as many of its
\* AgentWithdrawn events as requests the runner has executed, whatever answers
\* were lost and whatever other caps pay out of the same vault.
PaymentsWereAsked ==
    \A x \in Actions : \A a \in Amounts :
        Cardinality({r \in Executed : req[r].action = x /\ req[r].amount = a})
            = Cardinality({i \in DOMAIN withdrawn :
                              /\ withdrawn[i].cap = cap0
                              /\ withdrawn[i].action = x /\ withdrawn[i].amount = a})

\* The row of the setup's cap, and the vaults row but for what it counts of caps
\* that exist in the tables only, are behind the cap on chain by exactly what
\* the chain paid and the API has not booked (in flight, or its answer was
\* lost).  The Vault object may be further ahead of its row: the API never hears
\* of other caps on chain, nor of record_spend by anybody.
BooksMatchChain ==
    /\ row.totalSpent + Sum(Executed \ Debited)
           = agentCap[cap0].dailySpent + Sum(ByRowsOnly)
    /\ caps[cap0].spent + Sum(Executed \ Charged) = agentCap[cap0].dailySpent
    /\ row.totalSpent + Sum(Executed \ Debited)
           <= vault[v0].totalSpent + Sum(ByRowsOnly)

\* With the chain behind it the row of a cap cannot be overrun by concurrent
\* requests, as it can in mock mode: the runner's transactions are executed one
\* after the other, and each is checked.
ChainLimitsRows == caps[cap0].spent <= terms0.dailyLimit
=============================================================================
