----------------------------- MODULE Execution -----------------------------
(***************************************************************************)
(* The execution pipeline of the Rust API: POST /execute from              *)
(* authentication to the "approved" row, in mock mode, against the         *)
(* PostgreSQL tables it reads and writes, while the owner's handlers run   *)
(* (services/{execution_service,firewall,execution_gateway,wallet,spend,   *)
(* log}.rs, auth.rs, routes/wallet/vaults.rs, routes/shield/agents.rs).    *)
(*                                                                         *)
(* One action is one SQL statement (or one awaited call) with the code     *)
(* that runs up to the next one: handlers are async tasks on one pool, no  *)
(* statement shares a transaction with another, and any other handler may  *)
(* run in between.  A handler can end at every await (a `?` on a database  *)
(* error, a client that disconnects, a restart): Abandon and its kin.      *)
(*                                                                         *)
(* One vault serves all agents.  All agents have the same limits.          *)
(***************************************************************************)
EXTENDS Integers, FiniteSets, Functions

CONSTANTS
    Requests,           \* requests that may come in
    Agents,
    Actions,
    Amounts,            \* the "amount" of a request: any integer, 0 if missing
    CapIds,             \* agent_caps rows, numbered in the order of created_at
    AgentOf,            \* the agent a row of agent_caps belongs to
    InitialCaps,        \* the rows there are at the start
    Allowed, MaxTx, DailyLimit,         \* the agent's capability (Shield)
    CapAllowed, MaxPerTx, CapLimit,     \* the AgentCap rows (wallet)
    Budget, InitialBalance,             \* the vault row
    Deposits,           \* amounts an owner may deposit
    MaxDay,             \* bound on the calendar
    MaxInFlight,        \* requests handled at the same time
    MaxOwnerCalls,      \* bound on calls of the owner
    MaxFaults           \* bound on handlers that end half-way and failed lookups

NoCap == 0

\* Rows are finitely many, so among any of them there is a newest.
ASSUME ExecutionAssumption ==
    /\ IsFiniteSet(Requests)
    /\ Amounts \subseteq Int
    /\ Deposits \subseteq Nat \ {0}
    /\ CapIds \subseteq Nat \ {NoCap} /\ InitialCaps \subseteq CapIds
    /\ \A rows \in (SUBSET CapIds) \ {{}} : \E c \in rows : \A d \in rows : d <= c
    /\ AgentOf \in [CapIds -> Agents]
    /\ Allowed \subseteq Actions /\ CapAllowed \subseteq Actions
    /\ {MaxTx, DailyLimit, MaxPerTx, CapLimit, Budget, InitialBalance} \subseteq Nat
    /\ {MaxOwnerCalls, MaxFaults} \subseteq Nat
    /\ {MaxInFlight, MaxDay} \subseteq Nat \ {0}

VARIABLES
    agents,         \* agents.status
    keyRevoked,     \* api_keys.revoked_at is set
    capability,     \* capabilities.active
    approvalMode,   \* policies.approval_mode
    vault,          \* the vaults row
    caps,           \* the agent_caps rows
    dailySpend,     \* the daily_spend rows
    depositRows,    \* vault_transactions of kind deposit, added up
    withdrawRows,   \* requests with a vault_transactions row
    executions,     \* the status of a request's executions row, or "none"
    alerts,         \* requests with an alerts row
    req,            \* the handler of every request
    revoking,       \* the handler of POST /agents/:id/revoke
    depositing,     \* the handler of POST /vaults/:id/deposit: row to write
    day,            \* Utc::now().date_naive()
    ownerCalls, faults

shieldTables == <<agents, keyRevoked, capability, approvalMode>>
walletTables == <<vault, caps, depositRows, withdrawRows>>
auditTables == <<dailySpend, executions, alerts>>
tables == <<shieldTables, walletTables, auditTables>>
owner == <<revoking, depositing, day, ownerCalls>>
vars == <<tables, owner, req, faults>>

Stages ==
    {"new", "authenticated", "agentRead", "capabilityRead", "policyRead", "analyzed",
     "blocked", "blockedLogged", "held", "allowed", "withdrawing", "capRead",
     "vaultRead", "debited", "capCharged", "settled", "spendRecorded", "done"}

ReqType == [stage : Stages, live : BOOLEAN, agent : Agents, action : Actions,
            amount : Amounts, status : {"active", "paused", "revoked"},
            mode : {"auto", "review"}, risky : BOOLEAN, cap : CapIds \cup {NoCap}]

Live(r) == req[r].live
At(r, stage) == Live(r) /\ req[r].stage = stage
InFlight == {r \in Requests : Live(r) /\ req[r].stage # "new"}

NewestActiveCap(a) ==
    LET active == {c \in CapIds : AgentOf[c] = a /\ caps[c].status = "active"} IN
    IF active = {} THEN NoCap ELSE CHOOSE c \in active : \A d \in active : d <= c

Init ==
    /\ agents = [a \in Agents |-> "active"]
    /\ keyRevoked = [a \in Agents |-> FALSE]
    /\ capability = [a \in Agents |-> TRUE]
    /\ approvalMode = [a \in Agents |-> "auto"]
    /\ vault = [balance |-> InitialBalance, totalSpent |-> 0, status |-> "active"]
    /\ caps = [c \in CapIds |-> [spent |-> 0,
                  status |-> IF c \in InitialCaps THEN "active" ELSE "none"]]
    /\ dailySpend = [a \in Agents |-> [d \in 1 .. MaxDay |-> 0]]
    /\ depositRows = InitialBalance
    /\ withdrawRows = {}
    /\ executions = [r \in Requests |-> "none"]
    /\ alerts = {}
    /\ req \in [Requests -> [stage : {"new"}, live : {TRUE}, agent : Agents,
                             action : Actions, amount : Amounts, status : {"active"},
                             mode : {"auto"}, risky : {FALSE}, cap : {NoCap}]]
    /\ revoking = [a \in Agents |-> "idle"]
    /\ depositing = 0
    /\ day = 1
    /\ ownerCalls = 0
    /\ faults = 0

-----------------------------------------------------------------------------
(* A request: auth_middleware, ExecutionService::process *)

Goto(r, stage) == req' = [req EXCEPT ![r].stage = stage]

\* The handler returns: an answer, or an error that leaves no row behind.
Return(r) == req' = [req EXCEPT ![r].stage = "done", ![r].live = FALSE]
Refuse(r) == req' = [req EXCEPT ![r].live = FALSE]

(* Slips the properties below would catch; the specification uses none. *)
CoversBeforeAmount(r) == vault.balance > 0 /\ vault.totalSpent < Budget
CapBeforeAmount(c, amount) == caps[c].spent < CapLimit
SpendOverwritten(a, amount) == amount
ColumnsSwapped(amount) ==
    [vault EXCEPT !.balance = @ + amount, !.totalSpent = @ - amount]
NewestCapNow(r) == NewestActiveCap(req[r].agent)
ReviewGoesOn(r) ==
    /\ At(r, "held")
    /\ executions' = [executions EXCEPT ![r] = "review"]
    /\ Goto(r, "allowed")
    /\ UNCHANGED <<shieldTables, walletTables, dailySpend, alerts, owner, faults>>
DispatchWaits(r) ==
    /\ At(r, "allowed")
    /\ req[r].amount > 0 => NewestActiveCap(req[r].agent) # NoCap
    /\ Goto(r, IF req[r].amount > 0 THEN "withdrawing" ELSE "settled")
    /\ UNCHANGED <<tables, owner, faults>>

Authenticate(r) ==
    /\ At(r, "new")
    /\ Cardinality(InFlight) < MaxInFlight
    /\ IF keyRevoked[req[r].agent] \/ agents[req[r].agent] # "active"
         THEN Refuse(r)
         ELSE Goto(r, "authenticated")
    /\ UNCHANGED <<tables, owner, faults>>

LoadAgent(r) ==
    /\ At(r, "authenticated")
    /\ req' = [req EXCEPT ![r].stage = "agentRead", ![r].status = agents[req[r].agent]]
    /\ UNCHANGED <<tables, owner, faults>>

LoadCapability(r) ==
    /\ At(r, "agentRead")
    /\ IF capability[req[r].agent] THEN Goto(r, "capabilityRead") ELSE Refuse(r)
    /\ UNCHANGED <<tables, owner, faults>>

LoadPolicy(r) ==
    /\ At(r, "capabilityRead")
    /\ req' = [req EXCEPT ![r].stage = "policyRead", ![r].mode = approvalMode[req[r].agent]]
    /\ UNCHANGED <<tables, owner, faults>>

\* The risk engine answers; "risky" is a score above the policy's threshold, or
\* any of the checks that read nothing a handler changes: deny list, protocol,
\* asset, expiry of the capability.
Analyze(r) ==
    /\ At(r, "policyRead")
    /\ \E risky \in BOOLEAN :
          req' = [req EXCEPT ![r].stage = "analyzed", ![r].risky = risky]
    /\ UNCHANGED <<tables, owner, faults>>

DailyCovers(a, amount) == dailySpend[a][day] + amount <= DailyLimit

FirewallAllows(r) ==
    LET q == req[r] IN
    /\ q.status = "active"
    /\ q.action \in Allowed
    /\ q.amount <= MaxTx
    /\ DailyCovers(q.agent, q.amount)
    /\ ~q.risky

FirewallCheck(r) ==
    /\ At(r, "analyzed")
    /\ Goto(r, IF ~FirewallAllows(r) THEN "blocked"
               ELSE IF req[r].mode = "review" THEN "held" ELSE "allowed")
    /\ UNCHANGED <<tables, owner, faults>>

LogExecution(r, result) == executions' = [executions EXCEPT ![r] = result]
AlertOn(r) == alerts' = alerts \cup {r}

LogBlocked(r) ==
    /\ At(r, "blocked")
    /\ LogExecution(r, "blocked")
    /\ Goto(r, "blockedLogged")
    /\ UNCHANGED <<shieldTables, walletTables, dailySpend, alerts, owner, faults>>

CreateAlert(r) ==
    /\ At(r, "blockedLogged")
    /\ AlertOn(r)
    /\ Return(r)
    /\ UNCHANGED <<shieldTables, walletTables, dailySpend, executions, owner, faults>>

LogReview(r) ==
    /\ At(r, "held")
    /\ LogExecution(r, "review")
    /\ Return(r)
    /\ UNCHANGED <<shieldTables, walletTables, dailySpend, alerts, owner, faults>>

\* ExecutionGateway::execute: the vault pays if the agent has an active cap and
\* the amount is positive; otherwise the transaction runs without the vault.
Dispatch(r) ==
    /\ At(r, "allowed")
    /\ Goto(r, IF req[r].amount > 0 /\ NewestActiveCap(req[r].agent) # NoCap
               THEN "withdrawing" ELSE "settled")
    /\ UNCHANGED <<tables, owner, faults>>

\* `if let Ok(Some(_cap))`: a lookup that fails counts as "no cap".
DispatchWithoutLookup(r) ==
    /\ At(r, "allowed")
    /\ req[r].amount > 0
    /\ faults < MaxFaults
    /\ faults' = faults + 1
    /\ Goto(r, "settled")
    /\ UNCHANGED <<tables, owner>>

-----------------------------------------------------------------------------
(* WalletService::agent_withdraw *)

CapCovers(c, amount) == caps[c].spent + amount <= CapLimit
VaultCovers(r) ==
    /\ vault.balance >= req[r].amount
    /\ vault.totalSpent + req[r].amount <= Budget
CapToCharge(r) == req[r].cap
DebitedVault(amount) ==
    [vault EXCEPT !.balance = @ - amount, !.totalSpent = @ + amount]

ReadCap(r) ==
    /\ At(r, "withdrawing")
    /\ LET c == NewestActiveCap(req[r].agent) IN
       IF /\ c # NoCap
          /\ CapCovers(c, req[r].amount)
          /\ req[r].amount <= MaxPerTx
          /\ req[r].action \in CapAllowed
       THEN req' = [req EXCEPT ![r].stage = "capRead", ![r].cap = c]
       ELSE Refuse(r)
    /\ UNCHANGED <<tables, owner, faults>>

ReadVault(r) ==
    /\ At(r, "capRead")
    /\ IF VaultCovers(r) THEN Goto(r, "vaultRead") ELSE Refuse(r)
    /\ UNCHANGED <<tables, owner, faults>>

DebitVault(r) ==
    /\ At(r, "vaultRead")
    /\ vault' = DebitedVault(req[r].amount)
    /\ Goto(r, "debited")
    /\ UNCHANGED <<shieldTables, caps, depositRows, withdrawRows, auditTables, owner, faults>>

ChargeCap(r) ==
    /\ At(r, "debited")
    /\ caps' = [caps EXCEPT ![CapToCharge(r)].spent = @ + req[r].amount]
    /\ Goto(r, "capCharged")
    /\ UNCHANGED <<shieldTables, vault, depositRows, withdrawRows, auditTables, owner, faults>>

RecordWithdraw(r) ==
    /\ At(r, "capCharged")
    /\ withdrawRows' = withdrawRows \cup {r}
    /\ Goto(r, "settled")
    /\ UNCHANGED <<shieldTables, vault, caps, depositRows, auditTables, owner, faults>>

\* Back in process: DailySpendTracker::record_spend, on the day it is by now.
SpendAfter(a, amount) == dailySpend[a][day] + amount

RecordSpend(r) ==
    /\ At(r, "settled")
    /\ dailySpend' = [dailySpend EXCEPT ![req[r].agent][day] =
                          SpendAfter(req[r].agent, req[r].amount)]
    /\ Goto(r, "spendRecorded")
    /\ UNCHANGED <<shieldTables, walletTables, executions, alerts, owner, faults>>

LogApproved(r) ==
    /\ At(r, "spendRecorded")
    /\ LogExecution(r, "approved")
    /\ Return(r)
    /\ UNCHANGED <<shieldTables, walletTables, dailySpend, alerts, owner, faults>>

\* The handler ends at an await and leaves what it has written so far.
Abandon(r) ==
    /\ r \in InFlight
    /\ faults < MaxFaults
    /\ faults' = faults + 1
    /\ Refuse(r)
    /\ UNCHANGED <<tables, owner>>

-----------------------------------------------------------------------------
(* The owner's handlers *)

OwnerCall ==
    /\ ownerCalls < MaxOwnerCalls
    /\ ownerCalls' = ownerCalls + 1

SetAgent(a, status) ==
    /\ OwnerCall
    /\ agents' = [agents EXCEPT ![a] = status]
    /\ UNCHANGED <<keyRevoked, capability, approvalMode, walletTables, auditTables,
                   depositing, day, req, faults>>

\* pause_agent asks nothing of the agent's status, resume_agent that it is paused.
PauseAgent(a) == SetAgent(a, "paused") /\ UNCHANGED revoking
ResumeAgent(a) == agents[a] = "paused" /\ SetAgent(a, "active") /\ UNCHANGED revoking

\* revoke_agent: three statements, one after the other.
RevokeAgent(a) ==
    /\ revoking[a] = "idle"
    /\ SetAgent(a, "revoked")
    /\ revoking' = [revoking EXCEPT ![a] = "keys"]

RevokeKeys(a) ==
    /\ revoking[a] = "keys"
    /\ keyRevoked' = [keyRevoked EXCEPT ![a] = TRUE]
    /\ revoking' = [revoking EXCEPT ![a] = "capabilities"]
    /\ UNCHANGED <<agents, capability, approvalMode, walletTables, auditTables, depositing,
                   day, ownerCalls, req, faults>>

RevokeCapabilities(a) ==
    /\ revoking[a] = "capabilities"
    /\ capability' = [capability EXCEPT ![a] = FALSE]
    /\ revoking' = [revoking EXCEPT ![a] = "idle"]
    /\ UNCHANGED <<agents, keyRevoked, approvalMode, walletTables, auditTables, depositing,
                   day, ownerCalls, req, faults>>

SetApprovalMode(a, m) ==
    /\ OwnerCall
    /\ approvalMode' = [approvalMode EXCEPT ![a] = m]
    /\ UNCHANGED <<agents, keyRevoked, capability, walletTables, auditTables, revoking,
                   depositing, day, req, faults>>

SetVault(row) ==
    /\ OwnerCall
    /\ vault' = row
    /\ UNCHANGED <<shieldTables, caps, depositRows, withdrawRows, auditTables, revoking, day,
                   req, faults>>

PauseVault == SetVault([vault EXCEPT !.status = "paused"]) /\ UNCHANGED depositing

UnpauseVault ==
    /\ vault.status = "paused"
    /\ SetVault([vault EXCEPT !.status = "active"])
    /\ UNCHANGED depositing

\* deposit: the balance first, the vault_transactions row second.
Deposit(amount) ==
    /\ depositing = 0
    /\ vault.status = "active"
    /\ SetVault([vault EXCEPT !.balance = @ + amount])
    /\ depositing' = amount

RecordDeposit ==
    /\ depositing # 0
    /\ depositRows' = depositRows + depositing
    /\ depositing' = 0
    /\ UNCHANGED <<shieldTables, vault, caps, withdrawRows, auditTables, revoking, day,
                   ownerCalls, req, faults>>

SetCap(c, status) ==
    /\ OwnerCall
    /\ caps' = [caps EXCEPT ![c].status = status]
    /\ UNCHANGED <<shieldTables, vault, depositRows, withdrawRows, auditTables, revoking,
                   depositing, day, req, faults>>

CreateAgentCap(c) == caps[c].status = "none" /\ SetCap(c, "active")
RevokeAgentCap(c) == caps[c].status # "none" /\ SetCap(c, "revoked")

\* An owner's handler ends between two of its statements.
AbandonOwner ==
    /\ faults < MaxFaults
    /\ faults' = faults + 1
    /\ \/ \E a \in Agents : /\ revoking[a] # "idle"
                            /\ revoking' = [revoking EXCEPT ![a] = "idle"]
                            /\ UNCHANGED depositing
       \/ depositing # 0 /\ depositing' = 0 /\ UNCHANGED revoking
    /\ UNCHANGED <<tables, day, ownerCalls, req>>

NextDay ==
    /\ day < MaxDay
    /\ day' = day + 1
    /\ UNCHANGED <<tables, revoking, depositing, ownerCalls, req, faults>>

-----------------------------------------------------------------------------

Handle(r) ==
    \/ LoadAgent(r) \/ LoadCapability(r) \/ LoadPolicy(r) \/ Analyze(r)
    \/ FirewallCheck(r) \/ LogBlocked(r) \/ CreateAlert(r) \/ LogReview(r)
    \/ Dispatch(r) \/ DispatchWithoutLookup(r) \/ ReadCap(r) \/ ReadVault(r)
    \/ DebitVault(r) \/ ChargeCap(r) \/ RecordWithdraw(r) \/ RecordSpend(r)
    \/ LogApproved(r)

OwnerNext ==
    \/ \E a \in Agents :
          \/ PauseAgent(a) \/ ResumeAgent(a) \/ RevokeAgent(a)
          \/ RevokeKeys(a) \/ RevokeCapabilities(a)
          \/ \E m \in {"auto", "review"} : SetApprovalMode(a, m)
    \/ PauseVault \/ UnpauseVault
    \/ \E d \in Deposits : Deposit(d)
    \/ RecordDeposit
    \/ \E c \in CapIds : CreateAgentCap(c) \/ RevokeAgentCap(c)

Next ==
    \/ \E r \in Requests : Authenticate(r) \/ Handle(r) \/ Abandon(r)
    \/ OwnerNext
    \/ AbandonOwner
    \/ NextDay

Spec == Init /\ [][Next]_vars

\* The runtime polls every task that is ready, and every await of a handler
\* comes back (the risk client has a timeout, the others an error): a handler
\* that has been entered does not stay at a statement for ever.
FairSpec == Spec /\ \A r \in Requests : WF_vars(Handle(r))

-----------------------------------------------------------------------------
(* Books *)

Sum(rs) == SumFunctionOnSet([r \in Requests |-> req[r].amount], rs)

\* How far a request has come, whether its handler is still running or not.
Debited == {r \in Requests : req[r].cap # NoCap /\ req[r].stage \notin {"capRead", "vaultRead"}}
Charged == {r \in Debited : req[r].stage # "debited"}
Spent == {r \in Requests : req[r].stage \in {"spendRecorded"} \/ executions[r] = "approved"}

TypeOK ==
    /\ agents \in [Agents -> {"active", "paused", "revoked"}]
    /\ keyRevoked \in [Agents -> BOOLEAN]
    /\ capability \in [Agents -> BOOLEAN]
    /\ approvalMode \in [Agents -> {"auto", "review"}]
    /\ vault \in [balance : Int, totalSpent : Nat, status : {"active", "paused"}]
    /\ caps \in [CapIds -> [spent : Nat, status : {"none", "active", "revoked"}]]
    /\ dailySpend \in [Agents -> [1 .. MaxDay -> Int]]
    /\ depositRows \in Nat
    /\ withdrawRows \subseteq Requests
    /\ executions \in [Requests -> {"none", "blocked", "review", "approved"}]
    /\ alerts \subseteq Requests
    /\ req \in [Requests -> ReqType]
    /\ revoking \in [Agents -> {"idle", "keys", "capabilities"}]
    /\ depositing \in Deposits \cup {0}
    /\ day \in 1 .. MaxDay
    /\ ownerCalls \in 0 .. MaxOwnerCalls
    /\ faults \in 0 .. MaxFaults

\* Nothing is lost or created: what came in by deposit and was not paid out is
\* the balance, except for deposits that have no row yet or lost theirs.
DepositsCoverBalance ==
    /\ vault.balance + vault.totalSpent >= depositRows + depositing
    /\ faults = 0 => vault.balance + vault.totalSpent = depositRows + depositing

\* The tables agree on what agents spent, up to the requests that are between
\* two statements or were abandoned there: vaults.total_spent is ahead of
\* agent_caps.spent by those that debited and did not charge, and the withdraw
\* rows are behind by those that charged and did not write theirs.  So do they
\* on what was paid in.
BooksAgree ==
    /\ vault.totalSpent = Sum(Debited)
    /\ \A c \in CapIds : caps[c].spent = Sum({r \in Charged : req[r].cap = c})
    /\ withdrawRows \subseteq Charged
    /\ \A r \in Charged \ withdrawRows : req[r].stage = "capCharged"
    /\ DepositsCoverBalance

\* daily_spend holds every request that got past record_spend, whichever day
\* that was, and no other.
SpendRowsAddUp ==
    \A a \in Agents :
        SumFunctionOnSet(dailySpend[a], 1 .. MaxDay) = Sum({r \in Spent : req[r].agent = a})

\* The answer matches the money: an approved row comes after every other write
\* of its request; a request that was blocked or held never debits the vault;
\* one that was blocked, and answered, has its alert.
OutcomeMatchesMoney ==
    \A r \in Requests :
        /\ executions[r] = "approved" /\ req[r].cap # NoCap => r \in withdrawRows
        /\ executions[r] \in {"blocked", "review"} => r \notin Debited
        /\ executions[r] = "blocked" /\ req[r].stage = "done" => r \in alerts

\* The checks of agent_withdraw and its updates are separate statements, and so
\* are the firewall's check and record_spend, which may even write on the next
\* day.  Requests that run together can overrun the budget, the balance, a
\* cap's limit and the daily limit, but only by one transaction for each
\* further request in flight, wherever a handler was abandoned and whatever the
\* owner does meanwhile; one request at a time, they all hold exactly, but for
\* the room a negative amount makes: the request that uses it may be recorded
\* after midnight, when the room is gone.
DayRoom == IF MaxTx > DailyLimit /\ (\E x \in Amounts : x < 0) THEN MaxTx ELSE DailyLimit

OverrunIsBounded ==
    LET others == MaxInFlight - 1 IN
    /\ vault.totalSpent <= Budget + others * MaxPerTx
    /\ vault.balance >= -others * MaxPerTx
    /\ \A c \in CapIds : caps[c].spent <= CapLimit + others * MaxPerTx
    /\ \A a \in Agents : \A d \in 1 .. MaxDay :
          dailySpend[a][d] <= DayRoom + others * MaxTx

Ledger == INSTANCE SpendLedger WITH
    Accounts <- {"vault"}, Payers <- CapIds, NoAccount <- "none",
    Budgets <- {Budget}, Limits <- {CapLimit},
    budget <- [v \in {"vault"} |-> Budget],
    spent <- [v \in {"vault"} |-> vault.totalSpent],
    home <- [c \in CapIds |-> IF caps[c].status = "none" THEN "none" ELSE "vault"],
    limit <- [c \in CapIds |-> CapLimit],
    paid <- [c \in CapIds |-> Sum({r \in Debited : req[r].cap = c})]

\* "WalletService mirrors Move logic": one request at a time and none abandoned,
\* it implements the same ledger as the Move modules; the payment is the UPDATE
\* of vaults, the cap's row follows.
ImplementsLedger == Ledger!Spec

\* Every request that gets past authentication is answered or abandoned.
RequestsEnd == \A r \in Requests : r \in InFlight ~> ~Live(r)
=============================================================================
