-------------------------- MODULE ExecutionProofs --------------------------
(* Proofs about the execution pipeline, for every value of the constants. *)
EXTENDS Execution, SumLemmas, TLAPS

-----------------------------------------------------------------------------
(* What the stage of a request says of the rows it has written. *)

\* The stages before a cap is charged to the request, and those in which
\* agent_withdraw is under way.
BeforeCap ==
    {"new", "authenticated", "agentRead", "capabilityRead", "policyRead", "analyzed",
     "blocked", "blockedLogged", "held", "allowed", "withdrawing"}
Paying == {"capRead", "vaultRead", "debited", "capCharged"}

Consistent(r) ==
    /\ req[r].stage \in BeforeCap => req[r].cap = NoCap
    /\ req[r].stage \in Paying => req[r].cap # NoCap
    /\ req[r].stage \in Paying \cup {"withdrawing"} => req[r].amount > 0
    /\ req[r].stage \in {"settled", "spendRecorded"} /\ req[r].cap # NoCap => r \in withdrawRows
    /\ executions[r] = "approved" /\ req[r].cap # NoCap => r \in withdrawRows
    /\ executions[r] \in {"blocked", "review"} => req[r].cap = NoCap
    /\ executions[r] = "blocked" /\ req[r].stage = "done" => r \in alerts
    /\ executions[r] # "none" => req[r].stage \in {"blockedLogged", "done"}

IInv == TypeOK /\ \A r \in Requests : Consistent(r)

-----------------------------------------------------------------------------

LEMMA NewestIsARow ==
  ASSUME NEW a \in Agents
  PROVE  NewestActiveCap(a) \in CapIds \cup {NoCap}
  <1> DEFINE active == {c \in CapIds : AgentOf[c] = a /\ caps[c].status = "active"}
  <1>1. CASE active = {}
    BY <1>1 DEF NewestActiveCap
  <1>2. CASE active # {}
    <2>1. \E c \in active : \A d \in active : d <= c
      <3>1. active \in (SUBSET CapIds) \ {{}}
        BY <1>2
      <3> HIDE DEF active
      <3> QED BY <3>1, ExecutionAssumption
    <2>2. NewestActiveCap(a) = CHOOSE c \in active : \A d \in active : d <= c
      BY <1>2 DEF NewestActiveCap
    <2> HIDE DEF active
    <2>3. NewestActiveCap(a) \in active
      BY <2>1, <2>2
    <2> QED BY <2>3 DEF active
  <1> QED BY <1>1, <1>2

LEMMA ExecutionInit == Init => IInv
  <1> SUFFICES ASSUME Init PROVE IInv
    OBVIOUS
  <1>1. req \in [Requests -> ReqType] /\ \A r \in Requests : /\ req[r].stage = "new"
                                                             /\ req[r].cap = NoCap
    BY DEF Init, ReqType, Stages
  <1>2. TypeOK
    BY <1>1, ExecutionAssumption DEF Init, TypeOK
  <1>3. \A r \in Requests : Consistent(r)
    BY <1>1 DEF Init, Consistent, BeforeCap, Paying
  <1> QED BY <1>2, <1>3 DEF IInv

\* A step of one request's handler that keeps the types and leaves its own
\* request consistent does so for all.
LEMMA OneRequestMoves ==
  ASSUME IInv, NEW r \in Requests, NEW q \in ReqType,
         req' = [req EXCEPT ![r] = q],
         withdrawRows' \in {withdrawRows, withdrawRows \cup {r}},
         alerts' \in {alerts, alerts \cup {r}},
         \A s \in Requests \ {r} : executions'[s] = executions[s],
         Consistent(r)'
  PROVE  /\ req' \in [Requests -> ReqType]
         /\ \A s \in Requests : Consistent(s)'
  <1>1. req' \in [Requests -> ReqType] /\ req'[r] = q
    BY DEF IInv, TypeOK
  <1>2. \A s \in Requests \ {r} : req'[s] = req[s]
    BY DEF IInv, TypeOK
  <1>3. ASSUME NEW s \in Requests \ {r}
        PROVE  Consistent(s)'
    <2>1. req'[s] = req[s] /\ executions'[s] = executions[s] /\ Consistent(s)
      BY <1>2 DEF IInv
    <2>2. (s \in withdrawRows' <=> s \in withdrawRows) /\ (s \in alerts' <=> s \in alerts)
      OBVIOUS
    <2> QED BY <2>1, <2>2 DEF Consistent
  <1> QED BY <1>1, <1>3

\* A step that only moves the handler on: it writes no row.
LEMMA HandlerMoves ==
  ASSUME IInv, NEW r \in Requests, NEW q \in ReqType,
         req' = [req EXCEPT ![r] = q], UNCHANGED <<tables, owner>>,
         faults' \in 0 .. MaxFaults, Consistent(r)'
  PROVE  IInv'
  <1>1. /\ req' \in [Requests -> ReqType]
        /\ \A s \in Requests : Consistent(s)'
    BY OneRequestMoves DEF tables, auditTables, walletTables
  <1>2. TypeOK'
    BY <1>1 DEF IInv, TypeOK, tables, shieldTables, walletTables, auditTables, owner
  <1> QED BY <1>1, <1>2 DEF IInv

\* The stages a handler goes to without having written anything, from where,
\* and what it asks for on the way.
Moves(r, stage) ==
    \/ stage \in BeforeCap \ {"blockedLogged", "withdrawing"}
         /\ req[r].stage \in BeforeCap \ {"blockedLogged"}
    \/ stage = "withdrawing" /\ req[r].stage = "allowed" /\ req[r].amount > 0
    \/ stage = "settled" /\ req[r].stage = "allowed"
    \/ stage = "vaultRead" /\ req[r].stage = "capRead"

LEMMA GoesOn ==
  ASSUME IInv, NEW r \in Requests, NEW q \in ReqType,
         req' = [req EXCEPT ![r] = q], UNCHANGED <<tables, owner>>,
         faults' \in 0 .. MaxFaults,
         Moves(r, q.stage), q.cap = req[r].cap, q.amount = req[r].amount
  PROVE  IInv'
  <1>1. req'[r] = q /\ Consistent(r)
    BY DEF IInv, TypeOK
  <1>2. executions[r] = "none" /\ executions'[r] = executions[r]
    BY <1>1 DEF IInv, TypeOK, Consistent, Moves, BeforeCap, tables, auditTables
  <1>3. req[r].stage \in BeforeCap \/ req[r].stage = "capRead"
    BY DEF Moves, BeforeCap
  <1>4. Consistent(r)'
    BY <1>1, <1>2, <1>3 DEF Consistent, Moves, BeforeCap, Paying
  <1> QED BY <1>4, HandlerMoves

LEMMA HandlerEnds ==
  ASSUME IInv, NEW r \in Requests, Refuse(r), UNCHANGED <<tables, owner>>,
         faults' \in 0 .. MaxFaults
  PROVE  IInv'
  <1> DEFINE q == [req[r] EXCEPT !.live = FALSE]
  <1>0. req \in [Requests -> ReqType] /\ Consistent(r)
    BY DEF IInv, TypeOK
  <1>1. q \in ReqType /\ req' = [req EXCEPT ![r] = q] /\ req'[r] = q
    BY <1>0 DEF Refuse, ReqType
  <1>2. q.stage = req[r].stage /\ q.cap = req[r].cap /\ q.amount = req[r].amount
    BY <1>0 DEF ReqType
  <1> HIDE DEF q
  <1>3. Consistent(r)'
    BY <1>0, <1>1, <1>2 DEF Consistent, tables, walletTables, auditTables
  <1> QED BY <1>1, <1>3, HandlerMoves

-----------------------------------------------------------------------------
(* The steps of a handler *)

\* Goto, spelled out.
LEMMA GotoIs ==
  ASSUME IInv, NEW r \in Requests, NEW stage \in Stages, Goto(r, stage)
  PROVE  \E q \in ReqType : /\ req' = [req EXCEPT ![r] = q] /\ req'[r] = q
                            /\ q.stage = stage /\ q.cap = req[r].cap /\ q.amount = req[r].amount
  <1> DEFINE q == [req[r] EXCEPT !.stage = stage]
  <1>1. req \in [Requests -> ReqType]
    BY DEF IInv, TypeOK
  <1>2. /\ q \in ReqType /\ req' = [req EXCEPT ![r] = q] /\ req'[r] = q
        /\ q.stage = stage /\ q.cap = req[r].cap /\ q.amount = req[r].amount
    BY <1>1 DEF Goto, ReqType
  <1> QED BY <1>2

LEMMA ReturnIs ==
  ASSUME IInv, NEW r \in Requests, Return(r)
  PROVE  \E q \in ReqType : /\ req' = [req EXCEPT ![r] = q] /\ req'[r] = q
                            /\ q.stage = "done" /\ q.cap = req[r].cap /\ q.amount = req[r].amount
  <1> DEFINE q == [req[r] EXCEPT !.stage = "done", !.live = FALSE]
  <1>1. req \in [Requests -> ReqType]
    BY DEF IInv, TypeOK
  <1>2. /\ q \in ReqType
        /\ q.stage = "done" /\ q.cap = req[r].cap /\ q.amount = req[r].amount
    <2>1. req[r] \in ReqType /\ "done" \in Stages
      BY <1>1 DEF Stages
    <2> QED BY <2>1 DEF ReqType
  <1>3. req' = [req EXCEPT ![r] = q]
    BY DEF Return
  <1> HIDE DEF q
  <1>4. req'[r] = q
    BY <1>1, <1>3
  <1> QED BY <1>2, <1>3, <1>4

\* The statements that only read.
LEMMA ReadingKeepsInvariant ==
  ASSUME IInv, NEW r \in Requests,
         \/ Authenticate(r) \/ LoadAgent(r) \/ LoadCapability(r) \/ LoadPolicy(r)
         \/ Analyze(r) \/ FirewallCheck(r) \/ Dispatch(r) \/ DispatchWithoutLookup(r)
         \/ ReadCap(r) \/ ReadVault(r) \/ Abandon(r)
  PROVE  IInv'
  <1>0. /\ req \in [Requests -> ReqType] /\ req[r] \in ReqType /\ Consistent(r)
        /\ faults \in 0 .. MaxFaults /\ req[r].agent \in Agents
        /\ executions \in [Requests -> {"none", "blocked", "review", "approved"}]
    BY DEF IInv, TypeOK, ReqType
  <1>a. ASSUME NEW stage \in Stages, Goto(r, stage), Moves(r, stage),
               UNCHANGED <<tables, owner>>, faults' \in 0 .. MaxFaults
        PROVE  IInv'
    <2>1. PICK q \in ReqType : /\ req' = [req EXCEPT ![r] = q] /\ q.stage = stage
                               /\ q.cap = req[r].cap /\ q.amount = req[r].amount
      BY <1>a, GotoIs
    <2>2. Moves(r, q.stage)
      BY <1>a, <2>1
    <2> QED BY <1>a, <2>1, <2>2, GoesOn
  <1>b. ASSUME Refuse(r), UNCHANGED <<tables, owner>>, faults' \in 0 .. MaxFaults
        PROVE  IInv'
    BY <1>b, HandlerEnds
  <1>1. CASE Authenticate(r)
    <2>1. Moves(r, "authenticated") /\ "authenticated" \in Stages
      BY <1>1 DEF Authenticate, At, Moves, BeforeCap, Stages
    <2> QED BY <1>0, <1>1, <1>a, <1>b, <2>1 DEF Authenticate
  <1>2. CASE LoadAgent(r)
    <2> DEFINE q == [req[r] EXCEPT !.stage = "agentRead", !.status = agents[req[r].agent]]
    <2>1. agents[req[r].agent] \in {"active", "paused", "revoked"}
      BY <1>0 DEF IInv, TypeOK
    <2>2. /\ q \in ReqType /\ req' = [req EXCEPT ![r] = q]
          /\ q.stage = "agentRead" /\ q.cap = req[r].cap /\ q.amount = req[r].amount
      BY <1>0, <1>2, <2>1 DEF LoadAgent, ReqType, Stages
    <2>3. Moves(r, "agentRead")
      BY <1>2 DEF LoadAgent, At, Moves, BeforeCap
    <2> HIDE DEF q
    <2>4. Moves(r, q.stage) /\ UNCHANGED <<tables, owner>> /\ faults' \in 0 .. MaxFaults
      BY <1>0, <1>2, <2>2, <2>3 DEF LoadAgent
    <2> QED BY <2>2, <2>4, GoesOn
  <1>3. CASE LoadCapability(r)
    <2>1. Moves(r, "capabilityRead") /\ "capabilityRead" \in Stages
      BY <1>3 DEF LoadCapability, At, Moves, BeforeCap, Stages
    <2> QED BY <1>0, <1>3, <1>a, <1>b, <2>1 DEF LoadCapability
  <1>4. CASE LoadPolicy(r)
    <2> DEFINE q == [req[r] EXCEPT !.stage = "policyRead", !.mode = approvalMode[req[r].agent]]
    <2>1. approvalMode[req[r].agent] \in {"auto", "review"}
      BY <1>0 DEF IInv, TypeOK
    <2>2. /\ q \in ReqType /\ req' = [req EXCEPT ![r] = q]
          /\ q.stage = "policyRead" /\ q.cap = req[r].cap /\ q.amount = req[r].amount
      BY <1>0, <1>4, <2>1 DEF LoadPolicy, ReqType, Stages
    <2>3. Moves(r, "policyRead")
      BY <1>4 DEF LoadPolicy, At, Moves, BeforeCap
    <2> HIDE DEF q
    <2>4. Moves(r, q.stage) /\ UNCHANGED <<tables, owner>> /\ faults' \in 0 .. MaxFaults
      BY <1>0, <1>4, <2>2, <2>3 DEF LoadPolicy
    <2> QED BY <2>2, <2>4, GoesOn
  <1>5. CASE Analyze(r)
    <2>1. PICK risky \in BOOLEAN :
              req' = [req EXCEPT ![r].stage = "analyzed", ![r].risky = risky]
      BY <1>5 DEF Analyze
    <2> DEFINE q == [req[r] EXCEPT !.stage = "analyzed", !.risky = risky]
    <2>2. /\ q \in ReqType /\ req' = [req EXCEPT ![r] = q]
          /\ q.stage = "analyzed" /\ q.cap = req[r].cap /\ q.amount = req[r].amount
      BY <1>0, <2>1 DEF ReqType, Stages
    <2>3. Moves(r, "analyzed")
      BY <1>5 DEF Analyze, At, Moves, BeforeCap
    <2> HIDE DEF q
    <2>4. Moves(r, q.stage) /\ UNCHANGED <<tables, owner>> /\ faults' \in 0 .. MaxFaults
      BY <1>0, <1>5, <2>2, <2>3 DEF Analyze
    <2> QED BY <2>2, <2>4, GoesOn
  <1>6. CASE FirewallCheck(r)
    <2>1. \A stage \in {"blocked", "held", "allowed"} : Moves(r, stage) /\ stage \in Stages
      BY <1>6 DEF FirewallCheck, At, Moves, BeforeCap, Stages
    <2>2. \E stage \in {"blocked", "held", "allowed"} : Goto(r, stage)
      BY <1>6 DEF FirewallCheck
    <2> QED BY <1>0, <1>6, <1>a, <2>1, <2>2 DEF FirewallCheck
  <1>7. CASE Dispatch(r)
    <2>1. PICK stage \in {"withdrawing", "settled"} :
              Goto(r, stage) /\ (stage = "withdrawing" => req[r].amount > 0)
      BY <1>7 DEF Dispatch
    <2>2. Moves(r, stage) /\ stage \in Stages
      BY <1>7, <2>1 DEF Dispatch, At, Moves, Stages
    <2> QED BY <1>0, <1>7, <1>a, <2>1, <2>2 DEF Dispatch
  <1>8. CASE DispatchWithoutLookup(r)
    <2>1. Moves(r, "settled") /\ "settled" \in Stages /\ Goto(r, "settled")
      BY <1>8 DEF DispatchWithoutLookup, At, Moves, Stages
    <2>2. faults' \in 0 .. MaxFaults
      BY <1>0, <1>8, ExecutionAssumption DEF DispatchWithoutLookup
    <2> QED BY <1>8, <1>a, <2>1, <2>2 DEF DispatchWithoutLookup
  <1>9. CASE ReadCap(r)
    <2>1. CASE Refuse(r)
      BY <1>0, <1>9, <1>b, <2>1 DEF ReadCap
    <2>2. CASE ~Refuse(r)
      <3>1. PICK c \in CapIds : req' = [req EXCEPT ![r].stage = "capRead", ![r].cap = c]
        BY <1>0, <1>9, <2>2, NewestIsARow DEF ReadCap
      <3> DEFINE q == [req[r] EXCEPT !.stage = "capRead", !.cap = c]
      <3>2. /\ q \in ReqType /\ req' = [req EXCEPT ![r] = q] /\ req'[r] = q
            /\ q.stage = "capRead" /\ q.cap = c /\ q.amount = req[r].amount /\ c # NoCap
        BY <1>0, <3>1, ExecutionAssumption DEF ReqType, Stages
      <3> HIDE DEF q
      <3>3. executions'[r] = "none" /\ req[r].amount > 0
        BY <1>0, <1>9 DEF ReadCap, At, Consistent, tables, auditTables
      <3>4. Consistent(r)'
        BY <3>2, <3>3 DEF Consistent, BeforeCap, Paying
      <3> QED BY <1>0, <1>9, <3>2, <3>4, HandlerMoves DEF ReadCap
    <2> QED BY <2>1, <2>2
  <1>10. CASE ReadVault(r)
    <2>1. Moves(r, "vaultRead") /\ "vaultRead" \in Stages
      BY <1>10 DEF ReadVault, At, Moves, Stages
    <2> QED BY <1>0, <1>10, <1>a, <1>b, <2>1 DEF ReadVault
  <1>11. CASE Abandon(r)
    <2>1. faults' \in 0 .. MaxFaults
      BY <1>0, <1>11, ExecutionAssumption DEF Abandon
    <2> QED BY <1>11, <1>b, <2>1 DEF Abandon
  <1> QED BY <1>1, <1>2, <1>3, <1>4, <1>5, <1>6, <1>7, <1>8, <1>9, <1>10, <1>11

\* The statements that write a row of the request's own.
LEMMA LoggingKeepsInvariant ==
  ASSUME IInv, NEW r \in Requests,
         LogBlocked(r) \/ CreateAlert(r) \/ LogReview(r) \/ LogApproved(r)
  PROVE  IInv'
  <1>0. /\ req[r] \in ReqType /\ Consistent(r) /\ alerts \subseteq Requests
        /\ executions \in [Requests -> {"none", "blocked", "review", "approved"}]
    BY DEF IInv, TypeOK
  <1>1. CASE LogBlocked(r)
    <2>1. PICK q \in ReqType : /\ req' = [req EXCEPT ![r] = q] /\ req'[r] = q
                               /\ q.stage = "blockedLogged" /\ q.cap = req[r].cap
      BY <1>1, GotoIs DEF LogBlocked, Stages
    <2>2. executions'[r] = "blocked" /\ \A s \in Requests \ {r} : executions'[s] = executions[s]
      BY <1>0, <1>1 DEF LogBlocked, LogExecution
    <2>3. Consistent(r)'
      BY <1>0, <1>1, <2>1, <2>2 DEF LogBlocked, At, Consistent, BeforeCap, Paying
    <2>4. req' \in [Requests -> ReqType] /\ \A s \in Requests : Consistent(s)'
      BY <1>1, <2>1, <2>2, <2>3, OneRequestMoves DEF LogBlocked, walletTables
    <2>5. TypeOK'
      BY <1>0, <1>1, <2>4
      DEF LogBlocked, LogExecution, IInv, TypeOK, shieldTables, walletTables, owner
    <2> QED BY <2>4, <2>5 DEF IInv
  <1>2. CASE CreateAlert(r)
    <2>1. PICK q \in ReqType : /\ req' = [req EXCEPT ![r] = q] /\ req'[r] = q
                               /\ q.stage = "done" /\ q.cap = req[r].cap
      BY <1>2, ReturnIs DEF CreateAlert
    <2>2. alerts' = alerts \cup {r}
      BY <1>2 DEF CreateAlert, AlertOn
    <2>3. Consistent(r)'
      BY <1>0, <1>2, <2>1, <2>2 DEF CreateAlert, At, Consistent, BeforeCap, Paying, walletTables
    <2>4. req' \in [Requests -> ReqType] /\ \A s \in Requests : Consistent(s)'
      BY <1>2, <2>1, <2>2, <2>3, OneRequestMoves DEF CreateAlert, walletTables
    <2>5. TypeOK'
      BY <1>0, <1>2, <2>2, <2>4 DEF CreateAlert, IInv, TypeOK, shieldTables, walletTables, owner
    <2> QED BY <2>4, <2>5 DEF IInv
  <1>3. ASSUME NEW result \in {"review", "approved"}, LogExecution(r, result), Return(r),
               UNCHANGED <<shieldTables, walletTables, dailySpend, alerts, owner, faults>>,
               \/ result = "review" /\ At(r, "held")
               \/ result = "approved" /\ At(r, "spendRecorded")
        PROVE  IInv'
    <2>1. PICK q \in ReqType : /\ req' = [req EXCEPT ![r] = q] /\ req'[r] = q
                               /\ q.stage = "done" /\ q.cap = req[r].cap
      BY <1>3, ReturnIs
    <2>2. executions'[r] = result /\ \A s \in Requests \ {r} : executions'[s] = executions[s]
      BY <1>0, <1>3 DEF LogExecution
    <2>3. Consistent(r)'
      BY <1>0, <1>3, <2>1, <2>2 DEF At, Consistent, BeforeCap, Paying, walletTables
    <2>4. req' \in [Requests -> ReqType] /\ \A s \in Requests : Consistent(s)'
      BY <1>3, <2>1, <2>2, <2>3, OneRequestMoves DEF walletTables
    <2>5. TypeOK'
      BY <1>0, <1>3, <2>4
      DEF LogExecution, IInv, TypeOK, shieldTables, walletTables, owner
    <2> QED BY <2>4, <2>5 DEF IInv
  <1>4. CASE LogReview(r)
    BY <1>3, <1>4 DEF LogReview
  <1>5. CASE LogApproved(r)
    BY <1>3, <1>5 DEF LogApproved
  <1> QED BY <1>1, <1>2, <1>4, <1>5

\* The statements that move money in the tables.
LEMMA PayingKeepsInvariant ==
  ASSUME IInv, NEW r \in Requests,
         DebitVault(r) \/ ChargeCap(r) \/ RecordWithdraw(r) \/ RecordSpend(r)
  PROVE  IInv'
  <1>0. /\ req[r] \in ReqType /\ Consistent(r) /\ withdrawRows \subseteq Requests
        /\ req[r].amount \in Int /\ req[r].agent \in Agents /\ day \in 1 .. MaxDay
    BY ExecutionAssumption DEF IInv, TypeOK, ReqType
  <1>a. ASSUME NEW stage \in Stages, Goto(r, stage), UNCHANGED <<executions, alerts>>,
               \/ stage = "debited" /\ req[r].stage = "vaultRead" /\ UNCHANGED withdrawRows
               \/ stage = "capCharged" /\ req[r].stage = "debited" /\ UNCHANGED withdrawRows
               \/ stage = "settled" /\ req[r].stage = "capCharged"
                    /\ withdrawRows' = withdrawRows \cup {r}
               \/ stage = "spendRecorded" /\ req[r].stage = "settled" /\ UNCHANGED withdrawRows
        PROVE  req' \in [Requests -> ReqType] /\ \A s \in Requests : Consistent(s)'
    <2>1. PICK q \in ReqType : /\ req' = [req EXCEPT ![r] = q] /\ req'[r] = q
                               /\ q.stage = stage /\ q.cap = req[r].cap
                               /\ q.amount = req[r].amount
      BY <1>a, GotoIs
    <2>2. Consistent(r)'
      BY <1>0, <1>a, <2>1 DEF Consistent, BeforeCap, Paying
    <2> QED BY <1>a, <2>1, <2>2, OneRequestMoves
  <1>1. CASE DebitVault(r)
    <2>1. req' \in [Requests -> ReqType] /\ \A s \in Requests : Consistent(s)'
      BY <1>1, <1>a DEF DebitVault, At, Stages, auditTables
    <2>2. vault' \in [balance : Int, totalSpent : Nat, status : {"active", "paused"}]
      <3>1. req[r].amount > 0
        BY <1>0, <1>1 DEF DebitVault, At, Consistent, Paying
      <3>2. vault \in [balance : Int, totalSpent : Nat, status : {"active", "paused"}]
        BY DEF IInv, TypeOK
      <3>3. vault.balance - req[r].amount \in Int /\ vault.totalSpent + req[r].amount \in Nat
        BY <1>0, <3>1, <3>2
      <3>4. vault' = [vault EXCEPT !.balance = @ - req[r].amount,
                                   !.totalSpent = @ + req[r].amount]
        BY <1>1 DEF DebitVault, DebitedVault
      <3> QED BY <3>2, <3>3, <3>4
    <2>3. TypeOK'
      BY <1>1, <2>1, <2>2 DEF DebitVault, IInv, TypeOK, shieldTables, auditTables, owner
    <2> QED BY <2>1, <2>3 DEF IInv
  <1>2. CASE ChargeCap(r)
    <2>1. req' \in [Requests -> ReqType] /\ \A s \in Requests : Consistent(s)'
      BY <1>2, <1>a DEF ChargeCap, At, Stages, auditTables
    <2>2. caps' \in [CapIds -> [spent : Nat, status : {"none", "active", "revoked"}]]
      <3>1. req[r].amount > 0 /\ req[r].cap \in CapIds
        BY <1>0, <1>2 DEF ChargeCap, At, Consistent, Paying, ReqType
      <3>2. caps \in [CapIds -> [spent : Nat, status : {"none", "active", "revoked"}]]
        BY DEF IInv, TypeOK
      <3> DEFINE c == req[r].cap
                 row == [caps[c] EXCEPT !.spent = @ + req[r].amount]
      <3>3. row \in [spent : Nat, status : {"none", "active", "revoked"}]
        BY <1>0, <3>1, <3>2
      <3>4. caps' = [caps EXCEPT ![c] = row]
        BY <1>2, <3>1, <3>2 DEF ChargeCap, CapToCharge
      <3> QED BY <3>2, <3>3, <3>4
    <2>3. TypeOK'
      BY <1>2, <2>1, <2>2 DEF ChargeCap, IInv, TypeOK, shieldTables, auditTables, owner
    <2> QED BY <2>1, <2>3 DEF IInv
  <1>3. CASE RecordWithdraw(r)
    <2>1. req' \in [Requests -> ReqType] /\ \A s \in Requests : Consistent(s)'
      BY <1>3, <1>a DEF RecordWithdraw, At, Stages, auditTables
    <2>2. TypeOK'
      BY <1>0, <1>3, <2>1 DEF RecordWithdraw, IInv, TypeOK, shieldTables, auditTables, owner
    <2> QED BY <2>1, <2>2 DEF IInv
  <1>4. CASE RecordSpend(r)
    <2>1. req' \in [Requests -> ReqType] /\ \A s \in Requests : Consistent(s)'
      BY <1>4, <1>a DEF RecordSpend, At, Stages, walletTables
    <2>2. dailySpend' \in [Agents -> [1 .. MaxDay -> Int]]
      <3>1. dailySpend \in [Agents -> [1 .. MaxDay -> Int]]
        BY DEF IInv, TypeOK
      <3> DEFINE row == dailySpend[req[r].agent]
                 after == SpendAfter(req[r].agent, req[r].amount)
      <3>2. row \in [1 .. MaxDay -> Int]
        BY <1>0, <3>1
      <3>3. after = row[day] + req[r].amount
        BY DEF SpendAfter
      <3>4. row[day] \in Int
        BY <1>0, <3>2
      <3>5. after \in Int
        BY <1>0, <3>3, <3>4
      <3>6. dailySpend' = [dailySpend EXCEPT ![req[r].agent] = [row EXCEPT ![day] = after]]
        BY <1>0, <1>4, <3>1 DEF RecordSpend
      <3> HIDE DEF row, after
      <3>7. [row EXCEPT ![day] = after] \in [1 .. MaxDay -> Int]
        BY <1>0, <3>2, <3>5
      <3> QED BY <3>1, <3>6, <3>7
    <2>3. TypeOK'
      BY <1>4, <2>1, <2>2 DEF RecordSpend, IInv, TypeOK, shieldTables, walletTables, owner
    <2> QED BY <2>1, <2>3 DEF IInv
  <1> QED BY <1>1, <1>2, <1>3, <1>4

-----------------------------------------------------------------------------
(* Everybody else *)

\* What keeps the types and leaves requests and their rows alone.
LEMMA RequestsUntouched ==
  ASSUME IInv, TypeOK', UNCHANGED <<req, withdrawRows, executions, alerts>>
  PROVE  IInv'
  BY DEF IInv, Consistent

LEMMA OwnerKeepsInvariant ==
  ASSUME IInv, OwnerNext \/ AbandonOwner \/ NextDay
  PROVE  IInv'
  <1> USE ExecutionAssumption
  <1>1. ASSUME NEW a \in Agents,
               \/ PauseAgent(a) \/ ResumeAgent(a) \/ RevokeAgent(a)
               \/ RevokeKeys(a) \/ RevokeCapabilities(a)
               \/ \E m \in {"auto", "review"} : SetApprovalMode(a, m)
        PROVE  IInv'
    <2> DEFINE Types == /\ agents' \in [Agents -> {"active", "paused", "revoked"}]
                        /\ keyRevoked' \in [Agents -> BOOLEAN]
                        /\ capability' \in [Agents -> BOOLEAN]
                        /\ approvalMode' \in [Agents -> {"auto", "review"}]
                        /\ revoking' \in [Agents -> {"idle", "keys", "capabilities"}]
                        /\ ownerCalls' \in 0 .. MaxOwnerCalls
               Others == UNCHANGED <<vault, caps, dailySpend, depositRows, withdrawRows,
                                     executions, alerts, req, depositing, day, faults>>
    <2>1. /\ agents \in [Agents -> {"active", "paused", "revoked"}]
          /\ keyRevoked \in [Agents -> BOOLEAN] /\ capability \in [Agents -> BOOLEAN]
          /\ approvalMode \in [Agents -> {"auto", "review"}]
          /\ revoking \in [Agents -> {"idle", "keys", "capabilities"}]
          /\ ownerCalls \in 0 .. MaxOwnerCalls
      BY DEF IInv, TypeOK
    <2>2. Types
      <3>1. CASE PauseAgent(a)
        BY <2>1, <3>1 DEF PauseAgent, SetAgent, OwnerCall
      <3>2. CASE ResumeAgent(a)
        BY <2>1, <3>2 DEF ResumeAgent, SetAgent, OwnerCall
      <3>3. CASE RevokeAgent(a)
        BY <2>1, <3>3 DEF RevokeAgent, SetAgent, OwnerCall
      <3>4. CASE RevokeKeys(a)
        BY <2>1, <3>4 DEF RevokeKeys
      <3>5. CASE RevokeCapabilities(a)
        BY <2>1, <3>5 DEF RevokeCapabilities
      <3>6. ASSUME NEW m \in {"auto", "review"}, SetApprovalMode(a, m)
            PROVE  Types
        BY <2>1, <3>6 DEF SetApprovalMode, OwnerCall
      <3> QED BY <1>1, <3>1, <3>2, <3>3, <3>4, <3>5, <3>6
    <2>3. Others
      BY <1>1 DEF PauseAgent, ResumeAgent, RevokeAgent, SetAgent, RevokeKeys, RevokeCapabilities,
                  SetApprovalMode, walletTables, auditTables
    <2>4. TypeOK'
      BY <2>2, <2>3 DEF IInv, TypeOK
    <2> HIDE DEF Types
    <2> QED BY <2>3, <2>4, RequestsUntouched
  <1>2. ASSUME NEW row \in [balance : Int, totalSpent : Nat, status : {"active", "paused"}],
               SetVault(row), depositing' \in Deposits \cup {0}
        PROVE  IInv'
    <2>1. vault' = row /\ ownerCalls' \in 0 .. MaxOwnerCalls
      BY <1>2 DEF SetVault, OwnerCall, IInv, TypeOK
    <2>2. UNCHANGED <<agents, keyRevoked, capability, approvalMode, caps, dailySpend, depositRows,
                      withdrawRows, executions, alerts, revoking, day, req, faults>>
      BY <1>2 DEF SetVault, shieldTables, auditTables
    <2>3. TypeOK'
      BY <1>2, <2>1, <2>2 DEF IInv, TypeOK
    <2> QED BY <2>2, <2>3, RequestsUntouched
  <1>3. CASE PauseVault \/ UnpauseVault \/ \E d \in Deposits : Deposit(d)
    <2> DEFINE Row == [balance : Int, totalSpent : Nat, status : {"active", "paused"}]
    <2>0. vault \in Row
      BY DEF IInv, TypeOK
    <2>1. \E row \in Row : SetVault(row)
      <3>1. CASE PauseVault
        <4>1. [vault EXCEPT !.status = "paused"] \in Row
          BY <2>0
        <4> QED BY <3>1, <4>1 DEF PauseVault
      <3>2. CASE UnpauseVault
        <4>1. [vault EXCEPT !.status = "active"] \in Row
          BY <2>0
        <4> QED BY <3>2, <4>1 DEF UnpauseVault
      <3>3. ASSUME NEW d \in Deposits, Deposit(d)
            PROVE  \E row \in Row : SetVault(row)
        <4>1. [vault EXCEPT !.balance = @ + d] \in Row
          BY <2>0
        <4> QED BY <3>3, <4>1 DEF Deposit
      <3> QED BY <1>3, <3>1, <3>2, <3>3
    <2>2. depositing' \in Deposits \cup {0}
      BY <1>3 DEF PauseVault, UnpauseVault, Deposit, IInv, TypeOK
    <2> QED BY <1>2, <2>1, <2>2
  <1>4. CASE RecordDeposit
    <2>1. TypeOK' /\ UNCHANGED <<req, withdrawRows, executions, alerts>>
      BY <1>4 DEF RecordDeposit, IInv, TypeOK, shieldTables, auditTables
    <2> QED BY <2>1, RequestsUntouched
  <1>5. ASSUME NEW c \in CapIds, CreateAgentCap(c) \/ RevokeAgentCap(c)
        PROVE  IInv'
    <2>1. PICK status \in {"active", "revoked"} : SetCap(c, status)
      BY <1>5 DEF CreateAgentCap, RevokeAgentCap
    <2>2. caps' \in [CapIds -> [spent : Nat, status : {"none", "active", "revoked"}]]
      <3> DEFINE Row == [spent : Nat, status : {"none", "active", "revoked"}]
                 row == [caps[c] EXCEPT !.status = status]
      <3>1. caps \in [CapIds -> Row]
        BY DEF IInv, TypeOK
      <3>2. row \in Row
        BY <3>1
      <3>3. caps' = [caps EXCEPT ![c] = row]
        BY <2>1, <3>1 DEF SetCap
      <3> QED BY <3>1, <3>2, <3>3
    <2>3. ownerCalls' \in 0 .. MaxOwnerCalls
      <3>1. ownerCalls \in 0 .. MaxOwnerCalls
        BY DEF IInv, TypeOK
      <3>2. ownerCalls < MaxOwnerCalls /\ ownerCalls' = ownerCalls + 1
        BY <2>1 DEF SetCap, OwnerCall
      <3> QED BY <3>1, <3>2
    <2>4. TypeOK' /\ UNCHANGED <<req, withdrawRows, executions, alerts>>
      BY <2>1, <2>2, <2>3 DEF SetCap, IInv, TypeOK, shieldTables, auditTables
    <2> QED BY <2>4, RequestsUntouched
  <1>6. CASE AbandonOwner
    <2>1. revoking' \in [Agents -> {"idle", "keys", "capabilities"}]
      BY <1>6 DEF AbandonOwner, IInv, TypeOK
    <2>2. depositing' \in Deposits \cup {0} /\ faults' \in 0 .. MaxFaults
      BY <1>6 DEF AbandonOwner, IInv, TypeOK
    <2>3. TypeOK' /\ UNCHANGED <<req, withdrawRows, executions, alerts>>
      BY <1>6, <2>1, <2>2
      DEF AbandonOwner, IInv, TypeOK, tables, shieldTables, walletTables, auditTables
    <2> QED BY <2>3, RequestsUntouched
  <1>7. CASE NextDay
    <2>1. TypeOK' /\ UNCHANGED <<req, withdrawRows, executions, alerts>>
      BY <1>7 DEF NextDay, IInv, TypeOK, tables, shieldTables, walletTables, auditTables
    <2> QED BY <2>1, RequestsUntouched
  <1> QED BY <1>1, <1>3, <1>4, <1>5, <1>6, <1>7 DEF OwnerNext

LEMMA ExecutionStep == IInv /\ [Next]_vars => IInv'
  <1> SUFFICES ASSUME IInv, [Next]_vars
               PROVE  IInv'
    OBVIOUS
  <1>1. ASSUME NEW r \in Requests, Authenticate(r) \/ Handle(r) \/ Abandon(r)
        PROVE  IInv'
    BY <1>1, ReadingKeepsInvariant, LoggingKeepsInvariant, PayingKeepsInvariant DEF Handle
  <1>2. CASE OwnerNext \/ AbandonOwner \/ NextDay
    BY <1>2, OwnerKeepsInvariant
  <1>3. CASE UNCHANGED vars
    <2>1. TypeOK' /\ UNCHANGED <<req, withdrawRows, executions, alerts>>
      BY <1>3 DEF vars, tables, shieldTables, walletTables, auditTables, owner, IInv, TypeOK
    <2> QED BY <2>1, RequestsUntouched
  <1> QED BY <1>1, <1>2, <1>3 DEF Next

THEOREM ExecutionInvariant == Spec => []IInv
  BY ExecutionInit, ExecutionStep, PTL DEF Spec

\* Every row and every handler of the pipeline keeps its type: in particular
\* what vault and caps have spent never goes below zero, although a request may
\* ask for a negative amount.
THEOREM ExecutionTypeCorrect == Spec => []TypeOK
  <1>1. IInv => TypeOK
    BY DEF IInv
  <1> QED BY <1>1, ExecutionInvariant, PTL

\* The executions row of a request tells what happened to the money: approved
\* comes after the withdraw row, a blocked or held request has not debited the
\* vault, a blocked one that was answered has its alert.
THEOREM AnswersMatchMoney == Spec => []OutcomeMatchesMoney
  <1>1. IInv => OutcomeMatchesMoney
    BY DEF IInv, Consistent, OutcomeMatchesMoney, Debited
  <1> QED BY <1>1, ExecutionInvariant, PTL

-----------------------------------------------------------------------------
(* What was paid in *)

LEMMA DepositsStep ==
  ASSUME IInv, IInv', DepositsCoverBalance, [Next]_vars
  PROVE  DepositsCoverBalance'
  <1> DEFINE in == depositRows + depositing
             kept == vault.balance + vault.totalSpent
  <1>0. /\ vault.balance \in Int /\ vault.totalSpent \in Int
        /\ depositRows \in Int /\ depositing \in Nat /\ faults \in Nat /\ faults' \in Nat
    <2>1. TypeOK /\ faults' \in 0 .. MaxFaults
      BY DEF IInv, TypeOK
    <2>2. vault \in [balance : Int, totalSpent : Nat, status : {"active", "paused"}]
      BY <2>1 DEF TypeOK
    <2>3. depositRows \in Nat /\ depositing \in Deposits \cup {0} /\ faults \in 0 .. MaxFaults
      BY <2>1 DEF TypeOK
    <2>4. Deposits \subseteq Nat /\ MaxFaults \in Nat
      BY ExecutionAssumption
    <2> QED BY <2>1, <2>2, <2>3, <2>4
  <1>1. ASSUME kept' = kept, in' = in, faults' >= faults
        PROVE  DepositsCoverBalance'
    BY <1>0, <1>1 DEF DepositsCoverBalance
  <1>2. ASSUME UNCHANGED <<vault, depositRows, depositing>>, faults' \in {faults, faults + 1}
        PROVE  DepositsCoverBalance'
    BY <1>0, <1>1, <1>2
  <1>3. ASSUME NEW r \in Requests, Authenticate(r) \/ Handle(r) \/ Abandon(r)
        PROVE  DepositsCoverBalance'
    <2>1. CASE DebitVault(r)
      <3>1. req[r].amount \in Int /\ vault \in [balance : Int, totalSpent : Nat,
                                               status : {"active", "paused"}]
        BY ExecutionAssumption DEF IInv, TypeOK, ReqType
      <3>2. /\ vault'.balance = vault.balance - req[r].amount
            /\ vault'.totalSpent = vault.totalSpent + req[r].amount
        BY <2>1, <3>1 DEF DebitVault, DebitedVault
      <3>3. UNCHANGED <<depositRows, depositing, faults>>
        BY <2>1 DEF DebitVault, owner
      <3> QED BY <1>0, <1>1, <3>1, <3>2, <3>3
    <2>2. CASE \/ Authenticate(r) \/ LoadAgent(r) \/ LoadCapability(r) \/ LoadPolicy(r)
               \/ Analyze(r) \/ FirewallCheck(r) \/ LogBlocked(r) \/ CreateAlert(r)
               \/ LogReview(r) \/ Dispatch(r) \/ DispatchWithoutLookup(r) \/ ReadCap(r)
               \/ ReadVault(r) \/ ChargeCap(r) \/ RecordWithdraw(r) \/ RecordSpend(r)
               \/ LogApproved(r) \/ Abandon(r)
      <3>1. UNCHANGED <<vault, depositRows, depositing>> /\ faults' \in {faults, faults + 1}
        BY <2>2 DEF Authenticate, LoadAgent, LoadCapability, LoadPolicy, Analyze, FirewallCheck,
                    LogBlocked, CreateAlert, LogReview, Dispatch, DispatchWithoutLookup, ReadCap,
                    ReadVault, ChargeCap, RecordWithdraw, RecordSpend, LogApproved, Abandon,
                    tables, walletTables, owner
      <3> QED BY <1>2, <3>1
    <2> QED BY <1>3, <2>1, <2>2 DEF Handle
  <1>4. CASE \/ \E a \in Agents :
                  \/ PauseAgent(a) \/ ResumeAgent(a) \/ RevokeAgent(a)
                  \/ RevokeKeys(a) \/ RevokeCapabilities(a)
                  \/ \E m \in {"auto", "review"} : SetApprovalMode(a, m)
             \/ \E c \in CapIds : CreateAgentCap(c) \/ RevokeAgentCap(c)
             \/ NextDay \/ UNCHANGED vars
    <2>1. UNCHANGED <<vault, depositRows, depositing, faults>>
      BY <1>4 DEF PauseAgent, ResumeAgent, RevokeAgent, SetAgent, RevokeKeys, RevokeCapabilities,
                  SetApprovalMode, CreateAgentCap, RevokeAgentCap, SetCap, NextDay, vars, tables,
                  walletTables, owner
    <2> QED BY <1>2, <2>1
  <1>5. CASE PauseVault \/ UnpauseVault
    <2>1. UNCHANGED <<depositRows, depositing, faults>> /\ kept' = kept
      <3>1. vault \in [balance : Int, totalSpent : Nat, status : {"active", "paused"}]
        BY DEF IInv, TypeOK
      <3>2. /\ UNCHANGED <<depositRows, depositing, faults>>
            /\ \/ vault' = [vault EXCEPT !.status = "paused"]
               \/ vault' = [vault EXCEPT !.status = "active"]
        BY <1>5 DEF PauseVault, UnpauseVault, SetVault
      <3>3. vault'.balance = vault.balance /\ vault'.totalSpent = vault.totalSpent
        BY <3>1, <3>2
      <3> QED BY <3>2, <3>3
    <2> QED BY <1>0, <1>1, <2>1
  <1>6. ASSUME NEW d \in Deposits, Deposit(d)
        PROVE  DepositsCoverBalance'
    <2>1. /\ depositing = 0 /\ depositing' = d /\ UNCHANGED <<depositRows, faults>>
          /\ vault'.balance = vault.balance + d /\ vault'.totalSpent = vault.totalSpent
      <3>1. vault \in [balance : Int, totalSpent : Nat, status : {"active", "paused"}]
        BY DEF IInv, TypeOK
      <3>2. /\ depositing = 0 /\ depositing' = d /\ UNCHANGED <<depositRows, faults>>
            /\ vault' = [vault EXCEPT !.balance = @ + d]
        BY <1>6 DEF Deposit, SetVault
      <3> QED BY <3>1, <3>2
    <2>2. d \in Int
      BY ExecutionAssumption
    <2> QED BY <1>0, <2>1, <2>2 DEF DepositsCoverBalance
  <1>7. CASE RecordDeposit
    <2>1. /\ depositRows' = depositRows + depositing /\ depositing' = 0
          /\ UNCHANGED <<vault, faults>>
      BY <1>7 DEF RecordDeposit
    <2> QED BY <1>0, <1>1, <2>1
  <1>8. CASE AbandonOwner
    <2>1. /\ UNCHANGED <<vault, depositRows>> /\ depositing' \in {depositing, 0}
          /\ faults' = faults + 1
      BY <1>8 DEF AbandonOwner, tables, walletTables
    <2> QED BY <1>0, <2>1 DEF DepositsCoverBalance
  <1> QED BY <1>3, <1>4, <1>5, <1>6, <1>7, <1>8 DEF Next, OwnerNext

\* Nothing is lost or made between deposits, payments and balance: what is in
\* the vaults row and what went out of it covers the deposit rows, and exceeds
\* them only by deposits whose second statement was never reached.
THEOREM DepositsAreKept == Spec => []DepositsCoverBalance
  <1>1. Init => DepositsCoverBalance
    BY ExecutionAssumption DEF Init, DepositsCoverBalance
  <1>2. IInv /\ IInv' /\ DepositsCoverBalance /\ [Next]_vars => DepositsCoverBalance'
    BY DepositsStep
  <1> QED BY <1>1, <1>2, ExecutionInvariant, PTL DEF Spec

-----------------------------------------------------------------------------
(* What a step of a handler does, as far as the money goes *)

\* The stages before the firewall lets a request through.
Unchecked ==
    {"new", "authenticated", "agentRead", "capabilityRead", "policyRead", "analyzed",
     "blocked", "blockedLogged", "held"}

MoneyUntouched ==
    /\ UNCHANGED <<vault, caps, withdrawRows, dailySpend>>
    /\ \A s \in Requests : executions'[s] = "approved" <=> executions[s] = "approved"

Moved(r, stages, cap) ==
    /\ req'[r].stage \in stages
    /\ req'[r].cap = cap
    /\ req'[r].live => req[r].live

Stops(r) ==
    /\ MoneyUntouched
    /\ Moved(r, {req[r].stage}, req[r].cap)
    /\ ~req'[r].live

Waits(r) ==
    /\ MoneyUntouched
    /\ req[r].stage \in Unchecked
    /\ req[r].stage = "new" => Cardinality(InFlight) < MaxInFlight
    /\ Moved(r, (Unchecked \ {"new"}) \cup {"done"}, req[r].cap)

Passes(r) ==
    /\ MoneyUntouched
    /\ req[r].stage = "analyzed" /\ FirewallAllows(r)
    /\ Moved(r, {"allowed"}, req[r].cap)

Dispatches(r) ==
    /\ MoneyUntouched
    /\ req[r].stage = "allowed"
    /\ Moved(r, {"withdrawing", "settled"}, req[r].cap)

TakesCap(r) ==
    /\ MoneyUntouched
    /\ req[r].stage = "withdrawing"
    /\ \E c \in CapIds : /\ Moved(r, {"capRead"}, c)
                         /\ CapCovers(c, req[r].amount) /\ req[r].amount <= MaxPerTx
                         /\ caps[c].status # "none"

ReadsVault(r) ==
    /\ MoneyUntouched
    /\ req[r].stage = "capRead"
    /\ VaultCovers(r)
    /\ Moved(r, {"vaultRead"}, req[r].cap)

Debits(r) ==
    /\ UNCHANGED <<caps, withdrawRows, dailySpend, executions>>
    /\ vault' = DebitedVault(req[r].amount)
    /\ req[r].stage = "vaultRead"
    /\ Moved(r, {"debited"}, req[r].cap)

Charges(r) ==
    /\ UNCHANGED <<vault, withdrawRows, dailySpend, executions>>
    /\ caps' = [caps EXCEPT ![req[r].cap].spent = @ + req[r].amount]
    /\ req[r].stage = "debited"
    /\ Moved(r, {"capCharged"}, req[r].cap)

WritesRow(r) ==
    /\ UNCHANGED <<vault, caps, dailySpend, executions>>
    /\ withdrawRows' = withdrawRows \cup {r}
    /\ req[r].stage = "capCharged"
    /\ Moved(r, {"settled"}, req[r].cap)

Records(r) ==
    /\ UNCHANGED <<vault, caps, withdrawRows, executions>>
    /\ RecordSpend(r)
    /\ req[r].stage = "settled"
    /\ Moved(r, {"spendRecorded"}, req[r].cap)

Approves(r) ==
    /\ UNCHANGED <<vault, caps, withdrawRows, dailySpend>>
    /\ executions' = [executions EXCEPT ![r] = "approved"]
    /\ req[r].stage = "spendRecorded"
    /\ Moved(r, {"done"}, req[r].cap)

HandlerStep(r) ==
    /\ \A s \in Requests \ {r} : req'[s] = req[s]
    /\ req'[r].amount = req[r].amount /\ req'[r].agent = req[r].agent
    /\ req[r].live
    /\ UNCHANGED <<day, depositRows, depositing>>
    /\ \/ Stops(r) \/ Waits(r) \/ Passes(r) \/ Dispatches(r) \/ TakesCap(r) \/ ReadsVault(r)
       \/ Debits(r) \/ Charges(r) \/ WritesRow(r) \/ Records(r) \/ Approves(r)

LEMMA NewestIsActive ==
  ASSUME NEW a \in Agents, NewestActiveCap(a) # NoCap
  PROVE  NewestActiveCap(a) \in CapIds /\ caps[NewestActiveCap(a)].status = "active"
  <1> DEFINE active == {c \in CapIds : AgentOf[c] = a /\ caps[c].status = "active"}
  <1>1. active # {} /\ NewestActiveCap(a) = CHOOSE c \in active : \A d \in active : d <= c
    BY DEF NewestActiveCap
  <1>2. \E c \in active : \A d \in active : d <= c
    <2>1. active \in (SUBSET CapIds) \ {{}}
      BY <1>1
    <2> HIDE DEF active
    <2> QED BY <2>1, ExecutionAssumption
  <1> HIDE DEF active
  <1>3. NewestActiveCap(a) \in active
    BY <1>1, <1>2
  <1> QED BY <1>3 DEF active

LEMMA HandlerSteps ==
  ASSUME IInv, NEW r \in Requests, Authenticate(r) \/ Handle(r) \/ Abandon(r)
  PROVE  HandlerStep(r)
  <1>0. /\ req \in [Requests -> ReqType] /\ req[r] \in ReqType /\ Consistent(r)
        /\ req[r].agent \in Agents
        /\ executions \in [Requests -> {"none", "blocked", "review", "approved"}]
    BY DEF IInv, TypeOK, ReqType
  <1> DEFINE Frame == /\ \A s \in Requests \ {r} : req'[s] = req[s]
                      /\ req'[r].amount = req[r].amount /\ req'[r].agent = req[r].agent
                      /\ UNCHANGED <<day, depositRows, depositing>>
             Quiet == UNCHANGED <<vault, caps, withdrawRows, dailySpend, executions>>
  <1>a. Quiet => MoneyUntouched
    BY DEF MoneyUntouched
  <1>b. ASSUME NEW stage, Goto(r, stage)
        PROVE  /\ \A s \in Requests \ {r} : req'[s] = req[s]
               /\ req'[r].amount = req[r].amount /\ req'[r].agent = req[r].agent
               /\ Moved(r, {stage}, req[r].cap)
    BY <1>0, <1>b DEF Goto, Moved, ReqType
  <1>c. ASSUME Refuse(r)
        PROVE  /\ \A s \in Requests \ {r} : req'[s] = req[s]
               /\ req'[r].amount = req[r].amount /\ req'[r].agent = req[r].agent
               /\ Moved(r, {req[r].stage}, req[r].cap) /\ ~req'[r].live
    BY <1>0, <1>c DEF Refuse, Moved, ReqType
  <1>d. ASSUME Return(r)
        PROVE  /\ \A s \in Requests \ {r} : req'[s] = req[s]
               /\ req'[r].amount = req[r].amount /\ req'[r].agent = req[r].agent
               /\ Moved(r, {"done"}, req[r].cap)
    BY <1>0, <1>d DEF Return, Moved, ReqType
  <1>e. UNCHANGED <<tables, owner>> => Quiet /\ UNCHANGED <<day, depositRows, depositing>>
    BY DEF tables, walletTables, auditTables, owner
  <1>f. ASSUME Refuse(r), UNCHANGED <<tables, owner>>
        PROVE  Frame /\ Stops(r)
    BY <1>a, <1>c, <1>e, <1>f DEF Stops
  <1>g. ASSUME NEW stage \in (Unchecked \ {"new"}) \cup {"done"}, Goto(r, stage),
               UNCHANGED <<tables, owner>>, req[r].stage \in Unchecked,
               req[r].stage = "new" => Cardinality(InFlight) < MaxInFlight
        PROVE  Frame /\ Waits(r)
    BY <1>a, <1>b, <1>e, <1>g DEF Waits, Moved
  <1>1. CASE Authenticate(r)
    <2>1. /\ req[r].stage \in Unchecked /\ req[r].live /\ Cardinality(InFlight) < MaxInFlight
          /\ Refuse(r) \/ Goto(r, "authenticated")
          /\ UNCHANGED <<tables, owner>>
          /\ "authenticated" \in (Unchecked \ {"new"}) \cup {"done"}
      BY <1>1 DEF Authenticate, At, Live, Unchecked
    <2> QED BY <1>f, <1>g, <2>1 DEF HandlerStep
  <1>2. CASE LoadAgent(r)
    <2>1. /\ req[r].stage = "authenticated" /\ req[r].live
          /\ req' = [req EXCEPT ![r].stage = "agentRead", ![r].status = agents[req[r].agent]]
          /\ UNCHANGED <<tables, owner>>
      BY <1>2 DEF LoadAgent, At, Live
    <2>2. Frame /\ Waits(r)
      BY <1>0, <1>a, <1>e, <2>1 DEF ReqType, Waits, Moved, Unchecked
    <2> QED BY <2>1, <2>2 DEF HandlerStep
  <1>3. CASE LoadCapability(r)
    <2>1. /\ req[r].stage \in Unchecked /\ req[r].stage # "new" /\ req[r].live
          /\ Refuse(r) \/ Goto(r, "capabilityRead")
          /\ UNCHANGED <<tables, owner>>
          /\ "capabilityRead" \in (Unchecked \ {"new"}) \cup {"done"}
      BY <1>3 DEF LoadCapability, At, Live, Unchecked
    <2> QED BY <1>f, <1>g, <2>1 DEF HandlerStep
  <1>4. CASE LoadPolicy(r)
    <2>1. /\ req[r].stage = "capabilityRead" /\ req[r].live
          /\ req' = [req EXCEPT ![r].stage = "policyRead", ![r].mode = approvalMode[req[r].agent]]
          /\ UNCHANGED <<tables, owner>>
      BY <1>4 DEF LoadPolicy, At, Live
    <2>2. Frame /\ Waits(r)
      BY <1>0, <1>a, <1>e, <2>1 DEF ReqType, Waits, Moved, Unchecked
    <2> QED BY <2>1, <2>2 DEF HandlerStep
  <1>5. CASE Analyze(r)
    <2>1. /\ req[r].stage = "policyRead" /\ req[r].live
          /\ \E risky \in BOOLEAN :
                req' = [req EXCEPT ![r].stage = "analyzed", ![r].risky = risky]
          /\ UNCHANGED <<tables, owner>>
      BY <1>5 DEF Analyze, At, Live
    <2>2. Frame /\ Waits(r)
      BY <1>0, <1>a, <1>e, <2>1 DEF ReqType, Waits, Moved, Unchecked
    <2> QED BY <2>1, <2>2 DEF HandlerStep
  <1>6. CASE FirewallCheck(r)
    <2>1. /\ req[r].stage = "analyzed" /\ req[r].live
          /\ \/ Goto(r, "blocked") \/ Goto(r, "held")
             \/ FirewallAllows(r) /\ Goto(r, "allowed")
          /\ UNCHANGED <<tables, owner>>
      BY <1>6 DEF FirewallCheck, At, Live
    <2>2. CASE \E stage \in {"blocked", "held"} : Goto(r, stage)
      <3>1. \A stage \in {"blocked", "held"} : stage \in (Unchecked \ {"new"}) \cup {"done"}
        BY DEF Unchecked
      <3>2. req[r].stage \in Unchecked /\ req[r].stage # "new"
        BY <2>1 DEF Unchecked
      <3> QED BY <1>g, <2>1, <2>2, <3>1, <3>2 DEF HandlerStep
    <2>3. CASE FirewallAllows(r) /\ Goto(r, "allowed")
      <3>1. Frame /\ Passes(r)
        BY <1>a, <1>b, <1>e, <2>1, <2>3 DEF Passes
      <3> QED BY <2>1, <3>1 DEF HandlerStep
    <2> QED BY <2>1, <2>2, <2>3
  <1>7. CASE LogBlocked(r) \/ LogReview(r)
    <2>1. /\ req[r].stage \in {"blocked", "held"} /\ req[r].live
          /\ Goto(r, "blockedLogged") \/ Return(r)
          /\ \E result \in {"blocked", "review"} : executions' = [executions EXCEPT ![r] = result]
          /\ UNCHANGED <<walletTables, dailySpend, owner>>
      BY <1>7 DEF LogBlocked, LogReview, LogExecution, At, Live
    <2>2. executions[r] = "none"
      BY <1>0, <2>1 DEF Consistent
    <2>3. MoneyUntouched /\ UNCHANGED <<day, depositRows, depositing>>
      BY <1>0, <2>1, <2>2 DEF MoneyUntouched, walletTables, owner
    <2>4. Frame /\ Moved(r, (Unchecked \ {"new"}) \cup {"done"}, req[r].cap)
      <3>1. Frame /\ (Moved(r, {"blockedLogged"}, req[r].cap) \/ Moved(r, {"done"}, req[r].cap))
        BY <1>b, <1>d, <2>1, <2>3
      <3> QED BY <3>1 DEF Moved, Unchecked
    <2>5. Waits(r)
      BY <2>1, <2>3, <2>4 DEF Waits, Unchecked
    <2> QED BY <2>1, <2>4, <2>5 DEF HandlerStep
  <1>8. CASE CreateAlert(r)
    <2>1. /\ req[r].stage = "blockedLogged" /\ req[r].live /\ Return(r)
          /\ UNCHANGED <<walletTables, dailySpend, executions, owner>>
      BY <1>8 DEF CreateAlert, At, Live
    <2>2. Quiet /\ UNCHANGED <<day, depositRows, depositing>>
      BY <2>1 DEF walletTables, owner
    <2>3. Frame /\ Moved(r, (Unchecked \ {"new"}) \cup {"done"}, req[r].cap)
      BY <1>d, <2>1, <2>2 DEF Moved
    <2>4. Waits(r)
      BY <1>a, <2>1, <2>2, <2>3 DEF Waits, Unchecked
    <2> QED BY <2>1, <2>3, <2>4 DEF HandlerStep
  <1>9. CASE Dispatch(r) \/ DispatchWithoutLookup(r)
    <2>1. /\ req[r].stage = "allowed" /\ req[r].live
          /\ Goto(r, "withdrawing") \/ Goto(r, "settled")
          /\ UNCHANGED <<tables, owner>>
      BY <1>9 DEF Dispatch, DispatchWithoutLookup, At, Live
    <2>2. Frame /\ Moved(r, {"withdrawing", "settled"}, req[r].cap)
      BY <1>b, <1>e, <2>1 DEF Moved
    <2>3. Dispatches(r)
      BY <1>a, <1>e, <2>1, <2>2 DEF Dispatches
    <2> QED BY <2>1, <2>2, <2>3 DEF HandlerStep
  <1>10. CASE ReadCap(r)
    <2> DEFINE c == NewestActiveCap(req[r].agent)
    <2>1. /\ req[r].stage = "withdrawing" /\ req[r].live
          /\ \/ Refuse(r)
             \/ /\ c # NoCap /\ CapCovers(c, req[r].amount) /\ req[r].amount <= MaxPerTx
                /\ req' = [req EXCEPT ![r].stage = "capRead", ![r].cap = c]
          /\ UNCHANGED <<tables, owner>>
      BY <1>10 DEF ReadCap, At, Live
    <2>2. c # NoCap => c \in CapIds /\ caps[c].status # "none"
      BY <1>0, NewestIsActive
    <2> HIDE DEF c
    <2>3. CASE Refuse(r)
      BY <1>f, <2>1, <2>3 DEF HandlerStep
    <2>4. CASE ~Refuse(r)
      <3>1. Frame /\ Moved(r, {"capRead"}, c)
        BY <1>0, <1>e, <2>1, <2>4 DEF ReqType, Moved
      <3>2. TakesCap(r)
        BY <1>a, <1>e, <2>1, <2>2, <2>4, <3>1 DEF TakesCap
      <3> QED BY <2>1, <3>1, <3>2 DEF HandlerStep
    <2> QED BY <2>3, <2>4
  <1>11. CASE ReadVault(r)
    <2>1. /\ req[r].stage = "capRead" /\ req[r].live
          /\ Refuse(r) \/ (VaultCovers(r) /\ Goto(r, "vaultRead"))
          /\ UNCHANGED <<tables, owner>>
      BY <1>11 DEF ReadVault, At, Live
    <2>2. CASE Refuse(r)
      BY <1>f, <2>1, <2>2 DEF HandlerStep
    <2>3. CASE VaultCovers(r) /\ Goto(r, "vaultRead")
      <3>1. Frame /\ ReadsVault(r)
        BY <1>a, <1>b, <1>e, <2>1, <2>3 DEF ReadsVault
      <3> QED BY <2>1, <3>1 DEF HandlerStep
    <2> QED BY <2>1, <2>2, <2>3
  <1>12. CASE DebitVault(r)
    <2>1. Frame /\ Debits(r) /\ req[r].live
      BY <1>b, <1>12 DEF DebitVault, Debits, At, Live, auditTables, owner
    <2> QED BY <2>1 DEF HandlerStep
  <1>13. CASE ChargeCap(r)
    <2>1. Frame /\ Charges(r) /\ req[r].live
      BY <1>b, <1>13 DEF ChargeCap, CapToCharge, Charges, At, Live, auditTables, owner
    <2> QED BY <2>1 DEF HandlerStep
  <1>14. CASE RecordWithdraw(r)
    <2>1. Frame /\ WritesRow(r) /\ req[r].live
      BY <1>b, <1>14 DEF RecordWithdraw, WritesRow, At, Live, auditTables, owner
    <2> QED BY <2>1 DEF HandlerStep
  <1>15. CASE RecordSpend(r)
    <2>1. /\ req[r].stage = "settled" /\ req[r].live /\ Goto(r, "spendRecorded")
          /\ UNCHANGED <<walletTables, executions, owner>>
      BY <1>15 DEF RecordSpend, At, Live
    <2>2. Frame /\ Records(r)
      BY <1>15, <1>b, <2>1 DEF Records, walletTables, owner
    <2> QED BY <2>1, <2>2 DEF HandlerStep
  <1>16. CASE LogApproved(r)
    <2>1. /\ req[r].stage = "spendRecorded" /\ req[r].live /\ Return(r)
          /\ executions' = [executions EXCEPT ![r] = "approved"]
          /\ UNCHANGED <<walletTables, dailySpend, owner>>
      BY <1>16 DEF LogApproved, LogExecution, At, Live
    <2>2. Frame /\ Approves(r)
      BY <1>d, <2>1 DEF Approves, walletTables, owner
    <2> QED BY <2>1, <2>2 DEF HandlerStep
  <1>17. CASE Abandon(r)
    <2>1. Refuse(r) /\ UNCHANGED <<tables, owner>> /\ req[r].live
      BY <1>17 DEF Abandon, InFlight, Live
    <2> QED BY <1>f, <2>1 DEF HandlerStep
  <1> QED BY <1>1, <1>2, <1>3, <1>4, <1>5, <1>6, <1>7, <1>8, <1>9, <1>10, <1>11, <1>12,
             <1>13, <1>14, <1>15, <1>16, <1>17 DEF Handle

\* Everybody else: deposits come in, the day may change, nothing is spent.
OwnerSteps ==
    /\ UNCHANGED <<req, executions, withdrawRows, dailySpend>>
    /\ vault'.totalSpent = vault.totalSpent
    /\ vault'.balance >= vault.balance
    /\ \A c \in CapIds : /\ caps'[c].spent = caps[c].spent
                         /\ caps[c].status # "none" => caps'[c].status # "none"
    /\ day' \in {day, day + 1}

LEMMA OwnerStepsOnly ==
  ASSUME IInv, OwnerNext \/ AbandonOwner \/ NextDay \/ UNCHANGED vars
  PROVE  OwnerSteps
  <1>0. /\ vault \in [balance : Int, totalSpent : Nat, status : {"active", "paused"}]
        /\ caps \in [CapIds -> [spent : Nat, status : {"none", "active", "revoked"}]]
        /\ day \in Int
    BY DEF IInv, TypeOK
  <1>1. CASE \/ \E a \in Agents :
                  \/ PauseAgent(a) \/ ResumeAgent(a) \/ RevokeAgent(a)
                  \/ RevokeKeys(a) \/ RevokeCapabilities(a)
                  \/ \E m \in {"auto", "review"} : SetApprovalMode(a, m)
             \/ RecordDeposit \/ AbandonOwner \/ NextDay \/ UNCHANGED vars
    <2>1. /\ UNCHANGED <<req, executions, withdrawRows, dailySpend, vault, caps>>
          /\ day' \in {day, day + 1}
      BY <1>1 DEF PauseAgent, ResumeAgent, RevokeAgent, SetAgent, RevokeKeys, RevokeCapabilities,
                  SetApprovalMode, RecordDeposit, AbandonOwner, NextDay, vars, tables, owner,
                  walletTables, auditTables
    <2> QED BY <1>0, <2>1 DEF OwnerSteps
  <1>2. CASE PauseVault \/ UnpauseVault \/ \E d \in Deposits : Deposit(d)
    <2>1. /\ UNCHANGED <<req, executions, withdrawRows, dailySpend, caps, day>>
          /\ \/ vault' = [vault EXCEPT !.status = "paused"]
             \/ vault' = [vault EXCEPT !.status = "active"]
             \/ \E d \in Deposits : vault' = [vault EXCEPT !.balance = @ + d]
      BY <1>2 DEF PauseVault, UnpauseVault, Deposit, SetVault, auditTables
    <2>2. vault'.totalSpent = vault.totalSpent /\ vault'.balance >= vault.balance
      BY <1>0, <2>1, ExecutionAssumption
    <2> QED BY <1>0, <2>1, <2>2 DEF OwnerSteps
  <1>3. ASSUME NEW c \in CapIds, CreateAgentCap(c) \/ RevokeAgentCap(c)
        PROVE  OwnerSteps
    <2>1. PICK status \in {"active", "revoked"} : SetCap(c, status)
      BY <1>3 DEF CreateAgentCap, RevokeAgentCap
    <2>2. /\ caps' = [caps EXCEPT ![c].status = status]
          /\ UNCHANGED <<req, executions, withdrawRows, dailySpend, vault, day>>
      BY <2>1 DEF SetCap, auditTables
    <2>3. \A d \in CapIds : /\ caps'[d].spent = caps[d].spent
                            /\ caps[d].status # "none" => caps'[d].status # "none"
      BY <1>0, <2>2
    <2> QED BY <1>0, <2>2, <2>3 DEF OwnerSteps
  <1> QED BY <1>1, <1>2, <1>3 DEF OwnerNext

LEMMA StepsAre ==
  ASSUME IInv, [Next]_vars
  PROVE  OwnerSteps \/ \E r \in Requests : HandlerStep(r)
  BY HandlerSteps, OwnerStepsOnly DEF Next

-----------------------------------------------------------------------------
(* The books *)

AmountOf == [r \in Requests |-> req[r].amount]
ChargedTo(c) == {r \in Charged : req[r].cap = c}
SpentBy(a) == {r \in Spent : req[r].agent = a}

LEMMA AmountsAreInts ==
  ASSUME IInv
  PROVE  \A r \in Requests : AmountOf[r] = req[r].amount /\ AmountOf[r] \in Int
  BY ExecutionAssumption DEF IInv, TypeOK, ReqType, AmountOf

LEMMA AmountsStay ==
  ASSUME OwnerSteps \/ \E r \in Requests : HandlerStep(r)
  PROVE  AmountOf' = AmountOf
  <1>1. CASE OwnerSteps
    BY <1>1 DEF OwnerSteps, AmountOf
  <1>2. ASSUME NEW r \in Requests, HandlerStep(r)
        PROVE  AmountOf' = AmountOf
    <2>1. \A s \in Requests : req'[s].amount = req[s].amount
      BY <1>2 DEF HandlerStep
    <2> QED BY <2>1 DEF AmountOf
  <1> QED BY <1>1, <1>2

\* The sum over a set that stays, and over one that gets one more request.
LEMMA SumStays ==
  ASSUME AmountOf' = AmountOf, NEW rs, NEW xs, xs = rs
  PROVE  SumFunctionOnSet(AmountOf', xs) = SumFunctionOnSet(AmountOf, rs)
  BY Zenon

LEMMA SumOfOneMore ==
  ASSUME IInv, AmountOf' = AmountOf, NEW rs \in SUBSET Requests, NEW r \in Requests,
         r \notin rs, NEW xs, xs = rs \cup {r}
  PROVE  SumFunctionOnSet(AmountOf', xs) = SumFunctionOnSet(AmountOf, rs) + req[r].amount
  <1>1. SumFunctionOnSet(AmountOf, rs \cup {r}) = SumFunctionOnSet(AmountOf, rs) + AmountOf[r]
    BY AmountsAreInts, SumAdd, ExecutionAssumption
  <1>2. SumFunctionOnSet(AmountOf', xs) = SumFunctionOnSet(AmountOf, rs \cup {r})
    BY Zenon
  <1> QED BY <1>1, <1>2, AmountsAreInts

LEMMA SumsAreInts ==
  ASSUME IInv
  PROVE  \A rs \in SUBSET Requests : SumFunctionOnSet(AmountOf, rs) \in Int
  BY AmountsAreInts, SumType, ExecutionAssumption

\* Only DebitVault makes a request one that debited, only ChargeCap makes it one
\* that charged, and only RecordSpend one that is in daily_spend.
LEMMA PaidStays ==
  ASSUME IInv, NEW r \in Requests, HandlerStep(r)
  PROVE  /\ ~Debits(r) => Debited' = Debited
         /\ ~Charges(r) /\ ~Debits(r) => /\ Charged' = Charged
                                         /\ \A c \in CapIds : ChargedTo(c)' = ChargedTo(c)
         /\ ~Records(r) => /\ Spent' = Spent
                           /\ \A a \in Agents : SpentBy(a)' = SpentBy(a)
  <1>1. Consistent(r) /\ (\A s \in Requests \ {r} : req'[s] = req[s])
        /\ req'[r].agent = req[r].agent
    BY DEF IInv, HandlerStep
  <1>2. ASSUME ~Debits(r)
        PROVE  r \in Debited' <=> r \in Debited
    <2>1. CASE Stops(r)
      BY <2>1 DEF Stops, Moved, Debited
    <2>2. CASE Waits(r) \/ Passes(r) \/ Dispatches(r)
      BY <1>1, <2>2 DEF Waits, Passes, Dispatches, Moved, Debited, Consistent, Unchecked, BeforeCap
    <2>3. CASE TakesCap(r)
      BY <1>1, <2>3 DEF TakesCap, Moved, Debited, Consistent, BeforeCap
    <2>4. CASE ReadsVault(r)
      BY <2>4 DEF ReadsVault, Moved, Debited
    <2>5. CASE Charges(r) \/ WritesRow(r) \/ Records(r) \/ Approves(r)
      BY <2>5 DEF Charges, WritesRow, Records, Approves, Moved, Debited
    <2> QED BY <1>2, <2>1, <2>2, <2>3, <2>4, <2>5 DEF HandlerStep
  <1>3. ASSUME ~Debits(r), ~Charges(r)
        PROVE  /\ r \in Charged' <=> r \in Charged
               /\ r \in Charged => req'[r].cap = req[r].cap
    <2>1. CASE Stops(r)
      BY <2>1 DEF Stops, Moved, Debited, Charged
    <2>2. CASE Waits(r) \/ Passes(r) \/ Dispatches(r)
      BY <1>1, <2>2 DEF Waits, Passes, Dispatches, Moved, Debited, Charged, Consistent, Unchecked,
                        BeforeCap
    <2>3. CASE TakesCap(r)
      BY <1>1, <2>3 DEF TakesCap, Moved, Debited, Charged, Consistent, BeforeCap
    <2>4. CASE ReadsVault(r)
      BY <2>4 DEF ReadsVault, Moved, Debited, Charged
    <2>5. CASE WritesRow(r) \/ Records(r) \/ Approves(r)
      BY <2>5 DEF WritesRow, Records, Approves, Moved, Debited, Charged
    <2> QED BY <1>3, <2>1, <2>2, <2>3, <2>4, <2>5 DEF HandlerStep
  <1>4. ASSUME ~Records(r)
        PROVE  /\ r \in Spent' <=> r \in Spent
               /\ \A s \in Requests \ {r} :
                     executions'[s] = "approved" <=> executions[s] = "approved"
    <2>1. CASE Stops(r)
      BY <2>1 DEF Stops, Moved, MoneyUntouched, Spent
    <2>2. CASE Waits(r) \/ Passes(r) \/ Dispatches(r)
      BY <2>2 DEF Waits, Passes, Dispatches, Moved, MoneyUntouched, Spent, Unchecked
    <2>3. CASE TakesCap(r) \/ ReadsVault(r)
      BY <2>3 DEF TakesCap, ReadsVault, Moved, MoneyUntouched, Spent
    <2>4. CASE Debits(r) \/ Charges(r) \/ WritesRow(r)
      BY <2>4 DEF Debits, Charges, WritesRow, Moved, Spent
    <2>5. CASE Approves(r)
      BY <2>5 DEF Approves, Moved, Spent, IInv, TypeOK
    <2> QED BY <1>4, <2>1, <2>2, <2>3, <2>4, <2>5 DEF HandlerStep
  <1>5. ~Debits(r) => Debited' = Debited
    BY <1>1, <1>2 DEF Debited
  <1>6. ASSUME ~Charges(r), ~Debits(r)
        PROVE  Charged' = Charged /\ \A c \in CapIds : ChargedTo(c)' = ChargedTo(c)
    <2>1. \A s \in Requests : s \in Charged' <=> s \in Charged
      BY <1>1, <1>3, <1>6 DEF Charged, Debited
    <2>2. \A s \in Charged : req'[s].cap = req[s].cap
      BY <1>1, <1>3, <1>6 DEF Charged, Debited
    <2>3. Charged' \subseteq Requests /\ Charged \subseteq Requests
      BY DEF Charged, Debited
    <2>4. Charged' = Charged
      BY <2>1, <2>3
    <2> QED BY <2>2, <2>4 DEF ChargedTo
  <1>7. ASSUME ~Records(r)
        PROVE  Spent' = Spent /\ \A a \in Agents : SpentBy(a)' = SpentBy(a)
    <2>1. \A s \in Requests : s \in Spent' <=> s \in Spent
      BY <1>1, <1>4, <1>7 DEF Spent
    <2>2. \A s \in Requests : req'[s].agent = req[s].agent
      BY <1>1
    <2>3. Spent' \subseteq Requests /\ Spent \subseteq Requests
      BY DEF Spent
    <2>4. Spent' = Spent
      BY <2>1, <2>3
    <2> QED BY <2>2, <2>3, <2>4 DEF SpentBy
  <1> QED BY <1>5, <1>6, <1>7

\* DebitVault and ChargeCap add their own request.
LEMMA PaidGrows ==
  ASSUME IInv, NEW r \in Requests, HandlerStep(r)
  PROVE  /\ Debits(r) => /\ r \notin Debited /\ Debited' = Debited \cup {r}
                         /\ Charged' = Charged
                         /\ \A c \in CapIds : ChargedTo(c)' = ChargedTo(c)
         /\ Charges(r) => /\ r \notin Charged /\ Charged' = Charged \cup {r}
                          /\ req[r].cap \in CapIds
                          /\ \A c \in CapIds :
                                ChargedTo(c)' = IF c = req[r].cap THEN ChargedTo(c) \cup {r}
                                                                  ELSE ChargedTo(c)
         /\ Records(r) => /\ r \notin Spent
                          /\ \A a \in Agents :
                                SpentBy(a)' = IF a = req[r].agent THEN SpentBy(a) \cup {r}
                                                                  ELSE SpentBy(a)
  <1>1. Consistent(r) /\ (\A s \in Requests \ {r} : req'[s] = req[s])
        /\ req'[r].agent = req[r].agent /\ req[r].cap \in CapIds \cup {NoCap}
    BY DEF IInv, TypeOK, ReqType, HandlerStep
  <1>2. CASE Debits(r)
    <2>1. req[r].stage = "vaultRead" /\ req'[r].stage = "debited" /\ req'[r].cap = req[r].cap
          /\ req[r].cap # NoCap
      BY <1>1, <1>2 DEF Debits, Moved, Consistent, Paying
    <2>2. r \notin Debited /\ Debited' = Debited \cup {r}
      BY <1>1, <2>1 DEF Debited
    <2>3. Charged' = Charged /\ r \notin Charged
      BY <1>1, <2>1 DEF Debited, Charged
    <2>4. Charged \subseteq Requests
      BY DEF Charged, Debited
    <2>5. \A c \in CapIds : ChargedTo(c)' = ChargedTo(c)
      BY <1>1, <2>3, <2>4 DEF ChargedTo
    <2> QED BY <1>2, <2>1, <2>2, <2>3, <2>5 DEF Debits, Charges, Records
  <1>3. CASE Charges(r)
    <2>1. req[r].stage = "debited" /\ req'[r].stage = "capCharged" /\ req'[r].cap = req[r].cap
          /\ req[r].cap # NoCap
      BY <1>1, <1>3 DEF Charges, Moved, Consistent, Paying
    <2>2. r \notin Charged /\ Charged' = Charged \cup {r}
      BY <1>1, <2>1 DEF Debited, Charged
    <2>3. \A s \in Requests : req'[s].cap = req[s].cap
      BY <1>1, <2>1
    <2>4. Charged \subseteq Requests
      BY DEF Charged, Debited
    <2>5. \A c \in CapIds : c = req[r].cap => ChargedTo(c)' = ChargedTo(c) \cup {r}
      BY <2>2, <2>3, <2>4 DEF ChargedTo
    <2>6. \A c \in CapIds : c # req[r].cap => ChargedTo(c)' = ChargedTo(c)
      BY <2>2, <2>3, <2>4 DEF ChargedTo
    <2> QED BY <1>1, <1>3, <2>1, <2>2, <2>5, <2>6 DEF Debits, Charges, Records
  <1>4. CASE Records(r)
    <2>1. req[r].stage = "settled" /\ req'[r].stage = "spendRecorded" /\ executions' = executions
          /\ executions[r] = "none"
      BY <1>1, <1>4 DEF Records, Moved, Consistent, IInv, TypeOK
    <2>2. r \notin Spent /\ Spent' = Spent \cup {r}
      BY <1>1, <2>1 DEF Spent
    <2>3. \A s \in Requests : req'[s].agent = req[s].agent
      BY <1>1
    <2>4. Spent \subseteq Requests
      BY DEF Spent
    <2>5. \A a \in Agents : a = req[r].agent => SpentBy(a)' = SpentBy(a) \cup {r}
      BY <2>2, <2>3, <2>4 DEF SpentBy
    <2>6. \A a \in Agents : a # req[r].agent => SpentBy(a)' = SpentBy(a)
      BY <2>2, <2>3, <2>4 DEF SpentBy
    <2> QED BY <1>4, <2>1, <2>2, <2>5, <2>6 DEF Debits, Charges, Records
  <1> QED BY <1>2, <1>3, <1>4

\* When only the owner, the day or nobody moves.
LEMMA NobodyPays ==
  ASSUME OwnerSteps
  PROVE  /\ Debited' = Debited /\ Charged' = Charged /\ Spent' = Spent
         /\ \A c \in CapIds : ChargedTo(c)' = ChargedTo(c)
         /\ \A a \in Agents : SpentBy(a)' = SpentBy(a)
  BY DEF OwnerSteps, Debited, Charged, Spent, ChargedTo, SpentBy

VaultBook == vault.totalSpent = SumFunctionOnSet(AmountOf, Debited)
CapBook == \A c \in CapIds : caps[c].spent = SumFunctionOnSet(AmountOf, ChargedTo(c))
RowBook ==
    /\ withdrawRows \subseteq Charged
    /\ \A r \in Charged \ withdrawRows : req[r].stage = "capCharged"

LEMMA SetsOfRequests ==
  /\ Debited \in SUBSET Requests /\ Charged \in SUBSET Requests
  /\ \A c : ChargedTo(c) \in SUBSET Requests
  /\ \A a : SpentBy(a) \in SUBSET Requests
  BY DEF Debited, Charged, ChargedTo, Spent, SpentBy

LEMMA VaultBookStep ==
  ASSUME IInv, VaultBook, [Next]_vars
  PROVE  VaultBook'
  <1>0. AmountOf' = AmountOf
    BY StepsAre, AmountsStay
  <1>1. CASE OwnerSteps
    <2>1. SumFunctionOnSet(AmountOf', Debited') = SumFunctionOnSet(AmountOf, Debited)
      BY <1>0, <1>1, NobodyPays, SumStays
    <2> QED BY <1>1, <2>1 DEF VaultBook, OwnerSteps
  <1>2. ASSUME NEW r \in Requests, HandlerStep(r), Debits(r)
        PROVE  VaultBook'
    <2>1. r \notin Debited /\ Debited' = Debited \cup {r} /\ Debited \in SUBSET Requests
      BY <1>2, PaidGrows, SetsOfRequests
    <2>2. SumFunctionOnSet(AmountOf', Debited')
            = SumFunctionOnSet(AmountOf, Debited) + req[r].amount
      BY <1>0, <2>1, SumOfOneMore
    <2>3. vault'.totalSpent = vault.totalSpent + req[r].amount
      BY <1>2 DEF Debits, DebitedVault, IInv, TypeOK
    <2> QED BY <2>2, <2>3 DEF VaultBook
  <1>3. ASSUME NEW r \in Requests, HandlerStep(r), ~Debits(r)
        PROVE  VaultBook'
    <2>1. SumFunctionOnSet(AmountOf', Debited') = SumFunctionOnSet(AmountOf, Debited)
      BY <1>0, <1>3, PaidStays, SumStays
    <2>2. vault' = vault
      BY <1>3 DEF HandlerStep, Stops, Waits, Passes, Dispatches, TakesCap, ReadsVault,
                  MoneyUntouched, Charges, WritesRow, Records, Approves
    <2> QED BY <2>1, <2>2 DEF VaultBook
  <1> QED BY <1>1, <1>2, <1>3, StepsAre

LEMMA CapBookStep ==
  ASSUME IInv, CapBook, [Next]_vars
  PROVE  CapBook'
  <1> SUFFICES ASSUME NEW c \in CapIds
               PROVE  caps'[c].spent = SumFunctionOnSet(AmountOf', ChargedTo(c)')
    BY DEF CapBook
  <1>0. /\ AmountOf' = AmountOf
        /\ caps[c].spent = SumFunctionOnSet(AmountOf, ChargedTo(c))
        /\ caps \in [CapIds -> [spent : Nat, status : {"none", "active", "revoked"}]]
    BY StepsAre, AmountsStay DEF CapBook, IInv, TypeOK
  <1>1. CASE OwnerSteps
    <2>1. SumFunctionOnSet(AmountOf', ChargedTo(c)') = SumFunctionOnSet(AmountOf, ChargedTo(c))
      BY <1>0, <1>1, NobodyPays, SumStays
    <2> QED BY <1>0, <1>1, <2>1 DEF OwnerSteps
  <1>2. ASSUME NEW r \in Requests, HandlerStep(r), Charges(r)
        PROVE  caps'[c].spent = SumFunctionOnSet(AmountOf', ChargedTo(c)')
    <2>0. /\ r \notin ChargedTo(c) /\ ChargedTo(c) \in SUBSET Requests
          /\ caps' = [caps EXCEPT ![req[r].cap].spent = @ + req[r].amount]
      BY <1>2, PaidGrows, SetsOfRequests DEF ChargedTo, Charges
    <2>1. CASE c = req[r].cap
      <3>1. ChargedTo(c)' = ChargedTo(c) \cup {r}
        BY <1>2, <2>1, PaidGrows
      <3>2. SumFunctionOnSet(AmountOf', ChargedTo(c)')
              = SumFunctionOnSet(AmountOf, ChargedTo(c)) + req[r].amount
        BY <1>0, <2>0, <3>1, SumOfOneMore
      <3>3. caps'[c].spent = caps[c].spent + req[r].amount
        BY <1>0, <2>0, <2>1
      <3> QED BY <1>0, <3>2, <3>3
    <2>2. CASE c # req[r].cap
      <3>1. SumFunctionOnSet(AmountOf', ChargedTo(c)') = SumFunctionOnSet(AmountOf, ChargedTo(c))
        BY <1>0, <1>2, <2>2, PaidGrows, SumStays
      <3>2. caps'[c] = caps[c]
        BY <1>0, <2>0, <2>2
      <3> QED BY <1>0, <3>1, <3>2
    <2> QED BY <2>1, <2>2
  <1>3. ASSUME NEW r \in Requests, HandlerStep(r), ~Charges(r)
        PROVE  caps'[c].spent = SumFunctionOnSet(AmountOf', ChargedTo(c)')
    <2>1. ChargedTo(c)' = ChargedTo(c)
      BY <1>3, PaidStays, PaidGrows
    <2>2. SumFunctionOnSet(AmountOf', ChargedTo(c)') = SumFunctionOnSet(AmountOf, ChargedTo(c))
      BY <1>0, <2>1, SumStays
    <2>3. caps' = caps
      BY <1>3 DEF HandlerStep, Stops, Waits, Passes, Dispatches, TakesCap, ReadsVault,
                  MoneyUntouched, Debits, WritesRow, Records, Approves
    <2> QED BY <1>0, <2>2, <2>3
  <1> QED BY <1>1, <1>2, <1>3, StepsAre

LEMMA RowBookStep ==
  ASSUME IInv, RowBook, [Next]_vars
  PROVE  RowBook'
  <1>1. CASE OwnerSteps
    BY <1>1, NobodyPays DEF RowBook, OwnerSteps
  <1>2. ASSUME NEW r \in Requests, HandlerStep(r)
        PROVE  RowBook'
    <2>0. /\ \A s \in Requests \ {r} : req'[s] = req[s]
          /\ Charged \subseteq Requests /\ Consistent(r)
      BY <1>2, SetsOfRequests DEF HandlerStep, IInv
    <2>1. CASE Charges(r)
      <3>1. /\ Charged' = Charged \cup {r} /\ withdrawRows' = withdrawRows
            /\ req'[r].stage = "capCharged"
        BY <1>2, <2>1, PaidGrows DEF Charges, Moved
      <3> QED BY <2>0, <3>1 DEF RowBook
    <2>2. CASE ~Charges(r)
      <3>1. Charged' = Charged
        BY <1>2, <2>2, PaidStays, PaidGrows
      <3>2. CASE WritesRow(r)
        <4>1. r \in Charged /\ withdrawRows' = withdrawRows \cup {r}
          BY <2>0, <3>2 DEF WritesRow, Charged, Debited, Consistent, Paying
        <4> QED BY <2>0, <3>1, <4>1 DEF RowBook
      <3>3. CASE ~WritesRow(r)
        <4>1. withdrawRows' = withdrawRows
          BY <1>2, <2>2, <3>3
          DEF HandlerStep, Stops, Waits, Passes, Dispatches, TakesCap, ReadsVault,
              MoneyUntouched, Debits, Records, Approves
        <4>2. req[r].stage = "capCharged" => req'[r].stage = "capCharged"
          BY <1>2, <2>2, <3>3
          DEF HandlerStep, Stops, Waits, Passes, Dispatches, TakesCap, ReadsVault,
              Debits, Records, Approves, Moved, Unchecked
        <4> QED BY <2>0, <3>1, <4>1, <4>2 DEF RowBook
      <3> QED BY <3>2, <3>3
    <2> QED BY <2>1, <2>2
  <1> QED BY <1>1, <1>2, StepsAre

LEMMA BooksAtStart ==
  ASSUME Init
  PROVE  /\ VaultBook /\ CapBook /\ RowBook
         /\ \A a \in Agents : SpentBy(a) = {}
  <1>1. \A r \in Requests : req[r].stage = "new" /\ req[r].cap = NoCap /\ executions[r] = "none"
    BY DEF Init
  <1>2. Debited = {} /\ Charged = {} /\ Spent = {}
    BY <1>1 DEF Debited, Charged, Spent
  <1>3. \A c : ChargedTo(c) = {}
    BY <1>2 DEF ChargedTo
  <1>4. VaultBook
    <2>1. SumFunctionOnSet(AmountOf, Debited) = SumFunctionOnSet(AmountOf, {})
      BY <1>2, Zenon
    <2>2. vault.totalSpent = 0
      BY DEF Init
    <2> QED BY <2>1, <2>2, SumEmpty DEF VaultBook
  <1>5. CapBook
    <2> SUFFICES ASSUME NEW c \in CapIds
                 PROVE  caps[c].spent = SumFunctionOnSet(AmountOf, ChargedTo(c))
      BY DEF CapBook
    <2>1. SumFunctionOnSet(AmountOf, ChargedTo(c)) = SumFunctionOnSet(AmountOf, {})
      BY <1>3, Zenon
    <2>2. caps[c].spent = 0
      BY DEF Init
    <2> QED BY <2>1, <2>2, SumEmpty
  <1> QED BY <1>2, <1>4, <1>5 DEF RowBook, Init, SpentBy

\* vaults.total_spent, agent_caps.spent and the withdraw rows agree, for any
\* number of requests in flight or abandoned at any statement.
THEOREM BooksAlwaysAgree == Spec => []BooksAgree
  <1> DEFINE Books == VaultBook /\ CapBook /\ RowBook
  <1>1. Init => Books
    BY BooksAtStart
  <1>2. IInv /\ Books /\ [Next]_vars => Books'
    BY VaultBookStep, CapBookStep, RowBookStep
  <1>3. Books /\ DepositsCoverBalance => BooksAgree
    BY DEF BooksAgree, VaultBook, CapBook, RowBook, AmountOf, ChargedTo, Sum
  <1> QED BY <1>1, <1>2, <1>3, ExecutionInvariant, DepositsAreKept, PTL DEF Spec

DayBook ==
    \A a \in Agents :
        SumFunctionOnSet(dailySpend[a], 1 .. MaxDay) = SumFunctionOnSet(AmountOf, SpentBy(a))

LEMMA DayBookStep ==
  ASSUME IInv, DayBook, [Next]_vars
  PROVE  DayBook'
  <1> SUFFICES ASSUME NEW a \in Agents
               PROVE  SumFunctionOnSet(dailySpend'[a], 1 .. MaxDay)
                        = SumFunctionOnSet(AmountOf', SpentBy(a)')
    BY DEF DayBook
  <1>0. /\ AmountOf' = AmountOf
        /\ SumFunctionOnSet(dailySpend[a], 1 .. MaxDay) = SumFunctionOnSet(AmountOf, SpentBy(a))
        /\ dailySpend \in [Agents -> [1 .. MaxDay -> Int]]
        /\ day \in 1 .. MaxDay
    BY StepsAre, AmountsStay DEF DayBook, IInv, TypeOK
  <1>1. CASE OwnerSteps
    <2>1. SumFunctionOnSet(AmountOf', SpentBy(a)') = SumFunctionOnSet(AmountOf, SpentBy(a))
      BY <1>0, <1>1, NobodyPays, SumStays
    <2>2. dailySpend' = dailySpend
      BY <1>1 DEF OwnerSteps
    <2> QED BY <1>0, <2>1, <2>2
  <1>2. ASSUME NEW r \in Requests, HandlerStep(r), ~Records(r)
        PROVE  SumFunctionOnSet(dailySpend'[a], 1 .. MaxDay)
                 = SumFunctionOnSet(AmountOf', SpentBy(a)')
    <2>1. SumFunctionOnSet(AmountOf', SpentBy(a)') = SumFunctionOnSet(AmountOf, SpentBy(a))
      BY <1>0, <1>2, PaidStays, SumStays
    <2>2. dailySpend' = dailySpend
      BY <1>2 DEF HandlerStep, Stops, Waits, Passes, Dispatches, TakesCap, ReadsVault,
                  MoneyUntouched, Debits, Charges, WritesRow, Approves
    <2> QED BY <1>0, <2>1, <2>2
  <1>3. ASSUME NEW r \in Requests, HandlerStep(r), Records(r)
        PROVE  SumFunctionOnSet(dailySpend'[a], 1 .. MaxDay)
                 = SumFunctionOnSet(AmountOf', SpentBy(a)')
    <2>1. dailySpend' = [dailySpend EXCEPT ![req[r].agent][day] =
                             dailySpend[req[r].agent][day] + req[r].amount]
      BY <1>3 DEF Records, RecordSpend, SpendAfter
    <2>2. CASE a # req[r].agent
      <3>1. SumFunctionOnSet(AmountOf', SpentBy(a)') = SumFunctionOnSet(AmountOf, SpentBy(a))
        BY <1>0, <1>3, <2>2, PaidGrows, SumStays
      <3>2. dailySpend'[a] = dailySpend[a]
        BY <1>0, <2>1, <2>2
      <3> QED BY <1>0, <3>1, <3>2
    <2>3. CASE a = req[r].agent
      <3>1. r \notin SpentBy(a) /\ SpentBy(a) \in SUBSET Requests
        BY <1>3, PaidGrows, SetsOfRequests DEF SpentBy
      <3>a. SpentBy(a)' = SpentBy(a) \cup {r}
        BY <1>3, <2>3, PaidGrows
      <3>2. SumFunctionOnSet(AmountOf', SpentBy(a)')
              = SumFunctionOnSet(AmountOf, SpentBy(a)) + req[r].amount
        BY <1>0, <3>1, <3>a, SumOfOneMore
      <3> DEFINE old == dailySpend[a]
                 new == dailySpend'[a]
                 D == 1 .. MaxDay
      <3>3. IsFiniteSet(D)
        BY ExecutionAssumption, FS_Interval
      <3>4. (\A d \in D : old[d] \in Int) /\ day \in D /\ req[r].amount \in Int
        BY <1>0, AmountsAreInts
      <3>5. (\A d \in D \ {day} : new[d] = old[d]) /\ new[day] = old[day] + req[r].amount
        BY <1>0, <2>1, <2>3
      <3>6. new[day] \in Int
        BY <3>4, <3>5
      <3> HIDE DEF old, new, D
      <3>7. SumFunctionOnSet(new, D) = SumFunctionOnSet(old, D) + new[day] - old[day]
        BY <3>3, <3>4, <3>5, <3>6, SumUpdate
      <3>8. SumFunctionOnSet(old, D) \in Int /\ old[day] \in Int
        BY <3>3, <3>4, SumType
      <3>9. SumFunctionOnSet(new, D) = SumFunctionOnSet(old, D) + req[r].amount
        BY <3>4, <3>5, <3>7, <3>8
      <3> QED BY <1>0, <3>2, <3>9 DEF old, new, D
    <2> QED BY <2>2, <2>3
  <1> QED BY <1>1, <1>2, <1>3, StepsAre

LEMMA DaysAtStart == Init => DayBook
  <1> SUFFICES ASSUME Init, NEW a \in Agents
               PROVE  SumFunctionOnSet(dailySpend[a], 1 .. MaxDay)
                        = SumFunctionOnSet(AmountOf, SpentBy(a))
    BY DEF DayBook
  <1> DEFINE row == dailySpend[a]
             D == 1 .. MaxDay
  <1>1. \A d \in D : row[d] = 0
    BY DEF Init
  <1>2. IsFiniteSet(D) /\ Cardinality(D) \in Nat
    BY ExecutionAssumption, FS_Interval, FS_CardinalityType
  <1> HIDE DEF row, D
  <1>3. SumFunctionOnSet(row, D) \in Nat
    BY <1>1, <1>2, SumMonotone
  <1>4. SumFunctionOnSet(row, D) <= Cardinality(D) * 0
    BY <1>1, <1>2, SumBounded
  <1>5. SumFunctionOnSet(row, D) = 0
    BY <1>2, <1>3, <1>4
  <1>6. SumFunctionOnSet(AmountOf, SpentBy(a)) = SumFunctionOnSet(AmountOf, {})
    BY BooksAtStart, Zenon
  <1> QED BY <1>5, <1>6, SumEmpty DEF row, D

\* daily_spend, added up over the days, is what the requests that got past
\* record_spend asked for: midnight between two statements moves a spend to the
\* next day and loses none.
THEOREM SpendRowsAlwaysAddUp == Spec => []SpendRowsAddUp
  <1>1. IInv /\ DayBook /\ [Next]_vars => DayBook'
    BY DayBookStep
  <1>2. DayBook => SpendRowsAddUp
    BY DEF DayBook, SpendRowsAddUp, SpentBy, Sum, AmountOf
  <1> QED BY <1>1, <1>2, DaysAtStart, ExecutionInvariant, PTL DEF Spec

-----------------------------------------------------------------------------
(* How far requests that run together can overrun the limits.  A request that *)
(* passed a check and has not been booked yet already counts: with it, what is *)
(* booked exceeds the limit by at most what the others in flight ask for.      *)

\* A request with a negative amount makes room for nobody's check.
WeightOf == [r \in Requests |-> IF req[r].amount > 0 THEN req[r].amount ELSE 0]

ClearedStages ==
    {"allowed", "withdrawing", "capRead", "vaultRead", "debited", "capCharged", "settled"}

DueToVault == {r \in Requests : At(r, "vaultRead")}
DueToCap(c) ==
    {r \in Requests : Live(r) /\ req[r].cap = c /\ req[r].stage \in {"capRead", "vaultRead", "debited"}}
DueToDay(a) == {r \in Requests : Live(r) /\ req[r].agent = a /\ req[r].stage \in ClearedStages}

FewInFlight == Cardinality(InFlight) <= MaxInFlight

AmountsAreChecked ==
    \A r \in Requests :
        /\ req[r].stage \in Paying => req[r].amount <= MaxPerTx
        /\ req[r].stage \in ClearedStages => req[r].amount <= MaxTx

VaultRoom ==
    LET due == SumFunctionOnSet(WeightOf, DueToVault) IN
    /\ vault.totalSpent + due <= Budget + (MaxInFlight - 1) * MaxPerTx
    /\ vault.balance + (MaxInFlight - 1) * MaxPerTx >= due

CapRoom ==
    \A c \in CapIds :
        caps[c].spent + SumFunctionOnSet(WeightOf, DueToCap(c))
            <= CapLimit + (MaxInFlight - 1) * MaxPerTx

DaysToCome ==
    \A a \in Agents : \A d \in 1 .. MaxDay :
        /\ d > day => dailySpend[a][d] = 0
        /\ (\A x \in Amounts : x >= 0) => dailySpend[a][d] >= 0

DaysRoom ==
    \A a \in Agents :
        /\ dailySpend[a][day] + SumFunctionOnSet(WeightOf, DueToDay(a))
               <= DayRoom + (MaxInFlight - 1) * MaxTx
        /\ \A d \in 1 .. MaxDay : dailySpend[a][d] <= DayRoom + (MaxInFlight - 1) * MaxTx

RoomInv == FewInFlight /\ AmountsAreChecked /\ VaultRoom /\ CapRoom /\ DaysToCome /\ DaysRoom
-----------------------------------------------------------------------------

LEMMA WeightsAre ==
  ASSUME IInv
  PROVE  \A r \in Requests :
            /\ WeightOf[r] \in Nat /\ req[r].amount \in Int /\ WeightOf[r] >= req[r].amount
            /\ WeightOf[r] = IF req[r].amount > 0 THEN req[r].amount ELSE 0
  BY AmountsAreInts DEF WeightOf

LEMMA WeightsStay ==
  ASSUME OwnerSteps \/ \E r \in Requests : HandlerStep(r)
  PROVE  WeightOf' = WeightOf
  <1>1. CASE OwnerSteps
    BY <1>1 DEF OwnerSteps, WeightOf
  <1>2. ASSUME NEW r \in Requests, HandlerStep(r)
        PROVE  WeightOf' = WeightOf
    <2>1. \A s \in Requests : req'[s].amount = req[s].amount
      BY <1>2 DEF HandlerStep
    <2> QED BY <2>1 DEF WeightOf
  <1> QED BY <1>1, <1>2

\* What is due from fewer requests is less.
LEMMA DueShrinks ==
  ASSUME IInv, WeightOf' = WeightOf, NEW P \in SUBSET Requests, NEW Q \in SUBSET P
  PROVE  /\ SumFunctionOnSet(WeightOf', Q) \in Nat
         /\ SumFunctionOnSet(WeightOf, P) \in Nat
         /\ SumFunctionOnSet(WeightOf', Q) <= SumFunctionOnSet(WeightOf, P)
  <1>1. IsFiniteSet(P) /\ \A x \in P : WeightOf[x] \in Nat
    BY WeightsAre, FS_Subset, ExecutionAssumption
  <1>2. /\ SumFunctionOnSet(WeightOf, Q) \in Nat
        /\ SumFunctionOnSet(WeightOf, P) \in Nat
        /\ SumFunctionOnSet(WeightOf, Q) <= SumFunctionOnSet(WeightOf, P)
    BY <1>1, SumMonotone
  <1>3. SumFunctionOnSet(WeightOf', Q) = SumFunctionOnSet(WeightOf, Q)
    BY Zenon
  <1> QED BY <1>2, <1>3

\* A request that is booked is not due any longer.
LEMMA DueIsPaid ==
  ASSUME IInv, WeightOf' = WeightOf, NEW P \in SUBSET Requests, NEW r \in P,
         NEW Q \in SUBSET (P \ {r})
  PROVE  /\ SumFunctionOnSet(WeightOf', Q) \in Nat
         /\ SumFunctionOnSet(WeightOf, P) \in Nat
         /\ SumFunctionOnSet(WeightOf', Q) + WeightOf[r] <= SumFunctionOnSet(WeightOf, P)
  <1>1. /\ SumFunctionOnSet(WeightOf', Q) \in Nat
        /\ SumFunctionOnSet(WeightOf', Q) <= SumFunctionOnSet(WeightOf, P \ {r})
        /\ SumFunctionOnSet(WeightOf, P \ {r}) \in Nat
    <2>1. P \ {r} \in SUBSET Requests
      OBVIOUS
    <2> QED BY <2>1, DueShrinks
  <1>2. SumFunctionOnSet(WeightOf, P) = WeightOf[r] + SumFunctionOnSet(WeightOf, P \ {r})
    <2>1. \A x \in Requests : WeightOf[x] \in Int
      BY WeightsAre
    <2> QED BY <2>1, SumRemove, ExecutionAssumption
  <1> QED BY <1>1, <1>2, WeightsAre

\* A request that passes a check finds at most one transaction due for each of
\* the others in flight.
LEMMA DueIsBounded ==
  ASSUME IInv, FewInFlight, WeightOf' = WeightOf, NEW r \in InFlight, NEW M \in Nat,
         NEW P \in SUBSET (InFlight \ {r}), \A x \in P : req[x].amount <= M,
         NEW Q \in SUBSET (P \cup {r})
  PROVE  /\ SumFunctionOnSet(WeightOf', Q) \in Nat
         /\ SumFunctionOnSet(WeightOf', Q) <= WeightOf[r] + (MaxInFlight - 1) * M
  <1>0. InFlight \in SUBSET Requests /\ IsFiniteSet(InFlight)
    BY FS_Subset, ExecutionAssumption DEF InFlight
  <1>1. Cardinality(P) <= MaxInFlight - 1 /\ IsFiniteSet(P) /\ MaxInFlight - 1 \in Nat
    <2>1. Cardinality(InFlight \ {r}) = Cardinality(InFlight) - 1 /\ IsFiniteSet(InFlight \ {r})
      BY <1>0, FS_RemoveElement
    <2>2. IsFiniteSet(P) /\ Cardinality(P) <= Cardinality(InFlight \ {r})
      BY <2>1, FS_Subset
    <2>3. Cardinality(P) \in Nat /\ Cardinality(InFlight) \in Nat
      BY <1>0, <2>2, FS_CardinalityType
    <2> QED BY <2>1, <2>2, <2>3, ExecutionAssumption DEF FewInFlight
  <1>2. \A x \in P : WeightOf[x] \in Int /\ WeightOf[x] <= M
    BY <1>0, WeightsAre
  <1>3. SumFunctionOnSet(WeightOf, P) <= (MaxInFlight - 1) * M
    <2> DEFINE n == MaxInFlight - 1
    <2>1. n \in Nat /\ Cardinality(P) <= n
      BY <1>1
    <2> HIDE DEF n
    <2>2. SumFunctionOnSet(WeightOf, P) <= n * M
      BY <1>1, <1>2, <2>1, SumBounded
    <2> QED BY <2>2 DEF n
  <1>4. SumFunctionOnSet(WeightOf, P \cup {r}) = SumFunctionOnSet(WeightOf, P) + WeightOf[r]
    <2>1. \A x \in Requests : WeightOf[x] \in Int
      BY WeightsAre
    <2>2. P \in SUBSET Requests /\ r \in Requests /\ r \notin P
      BY <1>0
    <2> QED BY <2>1, <2>2, SumAdd, ExecutionAssumption
  <1>5. /\ SumFunctionOnSet(WeightOf', Q) \in Nat
        /\ SumFunctionOnSet(WeightOf', Q) <= SumFunctionOnSet(WeightOf, P \cup {r})
    <2>1. P \cup {r} \in SUBSET Requests
      BY <1>0
    <2> QED BY <2>1, DueShrinks
  <1>6. SumFunctionOnSet(WeightOf, P) \in Int /\ WeightOf[r] \in Int
    <2>1. P \in SUBSET Requests /\ P \in SUBSET P
      BY <1>0
    <2> QED BY <1>0, <2>1, DueShrinks, WeightsAre
  <1>7. (MaxInFlight - 1) * M \in Int
    BY <1>1
  <1> QED BY <1>3, <1>4, <1>5, <1>6, <1>7

-----------------------------------------------------------------------------
(* Who becomes due, and until when *)

LEMMA DueAre ==
  /\ DueToVault \in SUBSET InFlight
  /\ \A c : DueToCap(c) \in SUBSET InFlight
  /\ \A a : DueToDay(a) \in SUBSET InFlight
  /\ InFlight \in SUBSET Requests
  BY DEF DueToVault, DueToCap, DueToDay, InFlight, At, Live, ClearedStages

LEMMA FlightStep ==
  ASSUME IInv, FewInFlight, [Next]_vars
  PROVE  FewInFlight'
  <1>0. IsFiniteSet(InFlight) /\ InFlight \in SUBSET Requests
    BY FS_Subset, ExecutionAssumption DEF InFlight
  <1>1. CASE OwnerSteps
    <2>1. InFlight' = InFlight
      BY <1>1 DEF OwnerSteps, InFlight, Live
    <2> QED BY <2>1 DEF FewInFlight
  <1>2. ASSUME NEW r \in Requests, HandlerStep(r)
        PROVE  FewInFlight'
    <2>1. PICK F : /\ F \in {InFlight, InFlight \cup {r}} /\ InFlight' \in SUBSET F
                   /\ F # InFlight => Cardinality(InFlight) < MaxInFlight
      <3>1. CASE Stops(r) \/ req[r].stage # "new"
        <4>1. InFlight' \in SUBSET InFlight
          BY <1>2, <3>1 DEF HandlerStep, InFlight, Live, Stops
        <4> QED BY <4>1
      <3>2. CASE ~Stops(r) /\ req[r].stage = "new"
        <4>1. Cardinality(InFlight) < MaxInFlight
          BY <1>2, <3>2 DEF HandlerStep, Waits, Passes, Dispatches, TakesCap, ReadsVault,
                            Debits, Charges, WritesRow, Records, Approves
        <4>2. InFlight' \in SUBSET (InFlight \cup {r})
          BY <1>2 DEF HandlerStep, InFlight, Live
        <4> QED BY <4>1, <4>2
      <3> QED BY <3>1, <3>2
    <2>2. IsFiniteSet(F) /\ Cardinality(F) <= MaxInFlight
      <3>1. /\ IsFiniteSet(InFlight \cup {r})
            /\ Cardinality(InFlight \cup {r}) \in {Cardinality(InFlight),
                                                   Cardinality(InFlight) + 1}
        BY <1>0, FS_AddElement
      <3>2. Cardinality(InFlight) \in Nat /\ MaxInFlight \in Nat
        BY <1>0, FS_CardinalityType, ExecutionAssumption
      <3>3. CASE F = InFlight
        BY <1>0, <3>3 DEF FewInFlight
      <3>4. CASE F = InFlight \cup {r} /\ F # InFlight
        BY <2>1, <3>1, <3>2, <3>4
      <3> QED BY <2>1, <3>3, <3>4
    <2>3. /\ Cardinality(InFlight') <= Cardinality(F)
          /\ Cardinality(InFlight') \in Nat /\ Cardinality(F) \in Nat /\ MaxInFlight \in Nat
      BY <2>1, <2>2, FS_Subset, FS_CardinalityType, ExecutionAssumption
    <2> QED BY <2>2, <2>3 DEF FewInFlight
  <1> QED BY <1>1, <1>2, StepsAre

LEMMA CheckedStep ==
  ASSUME IInv, AmountsAreChecked, [Next]_vars
  PROVE  AmountsAreChecked'
  <1>1. CASE OwnerSteps
    BY <1>1 DEF OwnerSteps, AmountsAreChecked
  <1>2. ASSUME NEW r \in Requests, HandlerStep(r)
        PROVE  AmountsAreChecked'
    <2>0. /\ \A s \in Requests \ {r} : req'[s] = req[s]
          /\ req'[r].amount = req[r].amount
          /\ req[r].stage \in Paying => req[r].amount <= MaxPerTx
          /\ req[r].stage \in ClearedStages => req[r].amount <= MaxTx
      BY <1>2 DEF HandlerStep, AmountsAreChecked
    <2>1. /\ req'[r].stage \in Paying => req[r].amount <= MaxPerTx
          /\ req'[r].stage \in ClearedStages => req[r].amount <= MaxTx
      <3> USE <2>0 DEF Moved, Paying, ClearedStages
      <3>1. CASE Stops(r)
        BY <3>1 DEF Stops
      <3>2. CASE Waits(r)
        BY <3>2 DEF Waits, Unchecked
      <3>3. CASE Passes(r)
        BY <3>3 DEF Passes, FirewallAllows
      <3>4. CASE Dispatches(r) \/ TakesCap(r) \/ ReadsVault(r)
        BY <3>4 DEF Dispatches, TakesCap, ReadsVault
      <3>5. CASE Debits(r) \/ Charges(r) \/ WritesRow(r) \/ Records(r) \/ Approves(r)
        BY <3>5 DEF Debits, Charges, WritesRow, Records, Approves
      <3> QED BY <1>2, <3>1, <3>2, <3>3, <3>4, <3>5 DEF HandlerStep
    <2> QED BY <2>0, <2>1 DEF AmountsAreChecked
  <1> QED BY <1>1, <1>2, StepsAre

\* A handler step adds its own request to what is due at the check, takes it out
\* where it is booked, and moves no other request.
LEMMA DueMoves ==
  ASSUME IInv, NEW r \in Requests, HandlerStep(r)
  PROVE  /\ DueToVault' \in SUBSET (IF ReadsVault(r) THEN DueToVault \cup {r}
                                    ELSE IF Debits(r) THEN DueToVault \ {r}
                                    ELSE DueToVault)
         /\ \A c \in CapIds :
               DueToCap(c)' \in SUBSET (IF TakesCap(r) /\ req'[r].cap = c THEN DueToCap(c) \cup {r}
                                        ELSE IF Charges(r) THEN DueToCap(c) \ {r}
                                        ELSE DueToCap(c))
         /\ \A a \in Agents :
               DueToDay(a)' \in SUBSET (IF Passes(r) /\ req[r].agent = a THEN DueToDay(a) \cup {r}
                                        ELSE IF Records(r) THEN DueToDay(a) \ {r}
                                        ELSE DueToDay(a))
  <1>0. /\ \A s \in Requests \ {r} : req'[s] = req[s]
        /\ req'[r].agent = req[r].agent /\ req[r].live
    BY DEF HandlerStep
  <1>1. /\ DueToVault' \in SUBSET (DueToVault \cup {r})
        /\ \A c \in CapIds : DueToCap(c)' \in SUBSET (DueToCap(c) \cup {r})
        /\ \A a \in Agents : DueToDay(a)' \in SUBSET (DueToDay(a) \cup {r})
    BY <1>0 DEF DueToVault, DueToCap, DueToDay, At, Live
  <1>2. ASSUME r \in DueToVault'
        PROVE  ReadsVault(r)
    <2>1. req'[r].stage = "vaultRead" /\ req'[r].live
      BY <1>2 DEF DueToVault, At, Live
    <2> QED BY <2>1 DEF HandlerStep, Stops, Waits, Passes, Dispatches, TakesCap, ReadsVault,
                        Debits, Charges, WritesRow, Records, Approves, Moved, Unchecked
  <1>3. ASSUME NEW c \in CapIds, r \in DueToCap(c)', ~(TakesCap(r) /\ req'[r].cap = c)
        PROVE  r \in DueToCap(c) /\ ~Charges(r)
    <2>1. req'[r].stage \in {"capRead", "vaultRead", "debited"} /\ req'[r].live /\ req'[r].cap = c
      BY <1>3 DEF DueToCap, Live
    <2>2. ReadsVault(r) \/ Debits(r)
      BY <1>3, <2>1 DEF HandlerStep, Stops, Waits, Passes, Dispatches, TakesCap, ReadsVault,
                        Debits, Charges, WritesRow, Records, Approves, Moved, Unchecked
    <2>3. /\ req[r].stage \in {"capRead", "vaultRead"} /\ req[r].cap = c
          /\ req'[r].stage # "capCharged"
      BY <2>1, <2>2 DEF ReadsVault, Debits, Moved
    <2> QED BY <1>0, <2>3 DEF DueToCap, Live, Charges
  <1>4. ASSUME NEW a \in Agents, r \in DueToDay(a)', ~Passes(r)
        PROVE  r \in DueToDay(a) /\ ~Records(r)
    <2>1. req'[r].stage \in ClearedStages /\ req'[r].live /\ req[r].agent = a
      BY <1>0, <1>4 DEF DueToDay, Live
    <2>2. Dispatches(r) \/ TakesCap(r) \/ ReadsVault(r) \/ Debits(r) \/ Charges(r) \/ WritesRow(r)
      BY <1>4, <2>1 DEF HandlerStep, Stops, Waits, Dispatches, TakesCap, ReadsVault, Debits,
                        Charges, WritesRow, Records, Approves, Moved, Unchecked, ClearedStages
    <2>3. req[r].stage \in ClearedStages \ {"settled"}
      BY <2>2 DEF Dispatches, TakesCap, ReadsVault, Debits, Charges, WritesRow, ClearedStages
    <2> QED BY <1>0, <2>1, <2>3 DEF DueToDay, Live, Records
  <1>5. \A a \in Agents : r \in DueToDay(a)' => req[r].agent = a
    BY <1>0 DEF DueToDay
  <1>6. DueToVault' \in SUBSET (IF ReadsVault(r) THEN DueToVault \cup {r}
                                ELSE IF Debits(r) THEN DueToVault \ {r} ELSE DueToVault)
    BY <1>1, <1>2
  <1>7. ASSUME NEW c \in CapIds
        PROVE  DueToCap(c)' \in SUBSET (IF TakesCap(r) /\ req'[r].cap = c THEN DueToCap(c) \cup {r}
                                        ELSE IF Charges(r) THEN DueToCap(c) \ {r}
                                        ELSE DueToCap(c))
    BY <1>1, <1>3
  <1>8. ASSUME NEW a \in Agents
        PROVE  DueToDay(a)' \in SUBSET (IF Passes(r) /\ req[r].agent = a THEN DueToDay(a) \cup {r}
                                        ELSE IF Records(r) THEN DueToDay(a) \ {r}
                                        ELSE DueToDay(a))
    BY <1>1, <1>4, <1>5
  <1> QED BY <1>6, <1>7, <1>8

LEMMA VaultRoomStep ==
  ASSUME IInv, RoomInv, [Next]_vars
  PROVE  VaultRoom'
  <1> DEFINE K == (MaxInFlight - 1) * MaxPerTx
             due == SumFunctionOnSet(WeightOf, DueToVault)
             next == SumFunctionOnSet(WeightOf', DueToVault')
  <1>0. /\ WeightOf' = WeightOf
        /\ vault \in [balance : Int, totalSpent : Nat, status : {"active", "paused"}]
        /\ DueToVault \in SUBSET Requests /\ DueToVault \in SUBSET InFlight
    BY StepsAre, WeightsStay, DueAre DEF IInv, TypeOK
  <1>1. /\ vault.totalSpent \in Int /\ vault.balance \in Int
        /\ K \in Int /\ Budget \in Int /\ due \in Nat
    <2>1. MaxInFlight - 1 \in Int /\ MaxPerTx \in Int /\ Budget \in Int
      BY ExecutionAssumption
    <2>2. due \in Nat
      BY <1>0, DueShrinks
    <2> QED BY <1>0, <2>1, <2>2
  <1>2. vault.totalSpent + due <= Budget + K /\ vault.balance + K >= due
    BY DEF RoomInv, VaultRoom
  <1>3. ASSUME next \in Nat, vault'.totalSpent + next <= Budget + K, vault'.balance + K >= next
        PROVE  VaultRoom'
    BY <1>3 DEF VaultRoom
  <1> HIDE DEF K
  <1>4. CASE OwnerSteps
    <2>1. DueToVault' = DueToVault
      BY <1>4 DEF OwnerSteps, DueToVault, At, Live
    <2>2. next \in Nat /\ next <= due
      <3>1. DueToVault' \in SUBSET DueToVault
        BY <2>1
      <3> QED BY <1>0, <3>1, DueShrinks
    <2>3. vault'.totalSpent = vault.totalSpent /\ vault'.balance >= vault.balance /\ vault'.balance \in Int
      <3>1. TypeOK'
        BY ExecutionStep DEF IInv
      <3> QED BY <1>4, <3>1 DEF OwnerSteps, TypeOK
    <2> HIDE DEF due, next
    <2> QED BY <1>1, <1>2, <1>3, <2>2, <2>3
  <1>5. ASSUME NEW r \in Requests, HandlerStep(r), ReadsVault(r)
        PROVE  VaultRoom'
    <2>1. req[r].stage = "capRead" /\ r \in InFlight /\ req[r].amount > 0
      BY <1>5 DEF ReadsVault, HandlerStep, InFlight, Live, IInv, Consistent, Paying
    <2>2. r \notin DueToVault
      BY <2>1 DEF DueToVault, At
    <2>3. \A x \in DueToVault : req[x].amount <= MaxPerTx
      BY DEF RoomInv, AmountsAreChecked, DueToVault, At, Paying
    <2>4. DueToVault' \in SUBSET (DueToVault \cup {r})
      BY <1>5, DueMoves
    <2>5. next \in Nat /\ next <= WeightOf[r] + K
      <3>1. DueToVault \in SUBSET (InFlight \ {r}) /\ MaxPerTx \in Nat /\ FewInFlight
        BY <1>0, <2>2, ExecutionAssumption DEF RoomInv
      <3> QED BY <1>0, <2>1, <2>3, <2>4, <3>1, DueIsBounded DEF K
    <2>6. /\ vault.balance >= req[r].amount /\ vault.totalSpent + req[r].amount <= Budget
          /\ vault' = vault /\ WeightOf[r] = req[r].amount /\ req[r].amount \in Int
      BY <1>5, <2>1, WeightsAre DEF ReadsVault, VaultCovers, MoneyUntouched
    <2> HIDE DEF due, next
    <2> QED BY <1>1, <1>3, <2>5, <2>6
  <1>6. ASSUME NEW r \in Requests, HandlerStep(r), Debits(r)
        PROVE  VaultRoom'
    <2>1. req[r].stage = "vaultRead" /\ r \in DueToVault /\ req[r].amount > 0
      BY <1>6 DEF Debits, HandlerStep, DueToVault, At, Live, IInv, Consistent, Paying
    <2>2. DueToVault' \in SUBSET (DueToVault \ {r})
      BY <1>6, DueMoves DEF Debits, ReadsVault
    <2>3. next \in Nat /\ next + WeightOf[r] <= due
      BY <1>0, <2>1, <2>2, DueIsPaid
    <2>4. /\ vault'.totalSpent = vault.totalSpent + req[r].amount
          /\ vault'.balance = vault.balance - req[r].amount
      BY <1>0, <1>6 DEF Debits, DebitedVault
    <2>5. WeightOf[r] = req[r].amount /\ req[r].amount \in Int
      BY <2>1, WeightsAre
    <2> HIDE DEF due, next
    <2> QED BY <1>1, <1>2, <1>3, <2>3, <2>4, <2>5
  <1>7. ASSUME NEW r \in Requests, HandlerStep(r), ~ReadsVault(r), ~Debits(r)
        PROVE  VaultRoom'
    <2>1. DueToVault' \in SUBSET DueToVault
      BY <1>7, DueMoves
    <2>2. next \in Nat /\ next <= due
      BY <1>0, <2>1, DueShrinks
    <2>3. vault' = vault
      BY <1>7 DEF HandlerStep, Stops, Waits, Passes, Dispatches, TakesCap, MoneyUntouched,
                  Charges, WritesRow, Records, Approves
    <2> HIDE DEF due, next
    <2> QED BY <1>1, <1>2, <1>3, <2>2, <2>3
  <1> QED BY <1>4, <1>5, <1>6, <1>7, StepsAre

LEMMA CapRoomStep ==
  ASSUME IInv, RoomInv, [Next]_vars
  PROVE  CapRoom'
  <1> SUFFICES ASSUME NEW c \in CapIds
               PROVE  caps'[c].spent + SumFunctionOnSet(WeightOf', DueToCap(c)')
                        <= CapLimit + (MaxInFlight - 1) * MaxPerTx
    BY DEF CapRoom
  <1> DEFINE K == (MaxInFlight - 1) * MaxPerTx
             due == SumFunctionOnSet(WeightOf, DueToCap(c))
             next == SumFunctionOnSet(WeightOf', DueToCap(c)')
  <1>0. /\ WeightOf' = WeightOf
        /\ caps \in [CapIds -> [spent : Nat, status : {"none", "active", "revoked"}]]
        /\ DueToCap(c) \in SUBSET Requests /\ DueToCap(c) \in SUBSET InFlight
    BY StepsAre, WeightsStay, DueAre DEF IInv, TypeOK
  <1>1. caps[c].spent \in Int /\ K \in Int /\ CapLimit \in Int /\ due \in Nat
    <2>1. MaxInFlight - 1 \in Int /\ MaxPerTx \in Int /\ CapLimit \in Int
      BY ExecutionAssumption
    <2>2. due \in Nat
      BY <1>0, DueShrinks
    <2> QED BY <1>0, <2>1, <2>2
  <1>2. caps[c].spent + due <= CapLimit + K
    BY DEF RoomInv, CapRoom
  <1> SUFFICES caps'[c].spent + next <= CapLimit + K
    OBVIOUS
  <1> HIDE DEF K
  <1>3. ASSUME DueToCap(c)' \in SUBSET DueToCap(c), caps'[c].spent = caps[c].spent
        PROVE  caps'[c].spent + next <= CapLimit + K
    <2>1. next \in Nat /\ next <= due
      BY <1>0, <1>3, DueShrinks
    <2> HIDE DEF due, next
    <2> QED BY <1>1, <1>2, <1>3, <2>1
  <1>4. CASE OwnerSteps
    <2>1. DueToCap(c)' = DueToCap(c) /\ caps'[c].spent = caps[c].spent
      BY <1>4 DEF OwnerSteps, DueToCap, Live
    <2> QED BY <1>3, <2>1
  <1>5. ASSUME NEW r \in Requests, HandlerStep(r), TakesCap(r), req'[r].cap = c
        PROVE  caps'[c].spent + next <= CapLimit + K
    <2>1. req[r].stage = "withdrawing" /\ r \in InFlight /\ req[r].amount > 0
      BY <1>5 DEF TakesCap, HandlerStep, InFlight, Live, IInv, Consistent
    <2>2. r \notin DueToCap(c)
      BY <2>1 DEF DueToCap
    <2>3. \A x \in DueToCap(c) : req[x].amount <= MaxPerTx
      BY DEF RoomInv, AmountsAreChecked, DueToCap, Paying
    <2>4. DueToCap(c)' \in SUBSET (DueToCap(c) \cup {r})
      BY <1>5, DueMoves
    <2>5. next \in Nat /\ next <= WeightOf[r] + K
      <3>1. DueToCap(c) \in SUBSET (InFlight \ {r}) /\ MaxPerTx \in Nat /\ FewInFlight
        BY <1>0, <2>2, ExecutionAssumption DEF RoomInv
      <3> QED BY <1>0, <2>1, <2>3, <2>4, <3>1, DueIsBounded DEF K
    <2>6. /\ caps[c].spent + req[r].amount <= CapLimit /\ caps' = caps
          /\ WeightOf[r] = req[r].amount /\ req[r].amount \in Int
      BY <1>5, <2>1, WeightsAre DEF TakesCap, Moved, CapCovers, MoneyUntouched
    <2> HIDE DEF due, next
    <2> QED BY <1>1, <2>5, <2>6
  <1>6. ASSUME NEW r \in Requests, HandlerStep(r), Charges(r)
        PROVE  caps'[c].spent + next <= CapLimit + K
    <2>0. /\ req[r].stage = "debited" /\ ~TakesCap(r) /\ req[r].amount > 0
          /\ caps' = [caps EXCEPT ![req[r].cap].spent = @ + req[r].amount]
      BY <1>6 DEF Charges, TakesCap, IInv, Consistent, Paying
    <2>1. DueToCap(c)' \in SUBSET (DueToCap(c) \ {r})
      BY <1>6, <2>0, DueMoves
    <2>2. CASE c # req[r].cap
      <3>1. caps'[c] = caps[c] /\ DueToCap(c)' \in SUBSET DueToCap(c)
        BY <1>0, <2>0, <2>1, <2>2
      <3> QED BY <1>3, <3>1
    <2>3. CASE c = req[r].cap
      <3>1. r \in DueToCap(c)
        BY <1>6, <2>0, <2>3 DEF HandlerStep, DueToCap, Live
      <3>2. next \in Nat /\ next + WeightOf[r] <= due
        BY <1>0, <2>1, <3>1, DueIsPaid
      <3>3. caps'[c].spent = caps[c].spent + req[r].amount
        BY <1>0, <2>0, <2>3
      <3>4. WeightOf[r] = req[r].amount /\ req[r].amount \in Int
        BY <2>0, WeightsAre
      <3> HIDE DEF due, next
      <3> QED BY <1>1, <1>2, <3>2, <3>3, <3>4
    <2> QED BY <2>2, <2>3
  <1>7. ASSUME NEW r \in Requests, HandlerStep(r), ~(TakesCap(r) /\ req'[r].cap = c), ~Charges(r)
        PROVE  caps'[c].spent + next <= CapLimit + K
    <2>1. DueToCap(c)' \in SUBSET DueToCap(c)
      BY <1>7, DueMoves
    <2>2. caps' = caps
      BY <1>7 DEF HandlerStep, Stops, Waits, Passes, Dispatches, TakesCap, ReadsVault,
                  MoneyUntouched, Debits, WritesRow, Records, Approves
    <2> QED BY <1>3, <2>1, <2>2
  <1> QED BY <1>4, <1>5, <1>6, <1>7, StepsAre

\* Only record_spend writes daily_spend, and only the row of the current day.
LEMMA DayWrites ==
  ASSUME IInv, NEW r \in Requests, HandlerStep(r)
  PROVE  /\ day' = day
         /\ ~Records(r) => dailySpend' = dailySpend
         /\ Records(r) =>
              \A a \in Agents : \A d \in 1 .. MaxDay :
                 dailySpend'[a][d] =
                    IF a = req[r].agent /\ d = day THEN dailySpend[a][d] + req[r].amount
                                                   ELSE dailySpend[a][d]
  <1>1. day' = day
    BY DEF HandlerStep
  <1>2. ~Records(r) => dailySpend' = dailySpend
    BY DEF HandlerStep, Stops, Waits, Passes, Dispatches, TakesCap, ReadsVault,
           MoneyUntouched, Debits, Charges, WritesRow, Approves
  <1>3. ASSUME Records(r), NEW a \in Agents, NEW d \in 1 .. MaxDay
        PROVE  dailySpend'[a][d] =
                 IF a = req[r].agent /\ d = day THEN dailySpend[a][d] + req[r].amount
                                                ELSE dailySpend[a][d]
    <2>1. dailySpend' = [dailySpend EXCEPT ![req[r].agent][day] =
                             dailySpend[req[r].agent][day] + req[r].amount]
      BY <1>3 DEF Records, RecordSpend, SpendAfter
    <2>2. dailySpend \in [Agents -> [1 .. MaxDay -> Int]] /\ day \in 1 .. MaxDay
      BY DEF IInv, TypeOK
    <2> QED BY <2>1, <2>2
  <1> QED BY <1>1, <1>2, <1>3

LEMMA DaysToComeStep ==
  ASSUME IInv, DaysToCome, [Next]_vars
  PROVE  DaysToCome'
  <1>0. /\ dailySpend \in [Agents -> [1 .. MaxDay -> Int]] /\ day \in 1 .. MaxDay
        /\ \A r \in Requests : req[r].amount \in Amounts /\ req[r].amount \in Int
    BY ExecutionAssumption DEF IInv, TypeOK, ReqType
  <1>1. CASE OwnerSteps
    BY <1>0, <1>1 DEF OwnerSteps, DaysToCome
  <1>2. ASSUME NEW r \in Requests, HandlerStep(r)
        PROVE  DaysToCome'
    <2> SUFFICES ASSUME NEW a \in Agents, NEW d \in 1 .. MaxDay
                 PROVE  /\ d > day' => dailySpend'[a][d] = 0
                        /\ (\A x \in Amounts : x >= 0) => dailySpend'[a][d] >= 0
      BY DEF DaysToCome
    <2>1. /\ d > day => dailySpend[a][d] = 0
          /\ (\A x \in Amounts : x >= 0) => dailySpend[a][d] >= 0
          /\ dailySpend[a][d] \in Int /\ day' = day
      BY <1>0, <1>2, DayWrites DEF DaysToCome
    <2>2. CASE ~Records(r)
      BY <1>2, <2>1, <2>2, DayWrites
    <2>3. CASE Records(r)
      <3>1. dailySpend'[a][d] = IF a = req[r].agent /\ d = day
                                  THEN dailySpend[a][d] + req[r].amount ELSE dailySpend[a][d]
        BY <1>2, <2>3, DayWrites
      <3>2. (\A x \in Amounts : x >= 0) => req[r].amount >= 0
        BY <1>0
      <3> QED BY <1>0, <2>1, <3>1, <3>2
    <2> QED BY <2>2, <2>3
  <1> QED BY <1>1, <1>2, StepsAre

LEMMA DaysRoomStep ==
  ASSUME IInv, RoomInv, [Next]_vars
  PROVE  DaysRoom'
  <1> SUFFICES ASSUME NEW a \in Agents
               PROVE  /\ dailySpend'[a][day'] + SumFunctionOnSet(WeightOf', DueToDay(a)')
                             <= DayRoom + (MaxInFlight - 1) * MaxTx
                      /\ \A d \in 1 .. MaxDay :
                            dailySpend'[a][d] <= DayRoom + (MaxInFlight - 1) * MaxTx
    BY DEF DaysRoom
  <1> DEFINE K == (MaxInFlight - 1) * MaxTx
             due == SumFunctionOnSet(WeightOf, DueToDay(a))
             next == SumFunctionOnSet(WeightOf', DueToDay(a)')
  <1>0. /\ WeightOf' = WeightOf
        /\ dailySpend \in [Agents -> [1 .. MaxDay -> Int]] /\ day \in 1 .. MaxDay
        /\ DueToDay(a) \in SUBSET Requests /\ DueToDay(a) \in SUBSET InFlight
    BY StepsAre, WeightsStay, DueAre DEF IInv, TypeOK
  <1>1. /\ \A d \in 1 .. MaxDay : dailySpend[a][d] \in Int
        /\ K \in Nat /\ DayRoom \in Nat /\ MaxTx \in Nat /\ DailyLimit \in Nat /\ due \in Nat
    <2>1. MaxInFlight - 1 \in Nat /\ MaxTx \in Nat /\ DailyLimit \in Nat
      BY ExecutionAssumption
    <2>2. due \in Nat
      BY <1>0, DueShrinks
    <2>3. \A m, x \in Nat : m * x \in Nat
      OBVIOUS
    <2>4. K \in Nat
      BY <2>1, <2>3
    <2>5. DayRoom \in Nat
      BY <2>1 DEF DayRoom
    <2>6. \A d \in 1 .. MaxDay : dailySpend[a][d] \in Int
      BY <1>0
    <2> HIDE DEF K, due
    <2> QED BY <2>1, <2>2, <2>4, <2>5, <2>6
  <1>2. /\ dailySpend[a][day] + due <= DayRoom + K
        /\ \A d \in 1 .. MaxDay : dailySpend[a][d] <= DayRoom + K
    BY DEF RoomInv, DaysRoom
  <1> SUFFICES /\ dailySpend'[a][day'] + next <= DayRoom + K
               /\ \A d \in 1 .. MaxDay : dailySpend'[a][d] <= DayRoom + K
    OBVIOUS
  <1> HIDE DEF K
  <1>a. \A x \in DueToDay(a) : req[x].amount <= MaxTx
    BY DEF RoomInv, AmountsAreChecked, DueToDay
  <1>3. ASSUME DueToDay(a)' \in SUBSET DueToDay(a), day' = day, dailySpend' = dailySpend
        PROVE  /\ dailySpend'[a][day'] + next <= DayRoom + K
               /\ \A d \in 1 .. MaxDay : dailySpend'[a][d] <= DayRoom + K
    <2>1. next \in Nat /\ next <= due
      BY <1>0, <1>3, DueShrinks
    <2> HIDE DEF due, next
    <2> QED BY <1>0, <1>1, <1>2, <1>3, <2>1
  <1>4. CASE OwnerSteps
    <2>1. DueToDay(a)' = DueToDay(a) /\ dailySpend' = dailySpend /\ day' \in {day, day + 1}
      BY <1>4 DEF OwnerSteps, DueToDay, Live
    <2>2. CASE day' = day
      BY <1>3, <2>1, <2>2
    <2>3. CASE day' = day + 1
      <3>1. day' \in 1 .. MaxDay
        BY ExecutionStep DEF IInv, TypeOK
      <3>2. dailySpend'[a][day'] = 0
        BY <1>0, <2>1, <2>3, <3>1 DEF RoomInv, DaysToCome
      <3>3. next \in Nat /\ next <= due
        <4>1. DueToDay(a)' \in SUBSET DueToDay(a)
          BY <2>1
        <4> QED BY <1>0, <4>1, DueShrinks
      <3>4. due <= MaxTx + K
        <4>1. IsFiniteSet(DueToDay(a)) /\ Cardinality(DueToDay(a)) <= MaxInFlight
          <5>1. IsFiniteSet(InFlight)
            BY FS_Subset, DueAre, ExecutionAssumption
          <5>2. /\ IsFiniteSet(DueToDay(a))
                /\ Cardinality(DueToDay(a)) <= Cardinality(InFlight)
            BY <1>0, <5>1, FS_Subset
          <5>3. /\ Cardinality(DueToDay(a)) \in Nat /\ Cardinality(InFlight) \in Nat
                /\ MaxInFlight \in Nat
            BY <5>1, <5>2, FS_CardinalityType, ExecutionAssumption
          <5> QED BY <5>2, <5>3 DEF RoomInv, FewInFlight
        <4>2. \A x \in DueToDay(a) : WeightOf[x] \in Int /\ WeightOf[x] <= MaxTx
          BY <1>0, <1>1, <1>a, WeightsAre
        <4>3. due <= MaxInFlight * MaxTx
          <5>1. MaxInFlight \in Nat
            BY ExecutionAssumption
          <5> QED BY <1>1, <4>1, <4>2, <5>1, SumBounded
        <4>4. MaxInFlight * MaxTx = MaxTx + K
          <5>1. \A m \in Nat \ {0} : \A x \in Nat : m * x = x + (m - 1) * x
            OBVIOUS
          <5> QED BY <1>1, <5>1, ExecutionAssumption DEF K
        <4> QED BY <4>3, <4>4
      <3>5. next <= DayRoom + K
        <4>1. CASE MaxTx <= DayRoom
          <5> HIDE DEF due, next
          <5> QED BY <1>1, <3>3, <3>4, <4>1
        <4>2. CASE ~(MaxTx <= DayRoom)
          <5>1. \A x \in Amounts : x >= 0
            BY <1>1, <4>2, ExecutionAssumption DEF DayRoom
          <5>2. dailySpend[a][day] >= 0
            BY <1>0, <5>1 DEF RoomInv, DaysToCome
          <5> HIDE DEF due, next
          <5> QED BY <1>0, <1>1, <1>2, <3>3, <5>2
        <4> QED BY <4>1, <4>2
      <3> HIDE DEF due, next
      <3> QED BY <1>1, <1>2, <2>1, <3>2, <3>3, <3>5
    <2> QED BY <2>1, <2>2, <2>3
  <1>5. ASSUME NEW r \in Requests, HandlerStep(r), Passes(r), req[r].agent = a
        PROVE  /\ dailySpend'[a][day'] + next <= DayRoom + K
               /\ \A d \in 1 .. MaxDay : dailySpend'[a][d] <= DayRoom + K
    <2>1. req[r].stage = "analyzed" /\ r \in InFlight
      BY <1>5 DEF Passes, HandlerStep, InFlight, Live
    <2>2. r \notin DueToDay(a)
      BY <2>1 DEF DueToDay, ClearedStages
    <2>3. DueToDay(a)' \in SUBSET (DueToDay(a) \cup {r})
      BY <1>5, DueMoves
    <2>4. DueToDay(a) \in SUBSET (InFlight \ {r}) /\ r \in Requests
      BY <1>0, <2>2
    <2>5. next \in Nat /\ next <= WeightOf[r] + K
      BY <1>0, <1>1, <1>a, <2>1, <2>3, <2>4, DueIsBounded DEF K, RoomInv
    <2>6. dailySpend' = dailySpend /\ day' = day
      BY <1>5 DEF Passes, MoneyUntouched, HandlerStep
    <2>7. dailySpend[a][day] + req[r].amount <= DailyLimit
      BY <1>5 DEF Passes, FirewallAllows, DailyCovers
    <2>8. DailyLimit <= DayRoom
      BY <1>1 DEF DayRoom
    <2>9. CASE req[r].amount > 0
      <3>1. WeightOf[r] = req[r].amount /\ req[r].amount \in Int
        BY <2>9, WeightsAre
      <3> HIDE DEF due, next
      <3> QED BY <1>0, <1>1, <1>2, <2>5, <2>6, <2>7, <2>8, <3>1
    <2>10. CASE ~(req[r].amount > 0)
      <3>1. WeightOf[r] = 0
        BY <2>10, WeightsAre
      <3>2. next <= due
        <4>1. /\ SumFunctionOnSet(WeightOf', DueToDay(a)')
                   <= SumFunctionOnSet(WeightOf, DueToDay(a) \cup {r})
              /\ SumFunctionOnSet(WeightOf', DueToDay(a)') \in Nat
          <5>1. DueToDay(a) \cup {r} \in SUBSET Requests
            BY <1>0
          <5> QED BY <1>0, <2>3, <5>1, DueShrinks
        <4>2. SumFunctionOnSet(WeightOf, DueToDay(a) \cup {r})
                = SumFunctionOnSet(WeightOf, DueToDay(a)) + WeightOf[r]
          <5>1. \A x \in Requests : WeightOf[x] \in Int
            BY WeightsAre
          <5> QED BY <1>0, <2>2, <5>1, SumAdd, ExecutionAssumption
        <4> QED BY <1>1, <3>1, <4>1, <4>2
      <3> HIDE DEF due, next
      <3> QED BY <1>0, <1>1, <1>2, <2>5, <2>6, <3>2
    <2> QED BY <2>9, <2>10
  <1>6. ASSUME NEW r \in Requests, HandlerStep(r), Records(r)
        PROVE  /\ dailySpend'[a][day'] + next <= DayRoom + K
               /\ \A d \in 1 .. MaxDay : dailySpend'[a][d] <= DayRoom + K
    <2>0. /\ req[r].stage = "settled" /\ ~Passes(r) /\ day' = day
          /\ \A d \in 1 .. MaxDay :
                dailySpend'[a][d] = IF a = req[r].agent /\ d = day
                                      THEN dailySpend[a][d] + req[r].amount
                                      ELSE dailySpend[a][d]
      BY <1>6, DayWrites DEF Records, Passes
    <2>1. DueToDay(a)' \in SUBSET (DueToDay(a) \ {r})
      BY <1>6, <2>0, DueMoves
    <2>2. CASE a # req[r].agent
      <3>1. \A d \in 1 .. MaxDay : dailySpend'[a][d] = dailySpend[a][d]
        BY <2>0, <2>2
      <3>2. next \in Nat /\ next <= due
        <4>1. DueToDay(a)' \in SUBSET DueToDay(a)
          BY <2>1
        <4> QED BY <1>0, <4>1, DueShrinks
      <3> HIDE DEF due, next
      <3> QED BY <1>0, <1>1, <1>2, <2>0, <3>1, <3>2
    <2>3. CASE a = req[r].agent
      <3>1. r \in DueToDay(a)
        BY <1>6, <2>0, <2>3 DEF HandlerStep, DueToDay, Live, ClearedStages
      <3>2. next \in Nat /\ next + WeightOf[r] <= due
        BY <1>0, <2>1, <3>1, DueIsPaid
      <3>3. WeightOf[r] >= req[r].amount /\ req[r].amount \in Int /\ WeightOf[r] \in Nat
        BY WeightsAre
      <3>4. dailySpend'[a][day] = dailySpend[a][day] + req[r].amount
        BY <1>0, <2>0, <2>3
      <3>5. \A d \in 1 .. MaxDay : d # day => dailySpend'[a][d] = dailySpend[a][d]
        BY <2>0
      <3> HIDE DEF due, next
      <3>6. dailySpend'[a][day] + next <= DayRoom + K
        BY <1>0, <1>1, <1>2, <3>2, <3>3, <3>4
      <3>7. dailySpend'[a][day] <= DayRoom + K
        BY <1>0, <1>1, <3>2, <3>3, <3>4, <3>6
      <3> QED BY <1>2, <2>0, <3>5, <3>6, <3>7
    <2> QED BY <2>2, <2>3
  <1>7. ASSUME NEW r \in Requests, HandlerStep(r), ~(Passes(r) /\ req[r].agent = a), ~Records(r)
        PROVE  /\ dailySpend'[a][day'] + next <= DayRoom + K
               /\ \A d \in 1 .. MaxDay : dailySpend'[a][d] <= DayRoom + K
    <2>1. DueToDay(a)' \in SUBSET DueToDay(a)
      BY <1>7, DueMoves
    <2>2. dailySpend' = dailySpend /\ day' = day
      BY <1>7, DayWrites
    <2> QED BY <1>3, <2>1, <2>2
  <1> QED BY <1>4, <1>5, <1>6, <1>7, StepsAre

LEMMA RoomAtStart == Init => RoomInv
  <1> SUFFICES ASSUME Init PROVE RoomInv
    OBVIOUS
  <1>1. \A r \in Requests : req[r].stage = "new"
    BY DEF Init
  <1>2. InFlight = {}
    BY <1>1 DEF InFlight
  <1>3. /\ DueToVault = {} /\ \A c \in CapIds : DueToCap(c) = {}
        /\ \A a \in Agents : DueToDay(a) = {}
    BY <1>2, DueAre
  <1>4. FewInFlight /\ AmountsAreChecked
    BY <1>1, <1>2, FS_EmptySet, ExecutionAssumption
    DEF FewInFlight, AmountsAreChecked, Paying, ClearedStages
  <1>5. /\ (MaxInFlight - 1) * MaxPerTx \in Nat /\ (MaxInFlight - 1) * MaxTx \in Nat
        /\ {MaxTx, DailyLimit, CapLimit, Budget, InitialBalance} \subseteq Nat /\ DayRoom \in Nat
    <2>1. \A m \in Nat \ {0} : \A x \in Nat : (m - 1) * x \in Nat
      OBVIOUS
    <2>2. /\ MaxInFlight \in Nat \ {0} /\ MaxPerTx \in Nat /\ MaxTx \in Nat
          /\ {MaxTx, DailyLimit, CapLimit, Budget, InitialBalance} \subseteq Nat
      BY ExecutionAssumption
    <2> QED BY <2>1, <2>2 DEF DayRoom
  <1>6. VaultRoom
    <2>1. SumFunctionOnSet(WeightOf, DueToVault) = SumFunctionOnSet(WeightOf, {})
      BY <1>3, Zenon
    <2>2. vault.totalSpent = 0 /\ vault.balance = InitialBalance
      BY DEF Init
    <2>3. SumFunctionOnSet(WeightOf, DueToVault) = 0
      BY <2>1, SumEmpty
    <2> QED BY <1>5, <2>2, <2>3 DEF VaultRoom
  <1>7. CapRoom
    <2> SUFFICES ASSUME NEW c \in CapIds
                 PROVE  caps[c].spent + SumFunctionOnSet(WeightOf, DueToCap(c))
                          <= CapLimit + (MaxInFlight - 1) * MaxPerTx
      BY DEF CapRoom
    <2>1. SumFunctionOnSet(WeightOf, DueToCap(c)) = SumFunctionOnSet(WeightOf, {})
      BY <1>3, Zenon
    <2>2. caps[c].spent = 0
      BY DEF Init
    <2>3. SumFunctionOnSet(WeightOf, DueToCap(c)) = 0
      BY <2>1, SumEmpty
    <2> QED BY <1>5, <2>2, <2>3
  <1>8. \A a \in Agents : \A d \in 1 .. MaxDay : dailySpend[a][d] = 0
    BY DEF Init
  <1>9. DaysRoom
    <2> SUFFICES ASSUME NEW a \in Agents
                 PROVE  /\ dailySpend[a][day] + SumFunctionOnSet(WeightOf, DueToDay(a))
                               <= DayRoom + (MaxInFlight - 1) * MaxTx
                        /\ \A d \in 1 .. MaxDay :
                              dailySpend[a][d] <= DayRoom + (MaxInFlight - 1) * MaxTx
      BY DEF DaysRoom
    <2>1. SumFunctionOnSet(WeightOf, DueToDay(a)) = SumFunctionOnSet(WeightOf, {})
      BY <1>3, Zenon
    <2>2. day \in 1 .. MaxDay
      BY ExecutionAssumption DEF Init
    <2>3. SumFunctionOnSet(WeightOf, DueToDay(a)) = 0
      BY <2>1, SumEmpty
    <2> QED BY <1>5, <1>8, <2>2, <2>3
  <1> QED BY <1>4, <1>6, <1>7, <1>8, <1>9 DEF RoomInv, DaysToCome

LEMMA RoomStep == IInv /\ RoomInv /\ [Next]_vars => RoomInv'
  <1> SUFFICES ASSUME IInv, RoomInv, [Next]_vars PROVE RoomInv'
    OBVIOUS
  <1>1. FewInFlight /\ AmountsAreChecked /\ DaysToCome
    BY DEF RoomInv
  <1> QED BY <1>1, FlightStep, CheckedStep, VaultRoomStep, CapRoomStep, DaysToComeStep,
             DaysRoomStep DEF RoomInv

\* What is due is never negative: the room for it bounds what is booked.
LEMMA RoomBounds == IInv /\ RoomInv => OverrunIsBounded
  <1> SUFFICES ASSUME IInv, RoomInv PROVE OverrunIsBounded
    OBVIOUS
  <1> DEFINE K == (MaxInFlight - 1) * MaxPerTx
             duev == SumFunctionOnSet(WeightOf, DueToVault)
             duec(c) == SumFunctionOnSet(WeightOf, DueToCap(c))
  <1>0. \A P \in SUBSET Requests : SumFunctionOnSet(WeightOf, P) \in Nat
    <2>1. \A x \in Requests : WeightOf[x] \in Nat
      BY WeightsAre
    <2> QED BY <2>1, SumMonotone, ExecutionAssumption
  <1>1. duev \in Nat /\ \A c \in CapIds : duec(c) \in Nat
    <2>1. DueToVault \in SUBSET Requests /\ \A c \in CapIds : DueToCap(c) \in SUBSET Requests
      BY DueAre
    <2> QED BY <1>0, <2>1
  <1>2. /\ vault.totalSpent + duev <= Budget + K /\ vault.balance + K >= duev
        /\ \A c \in CapIds : caps[c].spent + duec(c) <= CapLimit + K
    BY DEF RoomInv, VaultRoom, CapRoom
  <1>3. /\ vault.totalSpent \in Int /\ vault.balance \in Int
        /\ \A c \in CapIds : caps[c].spent \in Int
        /\ K \in Int /\ Budget \in Int /\ CapLimit \in Int
    <2>1. /\ MaxInFlight - 1 \in Int /\ MaxPerTx \in Int /\ Budget \in Int /\ CapLimit \in Int
      BY ExecutionAssumption
    <2> QED BY <2>1 DEF IInv, TypeOK
  <1>4. (-(MaxInFlight - 1)) * MaxPerTx = -K
    <2>1. \A m, x \in Int : (-m) * x = -(m * x)
      OBVIOUS
    <2>2. MaxInFlight - 1 \in Int /\ MaxPerTx \in Int
      BY ExecutionAssumption
    <2> QED BY <2>1, <2>2
  <1> HIDE DEF K, duev, duec
  <1>5. /\ vault.totalSpent <= Budget + K /\ vault.balance >= -K
        /\ \A c \in CapIds : caps[c].spent <= CapLimit + K
    BY <1>1, <1>2, <1>3
  <1>6. \A a \in Agents : \A d \in 1 .. MaxDay :
           dailySpend[a][d] <= DayRoom + (MaxInFlight - 1) * MaxTx
    BY DEF RoomInv, DaysRoom
  <1> QED BY <1>4, <1>5, <1>6 DEF OverrunIsBounded, K

\* However many requests check and pay at the same time, wherever they are
\* abandoned and whatever the owner or the calendar does, budget, balance, cap
\* and day are overrun by at most one transaction for each other request in
\* flight.
THEOREM OverrunIsAlwaysBounded == Spec => []OverrunIsBounded
  BY RoomAtStart, RoomStep, RoomBounds, ExecutionInvariant, PTL DEF Spec

-----------------------------------------------------------------------------
(* One request at a time, and none abandoned: the ledger of the Move wallet.   *)

\* A handler that has debited the vault is still there to charge the cap, and
\* the cap of a request has its row.
HandlersFinish == \A r \in Requests : req[r].stage = "debited" => req[r].live
CapsHaveRows == \A r \in Requests : req[r].cap # NoCap => caps[req[r].cap].status # "none"

DebitedTo(c) == {r \in Debited : req[r].cap = c}

LEMMA OnlyChargeFollowsDebit ==
  ASSUME IInv, MaxFaults = 0, NEW r \in Requests, req[r].stage = "debited",
         Authenticate(r) \/ Handle(r) \/ Abandon(r)
  PROVE  ChargeCap(r)
  <1>1. ~Abandon(r)
    BY DEF Abandon, IInv, TypeOK
  <1> QED BY <1>1 DEF Handle, At, Authenticate, LoadAgent, LoadCapability, LoadPolicy, Analyze,
                      FirewallCheck, LogBlocked, CreateAlert, LogReview, Dispatch,
                      DispatchWithoutLookup, ReadCap, ReadVault, DebitVault, RecordWithdraw,
                      RecordSpend, LogApproved

LEMMA FinishStep ==
  ASSUME IInv, MaxFaults = 0, HandlersFinish, [Next]_vars
  PROVE  HandlersFinish'
  <1>1. ASSUME NEW r \in Requests, Authenticate(r) \/ Handle(r) \/ Abandon(r)
        PROVE  HandlersFinish'
    <2>1. HandlerStep(r) /\ req[r].live /\ \A s \in Requests \ {r} : req'[s] = req[s]
      BY <1>1, HandlerSteps DEF HandlerStep
    <2>2. ASSUME req'[r].stage = "debited" PROVE req'[r].live
      <3>1. CASE req[r].stage = "debited"
        <4>1. ChargeCap(r)
          BY <1>1, <3>1, OnlyChargeFollowsDebit
        <4>2. req'[r].stage = "capCharged"
          BY <4>1 DEF ChargeCap, Goto, IInv, TypeOK, ReqType
        <4> QED BY <2>2, <4>2
      <3>2. CASE req[r].stage # "debited"
        <4>1. Debits(r)
          BY <2>1, <2>2, <3>2
          DEF HandlerStep, Stops, Waits, Passes, Dispatches, TakesCap, ReadsVault, Charges,
              WritesRow, Records, Approves, Moved, Unchecked
        <4>2. DebitVault(r)
          <5>1. req[r].stage = "vaultRead" /\ ~Abandon(r)
            BY <4>1 DEF Debits, Abandon, IInv, TypeOK
          <5>2. ~ReadVault(r)
            BY <5>1 DEF ReadVault, At
          <5> QED BY <1>1, <5>1, <5>2
                  DEF Handle, At, Authenticate, LoadAgent, LoadCapability, LoadPolicy, Analyze,
                      FirewallCheck, LogBlocked, CreateAlert, LogReview, Dispatch,
                      DispatchWithoutLookup, ReadCap, ChargeCap, RecordWithdraw, RecordSpend,
                      LogApproved
        <4> QED BY <2>1, <4>2 DEF DebitVault, Goto, IInv, TypeOK, ReqType
      <3> QED BY <3>1, <3>2
    <2> QED BY <2>1, <2>2 DEF HandlersFinish
  <1>2. CASE OwnerNext \/ AbandonOwner \/ NextDay \/ UNCHANGED vars
    BY <1>2, OwnerStepsOnly DEF OwnerSteps, HandlersFinish
  <1> QED BY <1>1, <1>2 DEF Next

LEMMA CapsHaveRowsStep ==
  ASSUME IInv, CapsHaveRows, [Next]_vars
  PROVE  CapsHaveRows'
  <1>0. /\ caps \in [CapIds -> [spent : Nat, status : {"none", "active", "revoked"}]]
        /\ \A r \in Requests : req[r].cap \in CapIds \cup {NoCap}
    BY DEF IInv, TypeOK, ReqType
  <1>1. CASE OwnerSteps
    BY <1>0, <1>1 DEF OwnerSteps, CapsHaveRows
  <1>2. ASSUME NEW r \in Requests, HandlerStep(r)
        PROVE  CapsHaveRows'
    <2>1. \A c \in CapIds : caps'[c].status = caps[c].status
      <3>1. CASE Charges(r)
        BY <1>0, <3>1 DEF Charges
      <3>2. CASE ~Charges(r)
        BY <1>2, <3>2 DEF HandlerStep, Stops, Waits, Passes, Dispatches, TakesCap, ReadsVault,
                          MoneyUntouched, Debits, WritesRow, Records, Approves
      <3> QED BY <3>1, <3>2
    <2>2. \/ req'[r].cap = req[r].cap
          \/ req'[r].cap \in CapIds /\ caps[req'[r].cap].status # "none"
      BY <1>2 DEF HandlerStep, Stops, Waits, Passes, Dispatches, TakesCap, ReadsVault, Debits,
                  Charges, WritesRow, Records, Approves, Moved
    <2>3. \A s \in Requests \ {r} : req'[s] = req[s]
      BY <1>2 DEF HandlerStep
    <2> QED BY <1>0, <2>1, <2>2, <2>3 DEF CapsHaveRows
  <1> QED BY <1>1, <1>2, StepsAre

\* What the ledger sees when no request debits: the payments stay, and only
\* create_agent_cap changes which payers there are.
LEMMA LedgerSums ==
  ASSUME IInv, NEW r \in Requests, HandlerStep(r) /\ ~Debits(r)
  PROVE  \A c \in CapIds :
            SumFunctionOnSet(AmountOf', DebitedTo(c)') = SumFunctionOnSet(AmountOf, DebitedTo(c))
  <1>1. AmountOf' = AmountOf /\ Debited' = Debited
    BY AmountsStay, PaidStays
  <1>2. \A s \in Debited : req'[s].cap = req[s].cap
    <2>1. \A s \in Requests \ {r} : req'[s] = req[s]
      BY DEF HandlerStep
    <2>2. req[r].cap # NoCap => req'[r].cap = req[r].cap
      <3>1. req[r].stage = "withdrawing" => req[r].cap = NoCap
        BY DEF IInv, Consistent, BeforeCap
      <3> QED BY <3>1 DEF HandlerStep, Stops, Waits, Passes, Dispatches, TakesCap, ReadsVault,
                          Debits, Charges, WritesRow, Records, Approves, Moved
    <2> QED BY <2>1, <2>2 DEF Debited
  <1>3. \A c \in CapIds : DebitedTo(c)' = DebitedTo(c)
    BY <1>1, <1>2 DEF DebitedTo
  <1> QED BY <1>1, <1>3, SumStays

PaidOf == [c \in CapIds |-> SumFunctionOnSet(AmountOf, DebitedTo(c))]
HomeOf == [c \in CapIds |-> IF caps[c].status = "none" THEN "none" ELSE "vault"]
SpentOf == [v \in {"vault"} |-> vault.totalSpent]

LEMMA LedgerView ==
  ASSUME PaidOf' = PaidOf, HomeOf' = HomeOf, SpentOf' = SpentOf
  PROVE  UNCHANGED Ledger!vars
  BY DEF PaidOf, HomeOf, SpentOf, Ledger!vars, Sum, AmountOf, DebitedTo

LEMMA LedgerQuiet ==
  ASSUME IInv, NEW r \in Requests, HandlerStep(r), ~Debits(r)
  PROVE  UNCHANGED Ledger!vars
  <1>0. caps \in [CapIds -> [spent : Nat, status : {"none", "active", "revoked"}]]
    BY DEF IInv, TypeOK
  <1>1. PaidOf' = PaidOf
    BY LedgerSums DEF PaidOf
  <1>2. HomeOf' = HomeOf
    <2>1. \A c \in CapIds : caps'[c].status = caps[c].status
      <3>1. CASE Charges(r)
        BY <1>0, <3>1 DEF Charges
      <3>2. CASE ~Charges(r)
        BY <3>2 DEF HandlerStep, Stops, Waits, Passes, Dispatches, TakesCap, ReadsVault,
                    MoneyUntouched, Debits, WritesRow, Records, Approves
      <3> QED BY <3>1, <3>2
    <2> QED BY <2>1 DEF HomeOf
  <1>3. SpentOf' = SpentOf
    <2>1. vault' = vault
      BY DEF HandlerStep, Stops, Waits, Passes, Dispatches, TakesCap, ReadsVault,
             MoneyUntouched, Charges, WritesRow, Records, Approves
    <2> QED BY <2>1 DEF SpentOf
  <1> QED BY <1>1, <1>2, <1>3, LedgerView

LEMMA LedgerOwner ==
  ASSUME IInv, OwnerNext \/ AbandonOwner \/ NextDay \/ UNCHANGED vars
  PROVE  Ledger!Next \/ UNCHANGED Ledger!vars
  <1>0. /\ caps \in [CapIds -> [spent : Nat, status : {"none", "active", "revoked"}]]
        /\ OwnerSteps
    BY OwnerStepsOnly DEF IInv, TypeOK
  <1>1. PaidOf' = PaidOf
    <2>1. AmountOf' = AmountOf /\ Debited' = Debited /\ req' = req
      BY <1>0, AmountsStay, NobodyPays DEF OwnerSteps
    <2>2. \A c \in CapIds : DebitedTo(c)' = DebitedTo(c)
      BY <2>1 DEF DebitedTo
    <2>3. \A c \in CapIds :
             SumFunctionOnSet(AmountOf', DebitedTo(c)') = SumFunctionOnSet(AmountOf, DebitedTo(c))
      BY <2>1, <2>2, SumStays
    <2> QED BY <2>3 DEF PaidOf
  <1>2. SpentOf' = SpentOf
    BY <1>0 DEF OwnerSteps, SpentOf
  <1>3. ASSUME NEW c \in CapIds, CreateAgentCap(c)
        PROVE  Ledger!Next
    <2>1. caps[c].status = "none" /\ caps' = [caps EXCEPT ![c].status = "active"]
      BY <1>3 DEF CreateAgentCap, SetCap
    <2>2. HomeOf[c] = "none" /\ HomeOf' = [HomeOf EXCEPT ![c] = "vault"]
      BY <1>0, <2>1 DEF HomeOf
    <2>3. Ledger!Admit(c, "vault", CapLimit)
      BY <1>1, <1>2, <2>2
      DEF Ledger!Admit, PaidOf, HomeOf, SpentOf, Sum, AmountOf, DebitedTo
    <2> QED BY <2>3 DEF Ledger!Next
  <1>4. ASSUME ~ \E c \in CapIds : CreateAgentCap(c)
        PROVE  UNCHANGED Ledger!vars
    <2>1. \A c \in CapIds : caps'[c].status = "none" <=> caps[c].status = "none"
      <3>1. CASE \E c \in CapIds : RevokeAgentCap(c)
        BY <1>0, <3>1 DEF RevokeAgentCap, SetCap
      <3>2. CASE ~ \E c \in CapIds : RevokeAgentCap(c)
        <4>1. caps' = caps
          BY <1>4, <3>2
          DEF OwnerNext, PauseAgent, ResumeAgent, RevokeAgent, SetAgent, RevokeKeys,
              RevokeCapabilities, SetApprovalMode, PauseVault, UnpauseVault, Deposit, SetVault,
              RecordDeposit, AbandonOwner, NextDay, vars, tables, walletTables
        <4> QED BY <4>1
      <3> QED BY <3>1, <3>2
    <2>2. HomeOf' = HomeOf
      BY <2>1 DEF HomeOf
    <2> QED BY <1>1, <1>2, <2>2, LedgerView
  <1> QED BY <1>3, <1>4

\* The UPDATE of vaults is the payment: the only request in flight makes it, so
\* the cap's row has been charged for all the others, and both checks still hold.
LEMMA LedgerPays ==
  ASSUME IInv, RoomInv, CapBook, HandlersFinish, CapsHaveRows, MaxInFlight = 1,
         NEW r \in Requests, HandlerStep(r), Debits(r)
  PROVE  Ledger!Next
  <1> DEFINE p == req[r].cap
             a == req[r].amount
  <1>0. /\ req[r].stage = "vaultRead" /\ req[r].live /\ p \in CapIds /\ a > 0
        /\ a \in Amounts /\ a \in Int
        /\ caps[p].status # "none" /\ req'[r].cap = p /\ req'[r].stage = "debited"
        /\ \A s \in Requests \ {r} : req'[s] = req[s]
    <2>1. Consistent(r) /\ req[r].cap \in CapIds \cup {NoCap} /\ req[r].amount \in Amounts
      BY DEF IInv, TypeOK, ReqType
    <2>2. /\ req[r].stage = "vaultRead" /\ req[r].live
          /\ req'[r].cap = req[r].cap /\ req'[r].stage = "debited"
          /\ \A s \in Requests \ {r} : req'[s] = req[s]
      BY DEF Debits, HandlerStep, Moved
    <2>3. req[r].cap # NoCap /\ req[r].amount > 0
      BY <2>1, <2>2 DEF Consistent, Paying
    <2> QED BY <2>1, <2>2, <2>3, ExecutionAssumption DEF CapsHaveRows
  <1>1. \A s \in Requests : req[s].stage # "debited"
    <2> SUFFICES ASSUME NEW s \in Requests, req[s].stage = "debited" PROVE FALSE
      OBVIOUS
    <2>1. s \in InFlight /\ r \in InFlight /\ s # r
      BY <1>0 DEF HandlersFinish, InFlight, Live
    <2>2. IsFiniteSet(InFlight)
      BY FS_Subset, DueAre, ExecutionAssumption
    <2>3. Cardinality(InFlight \ {r}) = Cardinality(InFlight) - 1 /\ IsFiniteSet(InFlight \ {r})
      BY <2>1, <2>2, FS_RemoveElement
    <2>4. Cardinality(InFlight) <= 1 /\ Cardinality(InFlight) \in Nat
      BY <2>2, FS_CardinalityType DEF RoomInv, FewInFlight
    <2>5. Cardinality(InFlight \ {r}) \in Nat
      BY <2>3, FS_CardinalityType
    <2>6. Cardinality(InFlight \ {r}) = 0
      BY <2>3, <2>4, <2>5
    <2>7. InFlight \ {r} = {}
      BY <2>3, <2>6, FS_EmptySet
    <2> QED BY <2>1, <2>7
  <1>2. \A c \in CapIds : DebitedTo(c) = ChargedTo(c)
    BY <1>1 DEF DebitedTo, ChargedTo, Charged, Debited
  <1>3. PaidOf[p] = caps[p].spent /\ caps[p].spent \in Int
    <2>1. SumFunctionOnSet(AmountOf, DebitedTo(p)) = SumFunctionOnSet(AmountOf, ChargedTo(p))
      <3>1. DebitedTo(p) = ChargedTo(p)
        BY <1>0, <1>2
      <3> QED BY <3>1, Zenon
    <2>2. caps \in [CapIds -> [spent : Nat, status : {"none", "active", "revoked"}]]
      BY DEF IInv, TypeOK
    <2> QED BY <1>0, <2>1, <2>2 DEF PaidOf, CapBook
  <1>4. WeightOf[r] = a /\ \A s \in Requests : WeightOf[s] \in Nat
    BY <1>0, WeightsAre
  <1>5. \A P \in SUBSET Requests : r \in P => SumFunctionOnSet(WeightOf, P) \in Int
                                             /\ a <= SumFunctionOnSet(WeightOf, P)
    <2> SUFFICES ASSUME NEW P \in SUBSET Requests, r \in P
                 PROVE  /\ SumFunctionOnSet(WeightOf, P) \in Int
                        /\ a <= SumFunctionOnSet(WeightOf, P)
      OBVIOUS
    <2>1. SumFunctionOnSet(WeightOf, P) = WeightOf[r] + SumFunctionOnSet(WeightOf, P \ {r})
      <3>1. \A s \in Requests : WeightOf[s] \in Int
        BY <1>4
      <3> QED BY <3>1, SumRemove, ExecutionAssumption
    <2>2. SumFunctionOnSet(WeightOf, P \ {r}) \in Nat
      <3>1. P \ {r} \in SUBSET Requests
        OBVIOUS
      <3> QED BY <1>4, <3>1, SumMonotone, ExecutionAssumption
    <2> QED BY <1>0, <1>4, <2>1, <2>2
  <1>6. /\ r \in DueToCap(p) /\ DueToCap(p) \in SUBSET Requests
        /\ r \in DueToVault /\ DueToVault \in SUBSET Requests
    BY <1>0 DEF DueToCap, DueToVault, At, Live
  <1>7. (MaxInFlight - 1) * MaxPerTx = 0
    <2>1. \A m \in Nat : (1 - 1) * m = 0
      OBVIOUS
    <2> QED BY <2>1, ExecutionAssumption
  <1>8. caps[p].spent + a <= CapLimit
    <2>1. caps[p].spent + SumFunctionOnSet(WeightOf, DueToCap(p)) <= CapLimit
      <3>1. caps[p].spent + SumFunctionOnSet(WeightOf, DueToCap(p))
              <= CapLimit + (MaxInFlight - 1) * MaxPerTx
        BY <1>0 DEF RoomInv, CapRoom
      <3> QED BY <1>7, <3>1, ExecutionAssumption
    <2>2. /\ SumFunctionOnSet(WeightOf, DueToCap(p)) \in Int
          /\ a <= SumFunctionOnSet(WeightOf, DueToCap(p))
      BY <1>5, <1>6
    <2> QED BY <1>0, <1>3, <2>1, <2>2, ExecutionAssumption
  <1>9. vault.totalSpent + a <= Budget /\ vault.totalSpent \in Int
    <2>1. vault.totalSpent + SumFunctionOnSet(WeightOf, DueToVault) <= Budget
      <3>1. vault.totalSpent + SumFunctionOnSet(WeightOf, DueToVault)
              <= Budget + (MaxInFlight - 1) * MaxPerTx
        BY DEF RoomInv, VaultRoom
      <3> QED BY <1>7, <3>1, ExecutionAssumption
    <2>2. /\ SumFunctionOnSet(WeightOf, DueToVault) \in Int
          /\ a <= SumFunctionOnSet(WeightOf, DueToVault)
      BY <1>5, <1>6
    <2>3. vault.totalSpent \in Int
      BY DEF IInv, TypeOK
    <2> QED BY <1>0, <2>1, <2>2, <2>3, ExecutionAssumption
  <1>10. /\ vault'.totalSpent = vault.totalSpent + a /\ HomeOf' = HomeOf
    BY DEF Debits, DebitedVault, IInv, TypeOK, HomeOf
  <1>11. PaidOf' = [PaidOf EXCEPT ![p] = @ + a]
    <2>1. AmountOf' = AmountOf
      BY AmountsStay
    <2>2. r \notin Debited /\ Debited' = Debited \cup {r}
      BY PaidGrows
    <2>3. /\ DebitedTo(p)' = {s \in Debited' : req'[s].cap = p'}
          /\ p' = p
      BY <1>0 DEF DebitedTo
    <2>4. \A c \in CapIds :
             SumFunctionOnSet(AmountOf', DebitedTo(c)')
               = IF c = p THEN PaidOf[c] + a ELSE PaidOf[c]
      <3> SUFFICES ASSUME NEW c \in CapIds
                   PROVE  SumFunctionOnSet(AmountOf', DebitedTo(c)')
                            = IF c = p THEN PaidOf[c] + a ELSE PaidOf[c]
        OBVIOUS
      <3>0. Debited \subseteq Requests /\ PaidOf[c] = SumFunctionOnSet(AmountOf, DebitedTo(c))
        BY DEF Debited, PaidOf
      <3>1. CASE c = p
        <4>1. DebitedTo(c)' = DebitedTo(c) \cup {r} /\ r \notin DebitedTo(c)
          BY <1>0, <2>2, <3>0, <3>1 DEF DebitedTo
        <4>2. DebitedTo(c) \in SUBSET Requests
          BY <3>0 DEF DebitedTo
        <4>3. SumFunctionOnSet(AmountOf', DebitedTo(c)')
                = SumFunctionOnSet(AmountOf, DebitedTo(c)) + req[r].amount
          BY <2>1, <4>1, <4>2, SumOfOneMore
        <4> QED BY <3>0, <3>1, <4>3
      <3>2. CASE c # p
        <4>1. DebitedTo(c)' = DebitedTo(c)
          BY <1>0, <2>2, <3>0, <3>2 DEF DebitedTo
        <4>2. SumFunctionOnSet(AmountOf', DebitedTo(c)')
                = SumFunctionOnSet(AmountOf, DebitedTo(c))
          BY <2>1, <4>1, SumStays
        <4> QED BY <3>0, <3>2, <4>2
      <3> QED BY <3>1, <3>2
    <2> QED BY <1>0, <2>4 DEF PaidOf
  <1>12. Ledger!Pay(p, "vault", a)
    <2>1. /\ HomeOf[p] = "vault" /\ SpentOf["vault"] = vault.totalSpent
          /\ SpentOf' = [SpentOf EXCEPT !["vault"] = @ + a]
      BY <1>0, <1>10 DEF HomeOf, SpentOf
    <2>2. PaidOf[p] + a <= CapLimit
      BY <1>3, <1>8
    <2> HIDE DEF p, a
    <2> QED BY <1>0, <1>9, <1>10, <1>11, <2>1, <2>2
            DEF Ledger!Pay, PaidOf, HomeOf, SpentOf, Sum, AmountOf, DebitedTo
  <1> QED BY <1>0, <1>12 DEF Ledger!Next

\* "WalletService mirrors Move logic": where requests come one at a time and no
\* handler is lost, the API's tables implement the ledger of the Move wallet.
THEOREM OneAtATimeImplementsLedger ==
  ASSUME MaxInFlight = 1, MaxFaults = 0
  PROVE  Spec => ImplementsLedger
  <1>1. Init => HandlersFinish /\ CapsHaveRows /\ RoomInv /\ CapBook /\ Ledger!Init
    <2> SUFFICES ASSUME Init PROVE HandlersFinish /\ CapsHaveRows /\ CapBook /\ Ledger!Init
      BY RoomAtStart
    <2>1. HandlersFinish /\ CapsHaveRows
      BY DEF Init, HandlersFinish, CapsHaveRows
    <2>2. Debited = {}
      BY DEF Init, Debited
    <2>3. \A c \in CapIds : SumFunctionOnSet(AmountOf, DebitedTo(c)) = 0
      <3>1. \A c \in CapIds : DebitedTo(c) = {}
        BY <2>2 DEF DebitedTo
      <3>2. SumFunctionOnSet(AmountOf, {}) = 0
        BY SumEmpty
      <3> QED BY <3>1, <3>2
    <2>4. /\ PaidOf = [c \in CapIds |-> 0]
          /\ HomeOf \in [CapIds -> {"vault"} \cup {"none"}]
          /\ SpentOf = [v \in {"vault"} |-> 0]
      BY <2>3 DEF PaidOf, HomeOf, SpentOf, Init
    <2>5. Ledger!Init
      BY <2>4 DEF Ledger!Init, PaidOf, HomeOf, SpentOf, Sum, AmountOf, DebitedTo
    <2> QED BY <2>1, <2>5, BooksAtStart
  <1>2. IInv /\ HandlersFinish /\ CapsHaveRows /\ RoomInv /\ CapBook /\ [Next]_vars
          => (HandlersFinish /\ CapsHaveRows /\ RoomInv /\ CapBook)'
    BY FinishStep, CapsHaveRowsStep, RoomStep, CapBookStep
  <1>3. IInv /\ HandlersFinish /\ CapsHaveRows /\ RoomInv /\ CapBook /\ [Next]_vars
          => [Ledger!Next]_(Ledger!vars)
    <2> SUFFICES ASSUME IInv, HandlersFinish, CapsHaveRows, RoomInv, CapBook, [Next]_vars
                 PROVE  Ledger!Next \/ UNCHANGED Ledger!vars
      OBVIOUS
    <2>1. ASSUME NEW r \in Requests, Authenticate(r) \/ Handle(r) \/ Abandon(r)
          PROVE  Ledger!Next \/ UNCHANGED Ledger!vars
      BY <2>1, HandlerSteps, LedgerPays, LedgerQuiet
    <2>2. CASE OwnerNext \/ AbandonOwner \/ NextDay \/ UNCHANGED vars
      BY <2>2, LedgerOwner
    <2> QED BY <2>1, <2>2 DEF Next
  <1> QED BY <1>1, <1>2, <1>3, ExecutionInvariant, PTL DEF Spec, ImplementsLedger, Ledger!Spec
=============================================================================
