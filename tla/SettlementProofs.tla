-------------------------- MODULE SettlementProofs --------------------------
(* Proofs about the live mode, for every value of the constants. *)
EXTENDS Settlement, SumLemmas, TLAPS

Verified == INSTANCE VaultProofs

-----------------------------------------------------------------------------
(* The handlers: what the API and the runner know of each other. *)

\* What the stage of a request says of its cap and of the runner.
Asked(r) ==
    /\ runner[r] # "idle" => OnChain(req[r].cap)
    /\ req[r].stage \in {"new", "withdrawing", "outside"} =>
           req[r].cap = NoRow /\ runner[r] = "idle"
    /\ req[r].stage = "capRead" => req[r].cap \in Rows /\ runner[r] = "idle"
    /\ req[r].stage = "posted" => req[r].cap \in Rows /\ OnChain(req[r].cap)
    /\ \/ req[r].stage \in {"paid", "debited", "capCharged"}
       \/ req[r].stage = "done" /\ req[r].cap # NoRow
       => req[r].cap \in Rows /\ (runner[r] = "executed" \/ ~OnChain(req[r].cap))

HandlerInv ==
    /\ req \in [Requests -> ReqType]
    /\ runner \in [Requests -> {"idle", "posted", "executed", "failed"}]
    /\ withdrawRows \subseteq Charged
    /\ \A r \in Requests : Asked(r)

USE DEF At, Goto, Refuse, OnChain, Debited, Charged

LEMMA HandlerInit == Init => HandlerInv
  BY DEF Init, HandlerInv, Asked, ReqType, Stages

LEMMA OneRequestMoves ==
  ASSUME HandlerInv, NEW r \in Requests, NEW q \in ReqType,
         NEW state \in {"idle", "posted", "executed", "failed"},
         req' = [req EXCEPT ![r] = q], runner' = [runner EXCEPT ![r] = state],
         withdrawRows' \in {withdrawRows, withdrawRows \cup {r}},
         Asked(r)', r \in withdrawRows' => (r \in Charged)'
  PROVE  HandlerInv'
  <1>1. req' \in [Requests -> ReqType] /\ req'[r] = q
    BY DEF HandlerInv
  <1>2. runner' \in [Requests -> {"idle", "posted", "executed", "failed"}]
    BY DEF HandlerInv
  <1>3. \A s \in Requests \ {r} : req'[s] = req[s] /\ runner'[s] = runner[s]
    BY DEF HandlerInv
  <1>4. \A s \in Requests : Asked(s)'
    BY <1>3 DEF HandlerInv, Asked
  <1>5. (withdrawRows \subseteq Charged)'
    BY <1>3 DEF HandlerInv
  <1> QED BY <1>1, <1>2, <1>4, <1>5 DEF HandlerInv

LEMMA HandlerStep ==
  ASSUME HandlerInv, NEW r \in Requests,
         Handle(r) \/ RunnerExecutes(r) \/ RunnerFails(r)
  PROVE  HandlerInv'
  <1>0. /\ req[r] \in ReqType /\ req \in [Requests -> ReqType]
        /\ runner[r] \in {"idle", "posted", "executed", "failed"}
        /\ runner = [runner EXCEPT ![r] = runner[r]]
        /\ NoRow \notin Rows /\ CapIds \cap LocalCaps = {} /\ cap0 \in CapIds
    BY SettlementAssumption DEF HandlerInv, Rows
  <1>a. Asked(r) /\ (r \in withdrawRows => r \in Charged)
    BY DEF HandlerInv
  <1>1. ASSUME NEW stage \in Stages, Goto(r, stage), UNCHANGED <<runner, withdrawRows>>,
               \/ stage \in {"withdrawing", "outside"} /\ req[r].stage = "new"
               \/ /\ stage = "paid"
                  /\ \/ req[r].stage = "capRead" /\ ~OnChain(req[r].cap)
                     \/ req[r].stage = "posted" /\ runner[r] = "executed"
               \/ stage = "debited" /\ req[r].stage = "paid"
               \/ stage = "capCharged" /\ req[r].stage = "debited"
        PROVE  HandlerInv'
    <2> DEFINE q == [req[r] EXCEPT !.stage = stage]
    <2>1. q \in ReqType /\ req' = [req EXCEPT ![r] = q] /\ req'[r] = q
      BY <1>0, <1>1 DEF ReqType
    <2>2. q.cap = req[r].cap /\ q.stage = stage
      BY <1>0 DEF ReqType
    <2>3. Asked(r)' /\ r \notin withdrawRows
      BY <1>0, <1>a, <1>1, <2>1, <2>2 DEF Asked, Rows
    <2> QED BY <1>0, <1>1, <2>1, <2>3, OneRequestMoves
  <1>2. ASSUME Refuse(r), UNCHANGED <<runner, withdrawRows>>
        PROVE  HandlerInv'
    <2> DEFINE q == [req[r] EXCEPT !.live = FALSE]
    <2>1. q \in ReqType /\ req' = [req EXCEPT ![r] = q] /\ req'[r] = q
      BY <1>0, <1>2 DEF ReqType
    <2>2. q.cap = req[r].cap /\ q.stage = req[r].stage
      BY <1>0 DEF ReqType
    <2>3. Asked(r)' /\ (r \in withdrawRows' => (r \in Charged)')
      BY <1>a, <1>2, <2>1, <2>2 DEF Asked
    <2> QED BY <1>0, <1>2, <2>1, <2>3, OneRequestMoves
  <1>3. CASE ExecuteOutsideVault(r)
    <2> DEFINE q == [req[r] EXCEPT !.stage = "done", !.live = FALSE]
    <2>1. q \in ReqType /\ req' = [req EXCEPT ![r] = q] /\ req'[r] = q
      BY <1>0, <1>3 DEF ExecuteOutsideVault, ReqType, Stages
    <2>2. q.cap = req[r].cap /\ q.stage = "done"
      BY <1>0 DEF ReqType
    <2>3. Asked(r)' /\ r \notin withdrawRows'
      BY <1>0, <1>a, <1>3, <2>1, <2>2 DEF ExecuteOutsideVault, Asked, database
    <2> QED BY <1>0, <1>3, <2>1, <2>3, OneRequestMoves DEF ExecuteOutsideVault, database
  <1>4. CASE RecordWithdraw(r)
    <2> DEFINE q == [req[r] EXCEPT !.stage = "done", !.live = FALSE]
    <2>1. q \in ReqType /\ req' = [req EXCEPT ![r] = q] /\ req'[r] = q
      BY <1>0, <1>4 DEF RecordWithdraw, ReqType, Stages
    <2>2. q.cap = req[r].cap /\ q.stage = "done"
      BY <1>0 DEF ReqType
    <2>3. req[r].cap \in Rows
      BY <1>a, <1>0, <1>4 DEF RecordWithdraw, Asked
    <2>4. Asked(r)' /\ (r \in Charged)'
      <3>1. /\ req'[r].cap = req[r].cap /\ req'[r].stage = "done"
            /\ runner' = runner /\ req[r].cap # NoRow
        BY <1>0, <1>4, <2>1, <2>2, <2>3 DEF RecordWithdraw
      <3>2. /\ runner[r] # "idle" => OnChain(req[r].cap)
            /\ runner[r] = "executed" \/ ~OnChain(req[r].cap)
        BY <1>a, <1>4 DEF RecordWithdraw, Asked
      <3>3. Asked(r)'
        BY <2>3, <3>1, <3>2 DEF Asked
      <3>4. (r \in Charged)'
        BY <3>1
      <3> QED BY <3>3, <3>4
    <2>5. withdrawRows' = withdrawRows \cup {r} /\ runner' = [runner EXCEPT ![r] = runner[r]]
      BY <1>0, <1>4 DEF RecordWithdraw
    <2> HIDE DEF q, Charged, Debited
    <2> QED BY <1>0, <2>1, <2>4, <2>5, OneRequestMoves
  <1>5. ASSUME NEW c \in Rows, At(r, "withdrawing"), UNCHANGED <<runner, withdrawRows>>,
               req' = [req EXCEPT ![r].stage = "capRead", ![r].cap = c]
        PROVE  HandlerInv'
    <2> DEFINE q == [req[r] EXCEPT !.stage = "capRead", !.cap = c]
    <2>1. q \in ReqType /\ req' = [req EXCEPT ![r] = q] /\ req'[r] = q
      BY <1>0, <1>5 DEF ReqType, Stages
    <2>2. q.cap = c /\ q.stage = "capRead"
      BY <1>0 DEF ReqType
    <2>3. Asked(r)' /\ r \notin withdrawRows'
      BY <1>0, <1>a, <1>5, <2>1, <2>2 DEF Asked
    <2> QED BY <1>0, <1>5, <2>1, <2>3, OneRequestMoves
  <1>6. ASSUME At(r, "capRead"), OnChain(req[r].cap), Goto(r, "posted"),
               runner' = [runner EXCEPT ![r] = "posted"], UNCHANGED withdrawRows
        PROVE  HandlerInv'
    <2> DEFINE q == [req[r] EXCEPT !.stage = "posted"]
    <2>1. q \in ReqType /\ req' = [req EXCEPT ![r] = q] /\ req'[r] = q
      BY <1>0, <1>6 DEF ReqType, Stages
    <2>2. q.cap = req[r].cap /\ q.stage = "posted"
      BY <1>0 DEF ReqType
    <2>3. Asked(r)' /\ r \notin withdrawRows'
      BY <1>0, <1>a, <1>6, <2>1, <2>2 DEF Asked
    <2> QED BY <1>0, <1>6, <2>1, <2>3, OneRequestMoves
  <1>7. ASSUME NEW state \in {"executed", "failed"}, runner[r] = "posted",
               runner' = [runner EXCEPT ![r] = state], UNCHANGED <<req, withdrawRows>>
        PROVE  HandlerInv'
    <2>1. Asked(r)' /\ (r \in withdrawRows' => (r \in Charged)')
      BY <1>0, <1>a, <1>7 DEF Asked, HandlerInv
    <2>2. req = [req EXCEPT ![r] = req[r]]
      BY <1>0
    <2> QED BY <1>0, <1>7, <2>1, <2>2, OneRequestMoves
  <1>8. ASSUME Dispatch(r) PROVE HandlerInv'
    BY <1>1, <1>8 DEF Dispatch, database, Stages
  <1>9. ASSUME ReadCap(r) PROVE HandlerInv'
    BY <1>2, <1>5, <1>9 DEF ReadCap, database
  <1>10. ASSUME ReadVault(r) PROVE HandlerInv'
    BY <1>1, <1>2, <1>6, <1>10 DEF ReadVault, database, Stages
  <1>11. ASSUME ReceiveDigest(r) \/ DebitVault(r) \/ ChargeCap(r) PROVE HandlerInv'
    BY <1>1, <1>11 DEF ReceiveDigest, DebitVault, ChargeCap, database, Stages
  <1>12. ASSUME ReceiveError(r) \/ LoseAnswer(r) \/ Abandon(r) PROVE HandlerInv'
    BY <1>2, <1>12 DEF ReceiveError, LoseAnswer, Abandon, database
  <1>13. ASSUME RunnerExecutes(r) \/ RunnerFails(r) PROVE HandlerInv'
    BY <1>7, <1>13 DEF RunnerExecutes, RunnerFails, database
  <1> QED
    BY <1>3, <1>4, <1>8, <1>9, <1>10, <1>11, <1>12, <1>13 DEF Handle

\* The other steps leave requests, the runner and the withdraw rows alone.
LEMMA HandlersLeftAlone ==
  ASSUME HandlerInv, UNCHANGED <<req, runner, withdrawRows>>
  PROVE  HandlerInv'
  BY DEF HandlerInv, Asked

LEMMA HandlerInductive == Spec => []HandlerInv
  <1>1. HandlerInv /\ [Next]_vars => HandlerInv'
    <2> SUFFICES ASSUME HandlerInv, [Next]_vars PROVE HandlerInv'
      OBVIOUS
    <2>1. CASE \E r \in Requests : Handle(r) \/ RunnerExecutes(r) \/ RunnerFails(r)
      BY <2>1, HandlerStep
    <2>2. CASE SignVault \/ SignCap \/ CompleteSetup \/ LeaveSetup
      BY <2>2, HandlersLeftAlone
      DEF SignVault, SignCap, CompleteSetup, LeaveSetup, database
    <2>3. CASE OthersOnChain \/ Tick \/ UNCHANGED vars
      BY <2>3, HandlersLeftAlone DEF OthersOnChain, Tick, vars, database
    <2>4. CASE \/ \E a \in Amounts \ {0} : DepositInApi(a)
               \/ \E c \in LocalCaps : CreateCapInApi(c)
               \/ \E c \in Rows : RevokeCapInApi(c)
      BY <2>4, HandlersLeftAlone DEF DepositInApi, CreateCapInApi, RevokeCapInApi
    <2> QED BY <2>1, <2>2, <2>3, <2>4 DEF Next
  <1> QED BY <1>1, HandlerInit, PTL DEF Spec

\* No request is debited from the rows before the chain has paid it, or without.
THEOREM LiveDebitsWerePaid == Spec => []DebitsWerePaid
  <1>1. HandlerInv => DebitsWerePaid
    BY DEF HandlerInv, Asked, DebitsWerePaid, Executed, ByRowsOnly
  <1> QED BY <1>1, HandlerInductive, PTL

-----------------------------------------------------------------------------
(* Every step is a call of the Move wallet or leaves the chain alone. *)

LEMMA ChainMoves ==
  ASSUME [Next]_vars
  PROVE  \/ OthersOnChain \/ SignVault \/ SignCap \/ Tick
         \/ \E r \in Requests : RunnerExecutes(r)
         \/ UNCHANGED chain
  <1>1. ASSUME NEW r \in Requests, Handle(r) \/ RunnerFails(r)
        PROVE  UNCHANGED chain
    BY <1>1 DEF Handle, Dispatch, ExecuteOutsideVault, ReadCap, ReadVault, ReceiveDigest,
                ReceiveError, LoseAnswer, DebitVault, ChargeCap, RecordWithdraw, Abandon,
                RunnerFails
  <1>2. ASSUME \/ CompleteSetup \/ LeaveSetup
               \/ \E a \in Amounts \ {0} : DepositInApi(a)
               \/ \E c \in LocalCaps : CreateCapInApi(c)
               \/ \E c \in Rows : RevokeCapInApi(c)
               \/ UNCHANGED vars
        PROVE  UNCHANGED chain
    BY <1>2 DEF CompleteSetup, LeaveSetup, DepositInApi, CreateCapInApi, RevokeCapInApi, vars
  <1> QED BY <1>1, <1>2 DEF Next

LEMMA ChainStep ==
  ASSUME HandlerInv, [Next]_vars
  PROVE  [Chain!Next]_(Chain!vars)
  <1>1. ASSUME SignVault \/ SignCap
        PROVE  Chain!OwnerStep(owner, v0)
    BY <1>1, SettlementAssumption DEF SignVault, SignCap, Chain!OwnerStep
  <1>2. ASSUME NEW r \in Requests, RunnerExecutes(r)
        PROVE  req[r].cap \in CapIds /\ Chain!AgentStep(req[r].cap)
    BY <1>2, SettlementAssumption
    DEF RunnerExecutes, HandlerInv, Asked, ReqType, Chain!AgentStep
  <1>3. ASSUME UNCHANGED chain
        PROVE  UNCHANGED Chain!vars
    BY <1>3 DEF chain, Chain!vars
  <1>4. ASSUME OthersOnChain
        PROVE  Chain!Next
    BY <1>4 DEF OthersOnChain, Chain!Next
  <1> QED BY <1>1, <1>2, <1>3, <1>4, ChainMoves, SettlementAssumption DEF Tick, Chain!Next

LEMMA ChainFollowsVault == Spec => Chain!Spec
  <1>1. Init => Chain!Init
    BY DEF Init
  <1> QED BY <1>1, ChainStep, HandlerInductive, PTL DEF Spec, Chain!Spec

\* Module Vault under its two names.
LEMMA SameChain ==
    /\ Chain!Init <=> Verified!Init
    /\ Chain!Next <=> Verified!Next
    /\ Chain!vars = Verified!vars
    /\ Chain!WithdrawalsKeepTerms <=> Verified!WithdrawalsKeepTerms
  <1>1. Chain!Init <=> Verified!Init
    BY DEF Chain!Init, Verified!Init, Chain!NewVault, Verified!NewVault,
           Chain!NewAgentCap, Verified!NewAgentCap
  <1>2. Chain!Next <=> Verified!Next
    BY DEF Chain!Next, Verified!Next, Chain!AnyoneStep, Verified!AnyoneStep,
           Chain!OwnerStep, Verified!OwnerStep, Chain!RecordSpend, Verified!RecordSpend,
           Chain!TakeBalance, Verified!TakeBalance,
           Chain!AgentStep, Verified!AgentStep, Chain!Tick, Verified!Tick,
           Chain!CreateVault, Verified!CreateVault, Chain!Deposit, Verified!Deposit,
           Chain!OwnerWithdraw, Verified!OwnerWithdraw, Chain!Pause, Verified!Pause,
           Chain!Unpause, Verified!Unpause, Chain!UpdateBudget, Verified!UpdateBudget,
           Chain!RevokeAgentCap, Verified!RevokeAgentCap, Chain!CreateAgentCap,
           Verified!CreateAgentCap, Chain!TransferAgentCap, Verified!TransferAgentCap,
           Chain!AgentWithdraw, Verified!AgentWithdraw, Chain!Created, Verified!Created,
           Chain!Issued, Verified!Issued, Chain!AssertOwner, Verified!AssertOwner,
           Chain!IsActive, Verified!IsActive, Chain!IsCapRevoked, Verified!IsCapRevoked,
           Chain!BalanceCovers, Verified!BalanceCovers, Chain!BelongsTo,
           Verified!BelongsTo, Chain!CooledDown, Verified!CooledDown, Chain!WithinLimit,
           Verified!WithinLimit, Chain!WithinBudget, Verified!WithinBudget,
           Chain!ValidateWithdraw, Verified!ValidateWithdraw, Chain!PaidVault,
           Verified!PaidVault, Chain!ChargedCap, Verified!ChargedCap, Chain!NewVault,
           Verified!NewVault, Chain!NewAgentCap, Verified!NewAgentCap
  <1>3. Chain!vars = Verified!vars
    BY DEF Chain!vars, Verified!vars
  <1>4. Chain!WithdrawalsKeepTerms <=> Verified!WithdrawalsKeepTerms
    BY DEF Chain!WithdrawalsKeepTerms, Verified!WithdrawalsKeepTerms, Chain!KeepsTerms,
           Verified!KeepsTerms, Chain!Issued, Verified!Issued
  <1> QED BY <1>1, <1>2, <1>3, <1>4

LEMMA ChainInvariant == Spec => []Verified!IInv
  <1>1. Verified!Spec => []Verified!IInv
    <2>1. Verified!IsFiniteSet(CapIds) <=> Chain!IsFiniteSet(CapIds)
      BY DEF Verified!IsFiniteSet, Chain!IsFiniteSet
    <2> QED BY <2>1, Verified!Inductive, ChainAssumption
            DEF Chain!ConstantsAssumption, Chain!TermsType, Verified!TermsType
  <1>2. Chain!Spec => Verified!Spec
    <2>1. [Chain!Next]_(Chain!vars) => [Verified!Next]_(Verified!vars)
      BY SameChain DEF Chain!vars, Verified!vars
    <2> QED BY <2>1, SameChain, PTL DEF Chain!Spec, Verified!Spec
  <1> QED BY <1>1, <1>2, ChainFollowsVault, PTL

\* Facts about single steps, carried over.
LEMMA VerifiedStep ==
  ASSUME Verified!IInv, Verified!Next
  PROVE  Verified!TypeOK' /\ (Verified!Withdrawal \/ Verified!NothingSpent)
  <1>1. Verified!IsFiniteSet(CapIds) <=> Chain!IsFiniteSet(CapIds)
    BY DEF Verified!IsFiniteSet, Chain!IsFiniteSet
  <1>2. Verified!TypeOK /\ Verified!BlankUntilCreated
    BY DEF Verified!IInv
  <1>3. Verified!TypeOK'
    BY <1>1, <1>2, Verified!TypeOKStep, ChainAssumption
    DEF Chain!ConstantsAssumption, Chain!TermsType, Verified!TermsType
  <1>4. Verified!Withdrawal \/ Verified!NothingSpent
    BY <1>1, <1>2, Verified!SpendOrNot, ChainAssumption
    DEF Chain!ConstantsAssumption, Chain!TermsType, Verified!TermsType
  <1> QED BY <1>3, <1>4

LEMMA VerifiedWithdrawal ==
  ASSUME Verified!TypeOK, NEW c \in CapIds, NEW v \in VaultIds, NEW a \in Amounts,
         NEW x \in Actions, Verified!AgentWithdraw(c, v, a, x)
  PROVE  /\ a > 0 /\ a \in Nat
         /\ vault'[v].totalSpent = vault[v].totalSpent + a
         /\ \A w \in VaultIds \ {v} : vault'[w] = vault[w]
  <1>1. Verified!IsFiniteSet(CapIds) <=> Chain!IsFiniteSet(CapIds)
    BY DEF Verified!IsFiniteSet, Chain!IsFiniteSet
  <1> QED BY <1>1, Verified!WithdrawalIsDoubleEntry, ChainAssumption
          DEF Chain!ConstantsAssumption, Chain!TermsType, Verified!TermsType

\* So what is proved of the Move wallet holds in the live mode: every payment
\* the runner makes keeps the terms of its cap.
THEOREM LivePaymentsKeepTerms == Spec => []Chain!WithdrawalsKeepTerms
  <1>1. Verified!IInv => Verified!WithdrawalsKeepTerms
    BY DEF Verified!IInv
  <1> QED BY <1>1, ChainInvariant, SameChain, PTL

-----------------------------------------------------------------------------
(* The books: what the rows say, what the chain says, and who has asked. *)

HIDE DEF At, Goto, Refuse, Debited, Charged

AmountOf == [r \in Requests |-> req[r].amount]
ChargedToCap == {r \in Charged : req[r].cap = cap0}

RowsType ==
    /\ row \in [balance : Int, totalSpent : Int]
    /\ caps \in [Rows -> [spent : Int, status : {"none", "active", "revoked"}, createdAt : Nat]]

\* Neither what a request asks for nor, once read, its cap changes.
RequestsKeep ==
    \A r \in Requests :
        /\ req'[r].amount = req[r].amount /\ req'[r].action = req[r].action
        /\ req[r].cap # NoRow => req'[r].cap = req[r].cap

RowsRest ==
    /\ row'.totalSpent = row.totalSpent
    /\ \A c \in Rows : caps'[c].spent = caps[c].spent

SetsRest == Executed' = Executed /\ Debited' = Debited /\ Charged' = Charged

LEMMA AmountsAre ==
  ASSUME HandlerInv
  PROVE  \A r \in Requests : /\ AmountOf[r] = req[r].amount
                             /\ req[r].amount \in Nat /\ AmountOf[r] \in Int
                             /\ req[r].amount \in Amounts /\ req[r].action \in Actions
  <1>1. \A r \in Requests : req[r].amount \in Amounts /\ req[r].action \in Actions
    BY DEF HandlerInv, ReqType
  <1>2. Amounts \subseteq Nat
    BY ChainAssumption DEF Chain!ConstantsAssumption
  <1>3. \A r \in Requests : AmountOf[r] = req[r].amount
    BY DEF AmountOf
  <1> SUFFICES ASSUME NEW r \in Requests PROVE req[r].amount \in Nat
    BY <1>1, <1>3
  <1>4. req[r].amount \in Amounts
    BY <1>1
  <1> QED BY <1>2, <1>4

\* A handler's step on one request, by the stage it reaches.
LEMMA MoveOfOne ==
  ASSUME HandlerInv, NEW r \in Requests, NEW q \in ReqType,
         req' = [req EXCEPT ![r] = q],
         q.amount = req[r].amount, q.action = req[r].action,
         req[r].cap # NoRow => q.cap = req[r].cap
  PROVE  /\ RequestsKeep
         /\ \A s \in Requests \ {r} : req'[s] = req[s]
         /\ req'[r] = q
  BY DEF HandlerInv, RequestsKeep

LEMMA HandleMoves ==
  ASSUME HandlerInv, NEW r \in Requests, Handle(r)
  PROVE  /\ RequestsKeep
         /\ \A s \in Requests \ {r} : req'[s] = req[s]
         /\ \/ DebitVault(r) \/ ChargeCap(r)
            \/ /\ (r \in Debited)' <=> r \in Debited
               /\ (r \in Charged)' <=> r \in Charged
  <1> USE DEF At, Goto, Refuse
  <1>0. /\ req[r] \in ReqType /\ req \in [Requests -> ReqType]
        /\ NoRow \notin Rows /\ Asked(r)
    BY SettlementAssumption DEF HandlerInv, Rows
  <1>1. ASSUME NEW stage \in Stages, Goto(r, stage)
        PROVE  /\ RequestsKeep
               /\ \A s \in Requests \ {r} : req'[s] = req[s]
               /\ req'[r].stage = stage /\ req'[r].cap = req[r].cap
    <2> DEFINE q == [req[r] EXCEPT !.stage = stage]
    <2>1. /\ q \in ReqType /\ q.stage = stage
          /\ q.amount = req[r].amount /\ q.action = req[r].action /\ q.cap = req[r].cap
      BY <1>0 DEF ReqType
    <2>2. req' = [req EXCEPT ![r] = q]
      BY <1>1
    <2> HIDE DEF q
    <2> QED BY <2>1, <2>2, MoveOfOne
  <1>2. CASE Refuse(r)
    <2> DEFINE q == [req[r] EXCEPT !.live = FALSE]
    <2>1. /\ q \in ReqType /\ q.stage = req[r].stage
          /\ q.amount = req[r].amount /\ q.action = req[r].action /\ q.cap = req[r].cap
      BY <1>0 DEF ReqType
    <2>2. req' = [req EXCEPT ![r] = q]
      BY <1>2
    <2> HIDE DEF q
    <2>3. /\ RequestsKeep /\ \A s \in Requests \ {r} : req'[s] = req[s]
          /\ req'[r].stage = req[r].stage /\ req'[r].cap = req[r].cap
      BY <2>1, <2>2, MoveOfOne
    <2> QED BY <2>3 DEF Debited, Charged
  <1>3. CASE ExecuteOutsideVault(r) \/ RecordWithdraw(r)
    <2> DEFINE q == [req[r] EXCEPT !.stage = "done", !.live = FALSE]
    <2>1. /\ q \in ReqType /\ q.stage = "done"
          /\ q.amount = req[r].amount /\ q.action = req[r].action /\ q.cap = req[r].cap
      BY <1>0 DEF ReqType, Stages
    <2>2. req' = [req EXCEPT ![r] = q]
      BY <1>3 DEF ExecuteOutsideVault, RecordWithdraw
    <2> HIDE DEF q
    <2>3. /\ RequestsKeep /\ \A s \in Requests \ {r} : req'[s] = req[s]
          /\ req'[r].stage = "done" /\ req'[r].cap = req[r].cap
      BY <2>1, <2>2, MoveOfOne
    <2>4. \/ req[r].stage = "outside" /\ req[r].cap = NoRow
          \/ req[r].stage = "capCharged" /\ req[r].cap # NoRow
      BY <1>0, <1>3 DEF ExecuteOutsideVault, RecordWithdraw, Asked
    <2> QED BY <2>3, <2>4 DEF Debited, Charged
  <1>4. ASSUME NEW c \in Rows, At(r, "withdrawing"),
               req' = [req EXCEPT ![r].stage = "capRead", ![r].cap = c]
        PROVE  /\ RequestsKeep /\ \A s \in Requests \ {r} : req'[s] = req[s]
               /\ (r \in Debited)' <=> r \in Debited
               /\ (r \in Charged)' <=> r \in Charged
    <2> DEFINE q == [req[r] EXCEPT !.stage = "capRead", !.cap = c]
    <2>1. /\ q \in ReqType /\ q.stage = "capRead"
          /\ q.amount = req[r].amount /\ q.action = req[r].action
      BY <1>0 DEF ReqType, Stages
    <2>2. req' = [req EXCEPT ![r] = q]
      BY <1>4
    <2> HIDE DEF q
    <2>3. req[r].cap = NoRow
      BY <1>0, <1>4 DEF Asked
    <2>4. /\ RequestsKeep /\ \A s \in Requests \ {r} : req'[s] = req[s]
          /\ req'[r].stage = "capRead"
      BY <2>1, <2>2, <2>3, MoveOfOne
    <2> QED BY <1>4, <2>4 DEF Debited, Charged
  <1>5. ASSUME Dispatch(r) \/ ReadVault(r) \/ ReceiveDigest(r), ~Refuse(r)
        PROVE  /\ RequestsKeep /\ \A s \in Requests \ {r} : req'[s] = req[s]
               /\ (r \in Debited)' <=> r \in Debited
               /\ (r \in Charged)' <=> r \in Charged
    <2>1. PICK stage \in {"withdrawing", "outside", "posted", "paid"} : Goto(r, stage)
      BY <1>5 DEF Dispatch, ReadVault, ReceiveDigest
    <2>2. /\ RequestsKeep /\ \A s \in Requests \ {r} : req'[s] = req[s]
          /\ req'[r].stage = stage
      BY <1>1, <2>1 DEF Stages
    <2>3. req[r].stage \in {"new", "capRead", "posted"}
      BY <1>5 DEF Dispatch, ReadVault, ReceiveDigest
    <2> QED BY <2>2, <2>3 DEF Debited, Charged
  <1>6. CASE DebitVault(r) \/ ChargeCap(r)
    <2>1. PICK stage \in {"debited", "capCharged"} : Goto(r, stage)
      BY <1>6 DEF DebitVault, ChargeCap
    <2> QED BY <1>1, <1>6, <2>1 DEF Stages
  <1>7. CASE ReadCap(r)
    BY <1>2, <1>4, <1>7 DEF ReadCap
  <1>8. CASE ReceiveError(r) \/ LoseAnswer(r) \/ Abandon(r)
    BY <1>2, <1>8 DEF ReceiveError, LoseAnswer, Abandon
  <1> QED BY <1>2, <1>3, <1>5, <1>6, <1>7, <1>8 DEF Handle

\* What a step does to the rows, and to the sets of requests they add up.
LEMMA RowsMove ==
  ASSUME HandlerInv, RowsType, [Next]_vars
  PROVE  /\ RequestsKeep /\ RowsType'
         /\ \/ \E r \in Requests :
                  /\ RunnerExecutes(r) /\ RowsRest
                  /\ Debited' = Debited /\ Charged' = Charged
                  /\ r \notin Executed /\ Executed' = Executed \cup {r}
            \/ \E r \in Requests :
                  /\ DebitVault(r)
                  /\ row'.totalSpent = row.totalSpent + req[r].amount
                  /\ \A c \in Rows : caps'[c].spent = caps[c].spent
                  /\ Executed' = Executed /\ Charged' = Charged
                  /\ r \notin Debited /\ Debited' = Debited \cup {r}
            \/ \E r \in Requests :
                  /\ ChargeCap(r) /\ req[r].cap \in Rows
                  /\ row'.totalSpent = row.totalSpent
                  /\ \A c \in Rows :
                        caps'[c].spent = IF c = req[r].cap THEN caps[c].spent + req[r].amount
                                                           ELSE caps[c].spent
                  /\ Executed' = Executed /\ Debited' = Debited
                  /\ r \notin Charged /\ Charged' = Charged \cup {r}
            \/ SetsRest /\ RowsRest /\ ~ \E r \in Requests : RunnerExecutes(r)
  <1>0. /\ row \in [balance : Int, totalSpent : Int]
        /\ caps \in [Rows -> [spent : Int, status : {"none", "active", "revoked"},
                              createdAt : Nat]]
    BY DEF RowsType
  <1>a. /\ Debited \subseteq Requests /\ Charged \subseteq Requests /\ Executed \subseteq Requests
        /\ Debited' \subseteq Requests /\ Charged' \subseteq Requests /\ Executed' \subseteq Requests
    BY DEF Debited, Charged, Executed
  <1>b. \A r \in Requests : runner[r] \in {"idle", "posted", "executed", "failed"}
    BY DEF HandlerInv
  <1>c. ASSUME UNCHANGED req
        PROVE  RequestsKeep /\ Debited' = Debited /\ Charged' = Charged
    BY <1>c DEF RequestsKeep, Debited, Charged
  <1>d. ASSUME UNCHANGED runner
        PROVE  Executed' = Executed /\ ~ \E r \in Requests : RunnerExecutes(r)
    <2>1. Executed' = Executed
      BY <1>d DEF Executed
    <2>2. ASSUME NEW r \in Requests, RunnerExecutes(r) PROVE FALSE
      <3>1. runner[r] = "posted" /\ runner' = [runner EXCEPT ![r] = "executed"]
        BY <2>2 DEF RunnerExecutes
      <3> QED BY <1>d, <3>1 DEF HandlerInv
    <2> QED BY <2>1, <2>2
  <1>e. ASSUME UNCHANGED <<row, caps>>
        PROVE  RowsType' /\ RowsRest
    BY <1>e DEF RowsType, RowsRest
  <1>1. ASSUME NEW r \in Requests, RunnerExecutes(r)
        PROVE  /\ RequestsKeep /\ RowsType' /\ RowsRest
               /\ Debited' = Debited /\ Charged' = Charged
               /\ r \notin Executed /\ Executed' = Executed \cup {r}
    <2>1. /\ UNCHANGED <<row, caps, req>> /\ runner[r] = "posted"
          /\ runner' = [runner EXCEPT ![r] = "executed"]
      BY <1>1 DEF RunnerExecutes, database
    <2>2. r \notin Executed /\ Executed' = Executed \cup {r}
      BY <2>1 DEF HandlerInv, Executed
    <2> QED BY <1>c, <1>e, <2>1, <2>2
  <1>2. ASSUME NEW r \in Requests, RunnerFails(r)
        PROVE  /\ RequestsKeep /\ RowsType' /\ RowsRest /\ SetsRest
               /\ ~ \E s \in Requests : RunnerExecutes(s)
    <2>1. /\ UNCHANGED <<row, caps, req>> /\ runner[r] = "posted"
          /\ runner' = [runner EXCEPT ![r] = "failed"]
      BY <1>2 DEF RunnerFails, database
    <2>2. Executed' = Executed
      BY <2>1 DEF HandlerInv, Executed
    <2>3. ASSUME NEW s \in Requests, RunnerExecutes(s) PROVE FALSE
      BY <1>1, <2>2, <2>3
    <2> QED BY <1>c, <1>e, <2>1, <2>2, <2>3 DEF SetsRest
  <1>3. ASSUME NEW r \in Requests, Handle(r)
        PROVE  /\ RequestsKeep /\ RowsType'
               /\ \A s \in Requests \ {r} : req'[s] = req[s]
               /\ Executed' = Executed /\ ~ \E s \in Requests : RunnerExecutes(s)
    <2>1. RequestsKeep /\ \A s \in Requests \ {r} : req'[s] = req[s]
      BY <1>3, HandleMoves
    <2>2. Executed' = Executed /\ ~ \E s \in Requests : RunnerExecutes(s)
      <3>1. CASE ReadVault(r)
        <4>1. Executed' = Executed
          <5>1. \/ runner' = runner
                \/ runner' = [runner EXCEPT ![r] = "posted"] /\ req[r].stage = "capRead"
            BY <3>1 DEF ReadVault, At
          <5>2. req[r].stage = "capRead" => runner[r] = "idle"
            BY DEF HandlerInv, Asked
          <5> QED BY <5>1, <5>2 DEF HandlerInv, Executed
        <4> QED BY <1>1, <4>1
      <3>2. CASE ~ReadVault(r)
        <4>1. runner' = runner
          BY <1>3, <3>2
          DEF Handle, Dispatch, ExecuteOutsideVault, ReadCap, ReceiveDigest, ReceiveError,
              LoseAnswer, DebitVault, ChargeCap, RecordWithdraw, Abandon
        <4> QED BY <1>d, <4>1
      <3> QED BY <3>1, <3>2
    <2>3. RowsType'
      <3>1. CASE DebitVault(r)
        <4>1. req[r].amount \in Int
          BY AmountsAre
        <4>2. row' = [row EXCEPT !.balance = @ - req[r].amount,
                                 !.totalSpent = @ + req[r].amount] /\ caps' = caps
          BY <3>1 DEF DebitVault, DebitedRow
        <4>3. row' \in [balance : Int, totalSpent : Int]
          <5>1. row.balance - req[r].amount \in Int /\ row.totalSpent + req[r].amount \in Int
            BY <1>0, <4>1
          <5> QED BY <1>0, <4>2, <5>1
        <4> QED BY <1>0, <4>2, <4>3 DEF RowsType
      <3>2. CASE ChargeCap(r)
        <4>1. req[r].amount \in Int
          BY AmountsAre
        <4>2. row' = row /\ caps' = [caps EXCEPT ![req[r].cap].spent = @ + req[r].amount]
          BY <3>2 DEF ChargeCap, ChargedCaps
        <4>3. req[r].cap \in Rows
          BY <3>2 DEF ChargeCap, At, HandlerInv, Asked
        <4>4. caps' \in [Rows -> [spent : Int, status : {"none", "active", "revoked"},
                                  createdAt : Nat]]
          BY <1>0, <4>1, <4>2, <4>3
        <4> QED BY <1>0, <4>2, <4>4 DEF RowsType
      <3>3. CASE ~DebitVault(r) /\ ~ChargeCap(r)
        <4>1. UNCHANGED <<row, caps>>
          BY <1>3, <3>3
          DEF Handle, Dispatch, ExecuteOutsideVault, ReadCap, ReadVault, ReceiveDigest,
              ReceiveError, LoseAnswer, RecordWithdraw, Abandon, database
        <4> QED BY <1>e, <4>1
      <3> QED BY <3>1, <3>2, <3>3
    <2> QED BY <2>1, <2>2, <2>3
  <1>4. ASSUME NEW r \in Requests, DebitVault(r)
        PROVE  /\ row'.totalSpent = row.totalSpent + req[r].amount
               /\ \A c \in Rows : caps'[c].spent = caps[c].spent
               /\ Charged' = Charged
               /\ r \notin Debited /\ Debited' = Debited \cup {r}
    <2>1. /\ row' = [row EXCEPT !.balance = @ - req[r].amount,
                                !.totalSpent = @ + req[r].amount]
          /\ caps' = caps /\ req[r].stage = "paid" /\ req[r].cap \in Rows
          /\ req' = [req EXCEPT ![r].stage = "debited"]
      BY <1>4 DEF DebitVault, DebitedRow, At, Goto, HandlerInv, Asked
    <2>2. req[r] \in ReqType /\ req \in [Requests -> ReqType] /\ NoRow \notin Rows
      BY SettlementAssumption DEF HandlerInv, Rows
    <2>3. /\ req'[r].stage = "debited" /\ req'[r].cap = req[r].cap
          /\ \A s \in Requests \ {r} : req'[s] = req[s]
      BY <2>1, <2>2 DEF ReqType
    <2>4. \A s \in Requests : /\ (s \in Debited)' <=> s \in Debited \/ s = r
                              /\ (s \in Charged)' <=> s \in Charged
      BY <2>1, <2>2, <2>3 DEF Debited, Charged
    <2>5. r \notin Debited
      BY <2>1 DEF Debited
    <2> QED BY <1>0, <1>a, <2>1, <2>4, <2>5
  <1>5. ASSUME NEW r \in Requests, ChargeCap(r)
        PROVE  /\ req[r].cap \in Rows
               /\ row'.totalSpent = row.totalSpent
               /\ \A c \in Rows :
                     caps'[c].spent = IF c = req[r].cap THEN caps[c].spent + req[r].amount
                                                        ELSE caps[c].spent
               /\ Debited' = Debited
               /\ r \notin Charged /\ Charged' = Charged \cup {r}
    <2>1. /\ row' = row /\ req[r].stage = "debited" /\ req[r].cap \in Rows
          /\ caps' = [caps EXCEPT ![req[r].cap].spent = @ + req[r].amount]
          /\ req' = [req EXCEPT ![r].stage = "capCharged"]
      BY <1>5 DEF ChargeCap, ChargedCaps, At, Goto, HandlerInv, Asked
    <2>2. req[r] \in ReqType /\ req \in [Requests -> ReqType] /\ NoRow \notin Rows
      BY SettlementAssumption DEF HandlerInv, Rows
    <2>3. /\ req'[r].stage = "capCharged" /\ req'[r].cap = req[r].cap
          /\ \A s \in Requests \ {r} : req'[s] = req[s]
      BY <2>1, <2>2 DEF ReqType
    <2>4. \A s \in Requests : /\ (s \in Debited)' <=> s \in Debited
                              /\ (s \in Charged)' <=> s \in Charged \/ s = r
      BY <2>1, <2>2, <2>3 DEF Debited, Charged
    <2>5. r \notin Charged
      BY <2>1 DEF Charged
    <2>6. \A c \in Rows :
             caps'[c].spent = IF c = req[r].cap THEN caps[c].spent + req[r].amount
                                                ELSE caps[c].spent
      BY <1>0, <2>1
    <2> QED BY <1>a, <2>1, <2>4, <2>5, <2>6
  <1>6. ASSUME NEW r \in Requests, Handle(r), ~DebitVault(r), ~ChargeCap(r)
        PROVE  SetsRest /\ RowsRest
    <2>1. UNCHANGED <<row, caps>>
      BY <1>6
      DEF Handle, Dispatch, ExecuteOutsideVault, ReadCap, ReadVault, ReceiveDigest,
          ReceiveError, LoseAnswer, RecordWithdraw, Abandon, database
    <2>2. \A s \in Requests : /\ (s \in Debited)' <=> s \in Debited
                              /\ (s \in Charged)' <=> s \in Charged
      <3>1. /\ (r \in Debited)' <=> r \in Debited
            /\ (r \in Charged)' <=> r \in Charged
            /\ \A s \in Requests \ {r} : req'[s] = req[s]
        BY <1>6, HandleMoves
      <3> QED BY <3>1 DEF Debited, Charged
    <2> QED BY <1>3, <1>6, <1>a, <1>e, <2>1, <2>2 DEF SetsRest
  <1>7. CASE \E r \in Requests : Handle(r) \/ RunnerExecutes(r) \/ RunnerFails(r)
    <2>1. PICK r \in Requests : Handle(r) \/ RunnerExecutes(r) \/ RunnerFails(r)
      BY <1>7
    <2>2. CASE RunnerExecutes(r)
      BY <1>1, <2>2
    <2>3. CASE RunnerFails(r)
      BY <1>2, <2>3
    <2>4. CASE DebitVault(r)
      <3>1. Handle(r)
        BY <2>4 DEF Handle
      <3> QED BY <1>3, <1>4, <2>4, <3>1
    <2>5. CASE ChargeCap(r)
      <3>1. Handle(r)
        BY <2>5 DEF Handle
      <3> QED BY <1>3, <1>5, <2>5, <3>1
    <2>6. CASE Handle(r) /\ ~DebitVault(r) /\ ~ChargeCap(r)
      BY <1>3, <1>6, <2>6
    <2> QED BY <2>1, <2>2, <2>3, <2>4, <2>5, <2>6
  <1>8. ASSUME UNCHANGED <<req, runner>>, RowsType', RowsRest
        PROVE  /\ RequestsKeep /\ RowsType' /\ SetsRest /\ RowsRest
               /\ ~ \E r \in Requests : RunnerExecutes(r)
    BY <1>8, <1>c, <1>d DEF SetsRest
  <1>9. ASSUME NEW c \in Rows, caps' = WithRow(c),
               row' = row \/ row' = [row EXCEPT !.balance = deposit0]
        PROVE  RowsType' /\ RowsRest
    <2> DEFINE rank == 1 + Cardinality({d \in Rows : caps[d].status # "none"})
    <2>1. rank \in Nat
      <3>1. IsFiniteSet(Rows)
        BY SettlementAssumption, FS_AddElement DEF Rows
      <3>2. IsFiniteSet({d \in Rows : caps[d].status # "none"})
        BY <3>1, FS_Subset
      <3>3. Cardinality({d \in Rows : caps[d].status # "none"}) \in Nat
        BY <3>2, FS_CardinalityType
      <3> QED BY <3>3
    <2>2. caps' = [caps EXCEPT ![c].status = "active", ![c].createdAt = rank]
      BY <1>9 DEF WithRow
    <2> HIDE DEF rank
    <2>3. /\ caps' \in [Rows -> [spent : Int, status : {"none", "active", "revoked"},
                                 createdAt : Nat]]
          /\ \A d \in Rows : caps'[d].spent = caps[d].spent
      BY <1>0, <2>1, <2>2
    <2>4. deposit0 \in Int
      BY SettlementAssumption, ChainAssumption DEF Chain!ConstantsAssumption
    <2>5. row' \in [balance : Int, totalSpent : Int] /\ row'.totalSpent = row.totalSpent
      BY <1>0, <1>9, <2>4
    <2> QED BY <2>3, <2>5 DEF RowsType, RowsRest
  <1>10. CASE SignVault \/ SignCap \/ LeaveSetup \/ OthersOnChain \/ Tick \/ UNCHANGED vars
    <2>1. UNCHANGED <<req, runner, row, caps>>
      BY <1>10 DEF SignVault, SignCap, LeaveSetup, OthersOnChain, Tick, vars, database
    <2> QED BY <1>8, <1>e, <2>1
  <1>11. CASE CompleteSetup
    <2>1. UNCHANGED <<req, runner>> /\ RowsType' /\ RowsRest
      BY <1>9, <1>11 DEF CompleteSetup, Rows
    <2> QED BY <1>8, <2>1
  <1>12. ASSUME NEW a \in Amounts, DepositInApi(a)
         PROVE  UNCHANGED <<req, runner>> /\ RowsType' /\ RowsRest
    <2>1. a \in Int
      BY ChainAssumption DEF Chain!ConstantsAssumption
    <2>2. row' = [row EXCEPT !.balance = @ + a] /\ caps' = caps /\ UNCHANGED <<req, runner>>
      BY <1>12 DEF DepositInApi
    <2> QED BY <1>0, <2>1, <2>2 DEF RowsType, RowsRest
  <1>13. ASSUME NEW c \in LocalCaps, CreateCapInApi(c)
         PROVE  UNCHANGED <<req, runner>> /\ RowsType' /\ RowsRest
    BY <1>9, <1>13 DEF CreateCapInApi, Rows
  <1>14. ASSUME NEW c \in Rows, RevokeCapInApi(c)
         PROVE  UNCHANGED <<req, runner>> /\ RowsType' /\ RowsRest
    <2>1. row' = row /\ caps' = [caps EXCEPT ![c].status = "revoked"] /\ UNCHANGED <<req, runner>>
      BY <1>14 DEF RevokeCapInApi
    <2>2. /\ caps' \in [Rows -> [spent : Int, status : {"none", "active", "revoked"},
                                 createdAt : Nat]]
          /\ \A d \in Rows : caps'[d].spent = caps[d].spent
      BY <1>0, <2>1
    <2> QED BY <1>0, <2>1, <2>2 DEF RowsType, RowsRest
  <1> QED BY <1>7, <1>8, <1>10, <1>11, <1>12, <1>13, <1>14 DEF Next

-----------------------------------------------------------------------------
(* The chain: the setup's cap pays when the runner executes a request, and *)
(* else never.                                                             *)

\* The cap of the setup has the terms of its form, from its creation on, and its
\* vault counts at least what the cap has spent.
CapTerms ==
    /\ Chain!Issued(cap0) => agentCap[cap0].terms = terms0
    /\ agentCap[cap0].dailySpent <= vault[v0].totalSpent

Event(r) == [cap |-> cap0, vault |-> v0, action |-> req[r].action,
             amount |-> req[r].amount, at |-> now]

LEMMA ChainPays ==
  ASSUME HandlerInv, Verified!IInv, NEW r \in Requests, RunnerExecutes(r)
  PROVE  /\ agentCap'[cap0].dailySpent = agentCap[cap0].dailySpent + req[r].amount
         /\ withdrawn' = Append(withdrawn, Event(r))
         /\ CapTerms => CapTerms'
  <1>1. req[r].cap = cap0
    <2>1. runner[r] = "posted" /\ req[r] \in ReqType /\ Asked(r)
      BY DEF RunnerExecutes, HandlerInv
    <2>2. req[r].cap \in CapIds /\ req[r].cap \in Rows \cup {NoRow}
      BY <2>1 DEF Asked, ReqType
    <2> QED BY <2>2, SettlementAssumption DEF Rows
  <1>2. /\ Chain!Issued(cap0)
        /\ vault' = [vault EXCEPT ![v0].balance = @ - req[r].amount,
                                  ![v0].totalSpent = @ + req[r].amount]
        /\ agentCap' = [agentCap EXCEPT ![cap0].dailySpent = @ + req[r].amount,
                                        ![cap0].lastAction = now]
        /\ withdrawn' = Append(withdrawn, Event(r))
    BY <1>1 DEF RunnerExecutes, Chain!AgentWithdraw, Chain!PaidVault, Chain!ChargedCap, Event
  <1>3. /\ vault \in [VaultIds -> Verified!VaultType] /\ v0 \in VaultIds
        /\ agentCap \in [CapIds -> Verified!AgentCapType] /\ cap0 \in CapIds
    BY SettlementAssumption DEF Verified!IInv, Verified!TypeOK
  <1>4. vault'[v0].totalSpent = vault[v0].totalSpent + req[r].amount
    BY <1>2, <1>3 DEF Verified!VaultType
  <1>5. /\ agentCap'[cap0].dailySpent = agentCap[cap0].dailySpent + req[r].amount
        /\ agentCap'[cap0].terms = agentCap[cap0].terms
    BY <1>2, <1>3 DEF Verified!AgentCapType
  <1>6. /\ vault[v0].totalSpent \in Int /\ agentCap[cap0].dailySpent \in Int
        /\ req[r].amount \in Int
    BY <1>3, AmountsAre DEF Verified!VaultType, Verified!AgentCapType
  <1> QED BY <1>2, <1>4, <1>5, <1>6 DEF CapTerms

\* What others do on chain leaves the setup's cap and its events alone, and
\* takes nothing back from the counter of the vault.
LEMMA OthersStep ==
  ASSUME Verified!IInv, OthersOnChain
  PROVE  /\ agentCap'[cap0] = agentCap[cap0]
         /\ vault'[v0].totalSpent >= vault[v0].totalSpent /\ vault'[v0].totalSpent \in Int
         /\ \/ withdrawn' = withdrawn
            \/ \E e \in Verified!WithdrawnType :
                  e.cap # cap0 /\ withdrawn' = Append(withdrawn, e)
  <1>0. /\ Verified!TypeOK /\ Verified!BlankUntilCreated
        /\ vault \in [VaultIds -> Verified!VaultType] /\ v0 \in VaultIds
        /\ agentCap \in [CapIds -> Verified!AgentCapType] /\ cap0 \in CapIds
        /\ now \in Nat
    BY SettlementAssumption DEF Verified!IInv, Verified!TypeOK
  <1>1. agentCap'[cap0] = agentCap[cap0]
    BY DEF OthersOnChain
  <1>2. Verified!Next
    BY SameChain DEF OthersOnChain, Chain!Next
  <1>5. vault'[v0].totalSpent \in Int
    BY <1>0, <1>2, VerifiedStep DEF Verified!TypeOK, Verified!VaultType
  <1>3. CASE Verified!NothingSpent
    BY <1>0, <1>1, <1>3, <1>5 DEF Verified!NothingSpent
  <1>4. CASE Verified!Withdrawal
    <2>1. PICK c \in CapIds, v \in VaultIds, a \in Amounts, x \in Actions :
             Verified!AgentWithdraw(c, v, a, x)
      BY <1>4 DEF Verified!Withdrawal
    <2> DEFINE e == [cap |-> c, vault |-> v, action |-> x, amount |-> a, at |-> now]
    <2>2. /\ a > 0 /\ a \in Nat
          /\ vault'[v].totalSpent = vault[v].totalSpent + a
          /\ \A w \in VaultIds \ {v} : vault'[w] = vault[w]
      BY <1>0, <2>1, VerifiedWithdrawal
    <2>3. /\ withdrawn' = Append(withdrawn, e)
          /\ agentCap' = [agentCap EXCEPT ![c].dailySpent = @ + a, ![c].lastAction = now]
      BY <2>1 DEF Verified!AgentWithdraw, Verified!ChargedCap
    <2>4. c # cap0
      <3> SUFFICES ASSUME c = cap0 PROVE FALSE
        OBVIOUS
      <3>1. agentCap'[cap0].dailySpent = agentCap[cap0].dailySpent + a
        BY <1>0, <2>3 DEF Verified!AgentCapType
      <3>2. agentCap[cap0].dailySpent \in Nat
        BY <1>0 DEF Verified!AgentCapType
      <3> QED BY <1>1, <2>2, <3>1, <3>2
    <2>5. e \in Verified!WithdrawnType /\ e.cap = c
      BY <1>0, <2>2 DEF Verified!WithdrawnType
    <2>6. vault'[v0].totalSpent >= vault[v0].totalSpent
      <3>1. \A w \in VaultIds : vault[w].totalSpent \in Int
        BY <1>0 DEF Verified!VaultType
      <3> QED BY <1>0, <2>2, <3>1
    <2> HIDE DEF e
    <2> QED BY <1>1, <1>5, <2>3, <2>4, <2>5, <2>6
  <1> QED BY <1>2, <1>3, <1>4, VerifiedStep

LEMMA ChainRests ==
  ASSUME HandlerInv, Verified!IInv, [Next]_vars, ~ \E r \in Requests : RunnerExecutes(r)
  PROVE  /\ agentCap'[cap0].dailySpent = agentCap[cap0].dailySpent
         /\ \/ withdrawn' = withdrawn
            \/ \E e \in Verified!WithdrawnType :
                  e.cap # cap0 /\ withdrawn' = Append(withdrawn, e)
         /\ CapTerms => CapTerms'
  <1>0. /\ vault \in [VaultIds -> Verified!VaultType] /\ v0 \in VaultIds
        /\ agentCap \in [CapIds -> Verified!AgentCapType] /\ cap0 \in CapIds
        /\ v0 # NoVault
    BY SettlementAssumption, ChainAssumption
    DEF Verified!IInv, Verified!TypeOK, Chain!ConstantsAssumption
  <1>1. ASSUME UNCHANGED <<vault, agentCap, withdrawn>>
        PROVE  /\ agentCap'[cap0].dailySpent = agentCap[cap0].dailySpent
               /\ withdrawn' = withdrawn
               /\ CapTerms => CapTerms'
    BY <1>1 DEF CapTerms, Chain!Issued
  <1>2. CASE SignVault
    <2>1. /\ vault[v0].owner = NoUser
          /\ vault' = [vault EXCEPT ![v0] = Chain!NewVault(owner, deposit0, budget0)]
          /\ UNCHANGED <<agentCap, withdrawn>>
      BY <1>2 DEF SignVault, Chain!CreateVault, Chain!Created
    <2>2. vault[v0].totalSpent = 0
      BY <1>0, <2>1
      DEF Verified!IInv, Verified!BlankUntilCreated, Verified!Created, Verified!NewVault
    <2>3. vault'[v0].totalSpent = 0
      BY <1>0, <2>1 DEF Chain!NewVault
    <2> QED BY <2>1, <2>2, <2>3 DEF CapTerms, Chain!Issued
  <1>3. CASE SignCap
    <2>1. /\ ~Chain!Issued(cap0)
          /\ agentCap' = [agentCap EXCEPT ![cap0] = Chain!NewAgentCap(v0, terms0)]
          /\ UNCHANGED <<vault, withdrawn>>
      BY <1>3 DEF SignCap, Chain!CreateAgentCap
    <2>2. agentCap[cap0].dailySpent = 0
      BY <1>0, <2>1
      DEF Verified!IInv, Verified!BlankUntilIssued, Verified!Issued, Verified!NewAgentCap,
          Chain!Issued
    <2>3. agentCap'[cap0].dailySpent = 0 /\ agentCap'[cap0].terms = terms0
      BY <1>0, <2>1 DEF Chain!NewAgentCap
    <2> QED BY <2>1, <2>2, <2>3 DEF CapTerms
  <1>4. CASE OthersOnChain
    <2>1. /\ agentCap'[cap0] = agentCap[cap0]
          /\ vault'[v0].totalSpent >= vault[v0].totalSpent /\ vault'[v0].totalSpent \in Int
      BY <1>4, OthersStep
    <2>2. vault[v0].totalSpent \in Int /\ agentCap[cap0].dailySpent \in Int
      BY <1>0 DEF Verified!VaultType, Verified!AgentCapType
    <2> QED BY <1>4, <2>1, <2>2, OthersStep DEF CapTerms, Chain!Issued
  <1>5. CASE Tick
    BY <1>1, <1>5 DEF Tick, Chain!Tick
  <1>6. CASE UNCHANGED chain
    BY <1>1, <1>6 DEF chain
  <1> QED BY <1>2, <1>3, <1>4, <1>5, <1>6, ChainMoves

-----------------------------------------------------------------------------
(* The books *)

Paid(x, a) == {r \in Executed : req[r].action = x /\ req[r].amount = a}
Events(x, a) ==
    {i \in DOMAIN withdrawn :
        withdrawn[i].cap = cap0 /\ withdrawn[i].action = x /\ withdrawn[i].amount = a}

\* Every record of its own: the row adds up what was debited, its cap what was
\* charged to it, and its counter on chain what the runner has executed.
BooksInv ==
    /\ RowsType
    /\ CapTerms
    /\ row.totalSpent = SumFunctionOnSet(AmountOf, Debited)
    /\ caps[cap0].spent = SumFunctionOnSet(AmountOf, ChargedToCap)
    /\ agentCap[cap0].dailySpent = SumFunctionOnSet(AmountOf, Executed)
    /\ PaymentsWereAsked

\* One more request in a sum.
LEMMA OneMore ==
  ASSUME HandlerInv, NEW T \in SUBSET Requests, NEW r \in Requests, r \notin T
  PROVE  /\ SumFunctionOnSet(AmountOf, T \cup {r})
              = SumFunctionOnSet(AmountOf, T) + req[r].amount
         /\ SumFunctionOnSet(AmountOf, T) \in Int
         /\ req[r].amount \in Int
  <1>1. /\ \A s \in Requests : AmountOf[s] \in Int
        /\ AmountOf[r] = req[r].amount /\ AmountOf[r] \in Int
    BY AmountsAre
  <1>2. IsFiniteSet(Requests)
    BY SettlementAssumption
  <1>3. SumFunctionOnSet(AmountOf, T) \in Int
    BY <1>1, <1>2, SumType
  <1>4. SumFunctionOnSet(AmountOf, T \cup {r}) = SumFunctionOnSet(AmountOf, T) + AmountOf[r]
    BY <1>1, <1>2, SumAdd
  <1> QED BY <1>1, <1>3, <1>4

LEMMA RequestsAre ==
  ASSUME HandlerInv, RequestsKeep
  PROVE  /\ AmountOf' = AmountOf
         /\ Charged' = Charged => ChargedToCap' = ChargedToCap
  <1>1. AmountOf' = AmountOf
    BY DEF RequestsKeep, AmountOf
  <1>2. ASSUME Charged' = Charged PROVE ChargedToCap' = ChargedToCap
    <2>1. \A r \in Charged : r \in Requests /\ req'[r].cap = req[r].cap
      BY DEF RequestsKeep, Charged, Debited
    <2> QED BY <1>2, <2>1 DEF ChargedToCap
  <1> QED BY <1>1, <1>2

LEMMA BooksAtStart == Init => BooksInv
  <1> SUFFICES ASSUME Init PROVE BooksInv
    OBVIOUS
  <1>1. Debited = {} /\ ChargedToCap = {} /\ Executed = {}
    BY DEF Init, Debited, Charged, ChargedToCap, Executed
  <1>2. /\ row.totalSpent = 0 /\ caps[cap0].spent = 0
        /\ vault[v0].totalSpent = 0 /\ agentCap[cap0].dailySpent = 0
    BY SettlementAssumption
    DEF Init, Rows, Chain!Init, Chain!NewVault, Chain!NewAgentCap
  <1>3. SumFunctionOnSet(AmountOf, {}) = 0
    BY SumEmpty
  <1>4. /\ SumFunctionOnSet(AmountOf, Debited) = 0
        /\ SumFunctionOnSet(AmountOf, ChargedToCap) = 0
        /\ SumFunctionOnSet(AmountOf, Executed) = 0
    BY <1>1, <1>3, Zenon
  <1>5. RowsType
    BY DEF Init, RowsType
  <1>6. CapTerms
    BY <1>2, SettlementAssumption DEF Init, Chain!Init, Chain!NewAgentCap, CapTerms, Chain!Issued
  <1>7. PaymentsWereAsked
    <2>1. \A x \in Actions, a \in Amounts : Paid(x, a) = {} /\ Events(x, a) = {}
      BY <1>1 DEF Paid, Events, Init, Chain!Init
    <2>2. \A x \in Actions, a \in Amounts : Cardinality(Paid(x, a)) = Cardinality(Events(x, a))
      BY <2>1
    <2> QED BY <2>2 DEF PaymentsWereAsked, Paid, Events
  <1> QED BY <1>2, <1>4, <1>5, <1>6, <1>7 DEF BooksInv

\* A payment is one more request that was paid and one more event of its kind.
LEMMA PaymentIsAsked ==
  ASSUME HandlerInv, Verified!IInv, PaymentsWereAsked, RequestsKeep,
         NEW r \in Requests, r \notin Executed, Executed' = Executed \cup {r},
         withdrawn' = Append(withdrawn, Event(r))
  PROVE  PaymentsWereAsked'
  <1> SUFFICES ASSUME NEW x \in Actions, NEW a \in Amounts
               PROVE  Cardinality(Paid(x, a)') = Cardinality(Events(x, a)')
    BY DEF PaymentsWereAsked, Paid, Events
  <1> DEFINE n == Len(withdrawn)
  <1>1. Cardinality(Paid(x, a)) = Cardinality(Events(x, a))
    BY DEF PaymentsWereAsked, Paid, Events
  <1>2. withdrawn \in Seq(Verified!WithdrawnType) /\ n \in Nat /\ DOMAIN withdrawn = 1 .. n
    BY DEF Verified!IInv, Verified!TypeOK
  <1>3. /\ DOMAIN withdrawn' = 1 .. n + 1
        /\ \A i \in 1 .. n : withdrawn'[i] = withdrawn[i]
        /\ withdrawn'[n + 1] = Event(r)
    BY <1>2
  <1>4. /\ Event(r).cap = cap0
        /\ Event(r).action = req[r].action /\ Event(r).amount = req[r].amount
    BY DEF Event
  <1>5. IsFiniteSet(Paid(x, a)) /\ IsFiniteSet(Events(x, a))
    <2>1. IsFiniteSet(1 .. n)
      BY <1>2, FS_Interval
    <2>2. Events(x, a) \subseteq 1 .. n
      BY <1>2 DEF Events
    <2>3. Paid(x, a) \subseteq Requests
      BY DEF Paid, Executed
    <2> QED BY <2>1, <2>2, <2>3, FS_Subset, SettlementAssumption
  <1>6. \A s \in Executed' : s \in Requests /\ req'[s].action = req[s].action
                             /\ req'[s].amount = req[s].amount
    BY DEF RequestsKeep, Executed
  <1>7. CASE req[r].action = x /\ req[r].amount = a
    <2>1. Paid(x, a)' = Paid(x, a) \cup {r} /\ r \notin Paid(x, a)
      BY <1>6, <1>7 DEF Paid
    <2>2. Events(x, a)' = Events(x, a) \cup {n + 1} /\ n + 1 \notin Events(x, a)
      <3>1. n + 1 \notin Events(x, a)
        BY <1>2 DEF Events
      <3>2. \A i \in 1 .. n + 1 : i \in 1 .. n \/ i = n + 1
        BY <1>2
      <3>3. \A i : i \in Events(x, a)' <=> i \in Events(x, a) \/ i = n + 1
        BY <1>2, <1>3, <1>4, <1>7, <3>2 DEF Events
      <3> QED BY <3>1, <3>3
    <2>3. /\ Cardinality(Paid(x, a)') = Cardinality(Paid(x, a)) + 1
          /\ Cardinality(Events(x, a)') = Cardinality(Events(x, a)) + 1
      BY <1>5, <2>1, <2>2, FS_AddElement
    <2> QED BY <1>1, <2>3
  <1>8. CASE ~(req[r].action = x /\ req[r].amount = a)
    <2>1. Paid(x, a)' = Paid(x, a)
      BY <1>6, <1>8 DEF Paid
    <2>2. Events(x, a)' = Events(x, a)
      <3>1. \A i \in 1 .. n + 1 : i \in 1 .. n \/ i = n + 1
        BY <1>2
      <3>2. \A i : i \in Events(x, a)' <=> i \in Events(x, a)
        BY <1>2, <1>3, <1>4, <1>8, <3>1 DEF Events
      <3> QED BY <3>2
    <2> QED BY <1>1, <2>1, <2>2
  <1> QED BY <1>7, <1>8

LEMMA AppendAdds ==
  ASSUME NEW T, NEW s \in Seq(T), NEW e \in T
  PROVE  /\ Len(s) \in Nat /\ DOMAIN s = 1 .. Len(s)
         /\ DOMAIN Append(s, e) = 1 .. Len(s) + 1
         /\ \A i \in 1 .. Len(s) : Append(s, e)[i] = s[i]
         /\ Append(s, e)[Len(s) + 1] = e
  OBVIOUS

LEMMA NothingIsAsked ==
  ASSUME Verified!IInv, PaymentsWereAsked, RequestsKeep, Executed' = Executed,
         \/ withdrawn' = withdrawn
         \/ \E e \in Verified!WithdrawnType :
               e.cap # cap0 /\ withdrawn' = Append(withdrawn, e)
  PROVE  PaymentsWereAsked'
  <1>1. \A s \in Executed : req'[s].action = req[s].action /\ req'[s].amount = req[s].amount
    BY DEF RequestsKeep, Executed
  <1>2. \A x \in Actions, a \in Amounts : Paid(x, a)' = Paid(x, a)
    BY <1>1 DEF Paid
  <1>3. \A x \in Actions, a \in Amounts : Events(x, a)' = Events(x, a)
    <2>1. CASE withdrawn' = withdrawn
      BY <2>1 DEF Events
    <2>2. ASSUME NEW e \in Verified!WithdrawnType, e.cap # cap0,
                 withdrawn' = Append(withdrawn, e)
          PROVE  \A x \in Actions, a \in Amounts : Events(x, a)' = Events(x, a)
      <3> DEFINE n == Len(withdrawn)
      <3>1. /\ n \in Nat /\ DOMAIN withdrawn = 1 .. n
            /\ DOMAIN withdrawn' = 1 .. n + 1
            /\ \A i \in 1 .. n : withdrawn'[i] = withdrawn[i]
            /\ withdrawn'[n + 1] = e
        BY <2>2, AppendAdds DEF Verified!IInv, Verified!TypeOK
      <3> HIDE DEF n
      <3>2. \A i \in 1 .. n + 1 : i \in 1 .. n \/ i = n + 1
        BY <3>1
      <3>3. withdrawn'[n + 1].cap # cap0
        BY <2>2, <3>1
      <3> SUFFICES ASSUME NEW x \in Actions, NEW a \in Amounts
                   PROVE  Events(x, a)' = Events(x, a)
        OBVIOUS
      <3>4. 1 .. n \subseteq 1 .. n + 1
        BY <3>1
      <3>5. \A i : i \in Events(x, a)' <=> i \in Events(x, a)
        BY <3>1, <3>2, <3>3, <3>4 DEF Events
      <3> QED BY <3>5
    <2> QED BY <2>1, <2>2
  <1>4. \A x \in Actions, a \in Amounts : Cardinality(Paid(x, a)) = Cardinality(Events(x, a))
    BY DEF PaymentsWereAsked, Paid, Events
  <1>5. \A x \in Actions, a \in Amounts :
           Cardinality(Paid(x, a)') = Cardinality(Events(x, a)')
    BY <1>2, <1>3, <1>4
  <1> QED BY <1>5 DEF PaymentsWereAsked, Paid, Events

LEMMA BooksStep == HandlerInv /\ Verified!IInv /\ BooksInv /\ [Next]_vars => BooksInv'
  <1> SUFFICES ASSUME HandlerInv, Verified!IInv, BooksInv, [Next]_vars PROVE BooksInv'
    OBVIOUS
  <1> DEFINE S(T) == SumFunctionOnSet(AmountOf, T)
  <1>0. /\ RowsType /\ CapTerms /\ PaymentsWereAsked
        /\ row.totalSpent = S(Debited) /\ caps[cap0].spent = S(ChargedToCap)
        /\ agentCap[cap0].dailySpent = S(Executed)
        /\ cap0 \in Rows
    BY DEF BooksInv, Rows
  <1>1. RequestsKeep /\ RowsType'
    BY <1>0, RowsMove
  <1>2. /\ AmountOf' = AmountOf
        /\ Charged' = Charged => ChargedToCap' = ChargedToCap
    BY <1>1, RequestsAre
  <1>a. /\ Debited \in SUBSET Requests /\ ChargedToCap \in SUBSET Requests
        /\ Executed \in SUBSET Requests
    BY DEF Debited, Charged, ChargedToCap, Executed
  <1> SUFFICES /\ CapTerms' /\ PaymentsWereAsked'
               /\ row'.totalSpent = S(Debited') /\ caps'[cap0].spent = S(ChargedToCap')
               /\ agentCap'[cap0].dailySpent = S(Executed')
    BY <1>1, <1>2 DEF BooksInv
  <1> HIDE DEF S
  <1>b. ASSUME NEW T \in SUBSET Requests, NEW r \in Requests, r \notin T
        PROVE  S(T \cup {r}) = S(T) + req[r].amount /\ S(T) \in Int /\ req[r].amount \in Int
    BY <1>b, OneMore DEF S
  <1>3. ASSUME NEW r \in Requests, RunnerExecutes(r), RowsRest,
               Debited' = Debited, Charged' = Charged,
               r \notin Executed, Executed' = Executed \cup {r}
        PROVE  /\ CapTerms' /\ PaymentsWereAsked'
               /\ row'.totalSpent = S(Debited') /\ caps'[cap0].spent = S(ChargedToCap')
               /\ agentCap'[cap0].dailySpent = S(Executed')
    <2>1. /\ agentCap'[cap0].dailySpent = agentCap[cap0].dailySpent + req[r].amount
          /\ withdrawn' = Append(withdrawn, Event(r)) /\ CapTerms'
      BY <1>0, <1>3, ChainPays
    <2>2. PaymentsWereAsked'
      BY <1>0, <1>1, <1>3, <2>1, PaymentIsAsked
    <2>3. S(Executed \cup {r}) = S(Executed) + req[r].amount
      BY <1>a, <1>b, <1>3
    <2>4. S(Executed') = S(Executed \cup {r})
      BY <1>3, Zenon
    <2>5. row'.totalSpent = row.totalSpent /\ caps'[cap0].spent = caps[cap0].spent
      BY <1>0, <1>3 DEF RowsRest
    <2>6. S(Debited') = S(Debited) /\ S(ChargedToCap') = S(ChargedToCap)
      BY <1>2, <1>3, Zenon
    <2> QED BY <1>0, <2>1, <2>2, <2>3, <2>4, <2>5, <2>6
  <1>4. ASSUME ~ \E r \in Requests : RunnerExecutes(r), Executed' = Executed
        PROVE  /\ CapTerms' /\ PaymentsWereAsked'
               /\ agentCap'[cap0].dailySpent = S(Executed')
    <2>1. /\ agentCap'[cap0].dailySpent = agentCap[cap0].dailySpent
          /\ \/ withdrawn' = withdrawn
             \/ \E e \in Verified!WithdrawnType :
                   e.cap # cap0 /\ withdrawn' = Append(withdrawn, e)
          /\ CapTerms'
      BY <1>0, <1>4, ChainRests
    <2>2. PaymentsWereAsked'
      BY <1>0, <1>1, <1>4, <2>1, NothingIsAsked
    <2>3. S(Executed') = S(Executed)
      BY <1>4, Zenon
    <2> QED BY <1>0, <2>1, <2>2, <2>3
  <1>5. ASSUME NEW r \in Requests, DebitVault(r),
               row'.totalSpent = row.totalSpent + req[r].amount,
               \A c \in Rows : caps'[c].spent = caps[c].spent, Charged' = Charged,
               r \notin Debited, Debited' = Debited \cup {r}
        PROVE  row'.totalSpent = S(Debited') /\ caps'[cap0].spent = S(ChargedToCap')
    <2>1. S(Debited \cup {r}) = S(Debited) + req[r].amount
      BY <1>a, <1>b, <1>5
    <2>2. S(Debited') = S(Debited \cup {r}) /\ S(ChargedToCap') = S(ChargedToCap)
      BY <1>2, <1>5, Zenon
    <2>3. caps'[cap0].spent = caps[cap0].spent
      BY <1>0, <1>5
    <2> QED BY <1>0, <1>5, <2>1, <2>2, <2>3
  <1>6. ASSUME NEW r \in Requests, ChargeCap(r), row'.totalSpent = row.totalSpent,
               \A c \in Rows :
                  caps'[c].spent = IF c = req[r].cap THEN caps[c].spent + req[r].amount
                                                     ELSE caps[c].spent,
               Debited' = Debited, r \notin Charged, Charged' = Charged \cup {r}
        PROVE  row'.totalSpent = S(Debited') /\ caps'[cap0].spent = S(ChargedToCap')
    <2>1. S(Debited') = S(Debited)
      BY <1>6, Zenon
    <2>2. \A s \in Charged \cup {r} : req'[s].cap = req[s].cap
      <3>1. \A s \in Charged' : s \in Requests
        BY DEF Charged, Debited
      <3>2. \A s \in Charged : req[s].cap # NoRow
        BY DEF Charged, Debited
      <3>3. req[r].cap # NoRow
        <4>1. req[r].cap \in Rows
          BY <1>6 DEF ChargeCap, At, HandlerInv, Asked
        <4> QED BY <4>1, SettlementAssumption DEF Rows
      <3> QED BY <1>1, <1>6, <3>1, <3>2, <3>3 DEF RequestsKeep
    <2>3. CASE req[r].cap = cap0
      <3>1. r \notin ChargedToCap /\ ChargedToCap' = ChargedToCap \cup {r}
        BY <1>6, <2>2, <2>3 DEF ChargedToCap
      <3>2. S(ChargedToCap \cup {r}) = S(ChargedToCap) + req[r].amount
        BY <1>a, <1>b, <3>1
      <3>3. S(ChargedToCap') = S(ChargedToCap \cup {r})
        BY <3>1, Zenon
      <3>4. caps'[cap0].spent = caps[cap0].spent + req[r].amount
        BY <1>0, <1>6, <2>3
      <3> QED BY <1>0, <1>6, <2>1, <3>2, <3>3, <3>4
    <2>4. CASE req[r].cap # cap0
      <3>1. ChargedToCap' = ChargedToCap
        BY <1>6, <2>2, <2>4 DEF ChargedToCap
      <3>2. S(ChargedToCap') = S(ChargedToCap)
        BY <3>1, Zenon
      <3>3. caps'[cap0].spent = caps[cap0].spent
        BY <1>0, <1>6, <2>4
      <3> QED BY <1>0, <1>6, <2>1, <3>2, <3>3
    <2> QED BY <2>3, <2>4
  <1>7. ASSUME SetsRest, RowsRest, ~ \E r \in Requests : RunnerExecutes(r)
        PROVE  /\ CapTerms' /\ PaymentsWereAsked'
               /\ row'.totalSpent = S(Debited') /\ caps'[cap0].spent = S(ChargedToCap')
               /\ agentCap'[cap0].dailySpent = S(Executed')
    <2>1. Executed' = Executed /\ Debited' = Debited /\ ChargedToCap' = ChargedToCap
      BY <1>2, <1>7 DEF SetsRest
    <2>2. S(Debited') = S(Debited) /\ S(ChargedToCap') = S(ChargedToCap)
      BY <2>1, Zenon
    <2>3. row'.totalSpent = row.totalSpent /\ caps'[cap0].spent = caps[cap0].spent
      BY <1>0, <1>7 DEF RowsRest
    <2> QED BY <1>0, <1>4, <1>7, <2>1, <2>2, <2>3
  <1>8. ASSUME NEW r \in Requests, DebitVault(r) \/ ChargeCap(r)
        PROVE  ~ \E s \in Requests : RunnerExecutes(s)
    <2> SUFFICES ASSUME NEW s \in Requests, RunnerExecutes(s) PROVE FALSE
      OBVIOUS
    <2>1. runner' = runner
      BY <1>8 DEF DebitVault, ChargeCap
    <2>2. runner[s] = "posted" /\ runner' = [runner EXCEPT ![s] = "executed"]
      BY DEF RunnerExecutes
    <2> QED BY <2>1, <2>2 DEF HandlerInv
  <1> QED BY <1>0, <1>3, <1>4, <1>5, <1>6, <1>7, <1>8, RowsMove

LEMMA BooksInvariant == Spec => []BooksInv
  BY BooksAtStart, BooksStep, HandlerInductive, ChainInvariant, PTL DEF Spec

\* However answers are lost, requests given up and payments delayed, and whatever
\* other caps do, there is an AgentWithdrawn event of the setup's cap for every
\* request the runner has executed and none besides, amount by amount and action
\* by action.
THEOREM LivePaymentsWereAsked == Spec => []PaymentsWereAsked
  BY BooksInvariant, PTL DEF BooksInv

LEMMA BooksInvMatches == HandlerInv /\ BooksInv /\ Verified!IInv => BooksMatchChain
  <1> SUFFICES ASSUME HandlerInv, BooksInv, Verified!IInv PROVE BooksMatchChain
    OBVIOUS
  <1> DEFINE S(T) == SumFunctionOnSet(AmountOf, T)
  <1>0. /\ row.totalSpent = S(Debited) /\ caps[cap0].spent = S(ChargedToCap)
        /\ agentCap[cap0].dailySpent = S(Executed)
        /\ S(Executed) <= vault[v0].totalSpent
    BY DEF BooksInv, CapTerms
  <1>a. vault[v0].totalSpent \in Int
    BY SettlementAssumption DEF Verified!IInv, Verified!TypeOK, Verified!VaultType
  <1>1. ASSUME NEW U \in SUBSET Requests, NEW T \in SUBSET (Requests \ U)
        PROVE  S(T \cup U) = S(T) + S(U) /\ S(T) \in Int /\ S(U) \in Int
    <2>1. \A s \in Requests : AmountOf[s] \in Int
      BY AmountsAre
    <2>2. T \in SUBSET Requests /\ IsFiniteSet(Requests)
      BY SettlementAssumption
    <2> QED BY <2>1, <2>2, SumSplit, SumType
  <1> SUFFICES /\ S(Debited) + S(Executed \ Debited) = S(Executed) + S(ByRowsOnly)
               /\ S(ChargedToCap) + S(Executed \ Charged) = S(Executed)
               /\ S(Executed) + S(ByRowsOnly) <= vault[v0].totalSpent + S(ByRowsOnly)
    BY <1>0 DEF BooksMatchChain, Sum, AmountOf
  <1> HIDE DEF S
  <1>2. /\ Debited \subseteq Requests /\ Executed \subseteq Requests /\ Charged \subseteq Debited
        /\ ByRowsOnly \subseteq Debited /\ ChargedToCap \subseteq Charged
    BY DEF Debited, Charged, Executed, ByRowsOnly, ChargedToCap
  <1>3. \A r \in Debited : r \in Executed <=> r \notin ByRowsOnly
    <2> SUFFICES ASSUME NEW r \in Debited PROVE r \in Executed <=> r \notin ByRowsOnly
      OBVIOUS
    <2>1. /\ r \in Requests /\ req[r].cap # NoRow
          /\ req[r].stage \in {"debited", "capCharged", "done"}
      BY DEF Debited
    <2>2. /\ runner[r] # "idle" => req[r].cap \in CapIds
          /\ runner[r] = "executed" \/ req[r].cap \notin CapIds
      BY <2>1 DEF HandlerInv, Asked
    <2> QED BY <2>1, <2>2 DEF Executed, ByRowsOnly
  <1>4. \A r \in Charged : r \in Executed <=> r \in ChargedToCap
    <2> SUFFICES ASSUME NEW r \in Charged PROVE r \in Executed <=> r \in ChargedToCap
      OBVIOUS
    <2>1. /\ r \in Debited /\ r \in Requests /\ req[r] \in ReqType
          /\ req[r].cap # NoRow
      BY DEF Charged, Debited, HandlerInv
    <2>2. req[r].cap \in CapIds <=> req[r].cap = cap0
      BY <2>1, SettlementAssumption DEF ReqType, Rows
    <2>3. r \in ByRowsOnly <=> req[r].cap \notin CapIds
      BY <2>1 DEF ByRowsOnly
    <2> QED BY <1>3, <2>1, <2>2, <2>3 DEF ChargedToCap
  <1> DEFINE both == Debited \cap Executed
  <1>5. /\ S(both \cup ByRowsOnly) = S(both) + S(ByRowsOnly)
        /\ S(both) \in Int /\ S(ByRowsOnly) \in Int
    <2>1. ByRowsOnly \in SUBSET Requests /\ both \in SUBSET (Requests \ ByRowsOnly)
      BY <1>2, <1>3
    <2> HIDE DEF both
    <2> QED BY <1>1, <2>1
  <1>6. /\ S((Executed \ Debited) \cup both) = S(Executed \ Debited) + S(both)
        /\ S(Executed \ Debited) \in Int
    <2>1. both \in SUBSET Requests /\ Executed \ Debited \in SUBSET (Requests \ both)
      BY <1>2
    <2> HIDE DEF both
    <2> QED BY <1>1, <2>1
  <1>7. S(Debited) = S(both \cup ByRowsOnly) /\ S(Executed) = S((Executed \ Debited) \cup both)
    <2>1. Debited = both \cup ByRowsOnly /\ Executed = (Executed \ Debited) \cup both
      BY <1>2, <1>3
    <2> HIDE DEF both
    <2> QED BY <2>1, Zenon
  <1>8. /\ S((Executed \ Charged) \cup ChargedToCap) = S(Executed \ Charged) + S(ChargedToCap)
        /\ S(Executed \ Charged) \in Int /\ S(ChargedToCap) \in Int
    <2>1. /\ ChargedToCap \in SUBSET Requests
          /\ Executed \ Charged \in SUBSET (Requests \ ChargedToCap)
      BY <1>2
    <2> QED BY <1>1, <2>1
  <1>9. S(Executed) = S((Executed \ Charged) \cup ChargedToCap)
    <2>1. Executed = (Executed \ Charged) \cup ChargedToCap
      BY <1>2, <1>4
    <2> QED BY <2>1, Zenon
  <1> HIDE DEF both
  <1>10. S(Debited) + S(Executed \ Debited) = S(Executed) + S(ByRowsOnly)
    BY <1>5, <1>6, <1>7
  <1>11. S(ChargedToCap) + S(Executed \ Charged) = S(Executed)
    BY <1>8, <1>9
  <1>12. S(Executed) + S(ByRowsOnly) <= vault[v0].totalSpent + S(ByRowsOnly)
    <2>1. S(Executed) \in Int
      BY <1>1, <1>2
    <2> QED BY <1>0, <1>5, <1>a, <2>1
  <1> QED BY <1>10, <1>11, <1>12

\* The rows of the setup's vault and cap are off the cap on chain by what was paid
\* and not booked, the vault's also by what was booked for caps that exist in the
\* tables only, and by nothing else; the Vault object counts all of that, and may
\* count more.
THEOREM LiveBooksMatchChain == Spec => []BooksMatchChain
  BY BooksInvMatches, BooksInvariant, HandlerInductive, ChainInvariant, PTL

LEMMA ChainLimits == HandlerInv /\ BooksInv /\ Verified!IInv => ChainLimitsRows
  <1> SUFFICES ASSUME HandlerInv, BooksInv, Verified!IInv
               PROVE  caps[cap0].spent <= terms0.dailyLimit
    BY DEF ChainLimitsRows
  <1>1. /\ caps[cap0].spent = SumFunctionOnSet(AmountOf, ChargedToCap)
        /\ agentCap[cap0].dailySpent = SumFunctionOnSet(AmountOf, Executed)
        /\ CapTerms
    BY DEF BooksInv
  <1>2. ChargedToCap \subseteq Executed
    <2> SUFFICES ASSUME NEW r \in ChargedToCap PROVE r \in Executed
      OBVIOUS
    <2>1. /\ r \in Requests /\ req[r].cap = cap0 /\ cap0 \in CapIds
          /\ req[r].stage \in {"capCharged", "done"} /\ req[r].cap # NoRow
      BY SettlementAssumption DEF ChargedToCap, Charged, Debited
    <2> QED BY <2>1 DEF HandlerInv, Asked, Executed
  <1>3. /\ SumFunctionOnSet(AmountOf, ChargedToCap) \in Nat
        /\ SumFunctionOnSet(AmountOf, ChargedToCap) <= SumFunctionOnSet(AmountOf, Executed)
        /\ SumFunctionOnSet(AmountOf, Executed) \in Nat
    <2>1. \A r \in Executed : AmountOf[r] \in Nat
      BY AmountsAre DEF Executed
    <2>2. IsFiniteSet(Executed)
      BY SettlementAssumption, FS_Subset DEF Executed
    <2> QED BY <1>2, <2>1, <2>2, SumMonotone
  <1>4. cap0 \in CapIds /\ terms0 \in Terms /\ terms0.dailyLimit \in Nat
    BY SettlementAssumption, ChainAssumption DEF Chain!ConstantsAssumption, Chain!TermsType
  <1>5. agentCap[cap0].dailySpent <= terms0.dailyLimit
    <2>1. CASE Chain!Issued(cap0)
      <3>1. agentCap[cap0].dailySpent <= agentCap[cap0].terms.dailyLimit
        BY <1>4, <2>1
        DEF Verified!IInv, Verified!WithdrawalsKeepTerms, Verified!Issued, Chain!Issued
      <3> QED BY <1>1, <2>1, <3>1 DEF CapTerms
    <2>2. CASE ~Chain!Issued(cap0)
      <3>1. agentCap[cap0].dailySpent = 0
        BY <1>4, <2>2
        DEF Verified!IInv, Verified!BlankUntilIssued, Verified!NewAgentCap,
            Verified!Issued, Chain!Issued
      <3> QED BY <1>4, <3>1
    <2> QED BY <2>1, <2>2
  <1> QED BY <1>1, <1>3, <1>4, <1>5

\* In the live mode concurrent requests cannot overrun the row of the cap: what
\* it says was charged the chain has paid, and the chain keeps the limit.
THEOREM ChainAlwaysLimitsRows == Spec => []ChainLimitsRows
  BY ChainLimits, BooksInvariant, HandlerInductive, ChainInvariant, PTL
=============================================================================
