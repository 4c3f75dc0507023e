---------------------------- MODULE VaultProofs ----------------------------
(* Proofs about the on-chain wallet, for every value of the constants. *)
EXTENDS Vault, SumLemmas, TLAPS

\* The abbreviations in the guards and effects of the calls.
USE DEF AssertOwner, IsActive, IsCapRevoked, BalanceCovers, BelongsTo, CooledDown,
        WithinLimit, WithinBudget, PaidVault, ChargedCap

LEMMA InitTypeOK == Init => TypeOK
  BY ConstantsAssumption
  DEF Init, TypeOK, VaultType, AgentCapType, NewVault, NewAgentCap, Issued

LEMMA AgentWithdrawTypeOK ==
  ASSUME TypeOK, NEW c \in CapIds, NEW v \in VaultIds, NEW a \in Amounts,
         NEW x \in Actions, AgentWithdraw(c, v, a, x)
  PROVE  TypeOK'
  <1>1. a \in Nat \ {0} /\ vault[v] \in VaultType /\ now \in Nat \ {0}
    BY ConstantsAssumption DEF TypeOK, AgentWithdraw, ValidateWithdraw
  <1>2. holder[c] \in Users
    BY DEF TypeOK, AgentWithdraw
  <1>3. (vault \in [VaultIds -> VaultType])'
    <2>1. vault[v].balance - a \in Nat /\ vault[v].totalSpent + a \in 0 .. MaxU64
      BY <1>1, ConstantsAssumption DEF VaultType, AgentWithdraw, ValidateWithdraw
    <2> DEFINE charged == [vault[v] EXCEPT !.balance = @ - a, !.totalSpent = @ + a]
    <2>2. charged \in VaultType
      BY <1>1, <2>1 DEF VaultType
    <2>3. vault' = [vault EXCEPT ![v] = charged]
      BY DEF AgentWithdraw
    <2> HIDE DEF charged
    <2> QED BY <2>2, <2>3 DEF TypeOK
  <1>4. (agentCap \in [CapIds -> AgentCapType])'
    <2> DEFINE paid == [agentCap[c] EXCEPT !.dailySpent = @ + a, !.lastAction = now]
    <2>1. agentCap[c] \in AgentCapType
      BY DEF TypeOK
    <2>2. agentCap[c].dailySpent + a \in Nat /\ now \in Nat
      BY <2>1, <1>1 DEF AgentCapType
    <2>3. paid \in AgentCapType
      BY <2>1, <2>2 DEF AgentCapType
    <2>4. agentCap' = [agentCap EXCEPT ![c] = paid]
      BY DEF AgentWithdraw
    <2> QED BY <2>3, <2>4 DEF TypeOK
  <1>5. (coins \in [Users -> Nat])'
    BY <1>1, <1>2 DEF TypeOK, AgentWithdraw
  <1>6. (withdrawn \in Seq(WithdrawnType))'
    BY <1>1 DEF TypeOK, WithdrawnType, AgentWithdraw
  <1>7. (\A d \in CapIds : /\ Issued(d) => agentCap[d].terms \in Terms /\ holder[d] \in Users
                           /\ agentCap[d].lastAction <= now)'
    BY <1>1 DEF TypeOK, AgentCapType, Issued, AgentWithdraw
  <1> QED BY <1>1, <1>3, <1>4, <1>5, <1>6, <1>7 DEF TypeOK, AgentWithdraw

LEMMA AnyoneStepTypeOK ==
  ASSUME TypeOK, NEW s \in Users, NEW v \in VaultIds, AnyoneStep(s, v)
  PROVE  TypeOK'
  <1>0. vault[v] \in VaultType /\ coins[s] \in Nat /\ coins \in [Users -> Nat]
    BY DEF TypeOK
  <1>1. ASSUME NEW a \in Amounts, Deposit(s, v, a)
        PROVE  TypeOK'
    <2>1. coins[s] - a \in Nat /\ vault[v].balance + a \in Nat
      BY <1>0, <1>1, ConstantsAssumption DEF Deposit, VaultType
    <2>2. [vault[v] EXCEPT !.balance = @ + a] \in VaultType
      BY <1>0, <2>1 DEF VaultType
    <2> QED BY <1>1, <2>1, <2>2 DEF Deposit, TypeOK, Issued
  <1>2. ASSUME NEW a \in Amounts, RecordSpend(v, a)
        PROVE  TypeOK'
    <2>1. vault[v].totalSpent + a \in 0 .. MaxU64
      BY <1>0, <1>2, ConstantsAssumption DEF RecordSpend, VaultType
    <2>2. [vault[v] EXCEPT !.totalSpent = @ + a] \in VaultType
      BY <1>0, <2>1 DEF VaultType
    <2> QED BY <1>2, <2>1, <2>2 DEF RecordSpend, TypeOK, Issued
  <1>3. ASSUME NEW a \in Amounts, TakeBalance(s, v, a)
        PROVE  TypeOK'
    <2>1. coins[s] + a \in Nat /\ vault[v].balance - a \in Nat
      BY <1>0, <1>3, ConstantsAssumption DEF TakeBalance, VaultType
    <2>2. [vault[v] EXCEPT !.balance = @ - a] \in VaultType
      BY <1>0, <2>1 DEF VaultType
    <2> QED BY <1>3, <2>1, <2>2 DEF TakeBalance, TypeOK, Issued
  <1> QED BY <1>1, <1>2, <1>3 DEF AnyoneStep

LEMMA OwnerStepTypeOK ==
  ASSUME TypeOK, NEW s \in Users, NEW v \in VaultIds, OwnerStep(s, v)
  PROVE  TypeOK'
  <1>0. vault[v] \in VaultType /\ coins[s] \in Nat /\ coins \in [Users -> Nat]
    BY DEF TypeOK
  <1>1. ASSUME NEW a \in Amounts, NEW b \in Budgets, CreateVault(s, v, a, b)
        PROVE  TypeOK'
    <2>1. a \in Nat /\ b \in 0 .. MaxU64 /\ coins[s] - a \in Nat
      BY <1>0, <1>1, ConstantsAssumption DEF CreateVault
    <2>2. NewVault(s, a, b) \in VaultType
      BY <2>1, ConstantsAssumption DEF NewVault, VaultType
    <2> QED BY <1>1, <2>1, <2>2 DEF CreateVault, TypeOK, Issued
  <1>3. ASSUME NEW a \in Amounts, OwnerWithdraw(s, v, a)
        PROVE  TypeOK'
    <2>1. coins[s] + a \in Nat /\ vault[v].balance - a \in Nat
      BY <1>0, <1>3, ConstantsAssumption DEF OwnerWithdraw, VaultType
    <2>2. [vault[v] EXCEPT !.balance = @ - a] \in VaultType
      BY <1>0, <2>1 DEF VaultType
    <2> QED BY <1>3, <2>1, <2>2 DEF OwnerWithdraw, TypeOK, Issued
  <1>4. CASE Pause(s, v)
    BY <1>0, <1>4 DEF Pause, TypeOK, VaultType, Issued
  <1>5. CASE Unpause(s, v)
    BY <1>0, <1>5 DEF Unpause, TypeOK, VaultType, Issued
  <1>6. ASSUME NEW b \in Budgets, UpdateBudget(s, v, b)
        PROVE  TypeOK'
    <2>1. [vault[v] EXCEPT !.totalBudget = b] \in VaultType
      BY <1>0, ConstantsAssumption DEF VaultType
    <2> QED BY <1>6, <2>1 DEF UpdateBudget, TypeOK, Issued
  <1>7. ASSUME NEW c \in CapIds, RevokeAgentCap(s, v, c)
        PROVE  TypeOK'
    <2>1. [vault[v] EXCEPT !.revokedCaps = @ \cup {c}] \in VaultType
      BY <1>0 DEF VaultType
    <2> QED BY <1>7, <2>1 DEF RevokeAgentCap, TypeOK, Issued
  <1>8. ASSUME NEW c \in CapIds, NEW t \in Terms, NEW r \in Users,
               CreateAgentCap(s, v, c, t, r)
        PROVE  TypeOK'
    <2>1. NewAgentCap(v, t) \in AgentCapType
      BY DEF NewAgentCap, AgentCapType
    <2> QED BY <1>8, <2>1 DEF CreateAgentCap, NewAgentCap, TypeOK, Issued
  <1> QED BY <1>1, <1>3, <1>4, <1>5, <1>6, <1>7, <1>8 DEF OwnerStep

LEMMA AgentStepTypeOK ==
  ASSUME TypeOK, NEW c \in CapIds, AgentStep(c)
  PROVE  TypeOK'
  <1>1. ASSUME NEW r \in Users, TransferAgentCap(c, r)
        PROVE  TypeOK'
    BY <1>1 DEF TransferAgentCap, TypeOK, Issued
  <1> QED BY <1>1, AgentWithdrawTypeOK DEF AgentStep

LEMMA TypeOKStep == TypeOK /\ [Next]_vars => TypeOK'
  <1> SUFFICES ASSUME TypeOK, [Next]_vars PROVE TypeOK'
    OBVIOUS
  <1>1. CASE Tick
    BY <1>1 DEF Tick, TypeOK, AgentCapType, Issued
  <1>2. CASE UNCHANGED vars
    BY <1>2 DEF vars, TypeOK, Issued
  <1> QED BY <1>1, <1>2, AnyoneStepTypeOK, OwnerStepTypeOK, AgentStepTypeOK DEF Next

\* The type invariant of the on-chain wallet.
THEOREM VaultTypeCorrect == Spec => []TypeOK
  BY InitTypeOK, TypeOKStep, PTL DEF Spec

-----------------------------------------------------------------------------
(* Every step is a withdrawal or leaves all that caps ever spent alone. *)

\* Objects that do not exist yet have all their counters at zero.
BlankUntilCreated ==
    \A v \in VaultIds : ~Created(v) => vault[v] = NewVault(NoUser, 0, 0)

BlankUntilIssued ==
    \A c \in CapIds : ~Issued(c) => agentCap[c] = NewAgentCap(NoVault, NoTerms)

LastActionIsLatest ==
    \A i \in DOMAIN withdrawn :
        /\ withdrawn[i].at > 0
        /\ withdrawn[i].at <= agentCap[withdrawn[i].cap].lastAction

IInv ==
    /\ TypeOK
    /\ BlankUntilCreated
    /\ BlankUntilIssued
    /\ LastActionIsLatest
    /\ WithdrawalsKeepTerms

Withdrawal ==
    \E c \in CapIds, v \in VaultIds, a \in Amounts, x \in Actions :
        AgentWithdraw(c, v, a, x)

NothingSpent ==
    /\ withdrawn' = withdrawn
    /\ \A c \in CapIds : Issued(c) => agentCap'[c] = agentCap[c]
    /\ \A c \in CapIds : ~Issued(c) =>
          agentCap'[c] = agentCap[c] \/ agentCap'[c].dailySpent = 0
    /\ \A c \in CapIds : ~Issued(c) /\ Issued(c)' =>
          agentCap'[c].terms \in Terms /\ agentCap'[c].dailySpent = 0
    /\ \A v \in VaultIds : vault'[v].totalSpent >= vault[v].totalSpent

LEMMA SpendOrNot ==
  ASSUME TypeOK, BlankUntilCreated, [Next]_vars
  PROVE  Withdrawal \/ NothingSpent
  <1>0. /\ \A v \in VaultIds : vault[v].totalSpent \in Nat
        /\ vault \in [VaultIds -> VaultType]
    BY ConstantsAssumption DEF TypeOK, VaultType
  <1>1. CASE UNCHANGED vars \/ Tick
    BY <1>0, <1>1 DEF vars, Tick, NothingSpent, Issued
  <1>2. ASSUME NEW c \in CapIds, AgentStep(c)
        PROVE  Withdrawal \/ NothingSpent
    BY <1>0, <1>2 DEF AgentStep, TransferAgentCap, Withdrawal, NothingSpent, Issued
  <1>3. ASSUME NEW s \in Users, NEW v \in VaultIds, AnyoneStep(s, v)
        PROVE  NothingSpent
    <2> USE <1>0 DEF NothingSpent, Issued, VaultType
    <2>1. ASSUME NEW a \in Amounts, Deposit(s, v, a)
          PROVE  NothingSpent
      BY <2>1 DEF Deposit
    <2>2. ASSUME NEW a \in Amounts, RecordSpend(v, a)
          PROVE  NothingSpent
      BY <2>2, ConstantsAssumption DEF RecordSpend
    <2>3. ASSUME NEW a \in Amounts, TakeBalance(s, v, a)
          PROVE  NothingSpent
      BY <2>3 DEF TakeBalance
    <2> QED BY <1>3, <2>1, <2>2, <2>3 DEF AnyoneStep
  <1>4. ASSUME NEW s \in Users, NEW v \in VaultIds, OwnerStep(s, v)
        PROVE  NothingSpent
    <2> USE <1>0 DEF NothingSpent, Issued, TypeOK, VaultType
    <2>1. ASSUME NEW c \in CapIds, NEW t \in Terms, NEW r \in Users,
                 CreateAgentCap(s, v, c, t, r)
          PROVE  NothingSpent
      BY <2>1 DEF CreateAgentCap, NewAgentCap
    <2>2. ASSUME NEW a \in Amounts, NEW b \in Budgets, CreateVault(s, v, a, b)
          PROVE  NothingSpent
      BY <2>2 DEF CreateVault, NewVault, BlankUntilCreated
    <2>4. ASSUME NEW a \in Amounts, OwnerWithdraw(s, v, a)
          PROVE  NothingSpent
      BY <2>4 DEF OwnerWithdraw
    <2>7. CASE Pause(s, v)
      BY <2>7 DEF Pause
    <2>8. CASE Unpause(s, v)
      BY <2>8 DEF Unpause
    <2>5. ASSUME NEW b \in Budgets, UpdateBudget(s, v, b)
          PROVE  NothingSpent
      BY <2>5 DEF UpdateBudget
    <2>6. ASSUME NEW c \in CapIds, RevokeAgentCap(s, v, c)
          PROVE  NothingSpent
      BY <2>6 DEF RevokeAgentCap
    <2> QED BY <1>4, <2>1, <2>2, <2>4, <2>5, <2>6, <2>7, <2>8 DEF OwnerStep
  <1> QED BY <1>1, <1>2, <1>3, <1>4 DEF Next

LEMMA BlankStep ==
  ASSUME TypeOK, BlankUntilCreated, [Next]_vars
  PROVE  BlankUntilCreated'
  <1> USE DEF BlankUntilCreated, Created, TypeOK
  <1>1. CASE UNCHANGED vars \/ Tick
    BY <1>1 DEF vars, Tick
  <1>2. ASSUME NEW c \in CapIds, AgentStep(c)
        PROVE  BlankUntilCreated'
    <2>1. CASE \E r \in Users : TransferAgentCap(c, r)
      BY <2>1 DEF TransferAgentCap
    <2>2. ASSUME NEW v \in VaultIds, NEW a \in Amounts, NEW x \in Actions,
                 AgentWithdraw(c, v, a, x)
          PROVE  BlankUntilCreated'
      <3>1. Created(v)
        BY <2>2, ConstantsAssumption DEF AgentWithdraw, ValidateWithdraw, NewVault
      <3> QED BY <2>2, <3>1 DEF AgentWithdraw, VaultType
    <2> QED BY <1>2, <2>1, <2>2 DEF AgentStep
  <1>3. ASSUME NEW s \in Users, NEW v \in VaultIds, OwnerStep(s, v)
        PROVE  BlankUntilCreated'
    <2> USE ConstantsAssumption
    <2>1. ASSUME NEW a \in Amounts, NEW b \in Budgets, CreateVault(s, v, a, b)
          PROVE  BlankUntilCreated'
      BY <2>1 DEF CreateVault, NewVault
    <2>3. ASSUME vault' = vault \/ AssertOwner(s, v),
                 \A w \in VaultIds \ {v} : vault'[w] = vault[w],
                 vault'[v].owner = vault[v].owner
          PROVE  BlankUntilCreated'
      BY <2>3 DEF AssertOwner
    <2>4. ASSUME NEW a \in Amounts, OwnerWithdraw(s, v, a)
          PROVE  BlankUntilCreated'
      BY <2>3, <2>4 DEF OwnerWithdraw, VaultType
    <2>5. CASE Pause(s, v) \/ Unpause(s, v)
      BY <2>3, <2>5 DEF Pause, Unpause, VaultType
    <2>6. ASSUME NEW b \in Budgets, UpdateBudget(s, v, b)
          PROVE  BlankUntilCreated'
      BY <2>3, <2>6 DEF UpdateBudget, VaultType
    <2>7. ASSUME NEW c \in CapIds, RevokeAgentCap(s, v, c)
          PROVE  BlankUntilCreated'
      BY <2>3, <2>7 DEF RevokeAgentCap, VaultType
    <2>8. ASSUME NEW c \in CapIds, NEW t \in Terms, NEW r \in Users,
                 CreateAgentCap(s, v, c, t, r)
          PROVE  BlankUntilCreated'
      BY <2>8 DEF CreateAgentCap
    <2> QED BY <1>3, <2>1, <2>4, <2>5, <2>6, <2>7, <2>8 DEF OwnerStep
  <1>4. ASSUME NEW s \in Users, NEW v \in VaultIds, AnyoneStep(s, v)
        PROVE  BlankUntilCreated'
    <2>1. Created(v) /\ \A w \in VaultIds \ {v} : vault'[w] = vault[w]
      BY <1>4 DEF AnyoneStep, Deposit, RecordSpend, TakeBalance
    <2>2. vault'[v].owner = vault[v].owner
      BY <1>4 DEF AnyoneStep, Deposit, RecordSpend, TakeBalance, VaultType
    <2> QED BY <2>1, <2>2
  <1> QED BY <1>1, <1>2, <1>3, <1>4 DEF Next

LEMMA BlankCapStep ==
  ASSUME TypeOK, BlankUntilIssued, [Next]_vars
  PROVE  BlankUntilIssued'
  <1> USE DEF BlankUntilIssued, Issued
  <1>1. ASSUME agentCap' = agentCap
        PROVE  BlankUntilIssued'
    BY <1>1
  <1>2. ASSUME NEW c \in CapIds, NEW v \in VaultIds, NEW a \in Amounts,
               NEW x \in Actions, AgentWithdraw(c, v, a, x)
        PROVE  BlankUntilIssued'
    <2>1. /\ agentCap'[c].vaultId = agentCap[c].vaultId
          /\ \A d \in CapIds \ {c} : agentCap'[d] = agentCap[d]
      BY <1>2 DEF AgentWithdraw, TypeOK, AgentCapType
    <2> QED BY <1>2, <2>1 DEF AgentWithdraw
  <1>3. ASSUME NEW s \in Users, NEW v \in VaultIds, NEW c \in CapIds, NEW t \in Terms,
               NEW r \in Users, CreateAgentCap(s, v, c, t, r)
        PROVE  BlankUntilIssued'
    <2>1. /\ agentCap'[c].vaultId = v
          /\ \A d \in CapIds \ {c} : agentCap'[d] = agentCap[d]
      BY <1>3 DEF CreateAgentCap, NewAgentCap, TypeOK
    <2> QED BY <2>1, ConstantsAssumption
  <1>4. CASE UNCHANGED vars \/ Tick
    BY <1>1, <1>4 DEF vars, Tick
  <1>5. ASSUME NEW c \in CapIds, AgentStep(c)
        PROVE  BlankUntilIssued'
    BY <1>1, <1>2, <1>5 DEF AgentStep, TransferAgentCap
  <1>6. ASSUME NEW s \in Users, NEW v \in VaultIds, OwnerStep(s, v)
        PROVE  BlankUntilIssued'
    BY <1>1, <1>3, <1>6 DEF OwnerStep, CreateVault, OwnerWithdraw, Pause, Unpause,
                            UpdateBudget, RevokeAgentCap
  <1>7. ASSUME NEW s \in Users, NEW v \in VaultIds, AnyoneStep(s, v)
        PROVE  BlankUntilIssued'
    BY <1>1, <1>7 DEF AnyoneStep, Deposit, RecordSpend, TakeBalance
  <1> QED BY <1>4, <1>5, <1>6, <1>7 DEF Next

-----------------------------------------------------------------------------
(* The terms of the caps, over the whole history of withdrawals *)

LEMMA WithdrawalKeepsTerms ==
  ASSUME IInv, NEW c \in CapIds, NEW v \in VaultIds, NEW a \in Amounts,
         NEW x \in Actions, AgentWithdraw(c, v, a, x)
  PROVE  LastActionIsLatest' /\ WithdrawalsKeepTerms'
  <1> DEFINE n == Len(withdrawn)
  <1> DEFINE e == [cap |-> c, vault |-> v, action |-> x, amount |-> a, at |-> now]
  <1>1. /\ withdrawn \in Seq(WithdrawnType) /\ n \in Nat
        /\ agentCap \in [CapIds -> AgentCapType]
        /\ now \in Nat \ {0}
        /\ \A i \in DOMAIN withdrawn : withdrawn[i] \in WithdrawnType
    BY DEF IInv, TypeOK
  <1>2. /\ DOMAIN withdrawn = 1 .. n
        /\ DOMAIN withdrawn' = 1 .. (n + 1)
        /\ withdrawn'[n + 1] = e
        /\ \A i \in 1 .. n : withdrawn'[i] = withdrawn[i]
    BY <1>1 DEF AgentWithdraw
  <1>3. /\ agentCap'[c].vaultId = agentCap[c].vaultId
        /\ agentCap'[c].terms = agentCap[c].terms
        /\ agentCap'[c].dailySpent = agentCap[c].dailySpent + a
        /\ agentCap'[c].lastAction = now
        /\ \A d \in CapIds \ {c} : agentCap'[d] = agentCap[d]
    BY <1>1 DEF AgentWithdraw, AgentCapType
  <1>4. \A d \in CapIds : /\ agentCap[d].lastAction \in Nat
                          /\ agentCap[d].lastAction <= now
    BY DEF IInv, TypeOK, AgentCapType
  <1>5. LastActionIsLatest'
    <2> SUFFICES ASSUME NEW i \in DOMAIN withdrawn'
                 PROVE  /\ withdrawn'[i].at > 0
                        /\ withdrawn'[i].at <= agentCap'[withdrawn'[i].cap].lastAction
      BY DEF LastActionIsLatest
    <2>1. CASE i = n + 1
      BY <2>1, <1>1, <1>2, <1>3
    <2>2. CASE i \in 1 .. n
      <3>1. /\ withdrawn[i].at > 0
            /\ withdrawn[i].at <= agentCap[withdrawn[i].cap].lastAction
            /\ withdrawn[i].cap \in CapIds /\ withdrawn[i].at \in Nat
        BY <2>2, <1>1, <1>2 DEF IInv, LastActionIsLatest, WithdrawnType
      <3> QED BY <3>1, <2>2, <1>1, <1>2, <1>3, <1>4
    <2> QED BY <2>1, <2>2, <1>1, <1>2
  <1>6. ASSUME NEW d \in CapIds, Issued(d)'
        PROVE  agentCap'[d].dailySpent <= agentCap'[d].terms.dailyLimit
    BY <1>3, <1>6 DEF AgentWithdraw, ValidateWithdraw, IInv, WithdrawalsKeepTerms, Issued
  <1>7. ASSUME NEW i \in DOMAIN withdrawn'
        PROVE  KeepsTerms(withdrawn[i])'
    <2>1. CASE i = n + 1
      BY <2>1, <1>1, <1>2, <1>3 DEF AgentWithdraw, ValidateWithdraw, KeepsTerms
    <2>2. CASE i \in 1 .. n
      <3>1. KeepsTerms(withdrawn[i]) /\ withdrawn[i].cap \in CapIds
        BY <2>2, <1>1, <1>2 DEF IInv, WithdrawalsKeepTerms, WithdrawnType
      <3> QED BY <3>1, <2>2, <1>2, <1>3 DEF KeepsTerms
    <2> QED BY <2>1, <2>2, <1>1, <1>2
  <1>8. ASSUME NEW i \in DOMAIN withdrawn', NEW j \in DOMAIN withdrawn',
               i < j, withdrawn'[i].cap = withdrawn'[j].cap
        PROVE  withdrawn'[j].at - withdrawn'[i].at
                   >= agentCap'[withdrawn'[i].cap].terms.cooldown
    <2> DEFINE w == withdrawn[i]
    <2>1. i \in 1 .. n /\ withdrawn'[i] = w
      BY <1>8, <1>1, <1>2
    <2>2. w \in WithdrawnType /\ w.cap \in CapIds /\ w.at \in Nat
      BY <2>1, <1>1, <1>2 DEF WithdrawnType
    <2>3. agentCap'[w.cap].terms = agentCap[w.cap].terms
      BY <2>2, <1>3
    <2>4. CASE j \in 1 .. n
      BY <2>4, <1>8, <2>1, <2>3, <1>2 DEF IInv, WithdrawalsKeepTerms
    <2>5. CASE j = n + 1
      <3>1. w.cap = c /\ withdrawn'[j].at = now
        BY <2>5, <2>1, <1>8, <1>2
      <3>2. w.at > 0 /\ w.at <= agentCap[c].lastAction
        BY <3>1, <2>1, <1>2 DEF IInv, LastActionIsLatest
      <3>3. now - agentCap[c].lastAction >= agentCap[c].terms.cooldown
        BY <3>2, <2>2, <1>4 DEF AgentWithdraw, ValidateWithdraw
      <3>4. agentCap[c].terms.cooldown \in Nat
        BY ConstantsAssumption DEF AgentWithdraw, IInv, TypeOK, TermsType
      <3> HIDE DEF w
      <3> QED BY <3>1, <3>2, <3>3, <3>4, <2>1, <2>2, <2>3, <1>1, <1>4
    <2> QED BY <2>4, <2>5, <1>1, <1>2
  <1> QED BY <1>5, <1>6, <1>7, <1>8 DEF WithdrawalsKeepTerms

LEMMA NothingSpentKeepsTerms ==
  ASSUME IInv, NothingSpent
  PROVE  LastActionIsLatest' /\ WithdrawalsKeepTerms'
  <1>1. \A i \in DOMAIN withdrawn : withdrawn[i].cap \in CapIds /\ Issued(withdrawn[i].cap)
    <2>1. \A i \in DOMAIN withdrawn : withdrawn[i] \in WithdrawnType
      BY DEF IInv, TypeOK
    <2> QED BY <2>1, ConstantsAssumption
            DEF IInv, WithdrawalsKeepTerms, KeepsTerms, WithdrawnType, Issued
  <1>2. \A i \in DOMAIN withdrawn : agentCap'[withdrawn[i].cap] = agentCap[withdrawn[i].cap]
    BY <1>1 DEF NothingSpent
  <1>3. withdrawn' = withdrawn
    BY DEF NothingSpent
  <1>4. LastActionIsLatest'
    BY <1>2, <1>3 DEF IInv, LastActionIsLatest
  <1>5. ASSUME NEW d \in CapIds, Issued(d)'
        PROVE  agentCap'[d].dailySpent <= agentCap'[d].terms.dailyLimit
    <2>1. CASE Issued(d)
      BY <2>1 DEF NothingSpent, IInv, WithdrawalsKeepTerms
    <2>2. CASE ~Issued(d)
      <3>1. agentCap'[d].terms \in TermsType /\ agentCap'[d].dailySpent = 0
        BY <2>2, <1>5, ConstantsAssumption DEF NothingSpent
      <3> QED BY <3>1 DEF TermsType
    <2> QED BY <2>1, <2>2
  <1>6. \A i \in DOMAIN withdrawn' : KeepsTerms(withdrawn[i])'
    BY <1>2, <1>3 DEF IInv, WithdrawalsKeepTerms, KeepsTerms
  <1> QED BY <1>2, <1>3, <1>4, <1>5, <1>6 DEF IInv, WithdrawalsKeepTerms

LEMMA Inductive == Spec => []IInv
  <1>1. Init => IInv
    <2> SUFFICES ASSUME Init PROVE IInv
      OBVIOUS
    <2>1. TypeOK
      BY InitTypeOK
    <2> QED BY <2>1, ConstantsAssumption
            DEF Init, IInv, BlankUntilCreated, BlankUntilIssued, LastActionIsLatest,
                WithdrawalsKeepTerms, Issued, NewAgentCap
  <1>2. IInv /\ [Next]_vars => IInv'
    <2> SUFFICES ASSUME IInv, [Next]_vars PROVE IInv'
      OBVIOUS
    <2>1. TypeOK /\ BlankUntilCreated /\ BlankUntilIssued
      BY DEF IInv
    <2>2. TypeOK'
      BY <2>1, TypeOKStep
    <2>3. BlankUntilCreated' /\ BlankUntilIssued'
      BY <2>1, BlankStep, BlankCapStep
    <2>4. LastActionIsLatest' /\ WithdrawalsKeepTerms'
      BY <2>1, SpendOrNot, NothingSpentKeepsTerms, WithdrawalKeepsTerms DEF Withdrawal
    <2> QED BY <2>2, <2>3, <2>4 DEF IInv
  <1> QED BY <1>1, <1>2, PTL DEF Spec

\* No withdrawal, whatever the interleaving of owners, agents and the clock,
\* breaks the limits, expiry, action list or cooldown of the cap it was made with.
THEOREM CapTermsAreKept == Spec => []WithdrawalsKeepTerms
  BY Inductive, PTL DEF IInv

-----------------------------------------------------------------------------
(* What no step may do *)

LEMMA WithdrawalIsDoubleEntry ==
  ASSUME TypeOK, NEW c \in CapIds, NEW v \in VaultIds, NEW a \in Amounts,
         NEW x \in Actions, AgentWithdraw(c, v, a, x)
  PROVE  /\ a > 0 /\ a \in Nat
         /\ agentCap[c].vaultId = v
         /\ vault[v].totalSpent + a <= vault[v].totalBudget
         /\ vault'[v].totalSpent = vault[v].totalSpent + a
         /\ vault'[v].balance = vault[v].balance - a
         /\ vault'[v].revokedCaps = vault[v].revokedCaps
         /\ \A w \in VaultIds \ {v} : vault'[w] = vault[w]
         /\ \A d \in CapIds \ {c} : agentCap'[d] = agentCap[d]
         /\ holder[c] \in Users
  BY ConstantsAssumption DEF AgentWithdraw, ValidateWithdraw, TypeOK, VaultType

SameSpent == \A v \in VaultIds : vault'[v].totalSpent = vault[v].totalSpent

\* Withdrawals raise the counter of a vault, and record_spend does; nothing else
\* changes it.
LEMMA SpentChangesOrNot ==
  ASSUME TypeOK, BlankUntilCreated, [Next]_vars
  PROVE  \/ SameSpent
         \/ Withdrawal
         \/ \E v \in VaultIds, a \in Amounts : RecordSpend(v, a)
  <1>0. vault \in [VaultIds -> VaultType]
    BY DEF TypeOK
  <1> USE <1>0 DEF SameSpent, VaultType
  <1>1. CASE UNCHANGED vars \/ Tick
    BY <1>1 DEF vars, Tick
  <1>2. ASSUME NEW c \in CapIds, AgentStep(c)
        PROVE  SameSpent \/ Withdrawal
    BY <1>2 DEF AgentStep, TransferAgentCap, Withdrawal
  <1>3. ASSUME NEW s \in Users, NEW v \in VaultIds, AnyoneStep(s, v)
        PROVE  SameSpent \/ \E a \in Amounts : RecordSpend(v, a)
    BY <1>3 DEF AnyoneStep, Deposit, TakeBalance
  <1>4. ASSUME NEW s \in Users, NEW v \in VaultIds, OwnerStep(s, v)
        PROVE  SameSpent
    <2>1. ASSUME NEW a \in Amounts, NEW b \in Budgets, CreateVault(s, v, a, b)
          PROVE  SameSpent
      BY <2>1 DEF CreateVault, NewVault, BlankUntilCreated
    <2>2. ASSUME NEW a \in Amounts, OwnerWithdraw(s, v, a)
          PROVE  SameSpent
      BY <2>2 DEF OwnerWithdraw
    <2>3. CASE Pause(s, v) \/ Unpause(s, v)
      BY <2>3 DEF Pause, Unpause
    <2>4. ASSUME NEW b \in Budgets, UpdateBudget(s, v, b)
          PROVE  SameSpent
      BY <2>4 DEF UpdateBudget
    <2>5. ASSUME NEW c \in CapIds, RevokeAgentCap(s, v, c)
          PROVE  SameSpent
      BY <2>5 DEF RevokeAgentCap
    <2>6. ASSUME NEW c \in CapIds, NEW t \in Terms, NEW r \in Users,
                 CreateAgentCap(s, v, c, t, r)
          PROVE  SameSpent
      BY <2>6 DEF CreateAgentCap
    <2> QED BY <1>4, <2>1, <2>2, <2>3, <2>4, <2>5, <2>6 DEF OwnerStep
  <1> QED BY <1>1, <1>2, <1>3, <1>4 DEF Next

\* A step that changes an issued cap is one withdrawal, exact in every object
\* and in the events, inside the budget; whatever else raises total_spent moves
\* no money.
THEOREM SpendingIsDoubleEntry == Spec => SpendIsDoubleEntry
  <1> DEFINE Booked(c) ==
        LET v == agentCap[c].vaultId
            paid == agentCap'[c].dailySpent - agentCap[c].dailySpent IN
        /\ paid > 0
        /\ vault[v].totalSpent + paid <= vault[v].totalBudget
        /\ vault' = [vault EXCEPT ![v].balance = @ - paid, ![v].totalSpent = @ + paid]
        /\ agentCap' = [agentCap EXCEPT ![c].dailySpent = @ + paid, ![c].lastAction = now]
        /\ coins' = [coins EXCEPT ![holder[c]] = @ + paid]
        /\ \E x \in Actions :
              withdrawn' = Append(withdrawn, [cap |-> c, vault |-> v, action |-> x,
                                              amount |-> paid, at |-> now])
  <1> DEFINE Unpaid(v) ==
        /\ vault'[v].totalSpent > vault[v].totalSpent
        /\ coins' = coins /\ withdrawn' = withdrawn
        /\ \A w \in VaultIds : vault'[w].balance = vault[w].balance
  <1>1. IInv /\ [Next]_vars =>
          [\A c \in CapIds : Issued(c) /\ agentCap'[c] # agentCap[c] => Booked(c)]_vars
    <2> SUFFICES ASSUME IInv, [Next]_vars, NEW d \in CapIds,
                        Issued(d), agentCap'[d] # agentCap[d]
                 PROVE  Booked(d)
      OBVIOUS
    <2>1. TypeOK /\ BlankUntilCreated
      BY DEF IInv
    <2>2. CASE NothingSpent
      BY <2>2 DEF NothingSpent
    <2>3. ASSUME NEW c \in CapIds, NEW v \in VaultIds, NEW a \in Amounts,
                 NEW x \in Actions, AgentWithdraw(c, v, a, x)
          PROVE  Booked(d)
      <3>1. d = c /\ agentCap[c].vaultId = v /\ a > 0 /\ a \in Nat
        BY <2>1, <2>3, WithdrawalIsDoubleEntry
      <3>2. agentCap'[c].dailySpent - agentCap[c].dailySpent = a
        BY <2>1, <2>3, <3>1 DEF AgentWithdraw, TypeOK, AgentCapType
      <3>3. vault[v].totalSpent + a <= vault[v].totalBudget
        BY <2>1, <2>3, WithdrawalIsDoubleEntry
      <3> QED BY <2>3, <3>1, <3>2, <3>3 DEF AgentWithdraw
    <2> QED BY <2>1, <2>2, <2>3, SpendOrNot DEF Withdrawal
  <1>2. IInv /\ [Next]_vars =>
          [\A v \in VaultIds :
              vault'[v].totalSpent # vault[v].totalSpent /\ agentCap' = agentCap =>
                  Unpaid(v)]_vars
    <2> SUFFICES ASSUME IInv, [Next]_vars, NEW u \in VaultIds,
                        vault'[u].totalSpent # vault[u].totalSpent, agentCap' = agentCap
                 PROVE  Unpaid(u)
      OBVIOUS
    <2>1. TypeOK /\ BlankUntilCreated /\ vault \in [VaultIds -> VaultType]
      BY DEF IInv, TypeOK
    <2>2. ASSUME NEW c \in CapIds, NEW v \in VaultIds, NEW a \in Amounts,
                 NEW x \in Actions, AgentWithdraw(c, v, a, x)
          PROVE  FALSE
      <3>1. a \in Nat \ {0}
        BY <2>1, <2>2, WithdrawalIsDoubleEntry
      <3>2. agentCap \in [CapIds -> AgentCapType] /\ agentCap[c].dailySpent \in Nat
        BY <2>1 DEF TypeOK, AgentCapType
      <3>3. agentCap'[c].dailySpent = agentCap[c].dailySpent + a
        BY <2>2, <3>2 DEF AgentWithdraw, AgentCapType
      <3> QED BY <3>1, <3>2, <3>3
    <2>3. ASSUME NEW v \in VaultIds, NEW a \in Amounts, RecordSpend(v, a)
          PROVE  Unpaid(u)
      <3>1. /\ coins' = coins /\ withdrawn' = withdrawn
            /\ \A w \in VaultIds \ {v} : vault'[w] = vault[w]
            /\ vault'[v].balance = vault[v].balance
            /\ vault'[v].totalSpent = vault[v].totalSpent + a
        BY <2>1, <2>3 DEF RecordSpend, VaultType
      <3>2. a \in Nat /\ vault[v].totalSpent \in Nat
        BY <2>1, ConstantsAssumption DEF VaultType
      <3> QED BY <3>1, <3>2
    <2> QED BY <2>1, <2>2, <2>3, SpentChangesOrNot DEF SameSpent, Withdrawal
  <1> QED BY <1>1, <1>2, Inductive, PTL DEF Spec, SpendIsDoubleEntry

LEMMA RevokedCapsGrow ==
  ASSUME TypeOK, BlankUntilCreated, [Next]_vars, NEW w \in VaultIds
  PROVE  vault[w].revokedCaps \subseteq vault'[w].revokedCaps
  <1> USE DEF TypeOK, VaultType
  <1>1. CASE UNCHANGED vars \/ Tick
    BY <1>1 DEF vars, Tick
  <1>2. ASSUME NEW c \in CapIds, AgentStep(c)
        PROVE  vault[w].revokedCaps \subseteq vault'[w].revokedCaps
    BY <1>2, WithdrawalIsDoubleEntry DEF AgentStep, TransferAgentCap
  <1>3. ASSUME NEW s \in Users, NEW v \in VaultIds, OwnerStep(s, v)
        PROVE  vault[w].revokedCaps \subseteq vault'[w].revokedCaps
    <2>1. ASSUME NEW a \in Amounts, NEW b \in Budgets, CreateVault(s, v, a, b)
          PROVE  vault[w].revokedCaps \subseteq vault'[w].revokedCaps
      BY <2>1 DEF CreateVault, NewVault, BlankUntilCreated
    <2>3. ASSUME NEW a \in Amounts, OwnerWithdraw(s, v, a)
          PROVE  vault[w].revokedCaps \subseteq vault'[w].revokedCaps
      BY <2>3 DEF OwnerWithdraw
    <2>4. CASE Pause(s, v)
      BY <2>4 DEF Pause
    <2>5. CASE Unpause(s, v)
      BY <2>5 DEF Unpause
    <2>6. ASSUME NEW b \in Budgets, UpdateBudget(s, v, b)
          PROVE  vault[w].revokedCaps \subseteq vault'[w].revokedCaps
      BY <2>6 DEF UpdateBudget
    <2>7. ASSUME NEW c \in CapIds, RevokeAgentCap(s, v, c)
          PROVE  vault[w].revokedCaps \subseteq vault'[w].revokedCaps
      BY <2>7 DEF RevokeAgentCap
    <2>8. ASSUME NEW c \in CapIds, NEW t \in Terms, NEW r \in Users,
                 CreateAgentCap(s, v, c, t, r)
          PROVE  vault[w].revokedCaps \subseteq vault'[w].revokedCaps
      BY <2>8 DEF CreateAgentCap
    <2> QED BY <1>3, <2>1, <2>3, <2>4, <2>5, <2>6, <2>7, <2>8 DEF OwnerStep
  <1>4. ASSUME NEW s \in Users, NEW v \in VaultIds, AnyoneStep(s, v)
        PROVE  vault[w].revokedCaps \subseteq vault'[w].revokedCaps
    <2>1. ASSUME NEW a \in Amounts, Deposit(s, v, a)
          PROVE  vault[w].revokedCaps \subseteq vault'[w].revokedCaps
      BY <2>1 DEF Deposit
    <2>2. ASSUME NEW a \in Amounts, RecordSpend(v, a)
          PROVE  vault[w].revokedCaps \subseteq vault'[w].revokedCaps
      BY <2>2 DEF RecordSpend
    <2>3. ASSUME NEW a \in Amounts, TakeBalance(s, v, a)
          PROVE  vault[w].revokedCaps \subseteq vault'[w].revokedCaps
      BY <2>3 DEF TakeBalance
    <2> QED BY <1>4, <2>1, <2>2, <2>3 DEF AnyoneStep
  <1> QED BY <1>1, <1>2, <1>3, <1>4 DEF Next

\* A cap its vault has revoked never pays again, and stays revoked.
THEOREM RevokedCapsStayDead == Spec => RevocationIsFinal
  <1> DEFINE Final ==
        \A v \in VaultIds : \A c \in vault[v].revokedCaps :
            /\ c \in vault'[v].revokedCaps
            /\ agentCap[c].vaultId = v => agentCap'[c] = agentCap[c]
  <1>1. IInv /\ [Next]_vars => [Final]_vars
    <2> SUFFICES ASSUME IInv, [Next]_vars, NEW v \in VaultIds,
                        NEW c \in vault[v].revokedCaps
                 PROVE  /\ c \in vault'[v].revokedCaps
                        /\ agentCap[c].vaultId = v => agentCap'[c] = agentCap[c]
      OBVIOUS
    <2>1. TypeOK /\ BlankUntilCreated /\ c \in CapIds
      BY DEF IInv, TypeOK, VaultType
    <2>2. c \in vault'[v].revokedCaps
      BY <2>1, RevokedCapsGrow
    <2>3. ASSUME agentCap[c].vaultId = v
          PROVE  agentCap'[c] = agentCap[c]
      <3>1. CASE NothingSpent
        BY <2>1, <2>3, <3>1, ConstantsAssumption DEF NothingSpent, Issued
      <3>2. ASSUME NEW d \in CapIds, NEW u \in VaultIds, NEW a \in Amounts,
                   NEW x \in Actions, AgentWithdraw(d, u, a, x)
            PROVE  agentCap'[c] = agentCap[c]
        <4>1. c # d
          BY <2>3, <3>2 DEF AgentWithdraw, ValidateWithdraw
        <4> QED BY <2>1, <3>2, <4>1, WithdrawalIsDoubleEntry
      <3> QED BY <2>1, <3>1, <3>2, SpendOrNot DEF Withdrawal
    <2> QED BY <2>2, <2>3
  <1> QED BY <1>1, Inductive, PTL DEF Spec, RevocationIsFinal

-----------------------------------------------------------------------------
(* The three records of what agents spent *)

Paid == [c \in CapIds |-> agentCap[c].dailySpent]
CapsOf(v) == {c \in CapIds : agentCap[c].vaultId = v}
EventAmounts == [i \in DOMAIN withdrawn |-> withdrawn[i].amount]
EventsOf(c) == {i \in DOMAIN withdrawn : withdrawn[i].cap = c}

\* Only two calls change an AgentCap: the one that creates it and withdrawals.
LEMMA CapsChangeOrNot ==
  ASSUME [Next]_vars
  PROVE  \/ agentCap' = agentCap
         \/ Withdrawal
         \/ \E s \in Users, v \in VaultIds, c \in CapIds, t \in Terms, r \in Users :
               CreateAgentCap(s, v, c, t, r)
  <1>1. CASE UNCHANGED vars \/ Tick
    BY <1>1 DEF vars, Tick
  <1>2. ASSUME NEW c \in CapIds, AgentStep(c)
        PROVE  agentCap' = agentCap \/ Withdrawal
    BY <1>2 DEF AgentStep, TransferAgentCap, Withdrawal
  <1>3. ASSUME NEW s \in Users, NEW v \in VaultIds, OwnerStep(s, v)
        PROVE  \/ agentCap' = agentCap
               \/ \E c \in CapIds, t \in Terms, r \in Users : CreateAgentCap(s, v, c, t, r)
    BY <1>3 DEF OwnerStep, CreateVault, OwnerWithdraw, Pause, Unpause,
                UpdateBudget, RevokeAgentCap
  <1>4. ASSUME NEW s \in Users, NEW v \in VaultIds, AnyoneStep(s, v)
        PROVE  agentCap' = agentCap
    BY <1>4 DEF AnyoneStep, Deposit, RecordSpend, TakeBalance
  <1> QED BY <1>1, <1>2, <1>3, <1>4 DEF Next

LEMMA PaidIsInt ==
  ASSUME TypeOK
  PROVE  \A c \in CapIds : Paid[c] = agentCap[c].dailySpent /\ Paid[c] \in Int
  BY DEF Paid, TypeOK, AgentCapType

LEMMA CapsAreFinite ==
  ASSUME NEW v
  PROVE  CapsOf(v) \in SUBSET CapIds /\ IsFiniteSet(CapsOf(v))
  BY ConstantsAssumption, FS_Subset DEF CapsOf

\* A withdrawal adds its amount to one cap, and that cap's vault's sum.
LEMMA WithdrawalMovesVaultSum ==
  ASSUME TypeOK, TypeOK', NEW c \in CapIds, NEW v \in VaultIds, NEW a \in Amounts,
         NEW x \in Actions, AgentWithdraw(c, v, a, x), TotalSpentCoversCaps
  PROVE  TotalSpentCoversCaps'
  <1> SUFFICES ASSUME NEW w \in VaultIds
               PROVE  SumFunctionOnSet(Paid', CapsOf(w)') <= vault'[w].totalSpent
    BY DEF TotalSpentCoversCaps, Paid, CapsOf
  <1>1. /\ agentCap[c].vaultId = v
        /\ vault'[v].totalSpent = vault[v].totalSpent + a
        /\ \A u \in VaultIds \ {v} : vault'[u] = vault[u]
        /\ \A d \in CapIds \ {c} : agentCap'[d] = agentCap[d]
        /\ a \in Nat
    BY WithdrawalIsDoubleEntry
  <1>2. /\ agentCap'[c].dailySpent = agentCap[c].dailySpent + a
        /\ agentCap'[c].vaultId = agentCap[c].vaultId
    BY DEF AgentWithdraw, TypeOK, AgentCapType
  <1>3. CapsOf(w)' = CapsOf(w)
    BY <1>1, <1>2 DEF CapsOf
  <1>4. SumFunctionOnSet(Paid, CapsOf(w)) <= vault[w].totalSpent
    BY DEF TotalSpentCoversCaps, Paid, CapsOf
  <1>5. /\ \A d \in CapIds : Paid[d] = agentCap[d].dailySpent /\ Paid[d] \in Int
        /\ \A d \in CapIds : Paid'[d] = agentCap'[d].dailySpent /\ Paid'[d] \in Int
    BY PaidIsInt DEF Paid, TypeOK, AgentCapType
  <1>6. CapsOf(w) \in SUBSET CapIds /\ IsFiniteSet(CapsOf(w))
    BY CapsAreFinite
  <1>9. SumFunctionOnSet(Paid, CapsOf(w)) \in Int
    BY <1>5, <1>6, SumType, ConstantsAssumption
  <1>7. CASE w # v
    <2>1. c \notin CapsOf(w)
      BY <1>1, <1>7 DEF CapsOf
    <2>2. \A d \in CapsOf(w) : Paid'[d] = Paid[d]
      BY <2>1, <1>1, <1>5, <1>6
    <2>3. SumFunctionOnSet(Paid', CapsOf(w)) = SumFunctionOnSet(Paid, CapsOf(w))
      BY <2>2, <1>6, SumCongruence
    <2>4. vault'[w].totalSpent = vault[w].totalSpent
      BY <1>1, <1>7
    <2>5. SumFunctionOnSet(Paid', CapsOf(w)') = SumFunctionOnSet(Paid', CapsOf(w))
      BY <1>3, Zenon
    <2> QED BY <2>3, <2>4, <2>5, <1>4
  <1>8. CASE w = v
    <2>1. c \in CapsOf(w)
      BY <1>1, <1>8 DEF CapsOf
    <2>2. \A d \in CapsOf(w) : Paid[d] \in Int
      BY <1>5, <1>6
    <2>3. \A d \in CapsOf(w) \ {c} : Paid'[d] = Paid[d]
      BY <1>1, <1>5, <1>6
    <2>4. SumFunctionOnSet(Paid', CapsOf(w))
            = SumFunctionOnSet(Paid, CapsOf(w)) + Paid'[c] - Paid[c]
      BY <2>1, <2>2, <2>3, <1>5, <1>6, SumUpdate
    <2>5. Paid'[c] = Paid[c] + a
      BY <1>2, <1>5
    <2>6. vault[w].totalSpent \in Int
      BY DEF TypeOK, VaultType
    <2>7. SumFunctionOnSet(Paid', CapsOf(w)') = SumFunctionOnSet(Paid', CapsOf(w))
      BY <1>3, Zenon
    <2> QED BY <2>4, <2>5, <2>6, <2>7, <1>1, <1>4, <1>5, <1>8, <1>9
  <1> QED BY <1>7, <1>8

\* Nothing else changes the sum over the caps of a vault, since a new cap has
\* spent nothing, and nothing takes the counter of a vault back.
LEMMA NothingSpentKeepsVaultSum ==
  ASSUME TypeOK, TypeOK', [Next]_vars, NothingSpent, ~Withdrawal,
         TotalSpentCoversCaps
  PROVE  TotalSpentCoversCaps'
  <1> SUFFICES ASSUME NEW v \in VaultIds
               PROVE  SumFunctionOnSet(Paid', CapsOf(v)') <= vault'[v].totalSpent
    BY DEF TotalSpentCoversCaps, Paid, CapsOf
  <1>0. /\ vault[v].totalSpent \in Int /\ vault'[v].totalSpent \in Int
        /\ SumFunctionOnSet(Paid, CapsOf(v)) \in Int
    <2>1. vault[v].totalSpent \in Int /\ vault'[v].totalSpent \in Int
      BY ConstantsAssumption DEF TypeOK, VaultType
    <2>2. \A c \in CapIds : Paid[c] \in Int
      BY PaidIsInt
    <2>3. CapsOf(v) \in SUBSET CapIds
      BY CapsAreFinite
    <2> QED BY <2>1, <2>2, <2>3, SumType, ConstantsAssumption
  <1>1. vault'[v].totalSpent >= vault[v].totalSpent
    BY DEF NothingSpent
  <1>2. SumFunctionOnSet(Paid, CapsOf(v)) <= vault[v].totalSpent
    BY DEF TotalSpentCoversCaps, Paid, CapsOf
  <1>3. CASE agentCap' = agentCap
    <2>1. Paid' = Paid /\ CapsOf(v)' = CapsOf(v)
      BY <1>3 DEF Paid, CapsOf
    <2>2. SumFunctionOnSet(Paid', CapsOf(v)') = SumFunctionOnSet(Paid, CapsOf(v))
      BY <2>1, Zenon
    <2> QED BY <1>0, <1>1, <1>2, <2>2
  <1>4. ASSUME NEW s \in Users, NEW u \in VaultIds, NEW c \in CapIds, NEW t \in Terms,
               NEW r \in Users, CreateAgentCap(s, u, c, t, r)
        PROVE  SumFunctionOnSet(Paid', CapsOf(v)') <= vault'[v].totalSpent
    <2>1. /\ \A d \in CapIds \ {c} : agentCap'[d] = agentCap[d]
          /\ agentCap'[c].vaultId = u /\ agentCap'[c].dailySpent = 0
          /\ agentCap[c].vaultId = NoVault
      BY <1>4 DEF CreateAgentCap, NewAgentCap, TypeOK, Issued
    <2>2. \A d \in CapIds : Paid'[d] = agentCap'[d].dailySpent /\ Paid'[d] \in Int
      BY DEF Paid, TypeOK, AgentCapType
    <2>3. c \notin CapsOf(v) /\ CapsOf(v) \in SUBSET CapIds /\ IsFiniteSet(CapsOf(v))
      BY <2>1, CapsAreFinite, ConstantsAssumption DEF CapsOf
    <2>4. \A d \in CapsOf(v) : Paid'[d] = Paid[d]
      BY <2>1, <2>2, <2>3, PaidIsInt
    <2>5. SumFunctionOnSet(Paid', CapsOf(v)) = SumFunctionOnSet(Paid, CapsOf(v))
      BY <2>3, <2>4, SumCongruence
    <2>6. CASE u # v
      <3>1. CapsOf(v)' = CapsOf(v)
        BY <2>1, <2>3, <2>6 DEF CapsOf
      <3>2. SumFunctionOnSet(Paid', CapsOf(v)') = SumFunctionOnSet(Paid', CapsOf(v))
        BY <3>1, Zenon
      <3> QED BY <1>0, <1>1, <1>2, <2>5, <3>2
    <2>7. CASE u = v
      <3>1. CapsOf(v)' = CapsOf(v) \cup {c}
        BY <2>1, <2>7 DEF CapsOf
      <3>2. SumFunctionOnSet(Paid', CapsOf(v) \cup {c})
              = SumFunctionOnSet(Paid', CapsOf(v)) + Paid'[c]
        BY <2>2, <2>3, SumAdd, ConstantsAssumption
      <3>3. SumFunctionOnSet(Paid', CapsOf(v)') = SumFunctionOnSet(Paid', CapsOf(v) \cup {c})
        BY <3>1, Zenon
      <3>4. Paid'[c] = 0
        BY <2>1, <2>2
      <3> QED BY <1>0, <1>1, <1>2, <2>5, <3>2, <3>3, <3>4
    <2> QED BY <2>6, <2>7
  <1> QED BY <1>3, <1>4, CapsChangeOrNot

\* Each withdrawal appends one event with its cap and amount.
LEMMA WithdrawalIsInEvents ==
  ASSUME TypeOK, TypeOK', NEW c \in CapIds, NEW v \in VaultIds, NEW a \in Amounts,
         NEW x \in Actions, AgentWithdraw(c, v, a, x), EventsAccountForSpend
  PROVE  EventsAccountForSpend'
  <1> SUFFICES ASSUME NEW d \in CapIds
               PROVE  agentCap'[d].dailySpent
                        = SumFunctionOnSet(EventAmounts', EventsOf(d)')
    BY DEF EventsAccountForSpend, EventAmounts, EventsOf
  <1> DEFINE n == Len(withdrawn)
  <1>1. /\ withdrawn \in Seq(WithdrawnType) /\ n \in Nat
        /\ \A i \in DOMAIN withdrawn : withdrawn[i] \in WithdrawnType
    BY DEF TypeOK
  <1>2. /\ DOMAIN withdrawn = 1 .. n
        /\ DOMAIN withdrawn' = 1 .. (n + 1)
        /\ withdrawn'[n + 1].cap = c /\ withdrawn'[n + 1].amount = a
        /\ \A i \in 1 .. n : withdrawn'[i] = withdrawn[i]
    BY <1>1 DEF AgentWithdraw
  <1>3. /\ agentCap'[c].dailySpent = agentCap[c].dailySpent + a
        /\ \A e \in CapIds \ {c} : agentCap'[e] = agentCap[e]
        /\ agentCap[c].dailySpent \in Nat /\ a \in Nat
    <2>1. agentCap'[c].dailySpent = agentCap[c].dailySpent + a /\ agentCap[c].dailySpent \in Nat
      BY DEF AgentWithdraw, TypeOK, AgentCapType
    <2>2. (\A e \in CapIds \ {c} : agentCap'[e] = agentCap[e]) /\ a \in Nat
      BY WithdrawalIsDoubleEntry
    <2> QED BY <2>1, <2>2
  <1> HIDE DEF n
  <1>4. agentCap[d].dailySpent = SumFunctionOnSet(EventAmounts, EventsOf(d))
    BY DEF EventsAccountForSpend, EventAmounts, EventsOf
  <1>5. IsFiniteSet(1 .. (n + 1)) /\ EventsOf(d) \in SUBSET (1 .. (n + 1))
    <2>1. IsFiniteSet(1 .. (n + 1))
      BY <1>1, FS_Interval
    <2>2. 1 .. n \subseteq 1 .. (n + 1)
      BY <1>1
    <2> QED BY <2>1, <2>2, <1>2 DEF EventsOf
  <1>6. IsFiniteSet(EventsOf(d))
    BY <1>5, FS_Subset
  <1>7. \A i \in EventsOf(d) : EventAmounts'[i] = EventAmounts[i]
    BY <1>1, <1>2 DEF EventsOf, EventAmounts
  <1>8. SumFunctionOnSet(EventAmounts', EventsOf(d))
          = SumFunctionOnSet(EventAmounts, EventsOf(d))
    BY <1>6, <1>7, SumCongruence
  <1>9. \A i \in 1 .. (n + 1) : EventAmounts'[i] \in Int
    <2>1. \A i \in 1 .. n : withdrawn[i].amount \in Nat
      BY <1>1, <1>2 DEF WithdrawnType
    <2>2. \A i \in 1 .. (n + 1) : i = n + 1 \/ i \in 1 .. n
      BY <1>1
    <2>3. \A i \in 1 .. (n + 1) : EventAmounts'[i] = withdrawn'[i].amount
      BY <1>2 DEF EventAmounts
    <2> QED BY <2>1, <2>2, <2>3, <1>2, <1>3
  <1>10. CASE d # c
    <2>1. EventsOf(d)' = EventsOf(d)
      BY <1>1, <1>2, <1>10 DEF EventsOf
    <2>2. SumFunctionOnSet(EventAmounts', EventsOf(d)')
            = SumFunctionOnSet(EventAmounts', EventsOf(d))
      BY <2>1, Zenon
    <2> QED BY <2>2, <1>3, <1>4, <1>8, <1>10
  <1>11. CASE d = c
    <2>1. EventsOf(d)' = EventsOf(d) \cup {n + 1}
      BY <1>1, <1>2, <1>11 DEF EventsOf
    <2>2. n + 1 \notin EventsOf(d) /\ n + 1 \in 1 .. (n + 1)
      BY <1>1, <1>2 DEF EventsOf
    <2>3. SumFunctionOnSet(EventAmounts', EventsOf(d) \cup {n + 1})
            = SumFunctionOnSet(EventAmounts', EventsOf(d)) + EventAmounts'[n + 1]
      BY <2>2, <1>5, <1>9, SumAdd
    <2>4. SumFunctionOnSet(EventAmounts', EventsOf(d)')
            = SumFunctionOnSet(EventAmounts', EventsOf(d) \cup {n + 1})
      BY <2>1, Zenon
    <2>5. EventAmounts'[n + 1] = a
      BY <2>2, <1>2 DEF EventAmounts
    <2> QED BY <2>3, <2>4, <2>5, <1>3, <1>4, <1>8, <1>11
  <1> QED BY <1>10, <1>11

LEMMA NothingSpentKeepsEventSum ==
  ASSUME BlankUntilIssued, NothingSpent, EventsAccountForSpend
  PROVE  EventsAccountForSpend'
  <1> SUFFICES ASSUME NEW c \in CapIds
               PROVE  agentCap'[c].dailySpent
                        = SumFunctionOnSet(EventAmounts', EventsOf(c)')
    BY DEF EventsAccountForSpend, EventAmounts, EventsOf
  <1>1. agentCap[c].dailySpent = SumFunctionOnSet(EventAmounts, EventsOf(c))
    BY DEF EventsAccountForSpend, EventAmounts, EventsOf
  <1>2. EventAmounts' = EventAmounts /\ EventsOf(c)' = EventsOf(c)
    BY DEF NothingSpent, EventAmounts, EventsOf
  <1>3. SumFunctionOnSet(EventAmounts', EventsOf(c)')
          = SumFunctionOnSet(EventAmounts, EventsOf(c))
    BY <1>2, Zenon
  <1>4. agentCap'[c].dailySpent = agentCap[c].dailySpent
    BY DEF NothingSpent, BlankUntilIssued, NewAgentCap
  <1> QED BY <1>1, <1>3, <1>4

LEMMA SumsAtStart == Init => SpendIsAccountedFor
  <1> SUFFICES ASSUME Init PROVE SpendIsAccountedFor
    OBVIOUS
  <1>1. ASSUME NEW v \in VaultIds
        PROVE  SumFunctionOnSet(Paid, CapsOf(v)) <= vault[v].totalSpent
    <2>1. CapsOf(v) = {} /\ vault[v].totalSpent = 0
      BY ConstantsAssumption DEF Init, CapsOf, NewAgentCap, NewVault
    <2>2. SumFunctionOnSet(Paid, CapsOf(v)) = SumFunctionOnSet(Paid, {})
      BY <2>1, Zenon
    <2> QED BY <2>1, <2>2, SumEmpty
  <1>2. ASSUME NEW c \in CapIds
        PROVE  agentCap[c].dailySpent = SumFunctionOnSet(EventAmounts, EventsOf(c))
    <2>1. EventsOf(c) = {} /\ agentCap[c].dailySpent = 0
      BY DEF Init, EventsOf, NewAgentCap
    <2>2. SumFunctionOnSet(EventAmounts, EventsOf(c)) = SumFunctionOnSet(EventAmounts, {})
      BY <2>1, Zenon
    <2> QED BY <2>1, <2>2, SumEmpty
  <1> QED BY <1>1, <1>2 DEF SpendIsAccountedFor, TotalSpentCoversCaps,
             EventsAccountForSpend, Paid, CapsOf, EventAmounts, EventsOf

\* The events and the caps agree, and the vault counts all of it, for any number
\* of vaults and caps, whatever is issued, moved and revoked in between and
\* whoever calls record_spend and take_balance on their own.
THEOREM SpendIsAlwaysAccountedFor == Spec => []SpendIsAccountedFor
  <1>1. IInv /\ IInv' /\ SpendIsAccountedFor /\ [Next]_vars => SpendIsAccountedFor'
    <2> SUFFICES ASSUME IInv, IInv', SpendIsAccountedFor, [Next]_vars
                 PROVE  SpendIsAccountedFor'
      OBVIOUS
    <2>1. /\ TypeOK /\ TypeOK' /\ BlankUntilCreated /\ BlankUntilIssued
          /\ TotalSpentCoversCaps /\ EventsAccountForSpend
      BY DEF IInv, SpendIsAccountedFor
    <2>2. CASE Withdrawal
      BY <2>1, <2>2, WithdrawalMovesVaultSum, WithdrawalIsInEvents
      DEF Withdrawal, SpendIsAccountedFor
    <2>3. CASE ~Withdrawal
      <3>1. NothingSpent
        BY <2>1, <2>3, SpendOrNot
      <3> QED BY <2>1, <2>3, <3>1, NothingSpentKeepsVaultSum, NothingSpentKeepsEventSum
              DEF SpendIsAccountedFor
    <2> QED BY <2>2, <2>3
  <1> QED BY <1>1, SumsAtStart, Inductive, PTL DEF Spec

-----------------------------------------------------------------------------
(* Money *)

NoMoneyMoves ==
    /\ coins' = coins
    /\ \A w \in VaultIds : vault'[w].balance = vault[w].balance

MoneyIn(v, u, a) ==
    /\ \A w \in VaultIds \ {v} : vault'[w] = vault[w]
    /\ vault[v].status = "active"
    /\ vault'[v].balance = vault[v].balance + a
    /\ coins' = [coins EXCEPT ![u] = @ - a]

MoneyOut(v, u, a) ==
    /\ \A w \in VaultIds \ {v} : vault'[w] = vault[w]
    /\ \/ vault[v].status = "active"
       \/ u = vault[v].owner /\ vault'[v].totalSpent = vault[v].totalSpent
    /\ vault'[v].balance = vault[v].balance - a
    /\ coins' = [coins EXCEPT ![u] = @ + a]

MoneyMove ==
    \E v \in VaultIds, u \in Users, a \in Nat \ {0} : MoneyIn(v, u, a) \/ MoneyOut(v, u, a)

\* Creation, deposit, the two withdrawals and take_balance move SUI; nothing
\* else does.
LEMMA MoneyMoves ==
  ASSUME TypeOK, BlankUntilCreated, [Next]_vars
  PROVE  NoMoneyMoves \/ MoneyMove
  <1>0. vault \in [VaultIds -> VaultType]
    BY DEF TypeOK
  <1>1. CASE UNCHANGED vars \/ Tick
    BY <1>1 DEF vars, Tick, NoMoneyMoves
  <1>2. ASSUME NEW c \in CapIds, AgentStep(c)
        PROVE  NoMoneyMoves \/ MoneyMove
    <2>1. CASE \E r \in Users : TransferAgentCap(c, r)
      BY <2>1 DEF TransferAgentCap, NoMoneyMoves
    <2>2. ASSUME NEW v \in VaultIds, NEW a \in Amounts, NEW x \in Actions,
                 AgentWithdraw(c, v, a, x)
          PROVE  MoneyOut(v, holder[c], a) /\ holder[c] \in Users /\ a \in Nat \ {0}
      <3>1. vault[v].status = "active" /\ coins' = [coins EXCEPT ![holder[c]] = @ + a]
        BY <2>2 DEF AgentWithdraw, ValidateWithdraw
      <3> QED BY <2>2, <3>1, WithdrawalIsDoubleEntry DEF MoneyOut
    <2> QED BY <1>2, <2>1, <2>2 DEF AgentStep, MoneyMove
  <1>3. ASSUME NEW s \in Users, NEW v \in VaultIds, OwnerStep(s, v)
        PROVE  NoMoneyMoves \/ MoneyMove
    <2> USE <1>0 DEF VaultType, MoneyIn, MoneyOut, NoMoneyMoves
    <2>1. ASSUME NEW a \in Amounts, NEW b \in Budgets, CreateVault(s, v, a, b)
          PROVE  MoneyIn(v, s, a) /\ a \in Nat \ {0}
      <3>1. a \in Nat \ {0} /\ vault[v].status = "active" /\ vault[v].balance = 0
        BY <2>1, ConstantsAssumption DEF CreateVault, NewVault, BlankUntilCreated
      <3>2. vault'[v].balance = a
        BY <2>1 DEF CreateVault, NewVault
      <3> QED BY <2>1, <3>1, <3>2 DEF CreateVault
    <2>3. ASSUME NEW a \in Amounts, OwnerWithdraw(s, v, a)
          PROVE  MoneyOut(v, s, a) /\ a \in Nat \ {0}
      BY <2>3, ConstantsAssumption DEF OwnerWithdraw, AssertOwner
    <2>4. CASE Pause(s, v)
      BY <2>4 DEF Pause
    <2>5. CASE Unpause(s, v)
      BY <2>5 DEF Unpause
    <2>6. ASSUME NEW b \in Budgets, UpdateBudget(s, v, b)
          PROVE  NoMoneyMoves
      BY <2>6 DEF UpdateBudget
    <2>7. ASSUME NEW c \in CapIds, RevokeAgentCap(s, v, c)
          PROVE  NoMoneyMoves
      BY <2>7 DEF RevokeAgentCap
    <2>8. ASSUME NEW c \in CapIds, NEW t \in Terms, NEW r \in Users,
                 CreateAgentCap(s, v, c, t, r)
          PROVE  NoMoneyMoves
      BY <2>8 DEF CreateAgentCap
    <2> HIDE DEF VaultType, MoneyIn, MoneyOut, NoMoneyMoves
    <2> QED BY <1>3, <2>1, <2>3, <2>4, <2>5, <2>6, <2>7, <2>8
            DEF OwnerStep, MoneyMove
  <1>4. ASSUME NEW s \in Users, NEW v \in VaultIds, AnyoneStep(s, v)
        PROVE  NoMoneyMoves \/ MoneyMove
    <2>1. ASSUME NEW a \in Amounts, Deposit(s, v, a)
          PROVE  MoneyIn(v, s, a) /\ a \in Nat \ {0}
      BY <1>0, <2>1, ConstantsAssumption DEF Deposit, VaultType, MoneyIn
    <2>2. ASSUME NEW a \in Amounts, RecordSpend(v, a)
          PROVE  NoMoneyMoves
      BY <1>0, <2>2 DEF RecordSpend, VaultType, NoMoneyMoves
    <2>3. ASSUME NEW a \in Amounts, a # 0, TakeBalance(s, v, a)
          PROVE  MoneyOut(v, s, a) /\ a \in Nat \ {0}
      BY <1>0, <2>3, ConstantsAssumption DEF TakeBalance, VaultType, MoneyOut
    <2>4. ASSUME TakeBalance(s, v, 0)
          PROVE  NoMoneyMoves
      <3>1. vault[v].balance \in Nat /\ coins \in [Users -> Nat]
        BY <1>0 DEF VaultType, TypeOK
      <3>2. coins' = coins
        BY <2>4, <3>1 DEF TakeBalance
      <3>3. \A w \in VaultIds : vault'[w].balance = vault[w].balance
        BY <1>0, <2>4, <3>1 DEF TakeBalance, VaultType
      <3> QED BY <3>2, <3>3 DEF NoMoneyMoves
    <2> QED BY <1>4, <2>1, <2>2, <2>3, <2>4 DEF AnyoneStep, MoneyMove
  <1> QED BY <1>1, <1>2, <1>3, <1>4 DEF Next

\* No call mints or burns SUI, or moves it between two vaults or two purses.
THEOREM NoMinting == Spec => MoneyIsConserved
  <1> DEFINE Conserved ==
        \A v \in VaultIds : vault'[v].balance # vault[v].balance =>
            /\ \A w \in VaultIds \ {v} : vault'[w].balance = vault[w].balance
            /\ \E u \in Users :
                  coins' = [coins EXCEPT ![u] = @ + vault[v].balance - vault'[v].balance]
  <1> DEFINE FromVault ==
        coins' # coins => \E v \in VaultIds : vault'[v].balance # vault[v].balance
  <1>1. IInv /\ [Next]_vars => [Conserved]_vars
    <2> SUFFICES ASSUME IInv, [Next]_vars, NEW v \in VaultIds,
                        vault'[v].balance # vault[v].balance
                 PROVE  /\ \A w \in VaultIds \ {v} : vault'[w].balance = vault[w].balance
                        /\ \E u \in Users :
                             coins' = [coins EXCEPT ![u] = @ + vault[v].balance - vault'[v].balance]
      OBVIOUS
    <2>1. TypeOK /\ BlankUntilCreated /\ vault[v].balance \in Nat /\ coins \in [Users -> Nat]
      BY DEF IInv, TypeOK, VaultType
    <2>2. PICK u \in Users, a \in Nat \ {0} :
             /\ \A w \in VaultIds \ {v} : vault'[w] = vault[w]
             /\ \/ /\ vault'[v].balance = vault[v].balance + a
                   /\ coins' = [coins EXCEPT ![u] = @ - a]
                \/ /\ vault'[v].balance = vault[v].balance - a
                   /\ coins' = [coins EXCEPT ![u] = @ + a]
      BY <2>1, MoneyMoves DEF NoMoneyMoves, MoneyMove, MoneyIn, MoneyOut
    <2>3. coins' = [coins EXCEPT ![u] = @ + vault[v].balance - vault'[v].balance]
      BY <2>1, <2>2
    <2> QED BY <2>2, <2>3
  <1>2. IInv /\ [Next]_vars => [FromVault]_vars
    <2> SUFFICES ASSUME IInv, [Next]_vars, coins' # coins
                 PROVE  \E v \in VaultIds : vault'[v].balance # vault[v].balance
      OBVIOUS
    <2>1. TypeOK /\ BlankUntilCreated /\ \A v \in VaultIds : vault[v].balance \in Nat
      BY DEF IInv, TypeOK, VaultType
    <2>2. PICK v \in VaultIds, a \in Nat \ {0} :
             vault'[v].balance = vault[v].balance + a \/ vault'[v].balance = vault[v].balance - a
      BY <2>1, MoneyMoves DEF NoMoneyMoves, MoneyMove, MoneyIn, MoneyOut
    <2> QED BY <2>1, <2>2
  <1> QED BY <1>1, <1>2, Inductive, PTL DEF Spec, MoneyIsConserved

\* While a vault is paused neither a cap nor take_balance gets money out of it;
\* only its owner does.
THEOREM PauseBlocksAgents == Spec => PausedPaysOnlyOwner
  <1> DEFINE OnlyOwner ==
        \A v \in VaultIds :
            vault[v].status = "paused" /\ vault'[v].balance # vault[v].balance =>
                /\ vault'[v].balance < vault[v].balance
                /\ coins'[vault[v].owner] > coins[vault[v].owner]
                /\ vault'[v].totalSpent = vault[v].totalSpent
  <1>1. IInv /\ [Next]_vars => [OnlyOwner]_vars
    <2> SUFFICES ASSUME IInv, [Next]_vars, NEW v \in VaultIds,
                        vault[v].status = "paused", vault'[v].balance # vault[v].balance
                 PROVE  /\ vault'[v].balance < vault[v].balance
                        /\ coins'[vault[v].owner] > coins[vault[v].owner]
                        /\ vault'[v].totalSpent = vault[v].totalSpent
      OBVIOUS
    <2>1. TypeOK /\ BlankUntilCreated /\ vault[v].balance \in Nat /\ coins \in [Users -> Nat]
      BY DEF IInv, TypeOK, VaultType
    <2>2. PICK u \in Users, a \in Nat \ {0} : MoneyOut(v, u, a)
      BY <2>1, MoneyMoves DEF NoMoneyMoves, MoneyMove, MoneyIn, MoneyOut
    <2>3. /\ u = vault[v].owner
          /\ vault'[v].totalSpent = vault[v].totalSpent
          /\ vault'[v].balance = vault[v].balance - a
          /\ coins' = [coins EXCEPT ![u] = @ + a]
      BY <2>2 DEF MoneyOut
    <2> QED BY <2>1, <2>3
  <1> QED BY <1>1, Inductive, PTL DEF Spec, PausedPaysOnlyOwner

-----------------------------------------------------------------------------
(* The wallet implements the spending ledger. *)

\* The ledger's view of the wallet: what a step may change, cap by cap and
\* vault by vault.
SameCaps ==
    \A c \in CapIds : /\ agentCap'[c].vaultId = agentCap[c].vaultId
                      /\ agentCap'[c].terms = agentCap[c].terms
                      /\ agentCap'[c].dailySpent = agentCap[c].dailySpent
SameBudget == \A v \in VaultIds : vault'[v].totalBudget = vault[v].totalBudget

LEMMA SameView ==
  ASSUME SameCaps, SameSpent, SameBudget
  PROVE  UNCHANGED Ledger!vars
  BY DEF SameCaps, SameSpent, SameBudget, Ledger!vars, Issued

LEMMA LedgerInit == Init => Ledger!Init
  BY ConstantsAssumption
  DEF Init, Ledger!Init, NewVault, NewAgentCap, Issued

LEMMA LedgerPays ==
  ASSUME TypeOK, NEW c \in CapIds, NEW v \in VaultIds, NEW a \in Amounts,
         NEW x \in Actions, AgentWithdraw(c, v, a, x)
  PROVE  Ledger!Pay(c, v, a)
  <1>1. /\ vault'[v].totalSpent = vault[v].totalSpent + a
        /\ vault'[v].totalBudget = vault[v].totalBudget
        /\ \A w \in VaultIds \ {v} : vault'[w] = vault[w]
    BY DEF AgentWithdraw, TypeOK, VaultType
  <1>2. /\ agentCap'[c].dailySpent = agentCap[c].dailySpent + a
        /\ agentCap'[c].vaultId = agentCap[c].vaultId
        /\ agentCap'[c].terms = agentCap[c].terms
        /\ \A d \in CapIds \ {c} : agentCap'[d] = agentCap[d]
    BY DEF AgentWithdraw, TypeOK, AgentCapType
  <1>3. /\ agentCap[c].vaultId = v /\ a > 0 /\ Issued(c)
        /\ agentCap[c].dailySpent + a <= agentCap[c].terms.dailyLimit
        /\ vault[v].totalSpent + a <= vault[v].totalBudget
    BY DEF AgentWithdraw, ValidateWithdraw
  <1> QED BY <1>1, <1>2, <1>3 DEF Ledger!Pay, Issued

LEMMA LedgerOwnerStep ==
  ASSUME TypeOK, BlankUntilCreated, BlankUntilIssued,
         NEW s \in Users, NEW v \in VaultIds, OwnerStep(s, v)
  PROVE  Ledger!Next \/ UNCHANGED Ledger!vars
  <1>0. vault \in [VaultIds -> VaultType] /\ agentCap \in [CapIds -> AgentCapType]
    BY DEF TypeOK
  <1>1. ASSUME NEW a \in Amounts, NEW b \in Budgets, CreateVault(s, v, a, b)
        PROVE  Ledger!SetBudget(v, b)
    <2>1. /\ \A w \in VaultIds \ {v} : vault'[w] = vault[w]
          /\ vault'[v].totalBudget = b /\ vault'[v].totalSpent = 0
          /\ agentCap' = agentCap
      BY <1>0, <1>1 DEF CreateVault, NewVault
    <2>2. vault[v].totalSpent = 0
      BY <1>1 DEF CreateVault, BlankUntilCreated, NewVault
    <2> QED BY <2>1, <2>2 DEF Ledger!SetBudget, Issued
  <1>2. ASSUME NEW b \in Budgets, UpdateBudget(s, v, b)
        PROVE  Ledger!SetBudget(v, b)
    <2>1. /\ \A w \in VaultIds \ {v} : vault'[w] = vault[w]
          /\ vault'[v].totalBudget = b /\ vault'[v].totalSpent = vault[v].totalSpent
          /\ agentCap' = agentCap
      BY <1>0, <1>2 DEF UpdateBudget, VaultType
    <2> QED BY <2>1 DEF Ledger!SetBudget, Issued
  <1>3. ASSUME NEW c \in CapIds, NEW t \in Terms, NEW r \in Users,
               CreateAgentCap(s, v, c, t, r)
        PROVE  Ledger!Next \/ UNCHANGED Ledger!vars
    <2>1. /\ \A d \in CapIds \ {c} : agentCap'[d] = agentCap[d]
          /\ agentCap'[c] = NewAgentCap(v, t)
          /\ vault' = vault
      BY <1>0, <1>3 DEF CreateAgentCap
    <2>2. agentCap'[c].vaultId = v /\ agentCap'[c].terms = t /\ agentCap'[c].dailySpent = 0
      BY <2>1 DEF NewAgentCap
    <2>3. agentCap[c].vaultId = NoVault /\ agentCap[c].dailySpent = 0
      BY <1>3 DEF CreateAgentCap, Issued, BlankUntilIssued, NewAgentCap
    <2>4. Ledger!Admit(c, v, t.dailyLimit)
      BY <2>1, <2>2, <2>3, ConstantsAssumption DEF Ledger!Admit, Issued
    <2> QED BY <2>4 DEF Ledger!Next
  <1>5. ASSUME NEW a \in Amounts, OwnerWithdraw(s, v, a)
        PROVE  UNCHANGED Ledger!vars
    BY <1>0, <1>5, SameView DEF OwnerWithdraw, VaultType, SameCaps, SameSpent, SameBudget
  <1>6. CASE Pause(s, v)
    BY <1>0, <1>6, SameView DEF Pause, VaultType, SameCaps, SameSpent, SameBudget
  <1>7. CASE Unpause(s, v)
    BY <1>0, <1>7, SameView DEF Unpause, VaultType, SameCaps, SameSpent, SameBudget
  <1>8. ASSUME NEW c \in CapIds, RevokeAgentCap(s, v, c)
        PROVE  UNCHANGED Ledger!vars
    BY <1>0, <1>8, SameView DEF RevokeAgentCap, VaultType, SameCaps, SameSpent, SameBudget
  <1> QED BY <1>1, <1>2, <1>3, <1>5, <1>6, <1>7, <1>8 DEF OwnerStep, Ledger!Next

LEMMA LedgerAnyoneStep ==
  ASSUME TypeOK, NEW s \in Users, NEW v \in VaultIds, AnyoneStep(s, v)
  PROVE  Ledger!OpenNext \/ UNCHANGED Ledger!vars
  <1>0. vault \in [VaultIds -> VaultType] /\ agentCap \in [CapIds -> AgentCapType]
    BY DEF TypeOK
  <1>1. ASSUME NEW a \in Amounts, Deposit(s, v, a) \/ TakeBalance(s, v, a)
        PROVE  UNCHANGED Ledger!vars
    BY <1>0, <1>1, SameView
    DEF Deposit, TakeBalance, VaultType, SameCaps, SameSpent, SameBudget
  <1>2. ASSUME NEW a \in Amounts, RecordSpend(v, a)
        PROVE  Ledger!Book(v, a) \/ UNCHANGED Ledger!vars
    <2>1. /\ \A w \in VaultIds \ {v} : vault'[w] = vault[w]
          /\ vault'[v].totalSpent = vault[v].totalSpent + a
          /\ vault'[v].totalBudget = vault[v].totalBudget
          /\ agentCap' = agentCap
      BY <1>0, <1>2 DEF RecordSpend, VaultType
    <2>2. a \in Nat /\ vault[v].totalSpent \in Nat
      BY <1>0, ConstantsAssumption DEF VaultType
    <2>3. CASE a > 0
      BY <2>1, <2>3 DEF Ledger!Book, Issued
    <2>4. CASE a = 0
      BY <2>1, <2>2, <2>4, SameView DEF SameCaps, SameSpent, SameBudget
    <2> QED BY <2>2, <2>3, <2>4
  <1> QED BY <1>1, <1>2 DEF AnyoneStep, Ledger!OpenNext

\* agent_withdraw is one payment of the open ledger, record_spend on its own
\* uses up budget, and nothing else the Move modules do changes what was paid,
\* a limit or the vault of a cap.
THEOREM VaultImplementsLedger == Spec => ImplementsLedger
  <1>1. IInv /\ [Next]_vars => [Ledger!OpenNext]_(Ledger!vars)
    <2> SUFFICES ASSUME IInv, [Next]_vars
                 PROVE  Ledger!OpenNext \/ UNCHANGED Ledger!vars
      OBVIOUS
    <2>0. TypeOK /\ BlankUntilCreated /\ BlankUntilIssued
      BY DEF IInv
    <2>1. CASE UNCHANGED vars \/ Tick
      BY <2>1, SameView DEF vars, Tick, SameCaps, SameSpent, SameBudget
    <2>2. ASSUME NEW c \in CapIds, NEW r \in Users, TransferAgentCap(c, r)
          PROVE  UNCHANGED Ledger!vars
      BY <2>2, SameView DEF TransferAgentCap, SameCaps, SameSpent, SameBudget
    <2>3. ASSUME NEW c \in CapIds, NEW v \in VaultIds, NEW a \in Amounts,
                 NEW x \in Actions, AgentWithdraw(c, v, a, x)
          PROVE  Ledger!Next
      BY <2>0, <2>3, LedgerPays DEF Ledger!Next
    <2> QED BY <2>0, <2>1, <2>2, <2>3, LedgerOwnerStep, LedgerAnyoneStep
            DEF Next, AgentStep, Ledger!OpenNext
  <1> QED BY <1>1, LedgerInit, Inductive, PTL DEF Spec, Ledger!OpenSpec, ImplementsLedger
=============================================================================
