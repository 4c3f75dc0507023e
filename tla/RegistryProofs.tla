--------------------------- MODULE RegistryProofs ---------------------------
(* Theorems about the registry of agents, for any number of calls and rows. *)
EXTENDS Registry, TLAPS

LEMMA InitTypeOK == Init => TypeOK
  <1>1. SomeValue \in Values
    BY RegistryAssumption DEF SomeValue
  <1>2. Default \in Policy
    BY <1>1 DEF Default, Policy
  <1>3. ASSUME Init
        PROVE  call \in [Calls -> CallType]
    <2>1. [f \in Fields |-> Null] \in Body
      BY DEF Body
    <2> QED
      BY <1>3, <2>1 DEF Init, CallType, Stages
  <1>4. ASSUME Init
        PROVE  TypeOK
    <2>1. call \in [Calls -> CallType]
      BY <1>3, <1>4
    <2>2. quick \in 0 .. MaxQuick /\ faults \in 0 .. MaxFaults
      BY <1>4, RegistryAssumption DEF Init
    <2> QED
      BY <1>2, <1>4, <2>1, <2>2 DEF Init, TypeOK
  <1> QED
    BY <1>4

\* A call that only moves on keeps its type.
LEMMA GotoType ==
  ASSUME call \in [Calls -> CallType], NEW c \in Calls, NEW stage \in Stages, Goto(c, stage)
  PROVE  call' \in [Calls -> CallType]
  BY DEF Goto, CallType

LEMMA CreateTypeOK ==
  ASSUME TypeOK, NEW c \in Calls, Create(c)
  PROVE  TypeOK'
  <1>0. SomeValue \in Values
    BY RegistryAssumption DEF SomeValue
  <1>1. CASE InsertAgent(c)
    BY <1>1, GotoType DEF TypeOK, InsertAgent, Step, Stages, history
  <1>2. CASE InsertPolicy(c)
    BY <1>0, <1>2, GotoType DEF TypeOK, InsertPolicy, Step, Stages, history, Default, Policy
  <1>3. CASE InsertCapability(c)
    BY <1>3, GotoType DEF TypeOK, InsertCapability, Step, Stages, history
  <1>4. CASE InsertFirstKey(c)
    <2>1. call' \in [Calls -> CallType]
      BY <1>4, GotoType DEF TypeOK, InsertFirstKey, Step, Stages
    <2> QED
      BY <1>4, <2>1 DEF TypeOK, InsertFirstKey, InsertKey, history
  <1> QED
    BY <1>1, <1>2, <1>3, <1>4 DEF Create

LEMMA RevokeTypeOK ==
  ASSUME TypeOK, NEW c \in Calls, Revoke(c)
  PROVE  TypeOK'
  <1>1. CASE RevokeAgent(c)
    BY <1>1, GotoType DEF TypeOK, RevokeAgent, Step, Stages, AboutToInsertKey
  <1>2. CASE RevokeKeys(c)
    BY <1>2, GotoType DEF TypeOK, RevokeKeys, Step, Stages, history
  <1>3. CASE RevokeCapabilities(c)
    BY <1>3, GotoType DEF TypeOK, RevokeCapabilities, Step, Stages, history
  <1> QED
    BY <1>1, <1>2, <1>3 DEF Revoke

LEMMA IssueKeyTypeOK ==
  ASSUME TypeOK, NEW c \in Calls, IssueKey(c)
  PROVE  TypeOK'
  <1>1. CASE ReadStatus(c)
    BY <1>1, GotoType DEF TypeOK, ReadStatus, Step, Stages, history, rows
  <1>2. CASE InsertNextKey(c)
    BY <1>2, GotoType DEF TypeOK, InsertNextKey, InsertKey, Step, Stages, history
  <1> QED
    BY <1>1, <1>2 DEF IssueKey

LEMMA UpdatePolicyTypeOK ==
  ASSUME TypeOK, NEW c \in Calls, UpdatePolicy(c), call[c].stage = "policyRead" => call[c].seen # Null
  PROVE  TypeOK'
  <1>1. CASE ReadPolicy(c)
    <2>1. policy \in Policy
      BY <1>1 DEF ReadPolicy, TypeOK
    <2>2. PICK body \in Body :
             call' = [call EXCEPT ![c].stage = "policyRead", ![c].body = body, ![c].seen = policy]
      BY <1>1 DEF ReadPolicy
    <2>3. call' \in [Calls -> CallType]
      <3> DEFINE q == [call[c] EXCEPT !.stage = "policyRead", !.body = body, !.seen = policy]
      <3>1. call[c] \in CallType
        BY DEF TypeOK
      <3>2. q \in CallType
        BY <2>1, <3>1 DEF CallType, Stages
      <3>3. call' = [call EXCEPT ![c] = q]
        BY <2>2 DEF TypeOK, CallType
      <3> QED
        BY <3>2, <3>3 DEF TypeOK
    <2> QED
      BY <1>1, <2>3 DEF ReadPolicy, TypeOK, rows, history
  <1>2. CASE WritePolicy(c)
    <2>1. call[c] \in CallType /\ call[c].seen \in Policy /\ call[c].body \in Body
      BY <1>2 DEF WritePolicy, At, TypeOK, CallType
    <2>2. Coalesced(c) \in Policy
      BY <2>1 DEF Coalesced, Policy, Body
    <2>3. asked' \in Policy
      BY <1>2, <2>1 DEF WritePolicy, TypeOK, Policy, Body
    <2>4. call' \in [Calls -> CallType]
      <3> DEFINE next(d) == IF d = c THEN [call[d] EXCEPT !.stage = "done"]
                            ELSE [call[d] EXCEPT !.stale = @ \/ At(d, "policyRead")]
      <3>1. ASSUME NEW d \in Calls
            PROVE  next(d) \in CallType
        <4>1. call[d] \in CallType /\ "done" \in Stages
          BY DEF TypeOK, Stages
        <4>2. (call[d].stale \/ At(d, "policyRead")) \in BOOLEAN
          OBVIOUS
        <4> HIDE DEF At
        <4> QED BY <4>1, <4>2 DEF CallType
      <3>2. call' = [d \in Calls |-> next(d)]
        BY <1>2 DEF WritePolicy
      <3> HIDE DEF next
      <3> QED BY <3>1, <3>2
    <2> QED
      BY <1>2, <2>2, <2>3, <2>4 DEF WritePolicy, TypeOK
  <1> QED
    BY <1>1, <1>2 DEF UpdatePolicy

\* What a call at work on the rows has read.
CallsKnow ==
    \A c \in Calls :
        /\ call[c].stage = "policyRead" => call[c].seen # Null /\ policy # Null
        /\ call[c].stage = "policyRead" /\ ~call[c].stale => call[c].seen = policy
        /\ call[c].stage = "strategyRead" => call[c].strategy \in Strategies
        /\ call[c].stage \in {"counted", "draftsActivated"} => HasStrategy

LEMMA StrategyTypeOK ==
  ASSUME TypeOK, CallsKnow, NEW c \in Calls, UpdateStrategy(c) \/ Activate(c) \/ Deactivate(c)
  PROVE  TypeOK'
  <1>1. CASE \E s \in Strategies : ReadStrategy(c, s)
    <2>1. PICK s \in Strategies : ReadStrategy(c, s)
      BY <1>1
    <2>2. call' \in [Calls -> CallType]
      <3> DEFINE q == [call[c] EXCEPT !.stage = "strategyRead", !.strategy = s]
      <3>1. call[c] \in CallType
        BY DEF TypeOK
      <3>2. q \in CallType
        BY <3>1 DEF CallType, Stages
      <3>3. call' = [call EXCEPT ![c] = q]
        BY <2>1 DEF ReadStrategy, TypeOK, CallType
      <3> QED
        BY <3>2, <3>3 DEF TypeOK
    <2> QED
      BY <2>1, <2>2 DEF ReadStrategy, TypeOK, rows, history
  <1>2. CASE WriteStrategy(c)
    <2>1. call[c].strategy \in Strategies
      BY <1>2 DEF CallsKnow, WriteStrategy, Step, At
    <2> QED
      BY <1>2, <2>1, GotoType DEF WriteStrategy, Step, TypeOK, Stages, history
  <1>3. CASE Count(c)
    BY <1>3, GotoType DEF TypeOK, Count, Step, Stages, history, rows
  <1>4. CASE ActivateDrafts(c)
    BY <1>4, GotoType DEF TypeOK, ActivateDrafts, Turn, Step, Stages, history
  <1>5. CASE ActivateAgent(c)
    BY <1>5, GotoType DEF TypeOK, ActivateAgent, Activated, Step, Stages, history
  <1>6. CASE PauseStrategies(c)
    BY <1>6, GotoType DEF TypeOK, PauseStrategies, Turn, Step, Stages, history
  <1>7. CASE DeactivateAgent(c)
    BY <1>7, GotoType DEF TypeOK, DeactivateAgent, Deactivated, Step, Stages, history
  <1> QED
    BY <1>1, <1>2, <1>3, <1>4, <1>5, <1>6, <1>7 DEF UpdateStrategy, Activate, Deactivate

\* Calls of one statement.
Short ==
    \/ PauseAgent \/ ResumeAgent \/ CreateCapability
    \/ \E k \in Keys : RevokeKey(k)
    \/ \E s \in Strategies : CreateStrategy(s)

LEMMA ShortTypeOK ==
  ASSUME TypeOK, Short
  PROVE  TypeOK'
  <1>0. quick' \in 0 .. MaxQuick
    BY RegistryAssumption
    DEF Short, Quick, TypeOK, PauseAgent, ResumeAgent, CreateCapability, RevokeKey, CreateStrategy
  <1>1. CASE PauseAgent
    BY <1>0, <1>1 DEF TypeOK, PauseAgent, history
  <1>2. CASE ResumeAgent
    BY <1>0, <1>2 DEF TypeOK, ResumeAgent
  <1>3. CASE CreateCapability
    BY <1>0, <1>3 DEF TypeOK, CreateCapability, history
  <1>4. CASE \E k \in Keys : RevokeKey(k)
    BY <1>0, <1>4 DEF TypeOK, RevokeKey, history
  <1>5. CASE \E s \in Strategies : CreateStrategy(s)
    BY <1>0, <1>5 DEF TypeOK, CreateStrategy, history
  <1> QED
    BY <1>1, <1>2, <1>3, <1>4, <1>5 DEF Short

LEMMA AbandonTypeOK ==
  ASSUME TypeOK, NEW c \in Calls, Abandon(c)
  PROVE  TypeOK'
  <1>1. faults' \in 0 .. MaxFaults
    BY RegistryAssumption DEF TypeOK, Abandon
  <1> QED
    BY <1>1, GotoType DEF TypeOK, Abandon, Stages, rows, history

LEMMA TypeOKStep == TypeOK /\ CallsKnow /\ [Next]_vars => TypeOK'
  <1> SUFFICES ASSUME TypeOK, CallsKnow, [Next]_vars
               PROVE  TypeOK'
    OBVIOUS
  <1>1. CASE UNCHANGED vars
    BY <1>1 DEF TypeOK, vars, rows, history
  <1>2. ASSUME NEW c \in Calls, UpdatePolicy(c)
        PROVE  TypeOK'
    BY <1>2, UpdatePolicyTypeOK DEF CallsKnow
  <1> QED
    BY <1>1, <1>2, CreateTypeOK, RevokeTypeOK, IssueKeyTypeOK, StrategyTypeOK, ShortTypeOK,
       AbandonTypeOK
    DEF Next, Short

\* A step that writes no policy and removes no strategy, of a call that moves to
\* a stage where it knows nothing.
LEMMA KnowledgeKept ==
  ASSUME TypeOK, CallsKnow, NEW c \in Calls, NEW stage \in Stages, Goto(c, stage),
         stage \notin {"policyRead", "strategyRead", "counted", "draftsActivated"},
         policy # Null => policy' = policy, HasStrategy => HasStrategy'
  PROVE  CallsKnow'
  <1> SUFFICES ASSUME NEW d \in Calls
               PROVE  /\ call'[d].stage = "policyRead" => call'[d].seen # Null /\ policy' # Null
                      /\ call'[d].stage = "policyRead" /\ ~call'[d].stale => call'[d].seen = policy'
                      /\ call'[d].stage = "strategyRead" => call'[d].strategy \in Strategies
                      /\ call'[d].stage \in {"counted", "draftsActivated"} => HasStrategy'
    BY DEF CallsKnow
  <1>1. call[d] \in CallType
    BY DEF TypeOK
  <1>2. CASE d = c
    <2>1. call'[d].stage = stage
      BY <1>1, <1>2 DEF Goto, TypeOK, CallType
    <2> QED
      BY <2>1
  <1>3. CASE d # c
    <2>1. call'[d] = call[d]
      BY <1>3 DEF Goto, TypeOK
    <2> QED
      BY <2>1 DEF CallsKnow
  <1> QED
    BY <1>2, <1>3

\* The agent is inserted once, and the policy by the call that inserted it.
CreatedOnce ==
    /\ status = "none" => policy = Null /\ \A c \in Calls : call[c].stage # "agentInserted"
    /\ \A c, d \in Calls :
          call[c].stage = "agentInserted" /\ call[d].stage = "agentInserted" => c = d
    /\ \A c \in Calls : call[c].stage = "agentInserted" => policy = Null

\* A policy once written is there, a strategy once created stays, and what a
\* call in flight knows stays true: only a write of the policy can make what
\* was read stale, and it marks every call that has read.
LEMMA CallsKnowStep ==
  ASSUME TypeOK, CreatedOnce, CallsKnow, [Next]_vars
  PROVE  CallsKnow'
  <1>1. CASE UNCHANGED vars
    BY <1>1 DEF CallsKnow, HasStrategy, vars, rows
  <1>2. ASSUME NEW c \in Calls, Create(c)
        PROVE  CallsKnow'
    <2>1. CASE InsertAgent(c) \/ InsertCapability(c) \/ InsertFirstKey(c)
      BY <2>1, KnowledgeKept
      DEF InsertAgent, InsertCapability, InsertFirstKey, Step, Stages, HasStrategy
    <2>2. CASE InsertPolicy(c)
      BY <2>2, KnowledgeKept DEF InsertPolicy, Step, At, CreatedOnce, Stages, HasStrategy
    <2> QED
      BY <1>2, <2>1, <2>2 DEF Create
  <1>3. ASSUME NEW c \in Calls, Revoke(c)
        PROVE  CallsKnow'
    BY <1>3, KnowledgeKept
    DEF Revoke, RevokeAgent, RevokeKeys, RevokeCapabilities, Step, Stages, HasStrategy
  <1>4. ASSUME NEW c \in Calls, IssueKey(c)
        PROVE  CallsKnow'
    BY <1>4, KnowledgeKept DEF IssueKey, ReadStatus, InsertNextKey, Step, Stages, HasStrategy, rows
  <1>5. ASSUME NEW c \in Calls, UpdatePolicy(c)
        PROVE  CallsKnow'
    <2>1. HasStrategy' <=> HasStrategy
      BY <1>5 DEF UpdatePolicy, ReadPolicy, WritePolicy, HasStrategy, rows
    <2>2. CASE ReadPolicy(c)
      <3>1. policy' = policy /\ policy # Null
        BY <2>2 DEF ReadPolicy, rows
      <3>2. call'[c].stage = "policyRead" /\ call'[c].seen = policy
        BY <2>2 DEF ReadPolicy, TypeOK, CallType
      <3>3. \A d \in Calls \ {c} : call'[d] = call[d]
        BY <2>2 DEF ReadPolicy, TypeOK
      <3> QED
        BY <2>1, <3>1, <3>2, <3>3 DEF CallsKnow
    <2>3. CASE WritePolicy(c)
      <3>1. policy' \in Policy /\ policy' # Null
        <4>1. call[c].seen \in Policy /\ call[c].body \in Body
          BY <2>3 DEF WritePolicy, At, TypeOK, CallType, CallsKnow
        <4> QED
          BY <2>3, <4>1, RegistryAssumption DEF WritePolicy, Coalesced, Policy, Body
      <3>2. call'[c].stage = "done"
        BY <2>3 DEF WritePolicy, TypeOK, CallType
      <3>3. ASSUME NEW d \in Calls \ {c}
            PROVE  /\ call'[d].stage = call[d].stage /\ call'[d].seen = call[d].seen
                   /\ call'[d].strategy = call[d].strategy
                   /\ call[d].stage = "policyRead" => call'[d].stale
        BY <2>3 DEF WritePolicy, At, TypeOK, CallType
      <3> QED
        BY <2>1, <3>1, <3>2, <3>3 DEF CallsKnow
    <2> QED
      BY <1>5, <2>2, <2>3 DEF UpdatePolicy
  <1>6. ASSUME NEW c \in Calls, UpdateStrategy(c) \/ Activate(c) \/ Deactivate(c)
        PROVE  CallsKnow'
    <2>1. CASE \E s \in Strategies : ReadStrategy(c, s)
      <3>1. PICK s \in Strategies : ReadStrategy(c, s)
        BY <2>1
      <3>2. call'[c].stage = "strategyRead" /\ call'[c].strategy = s
        BY <3>1 DEF ReadStrategy, TypeOK, CallType
      <3>3. \A d \in Calls \ {c} : call'[d] = call[d]
        BY <3>1 DEF ReadStrategy, TypeOK
      <3> QED
        BY <3>1, <3>2, <3>3 DEF ReadStrategy, CallsKnow, HasStrategy, rows
    <2>2. CASE WriteStrategy(c)
      <3>1. call[c].strategy \in Strategies
        BY <2>2 DEF CallsKnow, WriteStrategy, Step, At
      <3>2. HasStrategy => HasStrategy'
        BY <2>2, <3>1 DEF WriteStrategy, HasStrategy, TypeOK
      <3> QED
        BY <2>2, <3>2, KnowledgeKept DEF WriteStrategy, Step, Stages
    <2>3. CASE Count(c) \/ ActivateDrafts(c)
      <3>1. HasStrategy'
        BY <2>3 DEF Count, ActivateDrafts, Turn, HasStrategy, TypeOK, CallsKnow, Step, At, rows
      <3>2. policy' = policy /\ \A d \in Calls \ {c} : call'[d] = call[d]
        BY <2>3 DEF Count, ActivateDrafts, Step, Goto, TypeOK, rows
      <3>3. call'[c].stage \in {"counted", "draftsActivated"}
        BY <2>3 DEF Count, ActivateDrafts, Step, Goto, TypeOK, CallType
      <3> QED
        BY <3>1, <3>2, <3>3 DEF CallsKnow
    <2>4. CASE ActivateAgent(c) \/ PauseStrategies(c) \/ DeactivateAgent(c)
      <3>1. HasStrategy => HasStrategy'
        BY <2>4 DEF ActivateAgent, PauseStrategies, DeactivateAgent, Turn, HasStrategy, TypeOK
      <3> QED
        BY <2>4, <3>1, KnowledgeKept
        DEF ActivateAgent, PauseStrategies, DeactivateAgent, Step, Stages
    <2> QED
      BY <1>6, <2>1, <2>2, <2>3, <2>4 DEF UpdateStrategy, Activate, Deactivate
  <1>7. CASE Short
    <2>1. call' = call /\ policy' = policy
      BY <1>7 DEF Short, PauseAgent, ResumeAgent, CreateCapability, RevokeKey, CreateStrategy
    <2>2. HasStrategy => HasStrategy'
      BY <1>7 DEF Short, PauseAgent, ResumeAgent, CreateCapability, RevokeKey, CreateStrategy,
                  HasStrategy, TypeOK
    <2> QED
      BY <2>1, <2>2 DEF CallsKnow
  <1>8. ASSUME NEW c \in Calls, Abandon(c)
        PROVE  CallsKnow'
    BY <1>8, KnowledgeKept DEF Abandon, Stages, HasStrategy, rows
  <1> QED
    BY <1>1, <1>2, <1>3, <1>4, <1>5, <1>6, <1>7, <1>8 DEF Next, Short

\* Only InsertAgent brings a call to "agentInserted", and only when there is no
\* agent; the policy row is written by that call or after it is there.
LEMMA CreatedOnceStep ==
  ASSUME TypeOK, CreatedOnce, CallsKnow, [Next]_vars
  PROVE  CreatedOnce'
  <1>1. CASE UNCHANGED vars
    BY <1>1 DEF CreatedOnce, vars, rows
  <1>2. ASSUME NEW c \in Calls, NEW stage \in Stages, Goto(c, stage), stage # "agentInserted",
               policy' = policy, status' = "none" => status = "none"
        PROVE  CreatedOnce'
    <2>1. \A d \in Calls : call'[d].stage = IF d = c THEN stage ELSE call[d].stage
      BY <1>2 DEF Goto, TypeOK, CallType
    <2> QED
      BY <1>2, <2>1 DEF CreatedOnce
  <1>3. ASSUME NEW c \in Calls, InsertAgent(c)
        PROVE  CreatedOnce'
    <2>1. \A d \in Calls \ {c} : call'[d] = call[d]
      BY <1>3 DEF InsertAgent, Step, Goto, TypeOK
    <2> QED
      BY <1>3, <2>1 DEF InsertAgent, CreatedOnce
  <1>4. ASSUME NEW c \in Calls, InsertPolicy(c)
        PROVE  CreatedOnce'
    <2>1. \A d \in Calls : call'[d].stage = IF d = c THEN "policyInserted" ELSE call[d].stage
      BY <1>4 DEF InsertPolicy, Step, Goto, TypeOK, CallType
    <2>2. status # "none" /\ status' = status
      BY <1>4 DEF InsertPolicy, Step, At, CreatedOnce
    <2> QED
      BY <1>4, <2>1, <2>2 DEF InsertPolicy, Step, At, CreatedOnce
  <1>5. ASSUME NEW c \in Calls, UpdatePolicy(c)
        PROVE  CreatedOnce'
    <2>1. status' = status /\ policy # Null
      BY <1>5 DEF UpdatePolicy, ReadPolicy, WritePolicy, At, CallsKnow, rows
    <2>2. ASSUME NEW d \in Calls, call'[d].stage = "agentInserted"
          PROVE  call[d].stage = "agentInserted"
      <3>1. call[d] \in CallType
        BY DEF TypeOK
      <3>2. CASE ReadPolicy(c)
        <4>1. d # c
          BY <2>2, <3>2 DEF ReadPolicy, TypeOK, CallType
        <4> QED
          BY <2>2, <3>2, <4>1 DEF ReadPolicy, TypeOK
      <3>3. CASE WritePolicy(c)
        BY <2>2, <3>1, <3>3 DEF WritePolicy, CallType
      <3> QED
        BY <1>5, <3>2, <3>3 DEF UpdatePolicy
    <2> QED
      BY <2>1, <2>2 DEF CreatedOnce
  <1>6. ASSUME NEW c \in Calls, InsertCapability(c) \/ InsertFirstKey(c) \/ Revoke(c)
        PROVE  CreatedOnce'
    BY <1>2, <1>6
    DEF InsertCapability, InsertFirstKey, Revoke, RevokeAgent, RevokeKeys, RevokeCapabilities,
        Step, Stages
  <1>7. ASSUME NEW c \in Calls, IssueKey(c) \/ Activate(c) \/ Deactivate(c) \/ Abandon(c)
        PROVE  CreatedOnce'
    BY <1>2, <1>7
    DEF IssueKey, ReadStatus, InsertNextKey, Activate, Count, ActivateDrafts, ActivateAgent,
        Activated, Deactivate, PauseStrategies, DeactivateAgent, Deactivated, Abandon, Step,
        Stages, rows
  <1>8. ASSUME NEW c \in Calls, UpdateStrategy(c)
        PROVE  CreatedOnce'
    <2>1. CASE WriteStrategy(c)
      BY <1>2, <2>1 DEF WriteStrategy, Step, Stages
    <2>2. CASE \E s \in Strategies : ReadStrategy(c, s)
      <3>1. PICK s \in Strategies : ReadStrategy(c, s)
        BY <2>2
      <3>2. \A d \in Calls : call'[d].stage = "agentInserted" => call[d].stage = "agentInserted"
        BY <3>1 DEF ReadStrategy, TypeOK, CallType
      <3> QED
        BY <3>1, <3>2 DEF ReadStrategy, CreatedOnce, rows
    <2> QED
      BY <1>8, <2>1, <2>2 DEF UpdateStrategy
  <1>9. CASE Short
    BY <1>9
    DEF Short, PauseAgent, ResumeAgent, CreateCapability, RevokeKey, CreateStrategy, Quick, Exists,
        CreatedOnce
  <1> QED
    BY <1>1, <1>3, <1>4, <1>5, <1>6, <1>7, <1>8, <1>9 DEF Next, Create, Short

LEMMA RegistryInductive == Spec => [](TypeOK /\ CreatedOnce /\ CallsKnow)
  <1>1. Init => TypeOK /\ CreatedOnce /\ CallsKnow
    BY InitTypeOK DEF Init, CreatedOnce, CallsKnow
  <1>2. TypeOK /\ CreatedOnce /\ CallsKnow /\ [Next]_vars => (TypeOK /\ CreatedOnce /\ CallsKnow)'
    BY TypeOKStep, CreatedOnceStep, CallsKnowStep
  <1> QED
    BY <1>1, <1>2, PTL DEF Spec

\* Every variable keeps its type: in particular the policy is a complete row
\* whenever it is there, because COALESCE is only reached by a call that has
\* read one (policies.rs: update_policy).
THEOREM RegistryTypeCorrect == Spec => []TypeOK
  BY RegistryInductive, PTL

-----------------------------------------------------------------------------

LEMMA RevocationStep ==
  ASSUME [Next]_vars, status = "revoked"
  PROVE  status' \in {"revoked", "paused"}
  <1>1. CASE UNCHANGED vars
    BY <1>1 DEF vars, rows
  <1>2. ASSUME NEW c \in Calls, Create(c) \/ Revoke(c) \/ IssueKey(c)
        PROVE  status' = "revoked"
    BY <1>2
    DEF Create, InsertAgent, InsertPolicy, InsertCapability, InsertFirstKey, Revoke, RevokeAgent,
        RevokeKeys, RevokeCapabilities, IssueKey, ReadStatus, InsertNextKey, rows
  <1>3. ASSUME NEW c \in Calls,
               UpdatePolicy(c) \/ UpdateStrategy(c) \/ Activate(c) \/ Deactivate(c) \/ Abandon(c)
        PROVE  status' = "revoked"
    BY <1>3
    DEF UpdatePolicy, ReadPolicy, WritePolicy, UpdateStrategy, ReadStrategy, WriteStrategy,
        Activate, Count, ActivateDrafts, ActivateAgent, Activated, Deactivate, PauseStrategies,
        DeactivateAgent, Deactivated, Abandon, rows
  <1>4. CASE Short
    BY <1>4 DEF Short, PauseAgent, ResumeAgent, CreateCapability, RevokeKey, CreateStrategy
  <1> QED
    BY <1>1, <1>2, <1>3, <1>4 DEF Next, Short

\* revoke_agent is final for activate, deactivate and resume, however many of
\* them are in flight: their updates all carry a condition on the status.
THEOREM RevocationHolds == Spec => RevocationHoldsUntilPause
  <1>1. [Next]_vars => [status = "revoked" => status' \in {"revoked", "paused"}]_status
    BY RevocationStep DEF vars, rows
  <1> QED
    BY <1>1, PTL DEF Spec, RevocationHoldsUntilPause

-----------------------------------------------------------------------------

LEMMA ActivationStep ==
  ASSUME TypeOK, CallsKnow, ActivationNeedsStrategy, [Next]_vars
  PROVE  ActivationNeedsStrategy'
  <1>1. ASSUME status' = "active" => status = "active", resumed' = resumed,
               HasStrategy => HasStrategy'
        PROVE  ActivationNeedsStrategy'
    BY <1>1 DEF ActivationNeedsStrategy, HasStrategy
  <1>2. CASE UNCHANGED vars
    BY <1>1, <1>2 DEF vars, rows, history, HasStrategy
  <1>3. ASSUME NEW c \in Calls, Create(c) \/ Revoke(c) \/ IssueKey(c)
        PROVE  ActivationNeedsStrategy'
    BY <1>1, <1>3
    DEF Create, InsertAgent, InsertPolicy, InsertCapability, InsertFirstKey, Revoke, RevokeAgent,
        RevokeKeys, RevokeCapabilities, IssueKey, ReadStatus, InsertNextKey, rows, history,
        HasStrategy
  <1>4. ASSUME NEW c \in Calls, UpdatePolicy(c) \/ Abandon(c) \/ Count(c)
        PROVE  ActivationNeedsStrategy'
    BY <1>1, <1>4
    DEF UpdatePolicy, ReadPolicy, WritePolicy, Abandon, Count, rows, history, HasStrategy
  <1>5. ASSUME NEW c \in Calls, UpdateStrategy(c)
        PROVE  ActivationNeedsStrategy'
    <2>1. CASE WriteStrategy(c)
      <3>1. call[c].strategy \in Strategies
        BY <2>1 DEF CallsKnow, WriteStrategy, Step, At
      <3>2. HasStrategy => HasStrategy'
        BY <2>1, <3>1 DEF WriteStrategy, HasStrategy, TypeOK
      <3> QED
        BY <1>1, <2>1, <3>2 DEF WriteStrategy, history
    <2> QED
      BY <1>1, <1>5, <2>1 DEF UpdateStrategy, ReadStrategy, rows, history, HasStrategy
  <1>6. ASSUME NEW c \in Calls, ActivateDrafts(c) \/ Deactivate(c)
        PROVE  ActivationNeedsStrategy'
    <2>1. HasStrategy => HasStrategy'
      BY <1>6 DEF ActivateDrafts, Deactivate, PauseStrategies, DeactivateAgent, Turn, HasStrategy,
                  TypeOK
    <2> QED
      BY <1>1, <1>6, <2>1
      DEF ActivateDrafts, Deactivate, PauseStrategies, DeactivateAgent, Deactivated, history
  <1>7. ASSUME NEW c \in Calls, ActivateAgent(c)
        PROVE  ActivationNeedsStrategy'
    BY <1>7 DEF ActivateAgent, Step, At, CallsKnow, HasStrategy, ActivationNeedsStrategy
  <1>8. CASE Short
    <2>1. HasStrategy => HasStrategy'
      BY <1>8 DEF Short, PauseAgent, ResumeAgent, CreateCapability, RevokeKey, CreateStrategy,
                  HasStrategy, TypeOK
    <2>2. CASE ResumeAgent
      BY <2>2 DEF ResumeAgent, ActivationNeedsStrategy
    <2> QED
      BY <1>1, <1>8, <2>1, <2>2
      DEF Short, PauseAgent, CreateCapability, RevokeKey, CreateStrategy, history
  <1> QED
    BY <1>2, <1>3, <1>4, <1>5, <1>6, <1>7, <1>8 DEF Next, Activate, Short

\* activate_agent counts the strategies before its other two statements, and
\* strategies are never deleted: what it counted is still there when it makes
\* the agent active.
THEOREM ActivatedWithStrategy == Spec => []ActivationNeedsStrategy
  <1>1. Init => ActivationNeedsStrategy
    BY DEF Init, ActivationNeedsStrategy
  <1>2. TypeOK /\ CallsKnow /\ ActivationNeedsStrategy /\ [Next]_vars => ActivationNeedsStrategy'
    BY ActivationStep
  <1> QED
    BY <1>1, <1>2, RegistryInductive, PTL DEF Spec

-----------------------------------------------------------------------------

\* The policy a row starts with is what was asked for.
AskedFromTheStart == policy = Null => asked = Default

LEMMA PolicyStep ==
  ASSUME TypeOK, CreatedOnce, CallsKnow, AskedFromTheStart, PolicyIsAsAsked, [Next]_vars
  PROVE  AskedFromTheStart' /\ PolicyIsAsAsked'
  <1>1. ASSUME policy' = policy, asked' = asked, undone' = undone
        PROVE  AskedFromTheStart' /\ PolicyIsAsAsked'
    BY <1>1 DEF AskedFromTheStart, PolicyIsAsAsked
  <1>2. CASE UNCHANGED vars
    BY <1>1, <1>2 DEF vars, rows, history
  <1>3. ASSUME NEW c \in Calls, Revoke(c) \/ IssueKey(c) \/ Abandon(c)
        PROVE  AskedFromTheStart' /\ PolicyIsAsAsked'
    BY <1>1, <1>3
    DEF Revoke, RevokeAgent, RevokeKeys, RevokeCapabilities, IssueKey, ReadStatus, InsertNextKey,
        Abandon, rows, history
  <1>4. ASSUME NEW c \in Calls, UpdateStrategy(c) \/ Activate(c) \/ Deactivate(c)
        PROVE  AskedFromTheStart' /\ PolicyIsAsAsked'
    BY <1>1, <1>4
    DEF UpdateStrategy, ReadStrategy, WriteStrategy, Activate, Count, ActivateDrafts,
        ActivateAgent, Deactivate, PauseStrategies, DeactivateAgent, rows, history
  <1>5. CASE Short
    BY <1>1, <1>5
    DEF Short, PauseAgent, ResumeAgent, CreateCapability, RevokeKey, CreateStrategy, history
  <1>6. ASSUME NEW c \in Calls, InsertAgent(c) \/ InsertCapability(c) \/ InsertFirstKey(c)
        PROVE  AskedFromTheStart' /\ PolicyIsAsAsked'
    BY <1>1, <1>6 DEF InsertAgent, InsertCapability, InsertFirstKey, history
  <1>7. ASSUME NEW c \in Calls, InsertPolicy(c)
        PROVE  AskedFromTheStart' /\ PolicyIsAsAsked'
    <2>1. policy = Null
      BY <1>7 DEF InsertPolicy, Step, At, CreatedOnce
    <2>2. policy' = Default /\ asked' = asked
      BY <1>7 DEF InsertPolicy, history
    <2>3. asked' = policy'
      BY <2>1, <2>2 DEF AskedFromTheStart
    <2> QED
      BY <2>2, <2>3 DEF AskedFromTheStart, PolicyIsAsAsked
  <1>8. ASSUME NEW c \in Calls, ReadPolicy(c)
        PROVE  AskedFromTheStart' /\ PolicyIsAsAsked'
    BY <1>1, <1>8 DEF ReadPolicy, rows, history
  <1>9. ASSUME NEW c \in Calls, WritePolicy(c)
        PROVE  AskedFromTheStart' /\ PolicyIsAsAsked'
    <2> DEFINE given == {f \in Fields : call[c].body[f] # Null}
    <2>1. call[c].seen \in Policy /\ call[c].body \in Body /\ policy # Null
      BY <1>9 DEF WritePolicy, At, TypeOK, CallType, CallsKnow
    <2>2. policy' = Coalesced(c) /\ policy' \in Policy /\ policy' # Null
      BY <1>9, <2>1, RegistryAssumption DEF WritePolicy, Coalesced, Policy, Body
    <2>3. ASSUME NEW f \in Fields, f \in given
          PROVE  policy'[f] = asked'[f]
      BY <1>9, <2>3 DEF WritePolicy, Coalesced
    <2>4. ASSUME NEW f \in Fields, f \notin given, f \notin undone'
          PROVE  policy'[f] = asked'[f]
      <3>1. ~call[c].stale /\ f \notin undone
        BY <1>9, <2>4 DEF WritePolicy
      <3>2. call[c].seen = policy
        BY <1>9, <3>1 DEF WritePolicy, At, CallsKnow
      <3>3. policy[f] = asked[f]
        BY <2>1, <3>1 DEF PolicyIsAsAsked
      <3> QED
        BY <1>9, <2>4, <3>2, <3>3 DEF WritePolicy, Coalesced
    <2> QED
      BY <2>2, <2>3, <2>4 DEF AskedFromTheStart, PolicyIsAsAsked
  <1> QED
    BY <1>2, <1>3, <1>4, <1>5, <1>6, <1>7, <1>8, <1>9 DEF Next, Create, UpdatePolicy, Short

\* update_policy writes back what it read for every field the caller left out.
\* A field nobody's late write undid is the last value asked for it.
THEOREM PolicyAsAsked == Spec => []PolicyIsAsAsked
  <1>1. Init => AskedFromTheStart /\ PolicyIsAsAsked
    BY DEF Init, AskedFromTheStart, PolicyIsAsAsked
  <1>2. /\ TypeOK /\ CreatedOnce /\ CallsKnow
        /\ AskedFromTheStart /\ PolicyIsAsAsked
        /\ [Next]_vars
        => (AskedFromTheStart /\ PolicyIsAsAsked)'
    BY PolicyStep
  <1> QED
    BY <1>1, <1>2, RegistryInductive, PTL DEF Spec

-----------------------------------------------------------------------------

InsertingKey == {"agentInserted", "policyInserted", "capabilityInserted", "statusRead"}
Revoking == {"statusRevoked", "keysRevoked", "done", "gone"}

\* While the agent is revoked the call that revoked it is under way or over, and
\* every call still about to insert a key was about to when the status changed.
RevocationUnderWay ==
    status = "revoked" =>
        /\ lastRevoke.by \in Calls
        /\ call[lastRevoke.by].stage \in Revoking
        /\ AboutToInsertKey \subseteq lastRevoke.late

\* A call that moves on and is not one that revokes, or one that ends.
LEMMA LateKept ==
  ASSUME RevocationUnderWay, RevokedAgentHasNoKeys, NEW c \in Calls, NEW stage \in Stages,
         \A d \in Calls : call'[d].stage = IF d = c THEN stage ELSE call[d].stage,
         stage \in InsertingKey => call[c].stage \in InsertingKey,
         call[c].stage \in Revoking =>
             \/ stage = "gone"
             \/ call[c].stage = "keysRevoked" /\ stage = "done",
         lastRevoke' = lastRevoke, status' = "revoked" => status = "revoked",
         \A k \in Keys : keys'[k].state = "live" =>
             \/ keys'[k].by \in AboutToInsertKey
             \/ keys[k].state = "live" /\ keys'[k].by = keys[k].by
  PROVE  RevocationUnderWay' /\ RevokedAgentHasNoKeys'
  <1> SUFFICES ASSUME status' = "revoked"
               PROVE  RevocationUnderWay' /\ RevokedAgentHasNoKeys'
    BY DEF RevocationUnderWay, RevokedAgentHasNoKeys
  <1> DEFINE r == lastRevoke.by
  <1>1. status = "revoked" /\ r \in Calls /\ call[r].stage \in Revoking
    BY DEF RevocationUnderWay
  <1>2. AboutToInsertKey' \subseteq AboutToInsertKey
    BY DEF AboutToInsertKey, InsertingKey
  <1>3. call'[r].stage \in Revoking
    BY <1>1 DEF Revoking
  <1>4. call'[r].stage \in {"keysRevoked", "done"} => call[r].stage \in {"keysRevoked", "done"}
    BY <1>1 DEF Revoking
  <1>5. AboutToInsertKey \subseteq lastRevoke.late
    BY <1>1 DEF RevocationUnderWay
  <1>6. RevocationUnderWay'
    BY <1>1, <1>2, <1>3, <1>5 DEF RevocationUnderWay
  <1>7. RevokedAgentHasNoKeys'
    BY <1>1, <1>4, <1>5 DEF RevokedAgentHasNoKeys
  <1> QED
    BY <1>6, <1>7

LEMMA StageMoves ==
  ASSUME TypeOK, NEW c \in Calls, NEW stage \in Stages, Goto(c, stage)
  PROVE  \A d \in Calls : call'[d].stage = IF d = c THEN stage ELSE call[d].stage
  BY DEF Goto, TypeOK, CallType

\* Nothing is moved, no key is inserted.
LEMMA NothingLate ==
  ASSUME RevocationUnderWay, RevokedAgentHasNoKeys, call' = call, lastRevoke' = lastRevoke,
         status' = "revoked" => status = "revoked",
         \A k \in Keys : keys'[k].state = "live" =>
             keys[k].state = "live" /\ keys'[k].by = keys[k].by
  PROVE  RevocationUnderWay' /\ RevokedAgentHasNoKeys'
  <1>1. RevocationUnderWay'
    BY DEF RevocationUnderWay, AboutToInsertKey
  <1>2. RevokedAgentHasNoKeys'
    BY DEF RevokedAgentHasNoKeys
  <1> QED
    BY <1>1, <1>2

LEMMA InsertedByCall ==
  ASSUME TypeOK, NEW c \in Calls, InsertKey(c)
  PROVE  \A k \in Keys : keys'[k].state = "live" =>
             \/ keys'[k].by = c
             \/ keys[k].state = "live" /\ keys'[k].by = keys[k].by
  BY DEF InsertKey, TypeOK

LEMMA NoKeysStep ==
  ASSUME TypeOK, CreatedOnce, CallsKnow, RevocationUnderWay, RevokedAgentHasNoKeys, [Next]_vars
  PROVE  RevocationUnderWay' /\ RevokedAgentHasNoKeys'
  <1>1. CASE UNCHANGED vars
    BY <1>1, NothingLate DEF vars, rows, history
  <1>2. ASSUME NEW c \in Calls, InsertAgent(c) \/ ReadStatus(c)
        PROVE  RevocationUnderWay' /\ RevokedAgentHasNoKeys'
    BY <1>2
    DEF InsertAgent, ReadStatus, MayIssueKey, rows, RevocationUnderWay, RevokedAgentHasNoKeys
  <1>3. ASSUME NEW c \in Calls, InsertPolicy(c) \/ InsertCapability(c)
        PROVE  RevocationUnderWay' /\ RevokedAgentHasNoKeys'
    <2>1. CASE InsertPolicy(c)
      BY <2>1, StageMoves, LateKept
      DEF InsertPolicy, Step, At, Stages, InsertingKey, Revoking, history
    <2>2. CASE InsertCapability(c)
      BY <2>2, StageMoves, LateKept
      DEF InsertCapability, Step, At, Stages, InsertingKey, Revoking, history
    <2> QED
      BY <1>3, <2>1, <2>2
  <1>4. ASSUME NEW c \in Calls, InsertFirstKey(c) \/ InsertNextKey(c)
        PROVE  RevocationUnderWay' /\ RevokedAgentHasNoKeys'
    <2>1. InsertKey(c) /\ c \in AboutToInsertKey /\ Goto(c, "done") /\ call[c].stage \notin Revoking
      BY <1>4 DEF InsertFirstKey, InsertNextKey, Step, At, AboutToInsertKey, Revoking
    <2>2. lastRevoke' = lastRevoke /\ status' = status
      BY <1>4 DEF InsertFirstKey, InsertNextKey, history
    <2> QED
      BY <2>1, <2>2, InsertedByCall, StageMoves, LateKept DEF Stages, InsertingKey
  <1>5. ASSUME NEW c \in Calls, RevokeAgent(c)
        PROVE  RevocationUnderWay' /\ RevokedAgentHasNoKeys'
    <2>1. \A d \in Calls : call'[d].stage = IF d = c THEN "statusRevoked" ELSE call[d].stage
      BY <1>5, StageMoves DEF RevokeAgent, Step, Stages
    <2>2. lastRevoke'.by = c /\ lastRevoke'.late = AboutToInsertKey
      BY <1>5 DEF RevokeAgent
    <2>3. AboutToInsertKey' \subseteq AboutToInsertKey
      BY <2>1 DEF AboutToInsertKey
    <2> QED
      BY <2>1, <2>2, <2>3 DEF RevocationUnderWay, RevokedAgentHasNoKeys, Revoking
  <1>6. ASSUME NEW c \in Calls, RevokeKeys(c)
        PROVE  RevocationUnderWay' /\ RevokedAgentHasNoKeys'
    <2>1. \A d \in Calls : call'[d].stage = IF d = c THEN "keysRevoked" ELSE call[d].stage
      BY <1>6, StageMoves DEF RevokeKeys, Step, Stages
    <2>2. \A k \in Keys : keys'[k].state # "live"
      BY <1>6 DEF RevokeKeys, TypeOK
    <2>3. status' = status /\ lastRevoke' = lastRevoke
      BY <1>6 DEF RevokeKeys, history
    <2>4. AboutToInsertKey' \subseteq AboutToInsertKey
      BY <2>1 DEF AboutToInsertKey
    <2>5. RevocationUnderWay'
      BY <2>1, <2>3, <2>4 DEF RevocationUnderWay, Revoking
    <2> QED
      BY <2>2, <2>5 DEF RevokedAgentHasNoKeys
  <1>7. ASSUME NEW c \in Calls, RevokeCapabilities(c) \/ Abandon(c)
        PROVE  RevocationUnderWay' /\ RevokedAgentHasNoKeys'
    <2>1. CASE RevokeCapabilities(c)
      BY <2>1, StageMoves, LateKept
      DEF RevokeCapabilities, Step, At, Stages, InsertingKey, history
    <2>2. CASE Abandon(c)
      <3>1. "gone" \in Stages /\ "gone" \notin InsertingKey
        BY DEF Stages, InsertingKey
      <3>2. \A d \in Calls : call'[d].stage = IF d = c THEN "gone" ELSE call[d].stage
        BY <2>2, <3>1, StageMoves DEF Abandon
      <3>3. lastRevoke' = lastRevoke /\ status' = status /\ keys' = keys
        BY <2>2 DEF Abandon, rows, history
      <3> QED
        BY <3>1, <3>2, <3>3, LateKept
    <2> QED
      BY <1>7, <2>1, <2>2
  <1>8. ASSUME NEW c \in Calls, UpdatePolicy(c)
        PROVE  RevocationUnderWay' /\ RevokedAgentHasNoKeys'
    <2>1. CASE ReadPolicy(c)
      <3>1. \A d \in Calls : call'[d].stage = IF d = c THEN "policyRead" ELSE call[d].stage
        BY <2>1 DEF ReadPolicy, TypeOK, CallType
      <3> QED
        BY <2>1, <3>1, LateKept
        DEF ReadPolicy, At, Stages, InsertingKey, Revoking, rows, history
    <2>2. CASE WritePolicy(c)
      <3>1. \A d \in Calls : call'[d].stage = IF d = c THEN "done" ELSE call[d].stage
        <4> TAKE d \in Calls
        <4>1. call[d] \in CallType
          BY DEF TypeOK
        <4> QED
          BY <2>2, <4>1 DEF WritePolicy, CallType
      <3> QED
        BY <2>2, <3>1, LateKept DEF WritePolicy, At, Stages, InsertingKey, Revoking
    <2> QED
      BY <1>8, <2>1, <2>2 DEF UpdatePolicy
  <1>9. ASSUME NEW c \in Calls, UpdateStrategy(c)
        PROVE  RevocationUnderWay' /\ RevokedAgentHasNoKeys'
    <2>1. CASE \E s \in Strategies : ReadStrategy(c, s)
      <3>1. \A d \in Calls : call'[d].stage = IF d = c THEN "strategyRead" ELSE call[d].stage
        BY <2>1 DEF ReadStrategy, TypeOK, CallType
      <3> QED
        <4>1. lastRevoke' = lastRevoke /\ status' = status /\ keys' = keys /\ call[c].stage = "idle"
          BY <2>1 DEF ReadStrategy, At, rows, history
        <4> QED
          BY <3>1, <4>1, LateKept DEF Stages, InsertingKey, Revoking
    <2>2. CASE WriteStrategy(c)
      BY <2>2, StageMoves, LateKept
      DEF WriteStrategy, Step, At, Stages, InsertingKey, Revoking, history
    <2> QED
      BY <1>9, <2>1, <2>2 DEF UpdateStrategy
  <1>10. ASSUME NEW c \in Calls, Activate(c)
         PROVE  RevocationUnderWay' /\ RevokedAgentHasNoKeys'
    <2>1. CASE Count(c)
      BY <2>1, StageMoves, LateKept
      DEF Count, Step, At, Stages, InsertingKey, Revoking, rows, history
    <2>2. CASE ActivateDrafts(c)
      BY <2>2, StageMoves, LateKept
      DEF ActivateDrafts, Step, At, Stages, InsertingKey, Revoking, history
    <2>3. CASE ActivateAgent(c)
      BY <2>3, StageMoves, LateKept
      DEF ActivateAgent, Activated, Step, At, Stages, InsertingKey, Revoking, history
    <2> QED
      BY <1>10, <2>1, <2>2, <2>3 DEF Activate
  <1>11. ASSUME NEW c \in Calls, Deactivate(c)
         PROVE  RevocationUnderWay' /\ RevokedAgentHasNoKeys'
    <2>1. CASE PauseStrategies(c)
      BY <2>1, StageMoves, LateKept
      DEF PauseStrategies, Step, At, Stages, InsertingKey, Revoking, history
    <2>2. CASE DeactivateAgent(c)
      BY <2>2, StageMoves, LateKept
      DEF DeactivateAgent, Deactivated, Step, At, Stages, InsertingKey, Revoking, history
    <2> QED
      BY <1>11, <2>1, <2>2 DEF Deactivate
  <1>12. CASE Short
    <2>1. call' = call /\ lastRevoke' = lastRevoke /\ (status' = "revoked" => status = "revoked")
      BY <1>12
      DEF Short, PauseAgent, ResumeAgent, CreateCapability, RevokeKey, CreateStrategy, history
    <2>2. \A k \in Keys : keys'[k].state = "live" =>
             keys[k].state = "live" /\ keys'[k].by = keys[k].by
      BY <1>12
      DEF Short, PauseAgent, ResumeAgent, CreateCapability, RevokeKey, CreateStrategy, TypeOK
    <2> QED
      BY <2>1, <2>2, NothingLate
  <1> QED
    BY <1>1, <1>2, <1>3, <1>4, <1>5, <1>6, <1>7, <1>8, <1>9, <1>10, <1>11, <1>12
    DEF Next, Create, Revoke, IssueKey, Short

\* revoke_agent revokes the keys after the status, and issue_key asks for the
\* status before it inserts: once the keys are revoked, a live key can only come
\* from a call that was past its question when the status changed.
THEOREM RevocationRevokesKeys == Spec => []RevokedAgentHasNoKeys
  <1>1. Init => RevocationUnderWay /\ RevokedAgentHasNoKeys
    BY DEF Init, RevocationUnderWay, RevokedAgentHasNoKeys
  <1>2. /\ TypeOK /\ CreatedOnce /\ CallsKnow
        /\ RevocationUnderWay /\ RevokedAgentHasNoKeys
        /\ [Next]_vars
        => (RevocationUnderWay /\ RevokedAgentHasNoKeys)'
    BY NoKeysStep
  <1> QED
    BY <1>1, <1>2, RegistryInductive, PTL DEF Spec
=============================================================================
