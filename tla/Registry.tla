------------------------------ MODULE Registry ------------------------------
(***************************************************************************)
(* The life of one agent in the API's tables: creation, keys, capability,  *)
(* policy, strategies, activation, pause and revocation                    *)
(* (routes/shield/{agents,keys,capabilities,policies,strategies}.rs).      *)
(*                                                                         *)
(* No handler touches rows of two agents, so one agent is enough.  A call  *)
(* of several statements is an entry of `call`; one action is one          *)
(* statement, any call may run between two statements of another, and a    *)
(* call may end between any two.  Calls of one statement are one action.   *)
(* The ownership check comes first in every handler; it reads a column     *)
(* nobody changes, so all that is left of it is that the agent exists.     *)
(***************************************************************************)
EXTENDS Integers, FiniteSets

CONSTANTS
    Calls,          \* calls of several statements the owner may make
    Keys,           \* rows of api_keys
    Strategies,     \* rows of strategies
    Values,         \* values of a field of the policy
    Null,           \* a field the caller left out, a row that is not there
    MaxQuick,       \* bound on calls of one statement
    MaxFaults       \* bound on calls that end half-way

Fields == {"risk_threshold", "approval_mode"}
Policy == [Fields -> Values]

ASSUME RegistryAssumption ==
    /\ IsFiniteSet(Calls)
    /\ Values # {} /\ Null \notin Values \cup Calls \cup Policy
    /\ {MaxQuick, MaxFaults} \subseteq Nat

VARIABLES
    status,         \* agents.status, "none" before the row
    policy,         \* the policies row, Null before it
    capability,     \* whether some capabilities row is active
    keys,           \* the api_keys rows: state, and the call that inserted them
    strategies,     \* the strategies rows: status and number of edits
    call,           \* the calls of several statements
    quick, faults,
    (* history, for the properties *)
    lastRevoke,     \* the call that last set the status to revoked, and the
                    \* calls that were about to insert a key at that moment
    resumed,        \* resume_agent has succeeded
    asked,          \* per field of the policy, the value last asked for
    undone          \* fields written back by an update that another overtook

rows == <<status, policy, capability, keys, strategies>>
history == <<lastRevoke, resumed, asked, undone>>
vars == <<rows, call, quick, faults, history>>

Body == [Fields -> Values \cup {Null}]

Stages ==
    {"idle", "agentInserted", "policyInserted", "capabilityInserted", "statusRevoked",
     "keysRevoked", "statusRead", "policyRead", "strategyRead", "counted",
     "draftsActivated", "strategiesPaused", "done", "gone"}

CallType == [stage : Stages, body : Body, seen : Policy \cup {Null}, stale : BOOLEAN,
             strategy : Strategies \cup {Null}]

SomeValue == CHOOSE v \in Values : TRUE
Default == [f \in Fields |-> SomeValue]

Init ==
    /\ status = "none"
    /\ policy = Null
    /\ capability = FALSE
    /\ keys = [k \in Keys |-> [state |-> "none", by |-> Null]]
    /\ strategies = [s \in Strategies |-> [status |-> "none", edits |-> 0]]
    /\ call = [c \in Calls |-> [stage |-> "idle", body |-> [f \in Fields |-> Null],
                                seen |-> Null, stale |-> FALSE, strategy |-> Null]]
    /\ quick = 0
    /\ faults = 0
    /\ lastRevoke = [by |-> Null, late |-> {}]
    /\ resumed = FALSE
    /\ asked = Default
    /\ undone = {}

-----------------------------------------------------------------------------

Exists == status # "none"
At(c, stage) == call[c].stage = stage
Goto(c, stage) == call' = [call EXCEPT ![c].stage = stage]

\* One statement of a call.
Step(c, from, to) == At(c, from) /\ Goto(c, to)

Quick ==
    /\ Exists
    /\ quick < MaxQuick
    /\ quick' = quick + 1

InsertKey(c) ==
    \E k \in Keys : /\ keys[k].state = "none"
                    /\ keys' = [keys EXCEPT ![k] = [state |-> "live", by |-> c]]

-----------------------------------------------------------------------------
(* agents.rs: create_agent *)

\* The column defaults to 'paused' since migration 004.
InsertAgent(c) ==
    /\ Step(c, "idle", "agentInserted")
    /\ status = "none"
    /\ status' = "paused"
    /\ UNCHANGED <<policy, capability, keys, strategies, quick, faults, history>>

InsertPolicy(c) ==
    /\ Step(c, "agentInserted", "policyInserted")
    /\ policy' = Default
    /\ UNCHANGED <<status, capability, keys, strategies, quick, faults, history>>

\* Only if the caller named the actions it allows.
InsertCapability(c) ==
    /\ Step(c, "policyInserted", "capabilityInserted")
    /\ capability' = TRUE
    /\ UNCHANGED <<status, policy, keys, strategies, quick, faults, history>>

InsertFirstKey(c) ==
    /\ InsertKey(c)
    /\ \/ Step(c, "policyInserted", "done")
       \/ Step(c, "capabilityInserted", "done")
    /\ UNCHANGED <<status, policy, capability, strategies, quick, faults, history>>

-----------------------------------------------------------------------------
(* agents.rs: pause, resume, revoke *)

PauseAgent ==
    /\ Quick
    /\ status' = "paused"
    /\ UNCHANGED <<policy, capability, keys, strategies, call, faults, history>>

ResumeAgent ==
    /\ Quick
    /\ status = "paused"
    /\ status' = "active"
    /\ resumed' = TRUE
    /\ UNCHANGED <<policy, capability, keys, strategies, call, faults, lastRevoke, asked, undone>>

AboutToInsertKey ==
    {c \in Calls : call[c].stage \in
        {"agentInserted", "policyInserted", "capabilityInserted", "statusRead"}}

RevokeAgent(c) ==
    /\ Step(c, "idle", "statusRevoked")
    /\ Exists
    /\ status' = "revoked"
    /\ lastRevoke' = [by |-> c, late |-> AboutToInsertKey]
    /\ UNCHANGED <<policy, capability, keys, strategies, quick, faults, resumed, asked, undone>>

RevokeKeys(c) ==
    /\ Step(c, "statusRevoked", "keysRevoked")
    /\ keys' = [k \in Keys |->
                  IF keys[k].state = "live" THEN [keys[k] EXCEPT !.state = "revoked"] ELSE keys[k]]
    /\ UNCHANGED <<status, policy, capability, strategies, quick, faults, history>>

RevokeCapabilities(c) ==
    /\ Step(c, "keysRevoked", "done")
    /\ capability' = FALSE
    /\ UNCHANGED <<status, policy, keys, strategies, quick, faults, history>>

-----------------------------------------------------------------------------
(* keys.rs, capabilities.rs *)

\* A slip: the status is not looked at.
AlwaysIssues == TRUE

MayIssueKey == status # "revoked"

ReadStatus(c) ==
    /\ Step(c, "idle", "statusRead")
    /\ Exists
    /\ MayIssueKey
    /\ UNCHANGED <<rows, quick, faults, history>>

InsertNextKey(c) ==
    /\ Step(c, "statusRead", "done")
    /\ InsertKey(c)
    /\ UNCHANGED <<status, policy, capability, strategies, quick, faults, history>>

RevokeKey(k) ==
    /\ Quick
    /\ keys[k].state = "live"
    /\ keys' = [keys EXCEPT ![k].state = "revoked"]
    /\ UNCHANGED <<status, policy, capability, strategies, call, faults, history>>

\* create_capability asks nothing of the status.
CreateCapability ==
    /\ Quick
    /\ capability' = TRUE
    /\ UNCHANGED <<status, policy, keys, strategies, call, faults, history>>

-----------------------------------------------------------------------------
(* policies.rs: update_policy *)

ReadPolicy(c) ==
    /\ At(c, "idle")
    /\ policy # Null
    /\ \E body \in Body :
          call' = [call EXCEPT ![c].stage = "policyRead", ![c].body = body, ![c].seen = policy]
    /\ UNCHANGED <<rows, quick, faults, history>>

\* Slips: what was read wins over what the caller sent; a field left out is
\* not filled in.
ReadWins(c) == call[c].seen
BodyOnly(c) == call[c].body

\* What the caller left out is written back as it was read: COALESCE never
\* falls through to the column.
Coalesced(c) ==
    [f \in Fields |-> IF call[c].body[f] # Null THEN call[c].body[f] ELSE call[c].seen[f]]

WritePolicy(c) ==
    LET given == {f \in Fields : call[c].body[f] # Null} IN
    /\ At(c, "policyRead")
    /\ policy' = Coalesced(c)
    /\ call' = [d \in Calls |->
                  IF d = c THEN [call[d] EXCEPT !.stage = "done"]
                  ELSE [call[d] EXCEPT !.stale = @ \/ At(d, "policyRead")]]
    /\ asked' = [f \in Fields |-> IF f \in given THEN call[c].body[f] ELSE asked[f]]
    /\ undone' = (undone \ given) \cup IF call[c].stale THEN Fields \ given ELSE {}
    /\ UNCHANGED <<status, capability, keys, strategies, quick, faults, lastRevoke, resumed>>

-----------------------------------------------------------------------------
(* strategies.rs *)

CreateStrategy(s) ==
    /\ Quick
    /\ strategies[s].status = "none"
    /\ strategies' = [strategies EXCEPT ![s].status = "draft"]
    /\ UNCHANGED <<status, policy, capability, keys, call, faults, history>>

\* update_strategy reads the row and refuses if it is active.
ReadStrategy(c, s) ==
    /\ At(c, "idle")
    /\ strategies[s].status \in {"draft", "paused"}
    /\ call' = [call EXCEPT ![c].stage = "strategyRead", ![c].strategy = s]
    /\ UNCHANGED <<rows, quick, faults, history>>

WriteStrategy(c) ==
    /\ Step(c, "strategyRead", "done")
    /\ strategies' = [strategies EXCEPT ![call[c].strategy].edits = @ + 1]
    /\ UNCHANGED <<status, policy, capability, keys, quick, faults, history>>

\* A slip: the count is not looked at.
AnyCount == Exists

\* What activate_agent asks before it begins.
HasStrategy == \E s \in Strategies : strategies[s].status # "none"

Count(c) ==
    /\ Step(c, "idle", "counted")
    /\ HasStrategy
    /\ UNCHANGED <<rows, quick, faults, history>>

Turn(from, to) ==
    strategies' = [s \in Strategies |->
        IF strategies[s].status = from THEN [strategies[s] EXCEPT !.status = to]
                                       ELSE strategies[s]]

\* The link to a vault, if one is named, is written before; nothing reads it.
ActivateDrafts(c) ==
    /\ Step(c, "counted", "draftsActivated")
    /\ Turn("draft", "active")
    /\ UNCHANGED <<status, policy, capability, keys, quick, faults, history>>

\* A slip: the UPDATE has no condition on the status.
AlwaysActivated == "active"

Activated == IF status = "revoked" THEN "revoked" ELSE "active"

\* For a revoked agent the UPDATE matches no row and the answer is 404.
ActivateAgent(c) ==
    /\ Step(c, "draftsActivated", "done")
    /\ status' = Activated
    /\ UNCHANGED <<policy, capability, keys, strategies, quick, faults, history>>

PauseStrategies(c) ==
    /\ Step(c, "idle", "strategiesPaused")
    /\ Exists
    /\ Turn("active", "paused")
    /\ UNCHANGED <<status, policy, capability, keys, quick, faults, history>>

Deactivated == IF status = "active" THEN "paused" ELSE status

DeactivateAgent(c) ==
    /\ Step(c, "strategiesPaused", "done")
    /\ status' = Deactivated
    /\ UNCHANGED <<policy, capability, keys, strategies, quick, faults, history>>

\* A call ends between two statements.
Abandon(c) ==
    /\ call[c].stage \notin {"idle", "done", "gone"}
    /\ faults < MaxFaults
    /\ faults' = faults + 1
    /\ Goto(c, "gone")
    /\ UNCHANGED <<rows, quick, history>>

-----------------------------------------------------------------------------

Create(c) == InsertAgent(c) \/ InsertPolicy(c) \/ InsertCapability(c) \/ InsertFirstKey(c)
Revoke(c) == RevokeAgent(c) \/ RevokeKeys(c) \/ RevokeCapabilities(c)
IssueKey(c) == ReadStatus(c) \/ InsertNextKey(c)
UpdatePolicy(c) == ReadPolicy(c) \/ WritePolicy(c)
UpdateStrategy(c) == WriteStrategy(c) \/ \E s \in Strategies : ReadStrategy(c, s)
Activate(c) == Count(c) \/ ActivateDrafts(c) \/ ActivateAgent(c)
Deactivate(c) == PauseStrategies(c) \/ DeactivateAgent(c)

Next ==
    \/ \E c \in Calls :
          \/ Create(c) \/ Revoke(c) \/ IssueKey(c) \/ UpdatePolicy(c)
          \/ UpdateStrategy(c) \/ Activate(c) \/ Deactivate(c) \/ Abandon(c)
    \/ PauseAgent \/ ResumeAgent \/ CreateCapability
    \/ \E k \in Keys : RevokeKey(k)
    \/ \E s \in Strategies : CreateStrategy(s)

Spec == Init /\ [][Next]_vars

-----------------------------------------------------------------------------

TypeOK ==
    /\ status \in {"none", "active", "paused", "revoked"}
    /\ policy \in Policy \cup {Null}
    /\ capability \in BOOLEAN
    /\ keys \in [Keys -> [state : {"none", "live", "revoked"}, by : Calls \cup {Null}]]
    /\ strategies \in [Strategies -> [status : {"none", "draft", "active", "paused"}, edits : Nat]]
    /\ call \in [Calls -> CallType]
    /\ quick \in 0 .. MaxQuick
    /\ faults \in 0 .. MaxFaults
    /\ lastRevoke \in [by : Calls \cup {Null}, late : SUBSET Calls]
    /\ resumed \in BOOLEAN
    /\ asked \in Policy
    /\ undone \subseteq Fields

\* revoke_agent sets the status first and the keys second, and issue_key reads
\* the status first and inserts second.  Once the keys are revoked, and as long
\* as nobody pauses the agent, the only live keys are those of calls that were
\* about to insert one at the moment the status changed.
RevokedAgentHasNoKeys ==
    (/\ status = "revoked"
     /\ call[lastRevoke.by].stage \in {"keysRevoked", "done"})
    => \A k \in Keys : keys[k].state = "live" => keys[k].by \in lastRevoke.late

\* Whatever activate, deactivate or resume is in flight when an agent is
\* revoked, it does not come back; only pause_agent, which asks nothing of the
\* status, takes it out of 'revoked'.
RevocationHoldsUntilPause ==
    [][status = "revoked" => status' \in {"revoked", "paused"}]_status

\* A field of the policy is what was last asked for it, unless an update that
\* left the field out read it before another update and wrote after it.
PolicyIsAsAsked ==
    policy # Null => \A f \in Fields \ undone : policy[f] = asked[f]

\* An agent that nobody resumed is only active if it has a strategy.
ActivationNeedsStrategy ==
    status = "active" /\ ~resumed => \E s \in Strategies : strategies[s].status # "none"

\* "Cannot update an active strategy; deactivate first" (strategies.rs:92).
ActiveStrategyIsNotEdited ==
    [][\A s \in Strategies :
          strategies[s].status = "active" => strategies'[s].edits = strategies[s].edits]_strategies
=============================================================================
