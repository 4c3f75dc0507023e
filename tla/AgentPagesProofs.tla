-------------------------- MODULE AgentPagesProofs --------------------------
(***************************************************************************)
(* What the pages that act on agents and vaults promise, for every number of*)
(* keys, agents, vaults, strategies, submits and calls in flight.          *)
(*                                                                         *)
(* As in SessionPagesProofs: one page is on the screen, the invariant of the*)
(* composition is that of this page, and for each page the lemmas ..Starts,*)
(* ..Moves and ..Promises carry the theorems about Spec at the end.        *)
(***************************************************************************)
EXTENDS AgentPages, FiniteSetTheorems, WellFoundedInduction, TLAPS

-----------------------------------------------------------------------------
(* SLOTS *)

\* A set that does not count two has no two members.
LEMMA AtMostOne ==
  ASSUME NEW S, IsFiniteSet(S), ~(Cardinality(S) > 1), NEW a \in S, NEW b \in S
  PROVE  a = b
  <1> SUFFICES ASSUME a # b PROVE FALSE
    OBVIOUS
  <1>1. /\ IsFiniteSet(S \ {a}) /\ Cardinality(S \ {a}) = Cardinality(S) - 1
        /\ Cardinality(S) \in Nat
    BY FS_RemoveElement, FS_CardinalityType
  <1>2. /\ IsFiniteSet((S \ {a}) \ {b})
        /\ Cardinality((S \ {a}) \ {b}) = Cardinality(S \ {a}) - 1
    BY <1>1, FS_RemoveElement
  <1>3. Cardinality((S \ {a}) \ {b}) \in Nat
    BY <1>2, FS_CardinalityType
  <1> QED BY <1>1, <1>2, <1>3

LEMMA SomeSlotsAreFinite == \A S \in SUBSET FewSlots : IsFiniteSet(S)
  BY AgentAssumption, FS_Subset

LEMMA FirstSlot == \E s \in FewSlots : \A r \in FewSlots : s <= r
  <1>1. FewSlots \subseteq Nat /\ FewSlots # {}
    BY AgentAssumption
  <1>2. PICK s \in FewSlots : \A r \in FewSlots : ~(<<r, s>> \in OpToRel(<, Nat))
    <2> DEFINE R == OpToRel(<, Nat)
    <2>1. IsWellFoundedOn(R, Nat)
      BY NatLessThanWellFounded
    <2> HIDE DEF R
    <2>2. \E s \in FewSlots : \A r \in FewSlots : ~(<<r, s>> \in R)
      BY <1>1, <2>1, WFMin
    <2> QED BY <2>2 DEF R
  <1>3. ASSUME NEW r \in FewSlots PROVE s <= r
    <2>1. ~(r < s)
      BY <1>1, <1>2 DEF OpToRel
    <2> QED BY <1>1, <2>1
  <1> QED BY <1>3

-----------------------------------------------------------------------------
(* THE KEYS OF AN AGENT: types, and the key of a call whose answer is awaited. *)

KeysTaskRecord ==
    [at : {"loading", "issuing", "issued", "revoking", "revoked"},
     call : {"load", "issue", "revoke"}, key : ApiKeys \cup {None},
     agent : Keys!AgentStatus \cup {None}, keys : Keys!KeyList \cup {None}]

\* A call that is on its way is a whole record.
LEMMA KeysTaskIsRecord ==
  ASSUME task \in [FewSlots -> Keys!TaskType], NEW s \in FewSlots, ~Keys!At(s, "idle")
  PROVE  task[s] \in KeysTaskRecord
  BY DEF Keys!At, Keys!Idle, Keys!TaskType, KeysTaskRecord

LEMMA KeysLoadTaskType ==
  ASSUME NEW call \in {"load", "issue", "revoke"}, NEW key \in ApiKeys \cup {None}
  PROVE  Keys!LoadTask(call, key) \in KeysTaskRecord
  BY DEF Keys!LoadTask, KeysTaskRecord

\* What the `finally` of a handler leaves alone.
LEMMA KeysSettledKeeps ==
  ASSUME NEW v \in Keys!ViewType, NEW call
  PROVE  /\ Keys!Settled(v, call) \in Keys!ViewType
         /\ Keys!Settled(v, call).newKey = v.newKey
         /\ call # "issue" => Keys!Settled(v, call).issuing = v.issuing
  BY DEF Keys!Settled, Keys!ViewType

\* What Show records.
LEMMA KeysShowRecords ==
  ASSUME past \in Keys!PastType, NEW v \in Keys!ViewType, Keys!Show(v)
  PROVE  /\ view' = v
         /\ past' \in Keys!PastType
         /\ past'.answered = past.answered
         /\ past'.revealed = past.revealed \cup Keys!Revealed(v)
  <1>1. Keys!Revealed(v) \subseteq ApiKeys
    BY DEF Keys!Revealed, Keys!ViewType
  <1> QED BY <1>1 DEF Keys!Show, Keys!PastType

KeysIssuedHasKey == \A s \in FewSlots : Keys!At(s, "issued") => task[s].key \in ApiKeys

KeysTyped == Keys!TypeOK /\ KeysIssuedHasKey

LEMMA KeysInitTyped == ASSUME Keys!Init PROVE KeysTyped
  <1>1. Keys!LoadTask("load", None) \in Keys!TaskType
    BY KeysLoadTaskType DEF Keys!TaskType, KeysTaskRecord
  <1>2. task \in [FewSlots -> Keys!TaskType]
    BY <1>1 DEF Keys!Init, Keys!OnlyOneCall, Keys!Alone, Keys!TaskType
  <1>3. KeysIssuedHasKey
    BY DEF Keys!Init, Keys!OnlyOneCall, Keys!Alone, KeysIssuedHasKey, Keys!At,
       Keys!LoadTask, Keys!Idle
  <1> QED BY <1>2, <1>3, AgentAssumption DEF Keys!Init, KeysTyped, Keys!TypeOK,
             Keys!AgentStatus, Keys!KeyList, Keys!ViewType, Keys!PastType

\* A call begins, moves on or ends.
LEMMA KeysTaskStep ==
  ASSUME task \in [FewSlots -> Keys!TaskType], KeysIssuedHasKey, NEW s \in FewSlots,
         NEW t \in Keys!TaskType, t.at = "issued" => t.key \in ApiKeys,
         task' = [task EXCEPT ![s] = t]
  PROVE  task' \in [FewSlots -> Keys!TaskType] /\ KeysIssuedHasKey'
  BY DEF KeysIssuedHasKey, Keys!At

LEMMA KeysEndStep ==
  ASSUME task \in [FewSlots -> Keys!TaskType], KeysIssuedHasKey, NEW s \in FewSlots, Keys!Ends(s)
  PROVE  task' \in [FewSlots -> Keys!TaskType] /\ KeysIssuedHasKey'
  <1>1. Keys!Idle \in Keys!TaskType /\ Keys!Idle.at # "issued"
    BY DEF Keys!Idle, Keys!TaskType
  <1> QED BY <1>1, KeysTaskStep DEF Keys!Ends

LEMMA KeysCallStep ==
  ASSUME task \in [FewSlots -> Keys!TaskType], KeysIssuedHasKey,
         NEW t \in Keys!TaskType, t.at # "issued", Keys!Call(t)
  PROVE  task' \in [FewSlots -> Keys!TaskType] /\ KeysIssuedHasKey'
  BY KeysTaskStep DEF Keys!Call

\* The handlers that end, and with what they leave of the page.
LEMMA KeysEndsTyped ==
  ASSUME KeysTyped, NEW s \in FewSlots, NEW v \in Keys!ViewType,
         Keys!Ends(s), Keys!Show(Keys!Settled(v, task[s].call)), UNCHANGED tables, faults' \in 0 .. MaxFaults
  PROVE  KeysTyped'
  <1>1. Keys!Settled(v, task[s].call) \in Keys!ViewType
    BY KeysSettledKeeps
  <1> QED BY <1>1, KeysEndStep, KeysShowRecords DEF KeysTyped, Keys!TypeOK

LEMMA KeysFaultTyped ==
  ASSUME Keys!TypeOK, Keys!Fault
  PROVE  faults' \in 0 .. MaxFaults
  BY AgentAssumption DEF Keys!TypeOK, Keys!Fault

LEMMA KeysTypedStep == ASSUME KeysTyped, [Keys!Next]_vars PROVE KeysTyped'
  <1>0. /\ task \in [FewSlots -> Keys!TaskType] /\ KeysIssuedHasKey
        /\ view \in Keys!ViewType /\ past \in Keys!PastType /\ faults \in 0 .. MaxFaults
    BY DEF KeysTyped, Keys!TypeOK
  <1>1. ASSUME Keys!Issue PROVE KeysTyped'
    <2> DEFINE t == [Keys!LoadTask("issue", None) EXCEPT !.at = "issuing"]
    <2>1. t \in Keys!TaskType /\ t.at # "issued"
      BY DEF Keys!LoadTask, Keys!TaskType
    <2>2. Keys!Call(t)
      BY <1>1 DEF Keys!Issue
    <2>3. [view EXCEPT !.issuing = TRUE] \in Keys!ViewType
      BY <1>0 DEF Keys!ViewType
    <2> HIDE DEF t
    <2> QED BY <1>0, <1>1, <2>1, <2>2, <2>3, KeysCallStep, KeysShowRecords DEF Keys!Issue,
               KeysTyped, Keys!TypeOK
  <1>2. ASSUME Keys!CloseModal PROVE KeysTyped'
    <2>1. [view EXCEPT !.newKey = None] \in Keys!ViewType
      BY <1>0 DEF Keys!ViewType
    <2> QED BY <1>0, <1>2, <2>1, KeysShowRecords DEF Keys!CloseModal, KeysTyped,
               Keys!TypeOK, KeysIssuedHasKey, Keys!At
  <1>3. ASSUME Keys!RevokedElsewhere PROVE KeysTyped'
    BY <1>0, <1>3 DEF Keys!RevokedElsewhere, KeysTyped, Keys!TypeOK, KeysIssuedHasKey,
       Keys!At, Keys!PastType, Keys!AgentStatus,
                      Keys!KeyList
  <1>4. ASSUME NEW k \in ApiKeys, Keys!Revoke(k) PROVE KeysTyped'
    <2> DEFINE t == [Keys!LoadTask("revoke", k) EXCEPT !.at = "revoking"]
    <2>1. t \in Keys!TaskType /\ t.at # "issued"
      BY DEF Keys!LoadTask, Keys!TaskType
    <2>2. Keys!Call(t)
      BY <1>4 DEF Keys!Revoke
    <2>3. [view EXCEPT !.revoking = k] \in Keys!ViewType
      BY <1>0 DEF Keys!ViewType
    <2> HIDE DEF t
    <2> QED BY <1>0, <1>4, <2>1, <2>2, <2>3, KeysCallStep, KeysShowRecords
               DEF Keys!Revoke, KeysTyped, Keys!TypeOK
  <1>5. ASSUME NEW s \in FewSlots, Keys!ReadAgent(s) \/ Keys!ReadKeys(s) PROVE KeysTyped'
    <2>1. task[s] \in KeysTaskRecord
      BY <1>0, <1>5, KeysTaskIsRecord DEF Keys!ReadAgent, Keys!ReadKeys, Keys!At
    <2>2. CASE Keys!ReadAgent(s)
      <3>1. [task[s] EXCEPT !.agent = tables.agent] \in Keys!TaskType
        BY <2>1 DEF KeysTyped, Keys!TypeOK, KeysTaskRecord, Keys!TaskType
      <3>2. task' \in [FewSlots -> Keys!TaskType] /\ KeysIssuedHasKey'
        BY <1>0, <2>1, <2>2, <3>1, KeysTaskStep DEF Keys!ReadAgent, Keys!At, KeysTaskRecord
      <3> QED BY <2>2, <3>2 DEF Keys!ReadAgent, KeysTyped, Keys!TypeOK
    <2>3. CASE Keys!ReadKeys(s)
      <3>1. [task[s] EXCEPT !.keys = tables.keys] \in Keys!TaskType
        BY <2>1 DEF KeysTyped, Keys!TypeOK, KeysTaskRecord, Keys!TaskType
      <3>2. task' \in [FewSlots -> Keys!TaskType] /\ KeysIssuedHasKey'
        BY <1>0, <2>1, <2>3, <3>1, KeysTaskStep DEF Keys!ReadKeys, Keys!At, KeysTaskRecord
      <3> QED BY <2>3, <3>2 DEF Keys!ReadKeys, KeysTyped, Keys!TypeOK
    <2> QED BY <1>5, <2>2, <2>3
  <1>6. ASSUME NEW s \in FewSlots, Keys!Loaded(s) PROVE KeysTyped'
    <2>1. task[s] \in KeysTaskRecord
      BY <1>0, <1>6, KeysTaskIsRecord DEF Keys!Loaded, Keys!At
    <2>2. [view EXCEPT !.agent = task[s].agent, !.keys = task[s].keys, !.loading = FALSE]
             \in Keys!ViewType
      BY <1>0, <1>6, <2>1 DEF Keys!Loaded, Keys!ViewType, KeysTaskRecord
    <2> QED BY <1>0, <1>6, <2>2, KeysEndsTyped DEF Keys!Loaded
  <1>7. ASSUME NEW s \in FewSlots, Keys!IssueServed(s) PROVE KeysTyped'
    <2>1. task[s] \in KeysTaskRecord
      BY <1>0, <1>7, KeysTaskIsRecord DEF Keys!IssueServed, Keys!At
    <2>2. PICK k \in ApiKeys : /\ tables' = [tables EXCEPT !.keys[k] = "live"]
                               /\ task' = [task EXCEPT ![s].at = "issued", ![s].key = k]
      BY <1>7 DEF Keys!IssueServed
    <2>3. [task[s] EXCEPT !.at = "issued", !.key = k] \in Keys!TaskType
      BY <2>1 DEF KeysTaskRecord, Keys!TaskType
    <2>4. task' \in [FewSlots -> Keys!TaskType] /\ KeysIssuedHasKey'
      <3> DEFINE t == [task[s] EXCEPT !.at = "issued", !.key = k]
      <3>1. task' = [task EXCEPT ![s] = t] /\ t.key \in ApiKeys
        BY <1>0, <2>1, <2>2 DEF KeysTaskRecord
      <3> HIDE DEF t
      <3> QED BY <1>0, <2>3, <3>1, KeysTaskStep DEF t
    <2>5. tables' \in [agent : Keys!AgentStatus, keys : Keys!KeyList]
      BY <2>2 DEF KeysTyped, Keys!TypeOK, Keys!KeyList
    <2> QED BY <1>7, <2>4, <2>5 DEF Keys!IssueServed, KeysTyped, Keys!TypeOK
  <1>8. ASSUME NEW s \in FewSlots, Keys!IssueAnswered(s) PROVE KeysTyped'
    <2>1. task[s] \in KeysTaskRecord /\ task[s].key \in ApiKeys
      BY <1>0, <1>8, KeysTaskIsRecord DEF Keys!IssueAnswered, Keys!At, KeysIssuedHasKey
    <2>2. [task[s] EXCEPT !.at = "loading"] \in Keys!TaskType
      BY <2>1 DEF KeysTaskRecord, Keys!TaskType
    <2>3. task' \in [FewSlots -> Keys!TaskType] /\ KeysIssuedHasKey'
      BY <1>0, <1>8, <2>1, <2>2, KeysTaskStep DEF Keys!IssueAnswered, Keys!Goto,
         KeysTaskRecord
    <2> QED BY <1>0, <1>8, <2>1, <2>3
            DEF Keys!IssueAnswered, KeysTyped, Keys!TypeOK, Keys!ViewType, Keys!PastType
  <1>9. ASSUME NEW s \in FewSlots, Keys!RevokeServed(s) PROVE KeysTyped'
    <2>1. task[s] \in KeysTaskRecord
      BY <1>0, <1>9, KeysTaskIsRecord DEF Keys!RevokeServed, Keys!At
    <2>2. [task[s] EXCEPT !.at = "revoked"] \in Keys!TaskType
      BY <2>1 DEF KeysTaskRecord, Keys!TaskType
    <2>3. task' \in [FewSlots -> Keys!TaskType] /\ KeysIssuedHasKey'
      BY <1>0, <1>9, <2>1, <2>2, KeysTaskStep DEF Keys!RevokeServed, Keys!Goto,
         KeysTaskRecord
    <2>4. tables' \in [agent : Keys!AgentStatus, keys : Keys!KeyList]
      BY <1>9 DEF Keys!RevokeServed, KeysTyped, Keys!TypeOK, Keys!KeyList
    <2> QED BY <1>9, <2>3, <2>4 DEF Keys!RevokeServed, KeysTyped, Keys!TypeOK
  <1>10. ASSUME NEW s \in FewSlots, Keys!RevokeAnswered(s) PROVE KeysTyped'
    <2>1. task[s] \in KeysTaskRecord
      BY <1>0, <1>10, KeysTaskIsRecord DEF Keys!RevokeAnswered, Keys!At
    <2>2. [task[s] EXCEPT !.at = "loading"] \in Keys!TaskType
      BY <2>1 DEF KeysTaskRecord, Keys!TaskType
    <2>3. task' \in [FewSlots -> Keys!TaskType] /\ KeysIssuedHasKey'
      BY <1>0, <1>10, <2>1, <2>2, KeysTaskStep DEF Keys!RevokeAnswered, Keys!Goto,
         KeysTaskRecord
    <2>4. [view EXCEPT !.loading = TRUE] \in Keys!ViewType
      BY <1>0 DEF Keys!ViewType
    <2> QED BY <1>0, <1>10, <2>3, <2>4, KeysShowRecords DEF Keys!RevokeAnswered,
               KeysTyped, Keys!TypeOK
  <1>11. ASSUME NEW s \in FewSlots, Keys!Refused(s) PROVE KeysTyped'
    BY <1>0, <1>11, KeysEndsTyped DEF Keys!Refused
  <1>12. ASSUME NEW s \in FewSlots, Keys!LoadFails(s) PROVE KeysTyped'
    <2>1. [view EXCEPT !.loading = FALSE] \in Keys!ViewType
      BY <1>0 DEF Keys!ViewType
    <2> QED BY <1>12, <2>1, KeysEndsTyped, KeysFaultTyped DEF Keys!LoadFails, KeysTyped
  <1>13. ASSUME NEW s \in FewSlots, Keys!RequestFails(s) PROVE KeysTyped'
    BY <1>0, <1>13, KeysEndsTyped, KeysFaultTyped DEF Keys!RequestFails, KeysTyped
  <1>14. CASE UNCHANGED vars
    BY <1>14 DEF vars, KeysTyped, Keys!TypeOK, KeysIssuedHasKey, Keys!At
  <1> QED
    BY <1>1, <1>2, <1>3, <1>4, <1>5, <1>6, <1>7, <1>8, <1>9, <1>10, <1>11, <1>12, <1>13,
       <1>14
    DEF Keys!Next, Keys!Progress

-----------------------------------------------------------------------------
(* The secret that is shown once *)

\* A call of issueKey() that has not come to its `finally`.
KeysIssues(s) == ~Keys!At(s, "idle") /\ task[s].call = "issue"
KeysAwaits(s) == Keys!At(s, "issuing") \/ Keys!At(s, "issued")

\* What is on the screen has been on the screen.
KeysShownIsRevealed == Keys!Revealed(view) \subseteq past.revealed

\* One key is issued at a time, with the button disabled.
KeysOneIssue ==
    \A s \in FewSlots : KeysIssues(s) => view.issuing /\ \A r \in FewSlots \ {s} : ~KeysIssues(r)

\* Until its answer comes the dialog is closed, or the secret in it was seen:
\* the click found the page rendered, and nothing else sets the secret.
KeysNothingToLose ==
    \A s \in FewSlots :
        KeysAwaits(s) => task[s].call = "issue" /\ view.newKey \in past.revealed \cup {None}

KeysKept == past.answered \subseteq past.revealed \cup {view.newKey}

KeysSecretInv == KeysShownIsRevealed /\ KeysOneIssue /\ KeysNothingToLose /\ KeysKept

\* Steps that change neither what is shown nor whose call it is.
LEMMA KeysSameCalls ==
  ASSUME KeysSecretInv, view'.newKey = view.newKey, view'.issuing = view.issuing,
         past'.answered = past.answered, past.revealed \subseteq past'.revealed,
         Keys!Revealed(view') \subseteq past'.revealed,
         \A s \in FewSlots : /\ KeysIssues(s)' => KeysIssues(s)
                             /\ KeysAwaits(s)' => KeysAwaits(s) /\ task'[s].call = task[s].call
  PROVE  KeysSecretInv'
  <1>1. KeysShownIsRevealed' /\ KeysKept'
    BY DEF KeysSecretInv, KeysShownIsRevealed, KeysKept, Keys!Revealed, Keys!Rendered
  <1>2. KeysOneIssue'
    BY DEF KeysSecretInv, KeysOneIssue, KeysIssues, Keys!At
  <1>3. KeysNothingToLose'
    BY DEF KeysSecretInv, KeysNothingToLose, KeysAwaits, Keys!At
  <1> QED BY <1>1, <1>2, <1>3 DEF KeysSecretInv

\* A handler ends and its `finally` runs.
LEMMA KeysEndKeeps ==
  ASSUME KeysTyped, KeysSecretInv, NEW s \in FewSlots, NEW v \in Keys!ViewType,
         v.newKey = view.newKey, v.issuing = view.issuing,
         ~Keys!At(s, "idle"), Keys!Ends(s), Keys!Show(Keys!Settled(v, task[s].call))
  PROVE  KeysSecretInv'
  <1>0. task \in [FewSlots -> Keys!TaskType] /\ past \in Keys!PastType
    BY DEF KeysTyped, Keys!TypeOK
  <1>1. /\ Keys!Settled(v, task[s].call) \in Keys!ViewType
        /\ Keys!Settled(v, task[s].call).newKey = view.newKey
        /\ task[s].call # "issue" => Keys!Settled(v, task[s].call).issuing = view.issuing
    BY KeysSettledKeeps
  <1>2. /\ view' = Keys!Settled(v, task[s].call)
        /\ past'.answered = past.answered
        /\ past'.revealed = past.revealed \cup Keys!Revealed(view')
    BY <1>0, <1>1, KeysShowRecords
  <1>3. \A r \in FewSlots : /\ KeysIssues(r)' => r # s /\ KeysIssues(r)
                            /\ KeysAwaits(r)' => KeysAwaits(r) /\ task'[r] = task[r]
    BY <1>0 DEF Keys!Ends, KeysIssues, KeysAwaits, Keys!At, Keys!Idle
  <1>4. CASE task[s].call # "issue"
    BY <1>1, <1>2, <1>3, <1>4, KeysSameCalls
  <1>5. CASE task[s].call = "issue"
    <2>1. \A r \in FewSlots : ~KeysIssues(r)'
      BY <1>3, <1>5 DEF KeysSecretInv, KeysOneIssue, KeysIssues
    <2>2. \A r \in FewSlots : ~KeysAwaits(r)'
      <3> SUFFICES ASSUME NEW r \in FewSlots, KeysAwaits(r)' PROVE FALSE
        OBVIOUS
      <3>1. task'[r].call = "issue" /\ task'[r].at # "idle"
        BY <1>3 DEF KeysSecretInv, KeysNothingToLose, KeysAwaits, Keys!At
      <3> QED BY <2>1, <3>1 DEF KeysIssues, Keys!At
    <2>3. KeysShownIsRevealed' /\ KeysKept'
      BY <1>1, <1>2 DEF KeysSecretInv, KeysShownIsRevealed, KeysKept, Keys!Revealed,
         Keys!Rendered
    <2> QED BY <2>1, <2>2, <2>3 DEF KeysSecretInv, KeysOneIssue, KeysNothingToLose
  <1> QED BY <1>4, <1>5

LEMMA KeysSecretStep ==
  ASSUME KeysTyped, KeysSecretInv, [Keys!Next]_vars
  PROVE  KeysSecretInv'
  <1>0. /\ task \in [FewSlots -> Keys!TaskType] /\ view \in Keys!ViewType /\ past \in Keys!PastType
    BY DEF KeysTyped, Keys!TypeOK
  <1>1. ASSUME Keys!Issue PROVE KeysSecretInv'
    <2>1. [view EXCEPT !.issuing = TRUE] \in Keys!ViewType
      BY <1>0 DEF Keys!ViewType
    <2>2. /\ view' = [view EXCEPT !.issuing = TRUE]
          /\ past'.answered = past.answered
          /\ past'.revealed = past.revealed \cup Keys!Revealed(view')
      BY <1>0, <1>1, <2>1, KeysShowRecords DEF Keys!Issue
    <2>3. view.newKey \in past.revealed \cup {None}
      BY <1>1 DEF Keys!Issue, Keys!CanIssue, Keys!Rendered, Keys!Revealed, KeysSecretInv,
         KeysShownIsRevealed
    <2>4. \A r \in FewSlots : ~KeysIssues(r)
      BY <1>1 DEF Keys!Issue, Keys!CanIssue, KeysSecretInv, KeysOneIssue
    <2>5. PICK s \in FewSlots :
              task' = [task EXCEPT ![s] = [Keys!LoadTask("issue", None) EXCEPT !.at = "issuing"]]
      BY <1>1 DEF Keys!Issue, Keys!Call
    <2>6. /\ \A r \in FewSlots \ {s} : task'[r] = task[r]
          /\ task'[s].at = "issuing" /\ task'[s].call = "issue"
      BY <1>0, <2>5 DEF Keys!LoadTask
    <2>7. \A r \in FewSlots \ {s} : ~KeysIssues(r)'
      BY <2>4, <2>6 DEF KeysIssues, Keys!At
    <2>8. KeysOneIssue'
      BY <1>0, <2>2, <2>7 DEF KeysOneIssue, Keys!ViewType
    <2>9. KeysNothingToLose'
      <3>1. \A r \in FewSlots : KeysAwaits(r)' => task'[r].call = "issue"
        BY <2>6 DEF KeysSecretInv, KeysNothingToLose, KeysAwaits, Keys!At
      <3>2. view'.newKey \in past'.revealed \cup {None}
        BY <1>0, <2>2, <2>3 DEF Keys!ViewType
      <3> QED BY <3>1, <3>2 DEF KeysNothingToLose
    <2>10. KeysShownIsRevealed' /\ KeysKept'
      BY <1>0, <2>2 DEF KeysSecretInv, KeysShownIsRevealed, KeysKept, Keys!Revealed,
         Keys!Rendered, Keys!ViewType
    <2> QED BY <2>8, <2>9, <2>10 DEF KeysSecretInv
  <1>2. ASSUME Keys!CloseModal PROVE KeysSecretInv'
    <2>1. [view EXCEPT !.newKey = None] \in Keys!ViewType
      BY <1>0 DEF Keys!ViewType
    <2>2. /\ view' = [view EXCEPT !.newKey = None]
          /\ past'.answered = past.answered
          /\ past'.revealed = past.revealed \cup Keys!Revealed(view')
      BY <1>0, <1>2, <2>1, KeysShowRecords DEF Keys!CloseModal
    <2>3. view.newKey \in past.revealed
      BY <1>2 DEF Keys!CloseModal, Keys!Revealed, KeysSecretInv, KeysShownIsRevealed
    <2>4. KeysShownIsRevealed' /\ KeysKept'
      BY <2>2, <2>3 DEF KeysSecretInv, KeysShownIsRevealed, KeysKept, Keys!Revealed,
         Keys!Rendered
    <2>5. KeysOneIssue' /\ KeysNothingToLose'
      BY <1>0, <1>2, <2>2
      DEF Keys!CloseModal, KeysSecretInv, KeysOneIssue, KeysNothingToLose, KeysIssues,
          KeysAwaits, Keys!At, Keys!ViewType
    <2> QED BY <2>4, <2>5 DEF KeysSecretInv
  <1>3. ASSUME Keys!RevokedElsewhere PROVE KeysSecretInv'
    BY <1>0, <1>3, KeysSameCalls
    DEF Keys!RevokedElsewhere, KeysIssues, KeysAwaits, Keys!At, Keys!PastType, KeysSecretInv,
        KeysShownIsRevealed
  <1>4. ASSUME NEW k \in ApiKeys, Keys!Revoke(k) PROVE KeysSecretInv'
    <2>1. [view EXCEPT !.revoking = k] \in Keys!ViewType
      BY <1>0 DEF Keys!ViewType
    <2>2. /\ view' = [view EXCEPT !.revoking = k]
          /\ past'.answered = past.answered
          /\ past'.revealed = past.revealed \cup Keys!Revealed(view')
      BY <1>0, <1>4, <2>1, KeysShowRecords DEF Keys!Revoke
    <2>3. PICK s \in FewSlots :
              task' = [task EXCEPT ![s] = [Keys!LoadTask("revoke", k) EXCEPT !.at = "revoking"]]
      BY <1>4 DEF Keys!Revoke, Keys!Call
    <2>4. \A r \in FewSlots : /\ KeysIssues(r)' => KeysIssues(r)
                              /\ KeysAwaits(r)' => KeysAwaits(r) /\ task'[r].call = task[r].call
      BY <1>0, <2>3 DEF KeysIssues, KeysAwaits, Keys!At, Keys!LoadTask
    <2> QED BY <1>0, <2>2, <2>4, KeysSameCalls DEF Keys!ViewType
  <1>5. ASSUME NEW s \in FewSlots,
               Keys!ReadAgent(s) \/ Keys!ReadKeys(s) \/ Keys!IssueServed(s) \/ Keys!RevokeServed(s)
        PROVE  KeysSecretInv'
    <2>0. task[s] \in KeysTaskRecord
      BY <1>0, <1>5, KeysTaskIsRecord DEF Keys!ReadAgent, Keys!ReadKeys, Keys!IssueServed,
         Keys!RevokeServed, Keys!At
    <2>1. UNCHANGED <<view, past>>
      BY <1>5 DEF Keys!ReadAgent, Keys!ReadKeys, Keys!IssueServed, Keys!RevokeServed
    <2>2. \A r \in FewSlots \ {s} : task'[r] = task[r]
      BY <1>0, <1>5 DEF Keys!ReadAgent, Keys!ReadKeys, Keys!IssueServed,
         Keys!RevokeServed, Keys!Goto
    <2>3. task'[s].call = task[s].call /\ ~Keys!At(s, "idle") /\ (KeysAwaits(s)' => KeysAwaits(s))
      <3>1. CASE Keys!ReadAgent(s)
        BY <1>0, <2>0, <3>1 DEF Keys!ReadAgent, Keys!At, KeysAwaits, KeysTaskRecord
      <3>2. CASE Keys!ReadKeys(s)
        BY <1>0, <2>0, <3>2 DEF Keys!ReadKeys, Keys!At, KeysAwaits, KeysTaskRecord
      <3>3. CASE Keys!IssueServed(s)
        BY <1>0, <2>0, <3>3 DEF Keys!IssueServed, Keys!At, KeysAwaits, KeysTaskRecord
      <3>4. CASE Keys!RevokeServed(s)
        BY <1>0, <2>0, <3>4 DEF Keys!RevokeServed, Keys!Goto, Keys!At, KeysAwaits,
           KeysTaskRecord
      <3> QED BY <1>5, <3>1, <3>2, <3>3, <3>4
    <2>4. \A r \in FewSlots : /\ KeysIssues(r)' => KeysIssues(r)
                              /\ KeysAwaits(r)' => KeysAwaits(r) /\ task'[r].call = task[r].call
      <3> TAKE r \in FewSlots
      <3>1. CASE r = s
        BY <2>3, <3>1 DEF KeysIssues, KeysAwaits, Keys!At
      <3>2. CASE r # s
        BY <2>2, <3>2 DEF KeysIssues, KeysAwaits, Keys!At
      <3> QED BY <3>1, <3>2
    <2> QED BY <2>1, <2>4, KeysSameCalls DEF KeysSecretInv, KeysShownIsRevealed
  <1>6. ASSUME NEW s \in FewSlots, Keys!Loaded(s) PROVE KeysSecretInv'
    <2> DEFINE v == [view EXCEPT !.agent = task[s].agent, !.keys = task[s].keys,
                                 !.loading = FALSE]
    <2>1. task[s] \in KeysTaskRecord
      BY <1>0, <1>6, KeysTaskIsRecord DEF Keys!Loaded, Keys!At
    <2>2. v \in Keys!ViewType /\ v.newKey = view.newKey /\ v.issuing = view.issuing
      BY <1>0, <1>6, <2>1 DEF Keys!Loaded, Keys!ViewType, KeysTaskRecord
    <2>3. Keys!Ends(s) /\ Keys!Show(Keys!Settled(v, task[s].call)) /\ ~Keys!At(s, "idle")
      BY <1>6 DEF Keys!Loaded, Keys!At
    <2> HIDE DEF v
    <2> QED BY <2>2, <2>3, KeysEndKeeps
  <1>7. ASSUME NEW s \in FewSlots, Keys!IssueAnswered(s) PROVE KeysSecretInv'
    <2>1. task[s] \in KeysTaskRecord /\ task[s].call = "issue"
          /\ view.newKey \in past.revealed \cup {None}
      BY <1>0, <1>7, KeysTaskIsRecord
      DEF Keys!IssueAnswered, Keys!At, KeysSecretInv, KeysNothingToLose, KeysAwaits
    <2>2. /\ task'[s].at = "loading" /\ task'[s].call = task[s].call
          /\ \A r \in FewSlots \ {s} : task'[r] = task[r]
      BY <1>0, <1>7, <2>1 DEF Keys!IssueAnswered, Keys!Goto, KeysTaskRecord
    <2>3. /\ view'.newKey = task[s].key /\ view'.issuing = view.issuing /\ view'.loading
          /\ past'.answered = past.answered \cup {task[s].key}
          /\ past'.revealed = past.revealed
      BY <1>0, <1>7 DEF Keys!IssueAnswered, Keys!ViewType, Keys!PastType
    <2>4. past.answered \subseteq past.revealed
      BY <1>0, <2>1, AgentAssumption DEF KeysSecretInv, KeysKept, Keys!PastType
    <2>5. KeysShownIsRevealed' /\ KeysKept'
      BY <2>3, <2>4 DEF KeysShownIsRevealed, KeysKept, Keys!Revealed, Keys!Rendered
    <2>6. KeysIssues(s)
      BY <1>7, <2>1 DEF Keys!IssueAnswered, KeysIssues, Keys!At
    <2>7. KeysOneIssue'
      BY <2>2, <2>3, <2>6 DEF KeysSecretInv, KeysOneIssue, KeysIssues, Keys!At
    <2>8. \A r \in FewSlots : ~KeysAwaits(r)'
      <3> SUFFICES ASSUME NEW r \in FewSlots, KeysAwaits(r)' PROVE FALSE
        OBVIOUS
      <3>1. r # s
        BY <2>2 DEF KeysAwaits, Keys!At
      <3>2. KeysIssues(r)
        BY <2>2, <3>1 DEF KeysSecretInv, KeysNothingToLose, KeysIssues, KeysAwaits, Keys!At
      <3> QED BY <2>6, <3>1, <3>2 DEF KeysSecretInv, KeysOneIssue
    <2> QED BY <2>5, <2>7, <2>8 DEF KeysSecretInv, KeysNothingToLose
  <1>8. ASSUME NEW s \in FewSlots, Keys!RevokeAnswered(s) PROVE KeysSecretInv'
    <2>1. task[s] \in KeysTaskRecord
      BY <1>0, <1>8, KeysTaskIsRecord DEF Keys!RevokeAnswered, Keys!At
    <2>2. [view EXCEPT !.loading = TRUE] \in Keys!ViewType
      BY <1>0 DEF Keys!ViewType
    <2>3. /\ view' = [view EXCEPT !.loading = TRUE]
          /\ past'.answered = past.answered
          /\ past'.revealed = past.revealed \cup Keys!Revealed(view')
      BY <1>0, <1>8, <2>2, KeysShowRecords DEF Keys!RevokeAnswered
    <2>4. /\ task'[s].at = "loading" /\ task'[s].call = task[s].call /\ ~Keys!At(s, "idle")
          /\ \A r \in FewSlots \ {s} : task'[r] = task[r]
      BY <1>0, <1>8, <2>1 DEF Keys!RevokeAnswered, Keys!Goto, KeysTaskRecord, Keys!At
    <2>5. \A r \in FewSlots : /\ KeysIssues(r)' => KeysIssues(r)
                              /\ KeysAwaits(r)' => KeysAwaits(r) /\ task'[r].call = task[r].call
      <3> TAKE r \in FewSlots
      <3>1. CASE r = s
        BY <2>4, <3>1 DEF KeysIssues, KeysAwaits, Keys!At
      <3>2. CASE r # s
        BY <2>4, <3>2 DEF KeysIssues, KeysAwaits, Keys!At
      <3> QED BY <3>1, <3>2
    <2> QED BY <1>0, <2>3, <2>5, KeysSameCalls DEF Keys!ViewType
  <1>9. ASSUME NEW s \in FewSlots, Keys!LoadFails(s) PROVE KeysSecretInv'
    <2> DEFINE v == [view EXCEPT !.loading = FALSE]
    <2>1. v \in Keys!ViewType /\ v.newKey = view.newKey /\ v.issuing = view.issuing
      BY <1>0 DEF Keys!ViewType
    <2>2. Keys!Ends(s) /\ Keys!Show(Keys!Settled(v, task[s].call)) /\ ~Keys!At(s, "idle")
      BY <1>9 DEF Keys!LoadFails, Keys!At
    <2> HIDE DEF v
    <2> QED BY <2>1, <2>2, KeysEndKeeps
  <1>10. ASSUME NEW s \in FewSlots, Keys!Refused(s) \/ Keys!RequestFails(s) PROVE KeysSecretInv'
    <2>1. Keys!Ends(s) /\ Keys!Show(Keys!Settled(view, task[s].call)) /\ ~Keys!At(s, "idle")
      BY <1>10 DEF Keys!Refused, Keys!RequestFails, Keys!At
    <2> QED BY <1>0, <2>1, KeysEndKeeps
  <1>11. CASE UNCHANGED vars
    BY <1>11, KeysSameCalls DEF vars, KeysSecretInv, KeysShownIsRevealed, KeysIssues,
       KeysAwaits, Keys!At
  <1> QED
    BY <1>1, <1>2, <1>3, <1>4, <1>5, <1>6, <1>7, <1>8, <1>9, <1>10, <1>11 DEF Keys!Next,
       Keys!Progress

LEMMA KeysStartSecret == ASSUME Keys!Init PROVE KeysSecretInv
  <1>1. ~Keys!Rendered(view) /\ past.answered = {} /\ past.revealed = {}
    BY DEF Keys!Init, Keys!Rendered
  <1>2. \A s \in FewSlots : ~KeysIssues(s) /\ ~KeysAwaits(s)
    BY DEF Keys!Init, Keys!OnlyOneCall, Keys!Alone, Keys!LoadTask, Keys!Idle, KeysIssues,
           KeysAwaits, Keys!At
  <1> QED BY <1>1, <1>2 DEF KeysSecretInv, KeysShownIsRevealed, Keys!Revealed, KeysOneIssue,
                            KeysNothingToLose, KeysKept

-----------------------------------------------------------------------------
(* The list at rest is the table's *)

\* A write whose answer has not come: its handler will load the list.
KeysPending(s) == Keys!At(s, "issued") \/ Keys!At(s, "revoked")
KeysLoading(s) == Keys!At(s, "loading")

KeysUndisturbed == faults = 0 /\ ~past.elsewhere /\ ~past.overlapped

KeysOnlyLoadsRead ==
    \A s \in FewSlots : Keys!At(s, "idle") \/ KeysLoading(s) \/ task[s].keys = None

KeysOneLoad ==
    KeysUndisturbed => \A s, r \in FewSlots : KeysLoading(s) /\ KeysLoading(r) => s = r

\* A list that is behind the table is asked for again.
KeysFresh ==
    KeysUndisturbed =>
        \/ \E s \in FewSlots : KeysPending(s)
        \/ /\ \A s \in FewSlots : KeysLoading(s) => task[s].keys \in {None, tables.keys}
           /\ view.keys = tables.keys \/ \E s \in FewSlots : KeysLoading(s)

KeysListInv == KeysOnlyLoadsRead /\ KeysOneLoad /\ KeysFresh

\* What Show does not touch, and when it finds that no two loads overlap.
LEMMA KeysShowCounts ==
  ASSUME past \in Keys!PastType, NEW v, Keys!Show(v), task' \in [FewSlots -> Keys!TaskType]
  PROVE  /\ view' = v /\ past'.elsewhere = past.elsewhere
         /\ ~past'.overlapped =>
               /\ ~past.overlapped
               /\ \A s, r \in FewSlots : KeysLoading(s)' /\ KeysLoading(r)' => s = r
  <1> DEFINE L == {s \in FewSlots : task'[s].at = "loading"}
  <1>1. Keys!Cardinality(L) = Cardinality(L)
    BY DEF Keys!Cardinality, Cardinality
  <1>2. /\ view' = v /\ past'.elsewhere = past.elsewhere
        /\ past'.overlapped = (past.overlapped \/ Keys!Cardinality(L) > 1)
    BY DEF Keys!Show, Keys!PastType
  <1>3. IsFiniteSet(L) /\ \A s \in FewSlots : KeysLoading(s)' => s \in L
    BY SomeSlotsAreFinite DEF KeysLoading, Keys!At
  <1> HIDE DEF L
  <1> QED BY <1>1, <1>2, <1>3, AtMostOne

LEMMA KeysSettledList ==
  ASSUME NEW v \in Keys!ViewType, NEW call
  PROVE  Keys!Settled(v, call).keys = v.keys
  BY DEF Keys!Settled, Keys!ViewType

\* Steps that leave the lists where they are.
LEMMA KeysSameLists ==
  ASSUME KeysListInv, view'.keys = view.keys, tables'.keys = tables.keys,
         KeysUndisturbed' => KeysUndisturbed,
         \A s \in FewSlots : /\ KeysLoading(s)' <=> KeysLoading(s)
                             /\ KeysPending(s)' <=> KeysPending(s)
                             /\ KeysLoading(s) => task'[s].keys \in {task[s].keys, tables.keys}
                             /\ Keys!At(s, "idle")' \/ KeysLoading(s)' \/ task'[s].keys = None
  PROVE  KeysListInv'
  <1>1. KeysOnlyLoadsRead'
    BY DEF KeysOnlyLoadsRead
  <1>2. KeysOneLoad'
    BY DEF KeysListInv, KeysOneLoad
  <1>3. KeysFresh'
    BY DEF KeysListInv, KeysFresh
  <1> QED BY <1>1, <1>2, <1>3 DEF KeysListInv

LEMMA KeysListStarts == ASSUME Keys!Init PROVE KeysListInv
  <1> DEFINE t == Keys!LoadTask("load", None)
  <1>1. t.at = "loading" /\ t.keys = None
    BY DEF Keys!LoadTask
  <1>2. task = [s \in FewSlots |-> IF \A r \in FewSlots : s <= r THEN t ELSE Keys!Idle]
    BY DEF Keys!Init, Keys!OnlyOneCall, Keys!Alone
  <1> HIDE DEF t
  <1>3. \A s \in FewSlots : task[s].at = "loading" => task[s] = t /\ \A r \in FewSlots : s <= r
    BY <1>2 DEF Keys!Idle
  <1>4. \A s \in FewSlots : task[s].at \in {"idle", "loading"}
    BY <1>1, <1>2 DEF Keys!Idle
  <1>5. PICK first \in FewSlots : task[first].at = "loading"
    BY <1>1, <1>2, FirstSlot
  <1>6. \A s, r \in FewSlots : s <= r /\ r <= s => s = r
    <2>1. \A m, n \in Nat : m <= n /\ n <= m => m = n
      OBVIOUS
    <2> QED BY <2>1, AgentAssumption
  <1>7. KeysOneLoad
    BY <1>3, <1>6 DEF KeysOneLoad, KeysLoading, Keys!At
  <1>8. KeysOnlyLoadsRead
    BY <1>4 DEF KeysOnlyLoadsRead, KeysLoading, Keys!At
  <1>9. KeysFresh
    BY <1>1, <1>3, <1>5 DEF KeysFresh, KeysLoading, Keys!At
  <1> QED BY <1>7, <1>8, <1>9 DEF KeysListInv

LEMMA KeysListStep ==
  ASSUME KeysTyped, KeysTyped', KeysListInv, [Keys!Next]_vars
  PROVE  KeysListInv'
  <1>0. /\ task \in [FewSlots -> Keys!TaskType] /\ task' \in [FewSlots -> Keys!TaskType]
        /\ view \in Keys!ViewType /\ past \in Keys!PastType /\ faults \in Nat
        /\ tables.keys \in Keys!KeyList
    BY AgentAssumption DEF KeysTyped, Keys!TypeOK
  <1>1. ASSUME NEW s \in FewSlots, NEW t, t.at \in {"issuing", "revoking"}, t.keys = None,
               Keys!Call(t), NEW v, v.keys = view.keys, Keys!Show(v),
               UNCHANGED <<tables, faults>>
        PROVE  KeysListInv'
    <2>1. PICK r \in FewSlots : Keys!At(r, "idle") /\ task' = [task EXCEPT ![r] = t]
      BY <1>1 DEF Keys!Call
    <2>2. view'.keys = view.keys /\ (KeysUndisturbed' => KeysUndisturbed)
      BY <1>0, <1>1, KeysShowCounts DEF KeysUndisturbed
    <2>3. \A q \in FewSlots : task'[q] = IF q = r THEN t ELSE task[q]
      BY <1>0, <2>1
    <2> QED BY <1>1, <2>1, <2>2, <2>3, KeysSameLists
            DEF KeysListInv, KeysOnlyLoadsRead, KeysLoading, KeysPending, Keys!At
  <1>2. ASSUME Keys!Issue PROVE KeysListInv'
    <2> DEFINE t == [Keys!LoadTask("issue", None) EXCEPT !.at = "issuing"]
               v == [view EXCEPT !.issuing = TRUE]
    <2>1. t.at = "issuing" /\ t.keys = None /\ v.keys = view.keys
      BY <1>0 DEF Keys!LoadTask, Keys!ViewType
    <2>2. Keys!Call(t) /\ Keys!Show(v) /\ UNCHANGED <<tables, faults>>
      BY <1>2 DEF Keys!Issue
    <2> HIDE DEF t, v
    <2> QED BY <1>1, <2>1, <2>2, FirstSlot
  <1>3. ASSUME NEW k \in ApiKeys, Keys!Revoke(k) PROVE KeysListInv'
    <2> DEFINE t == [Keys!LoadTask("revoke", k) EXCEPT !.at = "revoking"]
               v == [view EXCEPT !.revoking = k]
    <2>1. t.at = "revoking" /\ t.keys = None /\ v.keys = view.keys
      BY <1>0 DEF Keys!LoadTask, Keys!ViewType
    <2>2. Keys!Call(t) /\ Keys!Show(v) /\ UNCHANGED <<tables, faults>>
      BY <1>3 DEF Keys!Revoke
    <2> HIDE DEF t, v
    <2> QED BY <1>1, <2>1, <2>2, FirstSlot
  <1>4. ASSUME Keys!CloseModal PROVE KeysListInv'
    <2> DEFINE v == [view EXCEPT !.newKey = None]
    <2>1. v.keys = view.keys
      BY <1>0 DEF Keys!ViewType
    <2>2. Keys!Show(v) /\ UNCHANGED <<tables, task, faults>>
      BY <1>4 DEF Keys!CloseModal
    <2> HIDE DEF v
    <2>3. view'.keys = view.keys /\ (KeysUndisturbed' => KeysUndisturbed)
      BY <1>0, <2>1, <2>2, KeysShowCounts DEF KeysUndisturbed
    <2> QED BY <2>2, <2>3, KeysSameLists
            DEF KeysListInv, KeysOnlyLoadsRead, KeysLoading, KeysPending, Keys!At
  <1>5. ASSUME Keys!RevokedElsewhere PROVE KeysListInv'
    <2>1. ~KeysUndisturbed' /\ UNCHANGED task
      BY <1>0, <1>5 DEF Keys!RevokedElsewhere, KeysUndisturbed, Keys!PastType
    <2> QED BY <2>1 DEF KeysListInv, KeysOnlyLoadsRead, KeysOneLoad, KeysFresh,
               KeysLoading, Keys!At
  <1>6. ASSUME NEW s \in FewSlots, Keys!ReadAgent(s) \/ Keys!ReadKeys(s) PROVE KeysListInv'
    <2>1. task[s] \in KeysTaskRecord /\ task[s].at = "loading"
      BY <1>0, <1>6, KeysTaskIsRecord DEF Keys!ReadAgent, Keys!ReadKeys, Keys!At
    <2>2. /\ UNCHANGED <<tables, view, faults, past>>
          /\ \A r \in FewSlots \ {s} : task'[r] = task[r]
      BY <1>0, <1>6 DEF Keys!ReadAgent, Keys!ReadKeys
    <2>3. task'[s].at = "loading" /\ task'[s].keys \in {task[s].keys, tables.keys}
      BY <1>0, <1>6, <2>1 DEF Keys!ReadAgent, Keys!ReadKeys, KeysTaskRecord
    <2>4. \A r \in FewSlots : \/ r = s
                              \/ task'[r] = task[r]
      BY <2>2
    <2> QED BY <2>1, <2>2, <2>3, <2>4, KeysSameLists
            DEF KeysListInv, KeysOnlyLoadsRead, KeysLoading, KeysPending, KeysUndisturbed, Keys!At
  <1>7. ASSUME NEW s \in FewSlots, Keys!IssueServed(s) \/ Keys!RevokeServed(s)
        PROVE  KeysListInv'
    <2>1. task[s] \in KeysTaskRecord /\ task[s].at \in {"issuing", "revoking"}
      BY <1>0, <1>7, KeysTaskIsRecord DEF Keys!IssueServed, Keys!RevokeServed, Keys!At
    <2>2. /\ UNCHANGED <<view, faults, past>>
          /\ \A r \in FewSlots \ {s} : task'[r] = task[r]
      BY <1>0, <1>7 DEF Keys!IssueServed, Keys!RevokeServed, Keys!Goto
    <2>3. task'[s].at \in {"issued", "revoked"} /\ task'[s].keys = task[s].keys
      <3>1. CASE Keys!IssueServed(s)
        BY <1>0, <2>1, <3>1 DEF Keys!IssueServed, KeysTaskRecord
      <3>2. CASE Keys!RevokeServed(s)
        BY <1>0, <2>1, <3>2 DEF Keys!RevokeServed, Keys!Goto, KeysTaskRecord
      <3> QED BY <1>7, <3>1, <3>2
    <2>4. task[s].keys = None /\ KeysPending(s)'
      BY <2>1, <2>3 DEF KeysListInv, KeysOnlyLoadsRead, KeysLoading, KeysPending, Keys!At
    <2>5. KeysOnlyLoadsRead'
      BY <2>2, <2>3, <2>4 DEF KeysListInv, KeysOnlyLoadsRead, KeysLoading, Keys!At
    <2>6. KeysOneLoad'
      BY <2>2, <2>3 DEF KeysListInv, KeysOneLoad, KeysLoading, KeysUndisturbed, Keys!At
    <2> QED BY <2>4, <2>5, <2>6 DEF KeysListInv, KeysFresh
  <1>8. ASSUME NEW s \in FewSlots, Keys!IssueAnswered(s) \/ Keys!RevokeAnswered(s)
        PROVE  KeysListInv'
    <2>1. task[s] \in KeysTaskRecord /\ task[s].at \in {"issued", "revoked"}
      BY <1>0, <1>8, KeysTaskIsRecord DEF Keys!IssueAnswered, Keys!RevokeAnswered, Keys!At
    <2>2. /\ UNCHANGED <<tables, faults>>
          /\ task'[s].at = "loading" /\ task'[s].keys = task[s].keys
          /\ \A r \in FewSlots \ {s} : task'[r] = task[r]
      BY <1>0, <1>8, <2>1 DEF Keys!IssueAnswered, Keys!RevokeAnswered, Keys!Goto,
         KeysTaskRecord
    <2>3. task[s].keys = None /\ KeysLoading(s)'
      BY <2>1, <2>2 DEF KeysListInv, KeysOnlyLoadsRead, KeysLoading, Keys!At
    <2>4. KeysUndisturbed' => \A r \in FewSlots : KeysLoading(r)' => r = s
      <3>1. CASE Keys!IssueAnswered(s)
        <4>1. ~past'.overlapped => \A r \in FewSlots : ~KeysLoading(r)
          BY <1>0, <3>1 DEF Keys!IssueAnswered, Keys!PastType, KeysLoading
        <4> QED BY <2>2, <4>1 DEF KeysUndisturbed, KeysLoading, Keys!At
      <3>2. CASE Keys!RevokeAnswered(s)
        BY <1>0, <2>3, <3>2, KeysShowCounts DEF Keys!RevokeAnswered, KeysUndisturbed
      <3> QED BY <1>8, <3>1, <3>2
    <2>5. KeysOnlyLoadsRead'
      BY <2>2 DEF KeysListInv, KeysOnlyLoadsRead, KeysLoading, Keys!At
    <2>6. KeysOneLoad'
      BY <2>4 DEF KeysOneLoad
    <2>7. KeysFresh'
      BY <2>2, <2>3, <2>4 DEF KeysFresh
    <2> QED BY <2>5, <2>6, <2>7 DEF KeysListInv
  <1>9. ASSUME NEW s \in FewSlots, Keys!Loaded(s) PROVE KeysListInv'
    <2> DEFINE v == [view EXCEPT !.agent = task[s].agent, !.keys = task[s].keys, !.loading = FALSE]
    <2>1. task[s] \in KeysTaskRecord /\ task[s].at = "loading" /\ task[s].keys # None
      BY <1>0, <1>9, KeysTaskIsRecord DEF Keys!Loaded, Keys!At
    <2>2. v \in Keys!ViewType /\ v.keys = task[s].keys
      BY <1>0, <1>9, <2>1 DEF Keys!Loaded, Keys!ViewType, KeysTaskRecord
    <2>3. Keys!Show(Keys!Settled(v, task[s].call)) /\ Keys!Ends(s) /\ UNCHANGED <<tables, faults>>
      BY <1>9 DEF Keys!Loaded
    <2> HIDE DEF v
    <2>4. view'.keys = task[s].keys /\ (KeysUndisturbed' => KeysUndisturbed)
      BY <1>0, <2>2, <2>3, KeysSettledList, KeysShowCounts DEF KeysUndisturbed
    <2>5. task'[s].at = "idle" /\ \A r \in FewSlots \ {s} : task'[r] = task[r]
      BY <1>0, <2>3 DEF Keys!Ends, Keys!Idle
    <2>6. KeysOnlyLoadsRead'
      BY <2>5 DEF KeysListInv, KeysOnlyLoadsRead, KeysLoading, Keys!At
    <2>7. KeysUndisturbed' => \A r \in FewSlots : ~KeysLoading(r)'
      BY <2>1, <2>4, <2>5 DEF KeysListInv, KeysOneLoad, KeysLoading, Keys!At
    <2>8. \A r \in FewSlots : KeysPending(r) => KeysPending(r)'
      BY <2>1, <2>5 DEF KeysPending, Keys!At
    <2>9. KeysFresh'
      <3> SUFFICES ASSUME KeysUndisturbed', \A r \in FewSlots : ~KeysPending(r)'
                   PROVE  view'.keys = tables'.keys
        BY <2>7 DEF KeysFresh
      <3>1. \A r \in FewSlots : KeysLoading(r) => task[r].keys \in {None, tables.keys}
        BY <2>4, <2>8 DEF KeysListInv, KeysFresh
      <3> QED BY <2>1, <2>3, <2>4, <3>1 DEF KeysLoading, Keys!At
    <2> QED BY <2>6, <2>7, <2>9 DEF KeysListInv, KeysOneLoad
  <1>10. ASSUME NEW s \in FewSlots, Keys!Refused(s) PROVE KeysListInv'
    <2>1. /\ Keys!Show(Keys!Settled(view, task[s].call)) /\ Keys!Ends(s)
          /\ UNCHANGED <<tables, faults>> /\ task[s].at \in {"issuing", "revoking"}
      BY <1>10 DEF Keys!Refused, Keys!At
    <2>2. view'.keys = view.keys /\ (KeysUndisturbed' => KeysUndisturbed)
      BY <1>0, <2>1, KeysSettledList, KeysShowCounts DEF KeysUndisturbed
    <2>3. task'[s].at = "idle" /\ \A r \in FewSlots : r = s \/ task'[r] = task[r]
      BY <1>0, <2>1 DEF Keys!Ends, Keys!Idle
    <2> QED BY <2>1, <2>2, <2>3, KeysSameLists
            DEF KeysListInv, KeysOnlyLoadsRead, KeysLoading, KeysPending, Keys!At
  <1>11. ASSUME NEW s \in FewSlots, Keys!LoadFails(s) \/ Keys!RequestFails(s) PROVE KeysListInv'
    <2>1. Keys!Ends(s) /\ faults' = faults + 1
      BY <1>11 DEF Keys!LoadFails, Keys!RequestFails, Keys!Fault
    <2>2. ~KeysUndisturbed'
      BY <1>0, <2>1 DEF KeysUndisturbed
    <2>3. task'[s].at = "idle" /\ \A r \in FewSlots : r = s \/ task'[r] = task[r]
      BY <1>0, <2>1 DEF Keys!Ends, Keys!Idle
    <2>4. KeysOnlyLoadsRead'
      BY <2>3 DEF KeysListInv, KeysOnlyLoadsRead, KeysLoading, Keys!At
    <2> QED BY <2>2, <2>4 DEF KeysListInv, KeysOneLoad, KeysFresh
  <1>12. CASE UNCHANGED vars
    BY <1>12, KeysSameLists
       DEF vars, KeysListInv, KeysOnlyLoadsRead, KeysLoading, KeysPending, KeysUndisturbed, Keys!At
  <1> QED
    BY <1>2, <1>3, <1>4, <1>5, <1>6, <1>7, <1>8, <1>9, <1>10, <1>11, <1>12
    DEF Keys!Next, Keys!Progress

-----------------------------------------------------------------------------
(* The invariant of the keys *)

KeysInv == KeysTyped /\ KeysSecretInv /\ KeysListInv

LEMMA KeysStarts == ASSUME Keys!Init PROVE KeysInv
  BY KeysInitTyped, KeysStartSecret, KeysListStarts DEF KeysInv

LEMMA KeysMoves == ASSUME KeysInv, [Keys!Next]_vars PROVE KeysInv'
  <1>1. KeysTyped' /\ KeysSecretInv'
    BY KeysTypedStep, KeysSecretStep DEF KeysInv
  <1> QED BY <1>1, KeysListStep DEF KeysInv

LEMMA KeysPromises ==
  ASSUME KeysInv
  PROVE  Keys!Here /\ Keys!TypeOK /\ Keys!NoSecretOverwritten /\ Keys!QuietListIsFresh
  <1>1. Keys!Here /\ Keys!TypeOK
    BY DEF KeysInv, KeysTyped, Keys!TypeOK, Keys!ViewType, Keys!Here
  <1>2. Keys!NoSecretOverwritten
    BY DEF KeysInv, KeysSecretInv, KeysKept, Keys!NoSecretOverwritten
  <1>3. Keys!QuietListIsFresh
    BY DEF KeysInv, KeysListInv, KeysFresh, KeysUndisturbed, KeysPending, KeysLoading,
       Keys!At,
           Keys!Quiet, Keys!QuietListIsFresh
  <1> QED BY <1>1, <1>2, <1>3

-----------------------------------------------------------------------------
(* THE CONTROL PANEL *)

ControlTask ==
    [at : {"acting", "acted", "listing"}, agent : Agents \cup {None},
     fn : Control!Actions \cup {None}, list : Control!AgentList \cup {None}]

ControlView ==
    [page : {"control"}, list : Control!AgentList \cup {None}, loading : Agents \cup {None}]

ControlPast == [overlapped : BOOLEAN, elsewhere : BOOLEAN]

\* A call that a click began knows the button, and has read no list.
ControlClicked(t) == t.agent \in Agents /\ t.fn \in Control!Actions /\ t.list = None

ControlTyped ==
    /\ tables \in Control!AgentList
    /\ view \in ControlView
    /\ task \in [FewSlots -> ControlTask \cup {Control!Idle}]
    /\ \A s \in FewSlots :
          task[s].at \in {"acting", "acted"} => ControlClicked(task[s])
    /\ faults \in 0 .. MaxFaults
    /\ past \in ControlPast

ControlUndisturbed == faults = 0 /\ ~past.overlapped /\ ~past.elsewhere

ControlBusy(s) == ~Control!At(s, "idle")

\* Undisturbed there is one call.  Until it is served its button is one that the
\* table offers; the list, once it is read, is the table; and without a call the
\* list on the page is the table.
ControlInStep ==
    ControlUndisturbed =>
        /\ \A s, r \in FewSlots : ControlBusy(s) /\ ControlBusy(r) => s = r
        /\ \A s \in FewSlots : Control!At(s, "acting") =>
              /\ view.list = tables
              /\ task[s].fn = "pause" => tables[task[s].agent] = "active"
              /\ task[s].fn = "resume" => tables[task[s].agent] = "paused"
        /\ \A s \in FewSlots : Control!At(s, "listing") => task[s].list \in {None, tables}
        /\ (\A s \in FewSlots : ~ControlBusy(s)) => view.list = tables

ControlInv == ControlTyped /\ ControlInStep

LEMMA ControlTaskIsRecord ==
  ASSUME ControlTyped, NEW s \in FewSlots, task[s].at # "idle"
  PROVE  task[s] \in ControlTask
  BY DEF ControlTyped, Control!Idle

LEMMA ControlStarts == ASSUME Control!Init PROVE ControlInv
  <1> DEFINE t == Control!Mounting
  <1>1. t \in ControlTask /\ t.at = "listing" /\ t.list = None
    BY DEF Control!Mounting, ControlTask
  <1>2. task = [s \in FewSlots |-> IF \A r \in FewSlots : s <= r THEN t ELSE Control!Idle]
    BY DEF Control!Init, Control!OnlyOneCall, Control!Alone
  <1> HIDE DEF t
  <1>3. \A s \in FewSlots : /\ task[s].at \in {"idle", "listing"}
                            /\ task[s].at # "idle" => task[s] = t /\ \A r \in FewSlots : s <= r
    BY <1>1, <1>2 DEF Control!Idle
  <1>4. PICK first \in FewSlots : task[first].at = "listing"
    BY <1>1, <1>2, FirstSlot
  <1>5. \A s, r \in FewSlots : s <= r /\ r <= s => s = r
    <2>1. \A m, n \in Nat : m <= n /\ n <= m => m = n
      OBVIOUS
    <2> QED BY <2>1, AgentAssumption
  <1>6. task \in [FewSlots -> ControlTask \cup {Control!Idle}]
    BY <1>1, <1>2
  <1>7. /\ tables \in Control!AgentList /\ view \in ControlView
        /\ faults \in 0 .. MaxFaults /\ past \in ControlPast
    BY AgentAssumption
       DEF Control!Init, Control!AgentList, Control!Status, ControlView, ControlPast
  <1>8. ControlTyped
    BY <1>3, <1>6, <1>7 DEF ControlTyped
  <1>9. ControlInStep
    BY <1>1, <1>3, <1>4, <1>5 DEF ControlInStep, ControlBusy, Control!At
  <1> QED BY <1>8, <1>9 DEF ControlInv

\* A call that moves on or ends, and what it leaves of the page.
LEMMA ControlTypedStep ==
  ASSUME ControlTyped, NEW s \in FewSlots, NEW t \in ControlTask \cup {Control!Idle},
         t.at \in {"acting", "acted"} => ControlClicked(t),
         task' = [task EXCEPT ![s] = t], tables' \in Control!AgentList, view' \in ControlView,
         faults' \in 0 .. MaxFaults, past' \in ControlPast
  PROVE  ControlTyped'
  <1>1. \A r \in FewSlots : task'[r] = IF r = s THEN t ELSE task[r]
    BY DEF ControlTyped
  <1>2. task' \in [FewSlots -> ControlTask \cup {Control!Idle}]
    BY DEF ControlTyped
  <1> QED BY <1>1, <1>2 DEF ControlTyped

LEMMA ControlCleared ==
  ASSUME NEW v \in ControlView, NEW s \in FewSlots
  PROVE  Control!Cleared(v, s) \in ControlView /\ Control!Cleared(v, s).list = v.list
  BY DEF Control!Cleared, ControlView

\* A load is under way, or has read the table; nothing else is changed.
LEMMA ControlGoesOn ==
  ASSUME ControlInv, NEW s \in FewSlots, task[s].at # "idle", NEW t \in ControlTask,
         t.at = "listing", t.list \in {None, tables}, task' = [task EXCEPT ![s] = t],
         UNCHANGED <<tables, view, faults, past>>
  PROVE  ControlInv'
  <1>0. /\ tables \in Control!AgentList /\ view \in ControlView /\ past \in ControlPast
        /\ task \in [FewSlots -> ControlTask \cup {Control!Idle}]
        /\ faults \in 0 .. MaxFaults /\ ControlTyped
    BY DEF ControlInv, ControlTyped
  <1>1. task'[s] = t /\ \A r \in FewSlots \ {s} : task'[r] = task[r]
    BY <1>0
  <1>2. ControlTyped'
    BY <1>0, ControlTypedStep
  <1>3. ControlUndisturbed' => \A r \in FewSlots : ControlBusy(r) => r = s
    BY DEF ControlUndisturbed, ControlInv, ControlInStep, ControlBusy, Control!At
  <1>4. ControlUndisturbed' => \A r \in FewSlots : r # s => task'[r].at = "idle"
    BY <1>1, <1>3 DEF ControlBusy, Control!At
  <1>5. ControlInStep'
    BY <1>1, <1>4 DEF ControlInStep, ControlBusy, Control!At
  <1> QED BY <1>2, <1>5 DEF ControlInv

\* A call ends, with the list of the page that it leaves.
LEMMA ControlEnds ==
  ASSUME ControlInv, NEW s \in FewSlots, task[s].at # "idle", Control!Ends(s),
         UNCHANGED <<tables, past>>, view' \in ControlView, faults' \in 0 .. MaxFaults,
         ControlUndisturbed' => ControlUndisturbed /\ view'.list = tables
  PROVE  ControlInv'
  <1>0. /\ tables \in Control!AgentList /\ past \in ControlPast
        /\ task \in [FewSlots -> ControlTask \cup {Control!Idle}] /\ ControlTyped
    BY DEF ControlInv, ControlTyped
  <1>1. Control!Idle.at = "idle" /\ task' = [task EXCEPT ![s] = Control!Idle]
    BY DEF Control!Idle, Control!Ends
  <1>2. task'[s].at = "idle" /\ \A r \in FewSlots \ {s} : task'[r] = task[r]
    BY <1>0, <1>1
  <1>3. ControlTyped'
    BY <1>0, <1>1, ControlTypedStep
  <1>4. ControlUndisturbed' => \A r \in FewSlots : ControlBusy(r) => r = s
    BY DEF ControlInv, ControlInStep, ControlBusy, Control!At
  <1>5. ControlUndisturbed' => \A r \in FewSlots : task'[r].at = "idle"
    BY <1>2, <1>4 DEF ControlBusy, Control!At
  <1>6. ControlInStep'
    BY <1>5 DEF ControlInStep, ControlBusy, Control!At
  <1> QED BY <1>3, <1>6 DEF ControlInv

LEMMA ControlMoves == ASSUME ControlInv, [Control!Next]_vars PROVE ControlInv'
  <1>0. /\ tables \in Control!AgentList /\ view \in ControlView /\ past \in ControlPast
        /\ task \in [FewSlots -> ControlTask \cup {Control!Idle}]
        /\ faults \in 0 .. MaxFaults /\ ControlTyped
    BY DEF ControlInv, ControlTyped
  <1>1. ASSUME NEW a \in Agents, Control!RevokedElsewhere(a) PROVE ControlInv'
    <2>1. /\ tables' = [tables EXCEPT ![a] = "revoked"]
          /\ past' = [past EXCEPT !.elsewhere = TRUE] /\ UNCHANGED <<view, task, faults>>
      BY <1>1 DEF Control!RevokedElsewhere
    <2>2. tables' \in Control!AgentList
      BY <1>0, <2>1 DEF Control!AgentList, Control!Status
    <2>3. past' \in ControlPast /\ past'.elsewhere
      BY <1>0, <2>1 DEF ControlPast
    <2>4. ControlTyped'
      BY <2>1, <2>2, <2>3 DEF ControlInv, ControlTyped
    <2> QED BY <2>3, <2>4 DEF ControlInv, ControlInStep, ControlUndisturbed
  <1>2. ASSUME NEW a \in Agents, NEW fn \in Control!Actions, Control!Click(a, fn) PROVE ControlInv'
    <2> DEFINE t == [at |-> "acting", agent |-> a, fn |-> fn, list |-> None]
    <2>1. /\ t \in ControlTask /\ t.at = "acting" /\ t.agent = a /\ t.fn = fn
          /\ ControlClicked(t)
          /\ view' = [view EXCEPT !.loading = a] /\ UNCHANGED <<tables, faults>>
      BY <1>2 DEF ControlTask, ControlClicked, Control!Click
    <2>2. PICK s \in FewSlots : Control!At(s, "idle") /\ task' = [task EXCEPT ![s] = t]
      BY <1>2 DEF Control!Click, Control!Call
    <2> HIDE DEF t
    <2>3. task'[s] = t /\ \A r \in FewSlots \ {s} : task'[r] = task[r]
      BY <1>0, <2>2
    <2>4. view' \in ControlView /\ view'.list = view.list
      BY <1>0, <2>1 DEF ControlView
    <2> DEFINE B == {r \in FewSlots : task'[r].at # "idle"}
    <2>5. Control!Cardinality(B) = Cardinality(B)
      BY DEF Control!Cardinality, Cardinality
    <2>6. /\ past' \in ControlPast /\ past'.elsewhere = past.elsewhere
          /\ past'.overlapped = (past.overlapped \/ Control!Cardinality(B) > 1)
      BY <1>0, <1>2 DEF Control!Click, Control!NoteOverlap, ControlPast
    <2>7. IsFiniteSet(B) /\ \A r \in FewSlots : ControlBusy(r)' => r \in B
      BY SomeSlotsAreFinite DEF ControlBusy, Control!At
    <2> HIDE DEF B
    <2>8. ControlTyped'
      BY <1>0, <2>1, <2>2, <2>4, <2>6, ControlTypedStep
    <2>9. ControlUndisturbed' =>
             /\ ControlUndisturbed
             /\ \A q, r \in FewSlots : ControlBusy(q)' /\ ControlBusy(r)' => q = r
      <3>1. ~past'.overlapped => ~(Cardinality(B) > 1)
        BY <2>5, <2>6
      <3>2. ~past'.overlapped => \A q, r \in B : q = r
        BY <2>7, <3>1, AtMostOne
      <3>3. ControlUndisturbed' => ControlUndisturbed /\ ~past'.overlapped
        BY <2>1, <2>6 DEF ControlUndisturbed
      <3> QED BY <2>7, <3>2, <3>3
    <2>10. ControlBusy(s)'
      BY <2>1, <2>3 DEF ControlBusy, Control!At
    <2>11. ControlUndisturbed' => \A r \in FewSlots : ~ControlBusy(r)
      <3> SUFFICES ASSUME ControlUndisturbed', NEW r \in FewSlots, ControlBusy(r) PROVE FALSE
        OBVIOUS
      <3>1. r # s
        BY <2>2 DEF ControlBusy, Control!At
      <3>2. ControlBusy(r)'
        BY <2>3, <3>1 DEF ControlBusy, Control!At
      <3> QED BY <2>9, <2>10, <3>1, <3>2
    <2>12. ControlUndisturbed' => view.list = tables
      BY <2>9, <2>11 DEF ControlInv, ControlInStep
    <2>13. /\ fn = "pause" => view.list[a] = "active"
           /\ fn = "resume" => view.list[a] = "paused"
      BY <1>2 DEF Control!Click, Control!Offers, Control!Row
    <2>14. ControlUndisturbed' => \A r \in FewSlots : r # s => task'[r].at = "idle"
      BY <2>9, <2>10 DEF ControlBusy, Control!At
    <2>15. ControlInStep'
      BY <2>1, <2>3, <2>4, <2>9, <2>10, <2>12, <2>13, <2>14 DEF ControlInStep, Control!At
    <2> QED BY <2>8, <2>15 DEF ControlInv
  <1>3. ASSUME NEW s \in FewSlots, Control!Served(s) PROVE ControlInv'
    <2> DEFINE a == task[s].agent
    <2>1. /\ task[s] \in ControlTask /\ task[s].at = "acting"
          /\ a \in Agents /\ task[s].fn \in Control!Actions /\ task[s].list = None
      BY <1>0, <1>3, ControlTaskIsRecord
         DEF Control!Served, Control!At, ControlTyped, ControlClicked
    <2>2. /\ tables' = [tables EXCEPT ![a] = Control!Becomes(task[s].fn)]
          /\ UNCHANGED <<view, faults, past>>
      BY <1>3 DEF Control!Served
    <2> HIDE DEF a
    <2>3. tables' \in Control!AgentList
      <3>1. Control!Becomes(task[s].fn) \in Control!Status
        BY <2>1 DEF Control!Becomes, Control!Status, Control!Actions
      <3> QED BY <1>0, <2>1, <2>2, <3>1 DEF Control!AgentList
    <2> DEFINE t == [task[s] EXCEPT !.at = "acted"]
    <2>4. /\ t \in ControlTask /\ t.at = "acted" /\ t.agent = a /\ t.fn = task[s].fn
          /\ ControlClicked(t) /\ task' = [task EXCEPT ![s] = t]
      BY <1>0, <1>3, <2>1 DEF Control!Served, Control!Goto, ControlTask, ControlClicked, a
    <2> HIDE DEF t
    <2>5. task'[s] = t /\ \A r \in FewSlots \ {s} : task'[r] = task[r]
      BY <1>0, <2>4
    <2>6. ControlTyped'
      BY <1>0, <2>1, <2>2, <2>3, <2>4, ControlTypedStep
    <2>7. ControlUndisturbed' => \A r \in FewSlots : ControlBusy(r) => r = s
      BY <2>1, <2>2 DEF ControlUndisturbed, ControlInv, ControlInStep, ControlBusy,
         Control!At
    <2>8. ControlBusy(s)' /\ ~Control!At(s, "acting")' /\ ~Control!At(s, "listing")'
      BY <2>4, <2>5 DEF ControlBusy, Control!At
    <2>9. ControlUndisturbed' => \A r \in FewSlots : r # s => task'[r].at = "idle"
      BY <2>5, <2>7 DEF ControlBusy, Control!At
    <2>10. ControlInStep'
      BY <2>8, <2>9 DEF ControlInStep, ControlBusy, Control!At
    <2> QED BY <2>6, <2>10 DEF ControlInv
  <1>4. ASSUME NEW s \in FewSlots, Control!Answered(s) PROVE ControlInv'
    <2> DEFINE t == [task[s] EXCEPT !.at = "listing"]
    <2>1. /\ task[s] \in ControlTask /\ task[s].at = "acted" /\ task[s].list = None
          /\ UNCHANGED <<tables, view, faults, past>>
      BY <1>0, <1>4, ControlTaskIsRecord
         DEF Control!Answered, Control!At, ControlTyped, ControlClicked
    <2>2. /\ t \in ControlTask /\ t.at = "listing" /\ t.list = None
          /\ task' = [task EXCEPT ![s] = t]
      BY <1>0, <1>4, <2>1 DEF Control!Answered, Control!Goto, ControlTask
    <2> HIDE DEF t
    <2> QED BY <2>1, <2>2, ControlGoesOn
  <1>5. ASSUME NEW s \in FewSlots, Control!ReadList(s) PROVE ControlInv'
    <2> DEFINE t == [task[s] EXCEPT !.list = tables]
    <2>1. /\ task[s] \in ControlTask /\ task[s].at = "listing"
          /\ UNCHANGED <<tables, view, faults, past>>
      BY <1>0, <1>5, ControlTaskIsRecord DEF Control!ReadList, Control!At
    <2>2. /\ t \in ControlTask /\ t.at = "listing" /\ t.list = tables
          /\ task' = [task EXCEPT ![s] = t]
      BY <1>0, <1>5, <2>1 DEF Control!ReadList, ControlTask
    <2> HIDE DEF t
    <2> QED BY <2>1, <2>2, ControlGoesOn
  <1>6. ASSUME NEW s \in FewSlots, Control!Listed(s) PROVE ControlInv'
    <2> DEFINE v == [view EXCEPT !.list = task[s].list]
    <2>1. /\ task[s] \in ControlTask /\ task[s].at = "listing" /\ task[s].list # None
          /\ Control!Ends(s) /\ view' = Control!Cleared(v, s) /\ UNCHANGED <<tables, faults, past>>
      BY <1>0, <1>6, ControlTaskIsRecord DEF Control!Listed, Control!At
    <2>2. v \in ControlView /\ v.list = task[s].list
      BY <1>0, <2>1 DEF ControlView, ControlTask
    <2> HIDE DEF v
    <2>3. view' \in ControlView /\ view'.list = task[s].list
      BY <2>1, <2>2, ControlCleared
    <2>4. ControlUndisturbed => task[s].list = tables
      BY <2>1 DEF ControlInv, ControlInStep, Control!At
    <2>5. ControlUndisturbed' => ControlUndisturbed
      BY <2>1 DEF ControlUndisturbed
    <2> QED BY <1>0, <2>1, <2>3, <2>4, <2>5, ControlEnds
  <1>7. ASSUME NEW s \in FewSlots, Control!Refused(s) PROVE ControlInv'
    <2>1. /\ task[s].at = "acting" /\ Control!Ends(s) /\ view' = Control!Cleared(view, s)
          /\ UNCHANGED <<tables, faults, past>>
      BY <1>7 DEF Control!Refused, Control!At
    <2>2. view' \in ControlView /\ view'.list = view.list
      BY <1>0, <2>1, ControlCleared
    <2>3. ControlUndisturbed => view.list = tables
      BY <2>1 DEF ControlInv, ControlInStep, Control!At
    <2>4. ControlUndisturbed' => ControlUndisturbed
      BY <2>1 DEF ControlUndisturbed
    <2> QED BY <1>0, <2>1, <2>2, <2>3, <2>4, ControlEnds
  <1>8. ASSUME NEW s \in FewSlots, Control!RequestFails(s) PROVE ControlInv'
    <2>1. /\ task[s].at # "idle" /\ Control!Ends(s) /\ view' = Control!Cleared(view, s)
          /\ faults < MaxFaults /\ faults' = faults + 1 /\ UNCHANGED <<tables, past>>
      BY <1>8 DEF Control!RequestFails, Control!Fault, Control!At
    <2>2. view' \in ControlView
      BY <1>0, <2>1, ControlCleared
    <2>3. MaxFaults \in Nat
      BY AgentAssumption
    <2>4. faults' \in 0 .. MaxFaults /\ ~ControlUndisturbed'
      BY <1>0, <2>1, <2>3 DEF ControlUndisturbed
    <2> QED BY <2>1, <2>2, <2>4, ControlEnds
  <1>9. CASE UNCHANGED vars
    BY <1>9 DEF vars, ControlInv, ControlTyped, ControlInStep, ControlUndisturbed,
       ControlBusy,
                Control!At
  <1> QED
    BY <1>1, <1>2, <1>3, <1>4, <1>5, <1>6, <1>7, <1>8, <1>9 DEF Control!Next,
       Control!Progress

LEMMA ControlPromises ==
  ASSUME ControlInv
  PROVE  Control!Here /\ Control!TypeOK /\ Control!QuietListIsFresh
  <1>1. Control!Here
    BY DEF ControlInv, ControlTyped, ControlView, Control!Here
  <1>2. Control!TypeOK
    BY DEF ControlInv, ControlTyped, ControlView, ControlTask, ControlPast, Control!TypeOK
  <1>3. Control!QuietListIsFresh
    BY DEF ControlInv, ControlInStep, ControlUndisturbed, ControlBusy, Control!Quiet,
           Control!QuietListIsFresh
  <1> QED BY <1>1, <1>2, <1>3

\* A button that is served undisturbed does what it says to the agent it found.
LEMMA ControlKeepsRevocation ==
  ASSUME ControlInv, [Control!Next]_vars, ~past.overlapped, ~past.elsewhere, faults = 0,
         NEW a \in Agents, tables[a] = "revoked"
  PROVE  tables'[a] = "revoked"
  <1>0. ControlUndisturbed /\ tables \in Control!AgentList
    BY DEF ControlUndisturbed, ControlInv, ControlTyped
  <1>1. CASE UNCHANGED tables
    BY <1>1
  <1>2. ASSUME NEW b \in Agents, Control!RevokedElsewhere(b) PROVE tables'[a] = "revoked"
    BY <1>0, <1>2 DEF Control!RevokedElsewhere, Control!AgentList
  <1>3. ASSUME NEW s \in FewSlots, Control!Served(s) PROVE tables'[a] = "revoked"
    <2>1. /\ task[s].at = "acting" /\ task[s].agent \in Agents /\ task[s].fn \in Control!Actions
          /\ tables' = [tables EXCEPT ![task[s].agent] = Control!Becomes(task[s].fn)]
      BY <1>3 DEF Control!Served, Control!At, ControlInv, ControlTyped, ControlClicked
    <2>2. /\ task[s].fn = "pause" => tables[task[s].agent] = "active"
          /\ task[s].fn = "resume" => tables[task[s].agent] = "paused"
      BY <1>0, <2>1 DEF ControlInv, ControlInStep, Control!At
    <2>3. CASE task[s].agent # a
      BY <1>0, <2>1, <2>3 DEF Control!AgentList
    <2>4. CASE task[s].agent = a
      <3>1. task[s].fn = "revoke"
        BY <2>1, <2>2, <2>4 DEF Control!Actions
      <3>2. Control!Becomes(task[s].fn) = "revoked"
        BY <3>1 DEF Control!Becomes
      <3> QED BY <1>0, <2>1, <2>4, <3>2 DEF Control!AgentList
    <2> QED BY <2>3, <2>4
  <1> QED
    BY <1>1, <1>2, <1>3
       DEF Control!Next, Control!Progress, Control!Click, Control!Answered, Control!ReadList,
           Control!Listed, Control!Refused, Control!RequestFails, vars

-----------------------------------------------------------------------------
(* THE SETUP OF AN AGENT *)

SetupLoad ==
    [at : {"loading"}, vaults : (0 .. MaxVaults) \cup {None},
     strategies : (0 .. MaxStrategies) \cup {None}]
SetupSave == [at : {"saving", "saved"}]
SetupActivate == [at : {"activating", "activated", "refused"}, vault : 0 .. MaxVaults]
SetupTask == {Setup!Idle} \cup SetupSave \cup SetupActivate \cup SetupLoad

SetupTables ==
    [status : {"paused", "active", "revoked"}, vaults : 0 .. MaxVaults,
     strategies : 0 .. MaxStrategies, link : (1 .. MaxVaults) \cup {None}]

SetupView ==
    [page : {"setup"}, step : {"funds", "strategy", "activate"}, agent : BOOLEAN,
     vaults : 0 .. MaxVaults, selected : 0 .. MaxVaults, strategies : 0 .. MaxStrategies,
     loading : BOOLEAN, error : BOOLEAN, left : BOOLEAN]

SetupTyped ==
    /\ tables \in SetupTables /\ view \in SetupView /\ task \in [Slots -> SetupTask]
    /\ past \in [wentBack : BOOLEAN] /\ faults \in 0 .. MaxFaults

\* Nothing has failed and no old answer sent the page back.
SetupSmooth == ~past.wentBack /\ faults = 0

SetupHandling(t) == t.at \in {"saving", "saved", "activating", "activated", "refused"}

\* A call in slot s where the table has n strategies.  A handler has the last
\* slot and disables the button; what a load read is not more than there is; a
\* strategy is saved where there is none, unless something went wrong.
SetupGood(t, s, n, loading, smooth) ==
    /\ SetupHandling(t) => s = Setup!Handler /\ loading
    /\ t.at = "loading" => t.strategies = None \/ t.strategies <= n
    /\ t.at = "saving" => n < MaxStrategies /\ (smooth => n = 0)
    /\ t.at = "saved" => n > 0

SetupCalls(calls, n, loading, smooth) ==
    \A s \in Slots : SetupGood(calls[s], s, n, loading, smooth)

\* A strategy that is in the table is on the page, or its answer is on its way.
SetupNoticed(calls, v, n, smooth) ==
    smooth /\ v.agent /\ n > 0 => v.step = "activate" \/ \E s \in Slots : calls[s].at = "saved"

SetupSteps(v, n) ==
    /\ v.step = "activate" => n > 0
    /\ v.step = "funds" => v.vaults = 0 /\ v.selected = 0

SetupInv ==
    /\ SetupTyped
    /\ SetupCalls(task, tables.strategies, view.loading, SetupSmooth)
    /\ SetupNoticed(task, view, tables.strategies, SetupSmooth)
    /\ SetupSteps(view, tables.strategies)

LEMMA SetupLoadIsGood ==
  /\ Setup!Load \in SetupLoad /\ Setup!Load.at = "loading" /\ Setup!Load.strategies = None
  /\ Setup!Idle.at = "idle"
  BY DEF Setup!Load, SetupLoad, Setup!Idle

\* A render starts a load in an idle slot, or none.
LEMMA SetupRenders ==
  ASSUME NEW calls \in [Slots -> SetupTask]
  PROVE  /\ Setup!Rendered(calls) \in [Slots -> SetupTask]
         /\ \A s \in Slots : \/ Setup!Rendered(calls)[s] = calls[s]
                             \/ calls[s] = Setup!Idle /\ Setup!Rendered(calls)[s] = Setup!Load
  <1>1. Setup!Load \in SetupTask
    BY SetupLoadIsGood DEF SetupTask
  <1>2. \A s \in Setup!FreeForLoad(calls) : calls[s] = Setup!Idle
    BY DEF Setup!FreeForLoad
  <1> QED BY <1>1, <1>2 DEF Setup!Rendered

LEMMA SetupRenderedCalls ==
  ASSUME NEW calls \in [Slots -> SetupTask], NEW n, NEW loading, NEW smooth
  PROVE  /\ SetupCalls(calls, n, loading, smooth)
              => SetupCalls(Setup!Rendered(calls), n, loading, smooth)
         /\ \A s \in Slots : calls[s].at = "saved" => Setup!Rendered(calls)[s].at = "saved"
  BY SetupRenders, SetupLoadIsGood DEF SetupCalls, SetupGood, SetupHandling

LEMMA SetupHandlerType ==
  ASSUME SetupTyped, NEW s \in Slots
  PROVE  /\ task[s].at = "loading" => task[s] \in SetupLoad
         /\ task[s].at \in {"saving", "saved"} => task[s] \in SetupSave
         /\ task[s].at \in {"activating", "activated", "refused"} => task[s] \in SetupActivate
  <1>1. task[s] \in SetupTask
    BY DEF SetupTyped
  <1> QED BY <1>1, SetupLoadIsGood DEF SetupTask, SetupLoad, SetupSave, SetupActivate

LEMMA SetupStarts == ASSUME Setup!Init PROVE SetupInv
  <1>1. PICK v \in 0 .. MaxVaults, n \in 0 .. 1, status \in {"paused", "revoked"} :
          tables = [status |-> status, vaults |-> v, strategies |-> n, link |-> None]
    BY DEF Setup!Init
  <1>2. n \in 0 .. MaxStrategies
    BY AgentAssumption
  <1>3. tables \in SetupTables
    BY <1>1, <1>2 DEF SetupTables
  <1>4. view = [page |-> "setup", step |-> "funds", agent |-> FALSE, vaults |-> 0, selected |-> 0,
                strategies |-> 0, loading |-> FALSE, error |-> FALSE, left |-> FALSE]
    BY DEF Setup!Init
  <1>5. 0 \in 0 .. MaxVaults /\ 0 \in 0 .. MaxStrategies /\ 0 \in 0 .. MaxFaults
    BY AgentAssumption
  <1>6. view \in SetupView
    BY <1>4, <1>5 DEF SetupView
  <1>7. \A s \in Slots : task[s] \in {Setup!Load, Setup!Idle}
    BY DEF Setup!Init, Setup!OnlyOneCall, Setup!Alone
  <1>8. task \in [Slots -> SetupTask]
    BY <1>7, SetupLoadIsGood DEF Setup!Init, Setup!OnlyOneCall, Setup!Alone, SetupTask
  <1>9. SetupTyped
    BY <1>3, <1>5, <1>6, <1>8 DEF SetupTyped, Setup!Init
  <1>10. SetupCalls(task, tables.strategies, view.loading, SetupSmooth)
    BY <1>7, SetupLoadIsGood DEF SetupCalls, SetupGood, SetupHandling
  <1> QED BY <1>4, <1>9, <1>10 DEF SetupInv, SetupNoticed, SetupSteps

\* A call goes on; the page and its trouble stay as they are.
LEMMA SetupGoesOn ==
  ASSUME SetupInv, NEW s \in Slots, NEW t \in SetupTask, task' = [task EXCEPT ![s] = t],
         tables' \in SetupTables, UNCHANGED <<view, faults, past>>,
         tables'.strategies = tables.strategies, task[s].at # "saved",
         SetupGood(t, s, tables.strategies, view.loading, SetupSmooth)
  PROVE  SetupInv'
  <1>0. task \in [Slots -> SetupTask]
    BY DEF SetupInv, SetupTyped
  <1>1. task' \in [Slots -> SetupTask] /\ \A r \in Slots : task'[r] = IF r = s THEN t ELSE task[r]
    BY <1>0
  <1>2. SetupTyped' /\ SetupSmooth' = SetupSmooth
    BY <1>1 DEF SetupInv, SetupTyped, SetupSmooth
  <1>3. SetupCalls(task', tables'.strategies, view'.loading, SetupSmooth')
    BY <1>1, <1>2 DEF SetupInv, SetupCalls
  <1>4. \A r \in Slots : task[r].at = "saved" => task'[r].at = "saved"
    BY <1>1
  <1>5. SetupNoticed(task', view', tables'.strategies, SetupSmooth')
    BY <1>2, <1>4 DEF SetupInv, SetupNoticed
  <1> QED BY <1>2, <1>3, <1>5 DEF SetupInv, SetupSteps

LEMMA SetupLoadGoesOn ==
  ASSUME SetupInv, NEW s \in Slots, Setup!ReadVaults(s) \/ Setup!ReadStrategies(s)
  PROVE  SetupInv'
  <1>1. /\ task[s] \in SetupLoad /\ task[s].at = "loading" /\ UNCHANGED <<tables, view, faults, past>>
        /\ tables \in SetupTables
    BY SetupHandlerType DEF Setup!ReadVaults, Setup!ReadStrategies, Setup!At, SetupInv,
       SetupTyped
  <1>2. tables.vaults \in 0 .. MaxVaults /\ tables.strategies \in 0 .. MaxStrategies
    BY <1>1 DEF SetupTables
  <1>3. SetupGood(task[s], s, tables.strategies, view.loading, SetupSmooth)
    BY DEF SetupInv, SetupCalls
  <1>4. CASE Setup!ReadVaults(s)
    <2> DEFINE t == [task[s] EXCEPT !.vaults = tables.vaults]
    <2>1. t \in SetupLoad /\ t.at = "loading" /\ t.strategies = task[s].strategies
      BY <1>1, <1>2 DEF SetupLoad
    <2>2. task' = [task EXCEPT ![s] = t]
      BY <1>4 DEF Setup!ReadVaults, SetupInv, SetupTyped
    <2> HIDE DEF t
    <2>3. SetupGood(t, s, tables.strategies, view.loading, SetupSmooth)
      BY <1>1, <1>3, <2>1 DEF SetupGood, SetupHandling
    <2>4. t \in SetupTask
      BY <2>1 DEF SetupTask
    <2> QED BY <1>1, <2>2, <2>3, <2>4, SetupGoesOn
  <1>5. CASE Setup!ReadStrategies(s)
    <2> DEFINE t == [task[s] EXCEPT !.strategies = tables.strategies]
    <2>1. t \in SetupLoad /\ t.at = "loading" /\ t.strategies = tables.strategies
      BY <1>1, <1>2 DEF SetupLoad
    <2>2. task' = [task EXCEPT ![s] = t]
      BY <1>5 DEF Setup!ReadStrategies, SetupInv, SetupTyped
    <2> HIDE DEF t
    <2>3. tables.strategies <= tables.strategies
      BY <1>2
    <2>4. SetupGood(t, s, tables.strategies, view.loading, SetupSmooth)
      BY <2>1, <2>3 DEF SetupGood, SetupHandling
    <2>5. t \in SetupTask
      BY <2>1 DEF SetupTask
    <2> QED BY <1>1, <2>2, <2>4, <2>5, SetupGoesOn
  <1> QED BY <1>4, <1>5

\* A call ends and the page renders, or does not; the tables stay.
LEMMA SetupEnds ==
  ASSUME SetupInv, NEW s \in Slots, NEW calls, calls = [task EXCEPT ![s] = Setup!Idle],
         task' = Setup!Rendered(calls) \/ task' = calls, UNCHANGED tables,
         view' \in SetupView, past' \in [wentBack : BOOLEAN], faults' \in 0 .. MaxFaults,
         SetupSmooth' => SetupSmooth,
         view'.loading = view.loading \/ SetupHandling(task[s]),
         SetupSteps(view', tables.strategies),
         SetupSmooth' /\ view'.agent /\ tables.strategies > 0 => view'.step = "activate"
  PROVE  SetupInv'
  <1>1. task \in [Slots -> SetupTask] /\ Setup!Idle \in SetupTask
    BY DEF SetupInv, SetupTyped, SetupTask
  <1>2. /\ calls \in [Slots -> SetupTask]
        /\ \A r \in Slots : calls[r] = IF r = s THEN Setup!Idle ELSE task[r]
    BY <1>1
  <1>3. SetupCalls(calls, tables.strategies, view'.loading, SetupSmooth')
    <2> SUFFICES ASSUME NEW r \in Slots
                 PROVE  SetupGood(calls[r], r, tables.strategies, view'.loading, SetupSmooth')
      BY DEF SetupCalls
    <2>1. CASE r = s
      BY <1>2, <2>1, SetupLoadIsGood DEF SetupGood, SetupHandling
    <2>2. CASE r # s
      <3>1. /\ calls[r] = task[r]
            /\ SetupGood(task[r], r, tables.strategies, view.loading, SetupSmooth)
            /\ SetupGood(task[s], s, tables.strategies, view.loading, SetupSmooth)
        BY <1>2, <2>2 DEF SetupInv, SetupCalls
      <3> QED BY <2>2, <3>1 DEF SetupGood
    <2> QED BY <2>1, <2>2
  <1>4. /\ task' \in [Slots -> SetupTask]
        /\ SetupCalls(task', tables.strategies, view'.loading, SetupSmooth')
    <2>1. CASE task' = calls
      BY <1>2, <1>3, <2>1
    <2>2. CASE task' = Setup!Rendered(calls)
      <3>1. Setup!Rendered(calls) \in [Slots -> SetupTask]
        BY <1>2, SetupRenders
      <3>2. SetupCalls(Setup!Rendered(calls), tables.strategies, view'.loading, SetupSmooth')
        BY <1>2, <1>3, SetupRenderedCalls
      <3> QED BY <2>2, <3>1, <3>2
    <2> QED BY <2>1, <2>2
  <1>5. SetupTyped'
    BY <1>4 DEF SetupInv, SetupTyped
  <1>6. SetupNoticed(task', view', tables'.strategies, SetupSmooth')
    BY DEF SetupNoticed
  <1> QED BY <1>4, <1>5, <1>6 DEF SetupInv

LEMMA SetupLoadEnds ==
  ASSUME SetupInv, NEW s \in Slots, Setup!Loaded(s)
  PROVE  SetupInv'
  <1>0. /\ tables \in SetupTables /\ view \in SetupView /\ past \in [wentBack : BOOLEAN]
        /\ task[s] \in SetupLoad /\ task[s].vaults # None /\ task[s].strategies # None
        /\ faults \in 0 .. MaxFaults
    BY SetupHandlerType DEF SetupInv, SetupTyped, Setup!Loaded, Setup!At
  <1> DEFINE vaults == task[s].vaults
             n == task[s].strategies
             step == Setup!StepAfterLoad(s)
             selected == IF vaults > 0 THEN vaults ELSE view.selected
  <1>1. /\ vaults \in 0 .. MaxVaults /\ n \in 0 .. MaxStrategies
        /\ n <= tables.strategies /\ tables.strategies \in 0 .. MaxStrategies
    <2>1. SetupGood(task[s], s, tables.strategies, view.loading, SetupSmooth) /\ task[s].at = "loading"
      BY <1>0 DEF SetupInv, SetupCalls, SetupLoad
    <2> QED BY <1>0, <2>1 DEF SetupLoad, SetupTables, SetupGood
  <1>2. step = IF n > 0 THEN "activate" ELSE IF vaults > 0 THEN "strategy" ELSE view.step
    BY DEF Setup!StepAfterLoad
  <1>3. /\ view' = [view EXCEPT !.agent = TRUE, !.vaults = vaults, !.strategies = n, !.step = step,
                                !.selected = selected]
        /\ task' = Setup!Rendered([task EXCEPT ![s] = Setup!Idle])
        /\ past' = [past EXCEPT !.wentBack = past.wentBack \/ n < tables.strategies]
        /\ UNCHANGED <<tables, faults>>
    BY DEF Setup!Loaded
  <1>4. selected = IF vaults > 0 THEN vaults ELSE view.selected
    OBVIOUS
  <1> HIDE DEF vaults, n, step, selected
  <1>5. /\ view.step \in {"funds", "strategy", "activate"} /\ view.selected \in 0 .. MaxVaults
        /\ view.loading \in BOOLEAN
    BY <1>0 DEF SetupView
  <1>6. step \in {"funds", "strategy", "activate"} /\ selected \in 0 .. MaxVaults
    BY <1>1, <1>2, <1>4, <1>5
  <1>7. /\ view' \in SetupView /\ view'.step = step /\ view'.vaults = vaults
        /\ view'.selected = selected /\ view'.loading = view.loading
    BY <1>0, <1>1, <1>3, <1>6 DEF SetupView
  <1>8. past' \in [wentBack : BOOLEAN] /\ (~past'.wentBack => ~past.wentBack /\ ~(n < tables.strategies))
    <2> DEFINE b == past.wentBack \/ n < tables.strategies
    <2>1. b \in BOOLEAN /\ (~b => ~past.wentBack /\ ~(n < tables.strategies))
      BY <1>0
    <2>2. past' = [past EXCEPT !.wentBack = b]
      BY <1>3
    <2> HIDE DEF b
    <2>3. past' \in [wentBack : BOOLEAN] /\ past'.wentBack = b
      BY <1>0, <2>1, <2>2
    <2> QED BY <2>1, <2>3
  <1>9. SetupSteps(view', tables.strategies)
    <2>1. step = "activate" => tables.strategies > 0
      <3>1. view.step = "activate" => tables.strategies > 0
        BY DEF SetupInv, SetupSteps
      <3> QED BY <1>1, <1>2, <3>1
    <2>2. step = "funds" => vaults = 0 /\ selected = 0
      <3>1. view.step = "funds" => view.selected = 0
        BY DEF SetupInv, SetupSteps
      <3> QED BY <1>1, <1>2, <1>4, <3>1
    <2> QED BY <1>7, <2>1, <2>2 DEF SetupSteps
  <1>10. SetupSmooth' => SetupSmooth /\ (tables.strategies > 0 => step = "activate")
    BY <1>1, <1>2, <1>3, <1>8 DEF SetupSmooth
  <1> QED BY <1>0, <1>3, <1>7, <1>8, <1>9, <1>10, SetupEnds

\* A click, and the load of the render that it causes.
LEMMA SetupBegins ==
  ASSUME SetupInv, NEW t \in SetupTask, Setup!Begins(t), ~view.loading,
         SetupGood(t, Setup!Handler, tables.strategies, TRUE, SetupSmooth)
  PROVE  SetupInv'
  <1> DEFINE calls == [task EXCEPT ![Setup!Handler] = t]
  <1>0. /\ task \in [Slots -> SetupTask] /\ view \in SetupView
        /\ task' = Setup!Rendered(calls) /\ UNCHANGED <<tables, faults, past>>
        /\ view' = [view EXCEPT !.loading = TRUE, !.error = FALSE]
    BY DEF SetupInv, SetupTyped, Setup!Begins
  <1>1. /\ calls \in [Slots -> SetupTask]
        /\ \A s \in Slots : calls[s] = IF s = Setup!Handler THEN t ELSE task[s]
    BY <1>0
  <1> HIDE DEF calls
  <1>2. \A s \in Slots : SetupGood(task[s], s, tables.strategies, view.loading, SetupSmooth)
    BY DEF SetupInv, SetupCalls
  <1>3. \A s \in Slots : ~SetupHandling(task[s])
    BY <1>2 DEF SetupGood
  <1>4. /\ view' \in SetupView /\ view'.loading = TRUE
        /\ view'.step = view.step /\ view'.agent = view.agent
        /\ view'.vaults = view.vaults /\ view'.selected = view.selected
    BY <1>0 DEF SetupView
  <1>5. SetupSmooth' = SetupSmooth
    BY <1>0 DEF SetupSmooth
  <1>6. SetupCalls(calls, tables.strategies, TRUE, SetupSmooth)
    BY <1>1, <1>2, <1>3 DEF SetupCalls, SetupGood
  <1>7. /\ task' \in [Slots -> SetupTask]
        /\ SetupCalls(task', tables'.strategies, view'.loading, SetupSmooth')
    BY <1>0, <1>1, <1>4, <1>5, <1>6, SetupRenders, SetupRenderedCalls
  <1>8. SetupTyped'
    BY <1>0, <1>4, <1>7 DEF SetupInv, SetupTyped
  <1>9. \A s \in Slots : task[s].at # "saved"
    BY <1>3 DEF SetupHandling
  <1>10. SetupNoticed(task', view', tables'.strategies, SetupSmooth')
    BY <1>0, <1>4, <1>5, <1>9 DEF SetupInv, SetupNoticed
  <1>11. SetupSteps(view', tables'.strategies)
    BY <1>0, <1>4 DEF SetupInv, SetupSteps
  <1> QED BY <1>7, <1>8, <1>10, <1>11 DEF SetupInv

LEMMA SetupSaveServed ==
  ASSUME SetupInv, NEW s \in Slots, Setup!SaveServed(s)
  PROVE  /\ SetupInv'
         /\ SetupSmooth => tables.strategies = 0
  <1>0. /\ tables \in SetupTables /\ view \in SetupView /\ task \in [Slots -> SetupTask]
        /\ task[s] \in SetupSave /\ task[s].at = "saving"
        /\ UNCHANGED <<view, faults, past>>
    BY SetupHandlerType DEF SetupInv, SetupTyped, Setup!SaveServed, Setup!At
  <1>1. \A r \in Slots : SetupGood(task[r], r, tables.strategies, view.loading, SetupSmooth)
    BY DEF SetupInv, SetupCalls
  <1> DEFINE n == tables.strategies
             m == tables.strategies + 1
  <1>2. /\ n \in 0 .. MaxStrategies /\ n < MaxStrategies /\ (SetupSmooth => n = 0)
        /\ s = Setup!Handler /\ view.loading
    BY <1>0, <1>1 DEF SetupGood, SetupHandling, SetupTables
  <1>3. MaxStrategies \in Nat
    BY AgentAssumption
  <1>4. m \in 0 .. MaxStrategies /\ m > 0 /\ \A i \in 0 .. MaxStrategies : i <= n => i <= m
    BY <1>2, <1>3
  <1>5. tables' = [tables EXCEPT !.strategies = m]
    BY DEF Setup!SaveServed
  <1>6. task' = [task EXCEPT ![s] = [task[s] EXCEPT !.at = "saved"]]
    BY <1>0 DEF Setup!SaveServed, Setup!Goto
  <1> HIDE DEF m
  <1>7. tables' \in SetupTables /\ tables'.strategies = m
    BY <1>0, <1>4, <1>5 DEF SetupTables
  <1>8. /\ task' \in [Slots -> SetupTask] /\ task'[s].at = "saved"
        /\ \A r \in Slots \ {s} : task'[r] = task[r]
    <2> DEFINE t == [task[s] EXCEPT !.at = "saved"]
    <2>1. t \in SetupSave /\ t.at = "saved"
      BY <1>0 DEF SetupSave
    <2>2. t \in SetupTask
      BY <2>1 DEF SetupTask
    <2> HIDE DEF t
    <2> QED BY <1>0, <1>6, <2>1, <2>2 DEF t
  <1>9. SetupSmooth' = SetupSmooth
    BY <1>0 DEF SetupSmooth
  <1>10. SetupCalls(task', m, view'.loading, SetupSmooth')
    <2> SUFFICES ASSUME NEW r \in Slots
                 PROVE  SetupGood(task'[r], r, m, view'.loading, SetupSmooth')
      BY DEF SetupCalls
    <2>1. CASE r = s
      BY <1>0, <1>2, <1>4, <1>8, <2>1 DEF SetupGood, SetupHandling
    <2>2. CASE r # s
      <3>1. ~SetupHandling(task[r]) /\ task'[r] = task[r]
        BY <1>1, <1>2, <1>8, <2>2 DEF SetupGood
      <3>2. task[r].at = "loading" => task[r].strategies \in (0 .. MaxStrategies) \cup {None}
        BY SetupHandlerType DEF SetupInv, SetupLoad
      <3>3. task[r].at = "loading" => task[r].strategies = None \/ task[r].strategies <= m
        BY <1>1, <1>4, <3>2 DEF SetupGood
      <3> QED BY <3>1, <3>3 DEF SetupGood, SetupHandling
    <2> QED BY <2>1, <2>2
  <1>11. SetupTyped'
    BY <1>0, <1>7, <1>8 DEF SetupInv, SetupTyped
  <1>12. SetupNoticed(task', view', m, SetupSmooth')
    BY <1>8 DEF SetupNoticed
  <1>13. SetupSteps(view', m)
    BY <1>0, <1>4 DEF SetupInv, SetupSteps
  <1> QED BY <1>2, <1>7, <1>10, <1>11, <1>12, <1>13 DEF SetupInv

\* The handlers that end: a save or an activation, answered or refused.
LEMMA SetupHandlerEnds ==
  ASSUME SetupInv, NEW s \in Slots, SetupHandling(task[s]), NEW v,
         view' = v, v \in SetupView, task' = Setup!Rendered([task EXCEPT ![s] = Setup!Idle]),
         UNCHANGED <<tables, past>>, faults' \in 0 .. MaxFaults, faults' = faults \/ faults' # 0,
         v.agent = view.agent, v.vaults = view.vaults, v.selected = view.selected,
         v.step = view.step \/ (v.step = "activate" /\ tables.strategies > 0),
         faults' = faults /\ task[s].at = "saved" => v.step = "activate"
  PROVE  SetupInv'
  <1>0. past' \in [wentBack : BOOLEAN]
    BY DEF SetupInv, SetupTyped
  <1>1. SetupSmooth' => SetupSmooth /\ faults' = faults
    BY DEF SetupSmooth
  <1>2. SetupSteps(v, tables.strategies)
    BY DEF SetupInv, SetupSteps
  <1>3. \A r \in Slots : task[r].at = "saved" => r = s
    BY DEF SetupInv, SetupCalls, SetupGood, SetupHandling
  <1>4. SetupSmooth' /\ v.agent /\ tables.strategies > 0 => v.step = "activate"
    <2>1. SetupSmooth' /\ v.agent /\ tables.strategies > 0
             => view.step = "activate" \/ \E r \in Slots : task[r].at = "saved"
      BY <1>1 DEF SetupInv, SetupNoticed
    <2> QED BY <1>1, <1>3, <2>1
  <1> DEFINE calls == [task EXCEPT ![s] = Setup!Idle]
  <1>5. task' = Setup!Rendered(calls)
    OBVIOUS
  <1>6. calls = [task EXCEPT ![s] = Setup!Idle]
    OBVIOUS
  <1> HIDE DEF calls
  <1> QED BY <1>0, <1>1, <1>2, <1>4, <1>5, <1>6, SetupEnds

LEMMA SetupFailed ==
  ASSUME view \in SetupView
  PROVE  /\ Setup!Failed(view) \in SetupView
         /\ Setup!Failed(view).agent = view.agent /\ Setup!Failed(view).vaults = view.vaults
         /\ Setup!Failed(view).selected = view.selected /\ Setup!Failed(view).step = view.step
  BY DEF Setup!Failed, SetupView

LEMMA SetupMoves == ASSUME SetupInv, [Setup!Next]_vars PROVE SetupInv'
  <1>0. /\ tables \in SetupTables /\ view \in SetupView /\ task \in [Slots -> SetupTask]
        /\ past \in [wentBack : BOOLEAN] /\ faults \in 0 .. MaxFaults
    BY DEF SetupInv, SetupTyped
  <1>1. ASSUME NEW s \in Slots, Setup!LoadFails(s) PROVE SetupInv'
    <2> DEFINE calls == [task EXCEPT ![s] = Setup!Idle]
    <2>1. /\ task' = Setup!Rendered(calls) \/ task' = calls
          /\ view' = [view EXCEPT !.error = TRUE] /\ UNCHANGED <<tables, past>>
          /\ faults < MaxFaults /\ faults' = faults + 1
      BY <1>1 DEF Setup!LoadFails, Setup!Fault
    <2>2. MaxFaults \in Nat /\ calls = [task EXCEPT ![s] = Setup!Idle]
      BY AgentAssumption
    <2> HIDE DEF calls
    <2>3. faults' \in 0 .. MaxFaults /\ faults' # 0
      BY <1>0, <2>1, <2>2
    <2>4. /\ view' \in SetupView /\ view'.loading = view.loading /\ view'.step = view.step
          /\ view'.vaults = view.vaults /\ view'.selected = view.selected
      BY <1>0, <2>1 DEF SetupView
    <2>5. ~SetupSmooth' /\ SetupSteps(view', tables.strategies)
      BY <2>3, <2>4 DEF SetupInv, SetupSteps, SetupSmooth
    <2> QED BY <1>0, <2>1, <2>2, <2>3, <2>4, <2>5, SetupEnds
  <1>2. ASSUME Setup!Continue PROVE SetupInv'
    <2>1. /\ view.step = "funds" /\ view' = [view EXCEPT !.step = "strategy"]
          /\ task' = Setup!Rendered(task) /\ UNCHANGED <<tables, faults, past>>
      BY <1>2 DEF Setup!Continue
    <2>2. /\ view' \in SetupView /\ view'.loading = view.loading /\ view'.step = "strategy"
          /\ view'.agent = view.agent
      BY <1>0, <2>1 DEF SetupView
    <2>3. SetupSmooth' = SetupSmooth
      BY <2>1 DEF SetupSmooth
    <2>4. /\ task' \in [Slots -> SetupTask]
          /\ SetupCalls(task', tables'.strategies, view'.loading, SetupSmooth')
          /\ \A s \in Slots : task[s].at = "saved" => task'[s].at = "saved"
      BY <1>0, <2>1, <2>2, <2>3, SetupRenders, SetupRenderedCalls DEF SetupInv
    <2>5. SetupNoticed(task', view', tables'.strategies, SetupSmooth')
      BY <2>1, <2>2, <2>3, <2>4 DEF SetupInv, SetupNoticed
    <2>6. SetupTyped' /\ SetupSteps(view', tables'.strategies)
      BY <1>0, <2>1, <2>2, <2>4 DEF SetupTyped, SetupSteps
    <2> QED BY <2>4, <2>5, <2>6 DEF SetupInv
  <1>3. ASSUME Setup!SaveStrategy PROVE SetupInv'
    <2> DEFINE t == [at |-> "saving"]
    <2>1. /\ Setup!Begins(t) /\ ~view.loading /\ view.agent /\ view.step = "strategy"
          /\ tables.strategies < MaxStrategies
      BY <1>3 DEF Setup!SaveStrategy, Setup!Shown
    <2>2. t \in SetupSave /\ t.at = "saving"
      BY DEF SetupSave
    <2> HIDE DEF t
    <2>3. t \in SetupTask
      BY <2>2 DEF SetupTask
    <2>4. \A s \in Slots : task[s].at # "saved"
      BY <2>1 DEF SetupInv, SetupCalls, SetupGood, SetupHandling
    <2>5. SetupSmooth => ~(tables.strategies > 0)
      BY <2>1, <2>4 DEF SetupInv, SetupNoticed
    <2>6. tables.strategies \in 0 .. MaxStrategies /\ MaxStrategies \in Nat
      BY <1>0, AgentAssumption DEF SetupTables
    <2>7. SetupSmooth => tables.strategies = 0
      BY <2>5, <2>6
    <2>8. SetupGood(t, Setup!Handler, tables.strategies, TRUE, SetupSmooth)
      BY <2>1, <2>2, <2>7 DEF SetupGood
    <2> QED BY <2>1, <2>3, <2>8, SetupBegins
  <1>4. ASSUME Setup!Activate PROVE SetupInv'
    <2> DEFINE t == [at |-> "activating", vault |-> view.selected]
    <2>1. Setup!Begins(t) /\ ~view.loading
      BY <1>4 DEF Setup!Activate
    <2>2. t \in SetupActivate /\ t.at = "activating"
      BY <1>0 DEF SetupActivate, SetupView
    <2> HIDE DEF t
    <2>3. t \in SetupTask
      BY <2>2 DEF SetupTask
    <2>4. SetupGood(t, Setup!Handler, tables.strategies, TRUE, SetupSmooth)
      BY <2>2 DEF SetupGood
    <2> QED BY <2>1, <2>3, <2>4, SetupBegins
  <1>5. ASSUME NEW s \in Slots, Setup!SaveAnswered(s) PROVE SetupInv'
    <2> DEFINE v == [view EXCEPT !.strategies = 1, !.step = "activate", !.loading = FALSE]
    <2>1. /\ task[s].at = "saved" /\ view' = v /\ UNCHANGED <<tables, faults, past>>
          /\ task' = Setup!Rendered([task EXCEPT ![s] = Setup!Idle])
      BY <1>5 DEF Setup!SaveAnswered, Setup!At
    <2>2. 1 \in 0 .. MaxStrategies
      BY AgentAssumption
    <2>3. /\ v \in SetupView /\ v.agent = view.agent /\ v.vaults = view.vaults
          /\ v.selected = view.selected /\ v.step = "activate"
      BY <1>0, <2>2 DEF SetupView
    <2>4. tables.strategies > 0 /\ SetupHandling(task[s])
      BY <2>1 DEF SetupInv, SetupCalls, SetupGood, SetupHandling
    <2> HIDE DEF v
    <2> QED BY <1>0, <2>1, <2>3, <2>4, SetupHandlerEnds
  <1>6. ASSUME NEW s \in Slots, Setup!ActivateServed(s) PROVE SetupInv'
    <2>1. /\ task[s] \in SetupActivate /\ task[s].at = "activating"
          /\ UNCHANGED <<view, faults, past>>
      BY <1>6, SetupHandlerType DEF Setup!ActivateServed, Setup!At, SetupInv
    <2>2. PICK link \in {task[s].vault, tables.link}, status \in {tables.status, "active"},
               at \in {"refused", "activated"} :
            /\ link = task[s].vault => task[s].vault > 0 \/ link = tables.link
            /\ tables' = [tables EXCEPT !.link = link, !.status = status]
            /\ task' = [task EXCEPT ![s] = [task[s] EXCEPT !.at = at]]
      BY <1>0, <1>6 DEF Setup!ActivateServed, Setup!Goto
    <2>3. link \in (1 .. MaxVaults) \cup {None}
      BY <1>0, <2>1, <2>2, AgentAssumption DEF SetupActivate, SetupTables
    <2>4. tables' \in SetupTables /\ tables'.strategies = tables.strategies
      BY <1>0, <2>2, <2>3 DEF SetupTables
    <2> DEFINE t == [task[s] EXCEPT !.at = at]
    <2>5. t \in SetupActivate /\ t.at \in {"refused", "activated"}
      BY <2>1 DEF SetupActivate
    <2>6. task' = [task EXCEPT ![s] = t]
      BY <2>2
    <2> HIDE DEF t
    <2>7. t \in SetupTask
      BY <2>5 DEF SetupTask
    <2>8. SetupGood(t, s, tables.strategies, view.loading, SetupSmooth)
      BY <2>1, <2>5 DEF SetupInv, SetupCalls, SetupGood, SetupHandling
    <2> QED BY <2>1, <2>4, <2>6, <2>7, <2>8, SetupGoesOn
  <1>7. ASSUME NEW s \in Slots, Setup!ActivateAnswered(s) PROVE SetupInv'
    <2>1. /\ task[s].at = "activated" /\ view' = [view EXCEPT !.left = TRUE, !.loading = FALSE]
          /\ task' = [r \in Slots |-> Setup!Idle] /\ UNCHANGED <<tables, faults, past>>
      BY <1>7 DEF Setup!ActivateAnswered, Setup!At
    <2>2. /\ view' \in SetupView /\ view'.agent = view.agent /\ view'.step = view.step
          /\ view'.vaults = view.vaults /\ view'.selected = view.selected
      BY <1>0, <2>1 DEF SetupView
    <2>3. SetupSmooth' = SetupSmooth
      BY <2>1 DEF SetupSmooth
    <2>4. \A r \in Slots : task[r].at # "saved"
      BY <2>1 DEF SetupInv, SetupCalls, SetupGood, SetupHandling
    <2>5. SetupNoticed(task', view', tables'.strategies, SetupSmooth')
      BY <2>1, <2>2, <2>3, <2>4 DEF SetupInv, SetupNoticed
    <2>6. SetupCalls(task', tables'.strategies, view'.loading, SetupSmooth')
      BY <2>1, SetupLoadIsGood DEF SetupCalls, SetupGood, SetupHandling
    <2>7. SetupTyped'
      BY <1>0, <2>1, <2>2 DEF SetupTyped, SetupTask
    <2>8. SetupSteps(view', tables'.strategies)
      BY <2>1, <2>2 DEF SetupInv, SetupSteps
    <2> QED BY <2>5, <2>6, <2>7, <2>8 DEF SetupInv
  <1>8. ASSUME NEW s \in Slots, Setup!Refused(s) PROVE SetupInv'
    <2> DEFINE v == Setup!Failed(view)
    <2>1. /\ task[s].at \in {"refused", "activating"} /\ view' = v
          /\ task' = Setup!Rendered([task EXCEPT ![s] = Setup!Idle])
          /\ UNCHANGED <<tables, faults, past>>
      BY <1>8 DEF Setup!Refused, Setup!At
    <2>2. SetupHandling(task[s]) /\ task[s].at # "saved"
      BY <2>1 DEF SetupHandling
    <2>3. /\ v \in SetupView /\ v.agent = view.agent /\ v.vaults = view.vaults
          /\ v.selected = view.selected /\ v.step = view.step
      BY <1>0, SetupFailed
    <2> HIDE DEF v
    <2> QED BY <1>0, <2>1, <2>2, <2>3, SetupHandlerEnds
  <1>9. ASSUME NEW s \in Slots, Setup!RequestFails(s) PROVE SetupInv'
    <2> DEFINE v == Setup!Failed(view)
    <2>1. /\ task[s].at \in {"saving", "saved", "activating", "activated"}
          /\ view' = v /\ faults < MaxFaults /\ faults' = faults + 1
          /\ task' = Setup!Rendered([task EXCEPT ![s] = Setup!Idle])
          /\ UNCHANGED <<tables, past>>
      BY <1>9 DEF Setup!RequestFails, Setup!Fault
    <2>2. SetupHandling(task[s]) /\ MaxFaults \in Nat
      BY <2>1, AgentAssumption DEF SetupHandling
    <2>3. faults' \in 0 .. MaxFaults /\ faults' # 0 /\ faults' # faults
      BY <1>0, <2>1, <2>2
    <2>4. /\ v \in SetupView /\ v.agent = view.agent /\ v.vaults = view.vaults
          /\ v.selected = view.selected /\ v.step = view.step
      BY <1>0, SetupFailed
    <2> HIDE DEF v
    <2> QED BY <2>1, <2>2, <2>3, <2>4, SetupHandlerEnds
  <1>10. ASSUME Setup!VaultCreatedElsewhere PROVE SetupInv'
    <2>1. /\ tables.vaults < MaxVaults /\ tables' = [tables EXCEPT !.vaults = tables.vaults + 1]
          /\ UNCHANGED <<view, task, faults, past>>
      BY <1>10 DEF Setup!VaultCreatedElsewhere
    <2>2. tables.vaults + 1 \in 0 .. MaxVaults
      BY <1>0, <2>1, AgentAssumption DEF SetupTables
    <2>3. tables' \in SetupTables /\ tables'.strategies = tables.strategies
      BY <1>0, <2>1, <2>2 DEF SetupTables
    <2> QED BY <2>1, <2>3 DEF SetupInv, SetupTyped, SetupCalls, SetupNoticed, SetupSteps,
               SetupSmooth
  <1>11. CASE UNCHANGED vars
    BY <1>11 DEF vars, SetupInv, SetupTyped, SetupCalls, SetupNoticed, SetupSteps,
       SetupSmooth
  <1> QED
    BY <1>1, <1>2, <1>3, <1>4, <1>5, <1>6, <1>7, <1>8, <1>9, <1>10, <1>11,
       SetupLoadGoesOn, SetupLoadEnds, SetupSaveServed DEF Setup!Next, Setup!Progress

LEMMA SetupPromises ==
  ASSUME SetupInv
  PROVE  Setup!Here /\ Setup!TypeOK /\ Setup!StepsAreBacked
  <1>1. Setup!Here
    BY DEF SetupInv, SetupTyped, SetupView, Setup!Here
  <1>2. Setup!TypeOK
    BY DEF SetupInv, SetupTyped, SetupView, SetupTables, SetupTask, SetupLoad, SetupSave,
           SetupActivate, Setup!TypeOK
  <1>3. Setup!StepsAreBacked
    BY DEF SetupInv, SetupSteps, Setup!StepsAreBacked
  <1> QED BY <1>1, <1>2, <1>3

\* Only a served save makes a strategy.
LEMMA SetupExplainsStrategies ==
  ASSUME SetupInv, [Setup!Next]_vars
  PROVE  Setup!SecondStrategyIsExplained
  <1>0. tables.strategies \in Nat /\ tables \in SetupTables /\ faults \in Nat
    BY AgentAssumption DEF SetupInv, SetupTyped, SetupTables
  <1>1. CASE tables'.strategies = tables.strategies
    BY <1>0, <1>1 DEF Setup!SecondStrategyIsExplained
  <1>2. ASSUME NEW s \in Slots, Setup!SaveServed(s) PROVE Setup!SecondStrategyIsExplained
    <2>1. SetupSmooth => tables.strategies = 0
      BY <1>2, SetupSaveServed
    <2> QED BY <1>0, <2>1 DEF SetupSmooth, Setup!SecondStrategyIsExplained
  <1>3. ASSUME NEW s \in Slots, Setup!ActivateServed(s)
        PROVE  tables'.strategies = tables.strategies
    BY <1>0, <1>3 DEF Setup!ActivateServed, SetupTables
  <1>4. ASSUME Setup!VaultCreatedElsewhere PROVE tables'.strategies = tables.strategies
    BY <1>0, <1>4 DEF Setup!VaultCreatedElsewhere, SetupTables
  <1>5. \/ tables' = tables \/ Setup!VaultCreatedElsewhere
        \/ \E s \in Slots : Setup!SaveServed(s) \/ Setup!ActivateServed(s)
    BY DEF Setup!Next, Setup!Progress, Setup!Continue, Setup!SaveStrategy, Setup!Activate,
           Setup!Begins, Setup!ReadVaults, Setup!ReadStrategies, Setup!Loaded, Setup!LoadFails,
           Setup!SaveAnswered, Setup!ActivateAnswered, Setup!Refused, Setup!RequestFails, vars
  <1> QED BY <1>1, <1>2, <1>3, <1>4, <1>5

-----------------------------------------------------------------------------
(* THE FORMS *)

FormsTask == {Forms!Idle} \cup [at : {"sent", "sent, page gone", "served"}]

FormsView ==
    [page : {"form"}, form : Forms!Forms, agents : BOOLEAN, complete : BOOLEAN,
     loading : BOOLEAN, error : BOOLEAN, answer : BOOLEAN, leaving : BOOLEAN]

FormsPast == [submits : 0 .. MaxSubmits, again : 0 .. MaxSubmits, left : Nat]

\* Requests that have still to be served, which may make a row each.
FormsUnserved(calls) == {s \in FewSlots : calls[s].at \in {"sent", "sent, page gone"}}

\* The next click begins a visit, or follows a failure.
FormsFresh(v) == ~v.loading /\ ~v.answer /\ ~v.leaving

\* A row is from a submit, and a submit is the first of its visit, or follows a
\* failure, or comes too late: under the dialog or on the way to the next page.
FormsCounts ==
    /\ tables.rows + Cardinality(FormsUnserved(task)) <= past.submits
    /\ past.again <= past.submits
    /\ past.submits + (IF FormsFresh(view) THEN 1 ELSE 0) <= 1 + faults + past.again + past.left

FormsInv ==
    /\ tables \in [rows : Nat] /\ view \in FormsView /\ past \in FormsPast
    /\ task \in [FewSlots -> FormsTask] /\ faults \in 0 .. MaxFaults
    /\ FormsCounts

LEMMA FormsStarts == ASSUME Forms!Init PROVE FormsInv
  <1>1. /\ tables = [rows |-> 0] /\ task = [s \in FewSlots |-> Forms!Idle] /\ faults = 0
        /\ past = [submits |-> 0, again |-> 0, left |-> 0]
    BY DEF Forms!Init
  <1>2. view \in FormsView
    BY DEF Forms!Init, FormsView
  <1>3. FormsUnserved(task) = {}
    BY <1>1 DEF FormsUnserved, Forms!Idle
  <1>4. Cardinality(FormsUnserved(task)) = 0
    BY <1>3, FS_EmptySet
  <1>5. FormsCounts
    BY <1>1, <1>4 DEF FormsCounts
  <1>6. faults \in 0 .. MaxFaults /\ past \in FormsPast
    BY <1>1, AgentAssumption DEF FormsPast
  <1> QED BY <1>1, <1>2, <1>5, <1>6 DEF FormsInv, FormsTask

\* A request is served, fails or is forgotten; or one is sent from an idle slot.
LEMMA FormsUnservedMoves ==
  ASSUME task \in [FewSlots -> FormsTask]
  PROVE  /\ IsFiniteSet(FormsUnserved(task)) /\ Cardinality(FormsUnserved(task)) \in Nat
         /\ \A S \in SUBSET FormsUnserved(task) : Cardinality(S) <= Cardinality(FormsUnserved(task))
         /\ \A s \in FormsUnserved(task) :
               Cardinality(FormsUnserved(task) \ {s}) = Cardinality(FormsUnserved(task)) - 1
         /\ \A s \in FewSlots \ FormsUnserved(task) :
               Cardinality(FormsUnserved(task) \cup {s}) = Cardinality(FormsUnserved(task)) + 1
  <1> DEFINE U == FormsUnserved(task)
  <1>1. IsFiniteSet(U)
    BY SomeSlotsAreFinite DEF FormsUnserved
  <1> HIDE DEF U
  <1>2. Cardinality(U) \in Nat
    BY <1>1, FS_CardinalityType
  <1>3. \A S \in SUBSET U : Cardinality(S) <= Cardinality(U)
    BY <1>1, FS_Subset
  <1>4. \A s \in U : Cardinality(U \ {s}) = Cardinality(U) - 1
    BY <1>1, FS_RemoveElement
  <1>5. \A s : s \notin U => Cardinality(U \cup {s}) = Cardinality(U) + 1
    BY <1>1, FS_AddElement
  <1> QED BY <1>1, <1>2, <1>3, <1>4, <1>5 DEF U

LEMMA FormsMoves == ASSUME FormsInv, [Forms!Next]_vars PROVE FormsInv'
  <1>0. /\ tables \in [rows : Nat] /\ view \in FormsView /\ past \in FormsPast
        /\ task \in [FewSlots -> FormsTask] /\ faults \in 0 .. MaxFaults /\ faults \in Nat
        /\ past.submits \in Nat /\ past.again \in Nat /\ past.left \in Nat
        /\ tables.rows \in Nat /\ MaxSubmits \in Nat /\ MaxFaults \in Nat
    BY AgentAssumption DEF FormsInv, FormsPast
  <1>f. /\ tables.rows + Cardinality(FormsUnserved(task)) <= past.submits
        /\ past.again <= past.submits
        /\ past.submits + (IF FormsFresh(view) THEN 1 ELSE 0) <= 1 + faults + past.again + past.left
    BY DEF FormsInv, FormsCounts
  <1>u. Cardinality(FormsUnserved(task)) \in Nat
    BY <1>0, FormsUnservedMoves
  <1>1. ASSUME UNCHANGED <<tables, task, faults, past>>, view' \in FormsView,
               FormsFresh(view') => FormsFresh(view)
        PROVE  FormsInv'
    <2>1. FormsUnserved(task') = FormsUnserved(task)
      BY <1>1
    <2>2. tables'.rows + Cardinality(FormsUnserved(task')) <= past'.submits
      BY <1>f, <1>1, <2>1
    <2>3. past'.submits + (IF FormsFresh(view') THEN 1 ELSE 0)
            <= 1 + faults' + past'.again + past'.left
      BY <1>0, <1>f, <1>1
    <2> QED BY <1>0, <1>f, <1>1, <2>2, <2>3 DEF FormsInv, FormsCounts
  <1>2. ASSUME Forms!Edit PROVE FormsInv'
    <2>1. view' \in FormsView /\ (FormsFresh(view') => FormsFresh(view))
      BY <1>0, <1>2 DEF Forms!Edit, FormsView, FormsFresh
    <2> QED BY <1>1, <1>2, <2>1 DEF Forms!Edit
  <1>3. ASSUME Forms!CloseModal PROVE FormsInv'
    <2>1. view' \in FormsView /\ ~FormsFresh(view')
      BY <1>0, <1>3 DEF Forms!CloseModal, FormsView, FormsFresh
    <2> QED BY <1>1, <1>3, <2>1 DEF Forms!CloseModal
  <1>4. ASSUME Forms!Submit PROVE FormsInv'
    <2>1. PICK s \in FewSlots : Forms!At(s, "idle") /\ task' = [task EXCEPT ![s] = [at |-> "sent"]]
      BY <1>4 DEF Forms!Submit, Forms!Call
    <2>2. /\ view' \in FormsView /\ ~FormsFresh(view') /\ UNCHANGED <<tables, faults>>
          /\ ~view.loading /\ past.submits < MaxSubmits
      BY <1>0, <1>4 DEF Forms!Submit, Forms!CanSubmit, FormsView, FormsFresh
    <2>3. /\ past'.submits = past.submits + 1 /\ past'.left = past.left
          /\ past'.again = IF view.answer \/ view.leaving THEN past.again + 1 ELSE past.again
      BY <1>0, <1>4 DEF Forms!Submit, FormsPast
    <2>4. past' = [submits |-> past'.submits, again |-> past'.again, left |-> past'.left]
      BY <1>0, <1>4 DEF Forms!Submit, FormsPast
    <2>5. task' \in [FewSlots -> FormsTask]
      BY <1>0, <2>1 DEF FormsTask
    <2>6. s \notin FormsUnserved(task) /\ FormsUnserved(task') = FormsUnserved(task) \cup {s}
      BY <1>0, <2>1 DEF FormsUnserved, Forms!At
    <2>7. Cardinality(FormsUnserved(task')) = Cardinality(FormsUnserved(task)) + 1
      BY <1>0, <2>6, FormsUnservedMoves
    <2>8. tables'.rows + Cardinality(FormsUnserved(task')) <= past'.submits
      BY <1>0, <1>f, <1>u, <2>2, <2>3, <2>7
    <2>9. past'.again <= past'.submits
      BY <1>0, <1>f, <2>3
    <2>10. past'.submits + 0 <= 1 + faults' + past'.again + past'.left
      <3>1. CASE view.answer \/ view.leaving
        <4>1. past.submits <= 1 + faults + past.again + past.left
          BY <1>0, <1>f
        <4> QED BY <1>0, <2>2, <2>3, <3>1, <4>1
      <3>2. CASE ~(view.answer \/ view.leaving)
        <4>1. past.submits + 1 <= 1 + faults + past.again + past.left
          BY <1>f, <2>2, <3>2 DEF FormsFresh
        <4> QED BY <1>0, <2>2, <2>3, <3>2, <4>1
      <3> QED BY <3>1, <3>2
    <2>11. past' \in FormsPast
      <3>1. /\ past'.submits \in 0 .. MaxSubmits /\ past'.again \in 0 .. MaxSubmits
            /\ past'.left \in Nat
        BY <1>0, <2>2, <2>3, <2>9
      <3> QED BY <2>4, <3>1 DEF FormsPast
    <2> QED BY <1>0, <2>2, <2>5, <2>8, <2>9, <2>10, <2>11 DEF FormsInv, FormsCounts
  <1>5. ASSUME NEW s \in FewSlots, Forms!Served(s) PROVE FormsInv'
    <2>1. /\ task[s].at \in {"sent", "sent, page gone"} /\ UNCHANGED <<view, faults, past>>
          /\ task' = [task EXCEPT ![s] = IF task[s].at = "sent" THEN [at |-> "served"]
                                                               ELSE Forms!Idle]
      BY <1>5 DEF Forms!Served
    <2>2. tables' \in [rows : Nat] /\ tables'.rows <= tables.rows + 1
      <3>1. PICK n \in {tables.rows, tables.rows + 1} : tables' = [tables EXCEPT !.rows = n]
        BY <1>5 DEF Forms!Served
      <3>2. n \in Nat /\ n <= tables.rows + 1
        BY <1>0, <3>1
      <3> QED BY <1>0, <3>1, <3>2
    <2>3. task' \in [FewSlots -> FormsTask]
      BY <1>0, <2>1 DEF FormsTask
    <2>4. s \in FormsUnserved(task) /\ FormsUnserved(task') = FormsUnserved(task) \ {s}
      BY <1>0, <2>1 DEF FormsUnserved, Forms!Idle
    <2>5. Cardinality(FormsUnserved(task')) = Cardinality(FormsUnserved(task)) - 1
      BY <1>0, <2>4, FormsUnservedMoves
    <2>6. tables'.rows + Cardinality(FormsUnserved(task')) <= past'.submits
      <3>1. tables'.rows \in Nat /\ past'.submits = past.submits
        BY <2>1, <2>2
      <3> QED BY <1>0, <1>f, <1>u, <2>2, <2>5, <3>1
    <2> QED BY <1>0, <1>f, <2>1, <2>2, <2>3, <2>6 DEF FormsInv, FormsCounts, FormsFresh
  <1>6. ASSUME NEW S \in SUBSET FormsUnserved(task), FormsUnserved(task') = S,
               task' \in [FewSlots -> FormsTask], UNCHANGED tables, view' \in FormsView,
               faults' \in 0 .. MaxFaults, past' \in FormsPast, past'.again = past.again,
               past'.submits = past.submits,
               \/ ~FormsFresh(view') /\ faults' = faults /\ past'.left = past.left
               \/ faults' + past'.left = faults + past.left + 1
        PROVE  FormsInv'
    <2>1. Cardinality(S) <= Cardinality(FormsUnserved(task)) /\ Cardinality(S) \in Nat
      BY <1>0, FormsUnservedMoves, FS_Subset, FS_CardinalityType
    <2>2. tables'.rows + Cardinality(FormsUnserved(task')) <= past'.submits
      BY <1>0, <1>f, <1>u, <1>6, <2>1
    <2>3. past.submits <= 1 + faults + past.again + past.left
      BY <1>0, <1>f
    <2>4. past'.submits + (IF FormsFresh(view') THEN 1 ELSE 0)
            <= 1 + faults' + past'.again + past'.left
      <3>1. CASE ~FormsFresh(view') /\ faults' = faults /\ past'.left = past.left
        BY <1>0, <1>6, <2>3, <3>1
      <3>2. CASE faults' + past'.left = faults + past.left + 1
        <4>1. faults' \in Nat /\ past'.left \in Nat
          BY <1>0, <1>6 DEF FormsPast
        <4>2. (IF FormsFresh(view') THEN 1 ELSE 0) \in {0, 1}
          OBVIOUS
        <4>3. \A i \in {0, 1} : past.submits + i <= 1 + faults' + past.again + past'.left
          BY <1>0, <2>3, <3>2, <4>1
        <4> QED BY <1>6, <4>2, <4>3
      <3> QED BY <1>6, <3>1, <3>2
    <2> QED BY <1>0, <1>f, <1>6, <2>2, <2>4 DEF FormsInv, FormsCounts
  <1>7. ASSUME NEW s \in FewSlots, Forms!Answered(s) PROVE FormsInv'
    <2>1. /\ task[s].at = "served" /\ task' = [task EXCEPT ![s] = Forms!Idle]
          /\ UNCHANGED <<tables, faults, past>>
      BY <1>7 DEF Forms!Answered, Forms!At, Forms!Ends
    <2>2. task' \in [FewSlots -> FormsTask] /\ FormsUnserved(task') \subseteq FormsUnserved(task)
      BY <1>0, <2>1 DEF FormsTask, FormsUnserved, Forms!Idle
    <2>3. view' \in FormsView /\ ~FormsFresh(view')
      <3> DEFINE answer == view.form # "vault"
                 leaving == view.form \in {"vault", "cap"}
      <3>1. answer \in BOOLEAN /\ leaving \in BOOLEAN /\ (answer \/ leaving)
        OBVIOUS
      <3>2. view' = [view EXCEPT !.answer = answer, !.loading = FALSE, !.leaving = leaving]
        BY <1>7 DEF Forms!Answered
      <3> HIDE DEF answer, leaving
      <3>3. view' \in FormsView /\ view'.answer = answer /\ view'.leaving = leaving
        BY <1>0, <3>1, <3>2 DEF FormsView
      <3> QED BY <3>1, <3>3, Zenon DEF FormsFresh
    <2> QED BY <1>0, <1>6, <2>1, <2>2, <2>3
  <1>8. ASSUME NEW s \in FewSlots, Forms!RequestFails(s) PROVE FormsInv'
    <2>1. /\ task' = [task EXCEPT ![s] = Forms!Idle] /\ UNCHANGED <<tables, past>>
          /\ faults < MaxFaults /\ faults' = faults + 1
      BY <1>8 DEF Forms!RequestFails, Forms!Ends, Forms!Fault
    <2>2. task' \in [FewSlots -> FormsTask] /\ FormsUnserved(task') \subseteq FormsUnserved(task)
      BY <1>0, <2>1 DEF FormsTask, FormsUnserved, Forms!Idle
    <2>3. view' \in FormsView
      BY <1>0, <1>8 DEF Forms!RequestFails, FormsView
    <2>4. faults' \in 0 .. MaxFaults /\ faults' + past'.left = faults + past.left + 1
      BY <1>0, <2>1
    <2> QED BY <1>0, <1>6, <2>1, <2>2, <2>3, <2>4
  <1>9. ASSUME Forms!Arrive PROVE FormsInv'
    <2>1. /\ task' = [s \in FewSlots |-> IF Forms!At(s, "sent") THEN [at |-> "sent, page gone"]
                                                               ELSE Forms!Idle]
          /\ past' = [past EXCEPT !.left = past.left + 1] /\ UNCHANGED <<tables, faults>>
      BY <1>9 DEF Forms!Arrive
    <2>2. task' \in [FewSlots -> FormsTask] /\ FormsUnserved(task') \subseteq FormsUnserved(task)
      BY <1>0, <2>1 DEF FormsTask, FormsUnserved, Forms!Idle, Forms!At
    <2>3. view' \in FormsView
      BY <1>0, <1>9 DEF Forms!Arrive, FormsView
    <2>4. /\ past' \in FormsPast /\ past'.left = past.left + 1
          /\ past'.again = past.again /\ past'.submits = past.submits
      <3> DEFINE n == past.left + 1
      <3>0. n \in Nat
        BY <1>0
      <3>1. past' = [past EXCEPT !.left = n]
        BY <2>1
      <3> HIDE DEF n
      <3>2. past' \in FormsPast /\ past'.left = n /\ past'.again = past.again
            /\ past'.submits = past.submits
        BY <1>0, <3>0, <3>1 DEF FormsPast
      <3> QED BY <3>2 DEF n
    <2>5. faults' + past'.left = faults + past.left + 1
      <3>1. \A m, n \in Nat : m + (n + 1) = m + n + 1
        OBVIOUS
      <3>2. faults' = faults /\ past'.left = past.left + 1
        BY <2>1, <2>4
      <3> QED BY <1>0, <3>1, <3>2
    <2> QED BY <1>0, <1>6, <2>1, <2>2, <2>3, <2>4, <2>5
  <1>10. CASE UNCHANGED vars
    BY <1>1, <1>10, <1>0 DEF vars, FormsFresh
  <1> QED
    BY <1>2, <1>3, <1>4, <1>5, <1>7, <1>8, <1>9, <1>10 DEF Forms!Next, Forms!Progress

LEMMA FormsPromises ==
  ASSUME FormsInv
  PROVE  Forms!Here /\ Forms!TypeOK /\ Forms!RowsAreExplained
  <1>0. /\ tables \in [rows : Nat] /\ view \in FormsView /\ past \in FormsPast
        /\ task \in [FewSlots -> FormsTask] /\ faults \in 0 .. MaxFaults
        /\ Cardinality(FormsUnserved(task)) \in Nat
    BY FormsUnservedMoves DEF FormsInv
  <1>1. Forms!Here
    BY <1>0 DEF FormsView, Forms!Here
  <1>2. /\ tables.rows \in Nat /\ past.submits \in 0 .. MaxSubmits /\ MaxSubmits \in Nat
        /\ faults \in Nat /\ past.again \in Nat /\ past.left \in Nat
    BY <1>0, AgentAssumption DEF FormsPast
  <1>3. tables.rows <= past.submits
    BY <1>0, <1>2 DEF FormsInv, FormsCounts
  <1>4. past.submits <= 1 + faults + past.again + past.left
    BY <1>2 DEF FormsInv, FormsCounts
  <1>5. tables.rows \in 0 .. MaxSubmits /\ tables.rows <= 1 + faults + past.again + past.left
    BY <1>2, <1>3, <1>4
  <1>6. tables \in [rows : 0 .. MaxSubmits]
    BY <1>0, <1>5
  <1>7. Forms!TypeOK
    BY <1>0, <1>6 DEF Forms!TypeOK, FormsView, FormsPast, FormsTask
  <1> QED BY <1>1, <1>5, <1>7 DEF Forms!RowsAreExplained

-----------------------------------------------------------------------------
(* THE COMPOSITION *)

\* The page that is shown, and its invariant.
AgentInv == KeysInv \/ ControlInv \/ SetupInv \/ FormsInv

LEMMA AgentStarts == ASSUME Init PROVE AgentInv
  BY KeysStarts, ControlStarts, SetupStarts, FormsStarts DEF Init, AgentInv

\* Which page is shown tells which of the four invariants holds.
LEMMA AgentPage ==
  ASSUME AgentInv
  PROVE  /\ view.page \in {"keys", "control", "setup", "form"}
         /\ view.page = "keys"    => KeysInv
         /\ view.page = "control" => ControlInv
         /\ view.page = "setup"   => SetupInv
         /\ view.page = "form"    => FormsInv
  BY KeysPromises, ControlPromises, SetupPromises, FormsPromises
     DEF AgentInv, Keys!Here, Control!Here, Setup!Here, Forms!Here

\* Only the page that is shown acts, or nobody does.
LEMMA AgentActs ==
  ASSUME [Next]_vars
  PROVE  /\ view.page = "keys"    => [Keys!Next]_vars
         /\ view.page = "control" => [Control!Next]_vars
         /\ view.page = "setup"   => [Setup!Next]_vars
         /\ view.page = "form"    => [Forms!Next]_vars
  <1>1. /\ Keys!Next    => view.page = "keys"
        /\ Control!Next => view.page = "control"
        /\ Setup!Next   => view.page = "setup"
        /\ Forms!Next   => view.page = "form"
    BY DEF Keys!Next, Control!Next, Setup!Next, Forms!Next,
           Keys!Here, Control!Here, Setup!Here, Forms!Here
  <1>2. Keys!Next \/ Control!Next \/ Setup!Next \/ Forms!Next \/ UNCHANGED vars
    BY DEF Next
  <1> QED BY <1>1, <1>2

LEMMA AgentMoves == ASSUME AgentInv, [Next]_vars PROVE AgentInv'
  <1>1. view.page = "keys" => KeysInv'
    BY AgentPage, AgentActs, KeysMoves
  <1>2. view.page = "control" => ControlInv'
    BY AgentPage, AgentActs, ControlMoves
  <1>3. view.page = "setup" => SetupInv'
    BY AgentPage, AgentActs, SetupMoves
  <1>4. view.page = "form" => FormsInv'
    BY AgentPage, AgentActs, FormsMoves
  <1> QED BY <1>1, <1>2, <1>3, <1>4, AgentPage DEF AgentInv

\* What is promised of a page is promised while it is shown.
LEMMA AgentPromises ==
  ASSUME AgentInv
  PROVE  /\ TypeOK
         /\ NoSecretOverwritten /\ ListsAreFresh
         /\ StepsAreBacked /\ Forms!RowsAreExplained
  <1>1. TypeOK
    BY KeysPromises, ControlPromises, SetupPromises, FormsPromises DEF AgentInv, TypeOK
  <1>2. NoSecretOverwritten
    BY AgentPage, KeysPromises
       DEF NoSecretOverwritten, Keys!NoSecretOverwritten, Keys!Here
  <1>3. ListsAreFresh
    BY AgentPage, KeysPromises, ControlPromises
       DEF ListsAreFresh, Keys!QuietListIsFresh, Control!QuietListIsFresh, Keys!Here,
           Control!Here
  <1>4. StepsAreBacked
    BY AgentPage, SetupPromises DEF StepsAreBacked, Setup!StepsAreBacked, Setup!Here
  <1>5. Forms!RowsAreExplained
    BY AgentPage, FormsPromises DEF Forms!RowsAreExplained, Forms!Here
  <1> QED BY <1>1, <1>2, <1>3, <1>4, <1>5

\* A step of the composition keeps a revocation that nothing explains away.
LEMMA AgentKeepsRevocation ==
  ASSUME AgentInv, [Next]_vars, Control!Here, ~past.overlapped, ~past.elsewhere, faults = 0,
         NEW a \in Agents, tables[a] = "revoked"
  PROVE  tables'[a] = "revoked"
  <1>1. view.page = "control"
    BY DEF Control!Here
  <1>2. ControlInv /\ [Control!Next]_vars
    BY <1>1, AgentPage, AgentActs
  <1> QED BY <1>2, ControlKeepsRevocation

LEMMA AgentExplainsStrategies ==
  ASSUME AgentInv, [Next]_vars
  PROVE  Setup!SecondStrategyIsExplained
  <1>1. view.page = "setup" => SetupInv /\ [Setup!Next]_vars
    BY AgentPage, AgentActs
  <1>2. CASE view.page = "setup"
    BY <1>1, <1>2, SetupExplainsStrategies
  <1>3. CASE view.page # "setup"
    BY <1>3 DEF Setup!SecondStrategyIsExplained, Setup!Here
  <1> QED BY <1>2, <1>3

-----------------------------------------------------------------------------
(* The theorems *)

THEOREM AgentPagesInvariant == Spec => []AgentInv
  BY AgentStarts, AgentMoves, PTL DEF Spec

\* The state is that of one of the four pages, of the form its module gives.
THEOREM AgentPagesTyped == Spec => []TypeOK
  BY AgentPagesInvariant, AgentPromises, PTL

\* However generations, loads and their answers mix, the secret of a new key is
\* not replaced by another before it was shown.
THEOREM SecretsAreAlwaysSeen == Spec => []NoSecretOverwritten
  BY AgentPagesInvariant, AgentPromises, PTL

\* Once nothing is in flight, and nothing the modules name went wrong, the lists
\* of keys and of agents are the tables'.
THEOREM ListsAreAlwaysFresh == Spec => []ListsAreFresh
  BY AgentPagesInvariant, AgentPromises, PTL

\* The setup asks to activate only when there is a strategy, and for funds only
\* when it has read of none, in whatever order its loads are answered.
THEOREM StepsAreAlwaysBacked == Spec => []StepsAreBacked
  BY AgentPagesInvariant, AgentPromises, PTL

\* A button clicked on an agent that is revoked brings it back only after calls
\* that overlapped, a failure or another tab's revocation: no other order of
\* clicks and answers does.
THEOREM ButtonsAlwaysKeepRevocation == Spec => ButtonsKeepRevocation
  <1>1. AgentInv /\ [Next]_vars
          => [(Control!Here /\ ~past.overlapped /\ ~past.elsewhere /\ faults = 0)
               => \A a \in Agents : tables[a] = "revoked" => tables'[a] = "revoked"]_Control!vars
    BY AgentKeepsRevocation
  <1> QED
    BY <1>1, AgentPagesInvariant, PTL
       DEF Spec, ButtonsKeepRevocation, Control!ButtonsKeepRevocation

\* A second strategy is saved only after an old answer or a failure, and the
\* forms make one row for each submission that nothing explains otherwise.
THEOREM DuplicatesAreAlwaysExplained == Spec => DuplicatesAreExplained
  <1>1. AgentInv => Forms!RowsAreExplained
    BY AgentPromises
  <1>2. AgentInv' => Forms!RowsAreExplained'
    BY <1>1, PTL
  <1>3. AgentInv /\ AgentInv' /\ [Next]_vars
          => [Setup!SecondStrategyIsExplained /\ Forms!RowsAreExplained']_vars
    BY <1>2, AgentExplainsStrategies
  <1> QED BY <1>3, AgentPagesInvariant, PTL DEF Spec, DuplicatesAreExplained
=============================================================================
