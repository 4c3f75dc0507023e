------------------------------- MODULE KeysPage -------------------------------
(***************************************************************************)
(* /agents/[id]/keys: the keys of one agent, with buttons that issue and   *)
(* revoke (app/(dashboard)/agents/[id]/keys/page.tsx), and the dialog that *)
(* shows the secret of a new key, once (ApiKeyRevealModal.tsx).  The text   *)
(* of an error is left out: nothing depends on it.                         *)
(***************************************************************************)
EXTENDS Page

CONSTANT Keys       \* rows of api_keys, 1 .. n in the order of insertion

Here == view.page = "keys"

KeyList == [Keys -> {"none", "live", "revoked"}]
AgentStatus == {"inactive", "active", "paused", "revoked"}

LoadTask(call, key) ==
    [at |-> "loading", call |-> call, key |-> key, agent |-> None, keys |-> None]

\* The effect calls load() when the page is mounted.
Init ==
    /\ \E live \in {"none", "live"} :
          tables = [agent |-> "active", keys |-> [k \in Keys |-> IF k = 1 THEN live ELSE "none"]]
    /\ view = [page |-> "keys", agent |-> None, keys |-> [k \in Keys |-> "none"],
               loading |-> TRUE, issuing |-> FALSE, revoking |-> None, newKey |-> None]
    /\ OnlyOneCall(LoadTask("load", None))
    /\ faults = 0
    /\ past = [answered |-> {}, revealed |-> {}, overlapped |-> FALSE, elsewhere |-> FALSE]

\* Until a load ends the page is the word Loading, dialog included.
Rendered(v) == ~v.loading /\ v.agent # None

\* The dialog: the secret is on the screen.
Revealed(v) == IF Rendered(v) /\ v.newKey # None THEN {v.newKey} ELSE {}

Show(v) ==
    /\ view' = v
    /\ past' = [past EXCEPT
                 !.revealed = @ \cup Revealed(v),
                 !.overlapped = @ \/ Cardinality({s \in Slots : task'[s].at = "loading"}) > 1]

-----------------------------------------------------------------------------
(* load() *)

\* getAgent and listKeys are asked at once and answered each on its own.
ReadAgent(s) ==
    /\ At(s, "loading") /\ task[s].agent = None
    /\ task' = [task EXCEPT ![s].agent = tables.agent]
    /\ UNCHANGED <<tables, view, faults, past>>

ReadKeys(s) ==
    /\ At(s, "loading") /\ task[s].keys = None
    /\ task' = [task EXCEPT ![s].keys = tables.keys]
    /\ UNCHANGED <<tables, view, faults, past>>

\* The `finally` of the handler that called load().
Settled(v, call) ==
    CASE call = "issue"  -> [v EXCEPT !.issuing = FALSE]
      [] call = "revoke" -> [v EXCEPT !.revoking = None]
      [] OTHER           -> v

Loaded(s) ==
    /\ At(s, "loading") /\ task[s].agent # None /\ task[s].keys # None
    /\ Ends(s)
    /\ Show(Settled([view EXCEPT !.agent = task[s].agent, !.keys = task[s].keys,
                                 !.loading = FALSE], task[s].call))
    /\ UNCHANGED <<tables, faults>>

LoadFails(s) ==
    /\ At(s, "loading")
    /\ Fault
    /\ Ends(s)
    /\ Show(Settled([view EXCEPT !.loading = FALSE], task[s].call))
    /\ UNCHANGED tables

-----------------------------------------------------------------------------
(* issueKey() *)

\* Slips: the button is live while a key is being issued; it is never disabled.
CanAlwaysIssue == Rendered(view) /\ view.agent # "revoked"

CanIssue == Rendered(view) /\ ~view.issuing /\ view.agent # "revoked"

Issue ==
    /\ CanIssue
    /\ Call([LoadTask("issue", None) EXCEPT !.at = "issuing"])
    /\ Show([view EXCEPT !.issuing = TRUE])
    /\ UNCHANGED <<tables, faults>>

IssueServed(s) ==
    /\ At(s, "issuing") /\ tables.agent # "revoked"
    /\ \E k \in Keys :
          /\ tables.keys[k] = "none"
          /\ \A j \in Keys : j < k => tables.keys[j] # "none"
          /\ tables' = [tables EXCEPT !.keys[k] = "live"]
          /\ task' = [task EXCEPT ![s].at = "issued", ![s].key = k]
    /\ UNCHANGED <<view, faults, past>>

\* The secret is kept for the dialog, then load() is called and awaited.
IssueAnswered(s) ==
    /\ At(s, "issued")
    /\ Goto(s, "loading")
    /\ view' = [view EXCEPT !.newKey = task[s].key, !.loading = TRUE]
    /\ past' = [past EXCEPT
                 !.answered = @ \cup {task[s].key},
                 !.overlapped = @ \/ \E r \in Slots : At(r, "loading")]
    /\ UNCHANGED <<tables, faults>>

CloseModal ==
    /\ Revealed(view) # {}
    /\ UNCHANGED <<tables, task, faults>>
    /\ Show([view EXCEPT !.newKey = None])

-----------------------------------------------------------------------------
(* revokeKey() *)

CanRevoke(k) == Rendered(view) /\ view.keys[k] = "live" /\ view.revoking # k

Revoke(k) ==
    /\ CanRevoke(k)
    /\ Call([LoadTask("revoke", k) EXCEPT !.at = "revoking"])
    /\ Show([view EXCEPT !.revoking = k])
    /\ UNCHANGED <<tables, faults>>

RevokeServed(s) ==
    /\ At(s, "revoking") /\ tables.keys[task[s].key] = "live"
    /\ tables' = [tables EXCEPT !.keys[task[s].key] = "revoked"]
    /\ Goto(s, "revoked")
    /\ UNCHANGED <<view, faults, past>>

RevokeAnswered(s) ==
    /\ At(s, "revoked")
    /\ Goto(s, "loading")
    /\ Show([view EXCEPT !.loading = TRUE])
    /\ UNCHANGED <<tables, faults>>

-----------------------------------------------------------------------------
(* What may go wrong, and what others do *)

\* The server refuses: the agent is revoked, or the key no longer live (404).
Refused(s) ==
    /\ \/ At(s, "issuing") /\ tables.agent = "revoked"
       \/ At(s, "revoking") /\ tables.keys[task[s].key] # "live"
    /\ Ends(s)
    /\ Show(Settled(view, task[s].call))
    /\ UNCHANGED <<tables, faults>>

RequestFails(s) ==
    /\ task[s].at \in {"issuing", "issued", "revoking", "revoked"}
    /\ Fault
    /\ Ends(s)
    /\ Show(Settled(view, task[s].call))
    /\ UNCHANGED tables

\* The owner revokes the agent in another tab.
RevokedElsewhere ==
    /\ tables.agent # "revoked"
    /\ tables' = [agent |-> "revoked",
                  keys |-> [k \in Keys |-> IF tables.keys[k] = "live" THEN "revoked"
                                                                      ELSE tables.keys[k]]]
    /\ past' = [past EXCEPT !.elsewhere = TRUE]
    /\ UNCHANGED <<view, task, faults>>

Progress(s) ==
    /\ Here
    /\ \/ ReadAgent(s) \/ ReadKeys(s) \/ Loaded(s)
       \/ IssueServed(s) \/ IssueAnswered(s)
       \/ RevokeServed(s) \/ RevokeAnswered(s) \/ Refused(s)

Next ==
    /\ Here
    /\ \/ Issue \/ CloseModal \/ RevokedElsewhere
       \/ \E k \in Keys : Revoke(k)
       \/ \E s \in Slots : Progress(s) \/ LoadFails(s) \/ RequestFails(s)

Spec == Init /\ [][Next]_vars

-----------------------------------------------------------------------------

TaskType ==
    {Idle} \cup
    [at : {"loading", "issuing", "issued", "revoking", "revoked"},
     call : {"load", "issue", "revoke"}, key : Keys \cup {None},
     agent : AgentStatus \cup {None}, keys : KeyList \cup {None}]

ViewType ==
    [page : {"keys"}, agent : AgentStatus \cup {None}, keys : KeyList,
     loading : BOOLEAN, issuing : BOOLEAN, revoking : Keys \cup {None},
     newKey : Keys \cup {None}]

PastType == [answered : SUBSET Keys, revealed : SUBSET Keys,
             overlapped : BOOLEAN, elsewhere : BOOLEAN]

TypeOK ==
    /\ tables \in [agent : AgentStatus, keys : KeyList]
    /\ view \in ViewType
    /\ task \in [Slots -> TaskType]
    /\ faults \in 0 .. MaxFaults
    /\ past \in PastType

\* "Keys are shown once at creation": a secret whose answer arrived is never
\* replaced or dropped before it has been on the screen, although the dialog is
\* hidden while the list loads and another handler may run in between.
NoSecretOverwritten ==
    Here => past.answered \subseteq past.revealed \cup {view.newKey}

\* ... and it does come on the screen, whatever the load after it does.
SecretIsShown ==
    \A k \in Keys : (Here /\ k \in past.answered) ~> (Here /\ k \in past.revealed)

\* Once nothing is in flight the list is what the table holds, unless a request
\* failed, another tab was at work, or two loads overlapped (the answers may
\* then have come in the wrong order, and nothing asks again).
QuietListIsFresh ==
    (Here /\ Quiet /\ faults = 0 /\ ~past.elsewhere /\ ~past.overlapped)
    => view.keys = tables.keys
=============================================================================
