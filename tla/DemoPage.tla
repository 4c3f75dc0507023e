------------------------------- MODULE DemoPage -------------------------------
(***************************************************************************)
(* /demo: what an agent does, asked for again every eight seconds           *)
(* (app/(dashboard)/demo/DemoPageClient.tsx), and the dialog with a decision *)
(* of the Shield (lib/shield-details.ts, ShieldActionDetailModal.tsx).       *)
(*                                                                         *)
(* The timer waits for no answer: polls overlap, and their answers arrive in *)
(* any order.  A poll writes nothing, so several at once show by what they  *)
(* leave on the page only.                                                  *)
(***************************************************************************)
EXTENDS Page, Sequences, FiniteSetsExt

CONSTANTS
    Agents,         \* rows of agents, 1 .. n in the order of creation
    MaxExecutions,  \* bound on executions rows of an agent
    Window          \* LIMIT of the queries of demo_activity (50)

Here == view.page = "demo"

Status == {"active", "paused", None}        \* None: not created yet
Results == {"approved", "blocked", "review"}
Rows == UNION {[1 .. n -> Results] : n \in 0 .. MaxExecutions}

Poll(a) == [at |-> IF a = None THEN "agents" ELSE "reading", agent |-> a,
            from |-> None, rows |-> None, alerts |-> None]

\* searchParams.get('agentId') names an agent or nothing; the effect calls load().
Init ==
    \E a \in Agents \cup {None}, status \in [Agents -> {"active", None}] :
        /\ a # None => status[a] # None
        /\ tables = [status |-> status, executions |-> [b \in Agents |-> <<>>],
                     alerts |-> [b \in Agents |-> {}]]
        /\ view = [page |-> "demo", agentId |-> a, summary |-> None, activity |-> None,
                   detail |-> None]
        /\ OnlyOneCall(Poll(a))
        /\ faults = 0
        /\ past = None

-----------------------------------------------------------------------------
(* load(), and the timer *)

\* A slip: load() is called once, when the page is mounted.
NoTimer(s) == FALSE /\ UNCHANGED vars

\* setInterval(load, 8000): a call does not wait for the one before.
Tick(s) ==
    /\ At(s, "idle")
    /\ task' = [task EXCEPT ![s] = Poll(view.agentId)]
    /\ UNCHANGED <<tables, view, faults, past>>

\* agents.find(active) ?? agents[0], newest first.
Chosen(status) ==
    LET made == {a \in Agents : status[a] # None}
        active == {a \in Agents : status[a] = "active"}
    IN  IF made = {} THEN None ELSE Max(IF active = {} THEN made ELSE active)

\* No agent was named: the list of agents decides.  setAgentId makes load() a
\* new function, so the timer is set again and load() called at once; the call
\* that chose the agent goes on to read for it too.
ReadAgents(s) ==
    /\ At(s, "agents")
    /\ LET a == Chosen(tables.status)
           free == {r \in Slots \ {s} : At(r, "idle")} IN
       /\ view' = [view EXCEPT !.agentId = IF a = None THEN @ ELSE a]
       /\ task' = [r \in Slots |->
                     IF r = s THEN IF a = None THEN Idle ELSE Poll(a)
                     ELSE IF a # None /\ a # view.agentId /\ r \in free
                             /\ \A q \in free : r <= q THEN Poll(a)
                     ELSE task[r]]
    /\ UNCHANGED <<tables, faults, past>>

\* Of the two requests demo_summary has no action: nothing is compared with
\* the counts it reads.  demo_activity reads the last executions in one statement ...
ReadExecutions(s) ==
    /\ At(s, "reading") /\ task[s].rows = None
    /\ LET rows == tables.executions[task[s].agent] IN
       task' = [task EXCEPT ![s].rows = rows,
                            ![s].from = IF Len(rows) > Window THEN Len(rows) - Window + 1 ELSE 1]
    /\ UNCHANGED <<tables, view, faults, past>>

\* ... and the last alerts in the next.
LastAlerts(a) ==
    {x \in tables.alerts[a] : Cardinality({y \in tables.alerts[a] : y > x}) < Window}

ReadAlerts(s) ==
    /\ At(s, "reading") /\ task[s].rows # None /\ task[s].alerts = None
    /\ task' = [task EXCEPT ![s].alerts = LastAlerts(task[s].agent)]
    /\ UNCHANGED <<tables, view, faults, past>>

\* Both answers are in: summary and activity are set together.
Loaded(s) ==
    /\ At(s, "reading") /\ task[s].alerts # None
    /\ Ends(s)
    /\ view' = [view EXCEPT !.summary = task[s].agent,
                            !.activity = [agent |-> task[s].agent, rows |-> task[s].rows,
                                          from |-> task[s].from, alerts |-> task[s].alerts]]
    /\ UNCHANGED <<tables, faults, past>>

\* What an earlier poll has set stays on the page, under the text of the error.
LoadFails(s) ==
    /\ ~At(s, "idle")
    /\ Fault
    /\ Ends(s)
    /\ UNCHANGED <<tables, view, past>>

-----------------------------------------------------------------------------
(* The dialog *)

\* executionFromEvents: a row of the activity that is shown.
InWindow(act, x) == x >= act.from /\ x <= Len(act.rows)

Detail(act, x) == [agent |-> act.agent, row |-> x, result |-> act.rows[x]]

\* The linked execution or the one of that id, both from the rows the server
\* read.
DetailFromAlert(act, x) == IF InWindow(act, x) THEN Detail(act, x) ELSE None

\* The buttons.  The alerts, whatever the click then finds ...
AlertButtons(act) == act.alerts

\* ... the rows of the Shield and of the timeline, if they were not approved,
\* which shieldDetailFromEvent asks once more ...
RowButtons(act) == {x \in act.from .. Len(act.rows) : act.rows[x] # "approved"}

\* A slip: the server puts every row in the queue.
EveryRow(act) == act.from .. Len(act.rows)

\* ... and the review queue, which the server takes from the same rows.
PendingReview(act) == {x \in act.from .. Len(act.rows) : act.rows[x] = "review"}

Opens(detail) ==
    /\ detail # None
    /\ view' = [view EXCEPT !.detail = detail]
    /\ UNCHANGED <<tables, task, faults, past>>

\* A button that leads to no detail does nothing.
OpenDetail(x) ==
    LET act == view.activity IN
    /\ act # None /\ view.detail = None
    /\ \/ x \in AlertButtons(act) /\ Opens(DetailFromAlert(act, x))
       \/ x \in RowButtons(act) /\ Opens(Detail(act, x))
       \/ x \in PendingReview(act) /\ Opens(Detail(act, x))

CloseDetail ==
    /\ view.detail # None
    /\ view' = [view EXCEPT !.detail = None]
    /\ UNCHANGED <<tables, task, faults, past>>

-----------------------------------------------------------------------------
(* The server: execution_service.rs logs the execution, then the alert. *)

Full(a) == Len(tables.executions[a]) >= MaxExecutions

AllAlerted(a) ==
    \A x \in DOMAIN tables.executions[a] :
        tables.executions[a][x] = "blocked" => x \in tables.alerts[a]

Executed(a, result) ==
    /\ tables.status[a] = "active" /\ ~Full(a)
    /\ tables' = [tables EXCEPT !.executions[a] = Append(@, result)]
    /\ UNCHANGED <<view, task, faults, past>>

Alerted(a) ==
    \E x \in 1 .. Len(tables.executions[a]) :
        /\ tables.executions[a][x] = "blocked" /\ x \notin tables.alerts[a]
        /\ tables' = [tables EXCEPT !.alerts[a] = @ \cup {x}]
        /\ UNCHANGED <<view, task, faults, past>>

\* The owner creates an agent, or pauses one, in another tab.
AgentChanges(a) ==
    /\ tables.status[a] \in {None, "active"}
    /\ tables' = [tables EXCEPT !.status[a] = IF @ = None THEN "active" ELSE "paused"]
    /\ UNCHANGED <<view, task, faults, past>>

Progress(s) ==
    /\ Here
    /\ \/ Tick(s) \/ ReadAgents(s)
       \/ ReadExecutions(s) \/ ReadAlerts(s) \/ Loaded(s)

Next ==
    /\ Here
    /\ \/ \E s \in Slots : Progress(s) \/ LoadFails(s)
       \/ \E a \in Agents : AgentChanges(a) \/ Alerted(a) \/ \E r \in Results : Executed(a, r)
       \/ \E x \in 1 .. MaxExecutions : OpenDetail(x)
       \/ CloseDetail

Spec == Init /\ [][Next]_vars

-----------------------------------------------------------------------------

TypeOK ==
    /\ tables \in [status : [Agents -> Status], executions : [Agents -> Rows],
                   alerts : [Agents -> SUBSET (1 .. MaxExecutions)]]
    /\ view.agentId \in Agents \cup {None}
    /\ view.summary \in Agents \cup {None}
    /\ view.activity = None \/ view.activity.rows \in Rows
    /\ view.detail \in {None} \cup [agent : Agents, row : 1 .. MaxExecutions, result : Results]
    /\ \A s \in Slots : task[s].at \in {"idle", "agents", "reading"}
    /\ faults \in 0 .. MaxFaults

\* The dialog says "Shield blocked" or "held for review", and keeps what it says
\* while polls replace the list under it: it is always about an execution that
\* the table has and that was not approved.
DetailIsBacked ==
    (Here /\ view.detail # None) =>
        LET rows == tables.executions[view.detail.agent] IN
        /\ view.detail.row \in DOMAIN rows
        /\ rows[view.detail.row] = view.detail.result
        /\ view.detail.result # "approved"

\* The activity that is shown is what demo_activity would read now.
ShowsTables(a) ==
    /\ view.activity # None
    /\ view.activity.agent = a
    /\ view.activity.rows = tables.executions[a]
    /\ view.activity.alerts = LastAlerts(a)

\* What the tables hold gets on the page and stays there, whatever polls fail and
\* in whatever order their answers come: an old answer that replaces a new one
\* is replaced in its turn, because the timer goes on.
PollCatchesUp ==
    \A a \in Agents :
        (Here /\ view.agentId = a /\ Full(a) /\ AllAlerted(a))
        ~> [](Here /\ (view.agentId = a => ShowsTables(a)))
=============================================================================
