----------------------------- MODULE ServerPages -----------------------------
(***************************************************************************)
(* The pages that the server renders: the overview, the wallet, and the     *)
(* lists of agents, vaults, executions, alerts and policies, and one vault  *)
(* (app/(dashboard)/.../page.tsx), behind middleware.ts and                  *)
(* lib/server-auth.ts.                                                      *)
(*                                                                         *)
(* A render asks for all its lists at once; each is read when the API comes *)
(* to it, so a page may mix several states of the tables, and the token may *)
(* expire between two of the reads.                                         *)
(***************************************************************************)
EXTENDS Page

CONSTANT Agents     \* rows of agents

Here == view.page = "server"

\* What a page asks for.  The policies are asked for one by one, after the
\* agents; the vault page asks for a vault, its caps and its transactions,
\* which are refused together if the vault is not the user's.
Reads(path) ==
    CASE path = "console"  -> {"agents", "executions", "alerts", "vaults"}
      [] path = "wallet"   -> {"agents", "vaults"}
      [] path = "vault"    -> {"vault", "agents"}
      [] path = "policies" -> {"agents"}
      [] OTHER             -> {path}

Lists == {"agents", "executions", "alerts", "vaults"}
Paths == Lists \cup {"console", "wallet", "vault", "policies"}

\* A list is empty or not; of an agent the page also tells whether it is active.
Init ==
    /\ \E token \in {"valid", "expired"}, a \in [Agents -> {None, "active"}], own \in BOOLEAN :
          tables = [token |-> token, agents |-> a, policies |-> {b \in Agents : a[b] # None},
                    executions |-> FALSE, alerts |-> FALSE, vaults |-> own]
    /\ \E cookie \in BOOLEAN :
          view = [page |-> "server", cookie |-> cookie, path |-> None, shown |-> None, got |-> None]
    /\ task = [s \in Slots |-> Idle]
    /\ faults = 0
    /\ past = [changed |-> FALSE, failed |-> FALSE]

Made(a) == {b \in Agents : a[b] # None}
Active(a) == {b \in Agents : a[b] = "active"}

\* middleware.ts, then requireAuthToken(): a cookie is all they ask for.
Open(path) ==
    /\ Quiet
    /\ IF view.cookie
       THEN /\ Call([at |-> "reading", got |-> [l \in {} |-> None], failed |-> None])
            /\ view' = [view EXCEPT !.path = path, !.shown = None, !.got = None]
       ELSE /\ view' = [view EXCEPT !.path = path, !.shown = "login", !.got = None]
            /\ UNCHANGED task
    /\ past' = [changed |-> FALSE, failed |-> FALSE]
    /\ UNCHANGED <<tables, faults>>

-----------------------------------------------------------------------------
(* One of the requests of the render *)

Value(list) ==
    CASE list = "agents"     -> tables.agents
      [] list = "executions" -> tables.executions
      [] list = "alerts"     -> tables.alerts
      [] list = "vaults"     -> tables.vaults

Got(s, list, v) ==
    task' = [task EXCEPT ![s].got = [l \in DOMAIN @ \cup {list} |-> IF l = list THEN v ELSE @[l]]]

\* Promise.all rejects with the first error; the others are forgotten.
Rejects(s, error) == task' = [task EXCEPT ![s].failed = error]

Pending(s, list) == At(s, "reading") /\ task[s].failed = None /\ list \notin DOMAIN task[s].got

ReadList(s, list) ==
    /\ list \in Reads(view.path) /\ Pending(s, list)
    /\ IF tables.token = "expired" THEN Rejects(s, "unauthorized")
       ELSE IF list = "vault"
            THEN IF tables.vaults THEN Got(s, list, TRUE) ELSE Rejects(s, "forbidden")
            ELSE Got(s, list, Value(list))
    /\ UNCHANGED <<tables, view, faults, past>>

\* The policies page: a policy that cannot be read is left out.
ReadPolicy(s, a) ==
    /\ view.path = "policies" /\ "agents" \in DOMAIN task[s].got
    /\ task[s].got["agents"][a] # None
    /\ Pending(s, a)
    /\ Got(s, a, tables.token = "valid" /\ a \in tables.policies)
    /\ UNCHANGED <<tables, view, faults, past>>

\* The API does not answer, or answers 500.
ReadFails(s) ==
    /\ At(s, "reading") /\ task[s].failed = None
    /\ Fault
    /\ \/ \E list \in Reads(view.path) : Pending(s, list) /\ Rejects(s, "failed")
       \/ \E a \in Agents :
             /\ view.path = "policies" /\ "agents" \in DOMAIN task[s].got
             /\ task[s].got["agents"][a] # None
             /\ Pending(s, a) /\ Got(s, a, FALSE)
    /\ past' = [past EXCEPT !.failed = TRUE]
    /\ UNCHANGED <<tables, view>>

-----------------------------------------------------------------------------
(* What is shown *)

\* withAuth: the text of the error decides.
IsAuthError(error) == error = "unauthorized"

\* redirect() throws, and the vault page catches what withAuth throws.
ErrorShown(error) ==
    IF view.path = "vault" THEN "not found"
    ELSE IF IsAuthError(error) THEN "login" ELSE "error"

Complete(s) ==
    /\ Reads(view.path) \subseteq DOMAIN task[s].got
    /\ view.path = "policies" => Made(task[s].got["agents"]) \subseteq DOMAIN task[s].got

RenderFails(s) ==
    /\ At(s, "reading") /\ task[s].failed # None
    /\ Ends(s)
    /\ view' = [view EXCEPT !.shown = ErrorShown(task[s].failed)]
    /\ UNCHANGED <<tables, faults, past>>

Rendered(s) ==
    /\ At(s, "reading") /\ task[s].failed = None /\ Complete(s)
    /\ Ends(s)
    /\ view' = [view EXCEPT !.shown = "page", !.got = task[s].got]
    /\ UNCHANGED <<tables, faults, past>>

\* The panels of the overview that depend on what was read: the first-run panel,
\* the registry, the feed, the layers said to be in sync, and the alert queue,
\* which is there only if it is not empty.
Bootstrap(got) == Made(got["agents"]) = {}
AgentRegistry(got) == Made(got["agents"])
ExecutionFeed(got) == got["executions"]
ShieldLayers(got) ==
    {"AI_RISK", "POLICY"} \cup (IF AgentRegistry(got) # {} THEN {"IDENTITY", "CAPABILITY"} ELSE {})
                         \cup (IF ExecutionFeed(got) THEN {"EXECUTION"} ELSE {})
AlertStack(got) == got["alerts"]

\* Slip: an agent that is not active is left out.
ItemsOfActive(got) == {a \in Active(got["agents"]) : got[a]}

\* The policies page: the agents whose policy was read.
Items(got) == {a \in Made(got["agents"]) : got[a]}

\* The line that each of the lists shows in place of its rows.
NoPolicies(got) == Items(got) = {}
NoAgents(got) == Made(got["agents"]) = {}
NoVaults(got) == ~got["vaults"]
NoExecutions(got) == ~got["executions"]
NoAlerts(got) == ~got["alerts"]

EmptyState(path, got) ==
    CASE path = "policies"   -> NoPolicies(got)
      [] path = "agents"     -> NoAgents(got)
      [] path = "vaults"     -> NoVaults(got)
      [] path = "executions" -> NoExecutions(got)
      [] path = "alerts"     -> NoAlerts(got)
      [] OTHER               -> FALSE

-----------------------------------------------------------------------------
(* Others, meanwhile: an agent comes with its policy and may be paused; it   *)
(* executes, and a blocked execution raises an alert.                       *)

RowsChange ==
    /\ \/ \E a \in Agents :
             \/ /\ tables.agents[a] = None
                /\ tables' = [tables EXCEPT !.agents[a] = "active", !.policies = @ \cup {a}]
             \/ /\ tables.agents[a] = "active"
                /\ tables' = [tables EXCEPT !.agents[a] = "paused"]
       \/ /\ Active(tables.agents) # {} /\ ~tables.executions
          /\ tables' = [tables EXCEPT !.executions = TRUE]
       \/ /\ tables.executions /\ ~tables.alerts
          /\ tables' = [tables EXCEPT !.alerts = TRUE]
    /\ past' = [past EXCEPT !.changed = TRUE]
    /\ UNCHANGED <<view, task, faults>>

TokenExpires ==
    /\ tables.token = "valid"
    /\ tables' = [tables EXCEPT !.token = "expired"]
    /\ UNCHANGED <<view, task, faults, past>>

Progress(s) ==
    /\ Here
    /\ \/ \E list \in Lists \cup {"vault"} : ReadList(s, list)
       \/ \E a \in Agents : At(s, "reading") /\ ReadPolicy(s, a)
       \/ RenderFails(s) \/ Rendered(s)

Next ==
    /\ Here
    /\ \/ \E path \in Paths : Open(path)
       \/ \E s \in Slots : Progress(s) \/ ReadFails(s)
       \/ RowsChange \/ TokenExpires

Spec == Init /\ [][Next]_vars

-----------------------------------------------------------------------------

TypeOK ==
    /\ tables.token \in {"valid", "expired"}
    /\ tables.agents \in [Agents -> {None, "active", "paused"}]
    /\ tables.policies \subseteq Agents
    /\ <<tables.executions, tables.alerts, tables.vaults>> \in BOOLEAN \X BOOLEAN \X BOOLEAN
    /\ view.path \in Paths \cup {None} /\ view.cookie \in BOOLEAN
    /\ view.shown \in {None, "page", "login", "error", "not found"}
    /\ \A s \in Slots : At(s, "idle") \/ task[s].failed \in {None, "unauthorized", "forbidden", "failed"}
    /\ faults \in 0 .. MaxFaults
    /\ past \in [changed : BOOLEAN, failed : BOOLEAN]

\* The user is sent to sign in only if there is no session left, not because a
\* request failed for another reason.
LoginMeansNoSession ==
    Here /\ view.shown = "login" => ~view.cookie \/ tables.token = "expired"

\* The overview tells a first-time user to start the setup only if nothing has
\* happened yet: the feed, the alert queue and the layers say so too, unless rows
\* were made while the page was rendered.
PanelsAgree ==
    (Here /\ view.shown = "page" /\ view.path = "console" /\ Bootstrap(view.got) /\ ~past.changed)
        => /\ ~ExecutionFeed(view.got) /\ ~AlertStack(view.got)
           /\ ShieldLayers(view.got) = {"AI_RISK", "POLICY"}

\* "No policies configured. Create an agent first.": an empty line is true of
\* the tables, unless they changed or, for the policies, requests failed or the
\* token expired in the middle of the render.
EmptyStatesAreTrue ==
    (Here /\ view.shown = "page" /\ EmptyState(view.path, view.got) /\ ~past.changed) =>
        CASE view.path = "policies" ->
                 tables.policies = {} \/ past.failed \/ tables.token = "expired"
          [] view.path = "agents"   -> Made(tables.agents) = {}
          [] OTHER                  -> ~Value(view.path)
=============================================================================
