------------------------------ MODULE FormPages ------------------------------
(***************************************************************************)
(* The pages that are one form: a new agent, a new vault, a new AgentCap on *)
(* a vault's page, and the text of an intent (app/(dashboard)/agents/new,   *)
(* vaults/new, intent; components/vaults/IssueAgentCapForm.tsx).  What the  *)
(* fields hold is abstracted to whether the required ones are filled.       *)
(***************************************************************************)
EXTENDS Page

CONSTANT MaxSubmits     \* bound on the clicks of the submit button

Here == view.page = "form"

Forms == {"agent", "vault", "cap", "intent"}

\* A cap needs an agent to give it to: without one there is no form.
Init ==
    /\ \E form \in Forms, agents \in BOOLEAN :
          view = [page |-> "form", form |-> form, agents |-> agents, complete |-> form # "agent",
                  loading |-> FALSE, error |-> FALSE, answer |-> FALSE, leaving |-> FALSE]
    /\ tables = [rows |-> 0]
    /\ task = [s \in Slots |-> Idle]
    /\ faults = 0
    /\ past = [submits |-> 0, again |-> 0, left |-> 0]

\* The browser submits no form whose required fields are empty; only the name
\* of an agent and the amounts of a vault are required, an empty limit is
\* Number('') = 0.
Blocked == view.form \in {"agent", "vault"} /\ ~view.complete

HasForm == view.form = "cap" => view.agents

Edit ==
    /\ HasForm
    /\ view' = [view EXCEPT !.complete = ~@]
    /\ UNCHANGED <<tables, task, faults, past>>

\* A slip: the button does not wait for the answer.
ButtonIsLive == HasForm /\ ~Blocked

\* The button is disabled while loading, which also stops the Enter key.  It
\* is live again under the dialog with the key and while the browser leaves.
CanSubmit == HasForm /\ ~Blocked /\ ~view.loading

Submit ==
    /\ CanSubmit /\ past.submits < MaxSubmits
    /\ Call([at |-> "sent"])
    /\ view' = [view EXCEPT !.loading = TRUE, !.error = FALSE,
                            !.answer = IF view.form = "cap" THEN FALSE ELSE @]
    /\ past' = [past EXCEPT !.submits = @ + 1,
                            !.again = IF view.answer \/ view.leaving THEN @ + 1 ELSE @]
    /\ UNCHANGED <<tables, faults>>

\* One row per request; parsing an intent writes nothing.
Served(s) ==
    /\ task[s].at \in {"sent", "sent, page gone"}
    /\ tables' = [tables EXCEPT !.rows = IF view.form = "intent" THEN @ ELSE @ + 1]
    /\ task' = [task EXCEPT ![s] = IF @.at = "sent" THEN [at |-> "served"] ELSE Idle]
    /\ UNCHANGED <<view, faults, past>>

\* Agent: the dialog with the key.  Vault: router.push to its page.  Cap: a
\* line of text, and window.location.reload().  Intent: the parsed draft.
Answered(s) ==
    /\ At(s, "served")
    /\ Ends(s)
    /\ view' = [view EXCEPT !.answer = view.form # "vault", !.loading = FALSE,
                            !.leaving = view.form \in {"vault", "cap"}]
    /\ UNCHANGED <<tables, faults, past>>

\* The dialog is closed, and router.push to the list of agents.
CloseModal ==
    /\ view.form = "agent" /\ view.answer
    /\ view' = [view EXCEPT !.answer = FALSE, !.leaving = TRUE]
    /\ UNCHANGED <<tables, task, faults, past>>

\* The browser gets there: the reloaded page for a cap, for the others the next
\* visit of the form.  A request may be on its way that nobody waits for.
Arrive ==
    /\ view.leaving
    /\ view' = [view EXCEPT !.loading = FALSE, !.error = FALSE, !.answer = FALSE,
                            !.leaving = FALSE, !.complete = view.form # "agent"]
    /\ task' = [s \in Slots |-> IF At(s, "sent") THEN [at |-> "sent, page gone"] ELSE Idle]
    /\ past' = [past EXCEPT !.left = @ + 1]
    /\ UNCHANGED <<tables, faults>>

RequestFails(s) ==
    /\ task[s].at \in {"sent", "served"}
    /\ Fault
    /\ Ends(s)
    /\ view' = [view EXCEPT !.error = TRUE, !.loading = FALSE]
    /\ UNCHANGED <<tables, past>>

Progress(s) == Here /\ (Served(s) \/ Answered(s))

Next ==
    /\ Here
    /\ \/ Edit \/ Submit \/ CloseModal \/ Arrive
       \/ \E s \in Slots : Progress(s) \/ RequestFails(s)

Spec == Init /\ [][Next]_vars

-----------------------------------------------------------------------------

TypeOK ==
    /\ tables \in [rows : 0 .. MaxSubmits]
    /\ view \in [page : {"form"}, form : Forms, agents : BOOLEAN, complete : BOOLEAN,
                 loading : BOOLEAN, error : BOOLEAN, answer : BOOLEAN, leaving : BOOLEAN]
    /\ \A s \in Slots :
          task[s] \in {Idle} \cup [at : {"sent", "sent, page gone", "served"}]
    /\ faults \in 0 .. MaxFaults
    /\ past \in [submits : 0 .. MaxSubmits, again : 0 .. MaxSubmits, left : Nat]

\* One visit of a form makes one row: a second one is explained by a request
\* that failed after it was served, by a submit under the dialog or while the
\* browser was on its way to the next page, or by a new visit.
RowsAreExplained ==
    Here => tables.rows <= 1 + faults + past.again + past.left

\* The button that a submit disabled is live again, or the browser has left.
FormComesBack ==
    (Here /\ view.loading) ~> (Here /\ ~view.loading)
=============================================================================
