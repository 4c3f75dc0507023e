----------------------------- MODULE ControlPage -----------------------------
(***************************************************************************)
(* /control: the list of the user's agents with buttons that pause, resume *)
(* and revoke them (app/(dashboard)/control/page.tsx).                     *)
(***************************************************************************)
EXTENDS Page

CONSTANTS Agents    \* rows of agents

Here == view.page = "control"

Status == {"active", "paused", "revoked"}
AgentList == [Agents -> Status]
Actions == {"pause", "resume", "revoke"}

Mounting == [at |-> "listing", agent |-> None, fn |-> None, list |-> None]

\* The effect asks for the list once, when the page is mounted.
Init ==
    /\ tables \in [Agents -> {"active", "paused"}]
    /\ view = [page |-> "control", list |-> None, loading |-> None]
    /\ OnlyOneCall(Mounting)
    /\ faults = 0
    /\ past = [overlapped |-> FALSE, elsewhere |-> FALSE]

\* Two calls that were made at once: the answer of one may undo the other.
NoteOverlap ==
    past' = [past EXCEPT !.overlapped =
                @ \/ Cardinality({s \in Slots : task'[s].at # "idle"}) > 1]

-----------------------------------------------------------------------------

Row(a) == view.list[a]

\* A slip: the buttons do not depend on the status.
OffersAnything(a, fn) == view.list # None

\* The buttons of a card: which are there depends on the status, and they are
\* disabled while `loading` is the id of this agent.
Offers(a, fn) ==
    /\ view.list # None
    /\ CASE fn = "pause"  -> Row(a) = "active"
         [] fn = "resume" -> Row(a) = "paused"
         [] fn = "revoke" -> Row(a) # "revoked"

Click(a, fn) ==
    /\ Offers(a, fn) /\ view.loading # a
    /\ Call([at |-> "acting", agent |-> a, fn |-> fn, list |-> None])
    /\ NoteOverlap
    /\ view' = [view EXCEPT !.loading = a]
    /\ UNCHANGED <<tables, faults>>

\* pause_agent and revoke_agent ask nothing of the status, resume_agent asks
\* for a paused agent and answers 404 otherwise.
Accepts(fn, status) == fn = "resume" => status = "paused"

\* A slip: the status is the word on the button.
BecomesTheVerb(fn) ==
    CASE fn = "pause" -> "paused" [] fn = "resume" -> "resumed" [] fn = "revoke" -> "revoked"

Becomes(fn) ==
    CASE fn = "pause" -> "paused" [] fn = "resume" -> "active" [] fn = "revoke" -> "revoked"

Served(s) ==
    /\ At(s, "acting") /\ Accepts(task[s].fn, tables[task[s].agent])
    /\ tables' = [tables EXCEPT ![task[s].agent] = Becomes(task[s].fn)]
    /\ Goto(s, "acted")
    /\ UNCHANGED <<view, faults, past>>

\* A slip: the list is not asked for again.
KeepsList(s) ==
    /\ At(s, "acted")
    /\ Ends(s)
    /\ view' = [view EXCEPT !.loading = None]
    /\ UNCHANGED <<tables, faults, past>>

\* The answer of the action is in; now the list is asked for.
Answered(s) ==
    /\ At(s, "acted")
    /\ Goto(s, "listing")
    /\ UNCHANGED <<tables, view, faults, past>>

ReadList(s) ==
    /\ At(s, "listing") /\ task[s].list = None
    /\ task' = [task EXCEPT ![s].list = tables]
    /\ UNCHANGED <<tables, view, faults, past>>

\* `finally`: whoever ends clears the flag, also another's.
Cleared(v, s) == IF task[s].fn = None THEN v ELSE [v EXCEPT !.loading = None]

Listed(s) ==
    /\ At(s, "listing") /\ task[s].list # None
    /\ Ends(s)
    /\ view' = Cleared([view EXCEPT !.list = task[s].list], s)
    /\ UNCHANGED <<tables, faults, past>>

Refused(s) ==
    /\ At(s, "acting") /\ ~Accepts(task[s].fn, tables[task[s].agent])
    /\ Ends(s)
    /\ view' = Cleared(view, s)
    /\ UNCHANGED <<tables, faults, past>>

RequestFails(s) ==
    /\ ~At(s, "idle")
    /\ Fault
    /\ Ends(s)
    /\ view' = Cleared(view, s)
    /\ UNCHANGED <<tables, past>>

\* The owner revokes an agent in another tab.
RevokedElsewhere(a) ==
    /\ tables[a] # "revoked" /\ ~past.elsewhere
    /\ tables' = [tables EXCEPT ![a] = "revoked"]
    /\ past' = [past EXCEPT !.elsewhere = TRUE]
    /\ UNCHANGED <<view, task, faults>>

Progress(s) ==
    Here /\ (Served(s) \/ Answered(s) \/ ReadList(s) \/ Listed(s) \/ Refused(s))

Next ==
    /\ Here
    /\ \/ \E a \in Agents : RevokedElsewhere(a) \/ \E fn \in Actions : Click(a, fn)
       \/ \E s \in Slots : Progress(s) \/ RequestFails(s)

Spec == Init /\ [][Next]_vars

-----------------------------------------------------------------------------

TypeOK ==
    /\ tables \in AgentList
    /\ view \in [page : {"control"}, list : AgentList \cup {None}, loading : Agents \cup {None}]
    /\ \A s \in Slots :
          task[s] \in {Idle} \cup
                      [at : {"acting", "acted", "listing"}, agent : Agents \cup {None},
                       fn : Actions \cup {None}, list : AgentList \cup {None}]
    /\ faults \in 0 .. MaxFaults
    /\ past \in [overlapped : BOOLEAN, elsewhere : BOOLEAN]

\* `loading` is one id for the whole page and pause_agent asks nothing of the
\* status, so a pause that a revocation overtakes, or that is clicked on a list
\* that is behind because an answer failed or another tab revoked, brings the
\* agent back.  Without any of the three the buttons never undo a revocation.
ButtonsKeepRevocation ==
    [][(Here /\ ~past.overlapped /\ ~past.elsewhere /\ faults = 0)
       => \A a \in Agents : tables[a] = "revoked" => tables'[a] = "revoked"]_vars

\* "Pause, resume, or revoke agent capabilities in real time": once nothing is
\* in flight the list shows the table, unless a request failed, another tab was
\* at work or calls overlapped; nothing asks again.
QuietListIsFresh ==
    (Here /\ Quiet /\ faults = 0 /\ ~past.elsewhere /\ ~past.overlapped) => view.list = tables

\* A button that was disabled by a click is live again, whatever fails.
ButtonsComeBack ==
    \A a \in Agents : (Here /\ view.loading = a) ~> (Here /\ view.loading # a)
=============================================================================
