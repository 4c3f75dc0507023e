---------------------------- MODULE AgentSetupPage ----------------------------
(***************************************************************************)
(* /agents/[id]/setup: fund, define a strategy, activate                   *)
(* (app/(dashboard)/agents/[id]/setup/page.tsx).                           *)
(*                                                                         *)
(* The two API clients are made anew in every render and are dependencies  *)
(* of the effect that loads the page: every render starts another load and *)
(* every load that succeeds renders again, so the page never stops loading *)
(* and each answer, however old, sets the step and the vault again.        *)
(***************************************************************************)
EXTENDS Page

CONSTANTS
    MaxVaults,      \* bound on vaults rows; v is the v-th, listed newest first
    MaxStrategies   \* bound on strategies rows of the agent

Here == view.page = "setup"

Load == [at |-> "loading", vaults |-> None, strategies |-> None]

Init ==
    /\ \E v \in 0 .. MaxVaults, s \in 0 .. 1, status \in {"paused", "revoked"} :
          tables = [status |-> status, vaults |-> v, strategies |-> s, link |-> None]
    /\ view = [page |-> "setup", step |-> "funds", agent |-> FALSE, vaults |-> 0, selected |-> 0,
               strategies |-> 0, loading |-> FALSE, error |-> FALSE, left |-> FALSE]
    /\ OnlyOneCall(Load)
    /\ faults = 0
    /\ past = [wentBack |-> FALSE]

Shown == Here /\ view.agent /\ ~view.left

\* saveStrategy and activate share the flag `loading` and one slot, the last;
\* the loads, which never become fewer, have the others.
Handler == CHOOSE s \in Slots : \A r \in Slots : r <= s
FreeForLoad(calls) == {s \in Slots \ {Handler} : calls[s] = Idle}

\* Slip: the effect runs when the page is mounted and never again.
EffectOnce(calls) == calls

\* Every render runs the effect, and the effect starts a load.
Rendered(calls) ==
    [s \in Slots |-> IF s \in FreeForLoad(calls) /\ \A r \in FreeForLoad(calls) : s <= r
                    THEN Load ELSE calls[s]]

-----------------------------------------------------------------------------
(* The effect *)

\* Of the three requests getAgent has no action: what it reads, the name, does
\* not change.
ReadVaults(s) ==
    /\ At(s, "loading") /\ task[s].vaults = None
    /\ task' = [task EXCEPT ![s].vaults = tables.vaults]
    /\ UNCHANGED <<tables, view, faults, past>>

ReadStrategies(s) ==
    /\ At(s, "loading") /\ task[s].strategies = None
    /\ task' = [task EXCEPT ![s].strategies = tables.strategies]
    /\ UNCHANGED <<tables, view, faults, past>>

StepAfterLoad(s) ==
    IF task[s].strategies > 0 THEN "activate"
    ELSE IF task[s].vaults > 0 THEN "strategy" ELSE view.step

\* The first vault of the list is selected again, whatever was selected.
Loaded(s) ==
    /\ At(s, "loading") /\ task[s].vaults # None /\ task[s].strategies # None
    /\ view' = [view EXCEPT !.agent = TRUE, !.vaults = task[s].vaults,
                            !.strategies = task[s].strategies, !.step = StepAfterLoad(s),
                            !.selected = IF task[s].vaults > 0 THEN task[s].vaults ELSE @]
    /\ task' = Rendered([task EXCEPT ![s] = Idle])
    /\ past' = [past EXCEPT !.wentBack = @ \/ task[s].strategies < tables.strategies]
    /\ UNCHANGED <<tables, faults>>

\* An error that is already on the page renders nothing, and the loop ends.
LoadFails(s) ==
    /\ At(s, "loading")
    /\ Fault
    /\ view' = [view EXCEPT !.error = TRUE]
    /\ task' = IF view.error THEN [task EXCEPT ![s] = Idle] ELSE Rendered([task EXCEPT ![s] = Idle])
    /\ UNCHANGED <<tables, past>>

-----------------------------------------------------------------------------
(* The three steps.  The select of the funds step has no action: its list is  *)
(* always empty (StepsAreBacked).                                    *)

Continue ==
    /\ Shown /\ view.step = "funds"
    /\ view' = [view EXCEPT !.step = "strategy"]
    /\ task' = Rendered(task)
    /\ UNCHANGED <<tables, faults, past>>

\* A handler starts: its own call, and the load of the render it causes.
Begins(t) ==
    /\ view' = [view EXCEPT !.loading = TRUE, !.error = FALSE]
    /\ task' = Rendered([task EXCEPT ![Handler] = t])
    /\ UNCHANGED <<tables, faults, past>>

SaveStrategy ==
    /\ Shown /\ view.step = "strategy" /\ ~view.loading
    /\ tables.strategies < MaxStrategies
    /\ Begins([at |-> "saving"])

SaveServed(s) ==
    /\ At(s, "saving")
    /\ tables' = [tables EXCEPT !.strategies = @ + 1]
    /\ Goto(s, "saved")
    /\ UNCHANGED <<view, faults, past>>

SaveAnswered(s) ==
    /\ At(s, "saved")
    /\ view' = [view EXCEPT !.strategies = 1, !.step = "activate", !.loading = FALSE]
    /\ task' = Rendered([task EXCEPT ![s] = Idle])
    /\ UNCHANGED <<tables, faults, past>>

Activate ==
    /\ Shown /\ view.step = "activate" /\ ~view.loading
    /\ Begins([at |-> "activating", vault |-> view.selected])

\* activate_agent: it needs a strategy, links the vault if one was sent, and
\* leaves a revoked agent as it is (404).
ActivateServed(s) ==
    /\ At(s, "activating") /\ tables.strategies > 0
    /\ tables' = [tables EXCEPT !.link = IF task[s].vault > 0 THEN task[s].vault ELSE @,
                                !.status = IF @ = "revoked" THEN @ ELSE "active"]
    /\ Goto(s, IF tables.status = "revoked" THEN "refused" ELSE "activated")
    /\ UNCHANGED <<view, faults, past>>

\* router.push: the page is unmounted, what is still in flight is ignored.
ActivateAnswered(s) ==
    /\ At(s, "activated")
    /\ view' = [view EXCEPT !.left = TRUE, !.loading = FALSE]
    /\ task' = [r \in Slots |-> Idle]
    /\ UNCHANGED <<tables, faults, past>>

\* Slip: a failure moves on as a success does.
FailsForward(v) == [v EXCEPT !.error = TRUE, !.loading = FALSE, !.step = "activate"]

Failed(v) == [v EXCEPT !.error = TRUE, !.loading = FALSE]

Refused(s) ==
    /\ \/ At(s, "refused")
       \/ At(s, "activating") /\ tables.strategies = 0
    /\ view' = Failed(view)
    /\ task' = Rendered([task EXCEPT ![s] = Idle])
    /\ UNCHANGED <<tables, faults, past>>

RequestFails(s) ==
    /\ task[s].at \in {"saving", "saved", "activating", "activated"}
    /\ Fault
    /\ view' = Failed(view)
    /\ task' = Rendered([task EXCEPT ![s] = Idle])
    /\ UNCHANGED <<tables, past>>

\* The owner creates a vault in another tab, as the funds step suggests.
VaultCreatedElsewhere ==
    /\ tables.vaults < MaxVaults
    /\ tables' = [tables EXCEPT !.vaults = @ + 1]
    /\ UNCHANGED <<view, task, faults, past>>

Progress(s) ==
    /\ Here
    /\ \/ ReadVaults(s) \/ ReadStrategies(s) \/ Loaded(s)
       \/ SaveServed(s) \/ SaveAnswered(s) \/ ActivateServed(s) \/ ActivateAnswered(s)
       \/ Refused(s)

Next ==
    /\ Here /\ ~view.left
    /\ \/ Continue \/ SaveStrategy \/ Activate \/ VaultCreatedElsewhere
       \/ \E s \in Slots : Progress(s) \/ LoadFails(s) \/ RequestFails(s)

Spec == Init /\ [][Next]_vars

-----------------------------------------------------------------------------

TypeOK ==
    /\ tables \in [status : {"paused", "active", "revoked"}, vaults : 0 .. MaxVaults,
                   strategies : 0 .. MaxStrategies, link : 1 .. MaxVaults \cup {None}]
    /\ view \in [page : {"setup"}, step : {"funds", "strategy", "activate"}, agent : BOOLEAN,
                 vaults : 0 .. MaxVaults, selected : 0 .. MaxVaults,
                 strategies : 0 .. MaxStrategies, loading : BOOLEAN, error : BOOLEAN,
                 left : BOOLEAN]
    /\ \A s \in Slots :
          task[s] \in
            {Idle}
            \cup [at : {"saving", "saved"}]
            \cup [at : {"activating", "activated", "refused"}, vault : 0 .. MaxVaults]
            \cup [at : {"loading"}, vaults : 0 .. MaxVaults \cup {None},
                  strategies : 0 .. MaxStrategies \cup {None}]
    /\ past \in [wentBack : BOOLEAN]
    /\ faults \in 0 .. MaxFaults

\* Each step is backed by what it needs, however old the answers are that set
\* it.  The page offers to activate only an agent that has a strategy.  And the
\* funds step, the only one with the list of vaults, is left as soon as the list
\* is not empty, with no button that leads back: the owner never gets to choose,
\* and what is linked is the newest vault of a list that was read.
StepsAreBacked ==
    /\ Here /\ view.step = "activate" => tables.strategies > 0
    /\ Here /\ view.step = "funds" => view.vaults = 0 /\ view.selected = 0

\* Of a step: a second strategy is saved only because an answer that was older
\* than the first one sent the page back, or because a request failed.
SecondStrategyIsExplained ==
    (Here /\ tables.strategies > 0 /\ tables'.strategies > tables.strategies)
    => past.wentBack \/ faults > 0

\* A strategy that is in the table, also one whose answer was lost, is noticed
\* by the page, unless the loop of loads has died of two failures in a row.
StrategyIsNoticed ==
    (Here /\ tables.strategies > 0)
    ~> (Here /\ (view.step = "activate" \/ view.left \/ faults >= 2))
=============================================================================
