--------------------------------- MODULE Page ---------------------------------
(***************************************************************************)
(* What the pages of the console have in common.  A page is a React        *)
(* component: `view` is its state and `tables` the rows its requests read  *)
(* and write.  Every event handler, effect and timer callback is an async  *)
(* function; a call of one is an entry of `task` until it ends, and between *)
(* two of its awaits any other task, the user and the server may run.  An  *)
(* answer therefore holds what the server read, not what is true when the  *)
(* page applies it, and answers arrive in any order.                       *)
(*                                                                         *)
(* view.page names the page on the screen: the modules of the pages share  *)
(* these variables, and each acts only where its own page is shown.        *)
(***************************************************************************)
EXTENDS Integers, FiniteSets

CONSTANTS
    Slots,          \* bound on async calls in flight
    None,           \* null
    MaxFaults       \* bound on requests that fail or whose answer is lost

VARIABLES tables, view, task, faults, past   \* past is history, for properties

vars == <<tables, view, task, faults, past>>

Idle == [at |-> "idle"]
At(s, stage) == task[s].at = stage
Quiet == \A s \in Slots : At(s, "idle")

\* A handler is called: the call takes the first free slot.
Call(t) ==
    \E s \in Slots : /\ At(s, "idle")
                     /\ \A r \in Slots : r < s => ~At(r, "idle")
                     /\ task' = [task EXCEPT ![s] = t]

Goto(s, stage) == task' = [task EXCEPT ![s].at = stage]
Ends(s) == task' = [task EXCEPT ![s] = Idle]

\* A page is loaded: the calls of the one before are gone.
Alone(t) == [s \in Slots |-> IF \A r \in Slots : s <= r THEN t ELSE Idle]
OnlyOneCall(t) == task = Alone(t)

\* fetch rejects: the request never arrived, the server refused it or its
\* answer was lost.
Fault ==
    /\ faults < MaxFaults
    /\ faults' = faults + 1
=============================================================================
