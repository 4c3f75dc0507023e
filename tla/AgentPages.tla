------------------------------ MODULE AgentPages ------------------------------
(***************************************************************************)
(* The pages of the console that act on agents and vaults: the keys of an   *)
(* agent, the control panel, the setup of an agent and the forms.  One of   *)
(* them is on the screen; which, the initial state says.                    *)
(***************************************************************************)
EXTENDS Page

CONSTANTS
    FewSlots,       \* bound on async calls in flight, the setup page apart
    ApiKeys,        \* rows of api_keys, 1 .. n in the order of insertion
    Agents,         \* rows of agents, on the control panel
    MaxVaults,      \* bound on vaults rows
    MaxStrategies,  \* bound on strategies rows
    MaxSubmits      \* bound on the clicks of a submit button

Keys    == INSTANCE KeysPage WITH Slots <- FewSlots, Keys <- ApiKeys
Control == INSTANCE ControlPage WITH Slots <- FewSlots
Setup   == INSTANCE AgentSetupPage
Forms   == INSTANCE FormPages WITH Slots <- FewSlots

\* There is a slot, null is a value of its own, and the bounds are numbers.  A
\* strategy may be there from the start.
ASSUME AgentAssumption ==
    /\ FewSlots \subseteq Nat /\ IsFiniteSet(FewSlots) /\ FewSlots # {}
    /\ MaxFaults \in Nat /\ MaxVaults \in Nat /\ MaxSubmits \in Nat
    /\ MaxStrategies \in Nat \ {0}
    /\ None \notin ApiKeys /\ None \notin Keys!KeyList
    /\ None \notin Agents /\ None \notin Control!AgentList /\ None \notin Control!Actions
    /\ None \notin (0 .. MaxVaults) \cup (0 .. MaxStrategies)

Init == Keys!Init \/ Control!Init \/ Setup!Init \/ Forms!Init
Next == Keys!Next \/ Control!Next \/ Setup!Next \/ Forms!Next

\* Requests are answered or fail, and callbacks run: the browser and the server
\* keep going.  Nothing is asked of the user.
Progress(s) ==
    \/ Setup!Progress(s)
    \/ s \in FewSlots /\ (Keys!Progress(s) \/ Control!Progress(s) \/ Forms!Progress(s))

Spec == Init /\ [][Next]_vars /\ \A s \in Slots : WF_vars(Progress(s))

\* The state of the page on the screen is of the form its module gives.
TypeOK ==
    \/ Keys!Here /\ Keys!TypeOK
    \/ Control!Here /\ Control!TypeOK
    \/ Setup!Here /\ Setup!TypeOK
    \/ Forms!Here /\ Forms!TypeOK

\* A secret that is shown once is not replaced before it was shown.
NoSecretOverwritten == Keys!NoSecretOverwritten

\* A list at rest is the table's, with the exceptions its module names.
ListsAreFresh == Keys!QuietListIsFresh /\ Control!QuietListIsFresh

\* The control panel's buttons do not undo a revocation, with the exceptions its
\* module names.
ButtonsKeepRevocation == Control!ButtonsKeepRevocation

\* The step of the setup page is backed by strategies and vaults of the tables.
StepsAreBacked == Setup!StepsAreBacked

\* No step makes a second row without a reason that the modules name: not of a
\* strategy, and not of what the forms make.
DuplicatesAreExplained == [][Setup!SecondStrategyIsExplained /\ Forms!RowsAreExplained']_vars

\* What a click began comes to an end that the user sees: the secret is shown,
\* the buttons and the form are live again, the strategy is noticed.
ClicksComeToAnEnd ==
    /\ Keys!SecretIsShown
    /\ Control!ButtonsComeBack
    /\ Setup!StrategyIsNoticed
    /\ Forms!FormComesBack
=============================================================================
