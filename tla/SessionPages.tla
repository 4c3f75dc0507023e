----------------------------- MODULE SessionPages -----------------------------
(***************************************************************************)
(* The session and what is watched with it: the sign-in, the pages that the *)
(* server renders, the demo page that polls, the setup of a wallet on chain *)
(* and the client object of the SDK.  The initial state says which of them  *)
(* is there.                                                                *)
(***************************************************************************)
EXTENDS Page

CONSTANTS
    Accounts,       \* wallet addresses that sign in
    Nonces,         \* rows of auth_nonces, 1 .. n in the order of insertion
    MaxLoads,       \* bound on full loads of the page
    Agents,         \* rows of agents, on the pages of the server
    DemoAgents,     \* rows of agents, 1 .. n, on the demo page
    MaxExecutions,  \* bound on executions rows of an agent
    Window,         \* LIMIT of the queries of demo_activity
    MaxVaults,      \* bound on vaults on chain
    Tokens          \* owners' tokens

SignIn == INSTANCE SignInPage
Server == INSTANCE ServerPages
Demo   == INSTANCE DemoPage WITH Agents <- DemoAgents
Wallet == INSTANCE WalletSetupPage
Client == INSTANCE ShieldClient

\* null is a value of its own, as is the API key, and the bound is a number.
ASSUME SessionAssumption ==
    /\ Slots \subseteq Nat /\ IsFiniteSet(Slots) /\ MaxFaults \in Nat /\ MaxVaults \in Nat
    /\ None \notin Tokens \cup SignIn!Token
    /\ None \notin [ownerCap : Wallet!Objects, vault : Wallet!Objects]
    /\ None \notin {"active", "paused", "page", "login"}
    /\ Agents \cap (Server!Lists \cup {"vault"}) = {}
    /\ DemoAgents \subseteq Nat /\ IsFiniteSet(DemoAgents)
    /\ MaxExecutions \in Nat /\ Window \in Nat
    /\ None \notin [agent : DemoAgents, row : 1 .. MaxExecutions, result : Demo!Results]
    /\ Client!ApiKey \notin Tokens

Init == SignIn!Init \/ Server!Init \/ Demo!Init \/ Wallet!Init \/ Client!Init
Next == SignIn!Next \/ Server!Next \/ Demo!Next \/ Wallet!Next \/ Client!Next

\* Requests are answered or fail, callbacks run, and the timer goes on.
Progress(s) ==
    \/ SignIn!Progress(s) \/ Server!Progress(s) \/ Demo!Progress(s)
    \/ Wallet!Progress(s) \/ Client!Progress(s)

Spec == Init /\ [][Next]_vars /\ \A s \in Slots : WF_vars(Progress(s))

\* The state that is there is of the form its module gives.
TypeOK ==
    \/ SignIn!Here /\ SignIn!TypeOK
    \/ Server!Here /\ Server!TypeOK
    \/ Demo!Here /\ Demo!TypeOK
    \/ Wallet!Here /\ Wallet!TypeOK
    \/ Client!Here /\ Client!TypeOK

\* A signed nonce is good for one token, or for one in each of the verifications
\* that read it before the first marked it.
OneTokenPerNonce == SignIn!OneTokenPerNonce

\* The cookie and local storage hold one session, and the owner whom the sidebar
\* names is the one whose token is kept.
SessionIsOne == SignIn!StoresAgree /\ SignIn!OwnerShownIsSession

\* What a page of the server says is true of the tables: that there is nothing,
\* that nothing has happened yet, that there is no session.
PagesTellTheTruth ==
    /\ Server!EmptyStatesAreTrue
    /\ Server!PanelsAgree
    /\ Server!LoginMeansNoSession

\* The dialog of the demo page is about an execution that the table has and that
\* was not approved, while polls replace the list under it.
DetailIsBacked == Demo!DetailIsBacked

\* The rows of the on-chain wallets and the objects on chain match: a row names
\* one vault, its OwnerCap and its cap; a vault without a row is that of a call
\* that broke off or is running.
RowsMatchObjects == Wallet!RowsNameOneWallet /\ Wallet!LostVaultsAreExplained

\* The client object holds the token it was given last.
TokenIsPutBack == Client!TokenIsPutBack

\* The provider knows in the end whether there is a session, and the demo page
\* catches up with the tables and stays there.
PagesSettle == SignIn!ProviderSettles /\ Demo!PollCatchesUp
=============================================================================
