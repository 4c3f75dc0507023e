------------------------- MODULE SessionPagesProofs -------------------------
(***************************************************************************)
(* What the session and the pages watched with it promise, for every number*)
(* of accounts, nonces, agents, rows and calls in flight.                  *)
(*                                                                         *)
(* One page is on the screen (view.page), and the invariant of the         *)
(* composition says which and that its own invariant holds.  For each page *)
(* three lemmas: its invariant holds where it starts (..Starts), each of its*)
(* steps keeps it (..Moves), and it gives what the page promises           *)
(* (..Promises).  The theorems about Spec are at the end.                  *)
(***************************************************************************)
EXTENDS WalletSetupProofs, SumLemmas

-----------------------------------------------------------------------------
(* SIGNING IN: what has which type, and what a call knows. *)

LEMMA SlotsAreOrdered == \A s, r \in Slots : s <= r /\ r <= s => s = r
  <1>1. Slots \subseteq Nat
    BY SessionAssumption
  <1>2. \A m, n \in Nat : m <= n /\ n <= m => m = n
    OBVIOUS
  <1> QED BY <1>1, <1>2

SignInTaskRecord ==
    [at : {"challenge", "signing", "verify", "checked", "verified", "me", "known"},
     call : {"provider", "login", "left", "resent"}, address : Accounts \cup {None},
     signer : Accounts \cup {None}, nonce : Nonces \cup {None}, token : SignIn!Token \cup {None}]

\* A call knows by its stage who signs in, with which nonce, and the token.
SignInKnows(t) ==
    /\ t.at \in {"challenge", "signing", "verify", "checked", "verified"} => t.address \in Accounts
    /\ t.at \in {"signing", "verify", "checked", "verified"} => t.nonce \in Nonces
    /\ t.at \in {"verified", "me", "known"} => t.token \in SignIn!Token

SignInGoodTask == {t \in SignInTaskRecord : SignInKnows(t)} \cup {SignIn!Idle}

SignInViewType == [page : {"session"}, on : {"login", "console"}, account : Accounts \cup {None},
             user : Accounts \cup {None}, store : SignIn!Token \cup {None},
             cookie : SignIn!Token \cup {None}, loading : BOOLEAN, signing : BOOLEAN]

SignInPastType == [issued : [Nonces -> Nat], raced : SUBSET Nonces, crossed : BOOLEAN, loads : Nat]

SignInTyped ==
    /\ tables \in [nonces : [Nonces -> {"none", "fresh", "used", "expired"}],
                   dead : SUBSET (Nonces \cup {0})]
    /\ view \in SignInViewType
    /\ task \in [Slots -> SignInGoodTask]
    /\ past \in SignInPastType

\* A call that is on its way is a whole record that knows what its stage needs.
LEMMA SignInTaskIsRecord ==
  ASSUME task \in [Slots -> SignInGoodTask], NEW s \in Slots, ~SignIn!At(s, "idle")
  PROVE  task[s] \in SignInTaskRecord /\ SignInKnows(task[s])
  BY DEF SignIn!At, SignIn!Idle, SignInGoodTask

LEMMA SignInEndType ==
  ASSUME task \in [Slots -> SignInGoodTask], NEW s \in Slots, SignIn!Ends(s)
  PROVE  task' \in [Slots -> SignInGoodTask]
  BY DEF SignIn!Ends, SignInGoodTask

LEMMA SignInCallType ==
  ASSUME task \in [Slots -> SignInGoodTask], NEW t \in SignInGoodTask, SignIn!Call(t)
  PROVE  task' \in [Slots -> SignInGoodTask]
  BY DEF SignIn!Call

LEMMA SignInLeftType ==
  ASSUME task \in [Slots -> SignInGoodTask]
  PROVE  /\ SignIn!Left \in [Slots -> SignInGoodTask]
         /\ \A s \in Slots : /\ SignIn!Left[s].at = task[s].at
                             /\ SignIn!Left[s].at # "idle" => SignIn!Left[s].nonce = task[s].nonce
  <1> SUFFICES ASSUME NEW s \in Slots
               PROVE  /\ SignIn!Left[s] \in SignInGoodTask /\ SignIn!Left[s].at = task[s].at
                      /\ SignIn!Left[s].at # "idle" => SignIn!Left[s].nonce = task[s].nonce
    BY DEF SignIn!Left
  <1>1. CASE task[s].at # "idle" /\ task[s].call = "login"
    <2>1. task[s] \in SignInTaskRecord /\ SignInKnows(task[s])
      BY <1>1, SignInTaskIsRecord DEF SignIn!At
    <2>2. SignIn!Left[s] = [task[s] EXCEPT !.call = "left"]
      BY <1>1 DEF SignIn!Left
    <2>3. SignIn!Left[s] \in SignInTaskRecord
      BY <2>1, <2>2 DEF SignInTaskRecord
    <2>4. /\ SignIn!Left[s].at = task[s].at /\ SignIn!Left[s].nonce = task[s].nonce
          /\ SignIn!Left[s].address = task[s].address /\ SignIn!Left[s].token = task[s].token
      BY <2>1, <2>2 DEF SignInTaskRecord
    <2>5. SignInKnows(SignIn!Left[s])
      BY <2>1, <2>4 DEF SignInKnows
    <2> QED BY <2>3, <2>4, <2>5 DEF SignInGoodTask
  <1>2. CASE ~(task[s].at # "idle" /\ task[s].call = "login")
    BY <1>2 DEF SignIn!Left
  <1> QED BY <1>1, <1>2

\* What the stores and a load of the page do to the view.
LEMMA SignInViewSteps ==
  ASSUME NEW v \in SignInViewType
  PROVE  /\ SignIn!Mounted(v) \in SignInViewType
         /\ SignIn!ClearToken(v) \in SignInViewType
         /\ \A token \in SignIn!Token : SignIn!SetToken(v, token) \in SignInViewType
         /\ \A call : SignIn!Failed(v, call) \in SignInViewType
         /\ SignIn!GetToken(v) \in SignIn!Token \cup {None}
  <1>1. SignIn!ClearToken(v) \in SignInViewType
    BY DEF SignIn!ClearToken, SignInViewType
  <1>2. \A token \in SignIn!Token : SignIn!SetToken(v, token) \in SignInViewType
    BY DEF SignIn!SetToken, SignInViewType
  <1>3. SignIn!GetToken(v) \in SignIn!Token \cup {None}
    BY DEF SignIn!GetToken, SignInViewType
  <1>4. SignIn!Mounted(v) \in SignInViewType
    BY DEF SignIn!Mounted, SignInViewType
  <1>5. ASSUME NEW call PROVE SignIn!Failed(v, call) \in SignInViewType
    BY <1>1 DEF SignIn!Failed, SignInViewType
  <1> QED BY <1>1, <1>2, <1>3, <1>4, <1>5

LEMMA SignInAsksType ==
  ASSUME NEW v \in SignInViewType, SignIn!GetToken(v) # None
  PROVE  SignIn!Asks(v) \in SignInGoodTask
  <1>1. SignIn!GetToken(v) \in SignIn!Token
    BY SignInViewSteps
  <1> QED BY <1>1 DEF SignIn!Asks, SignIn!SignIn, SignInGoodTask, SignInTaskRecord,
             SignInKnows

LEMMA SignInAloneType ==
  ASSUME NEW t \in SignInGoodTask
  PROVE  SignIn!Alone(t) \in [Slots -> SignInGoodTask]
  BY DEF SignIn!Alone, SignInGoodTask

LEMMA SignInInitTyped == ASSUME SignIn!Init PROVE SignInTyped
  <1>1. PICK a \in Accounts, store, cookie \in BOOLEAN, dead \in SUBSET {0} :
          /\ tables = [nonces |-> [n \in Nonces |-> "none"], dead |-> dead]
          /\ view = SignIn!Mounted([page |-> "session", on |-> "login", account |-> a, user |-> None,
                             store  |-> IF store THEN SignIn!Earlier(a) ELSE None,
                             cookie |-> IF cookie THEN SignIn!Earlier(a) ELSE None,
                             loading |-> TRUE, signing |-> FALSE])
          /\ task = SignIn!Alone(IF store THEN SignIn!Asks(view) ELSE SignIn!Idle)
    BY DEF SignIn!Init, SignIn!OnlyOneCall
  <1>2. SignIn!Earlier(a) \in SignIn!Token
    BY DEF SignIn!Earlier, SignIn!Token
  <1>3. [page |-> "session", on |-> "login", account |-> a, user |-> None,
         store  |-> IF store THEN SignIn!Earlier(a) ELSE None,
         cookie |-> IF cookie THEN SignIn!Earlier(a) ELSE None,
         loading |-> TRUE, signing |-> FALSE] \in SignInViewType
    BY <1>2 DEF SignInViewType
  <1>4. view \in SignInViewType
    BY <1>1, <1>3, SignInViewSteps
  <1>5. store => SignIn!GetToken(view) \in SignIn!Token
    BY <1>1, <1>2 DEF SignIn!GetToken, SignIn!Mounted
  <1>6. (IF store THEN SignIn!Asks(view) ELSE SignIn!Idle) \in SignInGoodTask
    BY <1>4, <1>5 DEF SignIn!Asks, SignIn!SignIn, SignInGoodTask, SignInTaskRecord,
       SignInKnows
  <1>7. task \in [Slots -> SignInGoodTask]
    BY <1>1, <1>6, SignInAloneType
  <1>8. past \in SignInPastType
    BY DEF SignIn!Init, SignInPastType
  <1> QED BY <1>1, <1>4, <1>7, <1>8 DEF SignInTyped

LEMMA SignInTypedStep == ASSUME SignInTyped, [SignIn!Next]_vars PROVE SignInTyped'
  <1>0. /\ task \in [Slots -> SignInGoodTask] /\ view \in SignInViewType /\ past \in SignInPastType
        /\ tables \in [nonces : [Nonces -> {"none", "fresh", "used", "expired"}],
                       dead : SUBSET (Nonces \cup {0})]
    BY DEF SignInTyped
  <1>1. ASSUME NEW a \in Accounts \cup {None}, SignIn!Connect(a) PROVE SignInTyped'
    BY <1>0, <1>1 DEF SignIn!Connect, SignInTyped, SignInViewType
  <1>2. ASSUME SignIn!HandleSignIn PROVE SignInTyped'
    <2>1. SignIn!SignIn("login", view.account) \in SignInGoodTask
      BY <1>0, <1>2 DEF SignIn!HandleSignIn, SignIn!SignIn, SignInGoodTask,
         SignInTaskRecord, SignInKnows, SignInViewType
    <2>2. task' \in [Slots -> SignInGoodTask]
      BY <1>0, <1>2, <2>1, SignInCallType DEF SignIn!HandleSignIn
    <2> QED BY <1>0, <1>2, <2>2 DEF SignIn!HandleSignIn, SignInTyped, SignInViewType,
               SignInPastType
  <1>3. ASSUME NEW s \in Slots, SignIn!ChallengeServed(s) PROVE SignInTyped'
    <2>1. task[s] \in SignInTaskRecord /\ task[s].address \in Accounts
      BY <1>0, <1>3, SignInTaskIsRecord DEF SignIn!ChallengeServed, SignIn!At, SignInKnows
    <2>2. PICK n \in Nonces :
              /\ tables' = [tables EXCEPT !.nonces[n] = "fresh"]
              /\ task' = [task EXCEPT ![s].at = "signing", ![s].nonce = n]
      BY <1>3 DEF SignIn!ChallengeServed
    <2>3. [task[s] EXCEPT !.at = "signing", !.nonce = n] \in SignInGoodTask
      BY <2>1 DEF SignInGoodTask, SignInTaskRecord, SignInKnows
    <2>4. task' \in [Slots -> SignInGoodTask]
      BY <1>0, <2>2, <2>3
    <2> QED BY <1>0, <1>3, <2>2, <2>4 DEF SignIn!ChallengeServed, SignInTyped
  <1>4. ASSUME NEW s \in Slots, SignIn!Sign(s) PROVE SignInTyped'
    <2>1. task[s] \in SignInTaskRecord /\ task[s].address \in Accounts /\ task[s].nonce \in Nonces
      BY <1>0, <1>4, SignInTaskIsRecord DEF SignIn!Sign, SignIn!At, SignInKnows
    <2>2. [task[s] EXCEPT !.at = "verify", !.signer = view.account] \in SignInGoodTask
      BY <1>0, <2>1 DEF SignInGoodTask, SignInTaskRecord, SignInKnows, SignInViewType
    <2> QED BY <1>0, <1>4, <2>2 DEF SignIn!Sign, SignInTyped
  <1>5. ASSUME NEW s \in Slots, SignIn!Fails(s)
        PROVE  task' \in [Slots -> SignInGoodTask] /\ view' \in SignInViewType
    BY <1>0, <1>5, SignInEndType, SignInViewSteps DEF SignIn!Fails
  <1>6. ASSUME NEW s \in Slots, SignIn!Refuse(s) \/ SignIn!VerifyRefuses(s) PROVE SignInTyped'
    BY <1>0, <1>5, <1>6 DEF SignIn!Refuse, SignIn!VerifyRefuses, SignInTyped
  <1>7. ASSUME NEW s \in Slots, SignIn!ReadNonce(s) PROVE SignInTyped'
    <2>1. task[s] \in SignInTaskRecord /\ task[s].address \in Accounts /\ task[s].nonce \in Nonces
      BY <1>0, <1>7, SignInTaskIsRecord DEF SignIn!ReadNonce, SignIn!At, SignInKnows
    <2>2. [task[s] EXCEPT !.at = "checked"] \in SignInGoodTask
      BY <2>1 DEF SignInGoodTask, SignInTaskRecord, SignInKnows
    <2>3. past' \in SignInPastType
      BY <1>0, <1>7, <2>1 DEF SignIn!ReadNonce, SignInPastType
    <2> QED BY <1>0, <1>7, <2>2, <2>3 DEF SignIn!ReadNonce, SignIn!Goto, SignInTyped
  <1>8. ASSUME NEW s \in Slots, SignIn!IssueToken(s) PROVE SignInTyped'
    <2>1. task[s] \in SignInTaskRecord /\ task[s].address \in Accounts /\ task[s].nonce \in Nonces
      BY <1>0, <1>8, SignInTaskIsRecord DEF SignIn!IssueToken, SignIn!At, SignInKnows
    <2>2. [owner |-> task[s].address, of |-> task[s].nonce] \in SignIn!Token
      BY <2>1 DEF SignIn!Token
    <2>3. [task[s] EXCEPT !.at = "verified",
                          !.token = [owner |-> task[s].address, of |-> task[s].nonce]]
             \in SignInGoodTask
      BY <2>1, <2>2 DEF SignInGoodTask, SignInTaskRecord, SignInKnows
    <2>4. task' \in [Slots -> SignInGoodTask]
      BY <1>0, <1>8, <2>3, SignInEndType DEF SignIn!IssueToken
    <2>5. past' \in SignInPastType
      BY <1>0, <1>8, <2>1 DEF SignIn!IssueToken, SignInPastType
    <2> QED BY <1>0, <1>8, <2>1, <2>4, <2>5 DEF SignIn!IssueToken, SignInTyped
  <1>9. ASSUME NEW s \in Slots, SignIn!Resent(s) PROVE SignInTyped'
    <2> DEFINE t == [task[s] EXCEPT !.call = "resent", !.at = "verify", !.token = None]
    <2>1. task[s] \in SignInTaskRecord /\ task[s].address \in Accounts /\ task[s].nonce \in Nonces
      BY <1>0, <1>9, SignInTaskIsRecord DEF SignIn!Resent, SignIn!At, SignInKnows
    <2>2. t \in SignInGoodTask
      BY <2>1 DEF SignInGoodTask, SignInTaskRecord, SignInKnows
    <2>3. SignIn!Call(t) /\ UNCHANGED <<tables, view, past>>
      BY <1>9 DEF SignIn!Resent
    <2> HIDE DEF t
    <2> QED BY <1>0, <2>2, <2>3, SignInCallType DEF SignInTyped
  <1>10. ASSUME NEW s \in Slots, SignIn!VerifyAnswered(s) PROVE SignInTyped'
    <2>1. task[s] \in SignInTaskRecord /\ task[s].token \in SignIn!Token
      BY <1>0, <1>10, SignInTaskIsRecord DEF SignIn!VerifyAnswered, SignIn!At, SignInKnows
    <2>2. [task[s] EXCEPT !.at = "me"] \in SignInGoodTask
      BY <2>1 DEF SignInGoodTask, SignInTaskRecord, SignInKnows
    <2>3. view' \in SignInViewType
      BY <1>0, <1>10, <2>1, SignInViewSteps DEF SignIn!VerifyAnswered
    <2>4. past' \in SignInPastType
      BY <1>0, <1>10 DEF SignIn!VerifyAnswered, SignInPastType
    <2> QED BY <1>0, <1>10, <2>2, <2>3, <2>4 DEF SignIn!VerifyAnswered, SignIn!Goto,
               SignInTyped
  <1>11. ASSUME NEW s \in Slots, SignIn!MeServed(s) PROVE SignInTyped'
    <2>1. task[s] \in SignInTaskRecord /\ task[s].token \in SignIn!Token
      BY <1>0, <1>11, SignInTaskIsRecord DEF SignIn!MeServed, SignIn!At, SignInKnows
    <2>2. [task[s] EXCEPT !.at = "known"] \in SignInGoodTask
      BY <2>1 DEF SignInGoodTask, SignInTaskRecord, SignInKnows
    <2>3. task' \in [Slots -> SignInGoodTask] /\ view' \in SignInViewType
      BY <1>0, <1>5, <1>11, <2>2 DEF SignIn!MeServed, SignIn!Goto
    <2>4. past' \in SignInPastType
      BY <1>0, <1>11 DEF SignIn!MeServed, SignInPastType
    <2> QED BY <1>0, <1>11, <2>3, <2>4 DEF SignIn!MeServed, SignInTyped
  <1>12. ASSUME NEW s \in Slots, SignIn!MeAnswered(s) PROVE SignInTyped'
    <2>1. task[s].token \in SignIn!Token
      BY <1>0, <1>12, SignInTaskIsRecord DEF SignIn!MeAnswered, SignIn!At, SignInKnows
    <2>2. task' \in [Slots -> SignInGoodTask]
      BY <1>0, <1>12, SignInEndType, SignInLeftType DEF SignIn!MeAnswered, SignInGoodTask
    <2>3. view' \in SignInViewType
      <3>1. task[s].token.owner \in Accounts
        BY <2>1 DEF SignIn!Token
      <3>2. SignIn!Opened("console") \in SignInViewType
        BY <1>0 DEF SignIn!Opened, SignInViewType
      <3>3. \A v \in SignInViewType : /\ [v EXCEPT !.user = task[s].token.owner, !.loading = FALSE]
                                    \in SignInViewType
                                /\ [v EXCEPT !.user = task[s].token.owner, !.signing = FALSE]
                                    \in SignInViewType
        BY <3>1 DEF SignInViewType
      <3> QED BY <1>0, <1>12, <3>2, <3>3 DEF SignIn!MeAnswered
    <2> QED BY <1>0, <1>12, <2>2, <2>3 DEF SignIn!MeAnswered, SignInTyped
  <1>13. ASSUME NEW s \in Slots, SignIn!RequestFails(s) PROVE SignInTyped'
    <2>1. past' \in SignInPastType
      BY <1>0, <1>13 DEF SignIn!RequestFails, SignInPastType
    <2> QED BY <1>0, <1>5, <1>13, <2>1 DEF SignIn!RequestFails, SignInTyped
  <1>14. ASSUME NEW on \in {"console", "login"}, SignIn!Follow(on) PROVE SignInTyped'
    <2>1. view' \in SignInViewType
      BY <1>0, <1>14 DEF SignIn!Follow, SignIn!Opened, SignInViewType
    <2> QED BY <1>0, <1>14, <2>1, SignInLeftType DEF SignIn!Follow, SignInTyped
  <1>15. ASSUME NEW v \in SignInViewType, SignIn!ReloadedAs(v) PROVE SignInTyped'
    <2>1. (IF SignIn!GetToken(v) # None THEN SignIn!Asks(v) ELSE SignIn!Idle) \in SignInGoodTask
      BY SignInAsksType DEF SignInGoodTask
    <2>2. task' \in [Slots -> SignInGoodTask]
      BY <1>15, <2>1, SignInAloneType DEF SignIn!ReloadedAs
    <2>3. view' \in SignInViewType
      BY <1>15, SignInViewSteps DEF SignIn!ReloadedAs
    <2>4. past' \in SignInPastType
      <3>1. past.loads + 1 \in Nat
        BY <1>0 DEF SignInPastType
      <3> QED BY <1>0, <1>15, <3>1, Zenon DEF SignIn!ReloadedAs, SignInPastType
    <2> QED BY <1>0, <1>15, <2>2, <2>3, <2>4 DEF SignIn!ReloadedAs, SignInTyped
  <1>16. ASSUME SignIn!Reload \/ SignIn!Logout PROVE SignInTyped'
    <2>1. [SignIn!ClearToken(view) EXCEPT !.on = "login"] \in SignInViewType
      BY <1>0 DEF SignIn!ClearToken, SignInViewType
    <2> QED BY <1>0, <1>15, <1>16, <2>1 DEF SignIn!Reload, SignIn!Logout
  <1>17. ASSUME SignIn!TimePasses PROVE SignInTyped'
    <2>1. CASE \E n \in Nonces : /\ tables' = [tables EXCEPT !.nonces[n] = "expired"]
                                 /\ UNCHANGED view
      BY <1>0, <1>17, <2>1 DEF SignIn!TimePasses, SignInTyped
    <2>2. CASE /\ view.store # None
               /\ tables' = [tables EXCEPT !.dead = @ \cup {view.store.of}] /\ UNCHANGED view
      <3>1. view.store.of \in Nonces \cup {0}
        BY <1>0, <2>2 DEF SignInViewType, SignIn!Token
      <3> QED BY <1>0, <1>17, <2>2, <3>1 DEF SignIn!TimePasses, SignInTyped
    <2>3. CASE view' = [view EXCEPT !.cookie = None] /\ UNCHANGED tables
      BY <1>0, <1>17, <2>3 DEF SignIn!TimePasses, SignInTyped, SignInViewType
    <2> QED BY <1>17, <2>1, <2>2, <2>3 DEF SignIn!TimePasses
  <1>18. CASE UNCHANGED vars
    BY <1>0, <1>18 DEF vars, SignInTyped
  <1> QED
    BY <1>1, <1>2, <1>3, <1>4, <1>6, <1>7, <1>8, <1>9, <1>10, <1>11, <1>12, <1>13, <1>14,
       <1>16, <1>17, <1>18
    DEF SignIn!Next, SignIn!Progress

-----------------------------------------------------------------------------
(* One token for a nonce *)

\* Between the read of the nonce and the update of used_at a request is alone
\* with it, or the nonce has been raced for.  A token is issued to one of those
\* that are between the two, and nobody enters once the first was issued.
Checking(s, n) == SignIn!At(s, "checked") /\ task[s].nonce = n
CheckingNow(n) == {s \in Slots : Checking(s, n)}

NonceInv ==
    \A n \in Nonces :
        /\ tables.nonces[n] \in {"none", "fresh"} => past.issued[n] = 0
        /\ n \notin past.raced =>
              /\ past.issued[n] <= 1
              /\ \A s \in Slots : Checking(s, n) =>
                    past.issued[n] = 0 /\ \A r \in Slots \ {s} : ~Checking(r, n)
        /\ past.issued[n] + Cardinality(CheckingNow(n)) <= Cardinality(Slots)

\* A set of calls is finite, and a smaller one has no more members.
LEMMA SomeCalls ==
  ASSUME NEW S \in SUBSET Slots, NEW T \in SUBSET S
  PROVE  /\ Cardinality(S) \in Nat /\ Cardinality(T) \in Nat /\ Cardinality(Slots) \in Nat
         /\ Cardinality(T) <= Cardinality(S) /\ Cardinality(S) <= Cardinality(Slots)
         /\ IsFiniteSet(S)
  <1>1. IsFiniteSet(Slots)
    BY SessionAssumption
  <1>2. IsFiniteSet(S) /\ Cardinality(S) <= Cardinality(Slots)
    BY <1>1, FS_Subset
  <1>3. IsFiniteSet(T) /\ Cardinality(T) <= Cardinality(S)
    BY <1>2, FS_Subset
  <1> QED BY <1>1, <1>2, <1>3, FS_CardinalityType

\* As many tokens, and no new check of the nonce: the bound is kept.
LEMMA BoundKept ==
  ASSUME NonceInv, NEW n \in Nonces, past.issued[n] \in Nat, past'.issued[n] = past.issued[n],
         \A s \in Slots : Checking(s, n)' => Checking(s, n)
  PROVE  past'.issued[n] + Cardinality(CheckingNow(n)') <= Cardinality(Slots)
  <1>1. past.issued[n] + Cardinality(CheckingNow(n)) <= Cardinality(Slots)
    BY DEF NonceInv
  <1>2. CheckingNow(n) \in SUBSET Slots /\ CheckingNow(n)' \in SUBSET CheckingNow(n)
    BY DEF CheckingNow
  <1>3. /\ Cardinality(CheckingNow(n)) \in Nat /\ Cardinality(CheckingNow(n)') \in Nat
        /\ Cardinality(CheckingNow(n)') <= Cardinality(CheckingNow(n))
        /\ Cardinality(Slots) \in Nat
    BY <1>2, SomeCalls
  <1>4. \A i, c, d, m \in Nat : i + c <= m /\ d <= c => i + d <= m
    OBVIOUS
  <1> QED BY <1>1, <1>3, <1>4

\* Steps that check no nonce and issue no token.
LEMMA NoVerification ==
  ASSUME SignInTyped, NonceInv, past'.issued = past.issued, past'.raced = past.raced,
         \A n \in Nonces : tables'.nonces[n] \in {"none", "fresh"}
                              => tables.nonces[n] \in {"none", "fresh"},
         \A s \in Slots : SignIn!At(s, "checked")' => SignIn!At(s, "checked") /\ task'[s].nonce = task[s].nonce
  PROVE  NonceInv'
  <1>1. \A n \in Nonces : past.issued[n] \in Nat
    BY DEF SignInTyped, SignInPastType
  <1>2. \A s \in Slots, n \in Nonces : Checking(s, n)' => Checking(s, n)
    BY DEF Checking, SignIn!At
  <1>3. \A n \in Nonces : past'.issued[n] + Cardinality(CheckingNow(n)') <= Cardinality(Slots)
    BY <1>1, <1>2, BoundKept
  <1> QED BY <1>2, <1>3 DEF NonceInv

LEMMA NonceStep == ASSUME SignInTyped, NonceInv, [SignIn!Next]_vars PROVE NonceInv'
  <1>0. /\ task \in [Slots -> SignInGoodTask] /\ past \in SignInPastType
        /\ tables \in [nonces : [Nonces -> {"none", "fresh", "used", "expired"}],
                       dead : SUBSET (Nonces \cup {0})]
    BY DEF SignInTyped
  <1>1. ASSUME NEW s \in Slots, SignIn!ReadNonce(s) PROVE NonceInv'
    <2> DEFINE m == task[s].nonce
    <2>1. task[s] \in SignInTaskRecord /\ m \in Nonces /\ tables.nonces[m] = "fresh"
      BY <1>0, <1>1, SignInTaskIsRecord DEF SignIn!ReadNonce, SignIn!At, SignInKnows,
         SignIn!Usable
    <2>2. /\ task'[s].at = "checked" /\ task'[s].nonce = m /\ task[s].at = "verify"
          /\ \A r \in Slots \ {s} : task'[r] = task[r]
      BY <1>0, <1>1, <2>1 DEF SignIn!ReadNonce, SignIn!Goto, SignIn!At, SignInTaskRecord
    <2>3. /\ past'.issued = past.issued /\ past.raced \subseteq past'.raced /\ UNCHANGED tables
          /\ m \notin past'.raced => \A r \in Slots : ~Checking(r, m)
      BY <1>0, <1>1 DEF SignIn!ReadNonce, SignInPastType, Checking
    <2>4. ASSUME NEW n \in Nonces, n \notin past'.raced, NEW r \in Slots, Checking(r, n)'
          PROVE  past'.issued[n] = 0 /\ \A q \in Slots \ {r} : ~Checking(q, n)'
      <3>1. CASE n = m
        <4>1. \A q \in Slots \ {s} : ~Checking(q, n)'
          BY <2>2, <2>3, <2>4, <3>1 DEF Checking, SignIn!At
        <4>2. r = s
          BY <2>4, <4>1 DEF Checking, SignIn!At
        <4> QED BY <2>1, <2>3, <3>1, <4>1, <4>2 DEF NonceInv
      <3>2. CASE n # m
        <4>1. r # s /\ Checking(r, n)
          BY <2>2, <2>4, <3>2 DEF Checking, SignIn!At
        <4>2. past.issued[n] = 0 /\ \A q \in Slots \ {r} : ~Checking(q, n)
          BY <2>3, <2>4, <4>1 DEF NonceInv
        <4>3. \A q \in Slots \ {r} : ~Checking(q, n)'
          <5> TAKE q \in Slots \ {r}
          <5>1. CASE q = s
            BY <2>2, <3>2, <5>1 DEF Checking, SignIn!At
          <5>2. CASE q # s
            BY <2>2, <4>2, <5>2 DEF Checking, SignIn!At
          <5> QED BY <5>1, <5>2
        <4> QED BY <2>3, <4>2, <4>3
      <3> QED BY <3>1, <3>2
    <2> HIDE DEF m
    <2>5. ASSUME NEW n \in Nonces
          PROVE  past'.issued[n] + Cardinality(CheckingNow(n)') <= Cardinality(Slots)
      <3>1. CASE n = m
        <4>1. past'.issued[n] = 0
          BY <2>1, <2>3, <3>1 DEF NonceInv
        <4>2. CheckingNow(n)' \in SUBSET Slots
          BY DEF CheckingNow
        <4>3. Cardinality(CheckingNow(n)') \in Nat /\ Cardinality(CheckingNow(n)') <= Cardinality(Slots)
          BY <4>2, SomeCalls
        <4> QED BY <4>1, <4>3
      <3>2. CASE n # m
        <4>1. \A r \in Slots : Checking(r, n)' => Checking(r, n)
          BY <2>2, <3>2 DEF Checking, SignIn!At
        <4>2. past.issued[n] \in Nat /\ past'.issued[n] = past.issued[n]
          BY <1>0, <2>3 DEF SignInPastType
        <4> QED BY <4>1, <4>2, BoundKept
      <3> QED BY <3>1, <3>2
    <2> QED BY <2>3, <2>4, <2>5 DEF NonceInv
  <1>2. ASSUME NEW s \in Slots, SignIn!IssueToken(s) PROVE NonceInv'
    <2> DEFINE m == task[s].nonce
    <2>1. task[s] \in SignInTaskRecord /\ m \in Nonces /\ Checking(s, m)
      BY <1>0, <1>2, SignInTaskIsRecord DEF SignIn!IssueToken, SignIn!At, SignInKnows,
         Checking
    <2>2. /\ tables'.nonces = [tables.nonces EXCEPT ![m] = "used"]
          /\ past'.issued = [past.issued EXCEPT ![m] = @ + 1]
          /\ past'.raced = past.raced
      BY <1>0, <1>2 DEF SignIn!IssueToken, SignInPastType
    <2>3. \A r \in Slots \ {s} : task'[r] = task[r]
      BY <1>0, <1>2 DEF SignIn!IssueToken, SignIn!Ends
    <2>4. task'[s].at # "checked"
      BY <1>0, <1>2, <2>1 DEF SignIn!IssueToken, SignIn!Ends, SignIn!Idle, SignInTaskRecord
    <2>5. past.issued \in [Nonces -> Nat] /\ tables.nonces \in [Nonces -> {"none", "fresh", "used", "expired"}]
      BY <1>0 DEF SignInPastType
    <2>6. ASSUME NEW n \in Nonces
          PROVE  /\ tables'.nonces[n] \in {"none", "fresh"} => past'.issued[n] = 0
                 /\ n \notin past'.raced => past'.issued[n] <= 1
      BY <2>1, <2>2, <2>5 DEF NonceInv
    <2>7. ASSUME NEW n \in Nonces, n \notin past'.raced, NEW r \in Slots, Checking(r, n)'
          PROVE  past'.issued[n] = 0 /\ \A q \in Slots \ {r} : ~Checking(q, n)'
      <3>1. r # s /\ Checking(r, n)
        BY <2>3, <2>4, <2>7 DEF Checking, SignIn!At
      <3>2. /\ past.issued[n] = 0
            /\ \A q \in Slots \ {r} : ~Checking(q, n)
        BY <2>2, <2>7, <3>1 DEF NonceInv
      <3>3. n # m
        BY <2>1, <3>1, <3>2
      <3>4. \A q \in Slots \ {r} : ~Checking(q, n)'
        BY <2>3, <2>4, <3>2 DEF Checking, SignIn!At
      <3> QED BY <2>2, <2>5, <3>2, <3>3, <3>4
    <2> HIDE DEF m
    <2>8. ASSUME NEW n \in Nonces
          PROVE  past'.issued[n] + Cardinality(CheckingNow(n)') <= Cardinality(Slots)
      <3>0. \A r \in Slots : Checking(r, n)' => Checking(r, n) /\ r # s
        BY <2>3, <2>4 DEF Checking, SignIn!At
      <3>1. CASE n = m
        <4>1. CheckingNow(n) \in SUBSET Slots /\ s \in CheckingNow(n)
              /\ CheckingNow(n)' \in SUBSET (CheckingNow(n) \ {s})
          BY <2>1, <3>0, <3>1 DEF CheckingNow
        <4>2. /\ IsFiniteSet(CheckingNow(n)) /\ Cardinality(CheckingNow(n)) \in Nat
              /\ Cardinality(Slots) \in Nat
          BY <4>1, SomeCalls
        <4>3. Cardinality(CheckingNow(n) \ {s}) = Cardinality(CheckingNow(n)) - 1
          BY <4>1, <4>2, FS_RemoveElement
        <4>4. /\ Cardinality(CheckingNow(n) \ {s}) \in Nat /\ Cardinality(CheckingNow(n)') \in Nat
              /\ Cardinality(CheckingNow(n)') <= Cardinality(CheckingNow(n) \ {s})
          BY <4>1, SomeCalls
        <4>5. past.issued[n] \in Nat /\ past'.issued[n] = past.issued[n] + 1
          BY <2>2, <2>5, <3>1
        <4>6. past.issued[n] + Cardinality(CheckingNow(n)) <= Cardinality(Slots)
          BY DEF NonceInv
        <4>7. \A i, c, d, e, k \in Nat : i + c <= k /\ e = c - 1 /\ d <= e => (i + 1) + d <= k
          OBVIOUS
        <4> QED BY <4>2, <4>3, <4>4, <4>5, <4>6, <4>7
      <3>2. CASE n # m
        <4>1. past.issued[n] \in Nat /\ past'.issued[n] = past.issued[n]
          BY <2>1, <2>2, <2>5, <3>2
        <4> QED BY <3>0, <4>1, BoundKept
      <3> QED BY <3>1, <3>2
    <2> QED BY <2>6, <2>7, <2>8 DEF NonceInv
  <1>3. ASSUME NEW s \in Slots,
               SignIn!ChallengeServed(s) \/ SignIn!Sign(s) \/ SignIn!VerifyAnswered(s) \/ SignIn!MeServed(s)
        PROVE  NonceInv'
    <2>1. task[s] \in SignInTaskRecord
      BY <1>0, <1>3, SignInTaskIsRecord DEF SignIn!ChallengeServed, SignIn!Sign,
         SignIn!VerifyAnswered, SignIn!MeServed, SignIn!At
    <2>2. \A r \in Slots \ {s} : task'[r] = task[r]
      BY <1>0, <1>3 DEF SignIn!ChallengeServed, SignIn!Sign, SignIn!VerifyAnswered,
         SignIn!MeServed, SignIn!Goto, SignIn!Fails, SignIn!Ends
    <2>3. task'[s].at # "checked"
      <3>1. CASE SignIn!ChallengeServed(s)
        BY <1>0, <2>1, <3>1 DEF SignIn!ChallengeServed, SignInTaskRecord
      <3>2. CASE SignIn!Sign(s)
        BY <1>0, <2>1, <3>2 DEF SignIn!Sign, SignInTaskRecord
      <3>3. CASE SignIn!VerifyAnswered(s)
        BY <1>0, <2>1, <3>3 DEF SignIn!VerifyAnswered, SignIn!Goto, SignInTaskRecord
      <3>4. CASE SignIn!MeServed(s)
        BY <1>0, <2>1, <3>4 DEF SignIn!MeServed, SignIn!Goto, SignIn!Fails, SignIn!Ends,
           SignIn!Idle, SignInTaskRecord
      <3> QED BY <1>3, <3>1, <3>2, <3>3, <3>4
    <2>4. past'.issued = past.issued /\ past'.raced = past.raced
      BY <1>0, <1>3 DEF SignIn!ChallengeServed, SignIn!Sign, SignIn!VerifyAnswered,
         SignIn!MeServed, SignInPastType
    <2>5. \A n \in Nonces : tables'.nonces[n] \in {"none", "fresh"}
                               => tables.nonces[n] \in {"none", "fresh"}
      BY <1>0, <1>3 DEF SignIn!ChallengeServed, SignIn!Sign, SignIn!VerifyAnswered,
         SignIn!MeServed
    <2>6. \A r \in Slots : SignIn!At(r, "checked")' => SignIn!At(r, "checked") /\ task'[r].nonce = task[r].nonce
      BY <2>2, <2>3 DEF SignIn!At
    <2> QED BY <2>4, <2>5, <2>6, NoVerification
  <1>4. ASSUME NEW s \in Slots, SignIn!Refuse(s) \/ SignIn!VerifyRefuses(s) \/ SignIn!RequestFails(s) PROVE NonceInv'
    <2>1. /\ SignIn!Ends(s) /\ UNCHANGED tables
          /\ past'.issued = past.issued /\ past'.raced = past.raced
      BY <1>0, <1>4 DEF SignIn!Refuse, SignIn!VerifyRefuses, SignIn!RequestFails,
         SignIn!Fails, SignInPastType
    <2>2. \A r \in Slots : SignIn!At(r, "checked")' => SignIn!At(r, "checked") /\ task'[r].nonce = task[r].nonce
      BY <1>0, <2>1 DEF SignIn!Ends, SignIn!Idle, SignIn!At
    <2> QED BY <2>1, <2>2, NoVerification
  <1>5. ASSUME NEW s \in Slots, SignIn!Resent(s) PROVE NonceInv'
    <2> DEFINE t == [task[s] EXCEPT !.call = "resent", !.at = "verify", !.token = None]
    <2>1. task[s] \in SignInTaskRecord
      BY <1>0, <1>5, SignInTaskIsRecord DEF SignIn!Resent, SignIn!At
    <2>2. t.at = "verify"
      BY <2>1 DEF SignInTaskRecord
    <2>3. PICK r \in Slots : task' = [task EXCEPT ![r] = t]
      BY <1>5 DEF SignIn!Resent, SignIn!Call
    <2> HIDE DEF t
    <2>4. \A q \in Slots : SignIn!At(q, "checked")' => SignIn!At(q, "checked") /\ task'[q].nonce = task[q].nonce
      BY <1>0, <2>2, <2>3 DEF SignIn!At
    <2> QED BY <1>5, <2>4, NoVerification DEF SignIn!Resent
  <1>6. ASSUME SignIn!HandleSignIn PROVE NonceInv'
    <2>1. PICK s \in Slots : task' = [task EXCEPT ![s] = SignIn!SignIn("login", view.account)]
      BY <1>6 DEF SignIn!HandleSignIn, SignIn!Call
    <2>2. \A q \in Slots : SignIn!At(q, "checked")' => SignIn!At(q, "checked") /\ task'[q].nonce = task[q].nonce
      BY <1>0, <2>1 DEF SignIn!At, SignIn!SignIn
    <2>3. past'.issued = past.issued /\ past'.raced = past.raced /\ UNCHANGED tables
      BY <1>0, <1>6 DEF SignIn!HandleSignIn, SignInPastType
    <2> QED BY <2>2, <2>3, NoVerification
  <1>7. ASSUME NEW s \in Slots, SignIn!MeAnswered(s) PROVE NonceInv'
    <2>1. \A q \in Slots : SignIn!At(q, "checked")' => SignIn!At(q, "checked") /\ task'[q].nonce = task[q].nonce
      <3>1. CASE task' = [SignIn!Left EXCEPT ![s] = SignIn!Idle]
        BY <1>0, <3>1, SignInLeftType DEF SignIn!At, SignIn!Idle
      <3>2. CASE SignIn!Ends(s)
        BY <1>0, <3>2 DEF SignIn!Ends, SignIn!Idle, SignIn!At
      <3> QED BY <1>7, <3>1, <3>2 DEF SignIn!MeAnswered
    <2> QED BY <1>7, <2>1, NoVerification DEF SignIn!MeAnswered
  <1>8. ASSUME NEW on \in {"console", "login"}, SignIn!Follow(on) PROVE NonceInv'
    <2>1. \A q \in Slots : SignIn!At(q, "checked")' => SignIn!At(q, "checked") /\ task'[q].nonce = task[q].nonce
      BY <1>0, <1>8, SignInLeftType DEF SignIn!Follow, SignIn!At
    <2> QED BY <1>8, <2>1, NoVerification DEF SignIn!Follow
  <1>9. ASSUME SignIn!Reload \/ SignIn!Logout PROVE NonceInv'
    <2>1. PICK v : SignIn!ReloadedAs(v)
      BY <1>9 DEF SignIn!Reload, SignIn!Logout
    <2>2. \A q \in Slots : ~SignIn!At(q, "checked")'
      BY <2>1 DEF SignIn!ReloadedAs, SignIn!Alone, SignIn!Asks, SignIn!SignIn,
         SignIn!Idle, SignIn!At
    <2>3. past'.issued = past.issued /\ past'.raced = past.raced /\ UNCHANGED tables
      BY <1>0, <2>1 DEF SignIn!ReloadedAs, SignInPastType
    <2> QED BY <2>2, <2>3, NoVerification
  <1>10. ASSUME SignIn!TimePasses PROVE NonceInv'
    <2>1. \A n \in Nonces : tables'.nonces[n] \in {"none", "fresh"}
                               => tables.nonces[n] \in {"none", "fresh"}
      BY <1>0, <1>10 DEF SignIn!TimePasses
    <2> QED BY <1>10, <2>1, NoVerification DEF SignIn!TimePasses, SignIn!At
  <1>11. ASSUME NEW a \in Accounts \cup {None}, SignIn!Connect(a) PROVE NonceInv'
    BY <1>11, NoVerification DEF SignIn!Connect, SignIn!At
  <1>12. CASE UNCHANGED vars
    BY <1>12, NoVerification DEF vars, SignIn!At
  <1> QED
    BY <1>1, <1>2, <1>3, <1>4, <1>5, <1>6, <1>7, <1>8, <1>9, <1>10, <1>11, <1>12
    DEF SignIn!Next, SignIn!Progress

-----------------------------------------------------------------------------
(* One session *)

\* A call that somebody waits for; the second delivery of a request is not.
Waited(s) == ~SignIn!At(s, "idle") /\ task[s].call # "resent"

\* The second delivery of a request is only a verification, and the provider
\* only asks who the token belongs to.
CallsInPlace ==
    \A s \in Slots : ~SignIn!At(s, "idle") =>
        /\ task[s].call = "resent" => task[s].at \in {"verify", "checked"}
        /\ task[s].call = "provider" => task[s].at \in {"me", "known"}

\* While no two calls cross there is one at most.  If it asks about a token, it
\* is the one that is kept, and otherwise the user is the one of that token.
OneSession ==
    ~past.crossed =>
        /\ \A s, r \in Slots : Waited(s) /\ Waited(r) => s = r
        /\ \A s \in Slots : SignIn!AskingMe(s) => task[s].token = view.store
        /\ \A s \in Slots : Waited(s) /\ task[s].call = "provider" => view.user = None
        /\ (view.user # None /\ \A s \in Slots : ~SignIn!AskingMe(s))
              => view.store # None /\ view.store.owner = view.user

LEMMA CallsInPlaceStep == ASSUME SignInTyped, CallsInPlace, [SignIn!Next]_vars PROVE CallsInPlace'
  <1>0. /\ task \in [Slots -> SignInGoodTask]
        /\ \A s \in Slots : ~SignIn!At(s, "idle") => task[s] \in SignInTaskRecord
    BY SignInTaskIsRecord DEF SignInTyped
  <1> DEFINE InPlace(t) == t.at # "idle" =>
                              /\ t.call = "resent" => t.at \in {"verify", "checked"}
                              /\ t.call = "provider" => t.at \in {"me", "known"}
  <1>1. ASSUME NEW s \in Slots, NEW t, InPlace(t), task' = [task EXCEPT ![s] = t]
        PROVE  CallsInPlace'
    BY <1>0, <1>1 DEF CallsInPlace, SignIn!At
  <1>2. ASSUME NEW s \in Slots, SignIn!Ends(s) PROVE CallsInPlace'
    BY <1>1, <1>2 DEF SignIn!Ends, SignIn!Idle
  <1>3. ASSUME UNCHANGED task PROVE CallsInPlace'
    BY <1>3 DEF CallsInPlace, SignIn!At
  <1>4. ASSUME SignIn!HandleSignIn PROVE CallsInPlace'
    BY <1>1, <1>4 DEF SignIn!HandleSignIn, SignIn!Call, SignIn!SignIn
  <1>5. ASSUME NEW s \in Slots, SignIn!ChallengeServed(s) PROVE CallsInPlace'
    <2>1. PICK n \in Nonces : task' = [task EXCEPT ![s].at = "signing", ![s].nonce = n]
      BY <1>5 DEF SignIn!ChallengeServed
    <2>2. InPlace([task[s] EXCEPT !.at = "signing", !.nonce = n])
      BY <1>0, <1>5 DEF SignIn!ChallengeServed, CallsInPlace, SignIn!At, SignInTaskRecord
    <2> QED BY <1>0, <1>1, <2>1, <2>2
  <1>6. ASSUME NEW s \in Slots, SignIn!Sign(s) PROVE CallsInPlace'
    <2>1. InPlace([task[s] EXCEPT !.at = "verify", !.signer = view.account])
      BY <1>0, <1>6 DEF SignIn!Sign, CallsInPlace, SignIn!At, SignInTaskRecord
    <2> QED BY <1>0, <1>1, <1>6, <2>1 DEF SignIn!Sign
  <1>7. ASSUME NEW s \in Slots, SignIn!ReadNonce(s) PROVE CallsInPlace'
    <2>1. InPlace([task[s] EXCEPT !.at = "checked"])
      BY <1>0, <1>7 DEF SignIn!ReadNonce, CallsInPlace, SignIn!At, SignInTaskRecord
    <2> QED BY <1>0, <1>1, <1>7, <2>1 DEF SignIn!ReadNonce, SignIn!Goto
  <1>8. ASSUME NEW s \in Slots, SignIn!IssueToken(s) PROVE CallsInPlace'
    <2> DEFINE t == [task[s] EXCEPT !.at = "verified",
                                    !.token = [owner |-> task[s].address, of |-> task[s].nonce]]
    <2>1. task[s].call # "resent" => InPlace(t)
      BY <1>0, <1>8 DEF SignIn!IssueToken, CallsInPlace, SignIn!At, SignInTaskRecord
    <2>2. task[s].call # "resent" => task' = [task EXCEPT ![s] = t]
      BY <1>0, <1>8 DEF SignIn!IssueToken
    <2> HIDE DEF t, InPlace
    <2> QED BY <1>1, <1>2, <1>8, <2>1, <2>2 DEF SignIn!IssueToken
  <1>9. ASSUME NEW s \in Slots, SignIn!Resent(s) PROVE CallsInPlace'
    <2> DEFINE t == [task[s] EXCEPT !.call = "resent", !.at = "verify", !.token = None]
    <2>1. InPlace(t)
      BY <1>0, <1>9 DEF SignIn!Resent, SignIn!SigningIn, SignIn!At, SignInTaskRecord
    <2> HIDE DEF t, InPlace
    <2>2. SignIn!Call(t)
      BY <1>9 DEF SignIn!Resent, t
    <2> QED BY <1>1, <2>1, <2>2 DEF SignIn!Call
  <1>10. ASSUME NEW s \in Slots, SignIn!VerifyAnswered(s) PROVE CallsInPlace'
    <2>1. InPlace([task[s] EXCEPT !.at = "me"])
      BY <1>0, <1>10 DEF SignIn!VerifyAnswered, CallsInPlace, SignIn!At, SignInTaskRecord
    <2> QED BY <1>0, <1>1, <1>10, <2>1 DEF SignIn!VerifyAnswered, SignIn!Goto
  <1>11. ASSUME NEW s \in Slots, SignIn!MeServed(s) PROVE CallsInPlace'
    <2>1. InPlace([task[s] EXCEPT !.at = "known"])
      BY <1>0, <1>11 DEF SignIn!MeServed, CallsInPlace, SignIn!At, SignInTaskRecord
    <2>2. CASE SignIn!Fails(s)
      BY <1>2, <2>2 DEF SignIn!Fails
    <2>3. CASE SignIn!Goto(s, "known")
      BY <1>0, <1>1, <2>1, <2>3 DEF SignIn!Goto
    <2> QED BY <1>11, <2>2, <2>3 DEF SignIn!MeServed
  <1>12. ASSUME NEW s \in Slots, SignIn!Fails(s) PROVE CallsInPlace'
    BY <1>2, <1>12 DEF SignIn!Fails
  <1>13. /\ CallsInPlace /\ task \in [Slots -> SignInGoodTask]
         /\ \A r \in Slots : InPlace(SignIn!Left[r])
    <2>1. ASSUME NEW r \in Slots PROVE InPlace(SignIn!Left[r])
      <3>1. CASE task[r].at # "idle" /\ task[r].call = "login"
        <4>1. task[r] \in SignInTaskRecord
          BY <1>0, <3>1 DEF SignIn!At
        <4>2. SignIn!Left[r] = [task[r] EXCEPT !.call = "left"]
          BY <3>1 DEF SignIn!Left
        <4>3. SignIn!Left[r].call = "left"
          BY <4>1, <4>2 DEF SignInTaskRecord
        <4> QED BY <4>3
      <3>2. CASE ~(task[r].at # "idle" /\ task[r].call = "login")
        BY <3>2 DEF SignIn!Left, CallsInPlace, SignIn!At
      <3> QED BY <3>1, <3>2
    <2> QED BY <1>0, <2>1
  <1>14. ASSUME NEW s \in Slots, SignIn!MeAnswered(s) PROVE CallsInPlace'
    <2>1. CASE SignIn!Ends(s)
      BY <1>2, <2>1
    <2>2. CASE task' = [SignIn!Left EXCEPT ![s] = SignIn!Idle]
      <3>1. \A r \in Slots : task'[r] \in {SignIn!Left[r], SignIn!Idle}
        BY <1>0, <2>2, SignInLeftType
      <3> QED BY <1>13, <3>1 DEF CallsInPlace, SignIn!At, SignIn!Idle
    <2> QED BY <1>14, <2>1, <2>2 DEF SignIn!MeAnswered
  <1>15. ASSUME NEW on \in {"console", "login"}, SignIn!Follow(on) PROVE CallsInPlace'
    BY <1>13, <1>15 DEF SignIn!Follow, CallsInPlace, SignIn!At
  <1>16. ASSUME NEW v, SignIn!ReloadedAs(v) PROVE CallsInPlace'
    BY <1>16 DEF SignIn!ReloadedAs, SignIn!Alone, SignIn!Asks, SignIn!SignIn, SignIn!Idle,
                 CallsInPlace, SignIn!At
  <1> HIDE DEF InPlace
  <1> QED
    BY <1>3, <1>4, <1>5, <1>6, <1>7, <1>8, <1>9, <1>10, <1>11, <1>12, <1>14, <1>15, <1>16
    DEF SignIn!Next, SignIn!Progress, SignIn!Connect, SignIn!TimePasses, SignIn!VerifyRefuses,
        SignIn!Refuse, SignIn!RequestFails, SignIn!Reload, SignIn!Logout, vars

\* A step that asks for nobody and keeps token and user keeps the session.
LEMMA SessionKept ==
  ASSUME OneSession, ~past'.crossed => ~past.crossed,
         \A s \in Slots : Waited(s)' => Waited(s) /\ (task'[s].call = "provider" => task[s].call = "provider"),
         \A s \in Slots : SignIn!AskingMe(s)' => SignIn!AskingMe(s) /\ task'[s].token = task[s].token,
         \A s \in Slots : SignIn!AskingMe(s) => SignIn!AskingMe(s)',
         view'.user = view.user, view'.store = view.store
  PROVE  OneSession'
  <1> SUFFICES ASSUME ~past'.crossed PROVE OneSession'
    BY DEF OneSession
  <1>1. /\ \A s, r \in Slots : Waited(s) /\ Waited(r) => s = r
        /\ \A s \in Slots : SignIn!AskingMe(s) => task[s].token = view.store
        /\ \A s \in Slots : Waited(s) /\ task[s].call = "provider" => view.user = None
        /\ (view.user # None /\ \A s \in Slots : ~SignIn!AskingMe(s))
              => view.store # None /\ view.store.owner = view.user
    BY DEF OneSession
  <1>2. \A s, r \in Slots : Waited(s)' /\ Waited(r)' => s = r
    BY <1>1
  <1>3. \A s \in Slots : SignIn!AskingMe(s)' => task'[s].token = view'.store
    BY <1>1
  <1>4. \A s \in Slots : Waited(s)' /\ task'[s].call = "provider" => view'.user = None
    BY <1>1
  <1>5. (view'.user # None /\ \A s \in Slots : ~SignIn!AskingMe(s)')
              => view'.store # None /\ view'.store.owner = view'.user
    BY <1>1
  <1> QED BY <1>2, <1>3, <1>4, <1>5 DEF OneSession

\* After a load of the page there is the call of the provider, or none.
LEMMA ReloadedSession ==
  ASSUME NEW v \in SignInViewType, v.cookie # None => v.cookie = v.store,
         view' = SignIn!Mounted(v),
         task' = SignIn!Alone(IF SignIn!GetToken(v) # None THEN SignIn!Asks(v) ELSE SignIn!Idle)
  PROVE  OneSession'
  <1> DEFINE t == IF SignIn!GetToken(v) # None THEN SignIn!Asks(v) ELSE SignIn!Idle
  <1>1. view'.user = None /\ view'.store = v.store
    BY DEF SignIn!Mounted, SignInViewType
  <1>2. /\ t.at # "idle" => t.token = v.store
        /\ SignIn!Idle.at = "idle"
    BY DEF SignIn!GetToken, SignIn!Asks, SignIn!SignIn, SignIn!Idle
  <1> HIDE DEF t
  <1>3. task' = [s \in Slots |-> IF \A r \in Slots : s <= r THEN t ELSE SignIn!Idle]
    BY DEF SignIn!Alone, t
  <1>4. \A s \in Slots : task'[s].at # "idle" => task'[s] = t /\ \A r \in Slots : s <= r
    BY <1>2, <1>3
  <1>5. \A s, r \in Slots : s <= r /\ r <= s => s = r
    BY SlotsAreOrdered
  <1>6. \A s, r \in Slots : Waited(s)' /\ Waited(r)' => s = r
    BY <1>4, <1>5 DEF Waited, SignIn!At
  <1>7. \A s \in Slots : SignIn!AskingMe(s)' => task'[s].token = view'.store
    BY <1>1, <1>2, <1>4 DEF SignIn!AskingMe, SignIn!At
  <1> QED BY <1>1, <1>6, <1>7 DEF OneSession

\* A call that fails.  The provider forgets the token, and knew no user yet.
LEMMA FailedSession ==
  ASSUME SignInTyped, CallsInPlace, OneSession, NEW s \in Slots,
         ~SignIn!At(s, "idle"), SignIn!Fails(s),
         ~past'.crossed => ~past.crossed /\ (SignIn!AskingMe(s) => task[s].call = "provider")
  PROVE  OneSession'
  <1>0. /\ task \in [Slots -> SignInGoodTask] /\ view \in SignInViewType
        /\ task[s] \in SignInTaskRecord
    BY SignInTaskIsRecord DEF SignInTyped
  <1>1. task'[s] = SignIn!Idle /\ \A r \in Slots \ {s} : task'[r] = task[r]
    BY <1>0 DEF SignIn!Fails, SignIn!Ends
  <1>2. ~Waited(s)' /\ ~SignIn!AskingMe(s)'
    BY <1>1 DEF Waited, SignIn!AskingMe, SignIn!At, SignIn!Idle
  <1>3. \A r \in Slots \ {s} : /\ Waited(r)' <=> Waited(r)
                               /\ SignIn!AskingMe(r)' <=> SignIn!AskingMe(r)
    BY <1>1 DEF Waited, SignIn!AskingMe, SignIn!At
  <1> SUFFICES ASSUME ~past'.crossed PROVE OneSession'
    BY DEF OneSession
  <1>4. CASE task[s].call = "provider"
    <2>1. Waited(s) /\ view.user = None
      BY <1>4 DEF Waited, OneSession
    <2>2. \A r \in Slots : ~Waited(r)'
      BY <1>2, <1>3, <2>1 DEF OneSession
    <2>3. \A r \in Slots : ~SignIn!AskingMe(r)'
      BY <2>2, <1>1, <1>2 DEF CallsInPlace, Waited, SignIn!AskingMe, SignIn!At
    <2>4. view'.user = None
      BY <1>0, <1>4, <2>1 DEF SignIn!Fails, SignIn!Failed, SignIn!ClearToken, SignInViewType
    <2> QED BY <2>2, <2>3, <2>4 DEF OneSession
  <1>5. CASE task[s].call # "provider"
    <2>1. ~SignIn!AskingMe(s)
      BY <1>5
    <2>2. view'.user = view.user /\ view'.store = view.store
      BY <1>0, <1>5 DEF SignIn!Fails, SignIn!Failed, SignInViewType
    <2>3. \A r \in Slots : Waited(r)' => Waited(r) /\ (task'[r].call = "provider" => task[r].call = "provider")
      BY <1>1, <1>2, <1>3
    <2>4. \A r \in Slots : SignIn!AskingMe(r)' => SignIn!AskingMe(r) /\ task'[r].token = task[r].token
      BY <1>1, <1>2, <1>3
    <2>5. \A r \in Slots : SignIn!AskingMe(r) => SignIn!AskingMe(r)'
      BY <1>3, <2>1
    <2> QED BY <2>2, <2>3, <2>4, <2>5, SessionKept
  <1> QED BY <1>4, <1>5

\* The token of the cookie is the one of local storage.
Agree(v) == v.cookie # None => v.cookie = v.store

LEMMA AgreeSteps ==
  ASSUME NEW v \in SignInViewType, Agree(v)
  PROVE  /\ Agree(SignIn!ClearToken(v)) /\ Agree([SignIn!ClearToken(v) EXCEPT !.on = "login"])
         /\ \A token \in SignIn!Token : Agree(SignIn!SetToken(v, token))
         /\ \A call : Agree(SignIn!Failed(v, call))
         /\ Agree(SignIn!Mounted(v))
  <1>1. Agree(SignIn!ClearToken(v)) /\ Agree([SignIn!ClearToken(v) EXCEPT !.on = "login"])
    BY DEF SignIn!ClearToken, SignInViewType, Agree
  <1>2. ASSUME NEW token \in SignIn!Token PROVE Agree(SignIn!SetToken(v, token))
    BY DEF SignIn!SetToken, SignInViewType, Agree
  <1>3. ASSUME NEW call PROVE Agree(SignIn!Failed(v, call))
    BY DEF SignIn!ClearToken, SignIn!Failed, SignInViewType, Agree
  <1>4. Agree(SignIn!Mounted(v))
    BY DEF SignIn!Mounted, SignInViewType, Agree
  <1> QED BY <1>1, <1>2, <1>3, <1>4

LEMMA AgreeStep ==
  ASSUME SignInTyped, Agree(view), [SignIn!Next]_vars
  PROVE  Agree(view')
  <1>0. view \in SignInViewType /\ task \in [Slots -> SignInGoodTask]
    BY DEF SignInTyped
  <1>1. ASSUME NEW s \in Slots, SignIn!Fails(s) PROVE Agree(view')
    BY <1>0, <1>1, AgreeSteps DEF SignIn!Fails
  <1>2. ASSUME NEW v \in SignInViewType, Agree(v), SignIn!ReloadedAs(v) PROVE Agree(view')
    BY <1>2, AgreeSteps DEF SignIn!ReloadedAs
  <1>3. ASSUME SignIn!Reload \/ SignIn!Logout PROVE Agree(view')
    <2>1. [SignIn!ClearToken(view) EXCEPT !.on = "login"] \in SignInViewType
      BY <1>0 DEF SignIn!ClearToken, SignInViewType
    <2> QED BY <1>0, <1>2, <1>3, <2>1, AgreeSteps DEF SignIn!Reload, SignIn!Logout
  <1>4. ASSUME NEW on PROVE SignIn!Opened(on) \in SignInViewType /\ Agree(SignIn!Opened(on))
    BY <1>0 DEF SignIn!Opened, SignInViewType, Agree
  <1>5. ASSUME NEW a, SignIn!Connect(a) PROVE Agree(view')
    BY <1>0, <1>5 DEF SignIn!Connect, SignInViewType, Agree
  <1>6. ASSUME SignIn!HandleSignIn PROVE Agree(view')
    BY <1>0, <1>6 DEF SignIn!HandleSignIn, SignInViewType, Agree
  <1>7. ASSUME SignIn!TimePasses PROVE Agree(view')
    BY <1>0, <1>7 DEF SignIn!TimePasses, SignInViewType, Agree
  <1>8. ASSUME NEW s \in Slots, SignIn!MeAnswered(s) PROVE Agree(view')
    <2>1. ASSUME NEW v \in SignInViewType, NEW u, Agree(v)
          PROVE  /\ Agree([v EXCEPT !.user = u, !.signing = FALSE])
                 /\ Agree([v EXCEPT !.user = u, !.loading = FALSE])
      <3>1. /\ [v EXCEPT !.user = u, !.signing = FALSE].cookie = v.cookie
            /\ [v EXCEPT !.user = u, !.signing = FALSE].store = v.store
            /\ [v EXCEPT !.user = u, !.loading = FALSE].cookie = v.cookie
            /\ [v EXCEPT !.user = u, !.loading = FALSE].store = v.store
        BY DEF SignInViewType
      <3> QED BY <2>1, <3>1 DEF Agree
    <2> DEFINE u == task[s].token.owner
    <2>2. Agree([view EXCEPT !.user = u, !.loading = FALSE])
      BY <1>0, <2>1
    <2>3. Agree([SignIn!Opened("console") EXCEPT !.user = u, !.signing = FALSE])
      BY <1>4, <2>1
    <2> QED BY <1>8, <2>2, <2>3 DEF SignIn!MeAnswered
  <1>9. ASSUME NEW s \in Slots, SignIn!VerifyAnswered(s) PROVE Agree(view')
    <2>1. task[s].token \in SignIn!Token
      BY <1>0, <1>9, SignInTaskIsRecord DEF SignIn!VerifyAnswered, SignIn!At, SignInKnows
    <2> QED BY <1>0, <1>9, <2>1, AgreeSteps DEF SignIn!VerifyAnswered
  <1>10. ASSUME NEW s \in Slots, SignIn!MeServed(s) PROVE Agree(view')
    BY <1>1, <1>10 DEF SignIn!MeServed
  <1>11. ASSUME NEW on, SignIn!Follow(on) PROVE Agree(view')
    BY <1>4, <1>11 DEF SignIn!Follow
  <1> QED
    BY <1>1, <1>3, <1>5, <1>6, <1>7, <1>8, <1>9, <1>10, <1>11
    DEF SignIn!Next, SignIn!Progress, SignIn!ChallengeServed, SignIn!Sign, SignIn!Refuse,
        SignIn!ReadNonce, SignIn!VerifyRefuses, SignIn!IssueToken, SignIn!Resent,
        SignIn!RequestFails, vars

LEMMA OneSessionStep ==
  ASSUME SignInTyped, Agree(view), CallsInPlace, OneSession, [SignIn!Next]_vars
  PROVE  OneSession'
  <1>0. /\ task \in [Slots -> SignInGoodTask] /\ view \in SignInViewType /\ past \in SignInPastType
        /\ \A s \in Slots : ~SignIn!At(s, "idle") => task[s] \in SignInTaskRecord
    BY SignInTaskIsRecord DEF SignInTyped
  <1>a. SignIn!Idle.at = "idle"
    BY DEF SignIn!Idle
  <1>1. ASSUME NEW a \in Accounts \cup {None}, SignIn!Connect(a) PROVE OneSession'
    BY <1>0, <1>1, SessionKept DEF SignIn!Connect, Waited, SignIn!AskingMe, SignIn!At,
       SignInViewType
  <1>2. ASSUME SignIn!HandleSignIn, ~past'.crossed PROVE OneSession'
    <2>1. ~past.crossed /\ \A s \in Slots : ~SignIn!SigningIn(s) /\ ~SignIn!AskingMe(s)
      BY <1>0, <1>2 DEF SignIn!HandleSignIn, SignInPastType
    <2>2. \A s \in Slots : ~Waited(s)
      BY <1>0, <2>1 DEF Waited, SignIn!SigningIn, SignIn!AskingMe, SignIn!At, CallsInPlace,
                        SignInTaskRecord
    <2>3. PICK s \in Slots : task' = [task EXCEPT ![s] = SignIn!SignIn("login", view.account)]
      BY <1>2 DEF SignIn!HandleSignIn, SignIn!Call
    <2>4. \A r \in Slots \ {s} : task'[r] = task[r]
      BY <1>0, <2>3
    <2>5. /\ task'[s].at = "challenge" /\ task'[s].call = "login"
      BY <1>0, <2>3 DEF SignIn!SignIn
    <2>6. \A r \in Slots : Waited(r)' => r = s
      BY <2>2, <2>4 DEF Waited, SignIn!At
    <2>7. \A r \in Slots : ~SignIn!AskingMe(r)'
      BY <2>1, <2>4, <2>5 DEF SignIn!AskingMe, SignIn!At
    <2>8. view'.user = view.user /\ view'.store = view.store
      BY <1>0, <1>2 DEF SignIn!HandleSignIn, SignInViewType
    <2> QED BY <2>1, <2>5, <2>6, <2>7, <2>8 DEF OneSession
  \* A call goes from stage to stage and is asked for by the same.
  <1>3. ASSUME NEW s \in Slots, NEW t \in SignInTaskRecord, task' = [task EXCEPT ![s] = t],
               ~SignIn!At(s, "idle"), ~SignIn!AskingMe(s), t.at \notin {"me", "known"},
               t.call = task[s].call, UNCHANGED view, past'.crossed = past.crossed
        PROVE  OneSession'
    <2>1. task'[s] = t /\ \A r \in Slots \ {s} : task'[r] = task[r]
      BY <1>0, <1>3
    <2>2. \A r \in Slots : /\ Waited(r)' => Waited(r)
                           /\ task'[r].call = task[r].call
      BY <1>3, <2>1 DEF Waited, SignIn!At
    <2>3. \A r \in Slots : /\ SignIn!AskingMe(r)' <=> SignIn!AskingMe(r)
                           /\ SignIn!AskingMe(r) => task'[r].token = task[r].token
      BY <1>3, <2>1 DEF SignIn!AskingMe, SignIn!At
    <2> QED BY <1>3, <2>2, <2>3, SessionKept
  <1>4. ASSUME NEW s \in Slots, SignIn!ChallengeServed(s) PROVE OneSession'
    <2>1. PICK n \in Nonces : task' = [task EXCEPT ![s].at = "signing", ![s].nonce = n]
      BY <1>4 DEF SignIn!ChallengeServed
    <2> DEFINE t == [task[s] EXCEPT !.at = "signing", !.nonce = n]
    <2>2. t \in SignInTaskRecord /\ t.at = "signing" /\ t.call = task[s].call
      BY <1>0, <1>4 DEF SignIn!ChallengeServed, SignIn!At, SignInTaskRecord
    <2>3. task' = [task EXCEPT ![s] = t]
      BY <1>0, <2>1
    <2> HIDE DEF t
    <2> QED BY <1>3, <1>4, <2>2, <2>3 DEF SignIn!ChallengeServed, SignIn!AskingMe, SignIn!At
  <1>5. ASSUME NEW s \in Slots, SignIn!Sign(s) PROVE OneSession'
    <2> DEFINE t == [task[s] EXCEPT !.at = "verify", !.signer = view.account]
    <2>1. t \in SignInTaskRecord /\ t.at = "verify" /\ t.call = task[s].call
      BY <1>0, <1>5 DEF SignIn!Sign, SignIn!At, SignInTaskRecord, SignInViewType
    <2>2. task' = [task EXCEPT ![s] = t]
      BY <1>0, <1>5 DEF SignIn!Sign
    <2> HIDE DEF t
    <2> QED BY <1>3, <1>5, <2>1, <2>2 DEF SignIn!Sign, SignIn!AskingMe, SignIn!At
  <1>6. ASSUME NEW s \in Slots, SignIn!ReadNonce(s) PROVE OneSession'
    <2> DEFINE t == [task[s] EXCEPT !.at = "checked"]
    <2>1. t \in SignInTaskRecord /\ t.at = "checked" /\ t.call = task[s].call
      BY <1>0, <1>6 DEF SignIn!ReadNonce, SignIn!At, SignInTaskRecord
    <2>2. task' = [task EXCEPT ![s] = t] /\ past'.crossed = past.crossed
      BY <1>0, <1>6 DEF SignIn!ReadNonce, SignIn!Goto, SignInPastType
    <2> HIDE DEF t
    <2> QED BY <1>3, <1>6, <2>1, <2>2 DEF SignIn!ReadNonce, SignIn!AskingMe, SignIn!At
  <1>7. ASSUME NEW s \in Slots, SignIn!IssueToken(s) PROVE OneSession'
    <2>1. past'.crossed = past.crossed /\ UNCHANGED view /\ SignIn!At(s, "checked")
      BY <1>0, <1>7 DEF SignIn!IssueToken, SignInPastType
    <2>2. CASE task[s].call = "resent"
      <3>1. task'[s] = SignIn!Idle /\ \A r \in Slots \ {s} : task'[r] = task[r]
        BY <1>0, <1>7, <2>2 DEF SignIn!IssueToken, SignIn!Ends
      <3>2. \A r \in Slots : Waited(r)' => Waited(r) /\ task'[r].call = task[r].call
        BY <1>a, <3>1 DEF Waited, SignIn!At
      <3>3. \A r \in Slots : /\ SignIn!AskingMe(r)' <=> SignIn!AskingMe(r)
                             /\ SignIn!AskingMe(r) => task'[r].token = task[r].token
        BY <1>a, <2>1, <3>1 DEF SignIn!AskingMe, SignIn!At
      <3> QED BY <2>1, <3>2, <3>3, SessionKept
    <2>3. CASE task[s].call # "resent"
      <3> DEFINE new == [owner |-> task[s].address, of |-> task[s].nonce]
                 t == [task[s] EXCEPT !.at = "verified", !.token = new]
      <3>1. task[s] \in SignInTaskRecord /\ SignInKnows(task[s])
        BY <1>0, <2>1, SignInTaskIsRecord DEF SignIn!At
      <3>2. new \in SignIn!Token
        BY <2>1, <3>1 DEF SignIn!Token, SignInKnows, SignIn!At
      <3>3. task' = [task EXCEPT ![s] = t]
        BY <1>0, <1>7, <2>3 DEF SignIn!IssueToken
      <3> HIDE DEF new
      <3>4. t \in SignInTaskRecord /\ t.at = "verified" /\ t.call = task[s].call
        BY <3>1, <3>2 DEF SignInTaskRecord
      <3> HIDE DEF t
      <3> QED BY <1>3, <2>1, <3>3, <3>4 DEF SignIn!AskingMe, SignIn!At
    <2> QED BY <2>2, <2>3
  <1>8. ASSUME NEW s \in Slots, SignIn!Resent(s) PROVE OneSession'
    <2> DEFINE t == [task[s] EXCEPT !.call = "resent", !.at = "verify", !.token = None]
    <2>1. t.call = "resent" /\ t.at = "verify"
      BY <1>0, <1>8 DEF SignIn!Resent, SignIn!SigningIn, SignIn!At, SignInTaskRecord
    <2>2. SignIn!Call(t) /\ UNCHANGED <<view, past>>
      BY <1>8 DEF SignIn!Resent
    <2> HIDE DEF t
    <2>3. PICK r \in Slots : SignIn!At(r, "idle") /\ task' = [task EXCEPT ![r] = t]
      BY <2>2 DEF SignIn!Call
    <2>4. task'[r] = t /\ \A q \in Slots \ {r} : task'[q] = task[q]
      BY <1>0, <2>3
    <2>5. \A q \in Slots : Waited(q)' => Waited(q) /\ task'[q].call = task[q].call
      BY <2>1, <2>4 DEF Waited, SignIn!At
    <2>6. \A q \in Slots : /\ SignIn!AskingMe(q)' <=> SignIn!AskingMe(q)
                           /\ SignIn!AskingMe(q) => task'[q].token = task[q].token
      BY <2>1, <2>3, <2>4 DEF SignIn!AskingMe, SignIn!At
    <2> QED BY <2>2, <2>5, <2>6, SessionKept
  <1>9. ASSUME NEW s \in Slots, SignIn!VerifyAnswered(s), ~past'.crossed PROVE OneSession'
    <2>1. ~past.crossed /\ \A r \in Slots : ~SignIn!AskingMe(r)
      BY <1>0, <1>9 DEF SignIn!VerifyAnswered, SignInPastType
    <2>2. task[s] \in SignInTaskRecord /\ SignIn!At(s, "verified") /\ Waited(s)
      BY <1>0, <1>9 DEF SignIn!VerifyAnswered, SignIn!At, Waited, CallsInPlace
    <2>3. /\ task'[s].call = task[s].call /\ task'[s].token = task[s].token
          /\ \A r \in Slots \ {s} : task'[r] = task[r]
      BY <1>0, <1>9, <2>2 DEF SignIn!VerifyAnswered, SignIn!Goto, SignInTaskRecord
    <2>4. \A r \in Slots : Waited(r)' => r = s
      BY <2>1, <2>2, <2>3 DEF OneSession, Waited, SignIn!At
    <2>5. task[s].call # "provider"
      BY <2>2 DEF CallsInPlace, SignIn!At
    <2>6. view'.store = task[s].token
      BY <1>0, <1>9 DEF SignIn!VerifyAnswered, SignIn!SetToken, SignInViewType
    <2>7. \A r \in Slots : SignIn!AskingMe(r)' => r = s
      BY <2>1, <2>3 DEF SignIn!AskingMe, SignIn!At
    <2>8. SignIn!AskingMe(s)'
      BY <1>0, <1>9, <2>2 DEF SignIn!VerifyAnswered, SignIn!Goto, SignIn!AskingMe,
         SignIn!At,
                              SignInTaskRecord
    <2> QED BY <2>3, <2>4, <2>5, <2>6, <2>7, <2>8 DEF OneSession
  <1>10. ASSUME NEW s \in Slots, SignIn!MeServed(s) PROVE OneSession'
    <2>1. SignIn!At(s, "me") /\ task[s] \in SignInTaskRecord /\ SignIn!AskingMe(s)
      BY <1>0, <1>10 DEF SignIn!MeServed, SignIn!At, SignIn!AskingMe
    <2>2. CASE task[s].token.of \in tables.dead
      <3>1. /\ SignIn!Fails(s)
            /\ ~past'.crossed => ~past.crossed /\ task[s].call = "provider"
        BY <1>0, <1>10, <2>2 DEF SignIn!MeServed, SignInPastType
      <3> QED BY <2>1, <3>1, FailedSession DEF SignIn!At
    <2>3. CASE task[s].token.of \notin tables.dead
      <3>1. /\ SignIn!Goto(s, "known") /\ UNCHANGED view
            /\ past'.crossed = past.crossed
        BY <1>0, <1>10, <2>3 DEF SignIn!MeServed, SignInPastType
      <3>2. /\ task'[s].at = "known" /\ task'[s].call = task[s].call
            /\ task'[s].token = task[s].token
            /\ \A r \in Slots \ {s} : task'[r] = task[r]
        BY <1>0, <2>1, <3>1 DEF SignIn!Goto, SignInTaskRecord
      <3>3. \A r \in Slots : Waited(r)' => Waited(r) /\ task'[r].call = task[r].call
        BY <2>1, <3>2 DEF Waited, SignIn!At
      <3>4. \A r \in Slots : /\ SignIn!AskingMe(r)' <=> SignIn!AskingMe(r)
                             /\ SignIn!AskingMe(r) => task'[r].token = task[r].token
        BY <2>1, <3>2 DEF SignIn!AskingMe, SignIn!At
      <3> QED BY <3>1, <3>3, <3>4, SessionKept
    <2> QED BY <2>2, <2>3

  <1>11. ASSUME NEW r \in Slots
         PROVE  /\ SignIn!Left[r].at = task[r].at
                /\ task[r].at # "idle" =>
                     /\ SignIn!Left[r].token = task[r].token
                     /\ SignIn!Left[r].call = "resent" <=> task[r].call = "resent"
                     /\ SignIn!Left[r].call = "provider" <=> task[r].call = "provider"
    <2>1. CASE task[r].at # "idle" /\ task[r].call = "login"
      <3>1. SignIn!Left[r] = [task[r] EXCEPT !.call = "left"] /\ task[r] \in SignInTaskRecord
        BY <1>0, <2>1 DEF SignIn!Left, SignIn!At
      <3> QED BY <2>1, <3>1 DEF SignInTaskRecord
    <2>2. CASE ~(task[r].at # "idle" /\ task[r].call = "login")
      BY <2>2 DEF SignIn!Left
    <2> QED BY <2>1, <2>2
  <1>12. ASSUME NEW s \in Slots, SignIn!MeAnswered(s) PROVE OneSession'
    <2>1. SignIn!At(s, "known") /\ task[s] \in SignInTaskRecord /\ task[s].token \in SignIn!Token
      BY <1>0, <1>12, SignInTaskIsRecord DEF SignIn!MeAnswered, SignIn!At, SignInKnows
    <2>2. Waited(s) /\ SignIn!AskingMe(s)
      BY <2>1 DEF CallsInPlace, Waited, SignIn!At, SignIn!AskingMe
    <2>3. task[s].token # None
      BY <2>1, SessionAssumption
    <2>4. view'.user = task[s].token.owner /\ view'.store = view.store
      <3>1. /\ SignIn!Opened("console") \in SignInViewType
            /\ SignIn!Opened("console").store = view.store
        BY <1>0 DEF SignIn!Opened, SignInViewType
      <3> DEFINE u == task[s].token.owner
      <3>2. ASSUME NEW v \in SignInViewType
            PROVE  /\ [v EXCEPT !.user = u, !.signing = FALSE].user = u
                   /\ [v EXCEPT !.user = u, !.signing = FALSE].store = v.store
                   /\ [v EXCEPT !.user = u, !.loading = FALSE].user = u
                   /\ [v EXCEPT !.user = u, !.loading = FALSE].store = v.store
        BY DEF SignInViewType
      <3>3. CASE task[s].call = "provider"
        <4>1. view' = [view EXCEPT !.user = u, !.loading = FALSE]
          BY <1>12, <3>3 DEF SignIn!MeAnswered
        <4> QED BY <1>0, <3>2, <4>1
      <3>4. CASE task[s].call # "provider"
        <4>1. view' = [SignIn!Opened("console") EXCEPT !.user = u, !.signing = FALSE]
          BY <1>12, <3>4 DEF SignIn!MeAnswered
        <4> QED BY <3>1, <3>2, <4>1
      <3> QED BY <3>3, <3>4
    <2>5. /\ task'[s].at = "idle"
          /\ \A r \in Slots \ {s} : task'[r] \in {task[r], SignIn!Left[r]}
          /\ past'.crossed = past.crossed
      <3>1. CASE SignIn!Ends(s)
        BY <1>0, <1>a, <1>12, <3>1 DEF SignIn!Ends, SignIn!MeAnswered
      <3>2. CASE task' = [SignIn!Left EXCEPT ![s] = SignIn!Idle]
        BY <1>0, <1>a, <1>12, <3>2, SignInLeftType DEF SignIn!MeAnswered
      <3> QED BY <1>12, <3>1, <3>2 DEF SignIn!MeAnswered
    <2>6. \A r \in Slots \ {s} : Waited(r)' => Waited(r)
      BY <1>11, <2>5 DEF Waited, SignIn!At
    <2>7. \A r \in Slots \ {s} : SignIn!AskingMe(r)' => SignIn!AskingMe(r)
      BY <1>11, <2>5 DEF SignIn!AskingMe, SignIn!At
    <2>8. ~Waited(s)' /\ ~SignIn!AskingMe(s)'
      BY <2>5 DEF Waited, SignIn!AskingMe, SignIn!At
    <2> SUFFICES ASSUME ~past'.crossed PROVE OneSession'
      BY DEF OneSession
    <2>9. \A r \in Slots : ~Waited(r)'
      BY <2>2, <2>5, <2>6, <2>8 DEF OneSession
    <2>10. \A r \in Slots : ~SignIn!AskingMe(r)'
      <3> SUFFICES ASSUME NEW r \in Slots \ {s}, SignIn!AskingMe(r)' PROVE FALSE
        BY <2>8
      <3>1. SignIn!AskingMe(r)
        BY <2>7
      <3>2. Waited(r)
        BY <3>1 DEF CallsInPlace, Waited, SignIn!AskingMe, SignIn!At
      <3> QED BY <2>2, <2>5, <3>2 DEF OneSession
    <2>11. task[s].token = view.store
      BY <2>2, <2>5 DEF OneSession
    <2> QED BY <2>3, <2>4, <2>9, <2>10, <2>11 DEF OneSession
  <1>13. ASSUME NEW s \in Slots, SignIn!RequestFails(s) PROVE OneSession'
    <2>1. /\ SignIn!Fails(s) /\ ~SignIn!At(s, "idle")
          /\ ~past'.crossed => ~past.crossed /\ (SignIn!AskingMe(s) => task[s].call = "provider")
      BY <1>0, <1>13 DEF SignIn!RequestFails, SignInPastType, SignIn!At
    <2> QED BY <2>1, FailedSession
  <1>14. ASSUME NEW s \in Slots, SignIn!Refuse(s) \/ SignIn!VerifyRefuses(s) PROVE OneSession'
    <2>1. /\ SignIn!Fails(s) /\ ~SignIn!At(s, "idle") /\ ~SignIn!AskingMe(s)
          /\ past' = past
      BY <1>14 DEF SignIn!Refuse, SignIn!VerifyRefuses, SignIn!At, SignIn!AskingMe
    <2> QED BY <2>1, FailedSession
  <1>15. ASSUME NEW on \in {"console", "login"}, SignIn!Follow(on) PROVE OneSession'
    <2>1. task' = SignIn!Left /\ past' = past
      BY <1>15 DEF SignIn!Follow
    <2>2. view'.user = view.user /\ view'.store = view.store
      BY <1>0, <1>15 DEF SignIn!Follow, SignIn!Opened, SignInViewType
    <2>3. \A r \in Slots : Waited(r)' => Waited(r) /\ (task'[r].call = "provider" => task[r].call = "provider")
      BY <1>11, <2>1 DEF Waited, SignIn!At
    <2>4. \A r \in Slots : /\ SignIn!AskingMe(r)' <=> SignIn!AskingMe(r)
                           /\ SignIn!AskingMe(r) => task'[r].token = task[r].token
      BY <1>11, <2>1 DEF SignIn!AskingMe, SignIn!At
    <2> QED BY <2>1, <2>2, <2>3, <2>4, SessionKept
  <1>16. ASSUME SignIn!Reload \/ SignIn!Logout PROVE OneSession'
    <2> DEFINE v == IF SignIn!Reload THEN view ELSE [SignIn!ClearToken(view) EXCEPT !.on = "login"]
    <2>1. v \in SignInViewType /\ (v.cookie # None => v.cookie = v.store)
      BY <1>0, AgreeSteps DEF SignIn!ClearToken, SignInViewType, Agree
    <2>2. SignIn!ReloadedAs(v)
      BY <1>16 DEF SignIn!Reload, SignIn!Logout
    <2> HIDE DEF v
    <2> QED BY <2>1, <2>2, ReloadedSession DEF SignIn!ReloadedAs
  <1>17. ASSUME SignIn!TimePasses PROVE OneSession'
    <2>1. view'.user = view.user /\ view'.store = view.store
      BY <1>0, <1>17 DEF SignIn!TimePasses, SignInViewType
    <2> QED BY <1>17, <2>1, SessionKept DEF SignIn!TimePasses, Waited, SignIn!AskingMe,
               SignIn!At
  <1>18. CASE UNCHANGED vars
    BY <1>18, SessionKept DEF vars, Waited, SignIn!AskingMe, SignIn!At
  <1>19. OneSession' \/ ~past'.crossed
    BY DEF OneSession
  <1> QED
    BY <1>1, <1>2, <1>4, <1>5, <1>6, <1>7, <1>8, <1>9, <1>10, <1>12, <1>13, <1>14, <1>15,
       <1>16,
       <1>17, <1>18, <1>19
    DEF SignIn!Next, SignIn!Progress

-----------------------------------------------------------------------------
(* The invariant of signing in *)

SignInInv ==
    /\ SignInTyped /\ faults \in 0 .. MaxFaults
    /\ NonceInv /\ Agree(view) /\ CallsInPlace /\ OneSession

LEMMA SignInStarts == ASSUME SignIn!Init PROVE SignInInv
  <1>1. PICK a \in Accounts, store, cookie \in BOOLEAN :
          /\ cookie => store
          /\ view = SignIn!Mounted([page |-> "session", on |-> "login", account |-> a,
                      user |-> None,
                      store  |-> IF store THEN SignIn!Earlier(a) ELSE None,
                      cookie |-> IF cookie THEN SignIn!Earlier(a) ELSE None,
                      loading |-> TRUE, signing |-> FALSE])
          /\ task = SignIn!Alone(IF store THEN SignIn!Asks(view) ELSE SignIn!Idle)
    BY DEF SignIn!Init, SignIn!OnlyOneCall
  <1>2. /\ view.user = None /\ view.store = IF store THEN SignIn!Earlier(a) ELSE None
        /\ view.cookie = IF cookie THEN SignIn!Earlier(a) ELSE None
    BY <1>1 DEF SignIn!Mounted
  <1>3. Agree(view)
    BY <1>1, <1>2 DEF Agree
  <1> DEFINE t == IF store THEN SignIn!Asks(view) ELSE SignIn!Idle
  <1>4. store => SignIn!Earlier(a) # None
    BY SessionAssumption DEF SignIn!Earlier, SignIn!Token
  <1>5. /\ t.at # "idle" => t.token = view.store /\ t.call = "provider"
        /\ t.at \in {"idle", "me"} /\ SignIn!Idle.at = "idle"
    BY <1>2, <1>4 DEF SignIn!GetToken, SignIn!Asks, SignIn!SignIn, SignIn!Idle
  <1> HIDE DEF t
  <1>6. task = [s \in Slots |-> IF \A r \in Slots : s <= r THEN t ELSE SignIn!Idle]
    BY <1>1 DEF SignIn!Alone, t
  <1>7. \A s \in Slots : /\ task[s].at \in {"idle", "me"}
                         /\ task[s].at # "idle" => task[s] = t /\ \A r \in Slots : s <= r
    BY <1>5, <1>6
  <1>8. CallsInPlace
    BY <1>5, <1>7 DEF CallsInPlace, SignIn!At
  <1>9. \A s, r \in Slots : Waited(s) /\ Waited(r) => s = r
    <2>1. \A s, r \in Slots : s <= r /\ r <= s => s = r
      BY SlotsAreOrdered
    <2> QED BY <1>7, <2>1 DEF Waited, SignIn!At
  <1>10. OneSession
    BY <1>2, <1>5, <1>7, <1>9 DEF OneSession, SignIn!AskingMe, SignIn!At
  <1>11. NonceInv
    <2>1. \A s \in Slots, n \in Nonces : ~Checking(s, n)
      BY <1>7 DEF Checking, SignIn!At
    <2>2. \A n \in Nonces : past.issued[n] = 0
      BY DEF SignIn!Init
    <2>3. ASSUME NEW n \in Nonces
          PROVE  past.issued[n] + Cardinality(CheckingNow(n)) <= Cardinality(Slots)
      <3>1. CheckingNow(n) \in SUBSET Slots
        BY DEF CheckingNow
      <3>2. Cardinality(CheckingNow(n)) \in Nat /\ Cardinality(CheckingNow(n)) <= Cardinality(Slots)
        BY <3>1, SomeCalls
      <3> QED BY <2>2, <3>2
    <2> QED BY <2>1, <2>2, <2>3 DEF NonceInv
  <1>12. faults \in 0 .. MaxFaults
    BY SessionAssumption DEF SignIn!Init
  <1> QED BY <1>3, <1>8, <1>10, <1>11, <1>12, SignInInitTyped DEF SignInInv

LEMMA SignInFault == \A n \in 0 .. MaxFaults : n < MaxFaults => n + 1 \in 0 .. MaxFaults
  BY SessionAssumption

LEMMA SignInFaults ==
  ASSUME faults \in 0 .. MaxFaults, [SignIn!Next]_vars
  PROVE  faults' \in 0 .. MaxFaults
  <1>1. faults' = faults \/ SignIn!Fault
    BY DEF SignIn!Next, SignIn!Progress, SignIn!Connect, SignIn!HandleSignIn,
       SignIn!ReloadedAs,
           SignIn!Reload, SignIn!Logout, SignIn!TimePasses, SignIn!Follow, SignIn!ChallengeServed,
           SignIn!ReadNonce, SignIn!VerifyRefuses, SignIn!IssueToken, SignIn!VerifyAnswered,
           SignIn!MeServed, SignIn!MeAnswered, SignIn!Sign, SignIn!Refuse, SignIn!Resent,
           SignIn!RequestFails, vars
  <1>2. SignIn!Fault => faults < MaxFaults /\ faults' = faults + 1
    BY Zenon DEF SignIn!Fault
  <1> QED BY <1>1, <1>2, SignInFault, Zenon

LEMMA SignInMoves == ASSUME SignInInv, [SignIn!Next]_vars PROVE SignInInv'
  <1> USE DEF SignInInv
  <1>1. SignInTyped'
    BY SignInTypedStep
  <1>2. faults' \in 0 .. MaxFaults
    BY SignInFaults
  <1>3. NonceInv'
    BY NonceStep
  <1>4. Agree(view')
    BY AgreeStep
  <1>5. CallsInPlace' /\ OneSession'
    BY CallsInPlaceStep, OneSessionStep
  <1> QED BY <1>1, <1>2, <1>3, <1>4, <1>5 DEF Agree

LEMMA SignInPromises ==
  ASSUME SignInInv
  PROVE  /\ SignIn!Here /\ SignIn!TypeOK
         /\ SignIn!OneTokenPerNonce /\ SignIn!StoresAgree /\ SignIn!OwnerShownIsSession
  <1> USE DEF SignInInv
  <1>1. SignIn!Here
    BY DEF SignInTyped, SignInViewType, SignIn!Here
  <1>2. SignIn!TypeOK
    BY DEF SignInTyped, SignInViewType, SignInGoodTask, SignInTaskRecord, SignIn!TypeOK,
           SignIn!TaskType
  <1>3. SignIn!OneTokenPerNonce
    <2> SUFFICES ASSUME NEW n \in Nonces
                 PROVE  past.issued[n] <= IF n \in past.raced THEN Cardinality(Slots) ELSE 1
      <3>1. SignIn!Cardinality(Slots) = Cardinality(Slots)
        BY DEF SignIn!Cardinality, Cardinality
      <3> QED BY <3>1 DEF SignIn!OneTokenPerNonce
    <2>1. CheckingNow(n) \in SUBSET Slots
      BY DEF CheckingNow
    <2>2. Cardinality(CheckingNow(n)) \in Nat /\ Cardinality(Slots) \in Nat
      BY <2>1, SomeCalls
    <2>3. past.issued[n] \in Nat /\ past.issued[n] + Cardinality(CheckingNow(n)) <= Cardinality(Slots)
      BY DEF NonceInv, SignInTyped, SignInPastType
    <2>4. past.issued[n] <= Cardinality(Slots)
      BY <2>2, <2>3
    <2> QED BY <2>4 DEF NonceInv
  <1>4. SignIn!StoresAgree
    BY DEF Agree, SignIn!StoresAgree
  <1>5. SignIn!OwnerShownIsSession
    <2>1. SignIn!Quiet => \A s \in Slots : ~SignIn!AskingMe(s)
      BY DEF SignIn!Quiet, SignIn!AskingMe, SignIn!At
    <2> QED BY <2>1 DEF OneSession, SignIn!OwnerShownIsSession
  <1> QED BY <1>1, <1>2, <1>3, <1>4, <1>5

-----------------------------------------------------------------------------
(* THE PAGES OF THE SERVER *)

-----------------------------------------------------------------------------
(* A render of the server *)

ServerKeys == Server!Lists \cup {"vault"} \cup Agents
ServerRows == [Agents -> {None, "active", "paused"}]
ServerGot == UNION {[keys -> BOOLEAN \cup ServerRows] : keys \in SUBSET ServerKeys}
ServerErrors == {None, "unauthorized", "forbidden", "failed"}

ServerRender == [at : {"reading"}, got : ServerGot, failed : ServerErrors]
ServerTask == {Server!Idle} \cup ServerRender

ServerView ==
    [page : {"server"}, cookie : BOOLEAN, path : Server!Paths \cup {None},
     shown : {None, "page", "login", "error", "not found"}, got : ServerGot \cup {None}]
ServerPast == [changed : BOOLEAN, failed : BOOLEAN]
ServerTables ==
    [token : {"valid", "expired"}, agents : ServerRows, policies : SUBSET Agents,
     executions : BOOLEAN, alerts : BOOLEAN, vaults : BOOLEAN]

ServerShapes ==
    /\ tables \in ServerTables /\ view \in ServerView
    /\ task \in [Slots -> ServerTask] /\ past \in ServerPast

\* An agent comes with its policy; it executes before there is an alert.
RowsGoTogether ==
    /\ tables.policies = Server!Made(tables.agents)
    /\ tables.executions => Server!Made(tables.agents) # {}
    /\ tables.alerts => tables.executions

Rendering(s) == Server!At(s, "reading")

\* A page is opened when the one before is shown, so one render is under way at
\* most; it is of the path that the address bar has.
OneRender ==
    /\ \A s, r \in Slots : Rendering(s) /\ Rendering(r) => s = r
    /\ (\E s \in Slots : Rendering(s)) => view.shown = None

\* What a render has read is what the tables hold, unless rows changed; a policy
\* of an agent that it has read is there unless a request failed or the token
\* has expired.
ReadTruly(got) ==
    /\ ~past.changed => \A list \in Server!Lists \cap DOMAIN got : got[list] = Server!Value(list)
    /\ \A a \in Agents \cap DOMAIN got :
          ~past.changed /\ ~past.failed /\ tables.token = "valid" => got[a] = TRUE

\* An error that sends the user to sign in is about a token that has expired.
ErrorIsTrue(error) == error = "unauthorized" /\ error # None => tables.token = "expired"

RendersTruly ==
    /\ \A s \in Slots : Rendering(s) => ReadTruly(task[s].got) /\ ErrorIsTrue(task[s].failed)
    /\ view.shown = "page" =>
          /\ view.got \in ServerGot /\ ReadTruly(view.got)
          /\ Server!Reads(view.path) \subseteq DOMAIN view.got
          /\ view.path = "policies" => Server!Made(view.got["agents"]) \subseteq DOMAIN view.got
    /\ view.shown = "login" => ~view.cookie \/ tables.token = "expired"

ServerInv ==
    /\ ServerShapes /\ RowsGoTogether /\ OneRender /\ RendersTruly
    /\ faults \in 0 .. MaxFaults

-----------------------------------------------------------------------------
(* Facts about the data *)

\* One answer more.
LEMMA AnswerAdded ==
  ASSUME NEW got \in ServerGot, NEW list \in ServerKeys, NEW v \in BOOLEAN \cup ServerRows
  PROVE  LET more == [l \in DOMAIN got \cup {list} |-> IF l = list THEN v ELSE got[l]]
         IN  /\ more \in ServerGot /\ DOMAIN more = DOMAIN got \cup {list}
             /\ more[list] = v /\ \A l \in DOMAIN got \ {list} : more[l] = got[l]
  <1> DEFINE more == [l \in DOMAIN got \cup {list} |-> IF l = list THEN v ELSE got[l]]
  <1>1. PICK keys \in SUBSET ServerKeys : got \in [keys -> BOOLEAN \cup ServerRows]
    BY DEF ServerGot
  <1>2. more \in [keys \cup {list} -> BOOLEAN \cup ServerRows]
    BY <1>1
  <1>3. keys \cup {list} \in SUBSET ServerKeys
    OBVIOUS
  <1>4. more \in ServerGot
    BY <1>2, <1>3 DEF ServerGot
  <1>5. /\ DOMAIN more = DOMAIN got \cup {list}
        /\ more[list] = v /\ \A l \in DOMAIN got \ {list} : more[l] = got[l]
    OBVIOUS
  <1> QED BY <1>4, <1>5

LEMMA NothingRead == [l \in {} |-> None] \in ServerGot /\ DOMAIN [l \in {} |-> None] = {}
  <1>1. [l \in {} |-> None] \in [{} -> BOOLEAN \cup ServerRows]
    OBVIOUS
  <1> QED BY <1>1 DEF ServerGot

LEMMA RenderIsRecord ==
  ASSUME ServerShapes, NEW s \in Slots, Rendering(s)
  PROVE  /\ task[s] \in ServerRender /\ task[s].got \in ServerGot
         /\ task[s].failed \in ServerErrors
  <1>1. task[s] \in ServerTask /\ task[s] # Server!Idle
    BY DEF ServerShapes, Rendering, Server!At, Server!Idle
  <1> QED BY <1>1 DEF ServerTask, ServerRender

\* A render is under way or there is none.
LEMMA IdleOrRendering ==
  ASSUME ServerShapes, NEW s \in Slots
  PROVE  Server!At(s, "idle") <=> ~Rendering(s)
  <1>1. CASE task[s] = Server!Idle
    BY <1>1 DEF Rendering, Server!At, Server!Idle
  <1>2. CASE task[s] \in ServerRender
    <2>1. task[s].at = "reading"
      BY <1>2 DEF ServerRender
    <2> QED BY <2>1 DEF Rendering, Server!At
  <1> QED BY <1>1, <1>2 DEF ServerShapes, ServerTask

-----------------------------------------------------------------------------
(* The steps *)

LEMMA ServerStarts == ASSUME Server!Init PROVE ServerInv
  <1>1. PICK token \in {"valid", "expired"}, a \in [Agents -> {None, "active"}], own \in BOOLEAN :
          tables = [token |-> token, agents |-> a, policies |-> {b \in Agents : a[b] # None},
                    executions |-> FALSE, alerts |-> FALSE, vaults |-> own]
    BY DEF Server!Init
  <1>2. PICK cookie \in BOOLEAN :
          view = [page |-> "server", cookie |-> cookie, path |-> None, shown |-> None, got |-> None]
    BY DEF Server!Init
  <1>3. a \in ServerRows
    BY DEF ServerRows
  <1>4. tables \in ServerTables
    BY <1>1, <1>3 DEF ServerTables
  <1>5. view \in ServerView /\ view.shown = None
    BY <1>2 DEF ServerView
  <1>6. task \in [Slots -> ServerTask] /\ past \in ServerPast /\ \A s \in Slots : ~Rendering(s)
    BY DEF Server!Init, ServerTask, ServerPast, Rendering, Server!At, Server!Idle
  <1>7. RowsGoTogether
    BY <1>1 DEF RowsGoTogether, Server!Made
  <1>8. OneRender
    BY <1>6 DEF OneRender
  <1>9. RendersTruly
    BY <1>5, <1>6, SessionAssumption DEF RendersTruly
  <1>10. faults \in 0 .. MaxFaults
    <2>1. faults = 0 /\ MaxFaults \in Nat
      BY SessionAssumption DEF Server!Init
    <2> QED BY <2>1
  <1> QED BY <1>4, <1>5, <1>6, <1>7, <1>8, <1>9, <1>10 DEF ServerInv, ServerShapes

\* A page is opened: nothing is read yet, and nothing has changed since.
LEMMA OpenKeepsInvariant ==
  ASSUME ServerInv, NEW path \in Server!Paths, Server!Open(path)
  PROVE  ServerInv'
  <1>0. /\ ServerShapes /\ tables \in ServerTables /\ view \in ServerView
        /\ task \in [Slots -> ServerTask]
    BY DEF ServerInv, ServerShapes
  <1>1. \A s \in Slots : ~Rendering(s)
    BY <1>0, IdleOrRendering DEF Server!Open, Server!Quiet
  <1>2. /\ UNCHANGED <<tables, faults>> /\ past' \in ServerPast /\ RowsGoTogether'
        /\ past' = [changed |-> FALSE, failed |-> FALSE]
    BY DEF Server!Open, ServerPast, RowsGoTogether, ServerInv
  <1>3. CASE view.cookie
    <2> DEFINE t == [at |-> "reading", got |-> [l \in {} |-> None], failed |-> None]
    <2>1. PICK s \in Slots : task' = [task EXCEPT ![s] = t]
      <3> HIDE DEF t
      <3> QED BY <1>3 DEF Server!Open, Server!Call, t
    <2>2. t \in ServerRender /\ t.failed = None /\ t.got = [l \in {} |-> None]
      <3> DEFINE none == [l \in {} |-> None]
      <3>1. none \in ServerGot
        BY NothingRead
      <3> HIDE DEF none
      <3>2. [at |-> "reading", got |-> none, failed |-> None] \in ServerRender
        BY <3>1 DEF ServerRender, ServerErrors
      <3> QED BY <3>2 DEF none
    <2> HIDE DEF t
    <2>3. /\ task' \in [Slots -> ServerTask] /\ task'[s] = t
          /\ \A r \in Slots \ {s} : task'[r] = task[r]
      BY <1>0, <2>1, <2>2 DEF ServerTask
    <2>4. view' \in ServerView /\ view'.shown = None
      <3>1. view' = [view EXCEPT !.path = path, !.shown = None, !.got = None]
        BY <1>3 DEF Server!Open
      <3> QED BY <1>0, <3>1 DEF ServerView
    <2>5. \A r \in Slots \ {s} : ~Rendering(r)'
      BY <1>1, <2>3 DEF Rendering, Server!At
    <2>6. OneRender'
      BY <2>4, <2>5 DEF OneRender
    <2>7. ReadTruly(task[s].got)' /\ ErrorIsTrue(task[s].failed)'
      <3>1. DOMAIN task'[s].got = {}
        BY <2>2, <2>3, NothingRead
      <3> QED BY <2>2, <2>3, <3>1 DEF ReadTruly, ErrorIsTrue
    <2>8. RendersTruly'
      BY <2>4, <2>5, <2>7, SessionAssumption DEF RendersTruly
    <2> QED BY <1>0, <1>2, <2>3, <2>4, <2>6, <2>8 DEF ServerInv, ServerShapes
  <1>4. CASE ~view.cookie
    <2>1. view' = [view EXCEPT !.path = path, !.shown = "login", !.got = None] /\ UNCHANGED task
      BY <1>4 DEF Server!Open
    <2>2. view' \in ServerView /\ view'.shown = "login" /\ ~view'.cookie
      BY <1>0, <1>4, <2>1 DEF ServerView
    <2>3. \A s \in Slots : ~Rendering(s)'
      BY <1>1, <2>1 DEF Rendering, Server!At
    <2>4. OneRender' /\ RendersTruly'
      BY <2>2, <2>3 DEF OneRender, RendersTruly
    <2> QED BY <1>0, <1>2, <2>1, <2>2, <2>4 DEF ServerInv, ServerShapes
  <1> QED BY <1>3, <1>4 DEF ServerInv, ServerShapes, ServerView

\* A step of the render that goes on: what it then holds must be true.
LEMMA RenderGoesOn ==
  ASSUME ServerInv, NEW s \in Slots, Rendering(s), NEW t \in ServerRender,
         task' = [task EXCEPT ![s] = t], UNCHANGED <<tables, view>>, past' \in ServerPast,
         past'.changed = past.changed, faults' \in 0 .. MaxFaults,
         ReadTruly(t.got)', ErrorIsTrue(t.failed)'
  PROVE  ServerInv'
  <1>1. /\ task' \in [Slots -> ServerTask] /\ task'[s] = t
        /\ \A r \in Slots \ {s} : task'[r] = task[r]
    BY DEF ServerInv, ServerShapes, ServerTask
  <1>2. view.shown = None /\ \A r \in Slots \ {s} : ~Rendering(r)
    BY DEF ServerInv, OneRender
  <1>3. \A r \in Slots \ {s} : ~Rendering(r)'
    BY <1>1, <1>2 DEF Rendering, Server!At
  <1>4. OneRender'
    BY <1>2, <1>3 DEF OneRender
  <1>5. RendersTruly'
    BY <1>1, <1>2, <1>3, SessionAssumption DEF RendersTruly
  <1>6. RowsGoTogether'
    BY DEF ServerInv, RowsGoTogether
  <1> QED BY <1>1, <1>4, <1>5, <1>6 DEF ServerInv, ServerShapes

\* One answer more, which is true.
LEMMA AnswerIsTrue ==
  ASSUME ServerInv, NEW s \in Slots, Rendering(s), NEW list \in ServerKeys,
         NEW v \in BOOLEAN \cup ServerRows, Server!Got(s, list, v), UNCHANGED <<tables, view>>,
         past' \in ServerPast, past'.changed = past.changed, past.failed => past'.failed,
         faults' \in 0 .. MaxFaults,
         list \in Server!Lists => v = Server!Value(list),
         list \in Agents /\ ~past'.changed /\ ~past'.failed /\ tables.token = "valid" => v = TRUE
  PROVE  ServerInv'
  <1>0. /\ task[s] \in ServerRender /\ task[s].got \in ServerGot /\ task[s].failed \in ServerErrors
        /\ ReadTruly(task[s].got) /\ ErrorIsTrue(task[s].failed)
    BY RenderIsRecord DEF ServerInv, RendersTruly
  <1> DEFINE got == task[s].got
             added == [l \in DOMAIN got \cup {list} |-> IF l = list THEN v ELSE got[l]]
             goesOn == [task[s] EXCEPT !.got = added]
  <1>a. /\ added \in ServerGot /\ DOMAIN added = DOMAIN got \cup {list}
        /\ added[list] = v /\ \A l \in DOMAIN got \ {list} : added[l] = got[l]
    BY <1>0, AnswerAdded
  <1>b. task' = [task EXCEPT ![s] = goesOn]
    BY <1>0 DEF Server!Got, ServerInv, ServerShapes
  <1> HIDE DEF added
  <1>c. goesOn \in ServerRender /\ goesOn.got = added /\ goesOn.failed = task[s].failed
    BY <1>0, <1>a DEF ServerRender
  <1> HIDE DEF goesOn
  <1>1. PICK more \in ServerGot : more = added
    BY <1>a
  <1>3. PICK t \in ServerRender : t = goesOn /\ t.got = more /\ t.failed = task[s].failed
    BY <1>1, <1>c
  <1>2. task' = [task EXCEPT ![s] = t]
    BY <1>3, <1>b
  <1>4. ErrorIsTrue(t.failed)'
    BY <1>0, <1>3 DEF ErrorIsTrue
  <1>5. ReadTruly(more)'
    <2>0. /\ DOMAIN more = DOMAIN got \cup {list}
          /\ more[list] = v /\ \A l \in DOMAIN got \ {list} : more[l] = got[l]
      BY <1>1, <1>a
    <2>1. ~past'.changed => \A l \in Server!Lists \cap DOMAIN more : more[l] = Server!Value(l)'
      <3>1. \A l \in Server!Lists : Server!Value(l)' = Server!Value(l)
        BY DEF Server!Value
      <3>2. ~past.changed => \A l \in Server!Lists \cap DOMAIN got : got[l] = Server!Value(l)
        BY <1>0 DEF ReadTruly
      <3> HIDE DEF got
      <3> QED BY <2>0, <3>1, <3>2
    <2>2. \A a \in Agents \cap DOMAIN more :
            ~past'.changed /\ ~past'.failed /\ tables'.token = "valid" => more[a] = TRUE
      BY <1>0, <2>0 DEF ReadTruly
    <2> QED BY <2>1, <2>2 DEF ReadTruly
  <1> QED BY <1>2, <1>3, <1>4, <1>5, RenderGoesOn

\* A request is refused.
LEMMA RefusalIsTrue ==
  ASSUME ServerInv, NEW s \in Slots, Rendering(s), NEW error \in ServerErrors,
         Server!Rejects(s, error), UNCHANGED <<tables, view>>, past' \in ServerPast,
         past'.changed = past.changed, past.failed => past'.failed, faults' \in 0 .. MaxFaults,
         ErrorIsTrue(error)
  PROVE  ServerInv'
  <1>0. /\ task[s] \in ServerRender /\ task[s].got \in ServerGot /\ ReadTruly(task[s].got)
    BY RenderIsRecord DEF ServerInv, RendersTruly
  <1> DEFINE stops == [task[s] EXCEPT !.failed = error]
  <1>a. stops \in ServerRender /\ stops.got = task[s].got /\ stops.failed = error
    BY <1>0 DEF ServerRender
  <1>b. task' = [task EXCEPT ![s] = stops]
    BY <1>0 DEF Server!Rejects, ServerInv, ServerShapes
  <1> HIDE DEF stops
  <1>1. PICK t \in ServerRender : t = stops /\ t.got = task[s].got /\ t.failed = error
    BY <1>a
  <1>2. task' = [task EXCEPT ![s] = t]
    BY <1>1, <1>b
  <1>3. ErrorIsTrue(t.failed)'
    BY <1>1 DEF ErrorIsTrue
  <1>4. ReadTruly(t.got)'
    <2>1. \A l \in Server!Lists : Server!Value(l)' = Server!Value(l)
      BY DEF Server!Value
    <2> QED BY <1>0, <1>1, <2>1 DEF ReadTruly
  <1> QED BY <1>1, <1>2, <1>3, <1>4, RenderGoesOn

\* A list is read, or refused.
LEMMA ReadListKeepsInvariant ==
  ASSUME ServerInv, NEW s \in Slots, NEW list \in Server!Lists \cup {"vault"}, Server!ReadList(s, list)
  PROVE  ServerInv'
  <1>0. /\ UNCHANGED <<tables, view, past, faults>> /\ Rendering(s) /\ list \in ServerKeys
        /\ past' \in ServerPast /\ faults' \in 0 .. MaxFaults
    BY DEF Server!ReadList, Server!Pending, Rendering, ServerKeys, ServerInv, ServerShapes
  <1>a. /\ tables.agents \in ServerRows
        /\ tables.executions \in BOOLEAN /\ tables.alerts \in BOOLEAN /\ tables.vaults \in BOOLEAN
    BY DEF ServerInv, ServerShapes, ServerTables
  <1>b. list \notin Agents
    BY SessionAssumption
  <1>1. CASE tables.token = "expired"
    <2>1. Server!Rejects(s, "unauthorized") /\ ErrorIsTrue("unauthorized")
      BY <1>1 DEF Server!ReadList, ErrorIsTrue
    <2> QED BY <1>0, <2>1, RefusalIsTrue DEF ServerErrors
  <1>2. CASE tables.token # "expired" /\ list = "vault"
    <2>1. Server!Got(s, list, TRUE) \/ Server!Rejects(s, "forbidden")
      BY <1>2 DEF Server!ReadList
    <2>2. "vault" \notin Server!Lists /\ ErrorIsTrue("forbidden")
      BY DEF Server!Lists, ErrorIsTrue
    <2>3. CASE Server!Got(s, list, TRUE)
      BY <1>0, <1>2, <1>b, <2>2, <2>3, AnswerIsTrue
    <2>4. CASE Server!Rejects(s, "forbidden")
      BY <1>0, <2>2, <2>4, RefusalIsTrue DEF ServerErrors
    <2> QED BY <2>1, <2>3, <2>4
  <1>3. CASE tables.token # "expired" /\ list # "vault"
    <2>1. Server!Got(s, list, Server!Value(list))
      BY <1>3 DEF Server!ReadList
    <2>2. Server!Value(list) \in BOOLEAN \cup ServerRows
      BY <1>3, <1>a DEF Server!Value, Server!Lists
    <2> QED BY <1>0, <1>b, <2>1, <2>2, AnswerIsTrue
  <1> QED BY <1>1, <1>2, <1>3

\* Nothing changed since the agents were read: the agents that were there have
\* their policies.
LEMMA AgentsReadHavePolicies ==
  ASSUME ServerInv, NEW s \in Slots, Rendering(s), "agents" \in DOMAIN task[s].got, ~past.changed
  PROVE  /\ task[s].got["agents"] = tables.agents
         /\ \A a \in Agents : tables.agents[a] # None => a \in tables.policies
  <1>1. task[s].got["agents"] = tables.agents
    BY DEF ServerInv, RendersTruly, ReadTruly, Server!Lists, Server!Value
  <1>2. \A a \in Agents : tables.agents[a] # None => a \in tables.policies
    BY DEF ServerInv, RowsGoTogether, Server!Made
  <1> QED BY <1>1, <1>2

LEMMA ReadPolicyKeepsInvariant ==
  ASSUME ServerInv, NEW s \in Slots, NEW a \in Agents, Rendering(s), Server!ReadPolicy(s, a)
  PROVE  ServerInv'
  <1>0. /\ UNCHANGED <<tables, view, past, faults>> /\ a \in ServerKeys /\ a \notin Server!Lists
        /\ past' \in ServerPast /\ faults' \in 0 .. MaxFaults
    BY SessionAssumption DEF Server!ReadPolicy, ServerKeys, ServerInv, ServerShapes
  <1> DEFINE v == tables.token = "valid" /\ a \in tables.policies
  <1>1. Server!Got(s, a, v) /\ v \in BOOLEAN
    BY DEF Server!ReadPolicy
  <1>2. ~past.changed /\ tables.token = "valid" => v = TRUE
    BY AgentsReadHavePolicies DEF Server!ReadPolicy
  <1> HIDE DEF v
  <1> QED BY <1>0, <1>1, <1>2, AnswerIsTrue

LEMMA ReadFailsKeepsInvariant ==
  ASSUME ServerInv, NEW s \in Slots, Server!ReadFails(s)
  PROVE  ServerInv'
  <1>0. /\ UNCHANGED <<tables, view>> /\ Rendering(s) /\ past \in ServerPast
    BY DEF Server!ReadFails, Rendering, ServerInv, ServerShapes
  <1>1. past' \in ServerPast /\ past'.failed /\ past'.changed = past.changed
    BY <1>0 DEF Server!ReadFails, ServerPast
  <1>2. faults' \in 0 .. MaxFaults
    <2>1. MaxFaults \in Nat /\ faults \in 0 .. MaxFaults /\ faults < MaxFaults /\ faults' = faults + 1
      BY SessionAssumption DEF Server!ReadFails, Server!Fault, ServerInv
    <2> QED BY <2>1
  <1>3. CASE Server!Rejects(s, "failed")
    <2>1. ErrorIsTrue("failed")
      BY DEF ErrorIsTrue
    <2> QED BY <1>0, <1>1, <1>2, <1>3, <2>1, RefusalIsTrue DEF ServerErrors
  <1>4. ASSUME NEW a \in Agents, Server!Got(s, a, FALSE) PROVE ServerInv'
    <2>1. a \in ServerKeys /\ a \notin Server!Lists
      BY SessionAssumption DEF ServerKeys
    <2> QED BY <1>0, <1>1, <1>2, <1>4, <2>1, AnswerIsTrue
  <1> QED BY <1>3, <1>4 DEF Server!ReadFails

\* The render ends: the page is shown with what was read, or an error is.
LEMMA RenderEnds ==
  ASSUME ServerInv, NEW s \in Slots, Server!RenderFails(s) \/ Server!Rendered(s)
  PROVE  ServerInv'
  <1>0. /\ UNCHANGED <<tables, faults, past>> /\ Rendering(s) /\ Server!Ends(s)
        /\ view \in ServerView /\ task \in [Slots -> ServerTask]
    BY DEF Server!RenderFails, Server!Rendered, Rendering, ServerInv, ServerShapes
  <1>1. task' \in [Slots -> ServerTask] /\ \A r \in Slots : ~Rendering(r)'
    <2>1. task' = [task EXCEPT ![s] = Server!Idle]
      BY <1>0 DEF Server!Ends
    <2>2. task' \in [Slots -> ServerTask] /\ task'[s] = Server!Idle /\ \A r \in Slots \ {s} : task'[r] = task[r]
      BY <1>0, <2>1 DEF ServerTask
    <2>3. ~Rendering(s)'
      BY <2>2 DEF Rendering, Server!At, Server!Idle
    <2>4. \A r \in Slots \ {s} : ~Rendering(r)'
      BY <1>0, <2>2 DEF ServerInv, OneRender, Rendering, Server!At
    <2> QED BY <2>2, <2>3, <2>4
  <1>2. OneRender' /\ RowsGoTogether' /\ past' \in ServerPast /\ tables' \in ServerTables
    BY <1>0, <1>1 DEF OneRender, RowsGoTogether, ServerInv, ServerShapes
  <1>3. CASE Server!RenderFails(s)
    <2>1. view' = [view EXCEPT !.shown = Server!ErrorShown(task[s].failed)]
      BY <1>3 DEF Server!RenderFails
    <2>2. Server!ErrorShown(task[s].failed) \in {"login", "error", "not found"}
      BY DEF Server!ErrorShown
    <2>3. Server!ErrorShown(task[s].failed) = "login" => tables.token = "expired"
      <3>1. Server!ErrorShown(task[s].failed) = "login" => task[s].failed = "unauthorized"
        BY DEF Server!ErrorShown, Server!IsAuthError
      <3>2. task[s].failed # None
        BY <1>3 DEF Server!RenderFails
      <3> QED BY <1>0, <3>1, <3>2 DEF ServerInv, RendersTruly, ErrorIsTrue
    <2>4. view' \in ServerView /\ view'.shown = Server!ErrorShown(task[s].failed)
      BY <1>0, <2>1, <2>2 DEF ServerView
    <2>5. RendersTruly'
      BY <1>0, <1>1, <2>2, <2>3, <2>4 DEF RendersTruly
    <2> QED BY <1>0, <1>1, <1>2, <2>4, <2>5 DEF ServerInv, ServerShapes
  <1>4. CASE Server!Rendered(s)
    <2>1. task[s].got \in ServerGot /\ ReadTruly(task[s].got) /\ Server!Complete(s)
      BY <1>0, <1>4, RenderIsRecord DEF Server!Rendered, ServerInv, RendersTruly
    <2>2. view' = [view EXCEPT !.shown = "page", !.got = task[s].got]
      BY <1>4 DEF Server!Rendered
    <2>3. view' \in ServerView /\ view'.shown = "page" /\ view'.got = task[s].got /\ view'.path = view.path
      BY <1>0, <2>1, <2>2 DEF ServerView
    <2>4. ReadTruly(view.got)'
      <3>1. \A l \in Server!Lists : Server!Value(l)' = Server!Value(l)
        BY <1>0 DEF Server!Value
      <3> QED BY <1>0, <2>1, <2>3, <3>1 DEF ReadTruly
    <2>5. RendersTruly'
      BY <1>1, <2>1, <2>3, <2>4 DEF RendersTruly, Server!Complete
    <2> QED BY <1>0, <1>1, <1>2, <2>3, <2>5 DEF ServerInv, ServerShapes
  <1> QED BY <1>3, <1>4

\* The tables change: what was read then is not said to be true any more.
LEMMA TablesKeepInvariant ==
  ASSUME ServerInv, Server!RowsChange \/ Server!TokenExpires
  PROVE  ServerInv'
  <1>0. /\ UNCHANGED <<view, task, faults>> /\ tables \in ServerTables /\ past \in ServerPast
        /\ tables.agents \in ServerRows /\ RowsGoTogether
    BY DEF Server!RowsChange, Server!TokenExpires, ServerInv, ServerShapes, ServerTables
  <1>1. OneRender'
    BY <1>0 DEF ServerInv, OneRender, Rendering, Server!At
  <1>2. CASE Server!TokenExpires
    <2>1. /\ UNCHANGED past /\ tables' \in ServerTables /\ tables'.token = "expired"
          /\ \A l \in Server!Lists : Server!Value(l)' = Server!Value(l)
      BY <1>0, <1>2 DEF Server!TokenExpires, ServerTables, Server!Value, Server!Lists
    <2>2. RowsGoTogether'
      BY <1>0, <1>2 DEF Server!TokenExpires, ServerTables, RowsGoTogether
    <2>3. \A got : ReadTruly(got) => ReadTruly(got)'
      BY <2>1 DEF ReadTruly
    <2>4. RendersTruly'
      BY <1>0, <2>1, <2>3 DEF ServerInv, RendersTruly, Rendering, Server!At, ErrorIsTrue
    <2> QED BY <1>0, <1>1, <2>1, <2>2, <2>4 DEF ServerInv, ServerShapes
  <1>3. CASE Server!RowsChange
    <2>1. past' \in ServerPast /\ past'.changed
      BY <1>0, <1>3 DEF Server!RowsChange, ServerPast
    <2>2. tables' \in ServerTables /\ RowsGoTogether' /\ tables'.token = tables.token
      <3>1. ASSUME NEW a \in Agents, tables.agents[a] = None,
                   tables' = [tables EXCEPT !.agents[a] = "active", !.policies = tables.policies \cup {a}]
            PROVE  tables' \in ServerTables /\ RowsGoTogether' /\ tables'.token = tables.token
        <4>1. /\ tables' \in ServerTables /\ tables'.agents = [tables.agents EXCEPT ![a] = "active"]
              /\ tables'.policies = tables.policies \cup {a}
              /\ tables'.token = tables.token /\ tables'.executions = tables.executions
              /\ tables'.alerts = tables.alerts
          BY <1>0, <3>1 DEF ServerTables, ServerRows
        <4>2. Server!Made(tables'.agents) = Server!Made(tables.agents) \cup {a}
          BY <1>0, <4>1, SessionAssumption DEF Server!Made, ServerRows
        <4> QED BY <1>0, <4>1, <4>2 DEF RowsGoTogether
      <3>2. ASSUME NEW a \in Agents, tables.agents[a] = "active",
                   tables' = [tables EXCEPT !.agents[a] = "paused"]
            PROVE  tables' \in ServerTables /\ RowsGoTogether' /\ tables'.token = tables.token
        <4>1. /\ tables' \in ServerTables /\ tables'.agents = [tables.agents EXCEPT ![a] = "paused"]
              /\ tables'.policies = tables.policies
              /\ tables'.token = tables.token /\ tables'.executions = tables.executions
              /\ tables'.alerts = tables.alerts
          BY <1>0, <3>2 DEF ServerTables, ServerRows
        <4>2. Server!Made(tables'.agents) = Server!Made(tables.agents)
          BY <1>0, <3>2, <4>1, SessionAssumption DEF Server!Made, ServerRows
        <4> QED BY <1>0, <4>1, <4>2 DEF RowsGoTogether
      <3>3. ASSUME Server!Active(tables.agents) # {}, tables' = [tables EXCEPT !.executions = TRUE]
            PROVE  tables' \in ServerTables /\ RowsGoTogether' /\ tables'.token = tables.token
        <4>1. Server!Made(tables.agents) # {}
          BY <3>3, SessionAssumption DEF Server!Made, Server!Active
        <4> QED BY <1>0, <3>3, <4>1 DEF ServerTables, RowsGoTogether
      <3>4. ASSUME tables.executions, tables' = [tables EXCEPT !.alerts = TRUE]
            PROVE  tables' \in ServerTables /\ RowsGoTogether' /\ tables'.token = tables.token
        BY <1>0, <3>4 DEF ServerTables, RowsGoTogether
      <3> QED BY <1>3, <3>1, <3>2, <3>3, <3>4 DEF Server!RowsChange
    <2>3. \A got : ReadTruly(got)'
      BY <2>1 DEF ReadTruly
    <2>4. RendersTruly'
      BY <1>0, <2>2, <2>3 DEF ServerInv, RendersTruly, Rendering, Server!At, ErrorIsTrue
    <2> QED BY <1>0, <1>1, <2>1, <2>2, <2>4 DEF ServerInv, ServerShapes
  <1> QED BY <1>2, <1>3

LEMMA ServerMoves == ASSUME ServerInv, [Server!Next]_vars PROVE ServerInv'
  <1>1. ASSUME NEW path \in Server!Paths, Server!Open(path) PROVE ServerInv'
    BY <1>1, OpenKeepsInvariant
  <1>2. ASSUME NEW s \in Slots, NEW list \in Server!Lists \cup {"vault"}, Server!ReadList(s, list)
        PROVE  ServerInv'
    BY <1>2, ReadListKeepsInvariant
  <1>3. ASSUME NEW s \in Slots, NEW a \in Agents, Server!At(s, "reading"), Server!ReadPolicy(s, a)
        PROVE  ServerInv'
    BY <1>3, ReadPolicyKeepsInvariant DEF Rendering
  <1>4. ASSUME NEW s \in Slots, Server!RenderFails(s) \/ Server!Rendered(s) PROVE ServerInv'
    BY <1>4, RenderEnds
  <1>5. ASSUME NEW s \in Slots, Server!ReadFails(s) PROVE ServerInv'
    BY <1>5, ReadFailsKeepsInvariant
  <1>6. CASE Server!RowsChange \/ Server!TokenExpires
    BY <1>6, TablesKeepInvariant
  <1>7. CASE UNCHANGED vars
    <2>1. \A l \in Server!Lists : Server!Value(l)' = Server!Value(l)
      BY <1>7 DEF Server!Value, vars
    <2>2. \A got : ReadTruly(got) => ReadTruly(got)'
      BY <1>7, <2>1 DEF ReadTruly, vars
    <2> QED BY <1>7, <2>2 DEF ServerInv, ServerShapes, RowsGoTogether, OneRender,
               RendersTruly,
              Rendering, Server!At, ErrorIsTrue, vars
  <1> QED BY <1>1, <1>2, <1>3, <1>4, <1>5, <1>6, <1>7 DEF Server!Next, Server!Progress

LEMMA ServerPromises ==
  ASSUME ServerInv
  PROVE  /\ Server!Here /\ Server!TypeOK
         /\ Server!LoginMeansNoSession /\ Server!PanelsAgree /\ Server!EmptyStatesAreTrue
  <1>0. /\ tables \in ServerTables /\ view \in ServerView /\ past \in ServerPast
        /\ RowsGoTogether /\ RendersTruly
    BY DEF ServerInv, ServerShapes
  <1>1. Server!Here
    BY <1>0 DEF ServerView, Server!Here
  <1>2. Server!TypeOK
    <2>1. \A s \in Slots : \/ Server!At(s, "idle")
                           \/ task[s].failed \in {None, "unauthorized", "forbidden", "failed"}
      BY IdleOrRendering, RenderIsRecord DEF ServerInv, ServerErrors
    <2>2. <<tables.executions, tables.alerts, tables.vaults>> \in BOOLEAN \X BOOLEAN \X BOOLEAN
      BY <1>0 DEF ServerTables
    <2>3. /\ tables.token \in {"valid", "expired"} /\ tables.policies \subseteq Agents
          /\ tables.agents \in [Agents -> {None, "active", "paused"}]
      BY <1>0 DEF ServerTables, ServerRows
    <2>4. /\ view.path \in Server!Paths \cup {None} /\ view.cookie \in BOOLEAN
          /\ view.shown \in {None, "page", "login", "error", "not found"}
      BY <1>0 DEF ServerView
    <2> QED BY <1>0, <2>1, <2>2, <2>3, <2>4 DEF Server!TypeOK, ServerPast, ServerInv
  <1>3. Server!LoginMeansNoSession
    BY <1>0 DEF RendersTruly, Server!LoginMeansNoSession
  <1>4. Server!PanelsAgree
    <2> SUFFICES ASSUME view.shown = "page", view.path = "console", Server!Bootstrap(view.got), ~past.changed
                 PROVE  /\ ~Server!ExecutionFeed(view.got) /\ ~Server!AlertStack(view.got)
                        /\ Server!ShieldLayers(view.got) = {"AI_RISK", "POLICY"}
      BY DEF Server!PanelsAgree
    <2>1. {"agents", "executions", "alerts"} \subseteq Server!Lists \cap DOMAIN view.got
      BY <1>0 DEF RendersTruly, Server!Reads, Server!Lists
    <2>2. /\ view.got["agents"] = tables.agents /\ view.got["executions"] = tables.executions
          /\ view.got["alerts"] = tables.alerts
      BY <1>0, <2>1 DEF RendersTruly, ReadTruly, Server!Value
    <2>3. Server!Made(tables.agents) = {} /\ ~tables.executions /\ ~tables.alerts
      BY <1>0, <2>2 DEF Server!Bootstrap, RowsGoTogether
    <2>4. ~Server!ExecutionFeed(view.got) /\ ~Server!AlertStack(view.got) /\ Server!AgentRegistry(view.got) = {}
      BY <2>2, <2>3 DEF Server!ExecutionFeed, Server!AlertStack, Server!AgentRegistry
    <2> QED BY <2>4 DEF Server!ShieldLayers
  <1>5. Server!EmptyStatesAreTrue
    <2> SUFFICES ASSUME view.shown = "page", Server!EmptyState(view.path, view.got), ~past.changed
                 PROVE  CASE view.path = "policies" ->
                               tables.policies = {} \/ past.failed \/ tables.token = "expired"
                          [] view.path = "agents" -> Server!Made(tables.agents) = {}
                          [] OTHER -> ~Server!Value(view.path)
      BY DEF Server!EmptyStatesAreTrue
    <2>0. Server!Reads(view.path) \subseteq DOMAIN view.got /\ ReadTruly(view.got)
      BY <1>0 DEF RendersTruly
    <2>1. CASE view.path = "policies"
      <3>1. view.got["agents"] = tables.agents
        BY <2>0, <2>1 DEF ReadTruly, Server!Reads, Server!Lists, Server!Value
      <3>2. \A a \in Server!Made(tables.agents) : a \in Agents \cap DOMAIN view.got
        BY <1>0, <2>1, <3>1 DEF RendersTruly, Server!Made
      <3>3. Server!Items(view.got) = {}
        BY <2>1 DEF Server!EmptyState, Server!NoPolicies
      <3>4. ~past.failed /\ tables.token = "valid" => Server!Made(tables.agents) = {}
        BY <2>0, <3>1, <3>2, <3>3 DEF Server!Items, ReadTruly
      <3>5. tables.token \in {"valid", "expired"} /\ tables.policies = Server!Made(tables.agents)
        BY <1>0 DEF ServerTables, RowsGoTogether
      <3> QED BY <2>1, <3>4, <3>5
    <2>2. CASE view.path = "agents"
      <3>1. view.got["agents"] = tables.agents
        BY <2>0, <2>2 DEF ReadTruly, Server!Reads, Server!Lists, Server!Value
      <3> QED BY <2>2, <3>1 DEF Server!EmptyState, Server!NoAgents
    <2>3. CASE view.path \in {"executions", "alerts", "vaults"}
      <3>1. view.got[view.path] = Server!Value(view.path)
        BY <2>0, <2>3 DEF ReadTruly, Server!Reads, Server!Lists
      <3> QED BY <2>3, <3>1 DEF Server!EmptyState, Server!NoVaults, Server!NoExecutions,
                 Server!NoAlerts
    <2>4. view.path \in {"policies", "agents", "executions", "alerts", "vaults"}
      BY DEF Server!EmptyState
    <2> QED BY <2>1, <2>2, <2>3, <2>4
  <1> QED BY <1>1, <1>2, <1>3, <1>4, <1>5

-----------------------------------------------------------------------------
(* THE DEMO PAGE *)

-----------------------------------------------------------------------------
(* What a poll has read and what the page shows *)

DemoTables ==
    [status : [DemoAgents -> Demo!Status], executions : [DemoAgents -> Demo!Rows],
     alerts : [DemoAgents -> SUBSET (1 .. MaxExecutions)]]

DemoPoll ==
    [at : {"agents", "reading"}, agent : DemoAgents \cup {None}, from : Nat \cup {None},
     rows : Demo!Rows \cup {None}, alerts : (SUBSET (1 .. MaxExecutions)) \cup {None}]
DemoTask == {Demo!Idle} \cup DemoPoll

DemoActivity ==
    [agent : DemoAgents, rows : Demo!Rows, from : Nat, alerts : SUBSET (1 .. MaxExecutions)]
DemoDetail == [agent : DemoAgents, row : 1 .. MaxExecutions, result : Demo!Results]
DemoView ==
    [page : {"demo"}, agentId : DemoAgents \cup {None}, summary : DemoAgents \cup {None},
     activity : DemoActivity \cup {None}, detail : DemoDetail \cup {None}]

DemoShapes ==
    /\ tables \in DemoTables /\ view \in DemoView /\ task \in [Slots -> DemoTask]

\* Rows that were read are the first rows of the table, and stay that: the table
\* only grows.  The window starts where the query's LIMIT has it.
RowsRead(agent, rows, from) ==
    LET now == tables.executions[agent] IN
    /\ Len(rows) <= Len(now) /\ \A x \in 1 .. Len(rows) : rows[x] = now[x]
    /\ from = IF Len(rows) > Window THEN Len(rows) - Window + 1 ELSE 1

\* The executions that raise an alert.
Blocked(agent) ==
    {x \in 1 .. Len(tables.executions[agent]) : tables.executions[agent][x] = "blocked"}

PollKnows(t) ==
    /\ t.at = "agents" => t.rows = None /\ t.alerts = None
    /\ t.at = "reading" => t.agent \in DemoAgents
    /\ t.rows # None => RowsRead(t.agent, t.rows, t.from)
    /\ t.alerts # None => t.rows # None /\ t.alerts \subseteq Blocked(t.agent)

DetailKnows(detail) ==
    /\ detail.row \in 1 .. Len(tables.executions[detail.agent])
    /\ tables.executions[detail.agent][detail.row] = detail.result
    /\ detail.result # "approved"

DemoInv ==
    /\ DemoShapes
    /\ \A a \in DemoAgents : tables.alerts[a] \subseteq Blocked(a)
    /\ \A s \in Slots : task[s] # Demo!Idle => PollKnows(task[s])
    /\ view.activity # None => /\ RowsRead(view.activity.agent, view.activity.rows, view.activity.from)
                               /\ view.activity.alerts \subseteq Blocked(view.activity.agent)
    /\ view.detail # None => DetailKnows(view.detail)
    /\ faults \in 0 .. MaxFaults

-----------------------------------------------------------------------------
(* Facts about the data *)

LEMMA RowsAreSequences ==
  ASSUME NEW rows
  PROVE  rows \in Demo!Rows <=> rows \in Seq(Demo!Results) /\ Len(rows) <= MaxExecutions
  <1>1. ASSUME rows \in Demo!Rows
        PROVE  rows \in Seq(Demo!Results) /\ Len(rows) <= MaxExecutions
    <2>1. PICK n \in 0 .. MaxExecutions : rows \in [1 .. n -> Demo!Results]
      BY <1>1 DEF Demo!Rows
    <2>2. n \in Nat /\ n <= MaxExecutions
      BY SessionAssumption
    <2> QED BY <2>1, <2>2
  <1>2. ASSUME rows \in Seq(Demo!Results), Len(rows) <= MaxExecutions
        PROVE  rows \in Demo!Rows
    <2>1. Len(rows) \in 0 .. MaxExecutions /\ rows \in [1 .. Len(rows) -> Demo!Results]
      BY <1>2, SessionAssumption
    <2> QED BY <2>1 DEF Demo!Rows
  <1> QED BY <1>1, <1>2

\* A finite set of numbers has a largest.
LEMMA MaxIsMember ==
  ASSUME NEW S \in SUBSET DemoAgents, S # {}
  PROVE  Demo!Max(S) \in S
  <1> DEFINE Largest(s) == \E x \in s : \A y \in s : x >= y
             B == {s \in SUBSET DemoAgents : s # {} => Largest(s)}
  <1>1. ASSUME NEW s \in SUBSET DemoAgents, \A x \in s : s \ {x} \in B
        PROVE  s \in B
    <2> SUFFICES ASSUME s # {} PROVE Largest(s)
      OBVIOUS
    <2>0. s \subseteq Nat
      BY SessionAssumption
    <2>1. PICK x \in s : TRUE
      OBVIOUS
    <2>2. CASE s \ {x} = {}
      <3>1. \A y \in s : y = x
        BY <2>2
      <3> QED BY <2>0, <2>1, <3>1
    <2>3. CASE s \ {x} # {}
      <3>1. PICK z \in s \ {x} : \A y \in s \ {x} : z >= y
        BY <1>1, <2>3
      <3>2. CASE z >= x
        BY <3>1, <3>2
      <3>3. CASE ~(z >= x)
        <4>1. \A y \in s : x >= y
          BY <2>0, <3>1, <3>3
        <4> QED BY <4>1
      <3> QED BY <3>2, <3>3
    <2> QED BY <2>2, <2>3
  <1>2. B = SUBSET DemoAgents
    <2> HIDE DEF Largest
    <2>1. B \in SUBSET (SUBSET DemoAgents)
      OBVIOUS
    <2> HIDE DEF B
    <2> QED BY <1>1, <2>1, SubsetInduction, SessionAssumption
  <1>3. Largest(S)
    BY <1>2
  <1> QED BY <1>3 DEF Demo!Max

LEMMA ChosenIsAgent ==
  ASSUME NEW status, Demo!Chosen(status) # None
  PROVE  Demo!Chosen(status) \in DemoAgents
  <1> DEFINE made == {a \in DemoAgents : status[a] # None}
             active == {a \in DemoAgents : status[a] = "active"}
             S == IF active = {} THEN made ELSE active
  <1>1. Demo!Chosen(status) = Demo!Max(S) /\ made # {}
    BY DEF Demo!Chosen
  <1>2. S \in SUBSET DemoAgents /\ S # {}
    BY <1>1
  <1> HIDE DEF S
  <1>3. Demo!Max(S) \in S
    BY <1>2, MaxIsMember
  <1> QED BY <1>1, <1>2, <1>3

LEMMA PollType ==
  ASSUME NEW a \in DemoAgents \cup {None}
  PROVE  /\ Demo!Poll(a) \in DemoPoll /\ PollKnows(Demo!Poll(a)) /\ PollKnows(Demo!Poll(a))'
  <1>1. /\ Demo!Poll(a) \in DemoPoll
        /\ Demo!Poll(a).rows = None /\ Demo!Poll(a).alerts = None /\ Demo!Poll(a).agent = a
        /\ Demo!Poll(a).at = "reading" => a # None
    <2> DEFINE at == IF a = None THEN "agents" ELSE "reading"
    <2>1. at \in {"agents", "reading"} /\ (at = "reading" => a # None)
      OBVIOUS
    <2>2. Demo!Poll(a) = [at |-> at, agent |-> a, from |-> None, rows |-> None, alerts |-> None]
      BY DEF Demo!Poll
    <2> HIDE DEF at
    <2>3. [at |-> at, agent |-> a, from |-> None, rows |-> None, alerts |-> None] \in DemoPoll
      <3>1. /\ None \in Nat \cup {None} /\ None \in Demo!Rows \cup {None}
            /\ None \in (SUBSET (1 .. MaxExecutions)) \cup {None}
        BY Zenon
      <3> QED BY <2>1, <3>1, Zenon DEF DemoPoll
    <2> QED BY <2>1, <2>2, <2>3
  <1>2. PollKnows(Demo!Poll(a))
    BY <1>1 DEF PollKnows
  <1>3. PICK t : t = Demo!Poll(a)
    OBVIOUS
  <1>4. PollKnows(t)'
    BY <1>1, <1>3 DEF PollKnows
  <1>5. Demo!Poll(a)' = Demo!Poll(a)
    BY DEF Demo!Poll
  <1> QED BY <1>1, <1>2, <1>3, <1>4, <1>5

\* A poll under way is a whole record, and it knows what it knows.
LEMMA PollIsRecord ==
  ASSUME DemoInv, NEW s \in Slots, ~Demo!At(s, "idle")
  PROVE  task[s] \in DemoPoll /\ PollKnows(task[s])
  <1>1. task[s] # Demo!Idle
    BY DEF Demo!At, Demo!Idle
  <1> QED BY <1>1 DEF DemoInv, DemoShapes, DemoTask

\* The executions only grow: what is known of them stays true.
Grows ==
    \A a \in DemoAgents :
        /\ Len(tables.executions[a]) <= Len(tables'.executions[a])
        /\ \A x \in 1 .. Len(tables.executions[a]) : tables'.executions[a][x] = tables.executions[a][x]

LEMMA KnownStaysTrue ==
  ASSUME DemoInv, tables' \in DemoTables, Grows
  PROVE  /\ \A a \in DemoAgents : \A rows \in Demo!Rows, from \in Nat \cup {None} :
               RowsRead(a, rows, from) => RowsRead(a, rows, from)'
         /\ \A a \in DemoAgents : Blocked(a) \subseteq Blocked(a)'
         /\ \A detail \in DemoDetail : DetailKnows(detail) => DetailKnows(detail)'
  <1>1. \A a \in DemoAgents : Len(tables.executions[a]) \in Nat /\ Len(tables'.executions[a]) \in Nat
    <2>1. \A a \in DemoAgents : tables.executions[a] \in Demo!Rows /\ tables'.executions[a] \in Demo!Rows
      BY DEF DemoInv, DemoShapes, DemoTables
    <2> QED BY <2>1, RowsAreSequences
  <1>2. ASSUME NEW a \in DemoAgents, NEW rows \in Demo!Rows, NEW from \in Nat \cup {None},
               RowsRead(a, rows, from)
        PROVE  RowsRead(a, rows, from)'
    <2>1. Len(rows) \in Nat
      BY RowsAreSequences
    <2>2. Len(rows) <= Len(tables'.executions[a])
      BY <1>1, <1>2, <2>1 DEF RowsRead, Grows
    <2>3. \A x \in 1 .. Len(rows) : x \in 1 .. Len(tables.executions[a])
      BY <1>1, <1>2, <2>1 DEF RowsRead
    <2>4. \A x \in 1 .. Len(rows) : rows[x] = tables'.executions[a][x]
      BY <1>2, <2>3 DEF RowsRead, Grows
    <2> QED BY <1>2, <2>2, <2>4 DEF RowsRead
  <1>3. ASSUME NEW a \in DemoAgents, NEW x \in 1 .. Len(tables.executions[a])
        PROVE  x \in 1 .. Len(tables'.executions[a]) /\ tables'.executions[a][x] = tables.executions[a][x]
    BY <1>1 DEF Grows
  <1>4. \A a \in DemoAgents : Blocked(a) \subseteq Blocked(a)'
    BY <1>3 DEF Blocked
  <1>5. \A detail \in DemoDetail : DetailKnows(detail) => DetailKnows(detail)'
    BY <1>3 DEF DetailKnows, DemoDetail
  <1> QED BY <1>2, <1>4, <1>5

\* What the polls know stays true too.
LEMMA PollsStayTrue ==
  ASSUME DemoInv, tables' \in DemoTables, Grows, NEW t \in DemoPoll, PollKnows(t)
  PROVE  PollKnows(t)'
  <1>1. t.at \in {"agents", "reading"} /\ t.from \in Nat \cup {None} /\ t.rows \in Demo!Rows \cup {None}
    BY DEF DemoPoll
  <1>2. CASE t.at = "agents"
    BY <1>2 DEF PollKnows
  <1>3. CASE t.at = "reading"
    <2>1. t.agent \in DemoAgents
      BY <1>3 DEF PollKnows
    <2>2. t.rows # None => RowsRead(t.agent, t.rows, t.from)'
      BY <1>1, <2>1, KnownStaysTrue DEF PollKnows
    <2>3. t.alerts # None => t.rows # None /\ t.alerts \subseteq Blocked(t.agent)'
      BY <2>1, KnownStaysTrue DEF PollKnows
    <2> QED BY <1>3, <2>1, <2>2, <2>3 DEF PollKnows
  <1> QED BY <1>1, <1>2, <1>3

-----------------------------------------------------------------------------
(* The steps *)

LEMMA DemoStarts == ASSUME Demo!Init PROVE DemoInv
  <1>1. PICK a \in DemoAgents \cup {None}, status \in [DemoAgents -> {"active", None}] :
          /\ tables = [status |-> status, executions |-> [b \in DemoAgents |-> <<>>],
                       alerts |-> [b \in DemoAgents |-> {}]]
          /\ view = [page |-> "demo", agentId |-> a, summary |-> None, activity |-> None,
                     detail |-> None]
          /\ Demo!OnlyOneCall(Demo!Poll(a))
          /\ faults = 0
    BY DEF Demo!Init
  <1>2. tables \in DemoTables
    <2>1. <<>> \in Demo!Rows
      <3>1. <<>> \in Seq(Demo!Results) /\ Len(<<>>) <= MaxExecutions
        BY SessionAssumption
      <3> QED BY <3>1, RowsAreSequences
    <2>2. status \in [DemoAgents -> Demo!Status]
      BY DEF Demo!Status
    <2> QED BY <1>1, <2>1, <2>2 DEF DemoTables
  <1>3. view \in DemoView /\ view.activity = None /\ view.detail = None
    BY <1>1 DEF DemoView
  <1>4. task \in [Slots -> DemoTask] /\ \A s \in Slots : task[s] # Demo!Idle => task[s] = Demo!Poll(a)
    <2>1. Demo!Poll(a) \in DemoPoll
      BY PollType
    <2> QED BY <1>1, <2>1 DEF Demo!OnlyOneCall, Demo!Alone, DemoTask
  <1>5. \A s \in Slots : task[s] # Demo!Idle => PollKnows(task[s])
    BY <1>4, PollType
  <1>6. \A b \in DemoAgents : tables.alerts[b] \subseteq Blocked(b)
    BY <1>1
  <1>7. faults \in 0 .. MaxFaults
    <2>1. faults = 0 /\ MaxFaults \in Nat
      BY <1>1, SessionAssumption
    <2> QED BY <2>1
  <1> QED BY <1>2, <1>3, <1>4, <1>5, <1>6, <1>7 DEF DemoInv, DemoShapes

\* A step of the calls alone.
LEMMA CallsMove ==
  ASSUME DemoInv, UNCHANGED <<tables, view>>, faults' \in 0 .. MaxFaults,
         task' \in [Slots -> DemoTask], \A s \in Slots : task'[s] # Demo!Idle => PollKnows(task'[s])
  PROVE  DemoInv'
  <1>1. \A s \in Slots : task'[s] # Demo!Idle => PollKnows(task[s])'
    BY DEF PollKnows, RowsRead, Blocked
  <1> QED BY <1>1 DEF DemoInv, DemoShapes, RowsRead, Blocked, DetailKnows

\* One call changes.
LEMMA CallMoves ==
  ASSUME DemoInv, NEW s \in Slots, NEW t \in DemoTask, task' = [task EXCEPT ![s] = t],
         t # Demo!Idle => PollKnows(t), UNCHANGED <<tables, view>>, faults' \in 0 .. MaxFaults
  PROVE  DemoInv'
  <1>1. task' \in [Slots -> DemoTask] /\ \A r \in Slots : task'[r] # Demo!Idle => PollKnows(task'[r])
    BY DEF DemoInv, DemoShapes
  <1> QED BY <1>1, CallsMove

LEMMA TickKeepsInvariant ==
  ASSUME DemoInv, NEW s \in Slots, Demo!Tick(s)
  PROVE  DemoInv'
  <1>1. view.agentId \in DemoAgents \cup {None}
    BY DEF DemoInv, DemoShapes, DemoView
  <1>2. /\ Demo!Poll(view.agentId) \in DemoTask /\ PollKnows(Demo!Poll(view.agentId))
    BY <1>1, PollType DEF DemoTask
  <1>3. faults' \in 0 .. MaxFaults /\ UNCHANGED <<tables, view>>
        /\ task' = [task EXCEPT ![s] = Demo!Poll(view.agentId)]
    BY DEF Demo!Tick, DemoInv
  <1> QED BY <1>2, <1>3, CallMoves

LEMMA ReadAgentsKeepsInvariant ==
  ASSUME DemoInv, NEW s \in Slots, Demo!ReadAgents(s)
  PROVE  DemoInv'
  <1> DEFINE a == Demo!Chosen(tables.status)
  <1>1. a \in DemoAgents \cup {None}
    BY ChosenIsAgent
  <1>2. Demo!Poll(a) \in DemoPoll /\ PollKnows(Demo!Poll(a))
    BY <1>1, PollType
  <1>3. /\ UNCHANGED <<tables, faults>> /\ DOMAIN task' = Slots
        /\ view' = [view EXCEPT !.agentId = IF a = None THEN view.agentId ELSE a]
        /\ \A r \in Slots : task'[r] \in {Demo!Idle, Demo!Poll(a), task[r]}
        /\ task' = [r \in Slots |-> task'[r]]
    BY DEF Demo!ReadAgents
  <1> HIDE DEF a
  <1>4. view' \in DemoView /\ view'.activity = view.activity /\ view'.detail = view.detail
    BY <1>1, <1>3 DEF DemoInv, DemoShapes, DemoView
  <1>5. \A r \in Slots : task'[r] \in DemoTask /\ (task'[r] # Demo!Idle => PollKnows(task'[r]))
    BY <1>2, <1>3 DEF DemoInv, DemoShapes, DemoTask
  <1>6. task' \in [Slots -> DemoTask]
    BY <1>3, <1>5
  <1>7. \A r \in Slots : task'[r] # Demo!Idle => PollKnows(task[r])'
    BY <1>3, <1>5 DEF PollKnows, RowsRead, Blocked
  <1> QED BY <1>3, <1>4, <1>6, <1>7 DEF DemoInv, DemoShapes, RowsRead, Blocked, DetailKnows

LEMMA ReadExecutionsKeepsInvariant ==
  ASSUME DemoInv, NEW s \in Slots, Demo!ReadExecutions(s)
  PROVE  DemoInv'
  <1> DEFINE rows == tables.executions[task[s].agent]
             from == IF Len(rows) > Window THEN Len(rows) - Window + 1 ELSE 1
             t == [task[s] EXCEPT !.rows = rows, !.from = from]
  <1>1. /\ task[s] \in DemoPoll /\ PollKnows(task[s]) /\ task[s].at = "reading" /\ task[s].rows = None
    BY PollIsRecord DEF Demo!ReadExecutions, Demo!At
  <1>2. task[s].agent \in DemoAgents /\ task[s].alerts = None
    BY <1>1 DEF PollKnows
  <1>3. rows \in Demo!Rows /\ Len(rows) \in Nat /\ from \in Nat
    <2>1. rows \in Demo!Rows
      BY <1>2 DEF DemoInv, DemoShapes, DemoTables
    <2>2. Len(rows) \in Nat
      BY <2>1, RowsAreSequences
    <2> HIDE DEF rows
    <2>3. from \in Nat
      BY <2>2, SessionAssumption
    <2> QED BY <2>1, <2>2, <2>3
  <1>4. RowsRead(task[s].agent, rows, from)
    BY <1>3 DEF RowsRead
  <1>5. task' = [task EXCEPT ![s] = t] /\ UNCHANGED <<tables, view, faults>>
    BY <1>1 DEF Demo!ReadExecutions, DemoInv, DemoShapes, DemoPoll
  <1> HIDE DEF rows, from
  <1>6. t \in DemoPoll /\ t.agent = task[s].agent /\ t.rows = rows /\ t.from = from
        /\ t.alerts = None /\ t.at = "reading"
    BY <1>1, <1>2, <1>3 DEF DemoPoll
  <1> HIDE DEF t
  <1>7. PollKnows(t)
    BY <1>2, <1>4, <1>6 DEF PollKnows
  <1> QED BY <1>5, <1>6, <1>7, CallMoves DEF DemoTask, DemoInv

LEMMA ReadAlertsKeepsInvariant ==
  ASSUME DemoInv, NEW s \in Slots, Demo!ReadAlerts(s)
  PROVE  DemoInv'
  <1> DEFINE listed == tables.alerts[task[s].agent]
             alerts == {x \in listed : Demo!Cardinality({y \in listed : y > x}) < Window}
             t == [task[s] EXCEPT !.alerts = alerts]
  <1>1. /\ task[s] \in DemoPoll /\ PollKnows(task[s]) /\ task[s].at = "reading" /\ task[s].rows # None
    BY PollIsRecord DEF Demo!ReadAlerts, Demo!At
  <1>2. task[s].agent \in DemoAgents
    BY <1>1 DEF PollKnows
  <1>3. listed \subseteq Blocked(task[s].agent) /\ listed \in SUBSET (1 .. MaxExecutions)
    BY <1>2 DEF DemoInv, DemoShapes, DemoTables
  <1>5. task' = [task EXCEPT ![s] = t] /\ UNCHANGED <<tables, view, faults>>
    BY <1>1 DEF Demo!ReadAlerts, Demo!LastAlerts, DemoInv, DemoShapes, DemoPoll
  <1> HIDE DEF listed
  <1>4. alerts \subseteq Blocked(task[s].agent) /\ alerts \in SUBSET (1 .. MaxExecutions)
    BY <1>3
  <1> HIDE DEF alerts
  <1>6. t \in DemoPoll /\ t.agent = task[s].agent /\ t.rows = task[s].rows /\ t.from = task[s].from
        /\ t.alerts = alerts /\ t.at = "reading"
    BY <1>1, <1>4 DEF DemoPoll
  <1> HIDE DEF t
  <1>7. PollKnows(t)
    BY <1>1, <1>2, <1>4, <1>6 DEF PollKnows
  <1> QED BY <1>5, <1>6, <1>7, CallMoves DEF DemoTask, DemoInv

LEMMA DemoCallEnds ==
  ASSUME DemoInv, NEW s \in Slots, Demo!Ends(s)
  PROVE  /\ task' \in [Slots -> DemoTask]
         /\ \A r \in Slots : task'[r] # Demo!Idle => task'[r] = task[r] /\ PollKnows(task'[r])
  BY DEF Demo!Ends, DemoInv, DemoShapes, DemoTask

LEMMA LoadedKeepsInvariant ==
  ASSUME DemoInv, NEW s \in Slots, Demo!Loaded(s)
  PROVE  DemoInv'
  <1> DEFINE act == [agent |-> task[s].agent, rows |-> task[s].rows,
                     from |-> task[s].from, alerts |-> task[s].alerts]
  <1>1. /\ task[s] \in DemoPoll /\ PollKnows(task[s]) /\ task[s].at = "reading" /\ task[s].alerts # None
    BY PollIsRecord DEF Demo!Loaded, Demo!At
  <1>2. /\ task[s].agent \in DemoAgents /\ task[s].rows \in Demo!Rows
        /\ task[s].alerts \in SUBSET (1 .. MaxExecutions)
        /\ RowsRead(task[s].agent, task[s].rows, task[s].from)
        /\ task[s].alerts \subseteq Blocked(task[s].agent)
    <2>1. /\ task[s].rows \in Demo!Rows \cup {None}
          /\ task[s].alerts \in (SUBSET (1 .. MaxExecutions)) \cup {None}
      BY <1>1 DEF DemoPoll
    <2>2. /\ task[s].agent \in DemoAgents /\ task[s].rows # None
          /\ task[s].alerts \subseteq Blocked(task[s].agent)
          /\ RowsRead(task[s].agent, task[s].rows, task[s].from)
      BY <1>1 DEF PollKnows
    <2>3. task[s].rows \in Demo!Rows /\ task[s].alerts \in SUBSET (1 .. MaxExecutions)
      BY <1>1, <2>1, <2>2, Zenon
    <2> QED BY <2>2, <2>3
  <1>3. task[s].from \in Nat
    <2>1. Len(task[s].rows) \in Nat
      BY <1>2, RowsAreSequences
    <2>2. task[s].from = IF Len(task[s].rows) > Window THEN Len(task[s].rows) - Window + 1 ELSE 1
      BY <1>2 DEF RowsRead
    <2>3. \A m, w \in Nat : m > w => m - w + 1 \in Nat
      OBVIOUS
    <2>4. Window \in Nat /\ 1 \in Nat
      BY SessionAssumption
    <2> QED BY <2>1, <2>2, <2>3, <2>4
  <1>4. act \in DemoActivity
    BY <1>2, <1>3 DEF DemoActivity
  <1>5. /\ act.agent = task[s].agent /\ act.rows = task[s].rows /\ act.from = task[s].from
        /\ act.alerts = task[s].alerts
    OBVIOUS
  <1>6. view' = [view EXCEPT !.summary = task[s].agent, !.activity = act]
        /\ UNCHANGED <<tables, faults>> /\ Demo!Ends(s)
    BY DEF Demo!Loaded
  <1> HIDE DEF act
  <1>7. view' \in DemoView /\ view'.activity = act /\ view'.detail = view.detail
    BY <1>2, <1>4, <1>6 DEF DemoInv, DemoShapes, DemoView
  <1>8. /\ task' \in [Slots -> DemoTask]
        /\ \A r \in Slots : task'[r] # Demo!Idle => PollKnows(task[r])'
    BY <1>6, DemoCallEnds DEF PollKnows, RowsRead, Blocked
  <1>9. /\ RowsRead(view.activity.agent, view.activity.rows, view.activity.from)'
        /\ (view.activity.alerts \subseteq Blocked(view.activity.agent))'
    BY <1>2, <1>5, <1>6, <1>7 DEF RowsRead, Blocked
  <1> QED BY <1>6, <1>7, <1>8, <1>9 DEF DemoInv, DemoShapes, Blocked, DetailKnows

LEMMA LoadFailsKeepsInvariant ==
  ASSUME DemoInv, NEW s \in Slots, Demo!LoadFails(s)
  PROVE  DemoInv'
  <1>1. faults' \in 0 .. MaxFaults
    <2>1. MaxFaults \in Nat /\ faults \in 0 .. MaxFaults /\ faults < MaxFaults /\ faults' = faults + 1
      BY SessionAssumption DEF Demo!LoadFails, Demo!Fault, DemoInv
    <2> QED BY <2>1
  <1>2. UNCHANGED <<tables, view>> /\ Demo!Ends(s)
    BY DEF Demo!LoadFails
  <1> QED BY <1>1, <1>2, DemoCallEnds, CallsMove

\* The dialog opens with an execution that was not approved.
LEMMA OpenDetailKeepsInvariant ==
  ASSUME DemoInv, NEW x \in 1 .. MaxExecutions, Demo!OpenDetail(x)
  PROVE  DemoInv'
  <1> DEFINE act == view.activity
  <1>0. /\ act \in DemoActivity /\ view \in DemoView
        /\ RowsRead(act.agent, act.rows, act.from) /\ act.alerts \subseteq Blocked(act.agent)
    BY DEF Demo!OpenDetail, DemoInv, DemoShapes, DemoView
  <1>1. act.agent \in DemoAgents /\ act.rows \in Demo!Rows /\ act.from \in Nat
    BY <1>0 DEF DemoActivity
  <1>2. Len(act.rows) \in Nat /\ Len(tables.executions[act.agent]) \in Nat /\ act.rows \in Seq(Demo!Results)
    BY <1>1, RowsAreSequences DEF DemoInv, DemoShapes, DemoTables
  <1>3. PICK detail : /\ Demo!Opens(detail)
                      /\ \/ x \in Demo!AlertButtons(act) /\ detail = Demo!DetailFromAlert(act, x)
                         \/ x \in Demo!RowButtons(act) /\ detail = Demo!Detail(act, x)
                         \/ x \in Demo!PendingReview(act) /\ detail = Demo!Detail(act, x)
    BY DEF Demo!OpenDetail
  <1> HIDE DEF act
  <1>4. /\ detail = Demo!Detail(act, x) /\ x \in 1 .. Len(act.rows)
        /\ x \in act.alerts \/ act.rows[x] # "approved"
    <2>1. CASE x \in Demo!AlertButtons(act) /\ detail = Demo!DetailFromAlert(act, x)
      <3>1. detail # None
        BY <1>3 DEF Demo!Opens
      <3>2. Demo!InWindow(act, x) /\ detail = Demo!Detail(act, x)
        BY <2>1, <3>1 DEF Demo!DetailFromAlert
      <3> QED BY <1>2, <2>1, <3>2 DEF Demo!InWindow, Demo!AlertButtons
    <2>2. CASE x \in Demo!RowButtons(act) /\ detail = Demo!Detail(act, x)
      BY <1>1, <1>2, <2>2 DEF Demo!RowButtons
    <2>3. CASE x \in Demo!PendingReview(act) /\ detail = Demo!Detail(act, x)
      BY <1>1, <1>2, <2>3 DEF Demo!PendingReview
    <2> QED BY <1>3, <2>1, <2>2, <2>3
  <1>5. /\ x \in 1 .. Len(tables.executions[act.agent])
        /\ act.rows[x] = tables.executions[act.agent][x]
    BY <1>0, <1>2, <1>4 DEF RowsRead
  <1>6. act.rows[x] # "approved"
    BY <1>0, <1>4, <1>5 DEF Blocked
  <1>7. act.rows[x] \in Demo!Results
    BY <1>2, <1>4
  <1>8. /\ detail \in DemoDetail /\ detail.agent = act.agent /\ detail.row = x
        /\ detail.result = act.rows[x]
    BY <1>1, <1>4, <1>7 DEF Demo!Detail, DemoDetail
  <1>9. DetailKnows(detail)
    BY <1>5, <1>6, <1>8 DEF DetailKnows
  <1>10. view' = [view EXCEPT !.detail = detail] /\ UNCHANGED <<tables, task, faults>>
    BY <1>3 DEF Demo!Opens
  <1>11. view' \in DemoView /\ view'.activity = view.activity /\ view'.detail = detail
    BY <1>0, <1>8, <1>10 DEF DemoView
  <1>12. \A r \in Slots : task[r] # Demo!Idle => PollKnows(task[r])'
    BY <1>10 DEF DemoInv, PollKnows, RowsRead, Blocked
  <1> QED BY <1>9, <1>10, <1>11, <1>12 DEF DemoInv, DemoShapes, RowsRead, Blocked,
             DetailKnows

\* The tables grow under the page.
LEMMA TableGrows ==
  ASSUME DemoInv, tables' \in DemoTables, Grows, UNCHANGED <<view, task, faults>>,
         \A a \in DemoAgents : tables'.alerts[a] \subseteq Blocked(a)'
  PROVE  DemoInv'
  <1>1. ASSUME NEW s \in Slots, task[s] # Demo!Idle
        PROVE  PollKnows(task[s])'
    <2>1. PICK t \in DemoPoll : t = task[s] /\ PollKnows(t)
      BY <1>1 DEF DemoInv, DemoShapes, DemoTask
    <2>2. PollKnows(t)'
      BY <2>1, PollsStayTrue
    <2> QED BY <2>1, <2>2
  <1>2. ASSUME view.activity # None
        PROVE  /\ RowsRead(view.activity.agent, view.activity.rows, view.activity.from)'
               /\ (view.activity.alerts \subseteq Blocked(view.activity.agent))'
    <2>1. PICK act \in DemoActivity : act = view.activity
      BY <1>2 DEF DemoInv, DemoShapes, DemoView
    <2>2. act.agent \in DemoAgents /\ act.rows \in Demo!Rows /\ act.from \in Nat
      BY DEF DemoActivity
    <2>3. RowsRead(act.agent, act.rows, act.from) /\ act.alerts \subseteq Blocked(act.agent)
      BY <1>2, <2>1 DEF DemoInv
    <2>4. RowsRead(act.agent, act.rows, act.from)' /\ act.alerts \subseteq Blocked(act.agent)'
      BY <2>2, <2>3, KnownStaysTrue
    <2> QED BY <2>1, <2>4
  <1>3. ASSUME view.detail # None PROVE DetailKnows(view.detail)'
    <2>1. PICK detail \in DemoDetail : detail = view.detail /\ DetailKnows(detail)
      BY <1>3 DEF DemoInv, DemoShapes, DemoView
    <2>2. DetailKnows(detail)'
      BY <2>1, KnownStaysTrue
    <2> QED BY <2>1, <2>2
  <1> QED BY <1>1, <1>2, <1>3 DEF DemoInv, DemoShapes

LEMMA ExecutedKeepsInvariant ==
  ASSUME DemoInv, NEW a \in DemoAgents, NEW r \in Demo!Results, Demo!Executed(a, r)
  PROVE  DemoInv'
  <1> DEFINE rows == Append(tables.executions[a], r)
             execs == [tables.executions EXCEPT ![a] = rows]
  <1>1. tables \in DemoTables /\ tables.executions \in [DemoAgents -> Demo!Rows]
    BY DEF DemoInv, DemoShapes, DemoTables
  <1>2. /\ tables.executions[a] \in Seq(Demo!Results) /\ Len(tables.executions[a]) < MaxExecutions
    <2>1. tables.executions[a] \in Seq(Demo!Results) /\ Len(tables.executions[a]) \in Nat
      BY <1>1, RowsAreSequences
    <2>2. ~(Len(tables.executions[a]) >= MaxExecutions)
      BY DEF Demo!Executed, Demo!Full
    <2> QED BY <2>1, <2>2, SessionAssumption
  <1>3. /\ rows \in Demo!Rows /\ Len(rows) = Len(tables.executions[a]) + 1
        /\ \A x \in 1 .. Len(tables.executions[a]) : rows[x] = tables.executions[a][x]
    <2>1. /\ rows \in Seq(Demo!Results) /\ Len(rows) = Len(tables.executions[a]) + 1
          /\ Len(tables.executions[a]) \in Nat
          /\ \A x \in 1 .. Len(tables.executions[a]) : rows[x] = tables.executions[a][x]
      BY <1>2
    <2>2. \A m, n \in Nat : m < n => m + 1 <= n
      OBVIOUS
    <2>3. Len(rows) <= MaxExecutions
      BY <1>2, <2>1, <2>2, SessionAssumption
    <2> QED BY <2>1, <2>3, RowsAreSequences
  <1> HIDE DEF rows
  <1>4. execs \in [DemoAgents -> Demo!Rows]
    BY <1>1, <1>3
  <1>5. tables' = [tables EXCEPT !.executions = execs] /\ UNCHANGED <<view, task, faults>>
    BY DEF Demo!Executed, rows
  <1>a. execs[a] = rows /\ \A b \in DemoAgents \ {a} : execs[b] = tables.executions[b]
    BY <1>1
  <1> HIDE DEF execs
  <1>6. tables' \in DemoTables /\ tables'.executions = execs /\ tables'.alerts = tables.alerts
    BY <1>1, <1>4, <1>5 DEF DemoTables
  <1>7. Grows
    <2>1. \A b \in DemoAgents : Len(tables.executions[b]) \in Nat
      BY <1>1, RowsAreSequences
    <2> QED BY <1>3, <1>6, <1>a, <2>1 DEF Grows
  <1>8. \A b \in DemoAgents : tables'.alerts[b] \subseteq Blocked(b)'
    BY <1>6, <1>7, KnownStaysTrue DEF DemoInv
  <1> QED BY <1>5, <1>6, <1>7, <1>8, TableGrows

LEMMA AlertedKeepsInvariant ==
  ASSUME DemoInv, NEW a \in DemoAgents, Demo!Alerted(a)
  PROVE  DemoInv'
  <1>1. tables \in DemoTables /\ tables.executions[a] \in Demo!Rows
        /\ tables.alerts \in [DemoAgents -> SUBSET (1 .. MaxExecutions)]
    BY DEF DemoInv, DemoShapes, DemoTables
  <1>2. PICK x \in 1 .. Len(tables.executions[a]) :
            /\ tables.executions[a][x] = "blocked"
            /\ tables' = [tables EXCEPT !.alerts[a] = tables.alerts[a] \cup {x}]
    BY DEF Demo!Alerted
  <1>3. x \in Blocked(a) /\ x \in 1 .. MaxExecutions
    <2>1. Len(tables.executions[a]) \in Nat /\ Len(tables.executions[a]) <= MaxExecutions
      BY <1>1, RowsAreSequences
    <2> QED BY <1>2, <2>1, SessionAssumption DEF Blocked
  <1> DEFINE alerts == [tables.alerts EXCEPT ![a] = tables.alerts[a] \cup {x}]
  <1>4. /\ alerts \in [DemoAgents -> SUBSET (1 .. MaxExecutions)]
        /\ alerts[a] = tables.alerts[a] \cup {x}
        /\ \A b \in DemoAgents \ {a} : alerts[b] = tables.alerts[b]
    BY <1>1, <1>3
  <1>5. tables' = [tables EXCEPT !.alerts = alerts]
    BY <1>2
  <1> HIDE DEF alerts
  <1>6. tables' \in DemoTables /\ tables'.executions = tables.executions /\ tables'.alerts = alerts
    BY <1>1, <1>4, <1>5 DEF DemoTables
  <1>7. Grows
    <2>1. \A b \in DemoAgents : Len(tables.executions[b]) \in Nat
      <3>1. \A b \in DemoAgents : tables.executions[b] \in Demo!Rows
        BY <1>1 DEF DemoTables
      <3> QED BY <3>1, RowsAreSequences
    <2> QED BY <1>6, <2>1 DEF Grows
  <1>8. \A b \in DemoAgents : tables'.alerts[b] \subseteq Blocked(b)'
    BY <1>3, <1>4, <1>6 DEF DemoInv, Blocked
  <1>9. UNCHANGED <<view, task, faults>>
    BY DEF Demo!Alerted
  <1> QED BY <1>6, <1>7, <1>8, <1>9, TableGrows

LEMMA AgentChangesKeepsInvariant ==
  ASSUME DemoInv, NEW a \in DemoAgents, Demo!AgentChanges(a)
  PROVE  DemoInv'
  <1>1. tables \in DemoTables /\ tables.status \in [DemoAgents -> Demo!Status]
    BY DEF DemoInv, DemoShapes, DemoTables
  <1> DEFINE status == [tables.status EXCEPT ![a] = IF tables.status[a] = None THEN "active" ELSE "paused"]
  <1>2. status \in [DemoAgents -> Demo!Status]
    BY <1>1 DEF Demo!Status
  <1>3. tables' = [tables EXCEPT !.status = status] /\ UNCHANGED <<view, task, faults>>
    BY DEF Demo!AgentChanges
  <1> HIDE DEF status
  <1>4. tables' \in DemoTables /\ tables'.executions = tables.executions /\ tables'.alerts = tables.alerts
    BY <1>1, <1>2, <1>3 DEF DemoTables
  <1>5. Grows
    <2>1. \A b \in DemoAgents : Len(tables.executions[b]) \in Nat
      <3>1. \A b \in DemoAgents : tables.executions[b] \in Demo!Rows
        BY <1>1 DEF DemoTables
      <3> QED BY <3>1, RowsAreSequences
    <2> QED BY <1>4, <2>1 DEF Grows
  <1>6. \A b \in DemoAgents : tables'.alerts[b] \subseteq Blocked(b)'
    BY <1>4 DEF DemoInv, Blocked
  <1> QED BY <1>3, <1>4, <1>5, <1>6, TableGrows

LEMMA DemoMoves == ASSUME DemoInv, [Demo!Next]_vars PROVE DemoInv'
  <1>1. ASSUME NEW s \in Slots, Demo!Progress(s) \/ Demo!LoadFails(s) PROVE DemoInv'
    BY <1>1, TickKeepsInvariant, ReadAgentsKeepsInvariant, ReadExecutionsKeepsInvariant,
       ReadAlertsKeepsInvariant, LoadedKeepsInvariant, LoadFailsKeepsInvariant DEF Demo!Progress
  <1>2. ASSUME NEW a \in DemoAgents,
               Demo!AgentChanges(a) \/ Demo!Alerted(a) \/ \E r \in Demo!Results : Demo!Executed(a, r)
        PROVE  DemoInv'
    BY <1>2, AgentChangesKeepsInvariant, AlertedKeepsInvariant, ExecutedKeepsInvariant
  <1>3. ASSUME NEW x \in 1 .. MaxExecutions, Demo!OpenDetail(x) PROVE DemoInv'
    BY <1>3, OpenDetailKeepsInvariant
  <1>4. CASE Demo!CloseDetail
    <2>1. view' = [view EXCEPT !.detail = None] /\ UNCHANGED <<tables, task, faults>>
      BY <1>4 DEF Demo!CloseDetail
    <2>2. view' \in DemoView /\ view'.activity = view.activity /\ view'.detail = None
      BY <2>1 DEF DemoInv, DemoShapes, DemoView
    <2>3. \A r \in Slots : task[r] # Demo!Idle => PollKnows(task[r])'
      BY <2>1 DEF DemoInv, PollKnows, RowsRead, Blocked
    <2> QED BY <2>1, <2>2, <2>3 DEF DemoInv, DemoShapes, RowsRead, Blocked
  <1>5. CASE UNCHANGED vars
    BY <1>5 DEF vars, DemoInv, DemoShapes, PollKnows, RowsRead, Blocked, DetailKnows
  <1> QED BY <1>1, <1>2, <1>3, <1>4, <1>5 DEF Demo!Next

LEMMA DemoPromises ==
  ASSUME DemoInv
  PROVE  Demo!Here /\ Demo!TypeOK /\ Demo!DetailIsBacked
  <1>0. tables \in DemoTables /\ view \in DemoView
    BY DEF DemoInv, DemoShapes
  <1>1. Demo!Here
    BY <1>0 DEF DemoView, Demo!Here
  <1>2. Demo!TypeOK
    <2>1. \A s \in Slots : task[s].at \in {"idle", "agents", "reading"}
      <3> SUFFICES ASSUME NEW s \in Slots PROVE task[s].at \in {"idle", "agents", "reading"}
        OBVIOUS
      <3>1. CASE task[s] = Demo!Idle
        BY <3>1 DEF Demo!Idle
      <3>2. CASE task[s] \in DemoPoll
        <4>1. task[s].at \in {"agents", "reading"}
          BY <3>2 DEF DemoPoll
        <4> QED BY <4>1
      <3> QED BY <3>1, <3>2 DEF DemoInv, DemoShapes, DemoTask
    <2>2. /\ tables \in [status : [DemoAgents -> Demo!Status], executions : [DemoAgents -> Demo!Rows],
                         alerts : [DemoAgents -> SUBSET (1 .. MaxExecutions)]]
      BY <1>0 DEF DemoTables
    <2>3. /\ view.agentId \in DemoAgents \cup {None} /\ view.summary \in DemoAgents \cup {None}
          /\ view.activity \in DemoActivity \cup {None} /\ view.detail \in DemoDetail \cup {None}
      BY <1>0 DEF DemoView
    <2>4. view.activity = None \/ view.activity.rows \in Demo!Rows
      BY <2>3 DEF DemoActivity
    <2>5. view.detail \in {None} \cup [agent : DemoAgents, row : 1 .. MaxExecutions, result : Demo!Results]
      BY <2>3 DEF DemoDetail
    <2> QED BY <2>1, <2>2, <2>3, <2>4, <2>5 DEF Demo!TypeOK, DemoInv
  <1>3. Demo!DetailIsBacked
    <2> SUFFICES ASSUME view.detail # None
                 PROVE  /\ view.detail.row \in DOMAIN tables.executions[view.detail.agent]
                        /\ tables.executions[view.detail.agent][view.detail.row] = view.detail.result
                        /\ view.detail.result # "approved"
      BY DEF Demo!DetailIsBacked
    <2>1. view.detail.agent \in DemoAgents /\ DetailKnows(view.detail)
      BY <1>0 DEF DemoInv, DemoView, DemoDetail
    <2>2. tables.executions[view.detail.agent] \in Seq(Demo!Results)
      BY <1>0, <2>1, RowsAreSequences DEF DemoTables
    <2> QED BY <2>1, <2>2 DEF DetailKnows
  <1> QED BY <1>1, <1>2, <1>3

-----------------------------------------------------------------------------
(* THE CLIENT OBJECT *)

ClientTaskType == {Client!Idle} \cup [at : {"request", "answered"}, call : Client!Calls,
                         auth : Client!Headers, prev : Tokens \cup {None}]

\* A call that is on its way is a whole task record.
LEMMA ClientTaskIsRecord ==
  ASSUME task \in [Slots -> ClientTaskType], NEW s \in Slots, ~Client!At(s, "idle")
  PROVE  /\ task[s] \in [at : {"request", "answered"}, call : Client!Calls,
                         auth : Client!Headers, prev : Tokens \cup {None}]
         /\ task[s].auth \in Client!Headers /\ task[s].prev \in Tokens \cup {None}
  <1>1. task[s] \in ClientTaskType /\ task[s] # Client!Idle
    BY DEF Client!At, Client!Idle
  <1> QED BY <1>1 DEF ClientTaskType

\* The header of a request comes from the object as it is.
LEMMA ClientHeaderType ==
  ASSUME NEW v \in [page : {"client"}, userToken : Tokens \cup {None}, apiKey : {None, Client!ApiKey}]
  PROVE  Client!AuthHeader(v) \in Client!Headers
  BY DEF Client!AuthHeader, Client!Headers

-----------------------------------------------------------------------------
(* Types *)

LEMMA ClientInitTypeOK == ASSUME Client!Init PROVE Client!TypeOK
  BY SessionAssumption DEF Client!Init, Client!TypeOK, Client!Headers, Client!Calls,
     Client!Idle

LEMMA ClientCallType ==
  ASSUME task \in [Slots -> ClientTaskType], NEW t \in ClientTaskType, Client!Call(t)
  PROVE  task' \in [Slots -> ClientTaskType]
  BY DEF Client!Call

LEMMA ClientTypeOKStep == ASSUME Client!TypeOK, [Client!Next]_vars PROVE Client!TypeOK'
  <1>0. task \in [Slots -> ClientTaskType]
    BY DEF Client!TypeOK, ClientTaskType
  <1>1. ASSUME NEW token \in Tokens \cup {None}, Client!SetUserToken(token) PROVE Client!TypeOK'
    BY <1>1 DEF Client!SetUserToken, Client!TypeOK
  <1>2. ASSUME NEW key \in {None, Client!ApiKey}, Client!SetApiKey(key) PROVE Client!TypeOK'
    BY <1>2 DEF Client!SetApiKey, Client!TypeOK
  <1>3. ASSUME Client!Request("owner") PROVE Client!TypeOK'
    <2>1. [at |-> "request", call |-> "owner", auth |-> Client!AuthHeader(view), prev |-> None]
             \in ClientTaskType
      BY ClientHeaderType DEF Client!TypeOK, ClientTaskType, Client!Calls
    <2>2. task' \in [Slots -> ClientTaskType]
      BY <1>0, <1>3, <2>1, ClientCallType DEF Client!Request
    <2> QED BY <1>3, <2>2 DEF Client!Request, Client!TypeOK, ClientTaskType
  <1>4. ASSUME NEW call \in Client!Executes, Client!Execute(call) PROVE Client!TypeOK'
    <2> DEFINE t == [at |-> "request", call |-> call,
                     auth |-> Client!AuthHeader([view EXCEPT !.userToken = None]),
                     prev |-> view.userToken]
    <2>1. t \in ClientTaskType
      BY ClientHeaderType DEF Client!TypeOK, ClientTaskType, Client!Calls, Client!Executes
    <2>2. task' \in [Slots -> ClientTaskType]
      <3>1. Client!Call(t)
        BY <1>4 DEF Client!Execute
      <3> HIDE DEF t
      <3> QED BY <1>0, <2>1, <3>1, ClientCallType
    <2>3. view' \in [page : {"client"}, userToken : Tokens \cup {None}, apiKey : {None, Client!ApiKey}]
      BY <1>4 DEF Client!Execute, Client!TypeOK
    <2>4. past' \in [userToken : Tokens \cup {None}, crossed : BOOLEAN]
      BY <1>4 DEF Client!Execute, Client!TypeOK
    <2> QED BY <1>4, <2>2, <2>3, <2>4 DEF Client!Execute, Client!TypeOK, ClientTaskType
  <1>5. ASSUME NEW s \in Slots, Client!Served(s) PROVE Client!TypeOK'
    <2>1. ~Client!At(s, "idle")
      BY <1>5 DEF Client!Served, Client!At
    <2>2. /\ task[s] \in [at : {"request", "answered"}, call : Client!Calls,
                          auth : Client!Headers, prev : Tokens \cup {None}]
          /\ task[s].auth \in Client!Headers
      BY <1>0, <2>1, ClientTaskIsRecord
    <2>3. task' \in [Slots -> ClientTaskType]
      BY <1>0, <1>5, <2>2 DEF Client!Served, Client!Goto, ClientTaskType
    <2> QED BY <1>5, <2>3 DEF Client!Served, Client!TypeOK, ClientTaskType
  <1>6. ASSUME NEW s \in Slots, ~Client!At(s, "idle"), view' = Client!Restored(s), Client!Ends(s)
        PROVE  /\ view' \in [page : {"client"}, userToken : Tokens \cup {None},
                             apiKey : {None, Client!ApiKey}]
               /\ task' \in [Slots -> ClientTaskType]
    BY <1>0, <1>6, ClientTaskIsRecord DEF Client!Restored, Client!Ends, Client!TypeOK,
       ClientTaskType
  <1>7. ASSUME NEW s \in Slots, Client!Answered(s) PROVE Client!TypeOK'
    <2>1. ~Client!At(s, "idle")
      BY <1>7 DEF Client!Answered, Client!At
    <2> QED BY <1>6, <1>7, <2>1 DEF Client!Answered, Client!TypeOK, ClientTaskType
  <1>8. ASSUME NEW s \in Slots, Client!RequestFails(s) PROVE Client!TypeOK'
    <2>1. faults' \in 0 .. MaxFaults
      BY <1>8, SessionAssumption DEF Client!RequestFails, Client!Fault, Client!TypeOK
    <2> QED BY <1>6, <1>8, <2>1 DEF Client!RequestFails, Client!TypeOK, ClientTaskType
  <1>9. CASE UNCHANGED vars
    BY <1>9 DEF vars, Client!TypeOK
  <1> QED BY <1>1, <1>2, <1>3, <1>4, <1>5, <1>7, <1>8, <1>9 DEF Client!Next

-----------------------------------------------------------------------------
(* The token is put back *)

\* As long as executions do not cross there is at most one, and what it took is
\* what the object was given last.
TokenIsKept ==
    ~past.crossed =>
        \/ view.userToken = past.userToken /\ \A s \in Slots : ~Client!Executing(s)
        \/ \E s \in Slots :
              /\ Client!Executing(s) /\ task[s].prev = past.userToken
              /\ \A r \in Slots \ {s} : ~Client!Executing(r)

LEMMA TokenIsKeptStep ==
  ASSUME Client!TypeOK, TokenIsKept, [Client!Next]_vars
  PROVE  TokenIsKept'
  <1>0. task \in [Slots -> ClientTaskType]
    BY DEF Client!TypeOK, ClientTaskType
  <1> USE DEF TokenIsKept
  <1>1. ASSUME NEW token \in Tokens \cup {None}, Client!SetUserToken(token) PROVE TokenIsKept'
    BY <1>1 DEF Client!SetUserToken, Client!Executing, Client!TypeOK
  <1>2. ASSUME NEW key \in {None, Client!ApiKey}, Client!SetApiKey(key) PROVE TokenIsKept'
    BY <1>2 DEF Client!SetApiKey, Client!Executing, Client!TypeOK
  <1>3. ASSUME Client!Request("owner") PROVE TokenIsKept'
    <2>1. \A r \in Slots : /\ Client!Executing(r)' <=> Client!Executing(r)
                           /\ Client!Executing(r) => task'[r] = task[r]
      BY <1>0, <1>3 DEF Client!Request, Client!Call, Client!At, Client!Executing,
         Client!Executes
    <2> QED BY <1>3, <2>1 DEF Client!Request
  <1>4. ASSUME NEW call \in Client!Executes, Client!Execute(call), ~past'.crossed PROVE TokenIsKept'
    <2>1. \A r \in Slots : ~Client!Executing(r)
      BY <1>4 DEF Client!Execute, Client!TypeOK
    <2>2. past'.userToken = past.userToken /\ view.userToken = past.userToken
      BY <1>4, <2>1 DEF Client!Execute, Client!TypeOK
    <2>3. PICK s \in Slots : task' = [task EXCEPT ![s] =
              [at |-> "request", call |-> call,
               auth |-> Client!AuthHeader([view EXCEPT !.userToken = None]), prev |-> view.userToken]]
      BY <1>4 DEF Client!Execute, Client!Call
    <2>4. Client!Executing(s)' /\ task'[s].prev = past'.userToken
      BY <1>0, <2>2, <2>3 DEF Client!Executing
    <2>5. \A r \in Slots \ {s} : ~Client!Executing(r)'
      BY <1>0, <2>1, <2>3 DEF Client!Executing
    <2> QED BY <2>4, <2>5
  <1>5. ASSUME NEW s \in Slots, Client!Served(s) PROVE TokenIsKept'
    <2>1. \A r \in Slots : /\ Client!Executing(r)' <=> Client!Executing(r)
                           /\ Client!Executing(r) => task'[r].prev = task[r].prev
      BY <1>0, <1>5 DEF Client!Served, Client!Goto, Client!At, Client!Executing
    <2> QED BY <1>5, <2>1 DEF Client!Served
  <1>6. ASSUME NEW s \in Slots, ~Client!At(s, "idle"), view' = Client!Restored(s), Client!Ends(s), UNCHANGED past
        PROVE  TokenIsKept'
    <2>1. /\ ~Client!Executing(s)'
          /\ \A r \in Slots \ {s} : (Client!Executing(r)' <=> Client!Executing(r)) /\ task'[r] = task[r]
      BY <1>0, <1>6 DEF Client!Ends, Client!Executing, Client!Idle
    <2>2. CASE Client!Executing(s)
      <3>1. view'.userToken = task[s].prev
        BY <1>6, <2>2 DEF Client!Restored, Client!Executing, Client!TypeOK
      <3> QED BY <1>6, <2>1, <2>2, <3>1
    <2>3. CASE ~Client!Executing(s)
      <3>1. view' = view
        BY <1>6, <2>3 DEF Client!Restored, Client!Executing, Client!At
      <3>2. \A r \in Slots : /\ Client!Executing(r)' <=> Client!Executing(r)
                             /\ Client!Executing(r) => task'[r].prev = task[r].prev
        BY <2>1, <2>3 DEF Client!Executing
      <3> QED BY <1>6, <3>1, <3>2
    <2> QED BY <2>2, <2>3
  <1>7. ASSUME NEW s \in Slots, Client!Answered(s) PROVE TokenIsKept'
    BY <1>6, <1>7 DEF Client!Answered, Client!At
  <1>8. ASSUME NEW s \in Slots, Client!RequestFails(s) PROVE TokenIsKept'
    BY <1>6, <1>8 DEF Client!RequestFails
  <1>9. CASE UNCHANGED vars
    BY <1>9 DEF vars, Client!Executing
  <1> QED BY <1>1, <1>2, <1>3, <1>4, <1>5, <1>7, <1>8, <1>9 DEF Client!Next

ClientInv == Client!Here /\ Client!TypeOK /\ TokenIsKept

LEMMA ClientStarts == ASSUME Client!Init PROVE ClientInv
  <1>1. Client!Here /\ TokenIsKept
    BY DEF Client!Init, Client!Here, TokenIsKept, Client!Executing, Client!Idle
  <1> QED BY <1>1, ClientInitTypeOK DEF ClientInv

LEMMA ClientMoves == ASSUME ClientInv, [Client!Next]_vars PROVE ClientInv'
  <1>1. Client!TypeOK'
    BY ClientTypeOKStep DEF ClientInv
  <1>2. Client!Here'
    BY <1>1 DEF Client!TypeOK, Client!Here
  <1> QED BY <1>1, <1>2, TokenIsKeptStep DEF ClientInv

\* What the invariant says of the runs' property.
LEMMA ClientPromises == ASSUME ClientInv PROVE Client!TokenIsPutBack
  BY DEF ClientInv, TokenIsKept, Client!TokenIsPutBack

-----------------------------------------------------------------------------
(* THE COMPOSITION *)

\* The page that is shown, and its invariant.
SessionInv == SignInInv \/ ServerInv \/ DemoInv \/ WalletInv \/ ClientInv

LEMMA ClientIsHere == ASSUME ClientInv PROVE Client!Here /\ Client!TypeOK
  BY DEF ClientInv, Client!TypeOK, Client!Here

LEMMA SessionStarts == ASSUME Init PROVE SessionInv
  BY SignInStarts, ServerStarts, DemoStarts, WalletStarts, ClientStarts DEF Init, SessionInv

\* Only the page that is shown acts, or nobody does.
LEMMA SessionMoves == ASSUME SessionInv, [Next]_vars PROVE SessionInv'
  <1>1. view.page \in {"session", "server", "demo", "wallet", "client"}
    BY SignInPromises, ServerPromises, DemoPromises, WalletPromises, ClientIsHere
       DEF SessionInv, SignIn!Here, Server!Here, Demo!Here, Wallet!Here, Client!Here
  <1>2. /\ SignIn!Next => view.page = "session"
        /\ Server!Next => view.page = "server"
        /\ Demo!Next   => view.page = "demo"
        /\ Wallet!Next => view.page = "wallet"
        /\ Client!Next => view.page = "client"
    BY DEF SignIn!Next, Server!Next, Demo!Next, Wallet!Next, Client!Next,
           SignIn!Here, Server!Here, Demo!Here, Wallet!Here, Client!Here
  <1>3. SignIn!Next \/ Server!Next \/ Demo!Next \/ Wallet!Next \/ Client!Next \/ UNCHANGED vars
    BY DEF Next
  <1>4. CASE SignInInv
    <2>1. view.page = "session"
      BY <1>4, SignInPromises DEF SignIn!Here
    <2>2. [SignIn!Next]_vars
      BY <1>2, <1>3, <2>1
    <2> QED BY <1>4, <2>2, SignInMoves DEF SessionInv
  <1>5. CASE ServerInv
    <2>1. view.page = "server"
      BY <1>5, ServerPromises DEF Server!Here
    <2>2. [Server!Next]_vars
      BY <1>2, <1>3, <2>1
    <2> QED BY <1>5, <2>2, ServerMoves DEF SessionInv
  <1>6. CASE DemoInv
    <2>1. view.page = "demo"
      BY <1>6, DemoPromises DEF Demo!Here
    <2>2. [Demo!Next]_vars
      BY <1>2, <1>3, <2>1
    <2> QED BY <1>6, <2>2, DemoMoves DEF SessionInv
  <1>7. CASE WalletInv
    <2>1. view.page = "wallet"
      BY <1>7, WalletPromises DEF Wallet!Here
    <2>2. [Wallet!Next]_vars
      BY <1>2, <1>3, <2>1
    <2> QED BY <1>7, <2>2, WalletMoves DEF SessionInv
  <1>8. CASE ClientInv
    <2>1. view.page = "client"
      BY <1>8, ClientIsHere DEF Client!Here
    <2>2. [Client!Next]_vars
      BY <1>2, <1>3, <2>1
    <2> QED BY <1>8, <2>2, ClientMoves DEF SessionInv
  <1> QED BY <1>4, <1>5, <1>6, <1>7, <1>8 DEF SessionInv

\* What is promised of a page is promised while it is shown.
LEMMA SessionPromises ==
  ASSUME SessionInv
  PROVE  /\ TypeOK
         /\ OneTokenPerNonce /\ SessionIsOne
         /\ PagesTellTheTruth
         /\ DetailIsBacked
         /\ RowsMatchObjects
         /\ TokenIsPutBack
  <1> USE DEF SignIn!Here, Server!Here, Demo!Here, Wallet!Here, Client!Here
  <1>1. TypeOK
    BY SignInPromises, ServerPromises, DemoPromises, WalletPromises, ClientIsHere
       DEF SessionInv, TypeOK
  <1>2. /\ view.page = "session" => SignInInv
        /\ view.page = "server"  => ServerInv
        /\ view.page = "demo"    => DemoInv
        /\ view.page = "wallet"  => WalletInv
        /\ view.page = "client"  => ClientInv
    BY SignInPromises, ServerPromises, DemoPromises, WalletPromises, ClientIsHere DEF SessionInv
  <1>3. OneTokenPerNonce /\ SessionIsOne
    BY <1>2, SignInPromises
       DEF OneTokenPerNonce, SessionIsOne, SignIn!OneTokenPerNonce, SignIn!StoresAgree,
           SignIn!OwnerShownIsSession
  <1>4. PagesTellTheTruth
    BY <1>2, ServerPromises
       DEF PagesTellTheTruth, Server!EmptyStatesAreTrue, Server!PanelsAgree,
           Server!LoginMeansNoSession
  <1>5. DetailIsBacked
    BY <1>2, DemoPromises DEF DetailIsBacked, Demo!DetailIsBacked
  <1>6. RowsMatchObjects
    BY <1>2, WalletPromises
       DEF RowsMatchObjects, Wallet!RowsNameOneWallet, Wallet!LostVaultsAreExplained
  <1>7. TokenIsPutBack
    BY <1>2, ClientPromises DEF TokenIsPutBack, Client!TokenIsPutBack
  <1> QED BY <1>1, <1>3, <1>4, <1>5, <1>6, <1>7

-----------------------------------------------------------------------------
(* The theorems *)

THEOREM SessionInvariant == Spec => []SessionInv
  BY SessionStarts, SessionMoves, PTL DEF Spec

\* The state is that of one of the five pages, of the form its module gives.
THEOREM SessionTyped == Spec => []TypeOK
  BY SessionInvariant, SessionPromises, PTL

\* However challenges, signatures, verifications, second deliveries and reloads
\* mix, a nonce gives one token, or one to each of the verifications that read it
\* before the first marked it, never to a later one.
THEOREM NoncesGiveOneToken == Spec => []OneTokenPerNonce
  BY SessionInvariant, SessionPromises, PTL

\* Cookie and local storage never hold two sessions, and when nothing is in
\* flight the user whom the console names is the owner of the token it sends.
THEOREM SessionIsAlwaysOne == Spec => []SessionIsOne
  BY SessionInvariant, SessionPromises, PTL

\* What a page of the server says of an account - that there is nothing, that
\* nothing has happened, that there is no session - was true when it was read.
THEOREM ServerPagesAreTrue == Spec => []PagesTellTheTruth
  BY SessionInvariant, SessionPromises, PTL

\* Whatever polls fail and in whatever order they answer while it is open, the
\* dialog of the demo page is about a recorded decision that was not an approval.
THEOREM DetailIsAlwaysBacked == Spec => []DetailIsBacked
  BY SessionInvariant, SessionPromises, PTL

\* A row of wallets names one vault with its OwnerCap and its cap, and a vault
\* without a row is that of an attempt that broke off or still runs.
THEOREM RowsAlwaysMatchObjects == Spec => []RowsMatchObjects
  BY SessionInvariant, SessionPromises, PTL

\* execute() puts back the token it took, whether its request is answered or
\* fails, unless executions overlapped or the token was set during one.
THEOREM TokenIsAlwaysPutBack == Spec => []TokenIsPutBack
  BY SessionInvariant, SessionPromises, PTL
=============================================================================
