------------------------------ MODULE SignInPage ------------------------------
(***************************************************************************)
(* Signing in and out: the sign-in page (app/login/page.tsx), the provider  *)
(* of the session above every page (components/auth/AuthProvider.tsx), the  *)
(* two places the token is kept in (lib/auth.ts), and the routes behind     *)
(* them (routes/auth/*.rs).  Leaving the page does not stop its calls, and  *)
(* a full reload does.                                                      *)
(***************************************************************************)
EXTENDS Page

CONSTANTS
    Accounts,       \* wallet addresses
    Nonces,         \* rows of auth_nonces, 1 .. n in the order of insertion
    MaxLoads        \* bound on full loads of the page

Here == view.page = "session"

\* A token names its user; `of` is the nonce it was issued for, 0 for one that
\* an earlier visit left.
Token == [owner : Accounts, of : Nonces \cup {0}]

Earlier(a) == [owner |-> a, of |-> 0]

SignIn(call, a) ==
    [at |-> "challenge", call |-> call, address |-> a, signer |-> None, nonce |-> None,
     token |-> None]

\* getToken(): local storage first, then the cookie.
GetToken(v) == IF v.store # None THEN v.store ELSE v.cookie

\* A slip: the other place is forgotten.
SetCookie(v, token) == [v EXCEPT !.cookie = token]

SetToken(v, token) == [v EXCEPT !.store = token, !.cookie = token]
ClearToken(v) == [v EXCEPT !.store = None, !.cookie = None]

\* The provider is mounted: its effect asks who the token belongs to.
Mounted(v) == [v EXCEPT !.user = None, !.loading = GetToken(v) # None, !.signing = FALSE]

Asks(v) == [SignIn("provider", None) EXCEPT !.at = "me", !.token = GetToken(v)]

\* An earlier visit left a token, its cookie gone or not, or nothing.
Init ==
    /\ \E a \in Accounts, store, cookie \in BOOLEAN, dead \in SUBSET {0} :
          /\ cookie => store
          /\ tables = [nonces |-> [n \in Nonces |-> "none"], dead |-> dead]
          /\ view = Mounted([page |-> "session", on |-> "login", account |-> a, user |-> None,
                             store  |-> IF store THEN Earlier(a) ELSE None,
                             cookie |-> IF cookie THEN Earlier(a) ELSE None,
                             loading |-> TRUE, signing |-> FALSE])
          /\ OnlyOneCall(IF store THEN Asks(view) ELSE Idle)
    /\ faults = 0
    /\ past = [issued |-> [n \in Nonces |-> 0], raced |-> {}, crossed |-> FALSE, loads |-> 1]

\* A sign-in whose page is gone: it goes on, without a button to free.
Left == [s \in Slots |-> IF task[s].at # "idle" /\ task[s].call = "login"
                         THEN [task[s] EXCEPT !.call = "left"] ELSE task[s]]

SigningIn(s) == task[s].at # "idle" /\ task[s].call \in {"login", "left"}
AskingMe(s) == At(s, "me") \/ At(s, "known")

-----------------------------------------------------------------------------
(* handleSignIn() *)

Connect(a) ==
    /\ view.on = "login"
    /\ view' = [view EXCEPT !.account = a]
    /\ UNCHANGED <<tables, task, faults, past>>

HandleSignIn ==
    /\ view.on = "login" /\ view.account # None /\ ~view.signing
    /\ Call(SignIn("login", view.account))
    /\ view' = [view EXCEPT !.signing = TRUE]
    /\ past' = [past EXCEPT !.crossed = @ \/ \E s \in Slots : SigningIn(s) \/ AskingMe(s)]
    /\ UNCHANGED <<tables, faults>>

\* get_challenge
ChallengeServed(s) ==
    /\ At(s, "challenge")
    /\ \E n \in Nonces :
          /\ tables.nonces[n] = "none" /\ \A k \in Nonces : k < n => tables.nonces[k] # "none"
          /\ tables' = [tables EXCEPT !.nonces[n] = "fresh"]
          /\ task' = [task EXCEPT ![s].at = "signing", ![s].nonce = n]
    /\ UNCHANGED <<view, faults, past>>

\* The wallet signs with the account that is connected by now.
Sign(s) ==
    /\ At(s, "signing") /\ view.account # None
    /\ task' = [task EXCEPT ![s].at = "verify", ![s].signer = view.account]
    /\ UNCHANGED <<tables, view, faults, past>>

\* The `finally` of the handler; AuthProvider clears the token it asked about,
\* or one that took its place meanwhile.
Failed(v, call) ==
    CASE call = "provider" -> [ClearToken(v) EXCEPT !.loading = FALSE]
      [] call = "login"    -> [v EXCEPT !.signing = FALSE]
      [] OTHER             -> v

Fails(s) ==
    /\ Ends(s)
    /\ view' = Failed(view, task[s].call)

\* The wallet refuses or no account is connected.
Refuse(s) ==
    /\ At(s, "signing")
    /\ Fails(s)
    /\ UNCHANGED <<tables, faults, past>>

-----------------------------------------------------------------------------
(* verify_signature: the nonce is read, the signature verified, the nonce   *)
(* marked, and a token issued to the user of the address.                   *)

\* A slip: used_at is not looked at.
Acceptable(n) == tables.nonces[n] \in {"fresh", "used"}

Usable(n) == tables.nonces[n] = "fresh"

ReadNonce(s) ==
    /\ At(s, "verify")
    /\ Usable(task[s].nonce) /\ task[s].signer = task[s].address
    /\ Goto(s, "checked")
    /\ past' = [past EXCEPT !.raced =
                  IF \E r \in Slots : At(r, "checked") /\ task[r].nonce = task[s].nonce
                  THEN @ \cup {task[s].nonce} ELSE @]
    /\ UNCHANGED <<tables, view, faults>>

\* 400: the nonce is used or expired, or the signature is another account's.
VerifyRefuses(s) ==
    /\ At(s, "verify")
    /\ ~Usable(task[s].nonce) \/ task[s].signer # task[s].address
    /\ Fails(s)
    /\ UNCHANGED <<tables, faults, past>>

IssueToken(s) ==
    /\ At(s, "checked")
    /\ tables' = [tables EXCEPT !.nonces[task[s].nonce] = "used"]
    /\ past' = [past EXCEPT !.issued[task[s].nonce] = @ + 1]
    /\ IF task[s].call = "resent" THEN Ends(s)
       ELSE task' = [task EXCEPT ![s].at = "verified",
                                 ![s].token = [owner |-> task[s].address, of |-> task[s].nonce]]
    /\ UNCHANGED <<view, faults>>

\* The request is delivered a second time, its answer read by nobody.
Resent(s) ==
    /\ task[s].at \in {"verify", "checked", "verified"} /\ SigningIn(s)
    /\ Fault
    /\ Call([task[s] EXCEPT !.call = "resent", !.at = "verify", !.token = None])
    /\ UNCHANGED <<tables, view, past>>

-----------------------------------------------------------------------------
(* login(), and the effect of AuthProvider *)

\* login(): the token is kept, then its user asked for.
VerifyAnswered(s) ==
    /\ At(s, "verified")
    /\ Goto(s, "me")
    /\ view' = SetToken(view, task[s].token)
    /\ past' = [past EXCEPT !.crossed = @ \/ \E r \in Slots : AskingMe(r)]
    /\ UNCHANGED <<tables, faults>>

MeServed(s) ==
    /\ At(s, "me")
    /\ IF task[s].token.of \in tables.dead
       THEN Fails(s)
       ELSE Goto(s, "known") /\ UNCHANGED view
    /\ past' = [past EXCEPT !.crossed = @ \/ (task[s].call # "provider" /\ task[s].token.of \in tables.dead)]
    /\ UNCHANGED <<tables, faults>>

\* middleware.ts: the console is behind the cookie, and sends to sign in.
Opened(on) == IF on = "console" /\ view.cookie # None THEN [view EXCEPT !.on = "console"]
              ELSE [view EXCEPT !.on = "login", !.signing = FALSE]

\* router.push(next) once login() ends, from wherever the user is by then.
MeAnswered(s) ==
    /\ At(s, "known")
    /\ IF task[s].call = "provider"
       THEN /\ Ends(s)
            /\ view' = [view EXCEPT !.user = task[s].token.owner, !.loading = FALSE]
       ELSE /\ task' = [Left EXCEPT ![s] = Idle]
            /\ view' = [Opened("console") EXCEPT !.user = task[s].token.owner, !.signing = FALSE]
    /\ UNCHANGED <<tables, faults, past>>

RequestFails(s) ==
    /\ task[s].at \notin {"idle", "signing"} /\ task[s].call # "resent"
    /\ Fault
    /\ Fails(s)
    /\ past' = [past EXCEPT !.crossed = @ \/ (AskingMe(s) /\ task[s].call # "provider")]
    /\ UNCHANGED tables

-----------------------------------------------------------------------------
(* The user, the clock, and other loads of the page *)

\* A link: the page that is left loses its state, its calls go on.
Follow(on) ==
    /\ view.on # on
    /\ task' = Left
    /\ view' = Opened(on)
    /\ UNCHANGED <<tables, faults, past>>

ReloadedAs(v) ==
    /\ past.loads < MaxLoads
    /\ view' = Mounted(v)
    /\ task' = Alone(IF GetToken(v) # None THEN Asks(v) ELSE Idle)
    /\ past' = [past EXCEPT !.crossed = FALSE, !.loads = @ + 1]
    /\ UNCHANGED <<tables, faults>>

Reload == view.on = "login" /\ ReloadedAs(view)

\* DISCONNECT: clearToken(), then the sign-in page is loaded afresh.
Logout ==
    /\ view.on = "console" /\ view.user # None
    /\ ReloadedAs([ClearToken(view) EXCEPT !.on = "login"])

\* A nonce lives five minutes; a token and its cookie seven days.
TimePasses ==
    /\ \/ \E n \in Nonces :
             /\ tables.nonces[n] = "fresh"
             /\ tables' = [tables EXCEPT !.nonces[n] = "expired"]
             /\ UNCHANGED view
       \/ /\ view.store # None /\ view.store.of \notin tables.dead
          /\ tables' = [tables EXCEPT !.dead = @ \cup {view.store.of}]
          /\ UNCHANGED view
       \/ /\ view.cookie # None /\ view.cookie.of \in tables.dead
          /\ view' = [view EXCEPT !.cookie = None]
          /\ UNCHANGED tables
    /\ UNCHANGED <<task, faults, past>>

Progress(s) ==
    /\ Here
    /\ \/ ChallengeServed(s) \/ ReadNonce(s) \/ VerifyRefuses(s) \/ IssueToken(s)
       \/ VerifyAnswered(s) \/ MeServed(s) \/ MeAnswered(s)

Next ==
    /\ Here
    /\ \/ \E a \in Accounts \cup {None} : Connect(a)
       \/ HandleSignIn \/ Reload \/ Logout \/ TimePasses
       \/ \E on \in {"console", "login"} : Follow(on)
       \/ \E s \in Slots : Progress(s) \/ Sign(s) \/ Refuse(s) \/ Resent(s) \/ RequestFails(s)

Spec == Init /\ [][Next]_vars

-----------------------------------------------------------------------------

TaskType ==
    {Idle} \cup
    [at : {"challenge", "signing", "verify", "checked", "verified", "me", "known"},
     call : {"provider", "login", "left", "resent"}, address : Accounts \cup {None},
     signer : Accounts \cup {None}, nonce : Nonces \cup {None}, token : Token \cup {None}]

TypeOK ==
    /\ tables \in [nonces : [Nonces -> {"none", "fresh", "used", "expired"}],
                   dead : SUBSET (Nonces \cup {0})]
    /\ view \in [page : {"session"}, on : {"login", "console"}, account : Accounts \cup {None},
                 user : Accounts \cup {None}, store : Token \cup {None},
                 cookie : Token \cup {None}, loading : BOOLEAN, signing : BOOLEAN]
    /\ \A s \in Slots : task[s] \in TaskType
    /\ faults \in 0 .. MaxFaults

\* "nonce already used": however often the request arrives, a signed nonce is
\* good for one token.  Verifications that read it before the first marks it all
\* get one, but none joins them later: there are no more tokens than requests
\* that were in flight at once.
OneTokenPerNonce ==
    Here => \A n \in Nonces :
        past.issued[n] <= IF n \in past.raced THEN Cardinality(Slots) ELSE 1

\* The pages that the server renders take their token from the cookie, the
\* others from local storage: the two are never two sessions.
StoresAgree == Here /\ view.cookie # None => view.cookie = view.store

\* Once nothing is in flight the owner that the sidebar names is the one whose
\* token the requests carry, unless calls of two sessions crossed or login()
\* failed between keeping the token and learning its user.
OwnerShownIsSession ==
    (Here /\ Quiet /\ ~past.crossed /\ view.user # None)
    => view.store # None /\ view.store.owner = view.user

\* The provider stops loading, whether its request is answered or not.
ProviderSettles == (Here /\ view.loading) ~> (Here /\ ~view.loading)
=============================================================================
