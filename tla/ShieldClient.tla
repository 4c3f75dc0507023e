----------------------------- MODULE ShieldClient -----------------------------
(***************************************************************************)
(* FRXShield (packages/shield-sdk/src/index.ts): one client object that    *)
(* holds the owner's token and the agent's API key, and whose methods are  *)
(* all one request() apart from the two that execute.  execute() takes the *)
(* token away, awaits its request and puts back what it took: the token is *)
(* state shared by every call of the object, and the calls overlap.        *)
(***************************************************************************)
EXTENDS Page

CONSTANT Tokens       \* owners' tokens
ApiKey == "apiKey"    \* authHeader's other choice

Here == view.page = "client"

Calls == {"execute", "executeIntent", "owner"}
Executes == {"execute", "executeIntent"}

Executing(s) == task[s].at # "idle" /\ task[s].call \in Executes

\* The constructor's config: userToken and apiKey are both optional.
Init ==
    /\ \E token \in Tokens \cup {None}, key \in {None, ApiKey} :
          /\ view = [page |-> "client", userToken |-> token, apiKey |-> key]
          /\ past = [userToken |-> token, crossed |-> FALSE]
    /\ tables = None
    /\ task = [s \in Slots |-> Idle]
    /\ faults = 0

AuthHeader(v) == IF v.userToken # None THEN v.userToken ELSE v.apiKey

SetUserToken(token) ==
    /\ view' = [view EXCEPT !.userToken = token]
    /\ past' = [userToken |-> token,
                crossed |-> past.crossed \/ \E s \in Slots : Executing(s)]
    /\ UNCHANGED <<tables, task, faults>>

SetApiKey(key) ==
    /\ view' = [view EXCEPT !.apiKey = key]
    /\ UNCHANGED <<tables, task, faults, past>>

\* request(): the headers are made when fetch is called.
Request(call) ==
    /\ Call([at |-> "request", call |-> call, auth |-> AuthHeader(view), prev |-> None])
    /\ UNCHANGED <<tables, view, faults, past>>

Execute(call) ==
    /\ Call([at |-> "request", call |-> call,
             auth |-> AuthHeader([view EXCEPT !.userToken = None]), prev |-> view.userToken])
    /\ view' = [view EXCEPT !.userToken = None]
    /\ past' = [past EXCEPT !.crossed = @ \/ \E s \in Slots : Executing(s)]
    /\ UNCHANGED <<tables, faults>>

\* Whatever it answers, the server has seen the header.
Served(s) ==
    /\ At(s, "request")
    /\ Goto(s, "answered")
    /\ UNCHANGED <<tables, view, faults, past>>

\* A slip: what comes back is the header the request was sent with.
HeaderKept(s) ==
    IF task[s].call \in Executes THEN [view EXCEPT !.userToken = task[s].auth] ELSE view

\* The `finally` of execute() and executeIntent().
Restored(s) ==
    IF task[s].call \in Executes THEN [view EXCEPT !.userToken = task[s].prev] ELSE view

\* A slip: the token comes back only with an answer.
FailsWithoutFinally(s) ==
    /\ Fault
    /\ ~At(s, "idle")
    /\ UNCHANGED <<tables, view, past>>
    /\ Ends(s)

Answered(s) ==
    /\ At(s, "answered")
    /\ view' = Restored(s)
    /\ UNCHANGED <<tables, faults, past>>
    /\ Ends(s)

RequestFails(s) ==
    /\ Fault
    /\ ~At(s, "idle")
    /\ view' = Restored(s)
    /\ UNCHANGED <<tables, past>>
    /\ Ends(s)

Progress(s) == Here /\ (Served(s) \/ Answered(s))

Next ==
    /\ Here
    /\ \/ \E token \in Tokens \cup {None} : SetUserToken(token)
       \/ \E key \in {None, ApiKey} : SetApiKey(key)
       \/ Request("owner")
       \/ \E call \in Executes : Execute(call)
       \/ \E s \in Slots : Served(s) \/ Answered(s) \/ RequestFails(s)

Spec == Init /\ [][Next]_vars

-----------------------------------------------------------------------------

Headers == Tokens \cup {None, ApiKey}

TypeOK ==
    /\ tables = None
    /\ view \in [page : {"client"}, userToken : Tokens \cup {None}, apiKey : {None, ApiKey}]
    /\ task \in [Slots -> {Idle} \cup [at : {"request", "answered"}, call : Calls,
                                       auth : Headers, prev : Tokens \cup {None}]]
    /\ faults \in 0 .. MaxFaults
    /\ past \in [userToken : Tokens \cup {None}, crossed : BOOLEAN]

\* When no execution is in flight the object holds the token it was given
\* last, whatever failed, unless two executions overlapped or the token was set
\* during one (then the last to finish puts back what it took).
TokenIsPutBack ==
    (Here /\ ~past.crossed /\ \A s \in Slots : ~Executing(s))
    => view.userToken = past.userToken
=============================================================================
