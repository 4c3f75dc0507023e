--------------------------- MODULE WalletSetupPage ---------------------------
(***************************************************************************)
(* /wallet/setup: funds and permissions, a strategy, a review; then two     *)
(* transactions that the user signs in the wallet and one request that      *)
(* records both (app/(dashboard)/wallet/setup/page.tsx, components/wallet,  *)
(* hooks/useWalletBalances.ts, lib/onchain-setup.ts, wallet-sdk ptb.ts).     *)
(*                                                                         *)
(* What a number field holds is abstracted to whether BigInt accepts it: a  *)
(* whole number or nothing, or a fraction such as 1.5.  The fields of the   *)
(* strategy and the names have no effect on the steps.                      *)
(***************************************************************************)
EXTENDS Page, Sequences

CONSTANT MaxVaults      \* bound on vaults; the v-th has OwnerCap v

Here == view.page = "wallet"

Addresses == {"user", "other"}   \* the signed-in address, another of the wallet's
Fields == {"deposit", "budget", "limits"}
Vaults == 1 .. MaxVaults

\* On chain, and the rows of agents.  config: NEXT_PUBLIC_FRX_WALLET_PACKAGE_ID
\* and NEXT_PUBLIC_FRX_AGENT_ADDRESS are set, or only the first, or neither.
Init ==
    /\ \E c \in {"mock", "no agent key", "live"}, b \in {"zero", "short", "enough"} :
          tables = [config |-> c, balance |-> b, vaults |-> <<>>, caps |-> <<>>, rows |-> <<>>]
    /\ view = [page |-> "wallet", step |-> "funds", account |-> None, balance |-> "zero",
               fraction |-> {}, loading |-> FALSE, error |-> FALSE, apiKey |-> FALSE,
               crashed |-> FALSE, left |-> FALSE]
    /\ task = [s \in Slots |-> Idle]
    /\ faults = 0
    /\ past = [switched |-> FALSE, broken |-> 0]

Shown == ~view.crashed /\ ~view.left

-----------------------------------------------------------------------------
(* The wallet extension and the three steps *)

\* useCurrentAccount: the user connects, and may change the account or disconnect
\* at any time (once).  The balance is asked for anew.
SetAccount(a) ==
    /\ Shown /\ view.account # a /\ ~past.switched
    /\ view' = [view EXCEPT !.account = a, !.balance = "zero"]
    /\ past' = [past EXCEPT !.switched = @ \/ a # "user"]
    /\ UNCHANGED <<tables, task, faults>>

\* useWalletBalances is mounted with the first step and asks every 15 seconds;
\* until it has an answer the balance is 0.
BalanceAnswered ==
    /\ Shown /\ view.step = "funds" /\ view.account # None
    /\ view.balance # tables.balance
    /\ view' = [view EXCEPT !.balance = tables.balance]
    /\ UNCHANGED <<tables, task, faults, past>>

\* BigInt of the deposit is evaluated in the render: a fraction throws there.
Type(field) ==
    /\ Shown /\ view.step = "funds"
    /\ view' = [view EXCEPT !.fraction = IF field \in @ THEN @ \ {field} ELSE @ \cup {field},
                            !.crashed = field = "deposit"]
    /\ UNCHANGED <<tables, task, faults, past>>

\* Only a balance that is known, not zero and too small disables the button.
InsufficientSui == view.account # None /\ view.balance = "short"

Continue ==
    /\ Shown
    /\ \/ view.step = "funds" /\ ~InsufficientSui /\ view' = [view EXCEPT !.step = "strategy"]
       \/ view.step = "strategy" /\ view' = [view EXCEPT !.step = "review"]
    /\ UNCHANGED <<tables, task, faults, past>>

Back ==
    /\ Shown
    /\ \/ view.step = "strategy" /\ view' = [view EXCEPT !.step = "funds"]
       \/ view.step = "review" /\ ~view.loading /\ view' = [view EXCEPT !.step = "strategy"]
    /\ UNCHANGED <<tables, task, faults, past>>

-----------------------------------------------------------------------------
(* submitSetup() *)

OnChain == tables.config # "mock"

\* The button of the review, also under the dialog with the key.
CanSubmit == Shown /\ view.step = "review" /\ ~view.loading

\* No account, no agent key, a budget that is a fraction: an error, and nothing
\* has happened.  In mock mode the request is all there is.
Rejected == OnChain /\ (view.account = None \/ tables.config = "no agent key"
                                            \/ "budget" \in view.fraction)

\* buildCreateVaultTransaction names the address of the click as owner of the
\* OwnerCap; the one of the signature is the sender.
Submit ==
    /\ CanSubmit /\ Len(tables.vaults) < MaxVaults /\ Len(tables.rows) < MaxVaults
    /\ IF Rejected
       THEN /\ view' = [view EXCEPT !.error = TRUE]
            /\ UNCHANGED task
       ELSE /\ view' = [view EXCEPT !.loading = TRUE, !.error = FALSE]
            /\ Call([at |-> IF OnChain THEN "sign vault" ELSE "post", to |-> view.account,
                     whole |-> "limits" \notin view.fraction,
                     changes |-> <<>>, ids |-> None, cap |-> None])
    /\ UNCHANGED <<tables, faults, past>>

\* The wallet signs with the account that is connected by now; the chain takes
\* the deposit, and lists what it created in an order of its own.
SignVault(s) ==
    /\ At(s, "sign vault") /\ view.account # None /\ tables.balance = "enough"
    /\ Len(tables.vaults) < MaxVaults
    /\ LET v == Len(tables.vaults) + 1
           cap == [type |-> "OwnerCap", id |-> v]
           vault == [type |-> "Vault", id |-> v] IN
       /\ tables' = [tables EXCEPT !.vaults = Append(@, [owner |-> view.account,
                                                         holder |-> task[s].to])]
       /\ \E created \in {<<cap, vault>>, <<vault, cap>>} :
             task' = [task EXCEPT ![s].at = "vault signed", ![s].changes = created]
    /\ UNCHANGED <<view, faults, past>>

\* parseVaultCreation: by type.  (By order only if a type is missing, which no
\* answer to create_vault is.)
ParseVaultCreation(changes) ==
    LET OfType(t) == CHOOSE o \in {changes[i] : i \in DOMAIN changes} : o.type = t
    IN  [ownerCap |-> OfType("OwnerCap"), vault |-> OfType("Vault")]

Fails(v) == [v EXCEPT !.error = TRUE, !.loading = FALSE]

\* From the first signature until the row is there.
AwaitsRow(s) ==
    task[s].at \in {"vault signed", "sign cap"} \/ (At(s, "post") /\ task[s].ids # None)

\* A call that ends in between leaves a vault behind.
Breaks(s) == past' = [past EXCEPT !.broken = IF AwaitsRow(s) THEN @ + 1 ELSE @]

\* A fraction in a limit throws in BigInt here, after the deposit was taken.
VaultSigned(s) ==
    /\ At(s, "vault signed")
    /\ IF task[s].whole
       THEN /\ task' = [task EXCEPT ![s].at = "sign cap",
                                    ![s].ids = ParseVaultCreation(task[s].changes)]
            /\ UNCHANGED <<view, past>>
       ELSE /\ Ends(s)
            /\ view' = Fails(view)
            /\ Breaks(s)
    /\ UNCHANGED <<tables, faults>>

\* create_agent_cap needs the OwnerCap, which only its holder can use.
HoldsOwnerCap(s) ==
    /\ task[s].ids.ownerCap.type = "OwnerCap"
    /\ tables.vaults[task[s].ids.ownerCap.id].holder = view.account

\* A slip: the first AgentCap that is found.
FirstAgentCap(caps) == 1

\* parseAgentCapCreation: the AgentCap among what this transaction created.
ParseAgentCapCreation(caps) == Len(caps)

SignCap(s) ==
    /\ At(s, "sign cap") /\ HoldsOwnerCap(s)
    /\ tables' = [tables EXCEPT !.caps = Append(@, task[s].ids.vault)]
    /\ task' = [task EXCEPT ![s].at = "post", ![s].cap = ParseAgentCapCreation(tables'.caps)]
    /\ UNCHANGED <<view, faults, past>>

\* setup_complete: agent, vault and cap get their rows.
Served(s) ==
    /\ At(s, "post")
    /\ tables' = [tables EXCEPT !.rows = Append(@, [ids |-> task[s].ids, cap |-> task[s].cap])]
    /\ task' = [task EXCEPT ![s].at = "recorded"]
    /\ UNCHANGED <<view, faults, past>>

Answered(s) ==
    /\ At(s, "recorded")
    /\ Ends(s)
    /\ view' = [view EXCEPT !.apiKey = TRUE, !.loading = FALSE]
    /\ UNCHANGED <<tables, faults, past>>

\* The key was read: on to the demo of the agent.
CloseModal ==
    /\ Shown /\ view.apiKey
    /\ view' = [view EXCEPT !.apiKey = FALSE, !.left = TRUE]
    /\ UNCHANGED <<tables, task, faults, past>>

\* The chain or the wallet refuse: no account, no funds, not the OwnerCap.
Refused(s) ==
    /\ \/ At(s, "sign vault") /\ (view.account = None \/ tables.balance # "enough")
       \/ At(s, "sign cap") /\ ~HoldsOwnerCap(s)
    /\ Ends(s)
    /\ view' = Fails(view)
    /\ Breaks(s)
    /\ UNCHANGED <<tables, faults>>

\* The user declines, a node or the server does not answer.
StepFails(s) ==
    /\ ~At(s, "idle")
    /\ Fault
    /\ Ends(s)
    /\ view' = Fails(view)
    /\ Breaks(s)
    /\ UNCHANGED tables

Progress(s) ==
    /\ Here
    /\ \/ SignVault(s) \/ VaultSigned(s) \/ SignCap(s) \/ Served(s)
       \/ Answered(s) \/ Refused(s)

Next ==
    /\ Here
    /\ \/ \E a \in Addresses \cup {None} : SetAccount(a)
       \/ \E field \in Fields : Type(field)
       \/ BalanceAnswered \/ Continue \/ Back \/ Submit \/ CloseModal
       \/ \E s \in Slots : Progress(s) \/ StepFails(s)

Spec == Init /\ [][Next]_vars

-----------------------------------------------------------------------------

Objects == [type : {"OwnerCap", "Vault"}, id : Vaults]
Ids == [ownerCap : Objects, vault : Objects] \cup {None}

TypeOK ==
    /\ \A i \in DOMAIN tables.vaults : tables.vaults[i] \in [owner : Addresses, holder : Addresses]
    /\ \A i \in DOMAIN tables.caps : tables.caps[i] \in Objects
    /\ \A i \in DOMAIN tables.rows : tables.rows[i] \in [ids : Ids, cap : Vaults \cup {None}]
    /\ view \in [page : {"wallet"}, step : {"funds", "strategy", "review"},
                 account : Addresses \cup {None}, balance : {"zero", "short", "enough"},
                 fraction : SUBSET Fields, loading : BOOLEAN, error : BOOLEAN,
                 apiKey : BOOLEAN, crashed : BOOLEAN, left : BOOLEAN]
    /\ \A s \in Slots : task[s].at \in {"idle", "sign vault", "vault signed", "sign cap",
                                        "post", "recorded"}
    /\ faults \in 0 .. MaxFaults
    /\ past.switched \in BOOLEAN /\ past.broken \in Nat

Recorded == {i \in DOMAIN tables.rows : tables.rows[i].ids # None}

\* What is recorded is one wallet on chain: a vault, the OwnerCap of that vault
\* and a cap that was issued for that vault, also after other attempts that left
\* their objects behind, and in whatever order the answers list them.
RowsNameOneWallet ==
    Here => \A i \in Recorded :
        LET r == tables.rows[i] IN
        /\ r.ids.vault.type = "Vault" /\ r.ids.ownerCap.type = "OwnerCap"
        /\ r.ids.vault.id = r.ids.ownerCap.id
        /\ tables.caps[r.cap] = r.ids.vault

\* The vaults that took a deposit and have no row are the one of the call that
\* is running and those of the calls that broke off in between, and no others:
\* whatever else fails, also after the row was written, loses none.
LostVaultsAreExplained ==
    Here => Len(tables.vaults) - Cardinality(Recorded)
            = past.broken + (IF \E s \in Slots : AwaitsRow(s) THEN 1 ELSE 0)
=============================================================================
