------------------------- MODULE WalletSetupProofs -------------------------
(***************************************************************************)
(* What the setup of an on-chain wallet promises, proved of the page where *)
(* it is the one that is shown (WalletInv); SessionPagesProofs has the     *)
(* theorems.  A row names one vault because a call knows the objects of its*)
(* transaction (WalletObjects).  That no vault is lost unexplained is      *)
(* counting: one attempt runs at a time, and what is on chain and not in a *)
(* row is what broke off, or waits in that attempt (Counts).               *)
(***************************************************************************)
EXTENDS SessionPages, Sequences, FiniteSetTheorems, TLAPS

-----------------------------------------------------------------------------
(* What a call and a row know of the objects on chain. *)

WalletPair == [ownerCap : Wallet!Objects, vault : Wallet!Objects]
WalletNames == [ids : WalletPair \cup {None}, cap : Wallet!Vaults \cup {None}]

WalletCallShape ==
    [at : {"sign vault", "vault signed", "sign cap", "post", "recorded"},
     to : Wallet!Addresses \cup {None}, whole : BOOLEAN, changes : Seq(Wallet!Objects),
     ids : WalletPair \cup {None}, cap : Wallet!Vaults \cup {None}]
WalletTaskShape == {Wallet!Idle} \cup WalletCallShape

WalletViewShape ==
    [page : {"wallet"}, step : {"funds", "strategy", "review"}, account : Wallet!Addresses \cup {None},
     balance : {"zero", "short", "enough"}, fraction : SUBSET Wallet!Fields, loading : BOOLEAN,
     error : BOOLEAN, apiKey : BOOLEAN, crashed : BOOLEAN, left : BOOLEAN]

WalletTablesShape ==
    [config : {"mock", "no agent key", "live"}, balance : {"zero", "short", "enough"},
     vaults : Seq([owner : Wallet!Addresses, holder : Wallet!Addresses]),
     caps : Seq(Wallet!Objects), rows : Seq(WalletNames)]

Shapes ==
    /\ tables \in WalletTablesShape
    /\ view \in WalletViewShape
    /\ task \in [Slots -> WalletTaskShape]

\* A pair of ids is one wallet: a vault with the OwnerCap that came with it.
OneWallet(ids) ==
    /\ ids.vault.type = "Vault" /\ ids.ownerCap.type = "OwnerCap"
    /\ ids.vault.id = ids.ownerCap.id

\* The answer to create_vault lists the two objects of one vault.
OneVault(changes) ==
    \E v \in Wallet!Vaults :
        LET cap == [type |-> "OwnerCap", id |-> v]
            vault == [type |-> "Vault", id |-> v] IN
        changes \in {<<cap, vault>>, <<vault, cap>>}

\* Ids and cap are of one wallet, and the cap was issued for its vault.
CapOfWallet(caps, ids, cap) ==
    ids # None => /\ OneWallet(ids)
                  /\ cap \in DOMAIN caps /\ caps[cap] = ids.vault

Knows(s) ==
    /\ Wallet!At(s, "sign vault") => task[s].to \in Wallet!Addresses
    /\ Wallet!At(s, "vault signed") => OneVault(task[s].changes)
    /\ Wallet!At(s, "sign cap") => task[s].ids \in WalletPair /\ OneWallet(task[s].ids)
    /\ Wallet!At(s, "post") => CapOfWallet(tables.caps, task[s].ids, task[s].cap)

WalletObjects ==
    /\ Shapes
    /\ \A s \in Slots : Knows(s)
    /\ \A i \in DOMAIN tables.rows :
          CapOfWallet(tables.caps, tables.rows[i].ids, tables.rows[i].cap)

-----------------------------------------------------------------------------

\* By type, both orders of the answer give the two objects.
LEMMA ParsedByType ==
  ASSUME NEW changes, OneVault(changes)
  PROVE  Wallet!ParseVaultCreation(changes) \in WalletPair /\ OneWallet(Wallet!ParseVaultCreation(changes))
  <1>1. PICK v \in Wallet!Vaults :
            changes \in {<<[type |-> "OwnerCap", id |-> v], [type |-> "Vault", id |-> v]>>,
                         <<[type |-> "Vault", id |-> v], [type |-> "OwnerCap", id |-> v]>>}
    BY DEF OneVault
  <1> DEFINE cap == [type |-> "OwnerCap", id |-> v]
             vault == [type |-> "Vault", id |-> v]
             listed == {changes[i] : i \in DOMAIN changes}
             ofType(t) == CHOOSE o \in listed : o.type = t
  <1>2. listed = {cap, vault}
    <2>1. ASSUME NEW x, NEW y, changes = <<x, y>>
          PROVE  {changes[i] : i \in DOMAIN changes} = {x, y}
      <3>1. DOMAIN changes = 1 .. 2 /\ changes[1] = x /\ changes[2] = y
        BY <2>1
      <3>2. 1 .. 2 = {1, 2}
        OBVIOUS
      <3>3. {changes[i] : i \in {1, 2}} = {x, y}
        BY <3>1, Zenon
      <3> QED BY <3>1, <3>2, <3>3, Zenon
    <2>2. {vault, cap} = {cap, vault}
      BY Zenon
    <2>3. \/ changes = <<cap, vault>>
          \/ changes = <<vault, cap>>
      BY <1>1
    <2> HIDE DEF cap, vault
    <2> QED BY <2>1, <2>2, <2>3
  <1>3. ofType("OwnerCap") = cap
    BY <1>2
  <1>4. ofType("Vault") = vault
    BY <1>2
  <1>5. Wallet!ParseVaultCreation(changes) = [ownerCap |-> ofType("OwnerCap"), vault |-> ofType("Vault")]
    BY DEF Wallet!ParseVaultCreation
  <1>6. cap \in Wallet!Objects /\ vault \in Wallet!Objects
    BY DEF Wallet!Objects, Wallet!Vaults
  <1> HIDE DEF ofType
  <1> QED BY <1>3, <1>4, <1>5, <1>6 DEF WalletPair, OneWallet

LEMMA ObjectsInit == Wallet!Init => WalletObjects
  <1> SUFFICES ASSUME Wallet!Init PROVE WalletObjects
    OBVIOUS
  <1>1. task \in [Slots -> WalletTaskShape] /\ \A s \in Slots : task[s].at = "idle"
    BY DEF Wallet!Init, WalletTaskShape, Wallet!Idle
  <1>2. view \in WalletViewShape
    BY DEF Wallet!Init, WalletViewShape
  <1>3. tables \in WalletTablesShape /\ tables.rows = <<>>
    <2>1. /\ <<>> \in Seq([owner : Wallet!Addresses, holder : Wallet!Addresses])
          /\ <<>> \in Seq(Wallet!Objects) /\ <<>> \in Seq(WalletNames)
      OBVIOUS
    <2>2. PICK c \in {"mock", "no agent key", "live"}, b \in {"zero", "short", "enough"} :
              tables = [config |-> c, balance |-> b, vaults |-> <<>>, caps |-> <<>>, rows |-> <<>>]
      BY DEF Wallet!Init
    <2> QED BY <2>1, <2>2 DEF WalletTablesShape
  <1>4. DOMAIN tables.rows = {}
    BY <1>3
  <1>5. \A s \in Slots : Knows(s)
    BY <1>1 DEF Knows, Wallet!At
  <1> QED BY <1>1, <1>2, <1>3, <1>4, <1>5 DEF WalletObjects, Shapes

\* A step of one call that writes no cap and no row.
LEMMA OneCallMoves ==
  ASSUME WalletObjects, NEW s \in Slots, NEW t \in WalletTaskShape, task' = [task EXCEPT ![s] = t],
         tables' \in WalletTablesShape, tables'.caps = tables.caps, tables'.rows = tables.rows,
         view' \in WalletViewShape, Knows(s)'
  PROVE  WalletObjects'
  <1>1. task' \in [Slots -> WalletTaskShape] /\ \A r \in Slots \ {s} : task'[r] = task[r]
    BY DEF WalletObjects, Shapes
  <1>2. \A r \in Slots \ {s} : Knows(r)'
    BY <1>1 DEF WalletObjects, Knows, Wallet!At, CapOfWallet
  <1>3. \A i \in DOMAIN tables'.rows :
            CapOfWallet(tables'.caps, tables'.rows[i].ids, tables'.rows[i].cap)
    BY DEF WalletObjects
  <1> QED BY <1>1, <1>2, <1>3 DEF WalletObjects, Shapes

\* A step that leaves the calls, the caps and the rows alone.
LEMMA CallsLeftAlone ==
  ASSUME WalletObjects, UNCHANGED <<tables, task>>, view' \in WalletViewShape
  PROVE  WalletObjects'
  BY DEF WalletObjects, Shapes, Knows, Wallet!At, CapOfWallet

\* A call that is on its way is a whole record.
LEMMA CallIsRecord ==
  ASSUME WalletObjects, NEW s \in Slots, ~Wallet!At(s, "idle")
  PROVE  task[s] \in WalletCallShape
  <1>1. task[s] \in WalletTaskShape
    BY DEF WalletObjects, Shapes
  <1>2. task[s] # Wallet!Idle
    BY DEF Wallet!At, Wallet!Idle
  <1> QED BY <1>1, <1>2 DEF WalletTaskShape

\* The call ends; whatever the page shows then, the objects and rows stay.
LEMMA CallEnds ==
  ASSUME WalletObjects, NEW s \in Slots, Wallet!Ends(s), UNCHANGED tables, view' \in WalletViewShape
  PROVE  WalletObjects'
  <1>1. Wallet!Idle \in WalletTaskShape /\ task' = [task EXCEPT ![s] = Wallet!Idle]
    BY DEF Wallet!Ends, WalletTaskShape
  <1>2. task'[s].at = "idle"
    BY <1>1 DEF WalletObjects, Shapes, Wallet!Idle
  <1>3. Knows(s)'
    BY <1>2 DEF Knows, Wallet!At
  <1> QED BY <1>1, <1>3, OneCallMoves DEF WalletObjects, Shapes

-----------------------------------------------------------------------------
(* The steps *)

\* What the user does before the click, and what the balance says.
LEMMA FormKeepsInvariant ==
  ASSUME WalletObjects,
         \/ \E a \in Wallet!Addresses \cup {None} : Wallet!SetAccount(a)
         \/ \E field \in Wallet!Fields : Wallet!Type(field)
         \/ Wallet!BalanceAnswered \/ Wallet!Continue \/ Wallet!Back \/ Wallet!CloseModal
  PROVE  WalletObjects'
  <1>0. view \in WalletViewShape /\ tables.balance \in {"zero", "short", "enough"}
    BY DEF WalletObjects, Shapes, WalletTablesShape
  <1>1. UNCHANGED <<tables, task>>
    BY DEF Wallet!SetAccount, Wallet!Type, Wallet!BalanceAnswered, Wallet!Continue,
       Wallet!Back, Wallet!CloseModal
  <1>2. view' \in WalletViewShape
    <2>1. ASSUME NEW a \in Wallet!Addresses \cup {None}, Wallet!SetAccount(a) PROVE view' \in WalletViewShape
      BY <1>0, <2>1 DEF Wallet!SetAccount, WalletViewShape
    <2>2. ASSUME NEW field \in Wallet!Fields, Wallet!Type(field) PROVE view' \in WalletViewShape
      BY <1>0, <2>2 DEF Wallet!Type, WalletViewShape
    <2>3. CASE Wallet!BalanceAnswered
      BY <1>0, <2>3 DEF Wallet!BalanceAnswered, WalletViewShape
    <2>4. CASE Wallet!Continue \/ Wallet!Back \/ Wallet!CloseModal
      BY <1>0, <2>4 DEF Wallet!Continue, Wallet!Back, Wallet!CloseModal, WalletViewShape
    <2> QED BY <2>1, <2>2, <2>3, <2>4
  <1> QED BY <1>1, <1>2, CallsLeftAlone

LEMMA SubmitKeepsInvariant ==
  ASSUME WalletObjects, Wallet!Submit
  PROVE  WalletObjects'
  <1>0. view \in WalletViewShape
    BY DEF WalletObjects, Shapes
  <1> DEFINE t == [at |-> IF Wallet!OnChain THEN "sign vault" ELSE "post", to |-> view.account,
                   whole |-> "limits" \notin view.fraction,
                   changes |-> <<>>, ids |-> None, cap |-> None]
  <1>1. view' \in WalletViewShape /\ UNCHANGED tables
    BY <1>0 DEF Wallet!Submit, WalletViewShape
  <1>2. CASE Wallet!Rejected
    BY <1>1, <1>2, CallsLeftAlone DEF Wallet!Submit
  <1>3. CASE ~Wallet!Rejected
    <2>1. PICK s \in Slots : task' = [task EXCEPT ![s] = t]
      BY <1>3 DEF Wallet!Submit, Wallet!Call
    <2>2. t \in WalletTaskShape
      <3>1. view.account \in Wallet!Addresses \cup {None} /\ <<>> \in Seq(Wallet!Objects)
        BY <1>0 DEF WalletViewShape
      <3> QED BY <3>1 DEF WalletTaskShape, WalletCallShape
    <2>3. /\ t.at \in {"sign vault", "post"} /\ t.ids = None
          /\ t.at = "sign vault" => t.to \in Wallet!Addresses
      BY <1>0, <1>3 DEF Wallet!Rejected, WalletViewShape
    <2> HIDE DEF t
    <2>4. task'[s] = t
      BY <2>1 DEF WalletObjects, Shapes
    <2>5. Knows(s)'
      BY <2>3, <2>4 DEF Knows, Wallet!At, CapOfWallet
    <2> QED BY <1>1, <2>1, <2>2, <2>5, OneCallMoves DEF WalletObjects, Shapes
  <1> QED BY <1>2, <1>3

\* The first signature, and what is made of its answer.
LEMMA VaultKeepsInvariant ==
  ASSUME WalletObjects, NEW s \in Slots, Wallet!SignVault(s) \/ Wallet!VaultSigned(s)
  PROVE  WalletObjects'
  <1>0. /\ tables \in WalletTablesShape /\ view \in WalletViewShape /\ Knows(s)
        /\ task \in [Slots -> WalletTaskShape]
    BY DEF WalletObjects, Shapes
  <1>a. task[s] \in WalletCallShape
    BY CallIsRecord DEF Wallet!SignVault, Wallet!VaultSigned, Wallet!At
  <1>1. CASE Wallet!SignVault(s)
    <2> DEFINE v == Len(tables.vaults) + 1
               cap == [type |-> "OwnerCap", id |-> v]
               vault == [type |-> "Vault", id |-> v]
               new == [owner |-> view.account, holder |-> task[s].to]
               Holders == [owner : Wallet!Addresses, holder : Wallet!Addresses]
    <2>0. tables.vaults \in Seq(Holders)
      BY <1>0 DEF WalletTablesShape
    <2>1. v \in Wallet!Vaults
      <3>0. Len(tables.vaults) \in Nat
        BY <2>0
      <3>1. Len(tables.vaults) < MaxVaults
        BY <1>1, Zenon DEF Wallet!SignVault
      <3>2. \A m, n \in Nat : m < n => m + 1 \in 1 .. n
        OBVIOUS
      <3> QED BY <3>0, <3>1, <3>2, SessionAssumption DEF Wallet!Vaults
    <2>2. new \in Holders
      BY <1>0, <1>1 DEF Wallet!SignVault, Knows, WalletViewShape
    <2>3. tables' = [tables EXCEPT !.vaults = Append(tables.vaults, new)]
      BY <1>1 DEF Wallet!SignVault
    <2>4. PICK created \in {<<cap, vault>>, <<vault, cap>>} :
              task' = [task EXCEPT ![s].at = "vault signed", ![s].changes = created]
      BY <1>1 DEF Wallet!SignVault
    <2>5. OneVault(created)
      BY <2>1, <2>4 DEF OneVault
    <2>6. created \in Seq(Wallet!Objects)
      <3>1. cap \in Wallet!Objects /\ vault \in Wallet!Objects
        BY <2>1 DEF Wallet!Objects, Wallet!Vaults
      <3> HIDE DEF cap, vault
      <3>2. <<cap, vault>> \in Seq(Wallet!Objects) /\ <<vault, cap>> \in Seq(Wallet!Objects)
        BY <3>1
      <3> QED BY <3>2, <2>4
    <2> DEFINE t == [task[s] EXCEPT !.at = "vault signed", !.changes = created]
    <2>7. t \in WalletTaskShape /\ task' = [task EXCEPT ![s] = t]
      <3> HIDE DEF cap, vault
      <3> QED BY <1>0, <1>a, <2>4, <2>6 DEF WalletTaskShape, WalletCallShape
    <2>8. t.at = "vault signed" /\ t.changes = created
      <3> HIDE DEF cap, vault
      <3> QED BY <1>a DEF WalletCallShape
    <2> HIDE DEF v, cap, vault, t, new
    <2>9. Append(tables.vaults, new) \in Seq(Holders)
      BY <2>0, <2>2
    <2>10. /\ tables' \in WalletTablesShape
           /\ tables'.caps = tables.caps /\ tables'.rows = tables.rows
      BY <1>0, <2>3, <2>9 DEF WalletTablesShape
    <2>11. Knows(s)'
      BY <1>0, <2>5, <2>7, <2>8 DEF Knows, Wallet!At, OneVault
    <2>12. view' \in WalletViewShape
      BY <1>0, <1>1 DEF Wallet!SignVault
    <2> QED BY <2>7, <2>10, <2>11, <2>12, OneCallMoves
  <1>2. CASE Wallet!VaultSigned(s)
    <2>1. CASE task[s].whole
      <3> DEFINE ids == Wallet!ParseVaultCreation(task[s].changes)
                 t == [task[s] EXCEPT !.at = "sign cap", !.ids = ids]
      <3>1. ids \in WalletPair /\ OneWallet(ids)
        BY <1>0, <1>2, ParsedByType DEF Wallet!VaultSigned, Knows
      <3> HIDE DEF ids
      <3>2. task' = [task EXCEPT ![s].at = "sign cap", ![s].ids = ids] /\ UNCHANGED <<tables, view>>
        BY <1>2, <2>1 DEF Wallet!VaultSigned, ids
      <3>3. t \in WalletTaskShape /\ task' = [task EXCEPT ![s] = t]
        BY <1>0, <1>a, <3>1, <3>2 DEF WalletTaskShape, WalletCallShape
      <3>4. t.at = "sign cap" /\ t.ids = ids
        BY <1>a DEF WalletCallShape
      <3> HIDE DEF t
      <3>5. Knows(s)'
        BY <1>0, <3>1, <3>3, <3>4 DEF Knows, Wallet!At
      <3> QED BY <1>0, <3>2, <3>3, <3>5, OneCallMoves
    <2>2. CASE ~task[s].whole
      <3>1. view' \in WalletViewShape /\ Wallet!Ends(s) /\ UNCHANGED tables
        BY <1>0, <1>2, <2>2 DEF Wallet!VaultSigned, Wallet!Fails, WalletViewShape
      <3> QED BY <3>1, CallEnds
    <2> QED BY <2>1, <2>2
  <1> QED BY <1>1, <1>2

\* The second signature: one more cap, which is the one that is noted.
LEMMA CapKeepsInvariant ==
  ASSUME WalletObjects, NEW s \in Slots, Wallet!SignCap(s), Len(tables.caps) < MaxVaults
  PROVE  WalletObjects'
  <1>0. /\ tables \in WalletTablesShape /\ view \in WalletViewShape /\ Knows(s)
        /\ task \in [Slots -> WalletTaskShape] /\ tables.caps \in Seq(Wallet!Objects)
    BY DEF WalletObjects, Shapes, WalletTablesShape
  <1>a. task[s] \in WalletCallShape /\ task[s].ids \in WalletPair /\ OneWallet(task[s].ids)
    BY <1>0, CallIsRecord DEF Wallet!SignCap, Wallet!At, Knows
  <1> DEFINE vault == task[s].ids.vault
             caps == Append(tables.caps, vault)
             n == Len(tables.caps) + 1
             t == [task[s] EXCEPT !.at = "post", !.cap = n]
  <1>1. vault \in Wallet!Objects
    BY <1>a DEF WalletPair
  <1> HIDE DEF vault
  <1>2. /\ caps \in Seq(Wallet!Objects) /\ Len(caps) = n /\ n \in DOMAIN caps
        /\ caps[n] = vault
        /\ \A i \in DOMAIN tables.caps : i \in DOMAIN caps /\ caps[i] = tables.caps[i]
    BY <1>0, <1>1
  <1>d. n \in Wallet!Vaults
    <2>1. \A k, m \in Nat : k < m => k + 1 \in 1 .. m
      OBVIOUS
    <2> QED BY <1>0, <2>1, SessionAssumption DEF Wallet!Vaults
  <1> HIDE DEF caps
  <1>3. tables' = [tables EXCEPT !.caps = caps]
    BY DEF Wallet!SignCap, caps, vault
  <1>4. /\ tables' \in WalletTablesShape /\ tables'.caps = caps /\ tables'.rows = tables.rows
    BY <1>0, <1>2, <1>3 DEF WalletTablesShape
  <1>b. Wallet!ParseAgentCapCreation(tables'.caps) = n
    BY <1>2, <1>4 DEF Wallet!ParseAgentCapCreation
  <1>c. task' = [task EXCEPT ![s].at = "post", ![s].cap = n]
    BY <1>b DEF Wallet!SignCap
  <1>5. t \in WalletTaskShape /\ task' = [task EXCEPT ![s] = t]
    BY <1>0, <1>a, <1>d, <1>c DEF WalletTaskShape, WalletCallShape
  <1>6. t.at = "post" /\ t.ids = task[s].ids /\ t.cap = n
    BY <1>a DEF WalletCallShape
  <1> HIDE DEF t, n
  <1>7. \A ids, cap : CapOfWallet(tables.caps, ids, cap) => CapOfWallet(tables'.caps, ids, cap)
    BY <1>2, <1>4 DEF CapOfWallet
  <1>8. CapOfWallet(tables'.caps, t.ids, t.cap)
    BY <1>a, <1>2, <1>4, <1>6 DEF CapOfWallet, vault
  <1>9. task' \in [Slots -> WalletTaskShape] /\ task'[s] = t /\ \A r \in Slots \ {s} : task'[r] = task[r]
    BY <1>0, <1>5
  <1>10. \A r \in Slots : Knows(r)'
    <2>1. Knows(s)'
      BY <1>6, <1>8, <1>9 DEF Knows, Wallet!At
    <2>2. ASSUME NEW r \in Slots \ {s}
          PROVE  Knows(r)'
      BY <1>7, <1>9 DEF WalletObjects, Knows, Wallet!At
    <2> QED BY <2>1, <2>2
  <1>11. \A i \in DOMAIN tables'.rows :
            CapOfWallet(tables'.caps, tables'.rows[i].ids, tables'.rows[i].cap)
    BY <1>4, <1>7 DEF WalletObjects
  <1>12. UNCHANGED view
    BY DEF Wallet!SignCap
  <1> QED BY <1>0, <1>4, <1>9, <1>10, <1>11, <1>12 DEF WalletObjects, Shapes

\* setup_complete: one more row, with what the call knows.
LEMMA RowKeepsInvariant ==
  ASSUME WalletObjects, NEW s \in Slots, Wallet!Served(s)
  PROVE  WalletObjects'
  <1>0. /\ tables \in WalletTablesShape /\ view \in WalletViewShape /\ Knows(s)
        /\ task \in [Slots -> WalletTaskShape] /\ tables.rows \in Seq(WalletNames)
    BY DEF WalletObjects, Shapes, WalletTablesShape
  <1>a. task[s] \in WalletCallShape /\ CapOfWallet(tables.caps, task[s].ids, task[s].cap)
    BY <1>0, CallIsRecord DEF Wallet!Served, Wallet!At, Knows
  <1> DEFINE row == [ids |-> task[s].ids, cap |-> task[s].cap]
             rows == Append(tables.rows, row)
             n == Len(tables.rows) + 1
             t == [task[s] EXCEPT !.at = "recorded"]
  <1>1. row \in WalletNames /\ CapOfWallet(tables.caps, row.ids, row.cap)
    BY <1>a DEF WalletCallShape, WalletNames
  <1>2. tables' = [tables EXCEPT !.rows = rows] /\ task' = [task EXCEPT ![s].at = "recorded"]
        /\ UNCHANGED view
    BY DEF Wallet!Served
  <1> HIDE DEF row
  <1>3. /\ rows \in Seq(WalletNames) /\ rows[n] = row
        /\ \A i \in DOMAIN rows : i = n \/ (i \in DOMAIN tables.rows /\ rows[i] = tables.rows[i])
    BY <1>0, <1>1
  <1> HIDE DEF rows, n
  <1>4. tables' \in WalletTablesShape /\ tables'.caps = tables.caps /\ tables'.rows = rows
    BY <1>0, <1>2, <1>3 DEF WalletTablesShape
  <1>6. \A i \in DOMAIN rows : CapOfWallet(tables.caps, rows[i].ids, rows[i].cap)
    BY <1>1, <1>3 DEF WalletObjects
  <1>7. t \in WalletTaskShape /\ task' = [task EXCEPT ![s] = t] /\ t.at = "recorded"
    BY <1>0, <1>a, <1>2 DEF WalletTaskShape, WalletCallShape
  <1> HIDE DEF t
  <1>8. task' \in [Slots -> WalletTaskShape] /\ task'[s] = t /\ \A r \in Slots \ {s} : task'[r] = task[r]
    BY <1>0, <1>7
  <1>9. \A r \in Slots : Knows(r)'
    BY <1>4, <1>7, <1>8 DEF WalletObjects, Knows, Wallet!At
  <1>10. \A i \in DOMAIN tables'.rows :
            CapOfWallet(tables'.caps, tables'.rows[i].ids, tables'.rows[i].cap)
    BY <1>4, <1>6
  <1> QED BY <1>0, <1>2, <1>4, <1>8, <1>9, <1>10 DEF WalletObjects, Shapes

-----------------------------------------------------------------------------
(* The attempts, and what they leave behind *)

Busy(s) == ~Wallet!At(s, "idle")

\* The button is disabled while an attempt is under way: there is one at most.
OneAttempt ==
    /\ \A s \in Slots : Busy(s) => view.loading
    /\ \A s, r \in Slots : Busy(s) /\ Busy(r) => s = r

\* Between the two signatures; and, until the row is there, after the first.
AwaitsCap(s) == task[s].at \in {"vault signed", "sign cap"}
AwaitsRow(s) == AwaitsCap(s) \/ (Wallet!At(s, "post") /\ task[s].ids # None)

One(p) == IF p THEN 1 ELSE 0

\* Each cap has a vault of its own, and each vault a row, unless its attempt is
\* still under way or broke off.
Counts ==
    /\ past \in [switched : BOOLEAN, broken : Nat]
    /\ Len(tables.vaults) <= MaxVaults
    /\ Len(tables.caps) + One(\E s \in Slots : AwaitsCap(s)) <= Len(tables.vaults)
    /\ Len(tables.vaults)
         = Cardinality(Wallet!Recorded) + past.broken + One(\E s \in Slots : AwaitsRow(s))

LEMMA RecordedType ==
  ASSUME tables \in WalletTablesShape
  PROVE  /\ IsFiniteSet(Wallet!Recorded) /\ Cardinality(Wallet!Recorded) \in Nat
         /\ Wallet!Recorded \subseteq 1 .. Len(tables.rows)
  <1>1. tables.rows \in Seq(WalletNames)
    BY DEF WalletTablesShape
  <1>2. Wallet!Recorded \subseteq 1 .. Len(tables.rows) /\ Len(tables.rows) \in Nat
    BY <1>1 DEF Wallet!Recorded
  <1>3. IsFiniteSet(1 .. Len(tables.rows))
    BY <1>2, FS_Interval
  <1> QED BY <1>2, <1>3, FS_Subset, FS_CardinalityType

LEMMA OneType == \A p \in BOOLEAN : One(p) \in {0, 1} /\ (One(p) = 1 <=> p)
  BY DEF One

\* The rows of a table are finitely many, and so are those of them with ids.
LEMMA RowsAreFinite ==
  ASSUME NEW t \in WalletTablesShape
  PROVE  /\ IsFiniteSet({i \in DOMAIN t.rows : t.rows[i].ids # None})
         /\ Cardinality({i \in DOMAIN t.rows : t.rows[i].ids # None}) \in Nat
  <1> DEFINE rec == {i \in DOMAIN t.rows : t.rows[i].ids # None}
  <1>1. t.rows \in Seq(WalletNames)
    BY DEF WalletTablesShape
  <1>2. DOMAIN t.rows = 1 .. Len(t.rows) /\ Len(t.rows) \in Nat
    BY <1>1
  <1>3. IsFiniteSet(1 .. Len(t.rows)) /\ rec \subseteq 1 .. Len(t.rows)
    BY <1>2, FS_Interval
  <1> HIDE DEF rec
  <1>4. IsFiniteSet(rec) /\ Cardinality(rec) \in Nat
    BY <1>3, FS_Subset, FS_CardinalityType
  <1> QED BY <1>4 DEF rec

LEMMA TablesLengths ==
  ASSUME tables \in WalletTablesShape, tables' \in WalletTablesShape
  PROVE  /\ Len(tables.vaults) \in Nat /\ Len(tables.caps) \in Nat
         /\ Len(tables'.vaults) \in Nat /\ Len(tables'.caps) \in Nat
  <1>1. /\ tables.vaults \in Seq([owner : Wallet!Addresses, holder : Wallet!Addresses])
        /\ tables.caps \in Seq(Wallet!Objects)
        /\ tables'.vaults \in Seq([owner : Wallet!Addresses, holder : Wallet!Addresses])
        /\ tables'.caps \in Seq(Wallet!Objects)
    BY DEF WalletTablesShape
  <1> QED BY <1>1

\* What is awaited is awaited by the call that is busy, before a step and after.
LEMMA AwaitedByOne ==
  ASSUME OneAttempt, NEW s \in Slots, Busy(s), \A r \in Slots \ {s} : task'[r] = task[r]
  PROVE  /\ (\E r \in Slots : AwaitsCap(r)) <=> AwaitsCap(s)
         /\ (\E r \in Slots : AwaitsRow(r)) <=> AwaitsRow(s)
         /\ (\E r \in Slots : AwaitsCap(r)') <=> AwaitsCap(s)'
         /\ (\E r \in Slots : AwaitsRow(r)') <=> AwaitsRow(s)'
  <1>1. \A r \in Slots \ {s} : task[r].at = "idle" /\ task'[r].at = "idle"
    BY DEF OneAttempt, Busy, Wallet!At
  <1> QED BY <1>1 DEF AwaitsCap, AwaitsRow, Wallet!At

LEMMA AttemptMoves ==
  ASSUME OneAttempt, NEW s \in Slots, Busy(s), \A r \in Slots \ {s} : task'[r] = task[r],
         view'.loading = view.loading \/ task'[s] = Wallet!Idle
  PROVE  OneAttempt'
  <1>1. \A r \in Slots \ {s} : ~Busy(r)'
    BY DEF OneAttempt, Busy, Wallet!At
  <1>2. task'[s] = Wallet!Idle => ~Busy(s)'
    BY DEF Busy, Wallet!At, Wallet!Idle
  <1> QED BY <1>1, <1>2 DEF OneAttempt

\* The counts as the busy call sees them.
CountsFor(s) ==
    /\ past \in [switched : BOOLEAN, broken : Nat]
    /\ Len(tables.vaults) <= MaxVaults
    /\ Len(tables.caps) + One(AwaitsCap(s)) <= Len(tables.vaults)
    /\ Len(tables.vaults) = Cardinality(Wallet!Recorded) + past.broken + One(AwaitsRow(s))

LEMMA CountsOfBusy ==
  ASSUME OneAttempt, NEW s \in Slots, Busy(s), \A r \in Slots \ {s} : task'[r] = task[r]
  PROVE  (Counts => CountsFor(s)) /\ (CountsFor(s)' => Counts')
  <1>1. /\ (\E r \in Slots : AwaitsCap(r)) <=> AwaitsCap(s)
        /\ (\E r \in Slots : AwaitsRow(r)) <=> AwaitsRow(s)
        /\ (\E r \in Slots : AwaitsCap(r)') <=> AwaitsCap(s)'
        /\ (\E r \in Slots : AwaitsRow(r)') <=> AwaitsRow(s)'
    BY AwaitedByOne
  <1>2. /\ One(\E r \in Slots : AwaitsCap(r)) = One(AwaitsCap(s))
        /\ One(\E r \in Slots : AwaitsRow(r)) = One(AwaitsRow(s))
        /\ One(\E r \in Slots : AwaitsCap(r)') = One(AwaitsCap(s)')
        /\ One(\E r \in Slots : AwaitsRow(r)') = One(AwaitsRow(s)')
    BY <1>1 DEF One
  <1> QED BY <1>2 DEF Counts, CountsFor

-----------------------------------------------------------------------------
(* The steps again *)

WalletForm ==
    \/ \E a \in Wallet!Addresses \cup {None} : Wallet!SetAccount(a)
    \/ \E field \in Wallet!Fields : Wallet!Type(field)
    \/ Wallet!BalanceAnswered \/ Wallet!Continue \/ Wallet!Back \/ Wallet!CloseModal

\* While no call is under way nothing is awaited.
LEMMA NothingAwaited ==
  ASSUME \A s \in Slots : ~Busy(s)
  PROVE  One(\E s \in Slots : AwaitsCap(s)) = 0 /\ One(\E s \in Slots : AwaitsRow(s)) = 0
  BY DEF One, Busy, AwaitsCap, AwaitsRow, Wallet!At

\* The form changes neither the calls nor the tables, and it does not end the
\* attempt.
LEMMA FormKeepsCounts ==
  ASSUME WalletObjects, OneAttempt, Counts, WalletForm
  PROVE  OneAttempt' /\ Counts' /\ UNCHANGED faults
  <1>0. view \in WalletViewShape /\ past \in [switched : BOOLEAN, broken : Nat]
    BY DEF WalletObjects, Shapes, Counts
  <1>1. UNCHANGED <<tables, task, faults>> /\ view'.loading = view.loading
    <2>1. ASSUME NEW a \in Wallet!Addresses \cup {None}, Wallet!SetAccount(a)
          PROVE  UNCHANGED <<tables, task, faults>> /\ view'.loading = view.loading
      BY <1>0, <2>1 DEF Wallet!SetAccount, WalletViewShape
    <2>2. ASSUME NEW field \in Wallet!Fields, Wallet!Type(field)
          PROVE  UNCHANGED <<tables, task, faults>> /\ view'.loading = view.loading
      BY <1>0, <2>2 DEF Wallet!Type, WalletViewShape
    <2>3. CASE Wallet!BalanceAnswered
      BY <1>0, <2>3 DEF Wallet!BalanceAnswered, WalletViewShape
    <2>4. CASE Wallet!Continue \/ Wallet!Back \/ Wallet!CloseModal
      BY <1>0, <2>4 DEF Wallet!Continue, Wallet!Back, Wallet!CloseModal, WalletViewShape
    <2> QED BY <2>1, <2>2, <2>3, <2>4 DEF WalletForm
  <1>2. past' \in [switched : BOOLEAN, broken : Nat] /\ past'.broken = past.broken
    BY <1>0 DEF WalletForm, Wallet!SetAccount, Wallet!Type, Wallet!BalanceAnswered,
       Wallet!Continue,
         Wallet!Back, Wallet!CloseModal
  <1>3. OneAttempt'
    BY <1>1 DEF OneAttempt, Busy, Wallet!At
  <1>4. Counts'
    BY <1>1, <1>2 DEF Counts, One, AwaitsCap, AwaitsRow, Wallet!At, Wallet!Recorded
  <1> QED BY <1>1, <1>3, <1>4

\* The click starts the one attempt there is, which awaits nothing yet.
LEMMA SubmitKeepsCounts ==
  ASSUME WalletObjects, OneAttempt, Counts, Wallet!Submit
  PROVE  OneAttempt' /\ Counts' /\ UNCHANGED faults
  <1>0. view \in WalletViewShape /\ task \in [Slots -> WalletTaskShape] /\ ~view.loading
        /\ UNCHANGED <<tables, past, faults>>
    BY DEF WalletObjects, Shapes, Wallet!Submit, Wallet!CanSubmit
  <1>1. \A s \in Slots : ~Busy(s)
    BY <1>0 DEF OneAttempt
  <1> DEFINE t == [at |-> IF Wallet!OnChain THEN "sign vault" ELSE "post", to |-> view.account,
                   whole |-> "limits" \notin view.fraction,
                   changes |-> <<>>, ids |-> None, cap |-> None]
  <1>2. CASE UNCHANGED task
    <2>1. \A s \in Slots : ~Busy(s)'
      BY <1>1, <1>2 DEF Busy, Wallet!At
    <2>2. OneAttempt'
      BY <2>1 DEF OneAttempt
    <2>3. Counts'
      BY <1>0, <1>2 DEF Counts, One, AwaitsCap, AwaitsRow, Wallet!At, Wallet!Recorded
    <2> QED BY <1>0, <2>2, <2>3
  <1>3. CASE Wallet!Call(t) /\ view' = [view EXCEPT !.loading = TRUE, !.error = FALSE]
    <2>1. PICK s \in Slots : task' = [task EXCEPT ![s] = t]
      BY <1>3 DEF Wallet!Call
    <2>2. t.at \in {"sign vault", "post"} /\ t.ids = None
      OBVIOUS
    <2> HIDE DEF t
    <2>3. task'[s] = t /\ \A r \in Slots \ {s} : task'[r] = task[r]
      BY <1>0, <2>1
    <2>4. \A r \in Slots \ {s} : ~Busy(r)'
      BY <1>1, <2>3 DEF Busy, Wallet!At
    <2>5. view'.loading
      BY <1>0, <1>3 DEF WalletViewShape
    <2>6. OneAttempt'
      BY <2>4, <2>5 DEF OneAttempt
    <2>7. \A r \in Slots : ~AwaitsCap(r)' /\ ~AwaitsRow(r)'
      <3>1. ~AwaitsCap(s)' /\ ~AwaitsRow(s)'
        BY <2>2, <2>3 DEF AwaitsCap, AwaitsRow, Wallet!At
      <3>2. \A r \in Slots \ {s} : ~AwaitsCap(r)' /\ ~AwaitsRow(r)'
        BY <2>4 DEF Busy, AwaitsCap, AwaitsRow, Wallet!At
      <3> QED BY <3>1, <3>2
    <2>8. Counts'
      <3>1. One(\E r \in Slots : AwaitsCap(r)) = 0 /\ One(\E r \in Slots : AwaitsRow(r)) = 0
        BY <1>1, NothingAwaited
      <3>2. One(\E r \in Slots : AwaitsCap(r)') = 0 /\ One(\E r \in Slots : AwaitsRow(r)') = 0
        BY <2>7 DEF One
      <3>3. Wallet!Recorded' = Wallet!Recorded
        BY <1>0 DEF Wallet!Recorded
      <3> QED BY <1>0, <3>1, <3>2, <3>3 DEF Counts
    <2> QED BY <1>0, <2>6, <2>8
  <1> QED BY <1>2, <1>3 DEF Wallet!Submit

\* A call that ends leaves a vault without a row exactly if it counts as broken.
LEMMA EndKeepsCounts ==
  ASSUME WalletObjects, OneAttempt, Counts, NEW s \in Slots, Busy(s), Wallet!Ends(s), UNCHANGED tables,
         past' \in [switched : BOOLEAN, broken : Nat],
         past'.broken = past.broken + One(AwaitsRow(s))
  PROVE  OneAttempt' /\ Counts'
  <1>1. task'[s] = Wallet!Idle /\ \A r \in Slots \ {s} : task'[r] = task[r]
    BY DEF Wallet!Ends, WalletObjects, Shapes
  <1>2. OneAttempt'
    BY <1>1, AttemptMoves
  <1>3. ~AwaitsCap(s)' /\ ~AwaitsRow(s)'
    <2>1. task'[s].at = "idle"
      BY <1>1 DEF Wallet!Idle
    <2> QED BY <2>1 DEF AwaitsCap, AwaitsRow, Wallet!At
  <1>4. CountsFor(s) /\ (CountsFor(s)' => Counts')
    BY <1>1, CountsOfBusy
  <1>5. Cardinality(Wallet!Recorded) \in Nat /\ Wallet!Recorded' = Wallet!Recorded
    BY RecordedType DEF WalletObjects, Shapes, Wallet!Recorded
  <1>6. Len(tables.vaults) \in Nat /\ Len(tables.caps) \in Nat
    BY TablesLengths DEF WalletObjects, Shapes
  <1>7. Len(tables.caps) <= Len(tables.vaults)
    <2>1. \A c, v \in Nat : c + 1 <= v \/ c + 0 <= v => c <= v
      OBVIOUS
    <2> QED BY <1>4, <1>6, <2>1 DEF CountsFor, One
  <1>8. Len(tables.vaults) = Cardinality(Wallet!Recorded) + past'.broken
    <2>1. past.broken \in Nat
      BY DEF Counts
    <2>2. One(AwaitsRow(s)) \in {0, 1}
      BY DEF One
    <2>3. \A r, b, v \in Nat, p \in {0, 1} : v = r + b + p => v = r + (b + p)
      OBVIOUS
    <2> QED BY <1>4, <1>5, <1>6, <2>1, <2>2, <2>3 DEF CountsFor
  <1>9. One(AwaitsCap(s)') = 0 /\ One(AwaitsRow(s)') = 0
    BY <1>3 DEF One
  <1>10. CountsFor(s)'
    <2>1. past'.broken \in Nat
      OBVIOUS
    <2>2. \A m, n \in Nat : m + 0 = m /\ m + n + 0 = m + n
      OBVIOUS
    <2>3. Len(tables.caps) + One(AwaitsCap(s)') <= Len(tables.vaults)
      BY <1>6, <1>7, <1>9, <2>2
    <2>4. Len(tables.vaults) = Cardinality(Wallet!Recorded) + past'.broken + One(AwaitsRow(s)')
      BY <1>5, <1>8, <1>9, <2>1, <2>2
    <2> QED BY <1>4, <1>5, <2>3, <2>4 DEF CountsFor
  <1> QED BY <1>2, <1>4, <1>10

\* The same call goes on, told by the caps, vaults and rows it adds.
LEMMA GoesOnKeepsCounts ==
  ASSUME WalletObjects, WalletObjects', OneAttempt, Counts, NEW s \in Slots, Busy(s),
         UNCHANGED <<view, past>>, \A r \in Slots \ {s} : task'[r] = task[r],
         NEW c \in Nat, NEW v \in Nat, NEW n \in Nat,
         Len(tables'.caps) = Len(tables.caps) + c, Len(tables'.vaults) = Len(tables.vaults) + v,
         Cardinality(Wallet!Recorded') = Cardinality(Wallet!Recorded) + n,
         Len(tables'.vaults) <= MaxVaults,
         c + One(AwaitsCap(s)') <= v + One(AwaitsCap(s)),
         v + One(AwaitsRow(s)) = n + One(AwaitsRow(s)')
  PROVE  OneAttempt' /\ Counts'
  <1>2. OneAttempt'
    BY AttemptMoves
  <1>4. CountsFor(s) /\ (CountsFor(s)' => Counts')
    BY CountsOfBusy
  <1>5. Cardinality(Wallet!Recorded) \in Nat /\ past.broken \in Nat
    BY RecordedType DEF WalletObjects, Shapes, Counts
  <1>6. Len(tables.vaults) \in Nat /\ Len(tables.caps) \in Nat
    BY TablesLengths DEF WalletObjects, Shapes
  <1>7. \A i, j \in Nat, p, q \in {0, 1}, a, b \in Nat :
            i + p <= j /\ a + q <= b + p => (i + a) + q <= j + b
    OBVIOUS
  <1>9. /\ One(AwaitsCap(s)) \in {0, 1} /\ One(AwaitsCap(s)') \in {0, 1}
        /\ One(AwaitsRow(s)) \in {0, 1} /\ One(AwaitsRow(s)') \in {0, 1}
    BY DEF One
  <1>10. Len(tables'.caps) + One(AwaitsCap(s)') <= Len(tables'.vaults)
    <2>1. Len(tables.caps) + One(AwaitsCap(s)) <= Len(tables.vaults)
      BY <1>4 DEF CountsFor
    <2> QED BY <1>6, <1>7, <1>9, <2>1
  <1>11. Len(tables'.vaults) = Cardinality(Wallet!Recorded') + past.broken + One(AwaitsRow(s)')
    <2>1. Len(tables.vaults) = Cardinality(Wallet!Recorded) + past.broken + One(AwaitsRow(s))
      BY <1>4 DEF CountsFor
    <2> DEFINE i == Len(tables.vaults)
               j == Cardinality(Wallet!Recorded)
               d == past.broken
               p == One(AwaitsRow(s))
               q == One(AwaitsRow(s)')
    <2>2. /\ p \in {0, 1} /\ q \in {0, 1} /\ v + p = n + q
          /\ i \in Nat /\ j \in Nat /\ d \in Nat /\ i = j + d + p
      BY <1>5, <1>6, <1>9, <2>1
    <2>3. Len(tables'.vaults) = i + v /\ Cardinality(Wallet!Recorded') = j + n
      OBVIOUS
    <2> HIDE DEF i, j, d, p, q
    <2>4. i + v = (j + n) + d + q
      BY <2>2
    <2> QED BY <2>3, <2>4 DEF d, q
  <1>12. CountsFor(s)'
    BY <1>4, <1>10, <1>11 DEF CountsFor
  <1> QED BY <1>2, <1>4, <1>12

\* SignVault: one vault more, and its cap and its row are awaited from now on.
LEMMA SignVaultCounts ==
  ASSUME WalletObjects, WalletObjects', OneAttempt, Counts, NEW s \in Slots, Wallet!SignVault(s)
  PROVE  OneAttempt' /\ Counts'
  <1>0. task \in [Slots -> WalletTaskShape] /\ Busy(s) /\ UNCHANGED <<view, past>>
        /\ tables.vaults \in Seq([owner : Wallet!Addresses, holder : Wallet!Addresses])
    BY DEF WalletObjects, Shapes, WalletTablesShape, Busy, Wallet!SignVault, Wallet!At
  <1>1. PICK created : task' = [task EXCEPT ![s].at = "vault signed", ![s].changes = created]
    BY DEF Wallet!SignVault
  <1>2. task'[s].at = "vault signed" /\ \A r \in Slots \ {s} : task'[r] = task[r]
    <2>1. task[s] \in WalletCallShape
      BY <1>0, CallIsRecord DEF Busy
    <2> QED BY <1>0, <1>1, <2>1 DEF WalletCallShape
  <1>3. One(AwaitsCap(s)) = 0 /\ One(AwaitsRow(s)) = 0 /\ One(AwaitsCap(s)') = 1 /\ One(AwaitsRow(s)') = 1
    BY <1>2 DEF One, AwaitsCap, AwaitsRow, Wallet!At, Wallet!SignVault
  <1>4. PICK new : tables' = [tables EXCEPT !.vaults = Append(tables.vaults, new)]
    BY DEF Wallet!SignVault
  <1>5. /\ tables'.vaults = Append(tables.vaults, new)
        /\ tables'.caps = tables.caps /\ tables'.rows = tables.rows
    BY <1>4 DEF WalletObjects, Shapes, WalletTablesShape
  <1>6. Len(tables'.vaults) = Len(tables.vaults) + 1 /\ Len(tables.vaults) \in Nat
    BY <1>0, <1>5
  <1>7. Len(tables'.vaults) <= MaxVaults
    <2>1. Len(tables.vaults) < MaxVaults
      BY DEF Wallet!SignVault
    <2>2. \A m, n \in Nat : m < n => m + 1 <= n
      OBVIOUS
    <2> QED BY <1>6, <2>1, <2>2, SessionAssumption
  <1>8. Wallet!Recorded' = Wallet!Recorded /\ Cardinality(Wallet!Recorded) \in Nat
        /\ Len(tables.caps) \in Nat
    BY <1>5, RecordedType, TablesLengths DEF Wallet!Recorded, WalletObjects, Shapes
  <1>9. /\ Len(tables'.caps) = Len(tables.caps) + 0
        /\ Cardinality(Wallet!Recorded') = Cardinality(Wallet!Recorded) + 0
    BY <1>5, <1>8
  <1>10. 0 + One(AwaitsCap(s)') <= 1 + One(AwaitsCap(s)) /\ 1 + One(AwaitsRow(s)) = 0 + One(AwaitsRow(s)')
    BY <1>3
  <1> QED BY <1>0, <1>2, <1>6, <1>7, <1>9, <1>10, GoesOnKeepsCounts

\* SignCap: the cap that was awaited is there; before it there are fewer caps
\* than vaults.
LEMMA CapsRoom ==
  ASSUME WalletObjects, OneAttempt, Counts, NEW s \in Slots, AwaitsCap(s)
  PROVE  Len(tables.caps) < MaxVaults
  <1>1. Busy(s) /\ One(\E r \in Slots : AwaitsCap(r)) = 1
    BY DEF Busy, AwaitsCap, One, Wallet!At
  <1>2. Len(tables.caps) + 1 <= Len(tables.vaults) /\ Len(tables.vaults) <= MaxVaults
    BY <1>1 DEF Counts
  <1>3. Len(tables.vaults) \in Nat /\ Len(tables.caps) \in Nat /\ MaxVaults \in Nat
    BY TablesLengths, SessionAssumption DEF WalletObjects, Shapes
  <1>4. \A c, v, m \in Nat : c + 1 <= v /\ v <= m => c < m
    OBVIOUS
  <1> QED BY <1>2, <1>3, <1>4

LEMMA SignCapCounts ==
  ASSUME WalletObjects, WalletObjects', OneAttempt, Counts, NEW s \in Slots, Wallet!SignCap(s)
  PROVE  OneAttempt' /\ Counts'
  <1>0. task \in [Slots -> WalletTaskShape] /\ Busy(s) /\ UNCHANGED <<view, past>>
        /\ tables.caps \in Seq(Wallet!Objects)
    BY DEF WalletObjects, Shapes, WalletTablesShape, Busy, Wallet!SignCap, Wallet!At
  <1>a. task[s] \in WalletCallShape /\ task[s].ids \in WalletPair
    BY <1>0, CallIsRecord DEF Busy, WalletObjects, Knows, Wallet!SignCap
  <1>1. PICK n : task' = [task EXCEPT ![s].at = "post", ![s].cap = n]
    BY DEF Wallet!SignCap
  <1>2. task'[s].at = "post" /\ task'[s].ids = task[s].ids /\ \A r \in Slots \ {s} : task'[r] = task[r]
    BY <1>0, <1>1, <1>a DEF WalletCallShape
  <1>b. task[s].ids # None
    BY <1>a, SessionAssumption DEF WalletPair
  <1>3. One(AwaitsCap(s)) = 1 /\ One(AwaitsRow(s)) = 1 /\ One(AwaitsCap(s)') = 0 /\ One(AwaitsRow(s)') = 1
    BY <1>2, <1>b DEF One, AwaitsCap, AwaitsRow, Wallet!At, Wallet!SignCap
  <1>4. PICK new : tables' = [tables EXCEPT !.caps = Append(tables.caps, new)]
    BY DEF Wallet!SignCap
  <1>5. /\ tables'.caps = Append(tables.caps, new)
        /\ tables'.vaults = tables.vaults /\ tables'.rows = tables.rows
    BY <1>4 DEF WalletObjects, Shapes, WalletTablesShape
  <1>6. Len(tables'.caps) = Len(tables.caps) + 1
    BY <1>0, <1>5
  <1>7. Len(tables'.vaults) <= MaxVaults
    BY <1>5 DEF Counts
  <1>8. Wallet!Recorded' = Wallet!Recorded /\ Cardinality(Wallet!Recorded) \in Nat
        /\ Len(tables.vaults) \in Nat
    BY <1>5, RecordedType, TablesLengths DEF Wallet!Recorded, WalletObjects, Shapes
  <1>9. /\ Len(tables'.vaults) = Len(tables.vaults) + 0
        /\ Cardinality(Wallet!Recorded') = Cardinality(Wallet!Recorded) + 0
    BY <1>5, <1>8
  <1>10. 1 + One(AwaitsCap(s)') <= 0 + One(AwaitsCap(s)) /\ 0 + One(AwaitsRow(s)) = 0 + One(AwaitsRow(s)')
    BY <1>3
  <1> QED BY <1>0, <1>2, <1>6, <1>7, <1>9, <1>10, GoesOnKeepsCounts

\* Served: the row that was awaited is there, if there are ids to record.
LEMMA ServedCounts ==
  ASSUME WalletObjects, WalletObjects', OneAttempt, Counts, NEW s \in Slots, Wallet!Served(s)
  PROVE  OneAttempt' /\ Counts'
  <1>0. task \in [Slots -> WalletTaskShape] /\ Busy(s) /\ UNCHANGED <<view, past>>
        /\ tables.rows \in Seq(WalletNames)
    BY DEF WalletObjects, Shapes, WalletTablesShape, Busy, Wallet!Served, Wallet!At
  <1>a. task[s] \in WalletCallShape
    BY <1>0, CallIsRecord DEF Busy
  <1>2. task'[s].at = "recorded" /\ \A r \in Slots \ {s} : task'[r] = task[r]
    BY <1>0, <1>a DEF Wallet!Served, WalletCallShape
  <1> DEFINE row == [ids |-> task[s].ids, cap |-> task[s].cap]
             n == Len(tables.rows) + 1
             added == IF task[s].ids # None THEN 1 ELSE 0
  <1>b. row.ids = task[s].ids
    OBVIOUS
  <1>4. tables' = [tables EXCEPT !.rows = Append(tables.rows, row)]
    BY DEF Wallet!Served
  <1>3. /\ One(AwaitsCap(s)) = 0 /\ One(AwaitsRow(s)) = added
        /\ One(AwaitsCap(s)') = 0 /\ One(AwaitsRow(s)') = 0
    BY <1>2 DEF One, AwaitsCap, AwaitsRow, Wallet!At, Wallet!Served
  <1> HIDE DEF row
  <1>5. /\ tables'.rows = Append(tables.rows, row)
        /\ tables'.vaults = tables.vaults /\ tables'.caps = tables.caps
    BY <1>4 DEF WalletObjects, Shapes, WalletTablesShape
  <1>7. Len(tables'.vaults) <= MaxVaults
    BY <1>5 DEF Counts
  <1>8. /\ IsFiniteSet(Wallet!Recorded) /\ Cardinality(Wallet!Recorded) \in Nat
        /\ Wallet!Recorded \subseteq 1 .. Len(tables.rows) /\ n \notin Wallet!Recorded
    <2>1. Len(tables.rows) \in Nat
      BY <1>0
    <2>2. \A k \in Nat : k + 1 \notin 1 .. k
      OBVIOUS
    <2> QED BY <2>1, <2>2, RecordedType DEF WalletObjects, Shapes
  <1>9. /\ DOMAIN tables'.rows = DOMAIN tables.rows \cup {n} /\ tables'.rows[n] = row
        /\ n \notin DOMAIN tables.rows /\ \A i \in DOMAIN tables.rows : tables'.rows[i] = tables.rows[i]
    BY <1>0, <1>5
  <1>10. Cardinality(Wallet!Recorded') = Cardinality(Wallet!Recorded) + added
    <2> HIDE DEF n
    <2>1. CASE task[s].ids # None
      <3>1. Wallet!Recorded' = Wallet!Recorded \cup {n}
        BY <1>9, <1>b, <2>1 DEF Wallet!Recorded
      <3>2. Cardinality(Wallet!Recorded \cup {n}) = Cardinality(Wallet!Recorded) + 1
        BY <1>8, FS_AddElement
      <3> QED BY <2>1, <3>1, <3>2
    <2>2. CASE task[s].ids = None
      <3>1. Wallet!Recorded' = Wallet!Recorded
        BY <1>9, <1>b, <2>2 DEF Wallet!Recorded
      <3> QED BY <1>8, <2>2, <3>1
    <2> QED BY <2>1, <2>2
  <1>11. Len(tables'.vaults) = Len(tables.vaults) + 0 /\ Len(tables'.caps) = Len(tables.caps) + 0
    BY <1>5, TablesLengths DEF WalletObjects, Shapes
  <1>12. added \in Nat
    OBVIOUS
  <1>13. 0 + One(AwaitsCap(s)') <= 0 + One(AwaitsCap(s)) /\ 0 + One(AwaitsRow(s)) = added + One(AwaitsRow(s)')
    BY <1>3, <1>12
  <1> HIDE DEF added
  <1> QED BY <1>0, <1>2, <1>7, <1>10, <1>11, <1>12, <1>13, GoesOnKeepsCounts

\* The steps of a call that leave the tables alone: it goes on, or it ends.
LEMMA AnswerKeepsAttempt ==
  ASSUME WalletObjects, OneAttempt, Counts, NEW s \in Slots,
         \/ Wallet!VaultSigned(s) \/ Wallet!Answered(s) \/ Wallet!Refused(s) \/ Wallet!StepFails(s)
  PROVE  WalletObjects' /\ OneAttempt' /\ Counts'
  <1>0. /\ view \in WalletViewShape /\ Busy(s) /\ UNCHANGED tables
        /\ past \in [switched : BOOLEAN, broken : Nat]
    BY DEF WalletObjects, Shapes, Counts, Busy, Wallet!At, Wallet!VaultSigned,
       Wallet!Answered,
           Wallet!Refused, Wallet!StepFails
  <1>1. CASE Wallet!VaultSigned(s) /\ task[s].whole
    <2>1. WalletObjects'
      BY <1>1, VaultKeepsInvariant
    <2>2. UNCHANGED <<view, past>> /\ task[s] \in WalletCallShape /\ task \in [Slots -> WalletTaskShape]
      BY <1>0, <1>1, CallIsRecord DEF Wallet!VaultSigned, Busy, WalletObjects, Shapes
    <2>3. PICK ids : task' = [task EXCEPT ![s].at = "sign cap", ![s].ids = ids]
      BY <1>1 DEF Wallet!VaultSigned
    <2>4. task'[s].at = "sign cap" /\ \A r \in Slots \ {s} : task'[r] = task[r]
      BY <2>2, <2>3 DEF WalletCallShape
    <2>5. One(AwaitsCap(s)) = 1 /\ One(AwaitsRow(s)) = 1 /\ One(AwaitsCap(s)') = 1 /\ One(AwaitsRow(s)') = 1
      BY <1>1, <2>4 DEF One, AwaitsCap, AwaitsRow, Wallet!At, Wallet!VaultSigned
    <2>6. /\ Len(tables.vaults) \in Nat /\ Len(tables.caps) \in Nat /\ Len(tables.vaults) <= MaxVaults
          /\ Cardinality(Wallet!Recorded) \in Nat /\ Wallet!Recorded' = Wallet!Recorded
      BY <1>0, RecordedType, TablesLengths DEF WalletObjects, Shapes, Wallet!Recorded,
         Counts
    <2>7. /\ Len(tables'.caps) = Len(tables.caps) + 0 /\ Len(tables'.vaults) = Len(tables.vaults) + 0
          /\ Cardinality(Wallet!Recorded') = Cardinality(Wallet!Recorded) + 0
          /\ Len(tables'.vaults) <= MaxVaults
      BY <1>0, <2>6
    <2>8. 0 + One(AwaitsCap(s)') <= 0 + One(AwaitsCap(s)) /\ 0 + One(AwaitsRow(s)) = 0 + One(AwaitsRow(s)')
      BY <2>5
    <2> QED BY <1>0, <2>1, <2>2, <2>4, <2>7, <2>8, GoesOnKeepsCounts
  <1>2. CASE ~(Wallet!VaultSigned(s) /\ task[s].whole)
    <2>1. /\ Wallet!Ends(s)
          /\ \/ Wallet!Answered(s) /\ view' = [view EXCEPT !.apiKey = TRUE, !.loading = FALSE]
                /\ UNCHANGED past
             \/ view' = Wallet!Fails(view) /\ Wallet!Breaks(s)
      BY <1>2 DEF Wallet!VaultSigned, Wallet!Answered, Wallet!Refused, Wallet!StepFails
    <2>2. view' \in WalletViewShape
      BY <1>0, <2>1 DEF Wallet!Fails, WalletViewShape
    <2>3. CASE Wallet!Answered(s) /\ UNCHANGED past
      <3>1. ~AwaitsRow(s)
        BY <2>3 DEF AwaitsRow, AwaitsCap, Wallet!At, Wallet!Answered
      <3>2. past'.broken = past.broken + One(AwaitsRow(s))
        BY <1>0, <2>3, <3>1 DEF One
      <3> QED BY <1>0, <2>1, <2>2, <2>3, <3>2, CallEnds, EndKeepsCounts
    <2>4. CASE Wallet!Breaks(s)
      <3>0. past' = [past EXCEPT !.broken = IF AwaitsRow(s) THEN past.broken + 1 ELSE past.broken]
        BY <2>4 DEF Wallet!Breaks, Wallet!AwaitsRow, AwaitsRow, AwaitsCap
      <3>1. past' \in [switched : BOOLEAN, broken : Nat]
        BY <1>0, <3>0
      <3>2. past'.broken = past.broken + One(AwaitsRow(s))
        BY <1>0, <3>0 DEF One
      <3> QED BY <1>0, <2>1, <2>2, <3>1, <3>2, CallEnds, EndKeepsCounts
    <2> QED BY <2>1, <2>3, <2>4
  <1> QED BY <1>1, <1>2

-----------------------------------------------------------------------------
(* The invariant of the setup *)

WalletInv == WalletObjects /\ OneAttempt /\ Counts /\ faults \in 0 .. MaxFaults

LEMMA WalletStarts == ASSUME Wallet!Init PROVE WalletInv
  <1>1. \A s \in Slots : ~Busy(s)
    BY DEF Wallet!Init, Busy, Wallet!At, Wallet!Idle
  <1>2. OneAttempt
    BY <1>1 DEF OneAttempt
  <1>3. Counts
    <2>0. /\ tables.vaults = <<>> /\ tables.caps = <<>> /\ tables.rows = <<>>
          /\ past = [switched |-> FALSE, broken |-> 0]
      <3>1. PICK c \in {"mock", "no agent key", "live"}, b \in {"zero", "short", "enough"} :
              tables = [config |-> c, balance |-> b, vaults |-> <<>>, caps |-> <<>>, rows |-> <<>>]
        BY DEF Wallet!Init
      <3> QED BY <3>1 DEF Wallet!Init
    <2>1. Wallet!Recorded = {}
      <3>1. DOMAIN tables.rows = {}
        BY <2>0
      <3> QED BY <3>1 DEF Wallet!Recorded
    <2>2. Len(tables.vaults) = 0 /\ Len(tables.caps) = 0 /\ Cardinality(Wallet!Recorded) = 0
      BY <2>0, <2>1, FS_EmptySet
    <2>3. One(\E s \in Slots : AwaitsCap(s)) = 0 /\ One(\E s \in Slots : AwaitsRow(s)) = 0
      BY <1>1, NothingAwaited
    <2>4. past \in [switched : BOOLEAN, broken : Nat] /\ past.broken = 0
      BY <2>0
    <2>5. 0 <= MaxVaults
      BY SessionAssumption
    <2>6. 0 + 0 <= 0 /\ 0 = 0 + 0 + 0
      OBVIOUS
    <2> QED BY <2>2, <2>3, <2>4, <2>5, <2>6 DEF Counts
  <1>4. faults \in 0 .. MaxFaults
    <2>1. faults = 0 /\ MaxFaults \in Nat
      BY SessionAssumption DEF Wallet!Init
    <2> QED BY <2>1
  <1> QED BY <1>2, <1>3, <1>4, ObjectsInit DEF WalletInv

LEMMA WalletMoves == ASSUME WalletInv, [Wallet!Next]_vars PROVE WalletInv'
  <1> USE DEF WalletInv
  <1>1. CASE WalletForm
    <2>1. WalletObjects'
      BY <1>1, FormKeepsInvariant DEF WalletForm
    <2> QED BY <1>1, <2>1, FormKeepsCounts
  <1>2. CASE Wallet!Submit
    BY <1>2, SubmitKeepsInvariant, SubmitKeepsCounts
  <1>3. ASSUME NEW s \in Slots, Wallet!SignVault(s) PROVE WalletInv'
    <2>1. WalletObjects' /\ UNCHANGED faults
      BY <1>3, VaultKeepsInvariant DEF Wallet!SignVault
    <2> QED BY <1>3, <2>1, SignVaultCounts
  <1>4. ASSUME NEW s \in Slots, Wallet!SignCap(s) PROVE WalletInv'
    <2>1. Len(tables.caps) < MaxVaults /\ UNCHANGED faults
      BY <1>4, CapsRoom DEF Wallet!SignCap, AwaitsCap, Wallet!At
    <2>2. WalletObjects'
      BY <1>4, <2>1, CapKeepsInvariant
    <2> QED BY <1>4, <2>1, <2>2, SignCapCounts
  <1>5. ASSUME NEW s \in Slots, Wallet!Served(s) PROVE WalletInv'
    <2>1. WalletObjects' /\ UNCHANGED faults
      BY <1>5, RowKeepsInvariant DEF Wallet!Served
    <2> QED BY <1>5, <2>1, ServedCounts
  <1>6. ASSUME NEW s \in Slots, Wallet!VaultSigned(s) \/ Wallet!Answered(s) \/ Wallet!Refused(s)
        PROVE  WalletInv'
    <2>1. UNCHANGED faults
      BY <1>6 DEF Wallet!VaultSigned, Wallet!Answered, Wallet!Refused
    <2> QED BY <1>6, <2>1, AnswerKeepsAttempt
  <1>7. ASSUME NEW s \in Slots, Wallet!StepFails(s) PROVE WalletInv'
    <2>1. faults' \in 0 .. MaxFaults
      <3>1. MaxFaults \in Nat /\ faults < MaxFaults /\ faults' = faults + 1
        BY <1>7, SessionAssumption DEF Wallet!StepFails, Wallet!Fault
      <3> QED BY <3>1
    <2> QED BY <1>7, <2>1, AnswerKeepsAttempt
  <1>8. CASE UNCHANGED vars
    <2>1. WalletObjects'
      BY <1>8, CallsLeftAlone DEF vars, WalletObjects, Shapes
    <2>2. OneAttempt' /\ Counts' /\ faults' \in 0 .. MaxFaults
      BY <1>8 DEF vars, OneAttempt, Busy, Counts, One, AwaitsCap, AwaitsRow, Wallet!At,
         Wallet!Recorded
    <2> QED BY <2>1, <2>2
  <1> QED BY <1>1, <1>2, <1>3, <1>4, <1>5, <1>6, <1>7, <1>8 DEF Wallet!Next,
             Wallet!Progress, WalletForm

LEMMA WalletPromises ==
  ASSUME WalletInv
  PROVE  Wallet!Here /\ Wallet!TypeOK /\ Wallet!RowsNameOneWallet /\ Wallet!LostVaultsAreExplained
  <1> USE DEF WalletInv, WalletObjects
  <1>1. /\ tables \in WalletTablesShape /\ view \in WalletViewShape /\ task \in [Slots -> WalletTaskShape]
    BY DEF Shapes
  <1>2. Wallet!Here
    BY <1>1 DEF WalletViewShape, Wallet!Here
  <1>3. Wallet!TypeOK
    <2>1. \A s \in Slots : task[s].at \in {"idle", "sign vault", "vault signed", "sign cap",
                                           "post", "recorded"}
      <3> SUFFICES ASSUME NEW s \in Slots
                   PROVE  task[s].at \in {"idle", "sign vault", "vault signed", "sign cap",
                                          "post", "recorded"}
        OBVIOUS
      <3>1. task[s] \in WalletTaskShape
        BY <1>1
      <3>2. CASE task[s] = Wallet!Idle
        BY <3>2 DEF Wallet!Idle
      <3>3. CASE task[s] \in WalletCallShape
        <4>1. task[s].at \in {"sign vault", "vault signed", "sign cap", "post", "recorded"}
          BY <3>3 DEF WalletCallShape
        <4> QED BY <4>1
      <3> QED BY <3>1, <3>2, <3>3 DEF WalletTaskShape
    <2>2. /\ \A i \in DOMAIN tables.vaults :
                tables.vaults[i] \in [owner : Wallet!Addresses, holder : Wallet!Addresses]
          /\ \A i \in DOMAIN tables.caps : tables.caps[i] \in Wallet!Objects
          /\ \A i \in DOMAIN tables.rows :
                tables.rows[i] \in [ids : Wallet!Ids, cap : Wallet!Vaults \cup {None}]
      <3>1. /\ tables.vaults \in Seq([owner : Wallet!Addresses, holder : Wallet!Addresses])
            /\ tables.caps \in Seq(Wallet!Objects) /\ tables.rows \in Seq(WalletNames)
        BY <1>1 DEF WalletTablesShape
      <3>2. WalletNames = [ids : Wallet!Ids, cap : Wallet!Vaults \cup {None}]
        BY DEF WalletNames, WalletPair, Wallet!Ids
      <3>3. \A i \in DOMAIN tables.rows : tables.rows[i] \in WalletNames
        BY <3>1
      <3>5. \A i \in DOMAIN tables.vaults :
                tables.vaults[i] \in [owner : Wallet!Addresses, holder : Wallet!Addresses]
        <4>1. \A S : \A q \in Seq(S) : \A i \in DOMAIN q : q[i] \in S
          OBVIOUS
        <4> QED BY <3>1, <4>1
      <3>6. \A i \in DOMAIN tables.caps : tables.caps[i] \in Wallet!Objects
        BY <3>1
      <3>4. \A i \in DOMAIN tables.rows :
                tables.rows[i] \in [ids : Wallet!Ids, cap : Wallet!Vaults \cup {None}]
        BY <3>2, <3>3, Zenon
      <3> QED BY <3>4, <3>5, <3>6
    <2> QED BY <1>1, <2>1, <2>2 DEF Wallet!TypeOK, WalletViewShape, Counts
  <1>4. Wallet!RowsNameOneWallet
    BY DEF Wallet!RowsNameOneWallet, Wallet!Recorded, CapOfWallet, OneWallet
  <1>5. Wallet!LostVaultsAreExplained
    <2>1. /\ Len(tables.vaults) \in Nat /\ Cardinality(Wallet!Recorded) \in Nat /\ past.broken \in Nat
      <3>1. tables.vaults \in Seq([owner : Wallet!Addresses, holder : Wallet!Addresses])
        BY <1>1 DEF WalletTablesShape
      <3>2. Len(tables.vaults) \in Nat
        BY <3>1
      <3> QED BY <1>1, <3>2, RecordedType DEF Counts
    <2>2. (\E s \in Slots : AwaitsRow(s)) <=> (\E s \in Slots : Wallet!AwaitsRow(s))
      BY DEF AwaitsRow, AwaitsCap, Wallet!AwaitsRow
    <2>3. Len(tables.vaults) = Cardinality(Wallet!Recorded) + past.broken + One(\E s \in Slots : AwaitsRow(s))
      BY DEF Counts
    <2>4. \A v, r, b \in Nat, p \in {0, 1} : v = r + b + p => v - r = b + p
      OBVIOUS
    <2>5. One(\E s \in Slots : AwaitsRow(s)) \in {0, 1}
      BY DEF One
    <2>6. Len(tables.vaults) - Cardinality(Wallet!Recorded)
            = past.broken + One(\E s \in Slots : AwaitsRow(s))
      <3> DEFINE v == Len(tables.vaults)
                 r == Cardinality(Wallet!Recorded)
                 b == past.broken
                 p == One(\E s \in Slots : AwaitsRow(s))
      <3>1. v \in Nat /\ r \in Nat /\ b \in Nat /\ p \in {0, 1} /\ v = r + b + p
        BY <2>1, <2>3, <2>5
      <3> HIDE DEF v, r, b, p
      <3>2. v - r = b + p
        BY <2>4, <3>1
      <3> QED BY <3>2 DEF v, r, b, p
    <2>7. Wallet!Cardinality(Wallet!Recorded) = Cardinality(Wallet!Recorded)
      BY DEF Wallet!Cardinality, Cardinality
    <2> QED BY <2>2, <2>6, <2>7 DEF Wallet!LostVaultsAreExplained, One
  <1> QED BY <1>2, <1>3, <1>4, <1>5
=============================================================================
