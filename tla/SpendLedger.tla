---------------------------- MODULE SpendLedger ----------------------------
(***************************************************************************)
(* What both wallets promise about spending, and no more: payers charge    *)
(* accounts; a payment is one step that charges payer and account alike,   *)
(* inside the payer's limit and the account's budget of that moment.       *)
(*                                                                         *)
(* Where somebody who is no payer may use up a budget too, the ledger is   *)
(* open.  The on-chain wallet (module Vault) is checked against the open   *)
(* ledger, its mirror in the API (module Execution) against the other.     *)
(***************************************************************************)
EXTENDS Integers

CONSTANTS Accounts, Payers, Amounts, Budgets, Limits, NoAccount

VARIABLES
    budget,     \* what an account may pay out in its life
    spent,      \* what it has paid out
    home,       \* the account of a payer
    limit,      \* what a payer may charge in its life
    paid        \* what it has charged

vars == <<budget, spent, home, limit, paid>>

Init ==
    /\ budget \in [Accounts -> Budgets]
    /\ spent = [v \in Accounts |-> 0]
    /\ home \in [Payers -> Accounts \cup {NoAccount}]
    /\ limit \in [Payers -> Limits]
    /\ paid = [p \in Payers |-> 0]

Pay(p, v, amount) ==
    /\ home[p] = v
    /\ amount > 0
    /\ paid[p] + amount <= limit[p]
    /\ spent[v] + amount <= budget[v]
    /\ paid' = [paid EXCEPT ![p] = @ + amount]
    /\ spent' = [spent EXCEPT ![v] = @ + amount]
    /\ UNCHANGED <<budget, home, limit>>

\* A payer gets its account and its limit once.
Admit(p, v, l) ==
    /\ home[p] = NoAccount
    /\ home' = [home EXCEPT ![p] = v]
    /\ limit' = [limit EXCEPT ![p] = l]
    /\ UNCHANGED <<budget, spent, paid>>

SetBudget(v, b) ==
    /\ budget' = [budget EXCEPT ![v] = b]
    /\ UNCHANGED <<spent, home, limit, paid>>

Next ==
    \/ \E p \in Payers, v \in Accounts, a \in Amounts : Pay(p, v, a)
    \/ \E p \in Payers, v \in Accounts, l \in Limits : Admit(p, v, l)
    \/ \E v \in Accounts, b \in Budgets : SetBudget(v, b)

Spec == Init /\ [][Next]_vars

\* Budget is used up, and no payer has charged it.
Book(v, amount) ==
    /\ amount > 0
    /\ spent' = [spent EXCEPT ![v] = @ + amount]
    /\ UNCHANGED <<budget, home, limit, paid>>

OpenNext == Next \/ \E v \in Accounts, a \in Amounts : Book(v, a)

OpenSpec == Init /\ [][OpenNext]_vars
=============================================================================
