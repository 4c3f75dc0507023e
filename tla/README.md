# Specifications of FRX Labs

FRX lets an autonomous trading agent spend from a vault inside limits its owner
sets. Money and limits exist twice: as Move objects on Sui, and as rows of
PostgreSQL that a Rust API checks before it asks the chain, or, in mock mode,
instead of asking it. The owner works with both through a Next.js console and
two SDKs. This directory holds TLA+ specifications of the parts that decide about
money and of the console's pages, the TLC configurations that check them on small
instances, and TLAPS proofs of the results that hold for every instance.

Paths below are relative to the repository. `tlc -config X.cfg M` checks a run;
`tlapm M.tla` checks a module's proofs. `PROJECT.json` maps every definition to
the lines it models and lists runs, hazards, findings and theorems.

## 1. The system

| Component | State | Operations | Talks to |
|---|---|---|---|
| On-chain wallet, `contracts/wallet/sources/{vault,agent_cap}.move` | shared `Vault` (balance, status, budget, total spent, revoked ids), `OwnerCap`, `AgentCap` (terms, daily spent, last action) | `create_vault`, `deposit`, `owner_withdraw`, `pause`, `unpause`, `update_budget`, `create_agent_cap`, `transfer`, `agent_withdraw`, `revoke_agent_cap`, `record_spend`, `take_balance` | the clock; any Sui address calls it |
| Execution pipeline, `backend/api/src/services/{execution_service,firewall,execution_gateway,spend,log}.rs`, `auth.rs` | `executions`, `alerts`, `daily_spend`; per request: what it has read so far | `POST /execute` | reads the registry, asks the risk engine, calls the wallet tables |
| Wallet tables, `services/wallet.rs`, `routes/wallet/vaults.rs` | `vaults`, `agent_caps`, `vault_transactions` | deposit, pause, unpause, create/revoke cap, `agent_withdraw` | chain runner in live mode |
| Registry of agents, `routes/shield/*.rs` | `agents`, `api_keys`, `capabilities`, `policies`, `strategies` | create, pause, resume, revoke, keys, policy, strategies, activate, deactivate | read by the pipeline |
| Wallet setup, `routes/wallet/setup.rs`, `frontend/.../wallet/setup/page.tsx`, `packages/wallet-sdk` | how far the browser is; one SQL transaction | sign vault, sign cap, `setup_complete` | chain, then API |
| Chain runner, `backend/chain-runner/src/index.js`, `services/sui.rs` | transactions being submitted | `POST /execute/agent-withdraw`, `POST /execute` | API, chain |
| Sign-in, `routes/auth/*.rs`, `services/{jwt,sui_auth}.rs`, `frontend/.../{login,AuthProvider,auth,middleware}` | `auth_nonces`, `users`; the token in local storage and in a cookie, the user the provider knows | challenge, verify, me; sign in, disconnect, reload | owner's wallet |
| Console: agents and vaults, `frontend/.../{agents,control,vaults/new,intent}` | React state of each page, async calls in flight | issue and revoke keys, pause, resume, revoke, set up and activate an agent, submit a form | API, through the SDKs |
| Console: demo, `frontend/.../demo` | chosen agent, last activity, open dialog | poll every 8 s, open a decision | API |
| Console: pages of the server, `frontend/.../{console,wallet,policies,vaults,agents,logs,alerts}` | none; each render reads its lists | render | API, with the cookie's token |
| SDKs, `packages/{shield-sdk,wallet-sdk,ptb-builder}` | a client object with a token and an API key | one request per method; `execute` swaps the token | API; the browser's wallet |
| Demo runner, `services/demo_runner.rs` | cursor per agent, running set; writes `policies.approval_mode` | one background loop per agent | the pipeline |
| On-chain Shield, `contracts/shield/sources` | agent, capability, policy and log objects | create, pause, resume, revoke, validate and log | nothing in the repository calls it |
| Risk engine and market data, `backend/ai-engine`, `services/{risk_client,price_feed,market_data}.rs` | none that outlives a request but a replayed price file | score, statistics | called by the pipeline |

What makes the components correct:

- *On-chain wallet*: a withdrawal with a cap is booked on cap and vault alike, and keeps the
  cap's terms, the budget of the moment and the pause; revocation is final;
  no SUI is made, lost or moved between vaults. This is about `agent_withdraw`. It is not true that
  no payment leaves a vault outside a cap's terms: `take_balance` (`vault.move:159`) is public, asks only for
  an active vault that holds the amount, and pays whoever calls, with no cap, budget or
  event; `record_spend` (`:155`) is public too and raises `total_spent` without a payment.
  The models have both as calls of any address, and the run `linked_cap` shows the first.
- *Pipeline and wallet tables*: the same, as far as the code's separate
  statements can promise it; the audit rows say what happened to the money;
  every request ends.
- *Registry*: revocation is not undone by what is in flight; a revoked agent has
  no usable key; an update changes what it names.
- *Sign-in*: a nonce is good for one token, raced verifications apart; the two places of the token hold one
  session, and the owner the sidebar names is that session's.
- *Console*: a secret that is shown once is shown; what a page says is true of the
  tables at some moment since it asked, and once nothing is in flight it is what the
  tables hold; a button does not undo a revocation; nothing is made twice without a
  reason; every click comes to an end that the user sees.
- *Wallet setup*: a row names the vault, the OwnerCap and the cap that belong
  together; a vault without a row is explained.
- *SDK client*: an execution goes out with the agent's key, and the owner's token is there again
  afterwards.
- *Live mode* (setup, pipeline, runner, chain): the rows are only debited for
  what the chain paid, the cap of the setup only pays what was asked, and the difference
  between its books on both sides is known.

### What is hard

*Interleaving.* Axum handlers are async tasks over one connection pool. Outside
`setup_complete` no two statements share a transaction, so any handler may run
between any two statements of another. Checks are made on rows read earlier and
nearly all updates are unconditional.

*Ends half-way.* A handler's future is dropped when the client disconnects, a
`?` leaves it on any database error, a restart ends it. What it has written
stays.

*Two authorities.* The API, the runner and the chain share no transaction and no
request id. An answer may be lost after the chain has paid.

*Answers out of order.* A page's handlers are async functions over one React state.
Between two awaits any other handler runs, answers arrive in any order and hold what the
server read, not what is true when they are applied; an effect may run again, a
timer does not wait for its last call, a request may fail after it was served.

*Time.* `daily_spend` is keyed by the date, asked for twice in one request; the
chain has expiry and cooldown on its clock.

The concrete places are the hazards of `PROJECT.json`, each at its line with the
properties that watch it.

## 2. Modules

| Module | Models |
|---|---|
| `SpendLedger` | what both wallets promise about spending, abstractly: a payment charges payer and account in one step inside limit and budget; open, if budget may be used up without a payer |
| `Vault` | the Move wallet; one action is one successful call |
| `VaultProofs` | theorems about `Vault` |
| `Execution` | `POST /execute` in mock mode and the owner's handlers, statement by statement |
| `Registry` | life of one agent in the API's tables, statement by statement |
| `RegistryProofs` | theorems about `Registry` |
| `Settlement` | live mode: browser, API, runner and an instance of `Vault` |
| `SettlementProofs` | theorems about `Settlement`; instantiates `VaultProofs` |
| `ExecutionProofs` | theorems about `Execution` |
| `SumLemmas` | what the books need of sums over finite sets |
| `Page` | what the console's pages share: React state, async calls, faults |
| `KeysPage` | the keys of an agent and the dialog that shows a secret once |
| `ControlPage` | the list of agents with pause, resume and revoke |
| `AgentSetupPage` | fund, strategy, activate, with its effect that runs after every render |
| `FormPages` | the pages that are one form: new agent, new vault, new cap, intent |
| `AgentPages`, `AgentPagesProofs` | the four page modules above side by side: the initial state picks the page; theorems |
| `SignInPage` | signing in and out: page, provider, token, routes |
| `ServerPages` | the pages the server renders |
| `DemoPage` | the page that polls what an agent does, and its dialog |
| `WalletSetupPage`, `WalletSetupProofs` | the setup of a wallet: form, two signatures, one request; lemmas about it |
| `ShieldClient` | the client object of the Shield SDK |
| `SessionPages`, `SessionPagesProofs` | `SignInPage` to `ShieldClient` side by side, in the same way; theorems |
| `MCVault`, `MCExecution`, `MCRegistry`, `MCSettlement`, `MCAgentPages`, `MCSessionPages` | instances for TLC, and what the documents say where a run refutes it |

### How state and actions correspond to the code

**Vault.** `vault` and `agentCap` are the fields of the Move structs. `holder` is
the address that owns a cap. `withdrawn` is the sequence of `AgentWithdrawn`
events; no action reads it, the properties do. An action is a call whose
assertions hold: an aborted call changes nothing. Sui orders the transactions on
a shared object, so a call is one step. Every public function that changes an object is an action: those
that ask for no capability (`deposit`, `record_spend`, `take_balance`) are taken by any address
(`AnyoneStep`), the others by who owns the `OwnerCap` or the `AgentCap`. A transaction of several calls is
several steps, so the model also has states that only the inside of such a transaction has. The `OwnerCap` is represented by the
vault's owner: the transaction that creates it transfers it to the creator, and
no call of the package moves it (it has `store`, so a wallet could transfer it;
that is outside the package and left out). `Users` are any addresses; the agent is not
assumed to behave. u64 arithmetic aborts instead of wrapping, which is a refused
call: `record_spend` can drive `total_spent` up to the largest u64, `MaxU64`, which is 2 or 3 in the runs. No other
sum gets there before an assertion refuses it, or the money in circulation ends.

**Execution.** One action per SQL statement or awaited call, together with the
code up to the next one. `req[r].stage` is the program counter of a handler;
`req[r].status`, `mode`, `cap` are what it read and keeps. `live` is false once
the handler is over, and `stage` then says how far it came, which is what the
book-keeping properties need. The risk engine's verdict is a free choice, and so
are the checks that read nothing any handler changes. Amounts may be any integer:
the API takes any JSON number. The owner's handlers run as separate actions;
revocation of an agent and deposit have several statements and can be abandoned.
`Init` is the state after `setup_complete`.

**Registry.** `call[c].stage` is the program counter of an owner's call of several
statements; calls of one statement are one action. The contents of a strategy
are a count of edits. `lastRevoke`, `resumed`, `asked` and `undone` are history:
no guard reads them.

**Settlement.** `Chain == INSTANCE Vault` over the same variables: every step is one
of its actions or leaves the chain alone. `runner[r]` is the runner's handler for
a request and goes on after the API has given up (`LoseAnswer`). `OthersOnChain` is every
call of `Vault` that is not the browser's and does not use the cap of the setup: the owner issues, moves and
revokes further caps on the same vault, their holders withdraw, any address calls `record_spend` and `take_balance`.
In the API the owner has actions of its own, because the API's owner routes send no transaction.

**The pages.** `view` is a page's React state, `tables` the rows its requests touch, as
far as the page can tell them apart. `task[s]` is an async call in flight, with what it
has read so far; `Call` starts one, `Goto` is the next await, `Ends` its return.
Each await is two actions, the server's (`...Served`, `Read...`) and the page's (`...Answered`,
`Loaded`), so that others run between them. `RequestFails` and its kin are a rejected
`fetch`: before or after the server did its part. `past` is history, no guard reads
it but to bound how often something outside happens. React's rendering is modelled where
it decides something: what is a button and whether it is disabled, whether the dialog is on
the screen, an effect that runs again (`Rendered` in `AgentSetupPage`), an exception
thrown while rendering (`crashed` in `WalletSetupPage`). Values of fields are
abstracted to what the code tells apart: filled or not, a whole number or a fraction.
The pages know nothing of each other; another tab, where it matters, is an action that changes the
tables (`...Elsewhere`). In `SignInPage` leaving the page does not stop its calls, a full load does.
`SignInPage` models the API's side, `routes/auth/*.rs`, statement by statement too. `AgentPages` and `SessionPages`
instantiate the page modules over one set of variables, where `view.page` never changes: a run
checks all of its pages, one behaviour is of one page.

`SpendLedger` is instantiated twice. In `Vault` the payers are caps, the payment
is `agent_withdraw`, and the ledger is the open one, because `record_spend` on its own uses up budget that
no cap was charged (`Book`). In `Execution` the payment is the UPDATE of `vaults`, and
the cap's row follows.

## 3. Runs

| Run | Question | Instance | Result |
|---|---|---|---|
| `two_vaults` | Do withdrawals with a cap keep books, terms, budget, revocation and pause, whoever calls what in between? Can a cap charge a vault that is not its own? What can `record_spend` and `take_balance` change, called alone? Does the wallet implement the open ledger? | three objects: two vaults and a cap, or a vault and two caps with different terms; 2 users | holds |
| `linked_cap` | Does a debit of a vault need a linked AgentCap, as documented? | one vault, two caps | violated |
| `daily_limit` | Is `daily_spent` what was spent today, as documented? | one vault, two caps | violated |
| `concurrent` | Are the tables explainable under any interleaving, with a fault and owner calls? How far can concurrent requests overrun budget, cap and daily limit? | 3 requests, 2 at a time, 2 agents with a cap each on one vault, 1 owner call, 1 fault, 2 days | holds; by one transaction at most |
| `one_at_a_time` | Alone, are the limits exact, the ledger implemented, and does each request end? Does `daily_spend` add up when amounts are negative? | 2 requests, amounts -1, 1 and 2, 2 owner calls, 2 days, fairness | holds |
| `budget` | Is the budget validated atomically, as documented? | 2 requests | violated |
| `pause` | Does pausing the vault block withdrawals, as documented? | 1 request, 1 owner call | violated |
| `agent_lifecycle` | What do interleaved owner calls do to keys, policy, activation and revocation? | 4 calls of several statements, 2 short ones, 1 fault | holds |
| `edit` | Is an active strategy ever edited? | 3 calls | violated |
| `live_mode` | Do rows and the setup's cap stay reconcilable when answers are lost, each side is used alone, and others use the vault on chain? | 3 requests, 2 other calls, 1 fault | holds |
| `agent_pages` | Do the pages about agents and vaults survive overlapping calls, answers in any order, a failure and another tab, and does every click come to an end? | 2 or 3 calls in flight, 1 fault, fairness | holds |
| `session_pages` | The same for sign-in, pages of the server, demo page, wallet setup and the SDK's client, with reloads, changed accounts and tokens that expire | 2 calls in flight, 1 fault, fairness | holds |

The properties, by name:

- `SpendIsAccountedFor`: `total_spent` is never behind the sum over the caps (it may be ahead, by `record_spend`), and
  each cap's counter is the sum of its events.
  `WithdrawalsKeepTerms`: every event was within its cap's terms, cooldown from the
  last payment of the same cap included. `SpendIsDoubleEntry`: a step that changes an issued cap is one withdrawal: what is paid leaves
  the vault, enters the holder's purse and is booked on vault, cap and events at once, inside the budget in force;
  a counter that moves without a cap goes up and moves no money.
  `RevocationIsFinal`: a revoked cap is frozen. `MoneyIsConserved`, `PausedPaysOnlyOwner` say what their names do, of
  `take_balance` too. None of them says that money only leaves through a cap.
- `BooksAgree`: `vaults.total_spent`, `agent_caps.spent` and the withdraw rows differ by
  exactly the requests that are, or were abandoned, between two statements.
  Its last part, `DepositsCoverBalance`, and `SpendRowsAddUp` say likewise of deposits and `daily_spend`.
  `OutcomeMatchesMoney`: an approved row comes last; a blocked or held request
  never debits. `OverrunIsBounded`: all limits, up to one transaction per further
  request in flight.
- `RevokedAgentHasNoKeys`: the live keys of a revoked agent are those of calls that
  were about to insert one when its status changed. `RevocationHoldsUntilPause`: only
  `pause_agent` takes an agent out of `revoked`. `PolicyIsAsAsked`: a field is lost only
  through an update that read before and wrote after another.
  `ActivationNeedsStrategy`: only `resume_agent` makes an agent without strategy active.
- `DebitsWerePaid`: rows are debited after the chain paid. `PaymentsWereAsked`: the setup's cap pays each request
  that was submitted once, and nothing else. `BooksMatchChain`: its row, and the vaults row but for caps that exist in the
  tables only, are behind the cap on chain by what was paid and not booked; the Vault object is never
  behind its row by more. `ChainLimitsRows`: the row of the cap is not overrun. The first, second and fourth
  say nothing of what other caps and `take_balance` pay out of the same vault, of which the API never hears.
- `NoSecretOverwritten`: an issued secret whose answer arrived is on the screen before
  anything replaces it, although loads hide the dialog. `ListsAreFresh`: once nothing is in flight
  the lists of keys and of agents are the tables', unless a request failed, another tab was at work or
  loads overlapped. `StepsAreBacked`: the setup page offers to activate only an agent with a
  strategy, however old the answers are that set its step. `ButtonsKeepRevocation`: the panel never takes an
  agent out of `revoked`, with the same three exceptions. `DuplicatesAreExplained`: a second strategy
  or row comes of an answer that sent the page back, a lost answer, or a second submit that the page
  permits. `ClicksComeToAnEnd`: secret shown, buttons live again, strategy noticed, form back.
- `OneTokenPerNonce`: a signed nonce gives one token; if verifications that read it before the
  first marks it race, no more tokens than calls in flight, and the nonce is dead for every later one. `SessionIsOne`: cookie and local storage never hold two sessions, and the
  user shown is the token's unless calls of two sessions crossed. `PagesTellTheTruth`: an empty line
  of a page of the server is true of the tables, the panels of the overview agree, being
  sent to sign in means there is no session. `DetailIsBacked`: the dialog of the demo page
  is about a logged execution that was not approved, however the list under it is replaced. `RowsMatchObjects`: a row names
  objects of one wallet, and the vaults without a row are exactly as many as attempts that broke off in between, or still run.
  `TokenIsPutBack`: section 1, unless executions overlap.
  `PagesSettle`: the provider stops loading, and the demo page comes to show what the tables hold, and goes on showing it,
  whatever polls fail.

The properties of the last two runs are made of named parts, one for each page module;
the comment of each part names its exceptions, which are what the code permits. Where the exception is the hazard itself (lists
from overlapping loads, a button on an old status, a late answer of the provider, overlapping executions, an outage under the policies page) the property
shows that nothing else breaks the page; that the hazard does is under Observations, below.

`PROJECT.json` gives for each property a plausible slip of the code (the small
operators marked as slips in the modules) under which the run fails.

### Bounds, and why they are enough

Limits are chosen so that they bind: the budget admits one payment and not two,
or two and not three; in `one_at_a_time` the cap's limit and the daily limit are met by different
mixes of payments of 1 and 2, and -1 stands for the amounts that bypass the vault; one cap expires and one cools down while requests
are on their way. Two requests of one agent show every race between a read and a
write of the wallet; two agents with a cap each show that the bound on overruns
is of the vault, not of a cap. A race between two handlers and a fault in a third
needs three, which `concurrent` and `live_mode` have. In `two_vaults` at most three objects
exist at once: two vaults and a cap, or a vault and two caps; two caps on different vaults
interact no more than a cap and a vault it does not belong to. `MaxU64` is the largest budget there, so that
`record_spend` can use one up and overflow aborts; the amount of 0 is among those it is called with. Of the two caps there one has a limit below its
largest transaction, the other reaches its limit in two. Two days show the change of date between
check and booking. In `agent_lifecycle` four calls suffice for creation, a
revocation, an issued key and one more; a fault more would only cut calls short,
which stopping already does, because no property there needs a call to end.

A page has two calls in flight, which is every overlap of a pair; the setup page has three, since its loads never become fewer and two of
them must overlap with a handler. Two keys show one dialog replacing another, two agents one flag
serving two cards, two vaults a setup after one that broke off. One fault is at any await of
any call; what two would do beyond that, the loop of loads that dies, is an exception of
`StrategyIsNoticed` that names it. One nonce is read twice by an ordinary verification and by
one that is sent again. The demo page's window of 50 rows is one row of two executions, so that it
overflows. The demo page has one agent in the run: with two it takes several times as long and also
holds. `MaxExecutions` bounds the executions of each agent.
`agent_pages` has 302 thousand distinct states, `session_pages` 370 thousand, `two_vaults` 362 thousand, `one_at_a_time` 272 thousand, `concurrent` 2.4 million, `live_mode` 1.9 million.

Bounds that are only there for TLC: `MaxTime`, `MaxDay`, `MaxOwnerCalls`, `MaxOtherCalls`,
`MaxQuick`, `MaxFaults`, `MaxObjects`, `MaxSubmits`, `MaxLoads`, `MaxVaults`,
`MaxStrategies`, `MaxExecutions`, `Slots`, `MaxInFlight`. `MaxInFlight` also appears in a property
(`OverrunIsBounded`), as the number of requests that may be handled at once.
Symmetry is used over requests, calls, keys, vault ids and cap ids, where no
definition singles one out, and never together with liveness.

Where a system may stop because a bound is used up (all requests answered, all
calls made) deadlock is not an error and the configuration says so. The runs of
`MCVault` check it: the chain can always take a step.

### Fairness

`one_at_a_time` claims that every request ends (`RequestsEnd`), under weak
fairness of each request's handler. Tokio polls every task that is ready, and
each await of a mock-mode request returns: a query with rows or an error (the pool
gives up on a connection after 30 s, `db.rs:10`), the risk client with an answer or
its fallback after 10 s (`risk_client.rs:17`), the price feed and the audit copy at
once, since both stay in the process. There is no claim
that a request gets past authentication, for which it may have to wait for a
connection. The two runs of the pages claim that a click comes to an end and that pages settle, under weak
fairness of each call's `Progress`: the server answers what was asked and the browser runs the
callback of an answer that has arrived. The demo page's timer is part of it, since
`setInterval` goes on until the page is left. Nothing is asked of the user: no
fairness on clicks, signatures, or the wallet. A request may fail instead, at most `MaxFaults` times, and the
claims hold then too. Live mode makes no such claim: the client for the chain runner
(`services/wallet.rs:21`) is built without a timeout, so nothing in the code ends the
wait for an answer.

## 4. Proofs

All theorems hold for every choice of the constants that satisfies the named
assumptions of the module: `ConstantsAssumption` (Vault), `SettlementAssumption`
and `ChainAssumption` (Settlement), `RegistryAssumption` (Registry; `Null` stands for an
absent row, so it is no value, call or policy), `ExecutionAssumption` (Execution),
`AgentAssumption` and `SessionAssumption` (the pages). TLC evaluates
them in every run. They say that the bounds are numbers, that null and other marks differ from the values they stand
in for, and that what is added up is finite: the ids of caps and the requests. A pipeline handles one request at a time
or more (`MaxInFlight`) and has a first day; the table of an agent has room for a strategy (`MaxStrategies`).
One theorem has hypotheses of its own: `OneAtATimeImplementsLedger` is about
`MaxInFlight = 1` and `MaxFaults = 0`, the values of the run `one_at_a_time`, since the run `budget`
refutes the ledger for two at a time.

**Sums.** The books of the wallets are sums over a set that a step changes by one element.
`SumFunctionOnSet` folds the set in an order that is not specified, so the first thing to know is that
the order does not matter. `SumLemmas` proves it: there is a function that gives each subset of a
finite set the sum of its elements whichever is taken out first (`SumExists`), the fold is that function
(`SumsAgree`), and from there an element may be taken out, put in or changed (`SumRemove`, `SumAdd`,
`SumUpdate`), a sum split in two, compared with a larger one and bounded by the number of its elements (`SumSplit`, `SumMonotone`,
`SumBounded`). The library states induction for an operator as parameter, which the
provers cannot instantiate; here it is about a set (`NatSetInduction`, `SubsetInduction`), from the
well-foundedness of `<` on `Nat`.

**Vault.** `VaultTypeCorrect` is type correctness, one lemma for the owner's calls
and one for `agent_withdraw`, where balance and counters could go below zero.
`CapTermsAreKept` (`WithdrawalsKeepTerms`) is not inductive: that an event respected
the cooldown depends on `last_action_ms` being the time of the latest event of that cap.
The inductive invariant is

    IInv == TypeOK /\ BlankUntilCreated /\ BlankUntilIssued
              /\ LastActionIsLatest /\ WithdrawalsKeepTerms

`BlankUntilIssued` is needed since a cap id that is not in use yet could otherwise
carry a `lastAction`; `BlankUntilCreated` is its twin for vaults. A step either appends
one event (lemma `WithdrawalKeepsTerms`) or spends nothing
(`NothingSpentKeepsTerms`); lemma `SpendOrNot` is that case distinction. `SpendingIsDoubleEntry` rests on two more,
of the caps (`CapsChangeOrNot`) and of the counters (`SpentChangesOrNot`: a withdrawal, or `record_spend`). `RevokedCapsStayDead`, `NoMinting` and
`PauseBlocksAgents` are action properties proved action by action from `IInv`.
`VaultImplementsLedger` maps initial states to initial states and every step to a
payment, an admission, a change of budget, a use of budget without payer or a stutter of the open `SpendLedger`.
`SpendIsAlwaysAccountedFor` is inductive with `IInv`: only `create_agent_cap` and `agent_withdraw` change a cap
(`CapsChangeOrNot`), the first adds one that has spent nothing to the sum of its vault, the second an
event and the same amount to one cap and its vault; `record_spend` only lets the vault's counter run ahead of the sum.
No theorem says that money leaves a vault through its caps alone: `take_balance` refutes it (run `linked_cap`).

**Settlement.** `LiveDebitsWerePaid` is `DebitsWerePaid` for any number of requests.
Its invariant is `HandlerInv`: per request, what its stage says of the runner
(`Asked`): a handler past `posted` with an object behind its cap has an
executed transaction. `OneRequestMoves` reduces a step to the one request it
concerns. The lemma `ChainFollowsVault` shows that every step is a step of `Vault` or leaves
the chain alone, so the theorems of `VaultProofs` hold of the chain part;
`LivePaymentsKeepTerms` carries `CapTermsAreKept` over.
`BooksInv` gives each of three records its own sum: the vaults row over the requests that debited it, the row of the cap over those
that charged it, and the counter of the cap on chain over those the runner has executed. What others do on chain changes none of the
three (`OthersStep`) and never takes back what the Vault object has counted (`CapTerms`). One lemma
per step that moves one of these sets, one for the steps that move none. The differences that
`LiveBooksMatchChain` states are differences of these sums, once `HandlerInv` says which set contains which;
`LivePaymentsWereAsked` counts, by action and amount, instead of adding. `ChainAlwaysLimitsRows` follows: what was charged to the cap
was executed, amounts are not negative, and `CapTermsAreKept` keeps the counter on chain below its limit.

**Execution.** `ExecutionTypeCorrect` is not inductive alone: `vaults.total_spent` is raised
by an amount that may be any integer, and stays a natural number only because a request that
reaches the vault passed the gateway's `amount > 0`. `AnswersMatchMoney` (`OutcomeMatchesMoney`) needs to know
what each stage has written. Both rest on

    IInv == TypeOK /\ \A r \in Requests : Consistent(r)

`Consistent(r)` relates the stage of a request, running or abandoned, to its rows: no cap before
`ReadCap`, a positive amount from `Dispatch` to the charge, a withdraw row from `RecordWithdraw` on if there is a cap,
no `executions` row before the end. `OneRequestMoves` reduces a step to one request; there is one lemma for the
statements that read, one for those that log, one for those that pay and one for the owner.
`DepositsAreKept` adds the part of `BooksAgree` that is about deposits.

`StepsAre` sorts every step by what it does to money (an owner's step, or a handler that `Stops`, `Passes`, `Debits`, `Charges`
and so on), and the sums rest on this list of cases: `VaultBook`, `CapBook` and `RowBook` give `BooksAlwaysAgree`, `DayBook` gives
`SpendRowsAlwaysAddUp`. `OverrunIsAlwaysBounded` is not inductive at all: a request that has passed a check
will book its amount later, when others may have used up the room. `RoomInv` counts it
from the check on:

    vault.totalSpent + what is due from requests past the check
        <= Budget + (MaxInFlight - 1) * MaxPerTx

and the same for balance, caps and days. When a request passes a check, what others have due is at most one
transaction each (`DueIsBounded`); when it books, the sum moves from one summand to the other
(`DueIsPaid`); midnight finds the new day's row empty (`DaysToCome`). In a sum of what is due a negative amount counts as
nothing, since it makes room for nobody whose check is still to come. The proof
corrected the property: where one transaction may be larger than the daily limit, a
negative amount lowers `daily_spend`, lets a request of more than the daily limit pass, and
this one may be booked after midnight, on a row without the negative amount; hence `DayRoom`.

`OneAtATimeImplementsLedger`: with nobody else in flight the rows that were read are still the rows that are written, so the UPDATE
of `vaults` is a payment of the ledger (`RoomInv` with nobody else in flight), and every handler that debited charges (`HandlersFinish`), so the
ledger's `paid` is the sum of the debits of a cap.

**Pages.** One page is on the screen and only that one acts, so the invariants of the compositions, `AgentInv` and
`SessionInv`, are the disjunction of the invariants of their pages. For each page there are lemmas `...Starts`, `...Moves` and `...Promises`; the
theorems about `Spec` are at the ends of `AgentPagesProofs` and `SessionPagesProofs`. All invariants and all action properties
of the two runs are proved, for any number of rows and of calls in flight. What each page's
invariant adds to its types:

- Keys, `SecretsAreAlwaysSeen`: a secret may be replaced unseen only if a handler that
  issues one runs while a load hides the dialog. It cannot: the secret in `newKey` is shown, or it is that of
  the one handler whose `issuing` flag disables the button (`KeysShownIsRevealed`, `KeysOneIssue`, `KeysNothingToLose`, `KeysKept`).
- Keys, `ListsAreAlwaysFresh`: undisturbed, there is one load at a time and what it has read is the table's list,
  or a handler has written and will load (`KeysFresh`).
- Control panel, `ListsAreAlwaysFresh` and `ButtonsAlwaysKeepRevocation`: undisturbed, one call is in flight and until it is served
  its button is one that the table offers (`ControlInStep`), so a pause meets an active agent.
- Setup, `StepsAreAlwaysBacked` and `DuplicatesAreAlwaysExplained`: what a load has read is not more than there is, and a
  strategy that is there is on the page or its answer is on the way, unless an old answer or a
  failure came in between (`SetupNoticed`); so the save button is gone when there is one (`SetupGood`).
- Forms, `DuplicatesAreAlwaysExplained`: rows and requests to be served are no more than submits, and a submit is the first
  of its visit, follows a failure, or is one of those counted as coming too late (`FormsCounts`).
- Sign-in, `NoncesGiveOneToken`: unless raced for, a nonce has one verification between read and update, and no token yet; raced for,
  its tokens and the verifications still under way are no more than the slots (`NonceInv`). `SessionIsAlwaysOne`: the cookie is the stored token (`Agree`); while no calls
  cross there is one, and it asks about the token that is kept (`OneSession`).
- Pages of the server, `ServerPagesAreTrue`: what a render has read is what the tables hold, unless rows changed, and
  rows only come together that are made together (`ReadTruly`, `RowsGoTogether`).
- Demo, `DetailIsAlwaysBacked`: tables grow, so what a poll has read stays a part of them (`PollKnows`, `RowsRead`), and an alert is that of a
  blocked execution (`Blocked`), so what any of the buttons opens was not approved.
- Wallet setup, `RowsAlwaysMatchObjects`: `WalletObjects` follows the objects from the answer to the first transaction
  (`OneVault`, in either order) over the second (`CapOfWallet`) to the row. That no vault is lost
  unexplained is counting, as an equality: vaults without a row are exactly those of attempts that broke off after the first
  signature and before the row, and of the one that runs (`Counts`, `OneAttempt`).
- SDK client, `TokenIsAlwaysPutBack`: a call that executes holds the token it took (`TokenIsKept`).

**Registry.** All five properties of `agent_lifecycle` are proved. Type correctness is not
inductive alone: `update_policy` writes a complete row only if it read one. The invariant is

    TypeOK /\ CreatedOnce /\ CallsKnow

`CallsKnow` says what a call between two statements may rely on: a policy it read is there
and, unless marked stale, still the current one; a strategy it counted still exists.
`CreatedOnce` is needed because the first policy row would otherwise make a read stale
unmarked. On these rest `RegistryTypeCorrect`, `ActivatedWithStrategy` and, with
`AskedFromTheStart` (no field was asked for before the row is there), `PolicyAsAsked`.
`RevocationRevokesKeys` adds `RevocationUnderWay`: while the agent is revoked, the call that
revoked it is at one of its later statements or over, and the calls still about to
insert a key are among those noted when the status changed; it holds because `issue_key` asks
for the status before it becomes one of them. `RevocationHolds` needs no invariant: every
update but those of `pause_agent` and `revoke_agent` has the status in its condition.

**Only model-checked.** Liveness under fairness (`RequestsEnd`, `ClicksComeToAnEnd`, `PagesSettle`), which is out of the
provers' reach. Everything else that a passing run checks is a theorem. The five runs that refute a document
are counterexamples and have nothing to prove.

## 5. Where code and documents differ

Five runs check what the repository says of itself and find a counterexample; the
findings of `PROJECT.json` quote the lines.

1. `linked_cap`: `take_balance` is public and asks for no capability (`vault.move:159`), so a debit does not
   require the linked AgentCap that `README.md:269` and `docs/architecture.md:48` name.
2. `daily_limit`: `daily_spent` of an AgentCap is never reset (`agent_cap.move:99`), so
   the "daily spending cap" of `docs/wallet-design.md:36` is one for life.
3. `budget`: `agent_withdraw` of the API compares the row it read and updates without a
   condition (`wallet.rs:266`, `:285`); two requests overrun the budget that
   `docs/wallet-design.md:42` says is validated atomically.
4. `pause`: the API never compares the vault's status (`wallet.rs:262`);
   `docs/wallet-design.md:44` and `:61` say that a paused vault blocks withdrawals.
5. `edit`: `update_strategy` compares the status it read and updates by id
   (`strategies.rs:97`), so the strategy it says cannot be updated while active is.

### Observations

Things a reader of the models should know; they are in the models where the part
is modelled, and no run is made of them.

- Beside `take_balance`, `record_spend` is public and asks for nothing (`vault.move:155`): a vault's `total_spent` may run ahead of
  what its caps charged, up to the budget and beyond, when `agent_withdraw` refuses every cap. Only
  `agent_cap.move:98` and `:101` call the two, so they need no more than `public(package)`. In live mode neither shows in the rows of the API.
- `deposit` on chain asks for no `OwnerCap` (`vault.move:90`); `docs/wallet-design.md:28`
  says the OwnerCap gates it.
- A request reads the agent's status before several awaits
  (`execution_service.rs:22`) and is not affected by a revocation after that;
  `README.md:270` describes revocation as immediate.
- An error of the gateway returns before anything is logged
  (`execution_service.rs:190`): a request refused by the wallet leaves no row.
- A handler that ends between the updates of `vaults` and `agent_caps`
  (`wallet.rs:293`) leaves the cap's `spent` behind; `BooksAgree` says by how much.
- A failed lookup of the cap counts as "no cap" (`execution_gateway.rs:32`): the
  request is approved without the vault.
- The API's deposit, cap and pause routes change rows only; in live mode rows and chain
  part at each such call. `BooksMatchChain` states what of it touches spending.
- `pause_agent` accepts a revoked agent (`agents.rs:134`), and `resume_agent` then makes it
  active, with its keys still revoked until a new one is issued.
- `resume_agent` makes active an agent that was never activated and may have no strategy,
  while `activate_agent` asks for one (`strategies.rs:146`).
- `activate_agent` of a revoked agent answers 404 after its drafts have become active.
- `deactivate_agent` pauses the strategies and no route turns them back: after the next
  activation the agent is active and its old strategies are not.
- `create_agent` may end before the policy row; no other route makes one, and the
  pipeline refuses an agent without.
- Verifications that read a nonce before the first marks it all issue a token
  (`verify.rs:38`): the UPDATE does not ask that `used_at` is still null.
- Loads of the keys page and of the control panel overlap, and the answer that comes last is shown, an older one too
  (`keys/page.tsx:50`); the next load corrects it.
- The answer about the token of an earlier visit may come after a new sign-in (`AuthProvider.tsx:35`): the console then names the earlier owner until the
  next load, or the new token is cleared and the owner has to sign in again.
- A policy that cannot be read is left out of the list (`policies/page.tsx:14`), so an outage reads as "no policies".
- Overlapping executions of one client object leave `userToken` undefined
  (`shield-sdk/src/index.ts:69`): the second takes, and puts back last, what the first had removed.
- The effect of the agent's setup page depends on two clients that are made in every render
  (`agents/[id]/setup/page.tsx:40`): each load that ends starts another. The step with the list of vaults
  is left as soon as the list is not empty, so the owner never chooses one.
- `/control` has one `loading` id for the page: whoever ends clears it, also another's, and a pause from a button on an old status takes
  an agent out of `revoked` (`agents.rs:134`).
- A fraction in a limit passes the setup form, and `BigInt` throws between the two transactions
  (`wallet/setup/page.tsx:105`), when the vault is signed and funded; a fraction in the deposit throws while
  rendering (`FundsPermissionStep.tsx:31`). An empty limit is `Number('')`, which is 0.
- The vault page says "This vault does not exist or you do not own it." of any failure
  (`vaults/[id]/page.tsx:126`), the redirect to the sign-in page included, which Next throws.
- The demo page waits for a digest that starts with `0x` (`sui-network.ts:58`), and digests of Sui are
  base58, so its note about the first transaction does not go away.
- `services/wallet.rs:21` builds the runner's client without a timeout: in live mode a request waits as long as
  the connection stays.
- The gateway asks only that an amount is positive to use the vault (`execution_gateway.rs:26`): a
  negative one passes the firewall, is settled without the vault and lowers `daily_spend`. With
  `max_transaction` above the daily limit, a request may then spend more than the daily limit,
  and is booked on the next day if midnight falls before `record_spend`.
- `price_feed.rs:103` adds the volumes of eight bars and divides by 7.
- `demo_runner.rs:181` binds text to the enum column `approval_mode` without the cast other
  statements have, so a demo scenario that sets the mode fails at its first statement.
- A capability made by `create_agent` lists no assets (`agents.rs:63`, the column defaults to
  the empty array), and the firewall asks that the asset be listed (`firewall.rs:93`): every
  request is blocked until `create_capability` adds a row that lists it.

## 6. Not modelled, and the plan

Done, in this order: `SpendLedger` and `Vault`, since the chain is the last authority on money; `Execution`, where
most of the hazards are; `Settlement`, the composition of API, runner and chain; `Registry`; then the sign-in, the console's
pages and the SDK's client, which is where answers are applied out of order; and the proofs.

What could follow:

1. `DemoRunner`: the loop that runs scenarios through the pipeline, at most one per agent. Its executions are
   requests of `Execution` already, without authentication; its update of `approval_mode` fails
   (section 5), and where it did not it would be `SetApprovalMode`. What is left is its cursor and its set of running agents.
2. `Firewall` and `Scoring`: the pure checks and scores (`firewall.rs`, `deterministic.py`, `risk_client.rs`, `price_feed.rs`) as
   operators over bounded inputs: the thresholds of engine, fallback and firewall against each other. In
   `Execution` the verdict is a free choice, so nothing there depends on it.
3. `ShieldContracts`: agent, capability, policy and log objects on chain. No code in the repository
   submits these calls.

Left out for good: encoding of tokens, signatures and object ids; the audit copy
(a made-up blob id written to the approved row, nothing depends on it); routing, configuration and
start-up; row and message types, which the modules state as the records they use; figures,
wording and layout of the pages, the landing page with its waitlist form, the clock of the top bar; `FRXWallet`,
which only sends requests and keeps its token, and the DeepBook draft builder, which keeps nothing.
