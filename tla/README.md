# VANTA: a TLA+ verification of the lender

VANTA is a lender that runs inside a TEE. Borrowers pledge Polymarket outcome
tokens on Polygon; the runtime quotes, originates and settles USDC loans on
Base; every decision is recorded in a signed, append-only event log that anyone
can verify. This directory holds TLA+ models of that system, TLC configurations
that check them on small instances, and TLAPS proofs of the results that matter
most for every instance.

Contents: 1 the system · 2 the plan · 3 modules and code · 4 what the runs check
· 5 what is proved · 6 disagreements found · 7 what is left out.

## 1. The system

### Components

| Component (source) | State it keeps | Operations | Interacts with | What makes it correct |
|---|---|---|---|---|
| **LpVault** `contracts/src/LpVault.sol` | USDC held, vLP shares, wired and pending LoanBook | ERC-4626 deposit, mint, withdraw, redeem; two-step wiring; `drawFor` | LoanBook (reads `outstandingPrincipal`, is drawn by it), USDC | USDC leaves to redeeming LPs or into one new loan only; the share price falls by write-offs and re-wiring only |
| **LoanBook** `contracts/src/LoanBook.sol` | loans by id, `outstandingPrincipal`, fee and receiver | fee administration, wiring, `originate`, `markRepaid`, `markLiquidated` | LpVault, the origination key of the runtime | the hand-kept counter is the sum over open loans; a loan runs once through its lifecycle |
| **VantaVault** `contracts/src/VantaVault.sol` | registered ConditionalTokens contract, ERC-1155 balances | register, receive hooks, `release`, `liquidate` | pledge watcher (its transfers), admin | collateral enters from registered contracts only, leaves by the two admin calls |
| **AgentPoolVault, PositionBook** `contracts/src/` | USDC, shares, cap, position value; positions, notional, cost, proceeds | capped ERC-4626, wiring, marks; `open`, `close` | each other, the relayer key | counters agree (I-PB-3), ids run once (I-PB-1), the cap holds (I-AP-4) |
| **AgentRegistry, AgentFactory** `contracts/src/` | agents, bonds, operator and pool indices | register, pause, list; deploy pool, book and agent | operators, AgentPoolVault, USDC | a bond per agent, indices that agree, a triple that is wired |
| **OperationalCap, VendorPayment** `contracts/src/` | USDC paid per calendar week, an immutable cap | `pay` | payouts | no week exceeds its cap |
| **Event log store** `runtime/src/events-store.ts` | `events.log`, `events.idx.json`, in-memory index and size | bootstrap, append, getById, walks | every component that signs | an acknowledged event is never lost, never read wrong, written once |
| **Pledge watcher** `runtime/src/services/pledge-watcher.ts` | `seen` keys (cap 4096), calls in flight | live subscription, sweep, replay, handleLog | Polygon, markets cache, event log | a transfer is pledged exactly once, and only if it is there |
| **Origination** `origination/src/`, `runtime/src/http/routes/origination.ts` | one request: quote, transaction, receipts | POST /api/origination | event log, LoanBook, registry | what it signs is final and cites a signed pledge |
| **Settlement, loan registry, settlement watch** `runtime/src/services/settlement.ts`, `loan-registry.ts`, `runtime/src/loops/settlement-watch.ts` | registry of active loans; `seen` maturities | POST settle, add / remove / hydrate, tick | LoanBook, event log, mark loop | the registry holds every loan open in the log; a closing event tells what the chain did |
| **Vendor payouts** `runtime/src/services/payouts.ts`, `payouts-history.ts`, `vendor-payment-client.ts` | the tick in progress; its history is the event log | tick: gas refill, pay vendor; approve, pay, outflow and trace | VendorPayment, treasury account, event log | an event is of one mined payment, one failure hides one payment, the rolling cap holds although the log lags |
| **x402 services** `runtime/src/services/x402.ts`, `x402-client.ts` | calls in flight (the used nonces are USDC's) | challenge, verify, settle, log, serve | USDC, treasury account, event log | who is charged is answered; a transfer is logged once |
| **Treasury ledger** `treasury/src/` | balance per source, applied events | apply, rebuild, reconcile | event log, chain balance | rebuilt = incremental; sums match |
| **Pledge library** `pledge/src/` | reorg watchdog | observe, finality, fallback | Polygon | an unfinal pledge is retracted |
| **Mark service** `mark/src/`, `runtime/src/services/mark-loop.ts` | a poller per loan, its failure state | tick, fetch, average, emit; start and stop by registry change | CLOB, registry, event log | pollers go on; one gap per outage; a mark is the average it claims to be |
| **Haircut and quote** `haircut/src/`, `runtime/src/services/quote.ts` | none | compute | origination | bounds and monotonicity of the haircut |
| **Agent loops** `runtime/src/loops/` | last decisions, budgets | credit, operational, trading ticks | model, log, caps | gates before effects |
| **Constitution, events** `constitution/src/`, `events/src/` | none | validate, canonicalise, hash; search for the genesis | all signers | pure data; the search's report is exact |
| **Verifier** `verify/src/` | queue, visited set, errors | walk parents | served log, LoanBook | accepted means: the whole ancestry was verified |
| **TEE identity** `tee/src/` | keys derived at boot | attest, derive, sign | KMS | cryptography |
| **Venue adapters** `venue-poly/src/` | none | encode, read | Polymarket | stateless |
| **Bootstrap and HTTP** `runtime/src/bootstrap.ts`, `main.ts` | wiring | boot | all | modelled with the parts it starts |
| **Front ends** `web/`, `game/` | view state | render | HTTP | presentation |

### How they interact, and where it is hard

A loan is written to three places that fail independently: the LoanBook on
Base, the log on disk, the registry in memory. Its collateral is seen on a
fourth, the Polygon chain, through a subscription that drops logs, a periodic
sweep that repeats them and a replay at boot. The runtime is one Node.js
process: code between two awaits is atomic, everything else interleaves, and
the process can be killed anywhere, leaving sent transactions behind. The hard
behaviours are therefore

* concurrent requests that act on a status read before their awaits,
* reorganisations between two reads of the chain,
* kills and torn writes in the middle of an append, and appends that reject after
  their line is in the log,
* duplicate deliveries against a bounded memory of what was seen,
* counters the contracts keep by hand across many legal calls, partial
  recoveries, fees, donations, rounding, and re-wiring to a successor contract,
* payments whose wait ends before they are mined, against a cap that is read off
  a log the payment has not reached yet, and that other services append to with
  stamps from before their own waits,
* timers and listeners that overlap: a poller in flight when its loan closes, a
  watch tick that starts before the last has ended,
* walks over a graph whose branches join, with calls that fail half way.

`PROJECT.json` lists each at its line ("hazards"), with the properties that
would catch it.

## 2. The plan

Order: money first, then the record, then the services around them.

| # | Modules | Status |
|---|---|---|
| 1 | `Erc4626`, `LpVault`, `LoanBook`; abstract `LpClaims`; composition `Lending` | done, proved |
| 2 | `EventStore` | done, proved |
| 3 | `PledgeWatcher` | done, safety proved |
| 4 | `AgentPool` (second user of `Erc4626`); its refinement `AgentClaims` | done, proved |
| 5 | `LoanPipeline`: the two loan routes over chain, log and registry | done, proved |
| 6 | `Payouts`: the treasury's tick, VendorPayment, the rolling cap read off the log | done, proved |
| 7 | `PaidServices`: x402 from challenge to handler | done, proved |
| 8 | `Twap`, `MarkFeed`: pollers, registry listener, maturity watch | done, safety proved |
| 9 | `EventGraph`, `ChainWalk`, `GenesisSearch`, `Verifier` | done, safety proved |
| 10 | `AgentRegistry` with the factory; `CollateralVault` (VantaVault) | not started, see section 7 |
| 11 | `Treasury` (the library's ledger), `ReorgWatchdog` (pledge library), the loops' gates | not started, see section 7 |

Abstract specifications: `LpClaims` is what holders of a pool's shares are promised.
`Lending` implements it, and so does `AgentPool` as long as the owner marks nothing
(`AgentClaims`). `Twap` carries its own reference, the integral of the price in force
second by second, and `EventGraph` that of both walkers, the ancestry as the least
set closed under parents. Worth stating next: an *append-only log* that
`EventStore` implements when no call fails.

Theorems: every invariant and action property of a passing run has one. To come: the
append-only log as an abstract specification of the store, and of `LoanPipeline` the
story of one loan (quote, open, closed) as a specification it implements.

Rules all modules follow: parameters are CONSTANTS with a named assumption; one
action per operation, ending where the code awaits (TypeScript) or returns
(Solidity); invariants are conjunctions of named parts; no RECURSIVE operator.
Every bound on a counter is a constant named `Max...` and appears in a guard.
A definition preceded by "Mutant:" is a plausible bug, not part of the model: it
shows that the property named with it in `PROJECT.json` can be broken.

## 3. Modules and code

### Sums, SumsProofs
The total of a function over a finite set, defined by counting pairs so that it
can be proved about with the library's cardinality theorems: how it changes when
one value does (`TotalUpdate`), how it grows with the set (`TotalMono`, `TotalAdd`),
when one sum bounds another (`TotalInject`), that names do not matter
(`TotalRenamed`), what a constant adds up to (`TotalConst`), and that a sum may be
taken group by group (`TotalGrouped`). `SumsProofs` also holds the algebra of prices
that both pools use, and that a finite set of numbers has a largest element.

### Erc4626, LpVault, LoanBook, Lending, LpClaims
`Erc4626` is the token side both pools share: USDC balances of every account,
share balances, supply, the two roundings. It is OpenZeppelin's code, not the
repository's, and marked external. `LpVault` adds the wiring (`loanBook`,
`pendingLoanBook`), `TotalAssets` = cash + the *wired* book's counter, the four
entry points and the guard of `drawFor`. `LoanBook` has one action per
transaction, over several books because the vault can be re-wired while loans of
the predecessor are open. A transaction that would revert is disabled; both draws
of `originate` are one step, each with its own balance check.

`LpClaims` is the promise to LPs: trades never below the price, lending turns
cash into as much debt, recovery ends a debt, re-wiring moves no cash. `Lending`
maps the implementation to it: `cash` is the vault's balance, `debt` the
principal of the active loans *of the wired book* — so the mapping holds only if
the counter really is that sum.

Abstracted: allowances (a transfer needs the balance only), borrower, fee
receiver or escrow equal to the vault itself, ownership rotation (one admin),
attestation and parameter hashes, maturity (never read by the contract).
A proposal names a deployed book or none. `VirtualShares` is a constant: the code
uses 10^6, TLC 2, the proofs any positive number.

### EventStore
The log is a sequence of cells, one per byte of a record, so torn records and
glued records are what they are on disk. `append()` is cut at its system calls:
`AppendNew`, `Write`, `IndexLine` (after fdatasync), `Truncate` and `Flush` of
the index file. Only a kill comes in between, because every call in it is
synchronous: `Crash`, `CrashInWrite` leave any prefix; `ShortWrite` and
`CallFails` reject the append in a process that lives on. `BootLoaded` and
`BootRebuilt` are the two branches of bootstrap. `Walked` and `GetById` are what
readers see. Kills are of the process, not of the machine (the index file is
never synced). An entry's length is that of its body; listeners are left out.

### PledgeWatcher
`Grow` and `Reorg` are Polygon; a transfer may be mined again at another place.
`Live`, `Sweep` and `Replay` deliver a log; taking it up marks the key before the
first await, as handleLog does (`Mark`, which may evict the oldest key); `Emit` and
`GiveUp` are its second half after waitForConfirmations. `waiting` counts the calls
between the two halves by the log they were given: nothing in the code joins two of
them, so a key evicted under a waiting call lets in a second one, and each appends an
event of its own. `orphaned` remembers the calls whose log was replaced during
their wait. An append that rejects with its event written is `Emit`, because nothing
depends on how it resolves. `RefreshMarkets` is the cache's look-up of a token, without
which a log is skipped unmarked. `Restart` loses memory. Left out: diagnostics,
undecodable logs and logs flagged `removed`, which the code does not look at.

### AgentPool, AgentClaims
AgentPoolVault and PositionBook, several books of one vault; `marks` counts the
owner's overrides of the position value so that properties can say "unless
marked". The relayer is neither an LP nor a donor: what it does on the venue
between `open` and `close` is outside, and a close pays the proceeds named.
`AgentClaims` maps the pool to `LpClaims`: `cash` is the vault's balance and `debt`
what each open position cost, in whichever book. No counter of the code is used, so
the mapping holds only if `openPositionsValueUsdc6` is what it should be. It speaks
of every step up to the owner's first mark, a discretionary write-up or write-off.

### LoanPipeline
The chain is a sequence of blocks with at most one of the runtime's transactions
each; `fork` tells blocks of different reorganisations apart, as their hashes do.
The status the LoanBook answers is derived from it. A request is named by the
loan id it draws (origination) or by itself (settlement), and `step` is the await
it stands at:

| step | code |
|---|---|
| `quoting` | route awaits `quote()` after the pledge look-up |
| `searching` | settle() has read `loans(id)` and looks for the origination event |
| `polling` | transaction sent, receipt awaited |
| `head` | receipt read, `getBlockNumber()` awaited |
| `reread` | origination only: the receipt awaited a second time |

`RecordOrigination` and `RecordSettlement` run from that answer to the end of the
request in one turn: sign, append, registry. `GiveUp` stands for every error exit;
it never recalls the transaction. `Crash` also stands for an append that rejects
during an origination: the route drops the promise (`void log.append`), and Node
ends the process on the unhandled rejection; if the line was written, it is
`RecordOrigination` and then `Crash`. The closing event's append is awaited,
and may reject with its line in the log (the flush or the index rewrite failed, as in
`EventStore`): `StrandLoan` is that case, in which the loan stays registered, and
`unremoved` remembers it until the next boot or another settlement of the loan. An
append that wrote nothing is `GiveUp`. `abandoned` remembers the requests that
an error or a kill cut off while a transaction of theirs was out. `Reorg` never drops
a block that has been `FinalityDepth` deep — the assumption the depth is chosen for. That makes
`OriginationsAreFinal` a statement about the protocol of reads, not about luck.

The registry's other users, the mark pollers and the maturity watch, are in
`MarkFeed`.

### Payouts
The runtime's side and the contract's, in one module because the cap of each is
checked against what the other has made known so far. `turn` is the subroutine
that `runTick` awaits, `step` the await it stands at:

| step | code |
|---|---|
| `decide` | reads of balances, of the contract, of the log (`walkPayouts`) |
| `send` | decided; the allowance is read |
| `approving` | `approve` sent, receipt awaited |
| `paying` | swap or `pay` sent, receipt awaited |
| `trace` | outflow appended, the trace that gives it its bucket is not |

`Mine` executes the treasury's transactions in nonce order, whenever it likes;
`Hour` moves the clock of chain and runtime, between ticks and during a wait.
`Skip` stands for every gate that skips, every call that throws and every wait that
times out, because all of them end in `run()` and the next bucket; a failing trace
of the skip itself ends the tick. `failures` counts the waits, appends and lives that
ended with a payment in hand. `Recent` joins outflows and traces as `walkPayouts`
does, and its window is closed at both ends, as `ts < since` leaves it. The walk goes
from the tip of the log and *stops* at the first event older than the window
(payouts-history.ts:67), whoever wrote it. The other services' events are not all in
the order of their stamps: `originate()` takes its timestamp at line 249 of
orchestrate.ts and appends after a wait of up to two minutes, and `op.inference`
carries the time its request started. `OtherEvent` appends such an event, stamped up
to `Lag` ago; `others` keeps of it how many outflows lie before it. The
treasury's own events are stamped when they are appended. Left out:
the treasury's balance (short, it is a skip or a revert), the swap's quote and
slippage, watermarks. `OperationalCap` is the same contract under another name and
has no caller in the repository.

### PaidServices
A call goes through `idle`, `challenged`, `presented`, `verified`, `settling`,
`settled`, `handling` to an answer; `header` is the authorization it carries, which
may have been sent before. `Verify` does not test the nonce: the read is optional in
the code, and what it read may be stale at the next await. `Submit` does: viem
estimates the call before signing. The receipt's status plays no part, as in
`settleOnChain`. An inflow append that rejects with its line written is `Log`: the
call is served either way. `mishaps` and `unlogged` remember the calls cut off after their
submission, failed by their handler, or whose event could not be appended. The
client (`fetchWithX402`) is written but not called by the runtime; both sides are
modelled together because the nonce is what they share.

### Twap, MarkFeed
`Twap` is the arithmetic of a mark: first listings kept, stable sort by time,
clamping, segments. Prices and times are integers, so the average is a fraction;
the code's floating point is not modelled. `MarkFeed` has one action for each await
of a poller (`Tick`, `FetchOk`, `FetchFails`, `Emit`, `EmitFails`) and of the
maturity watch (`WatchTick`, `Look`, `Traced`, `TraceUnmarked`, `TraceFails`), the
registry's listener (`Add`, `Remove`), and `Boot` and `Halt` of the process. An
append can reject with or without its line in the log, and where the code depends on
it there is an action for each: `Strand` writes the closing event and leaves loan
and poller where they are; `TraceUnmarked` writes a trace and does not mark the
loan, so that a later tick traces it again; `TraceFails` writes nothing. To a poller
the two are alike, since its failure state is set before the append (`Emit`). The
log is kept as the counts the properties ask for (`late`, `gaps`, `traces`). `late`
and `traces` belong to the log and survive a stop; `gaps` and `told` start again with
the memory they are measured against, `failureState` and `seen`. A mark and a sparse signal are
both an observation; `Valid` says which.

### EventGraph, ChainWalk, GenesisSearch, Verifier
`EventGraph` is the log as a graph, with the ancestry as the least closed set: the
reference both walkers are held to. An event is its type, its parents, and three
facts about it (the signature verifies; the loan book holds its parameters; its
constitution is the one served). `ChainWalk` is `walkChain`, one action per way
through its loop; `GenesisSearch` is `verifyTransitiveGenesis`, which may not fail
but stops at the first thing wrong. The queue is a sequence of sets: first in first
out between events, any order among the parents of one, which the code takes from a
list whose order says nothing. The genesis fetched a second time is the one fetched
first, or the call fails. `Verifier` puts both over one log.

## 4. What the runs check

| Run | Instance | Shows |
|---|---|---|
| `lending` | 2 books, 2 loans, 1 LP, 2 ERC-4626 calls or donations, 2 fee choices (one above the cap) | types; `OutstandingIsActive`; `VaultPaysLpsAndLoansOnly`; `SharePriceHolds`; `ImplementsLpClaims` |
| `event_store` | 3 events (bodies of 1 to 2 cells), 2 kills, 1 failing call | types; `ReadsBack`; `AckedAreWalked`; `AckedAreFound`; `WrittenOncePerLife` |
| `event_store_stale` ✗ | 1 kill | a stale index is not rebuilt |
| `pledge_watch` | 2 transfers, 2 blocks, 2 places in a block, 1 reorganisation, 1 restart, 1 failure, `seen` of 1 key, at most 2 calls and events of a transfer | types; `PledgedOnce`; `PledgesAreBacked`; `SettledTransferPledged` (liveness) |
| `agent_pool` | 2 books, 2 positions, gain / loss / nothing, 1 mark, cap 24 | types; `NotionalMirrored`; `RelayerAccountedFor`; `PriceFallsByTradesOnly` |
| `agent_pool_marks` ✗ | 1 position | a marked position leaves value behind when closed |
| `loan_pipeline` | 2 loans, 2 settlements, height 4, depth 2, 1 reorganisation, 1 kill, closing appends that reject | types; `OriginationsAreFinal`; `RegistryIsTheLog`; `ClosedLoansAreRecorded`; `LogMatchesTheChain` |
| `loan_reorg` ✗ | 1 loan, 1 settlement | a closing event signed for a dropped transaction |
| `payouts` | gas and one vendor, cap 3 of refills of 2, a vendor's cap of 3 in 2 instalments, windows of 2 ticks, 3 ticks, 2 transactions, 1 kill, 1 event of another service up to 1 tick old, with and without dry run and allowance | types and the calendar cap; `SpendIsRecorded`; `GasWithinRollingCap` |
| `paid_services` | 3 calls, 2 authorizations, 1 kill | one transaction per call; `ChargedIsAnswered`; `TransfersAreLogged` |
| `mark_feed` | 1 loan, 2 overlapping watch ticks, 1 stop, 1 trace whose append writes and rejects, 48 lists of trades with a tie, a repetition, one outside the window | pollers = registry, which covers the open loans; `OneObservationAfterRemoval`; `OneGapPerOutage`; `MaturityTracedOnce`; `MarksAreStepIntegrals`; `PollersGoOn`, `MaturityIsTraced` (liveness) |
| `verifier` | every graph of 5 events with 1 or 2 parents, at most one flaw, 1 failing call, cap 4 | types; `AcceptedIsVerified`; `ReportIsExact`; `SoundIsAccepted` (liveness) |

✗ marks a run whose property is a claim of the repository's documentation that
TLC refutes (section 6).

**Why the bounds are enough.** Two books are what re-wiring needs, two loans what
a counter needs to be wrong by the other one; amounts are chosen so that fees and
share conversions round. Three events let a torn record sit between two good
ones, two kills let a boot meet what an earlier boot left. Height 4 with depth 2
holds an origination, a settlement, a reorganisation between them and the block
that buries the wrong one; two settlements are a race. Two refills are one more than
the rolling cap allows, three ticks put them at the two ends of one window and on
the two sides of the end of a calendar week, and one late event is enough to cut a
walk short. A `seen` of one key is full at once: the other transfer evicts it under
a call that waits, and the sweep delivers the first again. Three calls and two
authorizations make some header be sent twice. Loans share no state in the mark
loop and the watch, so one loan and two ticks show what overlaps. Five events hold a
diamond, a fork to two roots and a path longer than the cap. The deeper reason is
section 5: most of these properties are proved with no bound at all.

**Symmetry** is used over interchangeable model values in runs without liveness.
**Deadlock** is checked except where the system stops: the pledge runs (the chain
has a last block), `payouts` (time and transactions are bounded), `paid_services`
(calls end), `verifier` (walks end).

**Fairness** is weak but for one action, and stated where a property needs it.

* `PledgeWatcher`: the chain grows, the runtime is started again after a stop (the
  container's restart policy), a market look-up that is retried for ever eventually
  answers, the sweep's timer re-arms after every run, and a call whose confirmations
  are there finishes. None of them forces a failed attempt to be retried, which the
  code does not do: the property speaks of transfers that were not given up and
  stayed inside the window.
* `MarkFeed`: the process is started again; a poller's await ends, one way or the
  other (fetches carry a timeout, appends are synchronous system calls), and its
  sleep too; the watch's interval fires and its loop goes on. Strong fairness of
  `Traced` says that an append which is tried again and again succeeds at last: with
  a log that can never be written nothing is promised. Without a stop of the
  process the watch would repeat a failed trace at its next tick, which is what
  `MaturityIsTraced` rests on.
* `Verifier`: a loop that is not over goes on; a call is answered or fails.

`Lending`, `AgentPool`, `EventStore`, `LoanPipeline`, `Payouts` and `PaidServices`
state no fairness: nothing in the code promises that a transaction is mined, that a
caller calls, or that a tick gets through.

## 5. What is proved

Every theorem is checked to its last leaf, for every value of the constants. The
assumptions are the ASSUMEs of the modules, nothing else: sets of ids are finite
where a sum or a count ranges over them (`Events`, `Ticks`, accounts, books), model
values differ, caps and lengths are numbers, a window has at least one second and
prices are naturals. Every invariant and every action property of a passing run is
stated by a theorem; `LoansFollowLifecycle`, `AumCapHolds`, `PositionsRunOnce` and
the refinement of `AgentClaims` are proved and not repeated by a run.

* **LendingProofs.** `IInv` adds to the types: the counter of each book is the
  `Total` over its active loans, all shares are held by LPs, and each loan past
  "None" has terms. Without the sum the counter's subtraction could underflow, so
  the types alone are not inductive. Corollaries: `TypeCorrect`, `ExposureIsExact`,
  `LifecycleHolds`, `VaultPaysOnly`, `PriceOfAShare`. On it rests the refinement
  `Lending => LpClaims`, step by step. The algebra of the rounded conversions is
  isolated in lemmas over naturals.
* **PricingProofs**, the agents' pool. `AgentInv`: types, shares held, I-PB-3 as an
  equation for every book and for their sum, the relayer's balance as an equation of
  the totals. The AUM cap follows from the two roundings of deposit and mint, and
  `PriceFallsByTrades` from the same algebra as `PriceOfAShare`: what a share is
  worth is compared by cross multiplication, and a call that rounds against its
  caller cannot lower it. `AgentRefinement`: until a mark, every transaction is a
  trade at no less than the price, a loan (an open) or a recovery (a close) of
  `LpClaims`. Re-wiring is a step that changes nothing, because the sum of the
  costs runs over all books and not over the wired one. A close ends a debt of its
  cost whatever it pays, so the theorem needs that a position has a size
  (`OpenPositionsCost`) and that a sum over pairs may be taken book by book
  (`TotalGrouped`).
* **PricingProofs**, the marks. `TwapIsStepIntegral` is about the arithmetic alone:
  for every list of trades the weighted sum over segments is the sum, second by
  second, of the price in force, and the weights add up to the window. The segments
  group the seconds; the stable sort matters where two trades have one time.
  `FeedInv` then carries `MarksAreIntegrals`, `FeedTypeCorrect` (pollers = registry,
  which holds every loan open in the log), `OneLateObservation` (a poller that has
  reported a removed loan is idle), `OutageReportedOnce`, and `MaturityTraces`, which
  counts traces against the ticks that still hold an unmarked loan in their list, a
  finite set that loses a tick with every trace; against the lives; and against the
  appends that wrote a trace and rejected, each of which gives the ticks another.
* **EventStoreProofs.** `StoreInv` = types, control (which variables may differ at
  which `pc`) and `Offsets`: every entry, in memory or on disk, names whole bytes
  of its event, and the counter is the length of the file as long as no call
  failed. An append-only file never invalidates an offset; that is why the torn
  tails are harmless to `getById`. `WrittenOnce` counts the lines of an
  event against the lives, the rejected appends and whether the index knows it, or is
  about to. `AckedWalked` and `AckedFound` reason about what
  a walk of the file sees: appending a whole line to a file that ends a line adds
  that line and disturbs no other, and each torn write costs one line at most, the
  one that runs into it. What was acknowledged and is missing is counted against
  the torn writes.
* **TransferProofs**, the pledges. `PledgedOnce` is not inductive: it says nothing of
  a log that is unseen and will be taken up. `WatcherInv` counts, per transfer,
  pledges + calls in flight (a sum over logs) + an unseen mining against minings +
  restarts + evictions of its key. `BackedHolds`: a log that stands confirmed is too
  deep to be replaced, a log that is replaced turns its waiting calls into orphans,
  and a transfer off the chain has only those to be pledged by.
* **TransferProofs**, the paid services. `PaidInv` says at which steps a call has sent
  its transaction and that no two inflow events cite one transaction, and which
  calls have an event. From it follow `PaidTypeCorrect` (one transaction per call),
  `TransfersLoggedOnce` and `ChargedAreAnswered`, with no bound on calls and headers.
* **PipelineProofs.** `OriginationsAreFinal` does not carry itself. `ReceiptsInv`:
  the receipt a request relies on stands, or is of an older fork — then it never
  stands again, because new blocks carry the current fork. A receipt that stands
  when the head is read deep enough is buried; one that stands at the second
  read stood all along. The settlement route lacks the second read, and the same
  argument fails there exactly as the `loan_reorg` run shows. `LoanInv` and
  `SettleInv` tie log, steps and transactions together, from which
  `RegistryIsTheLog`, with the loans a rejected closing append left behind, and
  `ClosedLoansAreRecorded` follow. `LogMatches` is the
  converse reading, from the chain to the log: every success on the chain is told by
  an event unless its request waits or was cut off. It needs `AccountedInv`, which
  says so of transactions not mined yet as well, and `MinedOnce`: a transaction is
  in one block, so a revert that was read is all there is.
* **PayoutsProofs.** `Shape` says where every payment is: in hand, told by the one
  event that cites it, or one of those given up, which the failures outnumber; from
  it follow the types with the contract's cap and `SpendIsRecorded`. The rolling cap
  needs more (`PayoutsInv`): how old the events of other services can be, what the
  walk therefore cannot miss (`Span`, the window less the lag), and two facts about
  room. `CapHolds` speaks of windows that start at any time, also later than now.
  `RoomInHand` says that from the decision to the receipt, however long the wait,
  the refills told by the log leave room for the one in hand; the decision
  establishes it because each of them has an event at least as young as itself and
  behind no event that ends the walk (an injection of the sums), time only shrinks
  what it adds up, and an execution that is counted can only be that of the payment
  in hand. A refill whose wait or trace failed is not told; the sum of those is at
  most a refill for each failure, which is the slack `GasWithinRollingCap` states.
* **VerifierProofs.** `WalkSound`: an accepted walk has verified the whole ancestry.
  The inductive invariant is that what was visited and what is queued cover the
  parents of everything visited, unless an error was recorded; once the queue is
  empty the visited set is closed under parents, and `EventGraph` defines the
  ancestry as the least such set. `SearchExact`: what the search reports is so of
  the log. `SearchInv` adds that the queue holds at most two levels, in order, so
  that the first genesis met is one at the least distance. That distance is a
  recursive function in the reference; its equation is shown by exhibiting a
  function that satisfies it, which needs no induction over data.

**Only model-checked:** the four liveness properties (`SettledTransferPledged`,
`PollersGoOn`, `MaturityIsTraced`, `SoundIsAccepted`), because liveness under fairness
and ENABLED are outside what the installed provers can do. Induction over recursive
data is too; where a proof needed one it rests on sets, counts and least elements
instead.

## 6. Disagreements found

Each of the first three is a run of its own with the quoted claim in `PROJECT.json`
("findings").

1. `events-store.ts:87-89` — a stale index is rebuilt: only a missing or
   unreadable one is. An event appended before a kill can be in the log and
   unknown to the index for good, and is then appended twice.
2. `AgentPoolVault.sol:50-51` — the position value is the value of the open
   positions: a close subtracts cost, so a mark stays behind.
3. `settlement.ts:5-6` — the closing event is signed after the transaction is two
   deep: the depth is computed from a receipt that may be stale; origination reads
   it again, settlement does not.

Further sentences of the documentation that the models contradict, without a run:

* `LoanBook.sol:245-247` — totalAssets() "only changes when LoanBook drives a
  transition": in `Lending`, `Donate` and `AcceptLoanBook` change it.
* `pledge-watcher.ts:16-17` — reorganisations "are handled by" the six
  confirmations: `Confirmed` compares heights only, which is why
  `PledgesAreBacked` sets aside the calls whose log was replaced while they waited.
* `docs/EXPLAINER.md:193` — every inflow event carries a settlement hash "verifiable
  against Base mainnet": `x402.ts:300` does not look at the receipt's status, so a
  transfer that reverted is answered and logged as an inflow too.
  `TransfersAreLogged` claims one event per transfer, not one transfer per event.
* `settlement-watch.ts:14-16` — `seen` "is rebuilt on restart from log replay": it
  starts empty. `MaturityTracedOnce` therefore has a term for every restart.
* `mark-loop.ts:9-12` — a stop drains the tick in flight: `inFlight` is set by the
  test path only, a pump's tick is not waited for.
* `payouts.ts:36-38` — "every action — including skips — emits a `treasury.outflow`
  event": a payment or swap whose wait throws (line 294 for the swap) is mined all the
  same and has none, ever, and so has one under which the process is killed.
  `SpendIsRecorded` bounds their number by the failures; `GasWithinRollingCap` counts
  the money they spend and allows one refill for each.
* `payouts.ts:33` — "skip if rolling weekly cap would be exceeded": besides what those
  failures hide, `walkPayouts` stops at the first event stamped before the window,
  and an origination or an inference appended after its wait may be that event while
  younger outflows lie behind it. `GasWithinRollingCap` holds of the window less the
  longest such wait; of the full seven days TLC refutes it in this instance.
* `settlement.ts:334` — "the mark loop should stop polling": if the append of line 332
  rejects after the line is in the log, line 335 is skipped, and the poller of a
  closed loan goes on until a restart. `OneObservationAfterRemoval` speaks of the
  removal, `RegistryIsTheLog` of the loans left behind.
* `walk.ts:15-16` — "same as the `verifyTransitiveGenesis` cap": one compares with
  `>=`, the other with `>`, so the two differ by one event, and by any duplicate
  still in the queue when the cap is met. `SoundIsAccepted` therefore asks for an
  ancestry *below* the cap.
* `poller.ts:149-158` — the bootstrap price "holds for zero seconds": it holds from
  the start of the window to the earliest trade, and is the price of the trade the
  venue happens to list first. `twap.ts`'s coverage gap cannot occur: the clamped
  segments always add up to the window.

Seen while modelling, not claimed by any document, so not runs: a transaction
that is mined after its request timed out leaves an active loan without an event,
or a closed one the registry keeps for ever (`LogMatchesTheChain` says that nothing
else does, reorganisations apart); an origination ends on the first receipt that says
`reverted`, without reading it again, so that if a reorganisation drops that block
and the transaction succeeds in another the loan is active and has no event; a swap
that reverted is recorded as an outflow and counted; a client whose settlement timed
out is charged when it is mined and refused (`nonce_already_used`) if it sends the
same header again; a metered handler runs after the payment and may fail; the
constitution of a second genesis is not compared by `walkChain`; two originations
may cite the same pledge; the borrower of a loan need not be the pledger
(`orchestrate.ts:229-237` says why, while `orchestrate.ts:10-12` still says it is
checked).

## 7. What is left out, and why

**Data.** Signatures, hashes and canonical JSON are taken to be injective: an event
is its content. Attestation and key derivation are cryptography. HTTP validation,
logging and the front ends (`web/`, `game/`, more than half of the repository's
lines) keep no state of the lender. The volatility of the haircut and its closed
formula are floating point over immutable data. RPC nodes are taken to answer from
one chain at a time; viem's cached block number, which can only make a depth look
smaller, is not modelled. Gas, nonces and fee markets are left out: a broadcast
transaction is mined eventually, or never.

**VantaVault, AgentRegistry, AgentFactory.** Bookkeeping contracts with one writer
and no step that depends on another's: VantaVault holds what it is sent from
registered contracts and gives it to whom its admin says; the registry's indices
are written once per agent, and no other contract reads them. Their hazards are
access control and encoding, which a state machine would restate guard by guard.

**Treasury and pledge packages.** No source file outside them imports their ledger,
invariant, watchdog or fallback: the runtime keeps its treasury as outflow and inflow events
(`Payouts`, `PaidServices`) and has a pledge watcher of its own (`PledgeWatcher`).

**Agent loops.** What they decide is the model's answer; what they do is sign a
trace, or call a component that is modelled. The operational loop's tick is
`Payouts.StartTick`. One thing was seen in reading: the credit loop's tick awaits
`listActiveLoans` outside its try block, so a rejection there leaves its pump.

**Bootstrap, configuration, HTTP.** Wiring; what it does to the state of another
component (hydrating the registry, opening the log, starting pollers, wiring
`onSettled`) is an action of that component's module.
