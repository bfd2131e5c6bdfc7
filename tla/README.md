# TLA+ project for xchain-encoder

xchain-encoder is a JSON-RPC service that composes unsigned Bitcoin, Litecoin
and Dogecoin transactions. It signs nothing and stores nothing: it reads an
address's unspent outputs from a tracker, picks inputs, obfuscates and embeds a
payload, settles the fee and hands the hex back. What makes it hard is that one
Node process composes for many callers at once, each composition suspends at
every call to the tracker and the node, and the caller decides afterwards,
perhaps much later, whether to broadcast, to cancel, or to start over.

All modules are plain TLA+. `tlc -config X.cfg M` runs a configuration below;
`tlapm M.tla` checks the proofs of `ReservationsProofs`, `InstanceLockProofs`,
`NodeCallsProofs`, `FeeSettlementProofs`, `TrackerReadsProofs`, `BuildReadsProofs`,
`PayloadPathProofs` and `OperatorViewProofs`.

## 1. Inventory

| Component | State | Operations | Hard behaviour | Correct when |
|---|---|---|---|---|
| Outpoint reservations (`XChainEncoder/outpoint_reservations.js`) | `outpointReservations`, `envelopeCancelClaims`, `reservationTickets`, `recentBuilds` | claim, claim for a cancel, roll back, mint ticket, release, sweep, duplicate guard | builds interleave at every await; claims expire; a release comes after a lapse | no two live builds own one outpoint; a live claim stays reserved; nothing leaks |
| Build lifecycle (`XChainEncoder.js` and `build_transaction/`) | the draft and its step | resolve, key, select, settle, emit, finish | the first input is chosen before selection, claims lapse mid-build | results do not conflict; the payload's key is `ins[0]`; the receipt is exact |
| Envelope cancel (`envelope_cancel.js`) | owner tokens | claim, sweep, receipt | cancels of one commit overlap | the commit outpoint stays reserved while one cancel owns it |
| Single-instance guard (`server/single_instance_guard.js`, `stale_lock_breaker.js`) | lock file, `.break` mutex, temporary names, pids | acquire, break, release, crash | file-system steps of two boots interleave; pids are reused | at most one encoder serves and the lock names it; a restart works |
| Concurrency gate (`server/concurrency_gate.js`, `api.js`) | `inFlight` of two gates, one slot per request | admit, shed, hold, release | clients hang up at any moment, batches hide work | counters equal slots; work never exceeds the cap; a full gate reopens |
| Tracker client (`build/utxo_tracker.js`) and readiness (`serve_readiness.js`) | a fetch in progress, the tracker's chain and mempool | paged read, checks before and after, retry, caps | the tracker moves between two pages | an accepted set is one snapshot of a fit tracker |
| Fee settlement (`build_transaction/fee_settlement.js`, `fee_policy.js`, `input_selection.js`) and the reveal (`script_hash_legs.js`, `reveal_outputs.js`) | the draft's fee, inputs, change | floors, ceilings, ancestor uplift, selection, change; legs, pad, sweep | every step may undo an earlier one; two calls price one reveal | value is conserved, ceilings and floors survive the uplift, the legs pay for the reveal |
| Log shipper (`observability/logShipper.js`) | buffer, batch in flight, counters, timer | enqueue, flush, settle, stop | lines arrive during a failing post | every line is counted once, in order, only the oldest go |
| Node connector and the methods on it (`build/blockchain_connector*`, `broadcast_tx`, `get_tx_status`) | `_chainNameCache`, `nodeTierOk`, `nodeTierMismatch`, `nodeGenesisOk` | broadcast with one retry past the fee cap, look up, check the node's tier and genesis | replies are lost after the node took the transaction, callers repeat, checks fail open while calls are in flight | a repetition tells the truth; a wrong node stays shut out |
| Fee estimation (`blockchain_connector/fee_estimation.js`, `estimate_fee`) | `_chainNameCache`, a quote's tiers, the package gathered so far | estimate, fall back, recover; gather ancestors branch by branch | every answer may fail anew; the mempool moves between two calls | a fee has a source its chain allows; a dead node costs three timeouts; stuck ancestors are carried |
| Candidates (`input_candidates.js`) | the build's `utxos` | check exact inputs, gather, filter, deduplicate, order | one set comes in many listings | the choice depends on the set alone |
| Request metrics (`observability/index.js`, `metrics.js`) | gauge, series, route labels | arrive, finish or close, observe | two events may end a request, series run out | every request is told once; unknown paths leave the routes their room |
| Maintenance window (`server/maintenance_window.js`) | a sentinel file | read and judge | the file outlives its publish, the probe reads late | a stale file excuses one window at most |
| Payload path (`payload_checks.js`, `payload_preparation.js`, `compression.js`) with the validator | the call's payload as rewritten | validate, check, compress, choose a carrier, cut | two surfaces, two calls for one payload, a default switched in between | nothing is silently lost; the second call can spend what the first funded |
| Payload encodings and size estimation (`payload_encodings.js`, `size_estimation.js`, `tx_size_estimator.js`) | none | cut a stream, weigh carriers, price a reveal before it exists | every push band, chunk boundary and floor | carriers reassemble; a priced reveal relays |
| Coins, chain adapters, protocol tables, configuration, buffer patch | none or constant tables | pure functions | boundaries | agreement with their definition |

Interactions: the HTTP gate admits a request and *holds* its slot until the
JSON-RPC method settles; `create_tx` resolves its inputs through the tracker
client, claims outpoints in the reservation book, settles the fee against the
node's estimates and leaves a receipt in the book; `release_inputs`, a later
`create_tx` and the sweeps inside them consume the receipts; the readiness
probe judges the same tracker for `/status`; the shipper sees every log line.
Everything runs on one event loop, so the atomic step of the models is one turn
of it: the code between two awaits (or, for the lock, between two system calls).

## 2. Modules

### Reservations (and OutpointLeases)

`Reservations.tla` is the reservation book of `outpoint_reservations.js` with the
calls that use it. Its variables are the four maps (`resv`, `owners`,
`tickets`, `recent`; in the code `outpointReservations`, `envelopeCancelClaims`,
`reservationTickets`, `recentBuilds`), the clock and one record per call. A
build binds its first input or claims its named inputs
(`ClaimFirstFreeInput`, `ClaimExactInputs`), suspends, selects
(`StartSelection`, `SelectInput`, `EndSelection`), finishes with a receipt
(`FinishBuild`) or throws; a cancel claims the commit outpoint
(`ClaimCommitOutpoint`) and mints its receipt or throws; `ReleaseFailed` is the
`catch` and `ReleaseReservation` the `release_inputs` method. Sweeps are part of
the action that makes them. Time passes in `Tick`, between turns only.

Claims *can* lapse under a build that outlives the TTL: the model lets them, and
the exclusivity properties speak of live claims. `constants.js:112-118` says as
much ("narrows, but cannot fully close"). Two details matter there: `now` is
read once for a whole selection (`input_selection.js:108`) and the outpoint
bound to the key is not judged again (`:239`).

`OutpointLeases.tla` is what the book promises, without the book: an outpoint is
leased to one call or shared by cancels, a lease ends by its holder or by time
and never by what another holder does, and an outpoint is free exactly when no
lease on it runs. The run
`reservations_cancels` checks `ImplementsLeases`, the refinement with
`INSTANCE OutpointLeases WITH` over the live claims.

Left out: a restart, which clears every map; the P2SH reveal and the empty-UTXO
path, which claim nothing. The payload's preparation before the first claim is
PayloadPath's.

### FeeSettlement

`FeeSettlement.tla` follows one single-transaction or funding build from its
emitted outputs to its change: `EmitOutputs`, `SelectInput` until `Enough`, the
relay and the drain check, `UpliftForAncestors`, `FloorEstimatedFee`,
`PrefundRevealPackage`, `ComputeChange`, `EmitChange`,
`RefuseUnderStrippedFloor`, in the order of `buildSteps`. Three accounts have to
agree: the outputs in the psbt (`commit`, `change`), the running total
(`outputs`), and the numbers the reveal is built from (`reveal`). A build either
pays by itself, or funds a reveal on an envelope, or on one leg per chunk (P2SH
and P2WSH): then `LegsValue` carries the reveal's payments, its fee and the floor
of its change, or a pad where one short leg would be under the stripped floor.
`Rate` is `resolveFeeRates` with its caps; `FeeCeilings` are the two limits an
absolute fee and an uplift answer to.

Rates are exact integers per `Kilo` bytes where the code has floats with an
epsilon shaved off; sizes come with the request instead of being computed from
scripts; reserved candidates are Reservations' subject. The caller's `dust` and
the pad output of an envelope's reveal are left out.

### RevealFunding

`RevealFunding.tla` extends FeeSettlement with the second call of a chunked
build. A commit that is `done` waits for `CallReveal`; `CheckReveal` is the relay
check, the drain check and the floor, which here judge a size estimate of their
own and no selected inputs; then `PadReveal`, or `SweepReveal` with the uplift
for the commit (`Kept`). `RevealNext` composes both calls: the second shares
nothing with the first but the legs' value, and names its own rate, fee, market
and uplift bound. What the node says of the commit is chosen when it is asked:
nothing, the commit, or the commit with its ancestors.

The second call repeats the payload and the payments of the first. Another
payload is refused, which is the outcome `NOT_FUNDED`; other payments are not
refused by the code, so every property here is about a reveal with the same ones.
The signer's own refusal of a full burn lies outside the repository.

### TrackerReads

`TrackerReads.tla` puts one paged read of an address (`utxo_tracker.js`, as
`create_tx` makes it) beside a tracker that connects and disconnects blocks,
commits its mempool, restarts and halts between any two requests. A fetch checks
`/status`, reads pages by cursor, compares every page's sync fields with the
first (`Diverged`), applies cap and page bound, and is judged; a failure is
retried from nothing. `profile` is the default or the remote tracker's stricter
one.

The tracker is a separate program: its actions (`ConnectBlock` to `Halt`) are
external, with these assumptions: a page's rows and its sync fields are one
read; `committed_hash` names the chain; `mempool_epoch` moves with each commit
and does not repeat across restarts; a cursor resumes after the last row. The
checks are for a tracker that publishes every sync field: the code lets older
ones through by design. The `get_utxos` method is left out.

### InstanceLock

`InstanceLock.tla` is the single-instance guard, one action per file-system call:
create the `.break` mutex, link the record (or create and write it where there
are no hard links), read and judge the holder, identify its pid, verify and
unlink a stale lock, and on the way out read and unlink one's own. Processes may
be killed between any two calls and pids are reused, by strangers or by the
next boot. An encoder of an older version (records without a start time) and
strangers are external.

Two limits are by design and part of the model: a boot killed while it holds
`.break` stops later boots until an operator removes it (`OperatorClearsMutex`),
and the lock is released up to `RERAISE_GRACE_MS` before the process is gone. A
pid that vanishes between `isPidAlive` and `describePid` only makes the refusal
conservative.

### ConcurrencyGate

`ConcurrencyGate.tla` has the two gates as `api.js` mounts them: a request takes
its slot in `Arrive`, `hold()` binds the slot to the method's promise, and
`Finish`, `Close` and the settled method each try to give it back. Batches, the
guard that refuses entries without an id, and probes are part of `Arrive`.
Admission to the claim of the slot is one turn of the event loop, so no abort
falls between; that Node delivers `close` later is an assumption about Node.
`express-json-rpc-router` is external. By itself the gate lets any awaited call
end at any moment; `NodeCalls` says when some of them do.

### NodeCalls

`NodeCalls.tla` extends ConcurrencyGate with what runs behind it. A wallet's one
transaction is `absent`, in the `mempool`, in the `chain` or there and `spent`;
`indexed` is what the tracker has of it. A broadcast checks the node's tier and
its genesis hash (`StartCheck`, `TierRead`, `GenesisRead` and their unreadable
twins, which fail open), submits, is judged (`NodeJudges`) and hears of it
(`ReplyArrives`), with the one retry past the fee cap on a proven regtest node
(`LiftCap`, `RegtestRead`); a lookup asks the mempool and then the tracker;
`/status` runs the same check as a broadcast. Any RPC may fail (`SendFails` and
the `...Unread` actions), a submission given up on may still reach the node
(`adrift`), and the node mines, drops, reorganises and has the outputs spent
whenever it likes. The connector's four memo fields outlive the calls.

`since` is a history variable: the facts that have been true ever since a call
was admitted. The properties are about what a caller with such a fact may be
told, and the invariant of the proofs runs on it.

Assumptions about the node: it does not judge again what it holds; outputs that
are in the chain give code -27, and once they are spent it no longer knows the
transaction, so such a repetition is rejected (the code does not claim
otherwise). Left out: batch entries, which stay plain calls; the decoding of
`tx_hex`; `estimate_fee`, which is FeeQuotes'. A call that is refused at once answers in the turn it
was admitted in, with nothing to await.

Two limits the model shows and the code states: a lookup while the tracker lags
behind a block may say `unknown` for a transaction that has just left the
mempool, and the genesis check of the money methods fails open while the node
cannot answer, though readiness remembers a mismatch.

### FeeQuotes

`FeeQuotes.tla` is a fee lookup with every fallback, as `estimate_fee` makes it
three times in a row and a build once. `stage` names the RPC a caller awaits:
`Begin` to `CheckFails` are the node's tier check in front, then the chain's name,
the relay floor on regtest or the smart estimate elsewhere, the relay fallback of a
test chain, and the recovery, whose RPCs are those under `re...`. Each may be
answered, answered with an error (`Refused`) or not at all (`Timeout`), and what the
node says is chosen when it is asked. `WithTier` rounds a fee, caps it on a test
chain and keeps the tiers in order. `fees`, `told`, `heard` and `waited` are
history: they say what a fee was made of, and what the caller had heard and waited
for. The node is the configured one, because what the check refuses is
NodeCalls's subject; rates are integers where the code has floats.

### AncestorPackage

`AncestorPackage.tla` gathers the unconfirmed ancestors of a build's inputs.
`ReadEntry` and `ReadAncestors` are the two calls of a branch; between any two the
node confirms, drops with all descendants, or takes back a transaction
(`Confirms`, `Drops`, `Returns`, external), as long as what it then holds is
consistent. An entry is the transaction it stands for, and whether its size and
fee can be read; the sums over the entries are data, which FeeSettlement takes as
its package. The calls are made one after another, as in the code.

### Candidates

`Candidates.tla` takes the rows a caller names, or the tracker lists, to the
candidates: `CheckExactInputs`, `GatherUtxos`, `FetchTrackerUtxos`,
`RefuseShrunkExactInputs` and `FilterAndOrderUtxos`. Builds (`Drafts`) that were given the
same rows in different listings go side by side. A row's txid is an outpoint and a
spelling, its confirmations are missing, none or some. How the tracker is read is
TrackerReads', what a row may hold at all the validator's.

### RequestMetrics

`RequestMetrics.tla` is the timing middleware at the front of the stack:
`Arrive`, then `ResponseFinishes`, `ResponseCloses` or both, of which the first
records the request. `RouteLabel` gives an unmatched path its first segment's
label while the cap lasts, and `Observe` is the registry, which drops an
observation whose series would be one too many and counts the drop. The scrape's
own requests are uncounted in the code and absent here; the histogram's buckets,
the process metrics and the rendering are data.

### MaintenanceWindow

`MaintenanceWindow.tla` is the sentinel an operator leaves for a planned outage,
with every form its two fields may have. A probe takes the time (`Ask`) and judges
the file by it when it has read it (`Read`), perhaps much later; the publish that
writes the file and the clock are external. Nothing cleans the file up.

### PayloadPath (with RequestChecks and PayloadSizes)

`PayloadSizes.tla` has the cutting of a compiled stream into carriers, with the
byte moved off a lone last one, and the estimates by which the commit prices the
reveal. Lengths are the real ones; of the bytes only what the cutting looks at is
kept, whether the last byte would compile to a bare opcode.

`RequestChecks.tla` is `validateAll` and what it makes of the fields. A value has
a form (number, digits, decimal, junk...) and what the caller meant by it;
`ToExactInt` and `ParseSatoshiAmount` yield the set of their one result or
nothing. The widths are constants, so that the safe range, the wire range, the
fee cap and an index each have a value on either side.

`PayloadPath.tla` is a call's way through `buildSteps`, from `Enter` over
`CheckPayloadInput`, `CompressPayload`, `ChooseEncoding` and `CheckEnvelope` to
`PrepareChunks`, from both surfaces, and for a chunk lane the caller's second
call (`CallAgain`), which must come to the same chunks. Between any two steps
the operator may switch the compression default and the chain may grow. What
`deflate` yields is one length and any last byte; the rewritten header grows by
the request's `grows`. What is inherited by a second call is what the first one
returned (`HandedBack`).

### LogShipper

`LogShipper.tla` is the buffer, the batch in flight, the counters and the timer.
A post may fail before or after the collector took its lines, so a line can
arrive twice; the properties speak of what the shipper counts. `stop()` flushes
once and the encoder never calls it on its way out, so what is buffered at exit
is gone: that is not modelled as a loss the shipper should prevent. The
microtask between a post's settling and its `finally` is folded into the post's
end.

## 3. Runs

`expect: pass` unless marked. Deadlock is checked in the Reservations runs; the others
switch it off because the system there really ends (a build is finished, every
boot is over, a quote or a package is there) or waits for requests that are
bounded.

`build_reads` and `operator_view` each take three components that share no state,
in the code as in the modules: their MC modules start one of the three and leave
the others at rest, `part` says which. An interleaving of the three would show no
invariant more, because each reads one component's variables only.

Some properties join two that belong together, and a violation of either violates
them: `ReservedIffClaimed` is `LiveClaimsReserved` and `NoOrphanReservation`;
`BootsServeOrEnd` is `Settles` and `RestartServes`; `GateHolds` is
`SlotsAccounted` and `WorkWithinCap`; `OneFreshSnapshot` is `OneSnapshot` and
`AcceptedWhileFresh`; `StreamAccounted` is `NothingVanishes` and `StreamKept`;
`RequestsTold` is `InFlightIsOpen` and `EndedIsTold`; `WindowsBounded` is
`OneWindowPerFile` and `RefusedNeverOpens`; `PackagesAtTarget` is
`PackageAtTarget` and `RevealPackageAtTarget`; `LegsPayTheReveal` is
`RevealLeavesValue` and `RevealPaysItsRate`; `ValidatorAgrees` is
`AcceptedSizeIsBuilt` and `FieldsAsWritten`; `BranchesCarried` is
`StuckChainCarried` and `BranchIsOneMempool`. There is a mutant for each half.

| Run | Bounds | What it shows |
|---|---|---|
| `reservations_builds` | 3 outpoints of 2 transactions, 2 builds of 4 jobs, TTL 2, clock to 4 | live claims are exclusive, outstanding results do not conflict, a refused duplicate is really outstanding, the key is `ins[0]`, receipts are exact, builds that wait for nothing never starve each other |
| `reservations_cancels` | 1 outpoint, 3 cancels, 1 build, TTL 2, clock to 4 | overlapping cancels keep the outpoint while one of them lives, nothing is orphaned, the book implements the leases |
| `cancel_receipts` (violation) | 2 outpoints, 2 cancels, 1 build | a cancel that succeeded may get no receipt |
| `fees_and_reveals` | 92,160 single-transaction requests and markets with 1 to 3 candidates and at most 2 inputs; 1,080 chunked commits, each with 72 second calls and 3 states of its package | what is settled is what the miner gets, checks are not undone, uplifts never unfund, packages reach the rate unless a bound binds; the legs pay for the reveal of any later call that asks for no more, a value output remains, the prefund is spent on the package |
| `payloads` | 8,962 requests on 4 networks; lengths at every push band, chunk boundary and ceiling, real widths for the carriers, small ones for amounts | the carriers reassemble, no built action is silently dropped, the second call rebuilds the first one's chunks, validator and build agree on sizes, the reveal relays, fields are used as written |
| `soft_dust_stop` (violation) | 161,280 requests and markets | with a soft-dust surcharge, selection stops too early |
| `tracker_reads` | chains of at most 2 blocks with 2 names, page 2, cap 3, 3 moves, 1 fault, both profiles | an accepted set is one snapshot of a tracker fit at that moment; "too large" is true; a retry succeeds once the tracker rests |
| `status_agrees` (violation) | 2 moves | `/status` and a build disagree about one tracker |
| `lock_boots` | 2 boots, 3 pids, 2 command lines | at most one holder, the lock names it, no boot leaves the mutex behind; every boot serves or ends; alone, it serves |
| `gate_calls` | 2 requests, 1 probe slot, 1 request slot, batches of 2, one transaction, 6 worlds of node and configuration | counters equal slots, none leaks, work stays within the cap, a full gate reopens by the RPC timeouts alone; a repeated broadcast or lookup is told the truth; a wrong tier stays shut |
| `build_reads` | fees: 1 quote and 1 build, 6 nodes, 4 estimates around the caps, the tier check passed or not; ancestors: 4 transactions, 5 root lists, every consistent mempool, unbounded moves; candidates: 2 drafts, 3 outpoints, the listings of at most 3 of 6 rows, 12 options | a fee has the source its chain allows, a silent node is waited for three times at most and told as an outage, tiers are ordered and capped; what is stuck is carried with its ancestors, a branch is one mempool; equal rows give equal candidates, all that may be spent and nothing else, exact lists whole |
| `operator_view` | lines: 9, batch 2, buffer 3, 4 failures; requests: 7 on 2 connections, 2 routes, 3 segments, 4 series; probes: 2, a window of 2, a clock of 7, 82 files | every line counted once and in order, only the oldest go, the buffer drains; the gauge, the totals and the drops agree with the requests, unmatched paths do not starve the routes; a file excuses one window at most, a refused one never opens |

Why the bounds suffice. Two builds and a TTL of two ticks in a clock of four let
a claim lapse, be taken, and lapse again under its first owner; three cancels
are needed for one to fail between two others. Two boots let one judge a lock
stale that the other breaks and replaces in between, and three pids leave one for a
stranger or an older encoder; for more boots the two safety properties are proved.
The retry loops are cut to the fewest passes that still fail, repeat and give up.
In every
root list of AncestorPackage with more than one root two share an ancestor, and in
three of the lists a root is an ancestor of another. One quote
and one build fill each other's cache of the chain's name at any point. Three
segments for one label of their own need the overflow, and four series are exactly
what the latencies may need and less than the totals do. A clock of seven holds a
declaration of three windows with a probe before, in and after it. Two block names
over two heights let a rewind come back at the same height, and the cap lies
between two reachable sets. Failed batches find room for all, one or none of
their lines. Two requests fill a gate of one slot, are shed by it, come back after
an abort, and are the two calls that a lost reply and its repetition take; what
they need beyond that the proofs cover for any number. The payload lengths are
the real ones on both sides of 75, 255 and 65535 bytes, of a chunk, of two chunks
and of both ceilings. The fee amounts are chosen around each other (`Dust` 10,
`OutputFloor` 14, fees of 4 to 45) so that each refusal, each clamp, a folded
change and a change above the floor occur.

The builds' calls and the cancels of the Reservations runs are interchangeable: their
symmetry set permutes those only. No run with a liveness property uses symmetry.

### Disagreements found

- `cancel_receipts`: an overlapping cancel re-stamps the shared claim, so the
  first returns without the receipt `envelope_cancel.js:215-217` promises.
- `status_agrees`: the status board and the build judge the same tracker
  differently (the finding quotes the comment).
- `soft_dust_stop`: `selectionTargetFee` uses `max(fee, dust)`, the final floor
  `dust + surcharge`; between the two a fundable build is refused although
  `input_selection.js:73-75` says this cannot happen. Without a surcharge it
  cannot, which `RefusedOnlyUnfunded` checks.
- Not a run: `stripped_floor.js:65-66` says no input was left when the build is
  refused. Selection may have stopped because change would lift the transaction,
  and the ancestor uplift then eaten the change, with candidates left.
- Not a run: `node_queries.js:52` says only a pass of the tier check is cached.
  The name of the chain is, whatever it says (`:137-144`): after one mismatch the
  node is refused until the encoder restarts, though the node may have been put
  right. `WrongTierStaysShut` and its theorem rest on that.
- Not a run: after a genesis mismatch readiness stays shut until a matching hash
  is read, while a broadcast whose own read of the hash fails goes through
  (`node_queries.js:31-37`): the two part where `:43` keeps them together.

## 4. Fairness

- NodeCalls: every RPC carries a timeout, so an awaited one returns one way or
  another and a method that is not modelled ends; a response that was written
  finishes or its connection closes. Clients owe nothing else, the node and the
  tracker nothing at all, and a batch entry nobody awaits is never assumed to end.
- TrackerReads: requests end and the caller retries; the tracker is not fair,
  so `RetrySucceeds` speaks of a tracker that has come to rest.
- InstanceLock: a boot that is still running takes its next step; nobody is
  obliged to die, and the operator to nothing.
- LogShipper: the timer fires while it is set and a post ends (it has a
  timeout), one way or the other.
- Reservations, FeeSettlement, RevealFunding, FeeQuotes, AncestorPackage, Candidates,
  RequestMetrics, MaintenanceWindow and PayloadPath state no liveness: a build that ends is seen as
  a final state.

## 5. Proofs

Eight modules hold the theorems; `PROJECT.json` lists those worth knowing of. Each
safety theorem has one shape: an inductive invariant, a lemma per action that keeps
it, and the property as its consequence.

### ReservationsProofs

For any sets of outpoints and calls, any jobs and TTL: `TypeCorrect` (`TypeOK`),
`BookKept` (`BookInv`), and from it `ClaimsAreExclusive`, `ClaimsStayReserved` and
`NothingOrphaned`, the last two together as `StoreAgrees` (`ReservedIffClaimed`).
`BookInv == TypeOK /\ StampsBounded /\ ClaimInv /\ ReceiptInv` is inductive and
none of the three safety properties is by itself. That a claim is live says only
that its stamp has not lapsed; that the outpoint is then in the map needs

- `StampsBounded`: no stamp lies beyond now plus TTL, so a later claim's expiry
  is never before an earlier one's;
- `ClaimInv`: a build's live claim is in the map under that very stamp, and
  owner tokens are live cancels. A cancel's stamp may be overwritten by the next
  cancel's, so only its token shows that the outpoint is still owned;
- `ReceiptInv`: a ticket names live claims of the call that got it, because a
  release is judged by its ticket and not by the call.

The proof has one lemma per action and, below it, one step per conjunct.
Handing claims back (`HandBack`), the only operation that shortens the map under
other calls, has its own lemmas: it removes exactly the entries whose stamp and
owner are the caller's.

What a caller is given rests on `BookInv` with `ResultInv` (`ResultsKept`):
`KeyIsFirstInputs` (`KeyBoundToFirstInput`), `ReceiptsReachEveryClaim`
(`BuildReceiptsComplete`), `DuplicatesRefusedOnlyWhileOutstanding`
(`NoStaleDuplicateRefusal`) and `ResultsDoNotConflict` (`NoConflictingResults`).
`ResultInv` adds that the bound outpoint leads the selection while it goes on
(`FirstLeads`), that every selected input is one the build has claimed
(`SelectedIsClaimed`), and that a record of a recent build stands for an
outstanding result with the same inputs (`RecordsOutstanding`). Most steps of
another call are `Apart` from a build: they change neither its inputs nor its
ledger, and this lemma carries the proof past them. That results do not conflict
is then the exclusivity of live claims once more: of two builds with a common
input, one's claim has lapsed.

`BookImplementsLeases` (`ImplementsLeases`) is the refinement of `OutpointLeases`,
step by step: a claim is an `Acquire` of free outpoints, a throw or a release a
`Surrender` of the holder's own leases, a tick is `Elapse`, and everything else
stutters. It needs
`BookInv`: that the free outpoints of the map are the unleased ones is
`LiveClaimsReserved` and `NoOrphanReservation` together.

`SomeBuildServed` (`NoMutualStarvation`) is about the case without cancels, where
every job lists distinct candidates and no fewer than it needs (`Affordable`);
`Reservations_builds` is such a case. Without these the property is false: a
cancel may hold the outpoint every build needs, and a job may ask for more than
there is. `Contention` is the invariant: nobody has used the encoder (`Quiet`), or
some build has claimed first and is `Ahead` (it keeps the event loop, has skipped
nothing, and what is left of its order is unreserved) or `Served` (it has enough,
or failed for another reason). A tick is the only step of anybody else that an
`Ahead` build can meet.

### InstanceLockProofs

For any boots, pids, command lines and bounds of the
waits, hard links or none: `OneEncoderPerHost` (`OneNamedHolder`) and
`MutexIsGivenBack` (`NoAbandonedMutex`). A breaker acts on what it judged several
steps ago, so `LockInv` adds what makes that safe. `Signed`: a legible record was
left by a boot past its publication, under the pid it has while it runs. From it,
`Stale`: a record nobody alive could own stays one, because a boot publishes once
and an older release starts no more. `MutexExact` and `LockExact` carry the lock
unchanged from the verification under the mutex to the unlink. The proof needs
that records, the empty file and the missing one are told apart, and that the old
encoder is none of the boots.

### NodeCallsProofs (with ConcurrencyGate)

For any finite set of requests, any caps and batch
length: `GateAccounts` (`SlotsAccounted`) and `GateBoundsWork` (`WorkWithinCap`),
together `GateIsExact` (`GateHolds`).
`GateInv` adds to the types, per request, how the slot, the claim, the calls and
the response go together (`SlotOK`) and that a counter never passes its cap
(`WithinLimit`). The counter equals a cardinality, so one lemma each says what
giving and releasing a slot does to the set of holders; that the work is bounded
follows because every busy request of a gate holds a slot of that gate, which is
where the wrapper, the predicate and the batch guard have to agree.

For any worlds as well: `ImplementsGate`, every step of
the composition is a step of the gate or leaves it alone, so both theorems
hold of it (`NodeGateAccounts`, `NodeGateBoundsWork`, together `NodeGateHolds`); `TierMismatchHolds`
(`WrongTierStaysShut`) and `RepeatIsTruthful` (`RepeatTellsTheTruth`). The
invariant `NodeInv` adds `TierOK`, a remembered mismatch is the world's and no
pass was remembered with it, and `CallOK`, what a call's history allows of the
RPC it awaits and of the verdict under way to it: a call in whose whole lifetime
the node held the transaction has no rejection in flight, and one that began
after the mismatch was read waits for nothing but a lookup. Neither property is
inductive without it: a rejection is dangerous before it arrives.

### FeeSettlementProofs (with RevealFunding)

For any requests, markets, packages and amounts, and any second call:
`SettlementInvariant`, and from it `EveryUnitIsAccountedFor` (`NothingBurned`),
`SignedFeeIsWithinBounds` (`FeeWithinBounds`), `RefusedOnlyWhenUnfunded`
(`RefusedOnlyUnfunded`), `PackagesReachTheirRate` (`PackagesAtTarget`) and
`LegsPayForTheReveal` (`LegsPayTheReveal`). The invariant of the first call,
`FeeInv`, follows the order of `buildSteps`: `AccountsAgree` says that the outputs,
the legs or the commit output and what was set aside for the reveal are one sum
at each stage, `SelectionEnds` what a selection that stopped has met, `ChecksHold` that the relay and ceiling checks already
passed still hold of a fee raised later, `UpliftHeld` what the uplift took and why
not more, and `ChangeKept` what is left after the reveal's package is paid.
`RevealInv` says that the second call settled what its own request and the legs
decide. `RefusedOnlyUnfunded` needs the exact account of the selection: when it
ran out of candidates, all of them are in. The rounding of a fee up from a rate
has lemmas of its own (it is the least that pays, it grows with rate and size, and
the parts of a transaction never pay less than the whole), because every bound in
these theorems compares two such fees. The proof also found `RevealPackageAtTarget` too strong as
it had been stated: the instance of the run hid a bound that may bind as well,
and the property now names it.

### TrackerReadsProofs

For any tracker, page size, caps and profile: `ReadsAreBounded`,
`AcceptedReadsAreOneFreshSnapshot` (`OneFreshSnapshot`) and `TooLargeMeansTooLarge`
(`TooLargeIsTrue`), from `ReadInvariant`. `ReadInv` has two parts. `FetchInv` bounds
the read whatever the tracker publishes. `SnapshotInv` is under the hypothesis
`NamesItsState`, that the release publishes the fields by which a state can be
told and judged: an older tracker leaves some out, and `utxo_tracker.js` passes what
it cannot judge. The run checks the same properties for such a release, and the
code claims nothing for the older ones. The argument: an epoch names one mempool
(`EpochNamesMempool`) as a hash names one chain, the first and the last page's
fields are those of states the tracker was in (`SyncsRemembered`), so pages that do
not diverge were cut from one set, and the rows are a prefix of it up to the cursor
(`RowsAreAPrefix`); a cursor that is spent makes the prefix the whole
(`RowsAreComplete`).

### BuildReadsProofs (FeeQuotes, AncestorPackage, Candidates)

FeeQuotes, for any callers, nodes, estimates, floors and bounds:
`SourcesHold` (`FeeHasItsSource`), `DeadNodeBounded` (`DeadNodeIsWaitedForOnce`) and
`TiersOrdered` (`QuoteIsOrdered`). All three are facts about where a lookup may be.
`LookupOK` says on which chain each RPC is awaited, which of them come after an
answer of the node, and how many timeouts may lie behind a caller at each stage;
`TiersOK` that the tiers so far are in order and in bounds, which the next one keeps
because it is the maximum with them.

AncestorPackage, for any transactions and roots: `PackageCarriesItsBranches`
(`BranchesCarried`), both halves. `PackageInv` says what the branch under way has
staged, and over which package (`BranchAt`), and that the branches behind the loop are in the package with all that is still stuck above them
(`BranchesBehind`). The ancestors of a transaction are the least set that has its
inputs and is closed under spending, so that an induction over the graph is a
choice of one closed set.

Candidates, for any rows, values and ranks: `ListingsDoNotMatter`
(`ListingOrderIrrelevant`) and `SpendablesAreCandidates` (`SpendableAreCandidates`).
`CandidatesInv` says of each draft what its list is at its step. The survivors are
given by what survives, and not by a loop over the rows: the i-th candidate has as many before it as its place
says, and two lists in strict order with the same elements are the same list
because equal places count equal sets.

### PayloadPathProofs (with PayloadSizes and RequestChecks)

For any requests, networks and lengths: `PathInvariant`, and from it every property of the run:
`CarriersHoldThePayload` (`CarriersReassemble`), `NothingIsLost`
(`NothingSilentlyLost`), `RevealRebuilds` (`RevealRebuildsChunks`), `RevealsRelay`
(`RevealRelays`) and `ValidatorAndBuildAgree` (`ValidatorAgrees`); about the
cutting alone `PiecesCover`, `PiecesFitTheirCarriers` and `PushSizesAgree`.
None of the properties is inductive, for each compares the end of a build with
its request. `PathInv` ties the two together at each step:

- `RequestOK` and `TakenOK`: the surfaces check different things, and by either
  way the fields in use are those of the request, as written;
- `PayloadOK`: the payload is the caller's, or the one compression rewrote with
  its marker, and then it was one that may be rewritten;
- `SettledOK`: the carrier is the one chosen for the payload as it is now, which
  is measured after compression though the validator measured before it;
- `SecondOK` and `RebuildOK`: a second call is the first one's with what was
  handed back, and comes to the same payload as long as the handed-back payload
  cannot be compressed again.

A sum of sizes (`Total`) is a recursive function. What is needed of sums (they
compare term by term, are bounded by their bounds, and the pieces add up to the
stream) follows from the least index at which it would fail, since induction with
an operator as parameter is out of the prover's reach. For the relay the three
lanes are weighed in general: what a commit prices per leg is at least what the
leg weighs when signed, the bytes under the floor are those the pad adds, and at
most 18 legs, an envelope of 750 chunks and 101 payments stay under the standard
weight.

### OperatorViewProofs (LogShipper, RequestMetrics, MaintenanceWindow)

LogShipper, for any batch and buffer sizes: `ShipperTyped`,
`Accounted` and `StreamOrdered`, together `StreamIsAccounted` (`StreamAccounted`), from
`ShipInv == TypeOK /\ NothingVanishes /\ OrderKept /\ OldestDropped /\ LossBehind`
(`StreamKept` is `OrderKept /\ OldestDropped`).
`LossBehind` is the strengthening: every lost line is older than the batch in
flight, or the buffer behind that batch is full. A line is only lost behind a
batch when the buffer is full, and a buffer in that state stays full until the
post ends, so a failing batch finds no room and is lost as well. Without it the
batch could come back older than a line already lost. `DropsAreCounted` (`DroppedIsCounted`) adds
`DropInv`, which reads the losses as a set: what is lost and what is pending are
disjoint (`Apart`), every line emitted is collected, lost or pending (`Seen`), and
the counter is the cardinality of the lost set. The order keeps it inductive: no
line is in the batch and the buffer at once, or in either twice, so a failure
that counts the batch minus what it keeps counts each lost line exactly once.

RequestMetrics, for any finite sets of connections, routes and methods,
any segments, statuses and caps: `GaugeIsOpen` (`InFlightIsOpen`), `EveryEndIsTold`
(`EndedIsTold`), together `EveryRequestIsTold` (`RequestsTold`), and `RoutesKeepRoom`
(`UnmatchedLeaveRoom`). The last is not
inductive: that the next latency finds room takes that every series a latency has
is a method with a label (`LabelsOK`), and that the labels are the routes, those
given out within the cap, and the overflow. The proof bounds the product of the
two sets by the budget.

MaintenanceWindow, for any window, clock, files and probes: `SentinelsAreBounded`
(`WindowsBounded`). `JudgedByThisFile` says that all that was published by one
file's probes was judged by that file, however late it was read; the times it
excuses then lie within one window, and a file that reads refused at one time
does at every time it was asked about.

### Assumptions, and what stays with TLC

Assumptions are the named `ASSUME`s of the modules, which TLC evaluates in each run:
TTL and sizes are positive
naturals, a job has candidates and needs at least one, builds and cancels are
different calls, the requests are finitely many. Two of PayloadPath's are the
code's own numbers: at most 100 payments (`MAX_CUSTOM_OUTPUTS`) of 31 to 43 bytes
each, and stripped-size floors of at most 85 bytes. A request is any record of
what its fields may hold (`CreateCalls`); that a library caller hands over checked
fields is the contract of `buildSteps`, which validates nothing but the payload.
`TrackerAssumption` has the rows of an address finite and numbered.

Only model-checked:

- every liveness property (`WF`, `~>`) and `ENABLED`, which are beyond the prover;
- the violations, which are counterexamples.

## 6. Not modelled

The bytes of scripts, the obfuscation and the buffer patch are data without
control. Coins and protocol changes are tables, configuration and error texts are
reads and replacements. No method of the server reaches the chain adapters. The
crash handlers log one record and exit or go on; the rate limiter's log line, CORS
and the JSON error handler are filters of one request. The validators of the other
methods, the rendering of the metrics and body parsing keep no state another step
relies on. Restarts lose the reservation book by design, and no property could hold
across one.

## 7. Plan

Modelled, in the order of importance: Reservations with its abstract
specification, InstanceLock, TrackerReads, ConcurrencyGate with NodeCalls,
LogShipper, FeeSettlement with RevealFunding, PayloadPath, FeeQuotes,
AncestorPackage, Candidates, RequestMetrics, MaintenanceWindow. What is left of the
code is named under 6; a module that would pay for itself is the `get_utxos` method
beside `create_tx` in TrackerReads.
