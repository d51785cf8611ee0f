# Verification of ethkit

TLA+ models of [ethkit](../src), their TLC instances, and machine-checked proofs. The core of the
project is `ethmonitor`: the component that follows a node's canonical chain through reorgs and
tells subscribers about it, on which `ethreceipts` and other users are built.

## The system

| Part | State | Operations | Interacts with |
|---|---|---|---|
| `ethmonitor.Chain` | the retained blocks, bounded | push, pop, eviction, reads by clients | monitor loop, clients (mutex) |
| `ethmonitor` publish queue | events waiting for logs or for the trail | enqueue (a removal cancels the last addition), dequeue | monitor loop |
| `ethmonitor.Monitor` loop | `nextBlockNumber`, the sink of events, the recursion of `buildCanonicalChain` | fetch, extend, reorg, logs, backfill, publish | node, chain, queue, broadcaster |
| `ethmonitor` broadcaster | the batch it received | receive from `publishCh`, send to every subscriber | loop (unbuffered channel), subscribers |
| `ethmonitor` new heads | `latestHeadBlock`, the stream, error count, timers | announce heads or poll, notify the loop | node, loop (two channels, one atomic, one mutex) |
| `ethmonitor` bootstrap | the chain | build a chain from stored events | chain |
| `ethreceipts` listener | subscribers, filters, two caches | match blocks, register filters, fetch receipts, exhaust filters | monitor subscription, node |
| `ethreceipts` finalizer | queue of mined transactions | enqueue, dequeue | listener, two goroutines |
| `ethmempool` | subscribers | stream pending transactions to them | node, subscribers |
| `ethgas` | suggested prices | choose bids, moving averages | monitor subscription |
| `ethrpc` | none (batches in flight) | encode calls, match results | node |
| `ethtxn`, `ethwallet`, `ethcoder`, `ethproviders`, `ethartifact`, `ethcontract`, `ethdeploy`, `ethutil` | none or configuration | conversions and single calls | |

What makes it hard: reorgs that overlap failed fetches and other reorgs; a chain that is changed
one block at a time while others read it; logs that arrive cycles after their block; subscribers
that come and go while events wait; three goroutines that hand over block numbers on unbuffered
channels; and Stop, cancellation and a second Run at any point. `PROJECT.json` lists these hazards
at the lines where they bite.

## Modules

| Module | Models |
|---|---|
| `BlockTree` | blocks as paths in a tree; a hash commits to the history, so equal hashes are equal paths |
| `EventStream` | `Event`, `Block`, its OK flag; what it means for events to link up |
| `Chain` | `chain.go`: push, pop, retention; `LatestFinalBlock` |
| `PublishQueue` | `pubsub.go`: enqueue, dequeue |
| `Monitor` | `Run`, `Stop`, `monitor()`, `buildCanonicalChain`, logs, `publish`, broadcasters, subscribers |
| `MCMonitor` | block trees for TLC |
| `MonitorProofs` | the theorems about `Monitor` |
| `NewHeads` | `listenNewHead` and how `monitor()` takes numbers from it |

`Chain` and `PublishQueue` are operators on values; `Monitor` extends them and holds the state.

### Monitor

`pc` is the control state of the goroutine in `Run`. One action is one stretch of code between two
points at which another goroutine may see or change the state: a mutex that is released, a fetch, a
channel. A reorg is therefore many steps: `BuildForks` (the comparison), `BuildPop`, `FetchParent`
(the recursive call; `nextBlocks` is the stack of its arguments), and `BuildUnwind` for each return.
`FetchParentFails` returns from all calls and keeps the sink, as `monitor()` does; `BuildCancelled`
replaces it by nil. `EnqueueEvent` is one iteration of `enqueue`'s loop, so an error can leave the
queue half-way. `maxBlockNum` is computed before `enqueue`, from whatever the chain is then.

A block object is shared by pointer between the chain, the sink and the queue. The model keeps
copies and sets the OK flag in all of them (`MarkReady`); `"orphan"` is the flag of an object that
only the queue still holds because the same block was added again (`Orphan`).

The node is an adversary within limits: `NodeHead` moves to any block of the tree, but never
reverts one that has `MaxReorg` blocks on top of it. A fetch by number sees the canonical chain of
the moment, a fetch by hash finds any block or fails. The cache is part of "may fail"; stale answers
from a shared cache are not modelled.

`tip` and `lost` are history variables: the head the emitted events lead to, and whether an event
was dropped (nobody subscribed while others waited, sink abandoned by Stop) or a chain was re-rooted
without one. `last` is the last event each subscriber was sent.

At `"panic"` a nil result of `pop` or `LatestBlock` has been dereferenced. Only `PurgeHistory` makes
that possible: `NeverPanics` is about monitors whose clients do not call it.

`cancelled` is the set of runs whose context is done. A run is given a context of its own, one it
shares with an earlier run (`CancelRunContext` takes a set of runs), or one that is done already.
`Stop` and `UnsubscribeAll` are one step each, although the code ends the context first and then
closes one subscriber after the other. The states in between are those of an instance without
`UnsubscribeOnStop` in which `Stop` is followed by `Unsubscribe` calls, so the theorems, which hold
for every option and set of calls, cover them. `Unsubscribe` itself is atomic: the channel that is
closed before it leaves the list (hazard at `ethmonitor.go:1010`) belongs to a library.

### NewHeads

`announcer`, `notifier` and `loop` are the three goroutines. Blocks are numbers here. The notifier's
read of `nextBlockNumber`, its load of `latestHeadBlock`, and its wait are separate steps, so the
announcer's non-blocking signal can fall between them and be lost. A failed build pops one block or
all of them. Time is abstract: timers fire at any moment, `IntervalPasses` marks a reset interval
without an error (`recent` counts the errors since).

## Runs

Passing:

| Run | Shows |
|---|---|
| `monitor_core` | Two branches of two blocks after a common one, any reorg between them, logs that fail, a subscriber that comes and goes: the chain is linked at every step (`ChainIsContiguous`), the blocks held by the recursion fit (`UnwindFits`), no nil is dereferenced (`NeverPanics`), the queue rejects nothing unless an event was lost (`NeverRejects`), and batches continue each other (`DeliveryIsLinked`). |
| `monitor_shallow` | Retention 3, reorgs of one block on a tree with forks at each height, trail 1: nothing is lost (`NothingLost`), `LatestFinalBlock` is never reverted (`FinalIsFinal`), and the trail holds and hides reorgs (`TrailsBehindHead`, `TrailHidesReorgs`). |
| `monitor_live` | Liveness: `CatchesUp` for a polling monitor, `StopReturns` for any, and `ReorgFitsQueue`. |
| `monitor_restart` | Stop, cancellation, `PurgeHistory`, failing initialisation and a second Run with a fresh or a done context, start relative to the latest block. |
| `heads_stream` | A head announced to a waiting notifier is fetched, and all before it (`HeadWakesLoop`). |
| `heads_modes` | Both modes with errors, failures and Stop: `CatchesUp` for polling, `StreamsAgain` as long as the node produces blocks, `Returns`. |

Violated, each by what the code does against what the repository says (`findings` in `PROJECT.json`):

| Run | Shows |
|---|---|
| `monitor_v_reject` | Events dropped without subscribers make a later removal meet the wrong block in the queue, which ends Run; the comment says it is impossible. |
| `monitor_v_trail` | With a head number at or below the trail the limit is 0 (none) or wraps around. |
| `monitor_v_waiting` | A third block evicts the oldest of two from the chain while it waits for logs, after which nothing backfills it. |
| `monitor_v_retry` | A reorg that fails with the chain emptied is "retried" above the blocks it removed. |
| `heads_v_reset` | Stream errors far apart still add up, because the time of the last error is set just before it is compared. |
| `heads_v_close` | After Stop the polling announcer can block for good in its send. |

Two more divergences are in the models without a run of their own. `PurgeHistory` clears the head
too (`blocks[1:1]`), after which `"panic"` is reachable. In streaming mode a block whose fetch or
build failed is not retried before the next head, since `latestHeadBlock` is not greater than
`nextBlockNumber`. A third is only read: `Chain.Blocks` returns one block that is not OK; it changes
no state and is not modelled.

### Bounds

Trees have four levels at most, two branches apart by two blocks: the smallest in which a reorg of
two blocks meets a retention of two, so that blocks are evicted, the chain is emptied by a reorg,
and the recursion is two deep. `MaxHeads` (1 to 4 changes of head) allows a reorg during a reorg
and a return to the first branch. `RetentionMin` is 2 instead of 10 so that the limits are within
the tree. One subscriber is enough for the delivery properties, which speak of each on its own.
`MaxRuns` is 2 where restarts are studied. `Uint64` is 65536: wrap-around needs only a number larger
than the heads. `MaxHead`, `MaxErrors` and `SwitchToPolling` in `NewHeads` (4 at most) cover a lost
signal, a stale one, the switch, the return, and a second switch by errors after the return. No
symmetry is used. Deadlock checking is off where the node stops at `MaxHeads` and the loop waits for
the next block, or Run has returned.

### Fairness

Weak fairness for every step a goroutine takes on its own, as Go's scheduler gives it. Strong
fairness for a case of a `select` that is ready again and again (`Stopped`, `Return`,
`CloseNextBlock`, the retry timer), since `select` chooses at random. Strong fairness for fetches:
one retried forever succeeds eventually, without which no monitor can catch up; in `NewHeads` per
block number.

What the environment must do for a liveness property is a premise of that property, not part of the
specification. `Polling`, that the loop is woken again and again, is the premise of `Monitor`'s
`CatchesUp`; `NewHeads` justifies it for a monitor that polls. It does not hold when streaming: once
the node has settled, a failed fetch or build leaves the notifier waiting for a head that never comes
(`ethmonitor.go:469`). `StopReturns` has no such premise. `FindsBlocks`, that the loop never stays in
`fetchNextBlock` for good, is the premise of `StreamsAgain`: without a cache the search for a block
that does not exist ends only with the context, and meanwhile the announcer is blocked in
`nextBlock <- 0` and does not see the retry timer. In the model, where the node stops at `MaxHead`,
the behaviours that meet it are those in which fetches and builds go on failing. Errors of the stream
are bounded by `MaxErrors`: a stream that fails forever is never streamed from again.

## Proofs

`MonitorProofs` proves, for every tree, retention, trail, set of calls, subscribers and number of
runs, from the assumptions named in the modules (`BlocksAssumption`: the tree is closed under
prefixes; `OptionsAssumption`, `FirstNumberAssumption`, `MonitorAssumption`: types):

| Theorem | Property |
|---|---|
| `TypeCorrect` | `TypeOK` |
| `ChainAlwaysContiguous` | `ChainIsContiguous` |
| `UnwindAlwaysFits` | `UnwindFits` |
| `MonitorNeverPanics` | `NeverPanics` |
| `QueueNeverRejects` | `NeverRejects` |
| `DeliveryAlwaysLinked` | `DeliveryIsLinked` |

`TypeOK` is inductive. `ChainIsContiguous` is too, given the types: push compares parents and pop
only shortens. The other four are not. The invariant `IInv` adds what the code relies on silently:

- `CallsInv`: each block on the recursion stack is the parent of the one below it, and when the
  inner call has returned the events lead to the parent of the block its caller holds.
- `ChainInv`: the chain is linked and, unless empty, ends in `tip`.
- `HeadInv`: without `PurgeHistory` the chain is not empty where its head is dereferenced.
- `QuietInv`: nothing is queued or held before the first event.
- `StreamInv`: unless an event was lost, there are heads *p* and *q* such that the last events of
  the subscribers, the batches with the broadcaster and in `publish`, the queue (from *p* to *q*) and
  the sink (from *q* to `tip`) are one path through the tree.

The argument: an addition extends the sink's path at `tip`, a removal reverses its last step
(`ChainInv` makes the popped block the tip); a removal that meets the queue's last addition cancels
it and shortens the queue's path by that step; dequeue and receive move a prefix on. A rejected
removal would be a removal of a block that is not where the queue's path ends. Lemmas on paths
(`PathAppend`, `PathFront`, `PathTail`, `PathCut`) carry these steps.

Only model-checked: everything temporal (`CatchesUp`, `StopReturns`, all of `NewHeads`),
`NothingLost`, `FinalIsFinal`, the trail properties and `ReorgFitsQueue`. Liveness is out of the
prover's reach; `FinalIsFinal` is next (it needs that blocks of the chain agree with the node up to
`MaxReorg` below its peak).

## Not modelled

The shared cache's stale entries, two concurrent calls of `Run`, average block time, payloads and the
content of logs. `ethreceipts`, `ethmempool`, `ethgas`, bootstrap: see the plan. `ethwallet`,
`ethcoder`, `ethutil` are cryptography and encodings; `ethproviders`, `ethartifact`, `ethcontract`,
`ethdeploy`, `ethtest`, `cmd` hold configuration, wrappers and tools; `go-ethereum` is vendored.

## Plan

In this order; each item names the module, what it composes with, its run and what is to be proved.

1. `Bootstrap` on top of `Chain`: truncation and failure half-way, then `Run`. Run: up to four stored
   events, in and out of order, retention 2. Question: is the chain `Run` starts from linked, and the
   newest part of what was stored?
2. `CanonicalView`, the abstract specification of what a subscriber is promised (a head that moves
   along edges of the tree), implemented by `Monitor` under the mapping that takes the subscriber's
   last event to that head. Run: the instance of `monitor_core`. Proof: from `StreamInv`.
3. A fetch through the shared cache, keyed by number, as an action of `Monitor`. Run: two branches,
   an entry that outlives a reorg.
4. `Finalizer`: the queue, its order and its dequeue, fed by the block goroutine and by the
   registration goroutine. Run: two transactions, two block numbers, one of them mined again after a
   reorg, finality 1. Properties: order, each transaction final once, final on the canonical chain,
   eventually final. Proof: order and at most once for an in-order feed.
5. `Receipts`: filters, matching, exhaustion (`MaxWait`), composed with `Finalizer` and fed by
   `EventStream`. Run: one subscriber, two filters, a search in the past, a reorg.
6. `ReceiptFetch`: the semaphore, the two caches and the channels of `fetchTransactionReceipt`. Run:
   two requests for the same transaction, errors, cancellation. Questions: no send on a closed
   channel, every request is answered.
7. `Mempool` with subscribers that leave during a broadcast; the bid selection and averages of
   `ethgas` as operators against a reference, over lists of up to four bids; the matching of `ethrpc`
   batches with results that are missing, reordered or fail.
8. Proofs: `FinalIsFinal` (blocks of the chain agree with the node's chain up to `MaxReorg` below its
   peak; blocks of the chain are ancestors of each other), then safety of `NewHeads`.
