-------------------------------- MODULE Monitor --------------------------------
(***************************************************************************)
(* ethmonitor.Monitor: the loop that follows a node's canonical chain, the *)
(* publish queue between it and its broadcaster goroutines, the            *)
(* subscribers, and the calls clients make on it.                          *)
(*                                                                         *)
(* The loop is the goroutine that runs Run; pc is where it stands:         *)
(*   "off"     Run is not executing       "logs"    addLogs, backfill      *)
(*   "idle"    select of monitor()        "publish" subscriber check       *)
(*   "fetch"   fetchNextBlock             "enqueue" enqueue, then dequeue  *)
(*   "build"   buildCanonicalChain        "send"    publishCh <- pubEvents *)
(*   "pop"     its pop                    "rejected", "full", "stopped"    *)
(*   "parent"  its fetchBlockByHash               monitor() returns        *)
(*   "unwind"  its pushes after the       "panic"   nil dereference        *)
(*             recursive call                                              *)
(* At "panic" the process is dead; what else the model still does there    *)
(* does not matter.                                                        *)
(***************************************************************************)
EXTENDS PublishQueue

CONSTANTS Subscribers,        \* the subscribers clients may create
          Calls,              \* the calls clients make, see AllCalls
          StartBlockNumber,   \* Options.StartBlockNumber
          Nil,                \* a nil block number, block or event
          WithLogs,           \* Options.WithLogs
          UnsubscribeOnStop,  \* Options.UnsubscribeOnStop
          Uint64,             \* the number of values of a uint64 (2^64 in the code)
          MaxReorg,           \* the node never reverts a block buried deeper
          MaxRuns,            \* bound: calls of Run
          MaxHeads            \* bound: changes of the node's head

AllCalls == {"Subscribe", "Unsubscribe", "Stop", "CancelRunContext", "PurgeHistory"}

ASSUME MonitorAssumption ==
    /\ Calls \subseteq AllCalls
    /\ Nil \notin Int /\ Nil \notin Blocks /\ Nil \notin Events
    /\ StartBlockNumber \in Int \cup {Nil}
    /\ WithLogs \in BOOLEAN
    /\ UnsubscribeOnStop \in BOOLEAN
    /\ Uint64 \in Nat \ {0}
    /\ MaxReorg \in Nat
    /\ MaxRuns \in Nat
    /\ MaxHeads \in Nat

VARIABLES
    nodeHead,         \* the head of the node's canonical chain
    nodePeak,         \* the greatest length that chain has had
    heads,            \* how often it has changed
    pc,               \* the control state of the loop
    chain,            \* Monitor.chain.blocks
    nextBlockNumber,  \* Monitor.nextBlockNumber
    nextBlocks,       \* the nextBlock of each active buildCanonicalChain call
    events,           \* the events sink of monitor()
    queue,            \* Monitor.publishQueue.events
    maxBlockNum,      \* publish's local of that name, 0 outside of it
    pubEvents,        \* what publish is sending on publishCh
    runs,             \* how often Run was called
    stopped,          \* Monitor.ctx is done
    cancelled,        \* the runs whose context, the one passed to Run, is done
    broadcasters,     \* the live broadcaster goroutines
    held,             \* what each of them has received and not yet broadcast
    subscribers,      \* Monitor.subscribers
    last,             \* the last event each subscriber was sent
    tip,              \* history: the chain head the events emitted so far lead to
    lost              \* history: an event was dropped, or never produced

node == <<nodeHead, nodePeak, heads>>
sending == <<pubEvents, maxBlockNum>>
loop == <<pc, nextBlockNumber, nextBlocks, events, sending>>
life == <<runs, stopped, cancelled, broadcasters>>
subs == <<held, subscribers, last>>
vars == <<node, loop, chain, queue, life, subs, tip, lost>>

Runs == 1 .. MaxRuns
PCs  == {"off", "idle", "fetch", "build", "pop", "parent", "unwind", "logs", "publish",
         "enqueue", "send", "rejected", "full", "stopped", "panic"}

Init ==
    /\ nodeHead \in Blocks
    /\ nodePeak = Len(nodeHead)
    /\ heads = 0
    /\ pc = "off"
    /\ chain = <<>>
    /\ nextBlockNumber = Nil
    /\ nextBlocks = <<>>
    /\ events = <<>>
    /\ queue = <<>>
    /\ maxBlockNum = 0
    /\ pubEvents = <<>>
    /\ runs = 0
    /\ stopped = FALSE
    /\ cancelled = {}
    /\ broadcasters = {}
    /\ held = [r \in Runs |-> <<>>]
    /\ subscribers \in SUBSET Subscribers    \* clients subscribe before Run, too
    /\ last = [s \in Subscribers |-> Nil]
    /\ tip = Nil
    /\ lost = FALSE

--------------------------------------------------------------------------------
(* The node. *)

\* The node mines a block or switches to another branch; blocks buried deeper
\* than MaxReorg under the highest head it has had are never reverted.
NodeHead ==
    /\ heads < MaxHeads
    /\ \E b \in Blocks \ {nodeHead} :
        /\ \A n \in 1 .. nodePeak - MaxReorg : n <= Len(b) /\ b[n] = nodeHead[n]
        /\ nodeHead' = b
        /\ nodePeak' = AtLeast(Len(b), nodePeak)
    /\ heads' = heads + 1
    /\ UNCHANGED <<loop, chain, queue, life, subs, tip, lost>>

--------------------------------------------------------------------------------
(* The loop. *)

\* What Run sets nextBlockNumber to; a negative StartBlockNumber counts from the
\* latest block, whose fetch may fail.
StartNumbers ==
    IF chain # <<>> THEN {Number(ChainHead(chain).block) + 1}
    ELSE IF StartBlockNumber = Nil THEN {nextBlockNumber}
    ELSE IF StartBlockNumber >= 0 THEN {StartBlockNumber}
    ELSE LET n == Number(nodeHead) + StartBlockNumber
         IN  {nextBlockNumber, IF n < 0 THEN Nil ELSE n}

\* Monitor.ctx is derived from the context given to Run.  Where clients cancel contexts
\* it may be done already: with Options.ChainID set, lazyInit goes on all the same.
Run ==
    /\ pc = "off"
    /\ runs < MaxRuns
    /\ runs' = runs + 1
    /\ \/ cancelled' = cancelled
       \/ "CancelRunContext" \in Calls /\ cancelled' = cancelled \cup {runs + 1}
    /\ stopped' = (runs + 1 \in cancelled')
    /\ nextBlockNumber' \in StartNumbers
    /\ broadcasters' = broadcasters \cup {runs + 1}
    /\ pc' = "idle"
    /\ UNCHANGED <<node, chain, queue, subs, nextBlocks, events, sending, tip, lost>>

\* lazyInit fails: Run has replaced Monitor.ctx and returns.
RunFails ==
    /\ pc = "off"
    /\ \/ stopped' = FALSE
       \/ "CancelRunContext" \in Calls /\ stopped' = TRUE
    /\ UNCHANGED <<node, loop, chain, queue, runs, cancelled, broadcasters, subs, tip, lost>>

\* Mutant: the number after the next one is fetched.
NewHeadSkips ==
    /\ pc = "idle"
    /\ nextBlockNumber' = IF chain = <<>> THEN nextBlockNumber
                          ELSE Number(ChainHead(chain).block) + 2
    /\ pc' = "fetch"
    /\ UNCHANGED <<node, chain, queue, life, subs, nextBlocks, events, sending, tip, lost>>

\* A new head is signalled and is not behind nextBlockNumber.
NewHead ==
    /\ pc = "idle"
    /\ nextBlockNumber' = IF chain = <<>> THEN nextBlockNumber
                          ELSE Number(ChainHead(chain).block) + 1
    /\ pc' = "fetch"
    /\ UNCHANGED <<node, chain, queue, life, subs, nextBlocks, events, sending, tip, lost>>

\* fetchNextBlock returns the block of the node's canonical chain.
FetchNextBlock ==
    /\ pc = "fetch"
    /\ ~ stopped
    /\ nextBlockNumber # Nil => nextBlockNumber \in FirstNumber .. Number(nodeHead)
    /\ nextBlocks' = << IF nextBlockNumber = Nil THEN nodeHead
                        ELSE OnBranch(nodeHead, nextBlockNumber) >>
    /\ pc' = "build"
    /\ UNCHANGED <<node, chain, queue, life, subs, nextBlockNumber, events, sending,
                   tip, lost>>

\* fetchNextBlock returns an error: a bad response, or the context is done.
FetchNextBlockFails ==
    /\ pc = "fetch"
    /\ pc' = "idle"
    /\ UNCHANGED <<node, chain, queue, life, subs, nextBlockNumber, nextBlocks, events,
                   sending, tip, lost>>

NextBlock == nextBlocks[Len(nextBlocks)]

\* The same block, added again, is a new object: see OKStates.
Orphan(q, b) ==
    [i \in DOMAIN q |->
        IF q[i].event = Added /\ q[i].block = b /\ q[i].ok = "pending"
        THEN [q[i] EXCEPT !.ok = "orphan"] ELSE q[i]]

\* Append an Added event for b to the sink and push it on the chain.
AddBlock(b) ==
    /\ chain' = Push(chain, AddedEvent(b))
    /\ events' = Append(events, AddedEvent(b))
    /\ queue' = Orphan(queue, b)
    /\ tip' = b

\* Mutant: the callers that still hold a block are forgotten.
ReturnedFromAll ==
    /\ nextBlocks' = SubSeq(nextBlocks, 1, Len(nextBlocks) - 1)
    /\ pc' = "logs"

\* One of the calls of buildCanonicalChain has returned without an error.
Returned ==
    /\ nextBlocks' = SubSeq(nextBlocks, 1, Len(nextBlocks) - 1)
    /\ pc' = IF Len(nextBlocks) = 1 THEN "logs" ELSE "unwind"

\* The context is done: the sink is replaced by nil.
BuildCancelled ==
    /\ pc = "build"
    /\ stopped
    /\ events' = <<>>
    /\ nextBlocks' = <<>>
    /\ pc' = "idle"
    /\ lost' = (lost \/ events # <<>>)
    /\ UNCHANGED <<node, chain, queue, life, subs, nextBlockNumber, sending, tip>>

\* nextBlock extends the head, or there is no head to compare it with.
BuildExtend ==
    /\ pc = "build"
    /\ ~ stopped
    /\ CanPush(chain, NextBlock)
    /\ AddBlock(NextBlock)
    /\ Returned
    /\ lost' = (lost \/ tip \notin {Nil, Parent(NextBlock)})
    /\ UNCHANGED <<node, life, subs, nextBlockNumber, sending>>

\* nextBlock is on another branch than the head.
BuildForks ==
    /\ pc = "build"
    /\ ~ stopped
    /\ ~ CanPush(chain, NextBlock)
    /\ pc' = "pop"
    /\ UNCHANGED <<node, chain, queue, life, subs, nextBlockNumber, nextBlocks, events, sending,
                   tip, lost>>

\* Mutant: the block that does not fit is reported removed.
BuildPopReportsNext ==
    /\ pc = "pop"
    /\ chain # <<>>
    /\ chain' = Pop(chain)
    /\ events' = Append(events, RemovedEvent(NextBlock))
    /\ tip' = Parent(ChainHead(chain).block)
    /\ pc' = "parent"
    /\ UNCHANGED <<node, queue, life, subs, nextBlockNumber, nextBlocks, sending, lost>>

\* The head is popped and reported removed.
BuildPop ==
    /\ pc = "pop"
    /\ chain # <<>>
    /\ chain' = Pop(chain)
    /\ events' = Append(events, RemovedEvent(ChainHead(chain).block))
    /\ tip' = Parent(ChainHead(chain).block)
    /\ pc' = "parent"
    /\ UNCHANGED <<node, queue, life, subs, nextBlockNumber, nextBlocks, sending, lost>>

\* PurgeHistory got in between: pop returns nil, which is dereferenced.
BuildPanics ==
    /\ pc = "pop"
    /\ chain = <<>>
    /\ nextBlocks' = <<>>
    /\ pc' = "panic"
    /\ UNCHANGED <<node, chain, queue, life, subs, nextBlockNumber, events, sending, tip, lost>>

\* Mutant: the next head is popped without comparing it with the parent.
FetchParentPops ==
    /\ pc = "parent"
    /\ ~ stopped
    /\ nextBlocks' = Append(nextBlocks, Parent(NextBlock))
    /\ pc' = "pop"
    /\ UNCHANGED <<node, chain, queue, life, subs, nextBlockNumber, events, sending,
                   tip, lost>>

\* Mutant: the parent is fetched by number, from the node's current chain.
FetchParentByNumber ==
    /\ pc = "parent"
    /\ ~ stopped
    /\ Number(NextBlock) - 1 <= Number(nodeHead)
    /\ nextBlocks' = Append(nextBlocks, OnBranch(nodeHead, Number(NextBlock) - 1))
    /\ pc' = "build"
    /\ UNCHANGED <<node, chain, queue, life, subs, nextBlockNumber, events, sending,
                   tip, lost>>

\* fetchBlockByHash returns the parent of nextBlock: the recursive call.
FetchParent ==
    /\ pc = "parent"
    /\ ~ stopped
    /\ nextBlocks' = Append(nextBlocks, Parent(NextBlock))
    /\ pc' = "build"
    /\ UNCHANGED <<node, chain, queue, life, subs, nextBlockNumber, events, sending,
                   tip, lost>>

\* Mutant: the next attempt starts with an empty sink.
FetchParentFailsFresh ==
    /\ pc = "parent"
    /\ nextBlocks' = <<>>
    /\ events' = <<>>
    /\ pc' = "idle"
    /\ UNCHANGED <<node, chain, queue, life, subs, nextBlockNumber, sending, tip, lost>>

\* It fails: every active call returns, the sink is kept for the next attempt.
FetchParentFails ==
    /\ pc = "parent"
    /\ nextBlocks' = <<>>
    /\ pc' = "idle"
    /\ UNCHANGED <<node, chain, queue, life, subs, nextBlockNumber, events, sending,
                   tip, lost>>

\* The recursive call has returned and nextBlock goes on top of what it built.
BuildUnwind ==
    /\ pc = "unwind"
    /\ CanPush(chain, NextBlock)
    /\ AddBlock(NextBlock)
    /\ Returned
    /\ UNCHANGED <<node, life, subs, nextBlockNumber, sending, lost>>

PendingBlocks(s) == {s[i].block : i \in {j \in DOMAIN s : s[j].event = Added /\ s[j].ok = "pending"}}

\* Set OK on the objects of the blocks in S.
MarkReady(s, S) ==
    [i \in DOMAIN s |->
        IF s[i].event = Added /\ s[i].ok = "pending" /\ s[i].block \in S
        THEN [s[i] EXCEPT !.ok = "ready"] ELSE s[i]]

\* Mutant: without WithLogs the blocks are never marked OK.
FetchLogsOnly ==
    /\ pc = "logs"
    /\ \E S \in IF WithLogs THEN SUBSET (PendingBlocks(events) \cup PendingBlocks(chain))
                ELSE {{}} :
        /\ events' = MarkReady(events, S)
        /\ chain' = MarkReady(chain, S)
        /\ queue' = MarkReady(queue, S)
    /\ pc' = "publish"
    /\ UNCHANGED <<node, life, subs, nextBlockNumber, nextBlocks, sending, tip, lost>>

\* addLogs tries the additions of this cycle, backfillChainLogs the blocks of the
\* chain that an earlier cycle left behind; each attempt may fail.
FetchLogs ==
    /\ pc = "logs"
    /\ \E S \in IF WithLogs THEN SUBSET (PendingBlocks(events) \cup PendingBlocks(chain))
                ELSE {PendingBlocks(events)} :
        /\ events' = MarkReady(events, S)
        /\ chain' = MarkReady(chain, S)
        /\ queue' = MarkReady(queue, S)
    /\ pc' = "publish"
    /\ UNCHANGED <<node, life, subs, nextBlockNumber, nextBlocks, sending, tip, lost>>

\* publish finds no subscriber and returns; the events of the cycle are dropped.
PublishSkip ==
    /\ pc = "publish"
    /\ subscribers = {}
    /\ events' = <<>>
    /\ pc' = "idle"
    /\ lost' = (lost \/ queue # <<>> \/ \E r \in broadcasters : held[r] # <<>>)
    /\ UNCHANGED <<node, chain, queue, life, subs, nextBlockNumber, nextBlocks, sending, tip>>

\* Mutant: one block too far.
MaxBlockNumPlusOne ==
    IF Trail > 0 THEN (Number(ChainHead(chain).block) - Trail + 1) % Uint64 ELSE 0

\* The limit publish gives to dequeue, in uint64 arithmetic; 0 is no limit.
MaxBlockNum ==
    IF Trail > 0 THEN (Number(ChainHead(chain).block) - Trail) % Uint64 ELSE 0

PublishStart ==
    /\ pc = "publish"
    /\ subscribers # {}
    /\ Trail > 0 => chain # <<>>
    /\ maxBlockNum' = MaxBlockNum
    /\ pc' = "enqueue"
    /\ UNCHANGED <<node, chain, queue, life, subs, nextBlockNumber, nextBlocks, events,
                   pubEvents, tip, lost>>

\* LatestBlock is nil after PurgeHistory.
PublishPanics ==
    /\ pc = "publish"
    /\ subscribers # {}
    /\ Trail > 0
    /\ chain = <<>>
    /\ pc' = "panic"
    /\ UNCHANGED <<node, chain, queue, life, subs, nextBlockNumber, nextBlocks, events,
                   sending, tip, lost>>

\* One iteration of enqueue's loop.
EnqueueEvent ==
    /\ pc = "enqueue"
    /\ events # <<>>
    /\ ~ Rejects(queue, Head(events))
    /\ queue' = Enqueue(queue, Head(events))
    /\ events' = Tail(events)
    /\ UNCHANGED <<node, chain, life, subs, pc, nextBlockNumber, nextBlocks, sending,
                   tip, lost>>

\* enqueue returns the error for a removal of anything but the last event.
EnqueueRejects ==
    /\ pc = "enqueue"
    /\ events # <<>>
    /\ Rejects(queue, Head(events))
    /\ maxBlockNum' = 0
    /\ pc' = "rejected"
    /\ UNCHANGED <<node, chain, queue, life, subs, nextBlockNumber, nextBlocks, events,
                   pubEvents, tip, lost>>

\* enqueue returns ErrQueueFull.
EnqueueFull ==
    /\ pc = "enqueue"
    /\ events = <<>>
    /\ Len(queue) > QueueCap
    /\ maxBlockNum' = 0
    /\ pc' = "full"
    /\ UNCHANGED <<node, chain, queue, life, subs, nextBlockNumber, nextBlocks, events,
                   pubEvents, tip, lost>>

\* dequeue returns events to send.
Dequeue ==
    /\ pc = "enqueue"
    /\ events = <<>>
    /\ Len(queue) <= QueueCap
    /\ \E n \in 1 .. Len(queue) :
        /\ Dequeues(queue, n, maxBlockNum)
        /\ pubEvents' = SubSeq(queue, 1, n)
        /\ queue' = SubSeq(queue, n + 1, Len(queue))
    /\ maxBlockNum' = 0
    /\ pc' = "send"
    /\ UNCHANGED <<node, chain, life, subs, nextBlockNumber, nextBlocks, events, tip, lost>>

\* dequeue returns nothing.
DequeueNothing ==
    /\ pc = "enqueue"
    /\ events = <<>>
    /\ Len(queue) <= QueueCap
    /\ ~ \E n \in 1 .. Len(queue) : Dequeues(queue, n, maxBlockNum)
    /\ maxBlockNum' = 0
    /\ pc' = "idle"
    /\ UNCHANGED <<node, chain, queue, life, subs, nextBlockNumber, nextBlocks, events,
                   pubEvents, tip, lost>>

\* Mutant: the loop watches the context given to Run and not Monitor.ctx.
StoppedByRunContext ==
    /\ pc = "idle"
    /\ runs \in cancelled
    /\ pc' = "stopped"
    /\ UNCHANGED <<node, chain, queue, life, subs, nextBlockNumber, nextBlocks, events,
                   sending, tip, lost>>

\* monitor() returns: its context is done.
Stopped ==
    /\ pc = "idle"
    /\ stopped
    /\ pc' = "stopped"
    /\ UNCHANGED <<node, chain, queue, life, subs, nextBlockNumber, nextBlocks, events,
                   sending, tip, lost>>

\* UnsubscribeAll, when the option asks for it.
UnsubscribeAll ==
    /\ subscribers' = IF UnsubscribeOnStop THEN {} ELSE subscribers
    /\ last' = [s \in Subscribers |-> IF s \in subscribers' THEN last[s] ELSE Nil]

\* Run returns; the sink was local to monitor().
RunReturns ==
    /\ pc \in {"stopped", "rejected", "full"}
    /\ UnsubscribeAll
    /\ events' = <<>>
    /\ lost' = (lost \/ events # <<>>)
    /\ pc' = "off"
    /\ UNCHANGED <<node, chain, queue, life, held, nextBlockNumber, nextBlocks, sending, tip>>

--------------------------------------------------------------------------------
(* The broadcaster goroutines; Run starts one and only the context it was *)
(* given ends it, so Stop and a second Run leave two.                     *)

Receive(r) ==
    /\ r \in broadcasters
    /\ held[r] = <<>>
    /\ pc = "send"
    /\ held' = [held EXCEPT ![r] = pubEvents]
    /\ pubEvents' = <<>>
    /\ pc' = "idle"
    /\ UNCHANGED <<node, maxBlockNum, chain, queue, life, subscribers, last, nextBlockNumber, nextBlocks,
                   events, tip, lost>>

Broadcast(r) ==
    /\ r \in broadcasters
    /\ held[r] # <<>>
    /\ last' = [s \in Subscribers |->
                    IF s \in subscribers THEN held[r][Len(held[r])] ELSE last[s]]
    /\ held' = [held EXCEPT ![r] = <<>>]
    /\ UNCHANGED <<node, loop, chain, queue, life, subscribers, tip, lost>>

BroadcasterExits(r) ==
    /\ r \in broadcasters
    /\ held[r] = <<>>
    /\ r \in cancelled
    /\ broadcasters' = broadcasters \ {r}
    /\ UNCHANGED <<node, loop, chain, queue, runs, stopped, cancelled, subs, tip, lost>>

--------------------------------------------------------------------------------
(* The clients. *)

Subscribe(s) ==
    /\ "Subscribe" \in Calls
    /\ s \notin subscribers
    /\ subscribers' = subscribers \cup {s}
    /\ UNCHANGED <<node, loop, chain, queue, life, held, last, tip, lost>>

Unsubscribe(s) ==
    /\ "Unsubscribe" \in Calls
    /\ s \in subscribers
    /\ subscribers' = subscribers \ {s}
    /\ last' = [last EXCEPT ![s] = Nil]
    /\ UNCHANGED <<node, loop, chain, queue, life, held, tip, lost>>

Stop ==
    /\ "Stop" \in Calls
    /\ stopped' = (stopped \/ runs > 0)
    /\ UnsubscribeAll
    /\ UNCHANGED <<node, loop, chain, queue, runs, cancelled, broadcasters, held, tip, lost>>

\* A context given to one or more of the runs is cancelled; Monitor.ctx is derived
\* from that of the last one.
CancelRunContext ==
    /\ "CancelRunContext" \in Calls
    /\ \E R \in SUBSET ((1 .. runs) \ cancelled) \ {{}} :
        /\ cancelled' = cancelled \cup R
        /\ stopped' = (stopped \/ runs \in R)
    /\ UNCHANGED <<node, loop, chain, queue, runs, broadcasters, subs, tip, lost>>

\* Empties a chain of two blocks or more.
PurgeHistory ==
    /\ "PurgeHistory" \in Calls
    /\ Len(chain) > 1
    /\ chain' = <<>>
    /\ UNCHANGED <<node, loop, queue, life, subs, tip, lost>>

--------------------------------------------------------------------------------
Fetch   == NewHead \/ FetchNextBlock \/ FetchNextBlockFails
Build   == BuildCancelled \/ BuildExtend \/ BuildForks \/ BuildPop \/ BuildPanics
           \/ FetchParent \/ FetchParentFails \/ BuildUnwind
Publish == PublishSkip \/ PublishStart \/ PublishPanics \/ EnqueueEvent \/ EnqueueRejects \/ EnqueueFull
           \/ Dequeue \/ DequeueNothing
Broadcaster(r) == Receive(r) \/ Broadcast(r) \/ BroadcasterExits(r)
Client  == Stop \/ CancelRunContext \/ PurgeHistory
           \/ \E s \in Subscribers : Subscribe(s) \/ Unsubscribe(s)

Next ==
    \/ NodeHead
    \/ Run
    \/ RunFails
    \/ Fetch
    \/ Build
    \/ FetchLogs
    \/ Publish
    \/ Stopped
    \/ RunReturns
    \/ \E r \in Runs : Broadcaster(r)
    \/ Client

Spec == Init /\ [][Next]_vars

--------------------------------------------------------------------------------
(* Properties. *)

\* The variables have the types the code gives them, and the call stack of
\* buildCanonicalChain is non-empty exactly while it executes.
TypeOK ==
    /\ nodeHead \in Blocks /\ nodePeak \in Nat /\ heads \in Nat
    /\ pc \in PCs
    /\ chain \in Seq(Events)
    /\ nextBlockNumber \in Int \cup {Nil}
    /\ nextBlocks \in Seq(Blocks)
    /\ pc \in {"build", "pop", "parent", "unwind"} <=> nextBlocks # <<>>
    /\ events \in Seq(Events) /\ queue \in Seq(Events) /\ pubEvents \in Seq(Events)
    /\ pc # "send" => pubEvents = <<>>
    /\ maxBlockNum \in Nat
    /\ runs \in 0 .. MaxRuns
    /\ runs = 0 => pc = "off"
    /\ stopped \in BOOLEAN /\ cancelled \subseteq 1 .. runs
    /\ broadcasters \subseteq 1 .. runs
    /\ held \in [Runs -> Seq(Events)]
    /\ subscribers \subseteq Subscribers
    /\ last \in [Subscribers -> Events \cup {Nil}]
    /\ tip \in Blocks \cup {Nil}
    /\ lost \in BOOLEAN

\* Whenever another goroutine takes the chain's mutex, in the middle of a reorg
\* too, it finds a chain in which every block is the parent of the next
\* (push, pop and buildCanonicalChain).
ChainIsContiguous == Contiguous(chain) /\ \A i \in DOMAIN chain : chain[i].event = Added

\* When the recursive calls of buildCanonicalChain return, the block each caller
\* still holds fits on the chain they built: the error returns of its second push
\* are never taken.
UnwindFits == pc = "unwind" => CanPush(chain, NextBlock)

\* The results of pop and LatestBlock that are dereferenced without a check are never
\* nil, unless PurgeHistory is called (buildCanonicalChain, publish).
NeverPanics == "PurgeHistory" \notin Calls => pc # "panic"

\* As long as no event was lost, enqueue never meets a removal that does not undo
\* the last queued addition ("it should be impossible to remove anything but the
\* most recent event").
NeverRejects == ~ lost => pc # "rejected"

\* In the first run of a monitor, and as long as no event was lost, whatever a
\* subscriber is about to be sent continues what it was sent before: each event
\* starts at the head the previous one led to, across batches, retries of a failed
\* reorg, log backfills and cancelled removals.
DeliveryIsLinked ==
    ~ lost /\ runs <= 1 =>
        \A r \in broadcasters :
            held[r] # <<>> =>
                /\ Linked(held[r])
                /\ \A s \in subscribers : last[s] # Nil => Dst(last[s]) = Src(held[r][1])

\* With a subscriber that stays, a fixed start block and reorgs shallower than the
\* retained chain, no event is dropped and no addition fails to attach to the head
\* that the events before it led to, whatever fetches fail in between.
NothingLost == ~ lost

\* If the node never reverts a block with MaxReorg blocks on top of it, the block
\* LatestFinalBlock(MaxReorg) returns is on the node's chain and stays there, also
\* while the monitor lags behind a reorg or is in the middle of one.
FinalIsFinal ==
    \A i \in FinalAt(chain, MaxReorg) : Extends(nodeHead, chain[i].block)

\* The last block published is at least Trail blocks behind the head
\* (TrailNumBlocksBehindHead).
TrailsBehindHead ==
    pc = "send" =>
        Number(pubEvents[Len(pubEvents)].block) + Trail <= Number(ChainHead(chain).block)

\* A monitor that trails by at least the depth of the node's reorgs never tells its
\* subscribers that a block was removed.
TrailHidesReorgs ==
    MaxReorg <= Trail =>
        \A r \in broadcasters : \A i \in DOMAIN held[r] : held[r][i].event = Added

\* The queue of a monitor that neither trails nor waits for logs holds the events of
\* any reorg shallower than Options.BlockRetentionLimit as NewMonitor adjusts it
\* (2 * depth + 1 of them), also when the reorg was completed by several failed attempts.
\* newChain may retain more blocks than that, newQueue does not hold more events.
ReorgFitsQueue == ~ WithLogs /\ Trail = 0 /\ MaxReorg < MonitorRetention => pc # "full"

\* At the end of a cycle every queued block still waiting for its logs is on the
\* chain, where backfillChainLogs finds it.
WaitingIsRetained ==
    pc = "idle" /\ events = <<>> =>
        \A i \in DOMAIN queue :
            IsOK(queue[i]) \/ \E j \in DOMAIN chain : chain[j].block = queue[i].block

\* enqueue never meets a removal that does not undo the last queued addition.
EnqueueNeverRejects == pc # "rejected"

\* After a removal the next addition has the number of the removed block: no block
\* number is skipped by a retry.
RetrySkipsNoBlock ==
    \A i \in 1 .. Len(events) - 1 :
        events[i].event = Removed /\ events[i + 1].event = Added =>
            Number(events[i + 1].block) = Number(events[i].block)

--------------------------------------------------------------------------------
(* Liveness. *)

\* The loop and the broadcasters keep running; a select picks every case that is
\* ready again and again; fetches that are retried forever succeed eventually.
\* Nothing is assumed of the heads that wake the loop: see Polling.
Fairness ==
    /\ WF_vars(Run) /\ WF_vars(RunReturns) /\ SF_vars(Stopped)
    /\ SF_vars(FetchNextBlock) /\ SF_vars(FetchParent) /\ WF_vars(stopped /\ FetchNextBlockFails)
    /\ WF_vars(stopped /\ FetchParentFails) /\ WF_vars(BuildCancelled)
    /\ WF_vars(BuildExtend) /\ WF_vars(BuildForks) /\ WF_vars(BuildPop) /\ WF_vars(BuildUnwind)
    /\ WF_vars(FetchLogs) /\ WF_vars(Publish)
    /\ \A r \in Runs : WF_vars(Receive(r)) /\ WF_vars(Broadcast(r))

LiveSpec == Spec /\ Fairness

\* The loop is woken again and again, with or without a new block: what the poll timer
\* of listenNewHead does.  A stream wakes it for the heads the node announces only.
Polling == WF_vars(NewHead)

\* If the node settles on a block higher than any other it could have, the chain of a
\* polling monitor that is never stopped ends in that block eventually, whatever reorgs
\* and failed fetches came before, and so does the last event of every subscriber that
\* stayed throughout.
CatchesUp ==
    Polling /\ []~ stopped /\ <>[](\A b \in Blocks \ {nodeHead} : Len(b) < Len(nodeHead)) =>
        <>[] /\ chain # <<>> /\ ChainHead(chain).block = nodeHead
             /\ \A s \in subscribers : last[s] # Nil /\ Dst(last[s]) = nodeHead

\* After Stop, Run returns, wherever the loop stands and whether or not another head
\* wakes it, unless the context given to Run is cancelled as well (its broadcaster may
\* be gone while publish still sends).
StopReturns == stopped ~> (pc = "off" \/ runs \in cancelled)
================================================================================
