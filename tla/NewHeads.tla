-------------------------------- MODULE NewHeads -------------------------------
(***************************************************************************)
(* ethmonitor.Monitor.listenNewHead: how the loop of monitor() learns that *)
(* there is a block to fetch.  The announcer goroutine listens to a stream *)
(* of heads or polls on a timer; the notifier goroutine wakes the loop.    *)
(* Blocks are their numbers here: the chain is the number of its head, 0   *)
(* when it is empty, and 0 stands for a nil nextBlockNumber as well, which *)
(* is how the notifier reads it.                                           *)
(***************************************************************************)
EXTENDS Integers, Sequences

CONSTANTS Streaming,            \* the values of Monitor.IsStreamingEnabled to consider
          SwitchToPolling,      \* Options.StreamingErrNumToSwitchToPolling
          MayFail,              \* fetches may fail
          MayStop,              \* clients may call Stop
          MaxHead,              \* bound: the highest block the node mines
          MaxErrors             \* bound: errors of the stream

ASSUME NewHeadsAssumption ==
    /\ Streaming \subseteq BOOLEAN /\ MayFail \in BOOLEAN /\ MayStop \in BOOLEAN
    /\ SwitchToPolling \in Nat /\ MaxHead \in Nat \ {0} /\ MaxErrors \in Nat

VARIABLES
    streaming,   \* Monitor.IsStreamingEnabled, which never changes
    head,        \* the node's head
    stream,      \* the heads the stream has yet to hand over
    announcer,   \* the control state of the first goroutine
    errCount,    \* streamingErrCount
    latest,      \* latestHeadBlock
    notifier,    \* the control state of the second goroutine
    seen,        \* its nextBlockNumber
    value,       \* what it sends, or will send, on ch
    loop,        \* the control state of monitor()
    next,        \* Monitor.nextBlockNumber
    top,         \* the head of Monitor.chain
    done,        \* Monitor.ctx is done
    errors,      \* how many errors the stream has had
    recent       \* history: how many of them since a reset interval without one

announcing == <<streaming, stream, announcer, errCount, latest, errors, recent>>
notifying  == <<notifier, seen, value>>
monitoring == <<loop, next, top>>
vars       == <<head, announcing, notifying, monitoring, done>>

Init ==
    /\ streaming \in Streaming
    /\ head \in 1 .. MaxHead
    /\ stream = <<>>
    /\ announcer = "start"
    /\ errCount = 0
    /\ latest = 0
    /\ notifier = "check"
    /\ seen = 0
    /\ value = 0
    /\ loop = "select"
    /\ next \in 0 .. MaxHead
    /\ top = 0
    /\ done = FALSE
    /\ errors = 0
    /\ recent = 0

\* The node has a new head and tells it to the subscription, if there is one.
NodeHead ==
    /\ head < MaxHead
    /\ head' = head + 1
    /\ stream' = IF announcer \in {"stream", "signal"} THEN Append(stream, head') ELSE stream
    /\ UNCHANGED <<streaming, announcer, errCount, latest, errors, recent, notifying, monitoring, done>>

--------------------------------------------------------------------------------
(* The announcer. *)

\* The code at the label reconnect; old is the test of StreamingErrorResetInterval.
Reconnect(old) ==
    /\ latest' = 0
    /\ errCount' = IF old THEN 0 ELSE errCount + 1
    /\ announcer' = IF streaming /\ errCount' < SwitchToPolling THEN "subscribe" ELSE "poll"
    /\ stream' = <<>>
    /\ UNCHANGED <<streaming, head, notifying, monitoring, done>>

Start == announcer = "start" /\ Reconnect(TRUE) /\ UNCHANGED <<errors, recent>>

Subscribed ==
    /\ announcer = "subscribe"
    /\ announcer' = "stream"
    /\ UNCHANGED <<streaming, head, stream, errCount, latest, errors, recent, notifying, monitoring, done>>

\* SubscribeNewHeads fails or the subscription reports an error; streamingErrLastTime
\* is set to the time of the error just before it is compared with the interval.
StreamFails ==
    /\ announcer \in {"subscribe", "stream"}
    /\ errors < MaxErrors
    /\ Reconnect(FALSE)
    /\ errors' = errors + 1
    /\ recent' = recent + 1

\* StreamingErrorResetInterval passes without an error.
IntervalPasses ==
    /\ announcer = "stream"
    /\ recent' = 0
    /\ UNCHANGED <<streaming, head, stream, announcer, errCount, latest, errors, notifying, monitoring, done>>

StreamHead ==
    /\ announcer = "stream"
    /\ stream # <<>>
    /\ latest' = Head(stream)
    /\ stream' = Tail(stream)
    /\ announcer' = "signal"
    /\ UNCHANGED <<streaming, head, errCount, errors, recent, notifying, monitoring, done>>

\* The send on nextBlock that does not block.
Signal ==
    /\ announcer = "signal"
    /\ announcer' = "stream"
    /\ notifier' = IF notifier = "wait" THEN "send" ELSE notifier
    /\ UNCHANGED <<streaming, head, stream, errCount, latest, errors, recent, seen, value, monitoring, done>>

\* Mutant: streamingErrLastTime is left alone, and the count stays above the limit.
RetryStreamingTooSoon ==
    /\ announcer = "poll"
    /\ streaming
    /\ latest' = 0
    /\ recent' = 0
    /\ UNCHANGED <<streaming, head, stream, announcer, errCount, errors, notifying, monitoring, done>>

\* retryStreamingTimer has fired; streamingErrLastTime is set back by two intervals.
RetryStreaming ==
    /\ announcer = "poll"
    /\ streaming
    /\ Reconnect(TRUE)
    /\ recent' = 0
    /\ UNCHANGED errors

PollTimer ==
    /\ announcer = "poll"
    /\ announcer' = "tick"
    /\ UNCHANGED <<streaming, head, stream, errCount, latest, errors, recent, notifying, monitoring, done>>

\* The send on nextBlock that blocks until the notifier receives.
Tick ==
    /\ announcer = "tick"
    /\ notifier = "wait"
    /\ announcer' = "poll"
    /\ notifier' = "send"
    /\ UNCHANGED <<streaming, head, stream, errCount, latest, errors, recent, seen, value, monitoring, done>>

CloseNextBlock ==
    /\ announcer \in {"stream", "poll"}
    /\ done
    /\ announcer' = "closed"
    /\ stream' = <<>>
    /\ UNCHANGED <<streaming, head, errCount, latest, errors, recent, notifying, monitoring, done>>

--------------------------------------------------------------------------------
(* The notifier. *)

ReadNextBlockNumber ==
    /\ notifier = "check"
    /\ ~ done
    /\ seen' = next
    /\ notifier' = "load"
    /\ UNCHANGED <<head, announcing, value, monitoring, done>>

NotifierExits ==
    /\ notifier = "check"
    /\ done
    /\ notifier' = "exited"
    /\ UNCHANGED <<head, announcing, seen, value, monitoring, done>>

LoadLatest ==
    /\ notifier = "load"
    /\ value' = latest
    /\ notifier' = "compare"
    /\ UNCHANGED <<head, announcing, seen, monitoring, done>>

\* Mutant: the notifier does not look at latestHeadBlock.
CompareNoLatest ==
    /\ notifier = "compare"
    /\ notifier' = IF seen = 0 THEN "send" ELSE "wait"
    /\ UNCHANGED <<head, announcing, seen, value, monitoring, done>>

\* The loop is behind and is woken at once, or the notifier waits for a signal.
Compare ==
    /\ notifier = "compare"
    /\ IF seen = 0 \/ value > seen THEN notifier' = "send" /\ value' = seen
       ELSE notifier' = "wait" /\ value' = value
    /\ UNCHANGED <<head, announcing, seen, monitoring, done>>

\* A receive from a closed channel returns at once.
ReceiveClosed ==
    /\ notifier = "wait"
    /\ announcer = "closed"
    /\ notifier' = "send"
    /\ UNCHANGED <<head, announcing, seen, value, monitoring, done>>

--------------------------------------------------------------------------------
(* The loop of monitor(). *)

\* Mutant: the 0 of a poll counts as a number.
StaleZero == next > value

\* A number that is behind nextBlockNumber is ignored.
Stale == value > 0 /\ next > value

ReceiveNewHead ==
    /\ loop = "select"
    /\ notifier = "send"
    /\ notifier' = "check"
    /\ loop' = IF Stale THEN "select" ELSE "next"
    /\ UNCHANGED <<head, announcing, seen, value, next, top, done>>

\* Mutant: nextBlockNumber is counted, not computed from the head of the chain.
SetNextBlockNumberCounts ==
    /\ loop = "next"
    /\ next' = IF top = 0 THEN next ELSE next + 1
    /\ loop' = "fetch"
    /\ UNCHANGED <<head, announcing, notifying, top, done>>

SetNextBlockNumber ==
    /\ loop = "next"
    /\ next' = IF top = 0 THEN next ELSE top + 1
    /\ loop' = "fetch"
    /\ UNCHANGED <<head, announcing, notifying, top, done>>

\* The block is fetched and extends the chain, as of Monitor's BuildExtend.
FetchBlock ==
    /\ loop = "fetch"
    /\ ~ done
    /\ next <= head
    /\ top' = IF next = 0 THEN head ELSE next
    /\ loop' = "select"
    /\ UNCHANGED <<head, announcing, notifying, next, done>>

\* fetchNextBlock fails: the context is done, the lock of the cache timed out, or the
\* block is not readable.
FetchFails ==
    /\ loop = "fetch"
    /\ MayFail \/ done
    /\ loop' = "retry"
    /\ UNCHANGED <<head, announcing, notifying, next, top, done>>

\* buildCanonicalChain fails on a reorg, after popping one or all blocks.
BuildFails ==
    /\ loop = "fetch"
    /\ MayFail
    /\ next <= head
    /\ top' \in {0, top - 1} \cap Nat
    /\ loop' = "retry"
    /\ UNCHANGED <<head, announcing, notifying, next, done>>

\* The pause before the retry is over.
Resume ==
    /\ loop = "retry"
    /\ loop' = "select"
    /\ UNCHANGED <<head, announcing, notifying, next, top, done>>

\* Mutant: the loop only looks at the context when a number arrives.
ReturnOnNewHead ==
    /\ loop = "select"
    /\ done
    /\ notifier = "send"
    /\ loop' = "returned"
    /\ notifier' = "check"
    /\ UNCHANGED <<head, announcing, seen, value, next, top, done>>

Return ==
    /\ loop = "select"
    /\ done
    /\ loop' = "returned"
    /\ UNCHANGED <<head, announcing, notifying, next, top, done>>

Stop ==
    /\ MayStop
    /\ ~ done
    /\ done' = TRUE
    /\ UNCHANGED <<head, announcing, notifying, monitoring>>

--------------------------------------------------------------------------------
Announcer == Start \/ Subscribed \/ StreamFails \/ IntervalPasses \/ StreamHead \/ Signal
             \/ RetryStreaming \/ PollTimer \/ Tick \/ CloseNextBlock
Notifier  == ReadNextBlockNumber \/ NotifierExits \/ LoadLatest \/ Compare \/ ReceiveClosed
Loop      == ReceiveNewHead \/ SetNextBlockNumber \/ FetchBlock \/ FetchFails \/ BuildFails
             \/ Resume \/ Return

Next == NodeHead \/ Stop \/ Announcer \/ Notifier \/ Loop

\* The goroutines keep running, timers fire, and a select takes every case that is
\* ready again and again; a block that is tried forever is fetched and built.  The
\* search for a block the node does not have ends with the context or never, as it
\* does without a cache, whose lock would expire.
Fairness ==
    /\ WF_vars(Start \/ Subscribed \/ StreamHead \/ Signal \/ PollTimer \/ Tick)
    /\ SF_vars(RetryStreaming) /\ SF_vars(CloseNextBlock)
    /\ WF_vars(Notifier)
    /\ WF_vars(ReceiveNewHead) /\ WF_vars(SetNextBlockNumber) /\ WF_vars(Resume)
    /\ \A n \in 0 .. MaxHead : SF_vars(next = n /\ FetchBlock)
    /\ WF_vars(done /\ FetchFails) /\ SF_vars(Return)

Spec == Init /\ [][Next]_vars /\ Fairness

--------------------------------------------------------------------------------
(* Properties. *)

Numbers == 0 .. MaxHead + 1

\* The variables have their types, and the heads on the stream are in order.
TypeOK ==
    /\ head \in 1 .. MaxHead
    /\ announcer \in {"start", "subscribe", "stream", "signal", "poll", "tick", "closed"}
    /\ notifier \in {"check", "load", "compare", "wait", "send", "exited"}
    /\ loop \in {"select", "next", "fetch", "retry", "returned"}
    /\ errCount \in 0 .. MaxErrors /\ errors \in 0 .. MaxErrors /\ recent \in 0 .. errors
    /\ {latest, seen, value, next, top} \subseteq Numbers
    /\ done \in BOOLEAN /\ streaming \in BOOLEAN
    /\ \A i \in DOMAIN stream : stream[i] \in 1 .. head
    /\ \A i \in 1 .. Len(stream) - 1 : stream[i] < stream[i + 1]

\* A head the stream announces while the notifier waits wakes the loop as often as it
\* takes to get to that head, although the number the notifier sends is an older one.
HeadWakesLoop ==
    \A h \in 1 .. MaxHead :
        (notifier = "wait" /\ announcer = "signal" /\ latest = h)
            ~> (top >= h \/ (top = 0 /\ next >= h) \/ done)

\* A monitor that polls gets to the node's last block, whatever fetches fail.
CatchesUp == (head = MaxHead /\ ~ streaming) ~> (top = MaxHead \/ done)

\* The node keeps producing the blocks the loop looks for.
FindsBlocks == []<>(loop # "fetch")

\* If the node keeps producing blocks and the stream's errors end, a monitor that fell
\* back to polling streams again, also when the retry meets further errors
\* (StreamingRetryAfter).
StreamsAgain ==
    FindsBlocks => ((announcer = "poll" /\ streaming) ~> (announcer = "stream" \/ done))

\* After Stop the loop returns.
Returns == done ~> loop = "returned"

\* Errors older than StreamingErrorResetInterval do not count towards the switch to
\* polling.
OldErrorsAreReset ==
    streaming /\ announcer = "poll" => recent >= SwitchToPolling

\* After Stop the announcer closes nextBlock.
ClosesNextBlock == done ~> announcer = "closed"
================================================================================
