----------------------------- MODULE PublishQueue ------------------------------
(***************************************************************************)
(* ethmonitor/pubsub.go: the publish queue.  Events wait in it until they  *)
(* are ready, and an event that undoes the last waiting one cancels it.    *)
(***************************************************************************)
EXTENDS Chain

\* A removal meets the addition of the same block at the end of the queue.
Cancels(q, e) ==
    /\ e.event = Removed
    /\ q # <<>>
    /\ q[Len(q)].event = Added
    /\ q[Len(q)].block = e.block

\* A removal meets the addition of another block: enqueue returns an error.
Rejects(q, e) ==
    /\ e.event = Removed
    /\ q # <<>>
    /\ q[Len(q)].event = Added
    /\ q[Len(q)].block # e.block

\* Mutant: nothing is cancelled.
EnqueueAppends(q, e) == Append(q, e)

\* One iteration of enqueue's loop, when it does not return an error.
Enqueue(q, e) == IF Cancels(q, e) THEN SubSeq(q, 1, Len(q) - 1) ELSE Append(q, e)

\* dequeue(maxBlockNum) collects this event.
Collects(e, maxBlockNum) ==
    IsOK(e) /\ (maxBlockNum > 0 => Number(e.block) <= maxBlockNum)

\* dequeue(maxBlockNum) stops after n events.
Stops(q, n, maxBlockNum) ==
    /\ \A i \in 1 .. n : Collects(q[i], maxBlockNum)
    /\ n < Len(q) => ~ Collects(q[n + 1], maxBlockNum)

\* dequeue(maxBlockNum) returns the first n events.
Dequeues(q, n, maxBlockNum) ==
    /\ n > 0
    /\ Stops(q, n, maxBlockNum)
    /\ q[n].event = Added
================================================================================
