------------------------------ MODULE EventStream ------------------------------
(***************************************************************************)
(* The events the monitor emits (ethmonitor/chain.go: Event, Block) and    *)
(* what it means for a sequence of them to describe the moves of one       *)
(* canonical chain.                                                        *)
(***************************************************************************)
EXTENDS BlockTree

Added   == "Added"
Removed == "Removed"

(***************************************************************************)
(* Block.OK.  A block object is shared, by pointer, between the chain, the *)
(* events of the current cycle and the publish queue.  Its flag can only   *)
(* change while the chain or the current cycle still points at it:         *)
(* "orphan" is a FALSE flag on an object that only the queue holds because *)
(* the same block was added again as a new object.                         *)
(***************************************************************************)
OKStates == {"ready", "pending", "orphan"}

Events == [event : {Added, Removed}, block : Blocks, ok : OKStates]

AddedEvent(b)   == [event |-> Added, block |-> b, ok |-> "pending"]
RemovedEvent(b) == [event |-> Removed, block |-> b, ok |-> "ready"]

IsOK(e) == e.ok = "ready"

\* The head of the chain before and after an event.
Src(e) == IF e.event = Added THEN Parent(e.block) ELSE e.block
Dst(e) == IF e.event = Added THEN e.block ELSE Parent(e.block)

\* Every event starts where the one before it ended.
Linked(s) == \A i \in 1 .. Len(s) - 1 : Dst(s[i]) = Src(s[i + 1])

\* The events of s move the head of a chain from p to q.
Path(s, p, q) ==
    /\ Linked(s)
    /\ s = <<>> => p = q
    /\ s # <<>> => Src(s[1]) = p /\ Dst(s[Len(s)]) = q
================================================================================
