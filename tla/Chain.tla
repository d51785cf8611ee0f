--------------------------------- MODULE Chain ---------------------------------
(***************************************************************************)
(* ethmonitor/chain.go: the retained canonical chain, a stack whose oldest *)
(* block is dropped when it grows beyond the retention limit.              *)
(***************************************************************************)
EXTENDS EventStream

CONSTANTS BlockRetentionLimit,  \* Options.BlockRetentionLimit
          Trail,                \* Options.TrailNumBlocksBehindHead
          RetentionMin          \* the minimum newChain imposes (10 in the code)

ASSUME OptionsAssumption ==
    /\ BlockRetentionLimit \in Nat
    /\ Trail \in Nat
    /\ RetentionMin \in Nat \ {0}

AtLeast(n, min) == IF n < min THEN min ELSE n

\* NewMonitor's adjusted Options.BlockRetentionLimit
MonitorRetention == AtLeast(BlockRetentionLimit + Trail, 2)

\* newChain's retentionLimit
ChainRetention == AtLeast(MonitorRetention, RetentionMin)

\* Mutant: room for the additions of a reorg but not for its removals.
QueueCapOnce == MonitorRetention

\* newQueue's cap
QueueCap == MonitorRetention * 2

ChainHead(c) == c[Len(c)]

\* Mutant: push compares numbers and not hashes.
CanPushByNumber(c, b) == c # <<>> => Number(b) = Number(ChainHead(c).block) + 1

\* push without its error returns; CanPush is their negation.
CanPush(c, b) == c # <<>> => Parent(b) = ChainHead(c).block

Push(c, e) ==
    LET d == Append(c, e)
    IN  IF Len(d) > ChainRetention THEN Tail(d) ELSE d

Pop(c) == SubSeq(c, 1, Len(c) - 1)

\* Every retained block is the parent of the next one.
Contiguous(c) == \A i \in 1 .. Len(c) - 1 : c[i].block = Parent(c[i + 1].block)

--------------------------------------------------------------------------------
(* What clients read from the chain. *)

\* Mutant: one block too late.
FinalAtLater(c, numBlocksToFinality) == {Len(c) - numBlocksToFinality + 1} \cap DOMAIN c

\* Monitor.LatestFinalBlock: the indexes of the blocks it returns, at most one.
FinalAt(c, numBlocksToFinality) == {Len(c) - numBlocksToFinality} \cap DOMAIN c
================================================================================
