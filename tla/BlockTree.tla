------------------------------- MODULE BlockTree -------------------------------
(***************************************************************************)
(* Blocks as the monitor sees them.  A block hash commits to the whole     *)
(* history of the block, so a block is represented by its path from the    *)
(* last block nobody disputes (the empty path): the parent of a block is   *)
(* the path without its last step, and two blocks have the same hash       *)
(* exactly when they are the same path.                                    *)
(***************************************************************************)
EXTENDS Integers, Sequences

CONSTANTS Blocks,       \* the blocks that may ever be mined
          FirstNumber   \* the block number of the empty path

Parent(b) == SubSeq(b, 1, Len(b) - 1)

Number(b) == FirstNumber + Len(b)

\* b is a itself or one of its descendants.
Extends(b, a) == Len(a) <= Len(b) /\ SubSeq(b, 1, Len(a)) = a

\* The block with number n on the branch that ends in b.
OnBranch(b, n) == SubSeq(b, 1, n - FirstNumber)

ASSUME BlocksAssumption ==
    /\ Blocks \subseteq Seq(Nat)
    /\ <<>> \in Blocks
    /\ \A b \in Blocks : \A n \in 0 .. Len(b) : SubSeq(b, 1, n) \in Blocks

ASSUME FirstNumberAssumption == FirstNumber \in Nat
================================================================================
