------------------------------- MODULE MCMonitor -------------------------------
(* Instances of Monitor for TLC. *)
EXTENDS Monitor

\* Two branches that part after the first block.
ForkAtOne == {<<>>, <<1>>, <<1, 1>>, <<1, 1, 1>>, <<1, 2>>, <<1, 2, 1>>}

\* The same, with one branch a block longer than the other.
ShortFork == {<<>>, <<1>>, <<1, 1>>, <<1, 2>>, <<1, 2, 1>>}

\* A branch with one-block forks along it.
ShallowForks == {<<>>, <<1>>, <<2>>, <<1, 1>>, <<1, 2>>, <<1, 1, 1>>, <<1, 1, 2>>, <<1, 2, 1>>,
                 <<1, 1, 1, 1>>, <<1, 1, 2, 1>>}

\* Branches that part after the first block, one of them longer.
OneTallest == ForkAtOne \cup {<<1, 2, 1, 1>>}

\* A cfg cannot write a negative number.
MinusOne == -1
================================================================================
