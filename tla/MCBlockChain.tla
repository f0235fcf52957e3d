---------------------------- MODULE MCBlockChain ----------------------------
(* Block trees for TLC.                                                    *)
EXTENDS BlockChain

CONSTANTS g, a1, a2, a3, b1, b2, b3

\* Two branches that overtake each other with every block, the last time to a
\* chain with fewer blocks:
\*   g - a1 - a2        work 2, 6
\*   g - b1 - b2 - b3   work 1, 3, 5
RaceBlocks == {g, a1, a2, b1, b2, b3}
RaceParent == [x \in RaceBlocks \ {g} |->
    CASE x \in {a1, b1} -> g [] x = a2 -> a1 [] x = b2 -> b1 [] x = b3 -> b2]
RaceWork == [x \in RaceBlocks |->
    CASE x = g -> 0 [] x = a1 -> 2 [] x = a2 -> 6
      [] x = b1 -> 1 [] x = b2 -> 3 [] x = b3 -> 5]

\* A fork after the first block, small enough for crashes and power loss:
\*   g - a1 - a2        work 1, 2
\*        \ b2          work 3
ForkBlocks == {g, a1, a2, b2}
ForkParent == [x \in ForkBlocks \ {g} |-> IF x = a1 THEN g ELSE a1]
ForkWork == [x \in ForkBlocks |->
    CASE x = g -> 0 [] x = a1 -> 1 [] x = a2 -> 2 [] x = b2 -> 3]

\* A longer branch and a heavier one with fewer blocks, as blocks of different
\* algorithms weigh differently:
\*   g - a1 - a2 - a3   work 1, 2, 3
\*   g - b1 - b2        work 1, 5
HeavyBlocks == {g, a1, a2, a3, b1, b2}
HeavyParent == [x \in HeavyBlocks \ {g} |->
    CASE x \in {a1, b1} -> g [] x = a2 -> a1 [] x = a3 -> a2 [] x = b2 -> b1]
HeavyWork == [x \in HeavyBlocks |->
    CASE x = g -> 0 [] x = a1 -> 1 [] x = a2 -> 2 [] x = a3 -> 3
      [] x = b1 -> 1 [] x = b2 -> 5]
=============================================================================
