---------------------------- MODULE MCChainState ----------------------------
(***************************************************************************)
(* Two branches above the genesis block: a, b and f, of which f fails when *)
(* it is connected and its child h when it arrives, and d and e, which     *)
(* ends with the same work as b.  Line has no h; Fork has a second child c *)
(* of a in the place of f; Short has h, and in the place of d and e one    *)
(* block d with the work of both; Twins is two blocks of equal work.       *)
(***************************************************************************)
EXTENDS ChainState, TLC

g == <<"g">>
a == <<"g", "a">>
ab == <<"g", "a", "b">>
abf == <<"g", "a", "b", "f">>
ac == <<"g", "a", "c">>
d == <<"g", "d">>
de == <<"g", "d", "e">>
h == <<"g", "a", "b", "f", "h">>

Line == {g, a, ab, abf, d, de}
Fork == {g, a, ab, ac, d, de}
MCGenesis == g
MCWork == [x \in Line \cup Fork \cup {h} |-> Len(x)]
HeavyD == [MCWork EXCEPT ![d] = 3]
OnlyD == {d}
Twins == {g, a, d}
AandD == {a, d}
Short == (Line \ {de}) \cup {h}
MCAddr == (g :> 1) @@ (a :> 2) @@ (ab :> 3) @@ (abf :> 4) @@ (ac :> 5) @@ (d :> 6) @@ (de :> 7) @@ (h :> 8)
MCNone == {}
OnlyH == {h}
MCBadConnect == {abf, ac}
OnlyA == {a}
OnlyAB == {ab}
Several == {a, ab, de}
=============================================================================
