-------------------------- MODULE MCVersionBits --------------------------
(* Periods of two blocks.  A chain of heights 0 to 7 and a branch of heights 3 to *)
(* 5 that leaves it in the middle of the second period.                           *)
EXTENDS VersionBits
Main == [i \in 1 .. 8 |-> "m"]
Side == <<"m", "m", "m", "s", "s", "s">>
MCBlocks == Ancestors(Main) \cup Ancestors(Side)

\* Median times change at period ends: 0 is before the start, 1 in the voting time,
\* 2 past the timeout.  Both blocks of a period must signal: the first period and the
\* last do not, height 2 and heights 3 and 4 of the branch always do, the others are free.
Times == {t \in [0 .. 3 -> 0 .. 2] : \A i \in 0 .. 2 : t[i] <= t[i + 1]}
Always == {SubSeq(Main, 1, 3), SubSeq(Side, 1, 4), SubSeq(Side, 1, 5)}
Signals == {s \cup Always : s \in SUBSET ({b \in MCBlocks : Height(b) \in 3 .. 5} \ Always)}
MCHistories ==
  {[mtp |-> [b \in MCBlocks |-> t[Height(b) \div 2]], signal |-> [b \in MCBlocks |-> b \in s]] :
     t \in Times, s \in Signals}
Dep(s, m) == [start |-> s, timeout |-> 2, min_activation_height |-> m]
MCDeployments == {Dep(1, 0), Dep(1, 7), Dep(ALWAYS_ACTIVE, 0), Dep(NEVER_ACTIVE, 0)}
===========================================================================
