-------------------------- MODULE MCCoinsRecovery --------------------------
(* A common block C that creates o0, and two branches above it.  Both branches *)
(* contain the transaction that spends o0 and creates o1, at different heights; *)
(* A3 spends an output that it creates itself.                                  *)
EXTENDS CoinsRecovery, TLC
CONSTANTS o0, o1, o2, o3

G == <<"G">>
C == <<"G", "C">>
A2 == <<"G", "C", "A2">>
A3 == <<"G", "C", "A2", "A3">>
B2 == <<"G", "C", "B2">>
B3 == <<"G", "C", "B2", "B3">>
MCBlocks == {G, C, A2, A3, B2, B3}
Tx(i, o) == [ins |-> i, outs |-> o]
Transfer == Tx({o0}, {o1})
MCTxs == G :> <<>>
      @@ C :> <<Tx({}, {o0})>>
      @@ A2 :> <<Transfer>>
      @@ A3 :> <<Tx({o1}, {o2}), Tx({o2}, {o3})>>
      @@ B2 :> <<Tx({}, {o2})>>
      @@ B3 :> <<Transfer>>
MCOutpoints == {o0, o1, o2, o3}
===========================================================================
