------------------------------ MODULE TxRequest -----------------------------
(***************************************************************************)
(* TxRequestTracker (txrequest.cpp): which peer is asked for which         *)
(* transaction, and when.                                                  *)
(*                                                                         *)
(* The tracker is a record: index maps a pair <<peer, txhash>> to its      *)
(* Announcement, peerinfo is m_peerinfo, the counters kept per peer.  The  *)
(* three orders of the multi_index container are derived from index, and   *)
(* a neighbour the code looks up in one of them is the first or the last   *)
(* announcement of a set.  m_time is kept relative to the present, so that *)
(* "m_time <= now" reads "time <= 0" and the passing of time is a shift.   *)
(***************************************************************************)
EXTENDS Integers, FiniteSets, SequencesExt

CONSTANTS
  Peers,      \* node ids, never used twice
  Hashes,     \* txids and wtxids, ordered like uint256
  Salt,       \* the low bits of PriorityComputer for <<peer, txhash>>, all different
  Past        \* a time is no longer told apart from earlier ones when it is that long ago

ASSUME TxRequestAssumption ==
  /\ IsFiniteSet(Peers) /\ Hashes \subseteq Nat /\ Past \in Nat
  /\ Salt \in [Peers \X Hashes -> Nat]

VARIABLE txrequest

EmptyTracker == [index |-> <<>>, peerinfo |-> <<>>]

---------------------------------------------------------------------------
IsSelected(a)   == a.state \in {"BEST", "REQUESTED"}
IsWaiting(a)    == a.state \in {"REQUESTED", "DELAYED"}
IsSelectable(a) == a.state \in {"READY", "BEST"}

\* PriorityComputer: the preferred flag is the highest bit.
Priority(s, k) == (IF s.index[k].preferred THEN 1 + Max(Range(Salt)) ELSE 0) + Salt[k]

\* The announcements of a txhash, and those of them in one state.
OfHash(s, h) == {k \in DOMAIN s.index : k[2] = h}
InState(s, h, st) == {k \in OfHash(s, h) : s.index[k].state = st}
BestReady(s, h) ==
  CHOOSE k \in InState(s, h, "READY") :
    \A j \in InState(s, h, "READY") : Priority(s, j) <= Priority(s, k)

Counted(info, st, d) ==
  [info EXCEPT !.completed = @ + (IF st = "COMPLETED" THEN d ELSE 0),
               !.requested = @ + (IF st = "REQUESTED" THEN d ELSE 0)]

\* Erase: the counters of a peer without announcements go as well.
Erase(s, k) ==
  LET p == k[1]
      info == [Counted(s.peerinfo[p], s.index[k].state, -1) EXCEPT !.total = @ - 1]
  IN [index |-> Restrict(s.index, DOMAIN s.index \ {k}),
      peerinfo |-> IF info.total = 0 THEN Restrict(s.peerinfo, DOMAIN s.peerinfo \ {p})
                                     ELSE [s.peerinfo EXCEPT ![p] = info]]

\* Modify; the time of a COMPLETED announcement is never read again.
Modify(s, k, st, time) ==
  [index |-> [s.index EXCEPT ![k].state = st, ![k].time = IF st = "COMPLETED" THEN 0 ELSE time],
   peerinfo |-> [s.peerinfo EXCEPT ![k[1]] = Counted(Counted(@, s.index[k].state, -1), st, 1)]]
SetState(s, k, st) == Modify(s, k, st, s.index[k].time)

PromoteCandidateReady(s, k) ==
  LET h == k[2]
      r == SetState(s, k, "READY")
      best == InState(s, h, "BEST")
  IN IF BestReady(r, h) # k \/ InState(s, h, "REQUESTED") # {} THEN r
     ELSE IF best = {} THEN SetState(r, k, "BEST")
     ELSE LET old == CHOOSE j \in best : TRUE
          IN IF Priority(s, k) > Priority(s, old)
             THEN SetState(SetState(r, old, "READY"), k, "BEST")
             ELSE r

ChangeOnly(s, k, st) == SetState(s, k, st)   \* variant: selects no successor
ChangeAndReselect(s, k, st) ==
  LET h == k[2]
      r == IF IsSelected(s.index[k]) /\ InState(s, h, "READY") # {}
           THEN SetState(s, BestReady(s, h), "BEST") ELSE s
  IN SetState(r, k, st)

IsOnlyNonCompleted(s, k) == \A j \in OfHash(s, k[2]) \ {k} : s.index[j].state = "COMPLETED"

\* The last announcement that is not COMPLETED takes all of its txhash with it.
MakeCompleted(s, k) ==
  IF s.index[k].state = "COMPLETED" THEN s
  ELSE IF IsOnlyNonCompleted(s, k) THEN FoldSet(LAMBDA j, t : Erase(t, j), s, OfHash(s, k[2]))
  ELSE ChangeAndReselect(s, k, "COMPLETED")

Earlier(s, j, k) == s.index[j].time < s.index[k].time

\* SetTimePoint: first what is due, the oldest first, then, if the clock
\* went back, what is not due any more, the latest first.
SetTimePoint(s) ==
  LET due == SetToSortSeq({k \in DOMAIN s.index : IsWaiting(s.index[k]) /\ s.index[k].time <= 0},
                          LAMBDA j, k : Earlier(s, j, k))
      r == FoldLeft(LAMBDA t, k : IF t.index[k].state = "DELAYED" THEN PromoteCandidateReady(t, k)
                                  ELSE MakeCompleted(t, k), s, due)
      early == SetToSortSeq({k \in DOMAIN r.index : IsSelectable(r.index[k]) /\ r.index[k].time > 0},
                            LAMBDA j, k : Earlier(r, k, j))
  IN FoldLeft(LAMBDA t, k : ChangeAndReselect(t, k, "DELAYED"), r, early)

---------------------------------------------------------------------------
(* The interface of the tracker *)

DisconnectedPeer(s, p) ==
  FoldSet(LAMBDA k, t : LET c == MakeCompleted(t, k) IN IF k \in DOMAIN c.index THEN Erase(c, k) ELSE c,
          s, {k \in DOMAIN s.index : k[1] = p})

ForgetTxHash(s, h) == FoldSet(LAMBDA k, t : Erase(t, k), s, OfHash(s, h))

Announcement(p, h, wtxid, preferred, delay) ==
  <<p, h>> :> [state |-> "DELAYED", time |-> delay, preferred |-> preferred, wtxid |-> wtxid]

ReceivedInvAgain(s, p, h, wtxid, preferred, delay) ==   \* variant: an announcement can be renewed
  IF <<p, h>> \in DOMAIN s.index
  THEN [s EXCEPT !.index = Announcement(p, h, wtxid, preferred, delay) @@ @]
  ELSE [index |-> Announcement(p, h, wtxid, preferred, delay) @@ s.index,
        peerinfo |-> IF p \in DOMAIN s.peerinfo THEN [s.peerinfo EXCEPT ![p].total = @ + 1]
                     ELSE (p :> [total |-> 1, completed |-> 0, requested |-> 0]) @@ s.peerinfo]
ReceivedInv(s, p, h, wtxid, preferred, delay) ==
  IF <<p, h>> \in DOMAIN s.index THEN s
  ELSE [index |-> Announcement(p, h, wtxid, preferred, delay) @@ s.index,
        peerinfo |-> IF p \in DOMAIN s.peerinfo THEN [s.peerinfo EXCEPT ![p].total = @ + 1]
                     ELSE (p :> [total |-> 1, completed |-> 0, requested |-> 0]) @@ s.peerinfo]

\* What GetRequestable returns once SetTimePoint is done.
Requestable(s, p) == {k \in DOMAIN s.index : k[1] = p /\ s.index[k].state = "BEST"}

RequestedTx(s, p, h, expiry) ==
  LET k == <<p, h>> IN
  IF k \notin DOMAIN s.index \/ s.index[k].state \in {"REQUESTED", "COMPLETED"} THEN s
  ELSE LET best == InState(s, h, "BEST") \ {k}
           asked == InState(s, h, "REQUESTED")
           r == IF best # {} THEN SetState(s, CHOOSE j \in best : TRUE, "READY")
                ELSE IF asked # {} THEN SetState(s, CHOOSE j \in asked : TRUE, "COMPLETED") ELSE s
       IN Modify(r, k, "REQUESTED", expiry)

ReceivedResponse(s, p, h) == IF <<p, h>> \in DOMAIN s.index THEN MakeCompleted(s, <<p, h>>) ELSE s

CountInFlight(s, p) == IF p \in DOMAIN s.peerinfo THEN s.peerinfo[p].requested ELSE 0
Count(s, p) == IF p \in DOMAIN s.peerinfo THEN s.peerinfo[p].total ELSE 0

\* The clock moves by d: every stored time comes closer by as much.
Elapse(s, d) ==
  [s EXCEPT !.index = [k \in DOMAIN s.index |->
     IF s.index[k].state = "COMPLETED" THEN s.index[k]
     ELSE [s.index[k] EXCEPT !.time = Max({@ - d, -Past})]]]

---------------------------------------------------------------------------
RecomputePeerInfo(s) ==
  [p \in {k[1] : k \in DOMAIN s.index} |->
     LET mine == {k \in DOMAIN s.index : k[1] = p}
     IN [total |-> Cardinality(mine),
         completed |-> Cardinality({k \in mine : s.index[k].state = "COMPLETED"}),
         requested |-> Cardinality({k \in mine : s.index[k].state = "REQUESTED"})]]

\* Impl::SanityCheck: the counters are those of the announcements; every
\* tracked txhash has one that is not COMPLETED, at most one selected, one
\* selected if any is READY, and none READY is better than the BEST.
SanityCheck ==
  LET s == txrequest IN
  /\ s.peerinfo = RecomputePeerInfo(s)
  /\ \A h \in {k[2] : k \in DOMAIN s.index} :
       LET selected == InState(s, h, "BEST") \cup InState(s, h, "REQUESTED")
           ready == InState(s, h, "READY")
       IN /\ OfHash(s, h) # InState(s, h, "COMPLETED")
          /\ Cardinality(selected) <= 1
          /\ ready # {} => selected # {}
          /\ \A j \in ready, k \in InState(s, h, "BEST") : Priority(s, j) <= Priority(s, k)

=============================================================================
