---------------------------- MODULE MCTxnValidator ----------------------------
(* Small instances of TxnValidator: a parent tp, its child tc and a rival td of the  *)
(* parent; a time-locked tn, an update tu of it and its finalisation tf; a child tk  *)
(* of the two parents ta and tb; a rejected tr and its child ts; a second time-locked *)
(* transaction tw.                                                                   *)
EXTENDS TxnValidator, TLC

CONSTANTS tp, tc, td, tn, tu, tf, ta, tb, tk, tr, ts, tw

MCTxn == {tp, tc, td, tn, tu, tf, ta, tb, tk, tr, ts, tw}
MCCoins == {"c1", "c2"}
MCSpends ==
  (tp :> {"c1"}) @@ (tc :> {"p"}) @@ (td :> {"c1"}) @@ (tn :> {"c2"}) @@ (tu :> {"c2"})
    @@ (tf :> {"c2"}) @@ (ta :> {"c1"}) @@ (tb :> {"c2"}) @@ (tk :> {"a", "b"})
    @@ (tr :> {"c1"}) @@ (ts :> {"r"}) @@ (tw :> {"c1"})
MCMakes ==
  (tp :> {"p"}) @@ (tc :> {"c"}) @@ (td :> {"d"}) @@ (tn :> {"n"}) @@ (tu :> {"u"})
    @@ (tf :> {"f"}) @@ (ta :> {"a"}) @@ (tb :> {"b"}) @@ (tk :> {"k"})
    @@ (tr :> {"r"}) @@ (ts :> {"s"}) @@ (tw :> {"w"})
MCLock == [t \in MCTxn |-> IF t \in {tn, tu, tw} THEN 1 ELSE 0]
MCSeq == [t \in MCTxn |-> [o \in MCSpends[t] |-> IF t \in {tn, tw} THEN 0 ELSE IF t = tu THEN 1 ELSE 2]]
MCPeer == [t \in MCTxn |-> 1]

ASSUME TxnInstance == TxnAssumption

===============================================================================
