------------------------------- MODULE UTXOSet -------------------------------
(***************************************************************************)
(* What the coins database promises to the code that connects blocks:      *)
(* one map from outpoints to coins that changes only when a span commits   *)
(* its whole working copy, a working copy that is committed only if nobody *)
(* else committed since it was taken, and a disk that always holds some    *)
(* committed map.  There are no caches, flags or locks here.               *)
(***************************************************************************)
CONSTANTS Outpoint, Coin, Spent, Span, None

VARIABLES
  utxo,   \* the committed map, a member of Map
  disk,   \* the map a restart finds
  work,   \* per span: its working copy, None when the span is not in use
  base    \* per span: the committed map the working copy started from

vars == <<utxo, disk, work, base>>

Map == [Outpoint -> Coin \cup {Spent}]

Init ==
  /\ disk \in Map
  /\ utxo = disk
  /\ work = [s \in Span |-> None]
  /\ base = [s \in Span |-> None]

Open(s) ==
  /\ work[s] = None
  /\ work' = [work EXCEPT ![s] = utxo]
  /\ base' = [base EXCEPT ![s] = utxo]
  /\ UNCHANGED <<utxo, disk>>

(* Spending, adding and restoring coins touch nothing but the span's copy.  *)
Change(s) ==
  /\ work[s] # None
  /\ work'[s] \in Map
  /\ work' = [work EXCEPT ![s] = work'[s]]
  /\ UNCHANGED <<utxo, disk, base>>

(* The optimistic commit of a whole block.                                  *)
Commit(s) ==
  /\ work[s] # None
  /\ base[s] = utxo
  /\ utxo' = work[s]
  /\ base' = [base EXCEPT ![s] = work[s]]
  /\ UNCHANGED <<disk, work>>

Discard(s) ==
  /\ work[s] # None
  /\ work' = [work EXCEPT ![s] = None]
  /\ base' = [base EXCEPT ![s] = None]
  /\ UNCHANGED <<utxo, disk>>

Flush ==
  /\ disk' = utxo
  /\ UNCHANGED <<utxo, work, base>>

Restart ==
  /\ utxo' = disk
  /\ work' = [s \in Span |-> None]
  /\ base' = [s \in Span |-> None]
  /\ UNCHANGED disk

Next ==
  \/ \E s \in Span : Change(s) \/ Open(s) \/ Commit(s) \/ Discard(s)
  \/ Flush
  \/ Restart

Spec == Init /\ [][Next]_vars
=============================================================================
