-------------------------- MODULE ChainStateProofs --------------------------
(***************************************************************************)
(* The activation of the best chain, for any tree of blocks, any number of *)
(* threads and any commands of the operator: no block is validated twice   *)
(* at once, no received block is left waiting for ever, and no block that  *)
(* is known to be invalid is in the active chain.                          *)
(***************************************************************************)
EXTENDS ChainState, WellFoundedInduction, TLAPS

(* What is known of the blocks: everything received is fit, and a block is  *)
(* linked together with its ancestors.                                      *)
IndexInv ==
    /\ header \subseteq Block /\ data \subseteq header \ Unfit
    /\ linked \subseteq data /\ unlinked \subseteq data \ linked
    /\ candidates \subseteq linked /\ tip \in linked
    /\ \A b \in linked : Chain[b] \subseteq linked
    /\ DOMAIN soft = Block /\ soft[Genesis] = -1

(* Who has cs_main and what the threads are at.                             *)
ThreadInv ==
    /\ cs \in Thread \cup {NoThread} /\ rpc \in Thread \cup {NoThread}
    /\ DOMAIN pc = Thread
    /\ mostWork \in [Thread -> linked \cup {NoBlock}]
    /\ checking \in [Thread -> Block \cup {NoBlock}]
    /\ \A t \in Thread :
          /\ checking[t] # NoBlock <=> pc[t] = "check"
          /\ pc[t] \in {"step", "check"} => mostWork[t] # NoBlock
          /\ pc[t] = "step" => cs = t /\ ~Covered(mostWork[t])
          /\ pc[t] = "check" => checking[t] \in Chain[mostWork[t]] \ {Genesis}
    /\ \A t, u \in Thread : t # u /\ checking[t] # NoBlock => checking[t] # checking[u]

(* Why no block is forgotten in mapBlocksUnlinked: a child in the index of  *)
(* an unlinked invalid block is marked as well, or no fit block at all.     *)
WaitInv ==
    /\ \A b \in data \ linked : Chain[b] \cap Unfit = {} => b \in unlinked
    /\ \A b \in data : Chain[b] \subseteq data => b \in linked
    /\ \A b \in header \ {Genesis} :
          Parent[b] \in Invalid \ linked => b \in Invalid \/ Chain[b] \cap Unfit # {}

(* The active chain has no invalid block, and the only invalid blocks that  *)
(* a thread may be on its way to are those that it will find bad itself.    *)
ActiveInv ==
    /\ Chain[tip] \cap (Invalid \cup Bad) = {}
    /\ \A t \in Thread : mostWork[t] # NoBlock =>
          \A x \in Chain[mostWork[t]] \cap Invalid : Chain[x] \cap Bad # {}

Inv == IndexInv /\ ThreadInv /\ WaitInv

(* The operator gives invalidateblock only when no thread is on its way to  *)
(* the block or to a descendant of it.                                      *)
Careful ==
    \A t \in Thread, b \in Block : InvalidateBlock(t, b) =>
       \A u \in Thread : mostWork[u] # NoBlock => b \notin Chain[mostWork[u]]
-----------------------------------------------------------------------------
(* The tree of blocks.                                                      *)

LEMMA NatMin ==
  ASSUME NEW N \in SUBSET Nat, N # {}
  PROVE  \E m \in N : \A k \in N : m <= k
<1> DEFINE R == {ss \in Nat \X Nat : ss[1] < ss[2]}
<1>1. IsWellFoundedOn(R, Nat)
  BY NatLessThanWellFounded DEF OpToRel
<1>2. PICK m \in N : \A k \in N : <<k, m>> \notin R
  <2> HIDE DEF R
  <2> QED BY <1>1, WFMin
<1>3. ASSUME NEW k \in N PROVE m <= k
  <2>1. <<k, m>> \in Nat \X Nat /\ <<k, m>>[1] = k /\ <<k, m>>[2] = m
    OBVIOUS
  <2> QED BY <1>2, <2>1
<1> QED BY <1>3

LEMMA Tree0 ==
  /\ Genesis \in Block /\ NoBlock \notin Block /\ NoThread \notin Thread
  /\ \A b \in Block : /\ b \in Chain[b] /\ Chain[b] \subseteq Block
                      /\ Genesis \in Chain[b] /\ Height[b] \in Nat
                      /\ \A a \in Chain[b] : Chain[a] \subseteq Chain[b]
  /\ \A b \in Block \ {Genesis} : Parent[b] \in Block /\ Chain[b] = {b} \cup Chain[Parent[b]]
  /\ Chain[Genesis] = {Genesis}
<1>1. \A b \in Block : b \in Chain[b]
  BY TreeAssumption
<1> QED BY <1>1, TreeAssumption, ChainAssumption

(* A strict ancestor is lower.                                              *)
LEMMA Lower ==
  /\ \A b \in Block : \A a \in Chain[b] : a # b => Height[a] < Height[b]
  /\ \A b \in Block \ {Genesis} : Height[b] = Height[Parent[b]] + 1
BY TreeAssumption

LEMMA NotAbove ==
  ASSUME NEW b \in Block \ {Genesis}
  PROVE  b \notin Chain[Parent[b]] /\ Parent[b] # b /\ Parent[b] \in Chain[b] /\ Parent[b] \in Block
<1>1. Parent[b] \in Block /\ Height[b] \in Nat /\ Height[Parent[b]] \in Nat /\ Height[b] = Height[Parent[b]] + 1
  BY Tree0, Lower
<1>2. \A a \in Chain[Parent[b]] : a # Parent[b] => Height[a] < Height[Parent[b]]
  BY <1>1, Lower
<1>3. Parent[b] # b
  BY <1>1
<1>4. b \notin Chain[Parent[b]]
  BY <1>1, <1>2, <1>3
<1> QED BY <1>1, <1>3, <1>4, Tree0

(* The chain of a block is a chain.                                         *)
LEMMA Linear ==
  ASSUME NEW b \in Block, NEW x \in Chain[b], NEW y \in Chain[b]
  PROVE  x \in Chain[y] \/ y \in Chain[x]
<1> DEFINE Forked(c) == \E p, q \in Chain[c] : p \notin Chain[q] /\ q \notin Chain[p]
           N == {Height[c] : c \in {d \in Block : Forked(d)}}
<1> HIDE DEF Forked
<1>1. SUFFICES ASSUME Forked(b) PROVE FALSE
  BY DEF Forked
<1>2. N \in SUBSET Nat /\ N # {}
  BY <1>1, Tree0
<1>3. PICK m \in N : \A k \in N : m <= k
  <2> HIDE DEF N
  <2> QED BY <1>2, NatMin
<1>4. PICK c \in Block : Forked(c) /\ m = Height[c]
  BY <1>3
<1>5. PICK p \in Chain[c], q \in Chain[c] : p \notin Chain[q] /\ q \notin Chain[p]
  BY <1>4 DEF Forked
<1>6. c # Genesis
  BY <1>5, Tree0
<1>7. p \in Chain[Parent[c]] /\ q \in Chain[Parent[c]]
  BY <1>5, <1>6, Tree0
<1>8. Forked(Parent[c]) /\ Parent[c] \in Block
  BY <1>5, <1>6, <1>7, Tree0 DEF Forked
<1>9. Height[Parent[c]] \in N
  BY <1>8
<1>10. Height[c] = Height[Parent[c]] + 1 /\ Height[c] \in Nat /\ Height[Parent[c]] \in Nat
  BY <1>6, <1>8, Lower, Tree0
<1> HIDE DEF N
<1>11. m <= Height[Parent[c]]
  BY <1>3, <1>9
<1> QED BY <1>4, <1>10, <1>11

(* The next block on the way from a to its descendant m.                    *)
LEMMA Onwards ==
  ASSUME NEW m \in Block, NEW a \in Chain[m], a # m
  PROVE  LET c == AncestorAt(m, Height[a] + 1)
         IN  c \in Chain[m] /\ c \in Block \ {Genesis} /\ Parent[c] = a
<1>0. a \in Block /\ Chain[m] \subseteq Block
  BY Tree0
<1> DEFINE S == {x \in Chain[m] : a \in Chain[x] /\ x # a}
           N == {Height[x] : x \in S}
<1>1. m \in S /\ N \in SUBSET Nat /\ N # {}
  BY <1>0, Tree0
<1>2. PICK h \in N : \A k \in N : h <= k
  <2> HIDE DEF N
  <2> QED BY <1>1, NatMin
<1>3. PICK c \in S : h = Height[c]
  BY <1>2
<1>4. c \in Block /\ c # Genesis
  BY <1>0, <1>3, Tree0
<1>5. a \in Chain[Parent[c]] /\ Parent[c] \in Chain[m]
  BY <1>0, <1>3, <1>4, Tree0, NotAbove
<1>6. Parent[c] = a
  <2> SUFFICES ASSUME Parent[c] # a PROVE FALSE
    OBVIOUS
  <2>1. Height[Parent[c]] \in N
    BY <1>5
  <2>2. Height[c] = Height[Parent[c]] + 1 /\ Height[c] \in Nat /\ Height[Parent[c]] \in Nat
    BY <1>4, Lower, Tree0
  <2> HIDE DEF N
  <2>3. h <= Height[Parent[c]]
    BY <1>2, <2>1
  <2> QED BY <1>3, <2>2, <2>3
<1>7. Height[c] = Height[a] + 1
  BY <1>4, <1>6, Lower
<1> DEFINE d == AncestorAt(m, Height[a] + 1)
<1>8. d \in Chain[m] /\ Height[d] = Height[a] + 1
  BY <1>3, <1>7 DEF AncestorAt
<1> HIDE DEF d
<1>9. d \in Block /\ Height[d] \in Nat /\ Height[a] \in Nat
  BY <1>0, <1>8, Tree0
<1>10. a \in Chain[d] /\ a # d
  <2>1. d \notin Chain[a]
    BY <1>0, <1>8, <1>9, Lower
  <2> QED BY <1>8, <1>9, <2>1, Linear
<1>11. d # Genesis
  BY <1>10, Tree0
<1>12. a \in Chain[Parent[d]] /\ Parent[d] \in Block
  BY <1>9, <1>10, <1>11, Tree0
<1>13. Height[d] = Height[Parent[d]] + 1 /\ Height[Parent[d]] \in Nat
  BY <1>9, <1>11, <1>12, Lower, Tree0
<1>14. Parent[d] = a
  BY <1>8, <1>9, <1>12, <1>13, Lower
<1> QED BY <1>8, <1>9, <1>11, <1>14 DEF d

(* A nonempty set of ancestors of one block has a highest member.           *)
LEMMA HighestIn ==
  ASSUME NEW b \in Block, NEW S \in SUBSET Chain[b], S # {}
  PROVE  Highest(S) \in S
<1> DEFINE N == {Height[b] - Height[a] : a \in S}
<1>1. \A a \in S : a \in Block /\ Height[a] \in Nat /\ Height[a] <= Height[b]
  BY Tree0, Lower
<1>2. N \in SUBSET Nat /\ N # {} /\ Height[b] \in Nat
  BY <1>1, Tree0
<1>3. PICK h \in N : \A k \in N : h <= k
  <2> HIDE DEF N
  <2> QED BY <1>2, NatMin
<1>4. PICK a \in S : h = Height[b] - Height[a]
  BY <1>3
<1>5. ASSUME NEW d \in S PROVE Height[d] <= Height[a]
  <2>1. Height[b] - Height[d] \in N
    OBVIOUS
  <2> HIDE DEF N
  <2>2. h <= Height[b] - Height[d]
    BY <1>3, <2>1
  <2> QED BY <1>1, <1>2, <1>4, <2>2
<1> QED BY <1>4, <1>5 DEF Highest
-----------------------------------------------------------------------------
(* Frames: what the actions do to each part of the invariant.               *)

LEMMA IndexFrame ==
  ASSUME IndexInv, UNCHANGED index, candidates' \subseteq linked, tip' \in linked,
         DOMAIN soft' = Block, soft'[Genesis] = -1
  PROVE  IndexInv'
BY DEF IndexInv, index

(* A thread that was idle begins to activate, or none does.                 *)
LEMMA IdleFrame ==
  ASSUME ThreadInv, cs = NoThread, UNCHANGED <<mostWork, checking>>, linked \subseteq linked',
         cs' \in Thread \cup {NoThread}, rpc' \in Thread \cup {NoThread},
         DOMAIN pc' = Thread,
         \A t \in Thread : pc'[t] = pc[t] \/ (pc[t] = "idle" /\ pc'[t] = "loop")
  PROVE  ThreadInv'
<1>1. \A t \in Thread : pc[t] # "step"
  BY Tree0 DEF ThreadInv
<1>2. \A t \in Thread : pc'[t] # "step" /\ (pc'[t] = "check" <=> pc[t] = "check")
  BY <1>1
<1>3. mostWork' \in [Thread -> linked' \cup {NoBlock}] /\ checking' \in [Thread -> Block \cup {NoBlock}]
  BY DEF ThreadInv
<1> QED BY <1>2, <1>3 DEF ThreadInv

LEMMA ActivateFrame ==
  ASSUME ThreadInv, cs = NoThread, NEW t \in Thread, pc[t] = "idle", NEW b, Activate(t, b),
         linked \subseteq linked', cs' \in Thread \cup {NoThread}, rpc' \in Thread \cup {NoThread}
  PROVE  ThreadInv'
<1>1. pc' = [pc EXCEPT ![t] = "loop"] /\ UNCHANGED <<mostWork, checking>> /\ DOMAIN pc = Thread
  BY DEF Activate, ThreadInv
<1> QED BY <1>1, IdleFrame

(* When thread t may go on, no other thread is in the middle of a step.     *)
LEMMA OthersOut ==
  ASSUME ThreadInv, NEW t \in Thread, Unlocked(t) \/ pc[t] = "step"
  PROVE  Unlocked(t) /\ \A u \in Thread \ {t} : pc[u] # "step"
BY Tree0 DEF ThreadInv, Unlocked

LEMMA FinishFrame ==
  ASSUME ThreadInv, NEW t \in Thread, Unlocked(t), NEW tp, NEW keep, Finish(t, tp, keep),
         UNCHANGED <<linked, rpc>>
  PROVE  ThreadInv'
<1>1. \A u \in Thread \ {t} : pc[u] # "step" /\ pc'[u] = pc[u] /\ checking'[u] = checking[u] /\ mostWork'[u] = mostWork[u]
  BY OthersOut DEF Finish, ThreadInv
<1>2. /\ DOMAIN pc' = Thread /\ pc'[t] = "loop" /\ checking'[t] = NoBlock
      /\ checking' \in [Thread -> Block \cup {NoBlock}]
      /\ mostWork' \in [Thread -> linked \cup {NoBlock}]
      /\ cs' = rpc
  BY DEF Finish, ThreadInv
<1>3. cs' \in Thread \cup {NoThread} /\ rpc' \in Thread \cup {NoThread}
  BY <1>2 DEF ThreadInv
<1>4. ASSUME NEW u \in Thread
      PROVE  /\ checking'[u] # NoBlock <=> pc'[u] = "check"
             /\ pc'[u] \in {"step", "check"} => mostWork'[u] # NoBlock
             /\ pc'[u] # "step"
             /\ pc'[u] = "check" => checking'[u] \in Chain[mostWork'[u]] \ {Genesis}
  BY <1>1, <1>2 DEF ThreadInv
<1>5. ASSUME NEW u \in Thread, NEW v \in Thread, u # v, checking'[u] # NoBlock
      PROVE  checking'[u] # checking'[v]
  BY <1>1, <1>2, <1>5 DEF ThreadInv
<1> QED BY <1>2, <1>3, <1>4, <1>5 DEF ThreadInv

LEMMA WaitFrame ==
  ASSUME WaitInv, UNCHANGED index,
         \A b \in header \ {Genesis} :
            Parent[b] \in Invalid' \ linked => b \in Invalid' \/ Chain[b] \cap Unfit # {}
  PROVE  WaitInv'
BY DEF WaitInv, index
-----------------------------------------------------------------------------
(* Arrival of headers and blocks.                                           *)

LEMMA HeaderAdded ==
  ASSUME IndexInv, WaitInv, NEW b \in Block \ {Genesis}, HeaderOk(b), AddToBlockIndex(b)
  PROVE  /\ header' = header \cup {b} /\ header' \subseteq Block
         /\ DOMAIN soft' = Block /\ soft'[Genesis] = -1
         /\ \A y \in header' \ {Genesis} :
               Parent[y] \in Invalid \ linked => y \in Invalid \/ Chain[y] \cap Unfit # {}
BY DEF IndexInv, WaitInv, AddToBlockIndex, HeaderOk

LEMMA HeaderInv ==
  ASSUME Inv, NEW b \in Block \ {Genesis}, HeaderOk(b), AddToBlockIndex(b), cs = NoThread,
         UNCHANGED <<data, linked, unlinked, candidates, tip, failedParent>>,
         UNCHANGED failed \/ (b \in Unfit /\ failed' = failed \cup {b})
  PROVE  IndexInv' /\ WaitInv'
<1>1. IndexInv /\ WaitInv
  BY DEF Inv
<1>2. IndexInv'
  BY <1>1, HeaderAdded DEF IndexInv
<1>3. ASSUME NEW y \in header' \ {Genesis}, Parent[y] \in Invalid' \ linked
      PROVE  y \in Invalid' \/ Chain[y] \cap Unfit # {}
  <2>1. y \in Block /\ Parent[y] \in Chain[y]
    BY <1>1, HeaderAdded, NotAbove
  <2>2. CASE Parent[y] \in Invalid
    <3>1. Parent[y] \in Invalid \ linked
      BY <1>3, <2>2
    <3>2. y \in Invalid \/ Chain[y] \cap Unfit # {}
      BY <1>1, <3>1, HeaderAdded
    <3> QED BY <3>2 DEF Invalid
  <2>3. CASE Parent[y] \notin Invalid
    <3>1. Parent[y] = b /\ b \in Unfit
      BY <1>3, <2>3 DEF Invalid
    <3> QED BY <2>1, <3>1
  <2> QED BY <2>2, <2>3
<1>4. WaitInv'
  BY <1>1, <1>3 DEF WaitInv
<1> QED BY <1>2, <1>4

(* ReceivedBlockTransactions links b, which has a linked parent, and every  *)
(* block that waits for nothing but b.                                      *)
LEMMA LinkInv ==
  ASSUME IndexInv, WaitInv, NEW b \in Block \ {Genesis}, b \notin data \cup Unfit,
         Parent[b] \in linked, data' = data \cup {b}, Link(b)
  PROVE  /\ linked \subseteq linked' /\ linked' \subseteq data' /\ b \in linked'
         /\ unlinked' \subseteq data' \ linked' /\ candidates' \subseteq linked'
         /\ \A d \in linked' : Chain[d] \subseteq linked'
         /\ \A d \in data' \ linked' : Chain[d] \cap Unfit = {} => d \in unlinked'
         /\ \A d \in data' : Chain[d] \subseteq data' => d \in linked'
<1> DEFINE N == NewlyLinked(b)
<1>0. /\ data \subseteq Block /\ data \cap Unfit = {} /\ linked \subseteq data /\ unlinked \subseteq data \ linked
      /\ candidates \subseteq linked /\ \A d \in linked : Chain[d] \subseteq linked
  BY DEF IndexInv
<1>1. linked' = linked \cup N /\ unlinked' = unlinked \ N /\ candidates' \subseteq candidates \cup N
  BY DEF Link
<1>2. \A d : d \in N <=> d \in unlinked \cup {b} /\ b \in Chain[d] /\ Chain[d] \ Chain[b] \subseteq unlinked
  BY DEF NewlyLinked
<1> HIDE DEF N
<1>3. b \in N /\ b \in Chain[b]
  BY <1>2, Tree0
<1>4. ASSUME NEW d \in N PROVE Chain[d] \subseteq linked \cup N
  <2> SUFFICES ASSUME NEW x \in Chain[d], x \notin linked PROVE x \in N
    OBVIOUS
  <2>0. d \in Block /\ x \in Block
    BY <1>0, <1>2, Tree0
  <2>1. CASE x \in Chain[b]
    BY <1>0, <1>3, <2>1, Tree0
  <2>2. CASE x \notin Chain[b]
    <3>1. b \in Chain[x] /\ Chain[x] \subseteq Chain[d]
      BY <1>2, <2>0, <2>2, Linear, Tree0
    <3>2. x \in unlinked
      BY <1>2, <2>2
    <3> QED BY <1>2, <3>1, <3>2
  <2> QED BY <2>1, <2>2
<1>5. ASSUME NEW d \in data' \ linked', Chain[d] \cap Unfit = {} PROVE d \in unlinked'
  BY <1>1, <1>3, <1>5 DEF WaitInv
<1>6. ASSUME NEW d \in data', Chain[d] \subseteq data' PROVE d \in linked'
  <2>0. d \in Block
    BY <1>0
  <2>1. CASE b \notin Chain[d]
    <3>1. d \in data /\ Chain[d] \subseteq data
      BY <1>6, <2>0, <2>1, Tree0
    <3> QED BY <1>1, <3>1 DEF WaitInv
  <2>2. CASE b \in Chain[d]
    <3>1. ASSUME NEW x \in Chain[d], x \notin Chain[b] PROVE x \in unlinked
      <4>1. x \in data /\ x \in Block
        BY <1>0, <1>3, <1>6, <3>1
      <4>2. b \in Chain[x] /\ Chain[x] \subseteq Chain[d]
        BY <2>0, <2>2, <3>1, Linear, Tree0
      <4>3. x \notin linked
        BY <1>0, <4>2
      <4>4. Chain[x] \cap Unfit = {}
        BY <1>0, <1>6, <4>2
      <4> QED BY <4>1, <4>3, <4>4 DEF WaitInv
    <3>2. d = b \/ d \notin Chain[b]
      <4>1. d # b => Height[b] < Height[d] /\ (d \in Chain[b] => Height[d] < Height[b])
        BY <2>0, <2>2, Lower
      <4>2. Height[d] \in Nat /\ Height[b] \in Nat
        BY <2>0, Tree0
      <4> QED BY <4>1, <4>2
    <3>3. d \in N
      BY <1>2, <1>3, <2>0, <2>2, <3>1, <3>2, Tree0
    <3> QED BY <1>1, <3>3
  <2> QED BY <2>1, <2>2
<1>7. linked' \subseteq data' /\ unlinked' \subseteq data' \ linked' /\ candidates' \subseteq linked'
  BY <1>0, <1>1, <1>2
<1>8. ASSUME NEW d \in linked' PROVE Chain[d] \subseteq linked'
  BY <1>0, <1>1, <1>4
<1> QED BY <1>1, <1>3, <1>5, <1>6, <1>7, <1>8

LEMMA ReceiveInv ==
  ASSUME Inv, NEW t \in Thread, NEW b \in Block \ {Genesis}, ReceiveBlock(t, b)
  PROVE  Inv'
<1>0. IndexInv /\ WaitInv /\ ThreadInv
  BY DEF Inv
<1>1. /\ HeaderOk(b) /\ AddToBlockIndex(b) /\ data' = data \cup {b} /\ b \notin data \cup Unfit
      /\ UNCHANGED <<failed, failedParent, tip, cs, rpc>>
      /\ cs = NoThread /\ pc[t] = "idle" /\ Activate(t, b)
  BY DEF ReceiveBlock, flags
<1>2. /\ header' = header \cup {b} /\ header' \subseteq Block
      /\ DOMAIN soft' = Block /\ soft'[Genesis] = -1 /\ Invalid' = Invalid
      /\ \A y \in header' \ {Genesis} :
            Parent[y] \in Invalid \ linked => y \in Invalid \/ Chain[y] \cap Unfit # {}
  BY <1>0, <1>1, HeaderAdded DEF Invalid
<1>3. CASE Parent[b] \in linked /\ Link(b)
  <2>1. /\ linked \subseteq linked' /\ linked' \subseteq data' /\ b \in linked'
        /\ unlinked' \subseteq data' \ linked' /\ candidates' \subseteq linked'
        /\ \A d \in linked' : Chain[d] \subseteq linked'
        /\ \A d \in data' \ linked' : Chain[d] \cap Unfit = {} => d \in unlinked'
        /\ \A d \in data' : Chain[d] \subseteq data' => d \in linked'
    BY <1>0, <1>1, <1>3, LinkInv
  <2>2. IndexInv'
    BY <1>0, <1>1, <1>2, <2>1 DEF IndexInv
  <2>3. WaitInv'
    BY <1>2, <2>1 DEF WaitInv
  <2>4. ThreadInv'
    BY <1>0, <1>1, <2>1, ActivateFrame DEF ThreadInv
  <2> QED BY <2>2, <2>3, <2>4 DEF Inv
<1>4. CASE Parent[b] \notin linked /\ UNCHANGED <<linked, seq, candidates>>
           /\ unlinked' = IF Parent[b] \in Invalid THEN unlinked ELSE unlinked \cup {b}
  <2>1. IndexInv'
    BY <1>0, <1>1, <1>2, <1>4 DEF IndexInv
  <2>2. ASSUME NEW d \in data' \ linked', Chain[d] \cap Unfit = {} PROVE d \in unlinked'
    <3>1. CASE d # b
      BY <1>0, <1>1, <1>4, <2>2, <3>1 DEF WaitInv
    <3>2. CASE d = b
      <4>1. b \notin Invalid \/ Parent[b] \notin Invalid
        BY <1>1 DEF HeaderOk
      <4>2. Parent[b] \notin Invalid
        BY <1>2, <1>4, <2>2, <3>2, <4>1
      <4> QED BY <1>4, <3>2, <4>2
    <3> QED BY <3>1, <3>2
  <2>3. ASSUME NEW d \in data', Chain[d] \subseteq data' PROVE d \in linked'
    <3>0. d \in Block
      BY <1>0, <1>1 DEF IndexInv
    <3>1. CASE b \notin Chain[d]
      <4>1. d \in data /\ Chain[d] \subseteq data
        BY <1>1, <2>3, <3>0, <3>1, Tree0
      <4> QED BY <1>0, <1>4, <4>1 DEF WaitInv
    <3>2. CASE b \in Chain[d]
      <4>1. Chain[Parent[b]] \subseteq data /\ Parent[b] \in data
        BY <1>1, <2>3, <3>0, <3>2, Tree0, NotAbove
      <4> QED BY <1>0, <1>4, <4>1 DEF WaitInv
    <3> QED BY <3>1, <3>2
  <2>4. WaitInv'
    BY <1>2, <1>4, <2>2, <2>3 DEF WaitInv
  <2>5. ThreadInv'
    BY <1>0, <1>1, <1>4, ActivateFrame DEF ThreadInv
  <2> QED BY <2>1, <2>4, <2>5 DEF Inv
<1> QED BY <1>3, <1>4 DEF ReceiveBlock

LEMMA ArrivalInv == ASSUME Inv, Arrival PROVE Inv'
<1>0. IndexInv /\ WaitInv /\ ThreadInv
  BY DEF Inv
<1>1. ASSUME NEW b \in Block \ {Genesis}, AcceptHeader(b) PROVE Inv'
  <2>1. IndexInv' /\ WaitInv'
    BY <1>1, HeaderInv DEF AcceptHeader, flags
  <2>2. ThreadInv'
    BY <1>0, <1>1, IdleFrame DEF AcceptHeader, locals, ThreadInv
  <2> QED BY <2>1, <2>2 DEF Inv
<1>2. ASSUME NEW b \in Block \ {Genesis}, RejectBlock(b) PROVE Inv'
  <2>1. IndexInv' /\ WaitInv'
    BY <1>2, HeaderInv DEF RejectBlock
  <2>2. ThreadInv'
    BY <1>0, <1>2, IdleFrame DEF RejectBlock, locals, ThreadInv
  <2> QED BY <2>1, <2>2 DEF Inv
<1>3. ASSUME NEW t \in Thread, NEW b \in Block \ {Genesis}, AcceptKnown(t, b) PROVE Inv'
  <2>1. IndexInv' /\ WaitInv'
    BY <1>3, HeaderInv DEF AcceptKnown, flags
  <2>2. ThreadInv'
    BY <1>0, <1>3, ActivateFrame DEF AcceptKnown, ThreadInv
  <2> QED BY <2>1, <2>2 DEF Inv
<1> QED BY <1>1, <1>2, <1>3, ReceiveInv DEF Arrival
-----------------------------------------------------------------------------
(* The loop of ActivateBestChain.                                           *)

(* FindMostWorkChain marks only descendants of blocks that are marked, and  *)
(* of such a block all that are in the index.                               *)
LEMMA SearchMarks ==
  ASSUME IndexInv, NEW t \in Thread, NEW m, Search(t, m), UNCHANGED failed
  PROVE  /\ candidates' \subseteq candidates /\ Invalid \subseteq Invalid'
         /\ \A x \in Invalid' \ Invalid :
               x \in header /\ \E y \in Invalid \cap Block : y \in Chain[x]
         /\ \A x \in header \ {Genesis} : Parent[x] \in Invalid' \ Invalid => x \in Invalid'
<1>1. CASE UNCHANGED <<failedParent, candidates>>
  BY <1>1 DEF Invalid
<1>2. CASE InvalidateChains(Culprits(m))
  <2>1. candidates' \subseteq candidates /\ Invalid' = Invalid \cup Descendants(Culprits(m))
    BY <1>2 DEF InvalidateChains, Invalid
  <2>2. ASSUME NEW y \in Culprits(m) PROVE y \in Invalid \cap Block
    <3>1. PICK c \in Eligible : ~Clean(c) /\ y = Highest((Chain[c] \ Chain[tip]) \cap Invalid)
      BY DEF Culprits
    <3>2. c \in Block
      BY DEF Eligible, IndexInv
    <3>3. (Chain[c] \ Chain[tip]) \cap Invalid \in SUBSET Chain[c] /\ (Chain[c] \ Chain[tip]) \cap Invalid # {}
      BY <3>1 DEF Clean
    <3>4. y \in (Chain[c] \ Chain[tip]) \cap Invalid
      BY <3>1, <3>2, <3>3, HighestIn
    <3> QED BY <3>2, <3>4, Tree0
  <2>3. ASSUME NEW x \in Invalid' \ Invalid
        PROVE  x \in header /\ \E y \in Invalid \cap Block : y \in Chain[x]
    BY <2>1, <2>2 DEF Descendants
  <2>4. ASSUME NEW x \in header \ {Genesis}, Parent[x] \in Invalid' \ Invalid
        PROVE  x \in Invalid'
    <3>1. x \in Block /\ Parent[x] \in Block /\ x \notin Chain[Parent[x]] /\ Chain[x] = {x} \cup Chain[Parent[x]]
      BY NotAbove, Tree0 DEF IndexInv
    <3>2. Parent[x] \in Descendants(Culprits(m))
      BY <2>1, <2>4
    <3>3. x \in Descendants(Culprits(m))
      BY <3>1, <3>2 DEF Descendants
    <3> QED BY <2>1, <3>3
  <2> QED BY <2>1, <2>3, <2>4
<1> QED BY <1>1, <1>2 DEF Search

LEMMA TargetLinked ==
  ASSUME IndexInv, ThreadInv, NEW t \in Thread, NEW m \in FindMostWorkChain
  PROVE  Target(t, m) \in linked \cup {NoBlock}
<1>1. m \in linked \cup {NoBlock}
  BY DEF FindMostWorkChain, Eligible, IndexInv
<1>2. mostWork[t] \in linked \cup {NoBlock}
  BY DEF ThreadInv
<1> QED BY <1>1, <1>2 DEF Target, Consider, Usable

LEMMA SearchInv ==
  ASSUME Inv, NEW t \in Thread, NEW m, Search(t, m), UNCHANGED <<index, failed, soft, tip>>
  PROVE  IndexInv' /\ WaitInv'
<1>0. IndexInv /\ WaitInv
  BY DEF Inv
<1>1. IndexInv'
  BY <1>0, SearchMarks, IndexFrame DEF IndexInv
<1>2. ASSUME NEW b \in header \ {Genesis}, Parent[b] \in Invalid' \ linked
      PROVE  b \in Invalid' \/ Chain[b] \cap Unfit # {}
  BY <1>0, <1>2, SearchMarks DEF WaitInv
<1> QED BY <1>0, <1>1, <1>2, WaitFrame

LEMMA LeaveInv == ASSUME Inv, NEW t \in Thread, Leave(t) PROVE Inv'
<1>0. IndexInv /\ WaitInv /\ ThreadInv
  BY DEF Inv
<1>1. PICK m \in FindMostWorkChain : Search(t, m)
  BY DEF Leave
<1>2. UNCHANGED <<index, failed, soft, tip>>
  BY DEF Leave
<1>3. IndexInv' /\ WaitInv'
  BY <1>1, <1>2, SearchInv
<1>4. /\ pc[t] = "loop" /\ pc' = [pc EXCEPT ![t] = "idle"] /\ checking' = checking
      /\ mostWork' = [mostWork EXCEPT ![t] = NoBlock] /\ linked' = linked
      /\ cs' = NoThread /\ rpc' = NoThread
      /\ \A u \in Thread \ {t} : pc[u] # "step"
  BY <1>0, OthersOut DEF Leave, index
<1>5. /\ DOMAIN pc' = Thread /\ mostWork' \in [Thread -> linked' \cup {NoBlock}]
      /\ checking' \in [Thread -> Block \cup {NoBlock}]
  BY <1>0, <1>4 DEF ThreadInv
<1>6. ASSUME NEW u \in Thread
      PROVE  /\ checking'[u] # NoBlock <=> pc'[u] = "check"
             /\ pc'[u] \in {"step", "check"} => mostWork'[u] # NoBlock
             /\ pc'[u] # "step"
             /\ pc'[u] = "check" => checking'[u] \in Chain[mostWork'[u]] \ {Genesis}
  BY <1>0, <1>4 DEF ThreadInv
<1>7. ThreadInv'
  BY <1>0, <1>4, <1>5, <1>6 DEF ThreadInv
<1> QED BY <1>3, <1>7 DEF Inv

LEMMA StartInv == ASSUME Inv, NEW t \in Thread, Start(t) PROVE Inv'
<1>0. IndexInv /\ WaitInv /\ ThreadInv
  BY DEF Inv
<1>1. PICK m \in FindMostWorkChain :
        /\ GoesOn(Target(t, m)) /\ Search(t, m)
        /\ mostWork' = [mostWork EXCEPT ![t] = Target(t, m)]
  BY DEF Start
<1>2. UNCHANGED <<index, failed, soft, tip>>
  BY DEF Start
<1>3. IndexInv' /\ WaitInv'
  BY <1>1, <1>2, SearchInv
<1>4. /\ pc[t] = "loop" /\ pc' = [pc EXCEPT ![t] = "step"] /\ checking' = checking
      /\ linked' = linked /\ cs' = t /\ rpc' = rpc
      /\ \A u \in Thread \ {t} : pc[u] # "step"
  BY <1>0, OthersOut DEF Start, index
<1>5. Target(t, m) \in linked \cup {NoBlock} /\ Target(t, m) # NoBlock /\ ~Covered(Target(t, m))
  BY <1>0, <1>1, TargetLinked DEF GoesOn
<1>6. /\ DOMAIN pc' = Thread /\ mostWork' \in [Thread -> linked' \cup {NoBlock}]
      /\ checking' \in [Thread -> Block \cup {NoBlock}] /\ mostWork'[t] = Target(t, m)
  BY <1>0, <1>1, <1>4, <1>5 DEF ThreadInv
<1>7. ~Covered(mostWork[t])'
  BY <1>4, <1>5, <1>6 DEF Covered, Validating
<1>8. ASSUME NEW u \in Thread
      PROVE  /\ checking'[u] # NoBlock <=> pc'[u] = "check"
             /\ pc'[u] \in {"step", "check"} => mostWork'[u] # NoBlock
             /\ pc'[u] = "step" => u = t
             /\ pc'[u] = "check" => checking'[u] \in Chain[mostWork'[u]] \ {Genesis}
  BY <1>0, <1>1, <1>4, <1>5, <1>6 DEF ThreadInv
<1>9. ThreadInv'
  BY <1>0, <1>4, <1>6, <1>7, <1>8 DEF ThreadInv
<1> QED BY <1>3, <1>9 DEF Inv
-----------------------------------------------------------------------------
(* ActivateBestChainStep.                                                   *)

LEMMA NextFacts ==
  ASSUME Inv, NEW t \in Thread, pc[t] = "step", tip \in Chain[mostWork[t]], tip # mostWork[t]
  PROVE  /\ NextBlock(t) \in Chain[mostWork[t]] /\ NextBlock(t) \in linked \ {Genesis}
         /\ Parent[NextBlock(t)] = tip
<1>1. mostWork[t] \in linked /\ linked \subseteq Block /\ Chain[mostWork[t]] \subseteq linked
  BY DEF Inv, ThreadInv, IndexInv
<1> QED BY <1>1, Onwards DEF NextBlock

LEMMA MakeTipFrame ==
  ASSUME IndexInv, NEW b \in linked, MakeTip(b)
  PROVE  tip' = b /\ candidates' \subseteq linked
BY DEF MakeTip, PruneWith, IndexInv

(* Marking a linked block as invalid leaves nobody waiting for it.          *)
LEMMA MarkLinked ==
  ASSUME WaitInv, UNCHANGED <<index, failedParent>>, NEW b \in linked,
         failed' = failed \/ failed' = failed \cup {b}
  PROVE  WaitInv'
<1>1. Invalid \subseteq Invalid' /\ Invalid' \subseteq Invalid \cup {b}
  BY DEF Invalid
<1> QED BY <1>1, WaitFrame DEF WaitInv

LEMMA DisconnectInv == ASSUME Inv, NEW t \in Thread, DisconnectTip(t) PROVE Inv'
<1>0. IndexInv /\ WaitInv /\ ThreadInv
  BY DEF Inv
<1>1. /\ pc[t] = "step" /\ tip' = Parent[tip] /\ UNCHANGED <<index, failed, failedParent, soft, candidates, rpc>>
      /\ tip \notin Chain[mostWork[t]]
  BY DEF DisconnectTip, flags
<1>2. tip \in Block \ {Genesis} /\ tip' \in linked
  <2>1. mostWork[t] \in Block /\ tip \in Block
    BY <1>0, <1>1 DEF ThreadInv, IndexInv
  <2>2. tip # Genesis
    BY <1>1, <2>1, Tree0
  <2> QED BY <1>0, <1>1, <2>1, <2>2, NotAbove DEF IndexInv
<1>3. IndexInv'
  BY <1>0, <1>1, <1>2, IndexFrame DEF IndexInv
<1>4. WaitInv'
  BY <1>0, <1>1, WaitFrame DEF WaitInv, Invalid, index
<1>5. ThreadInv'
  <2>1. CASE Finish(t, tip', TRUE)
    BY <1>0, <1>1, <2>1, OthersOut, FinishFrame DEF index
  <2>2. CASE UNCHANGED <<pc, mostWork, newTip, oldTip, checking, cs>>
    BY <1>0, <1>1, <2>2 DEF ThreadInv, index, Covered, Validating
  <2> QED BY <2>1, <2>2 DEF DisconnectTip
<1> QED BY <1>3, <1>4, <1>5 DEF Inv

LEMMA ConnectHeldInv == ASSUME Inv, NEW t \in Thread, ConnectHeld(t) PROVE Inv'
<1>0. IndexInv /\ WaitInv /\ ThreadInv
  BY DEF Inv
<1> DEFINE b == NextBlock(t)
<1>1. /\ pc[t] = "step" /\ UNCHANGED <<index, failedParent, soft, rpc>>
      /\ b \in linked
  BY NextFacts DEF ConnectHeld, Connecting
<1>2. Unlocked(t) /\ UNCHANGED linked
  BY <1>0, <1>1, OthersOut DEF index
<1>3. CASE InvalidBlockFound(b) /\ Finish(t, tip, FALSE) /\ UNCHANGED tip
  <2>1. IndexInv'
    BY <1>0, <1>1, <1>3, IndexFrame DEF IndexInv, InvalidBlockFound
  <2>2. WaitInv'
    BY <1>0, <1>1, <1>3, MarkLinked DEF InvalidBlockFound
  <2>3. ThreadInv'
    BY <1>0, <1>1, <1>2, <1>3, FinishFrame
  <2> QED BY <2>1, <2>2, <2>3 DEF Inv
<1>4. CASE MakeTip(b) /\ UNCHANGED failed
  <2>1. IndexInv'
    BY <1>0, <1>1, <1>4, MakeTipFrame, IndexFrame DEF IndexInv
  <2>2. WaitInv'
    BY <1>0, <1>1, <1>4, MarkLinked
  <2>3. CASE Finish(t, b, TRUE)
    BY <1>0, <1>1, <1>2, <2>1, <2>2, <2>3, FinishFrame DEF Inv
  <2>4. CASE UNCHANGED <<pc, mostWork, newTip, oldTip, checking, cs>>
    <3>1. ThreadInv'
      BY <1>0, <1>1, <1>2, <2>4 DEF ThreadInv, Covered, Validating
    <3> QED BY <2>1, <2>2, <3>1 DEF Inv
  <2> QED BY <1>4, <2>3, <2>4, <1>3 DEF ConnectHeld
<1> QED BY <1>3, <1>4 DEF ConnectHeld

LEMMA StartCheckInv == ASSUME Inv, NEW t \in Thread, StartCheck(t) PROVE Inv'
<1>0. IndexInv /\ WaitInv /\ ThreadInv
  BY DEF Inv
<1> DEFINE b == NextBlock(t)
<1>1. /\ pc[t] = "step" /\ pc' = [pc EXCEPT ![t] = "check"] /\ checking' = [checking EXCEPT ![t] = b]
      /\ UNCHANGED <<index, failed, failedParent, soft, candidates, tip, rpc, mostWork>>
      /\ b \in Chain[mostWork[t]] \ {Genesis} /\ b \in Block /\ cs' = rpc
  BY <1>0, NextFacts DEF StartCheck, Connecting, flags, IndexInv
<1> HIDE DEF b
<1>2. IndexInv' /\ WaitInv'
  BY <1>0, <1>1, IndexFrame, WaitFrame DEF IndexInv, WaitInv, Invalid, index
<1>3. \A u \in Thread \ {t} : pc[u] # "step"
  BY <1>0, <1>1, OthersOut
<1>4. ASSUME NEW u \in Thread PROVE checking[u] # b
  <2>1. ~Covered(mostWork[t])
    BY <1>0, <1>1 DEF ThreadInv
  <2>2. b # NoBlock
    BY <1>1, Tree0
  <2> QED BY <1>1, <2>1, <2>2 DEF Covered, Validating
<1>5. /\ DOMAIN pc' = Thread /\ mostWork' \in [Thread -> linked' \cup {NoBlock}]
      /\ checking' \in [Thread -> Block \cup {NoBlock}]
      /\ cs' \in Thread \cup {NoThread} /\ rpc' \in Thread \cup {NoThread}
  BY <1>0, <1>1 DEF ThreadInv, index
<1>6. ASSUME NEW u \in Thread
      PROVE  /\ checking'[u] # NoBlock <=> pc'[u] = "check"
             /\ pc'[u] \in {"step", "check"} => mostWork'[u] # NoBlock
             /\ pc'[u] # "step"
             /\ pc'[u] = "check" => checking'[u] \in Chain[mostWork'[u]] \ {Genesis}
  BY <1>0, <1>1, <1>3, Tree0 DEF ThreadInv
<1>7. ASSUME NEW u \in Thread, NEW v \in Thread, u # v, checking'[u] # NoBlock
      PROVE  checking'[u] # checking'[v]
  BY <1>0, <1>1, <1>4, <1>7 DEF ThreadInv
<1>8. ThreadInv'
  BY <1>5, <1>6, <1>7 DEF ThreadInv
<1> QED BY <1>2, <1>8 DEF Inv

LEMMA CheckedInv ==
  ASSUME Inv, NEW t \in Thread, CheckPassed(t) \/ CheckFailed(t) \/ CheckCancelled(t)
  PROVE  Inv'
<1>0. IndexInv /\ WaitInv /\ ThreadInv
  BY DEF Inv
<1> DEFINE b == checking[t]
<1>1. /\ pc[t] = "check" /\ Unlocked(t) /\ UNCHANGED <<index, failedParent, soft, rpc>>
      /\ UNCHANGED linked
  BY DEF CheckPassed, CheckFailed, CheckCancelled, flags, index
<1>2. b \in linked
  BY <1>0, <1>1 DEF ThreadInv, IndexInv
<1>3. \E tp, keep : Finish(t, tp, keep)
  BY DEF CheckPassed, CheckFailed, CheckCancelled, Abandon
<1>4. ThreadInv'
  BY <1>0, <1>1, <1>3, FinishFrame
<1>5. failed' = failed \/ failed' = failed \cup {b}
  BY DEF CheckPassed, CheckFailed, CheckCancelled, InvalidBlockFound, flags
<1>6. WaitInv'
  BY <1>0, <1>1, <1>2, <1>5, MarkLinked
<1>7. candidates' \subseteq linked /\ tip' \in linked
  <2>1. CASE CheckPassed(t) /\ MakeTip(b)
    BY <1>0, <1>2, <2>1, MakeTipFrame
  <2>2. CASE candidates' = candidates \cup {b} /\ UNCHANGED tip
    BY <1>0, <1>2, <2>2 DEF IndexInv
  <2>3. CASE CheckFailed(t)
    BY <1>0, <2>3 DEF CheckFailed, InvalidBlockFound, IndexInv
  <2>4. CASE CheckCancelled(t)
    BY <1>0, <2>4 DEF CheckCancelled, IndexInv
  <2> QED BY <2>1, <2>2, <2>3, <2>4 DEF CheckPassed
<1>8. IndexInv'
  BY <1>0, <1>1, <1>7, IndexFrame DEF IndexInv
<1> QED BY <1>4, <1>6, <1>8 DEF Inv
-----------------------------------------------------------------------------
(* The operator's commands.                                                 *)

LEMMA FirstNotSoftIn ==
  ASSUME NEW tp \in Block, NEW sf, sf[Genesis] = -1
  PROVE  FirstNotSoft(tp, sf) \in Chain[tp]
<1> DEFINE S == {a \in Chain[tp] : sf[a] < 0}
<1>1. S \in SUBSET Chain[tp] /\ S # {}
  BY Tree0
<1>2. Highest(S) \in S
  <2> HIDE DEF S
  <2> QED BY <1>1, HighestIn
<1> QED BY <1>2 DEF FirstNotSoft

LEMMA InvalidateInv ==
  ASSUME Inv, NEW t \in Thread, NEW b \in Block, InvalidateBlock(t, b)
  PROVE  Inv'
<1>0. IndexInv /\ WaitInv /\ ThreadInv
  BY DEF Inv
<1>1. /\ b \in header \ {Genesis} /\ cs = NoThread /\ pc[t] = "idle" /\ Activate(t, NoBlock)
      /\ cs' = t /\ rpc' = t /\ failed' = failed \cup {b} /\ UNCHANGED <<index, soft>>
      /\ UNCHANGED linked
  BY DEF InvalidateBlock, Command, index
<1>2. ThreadInv'
  BY <1>0, <1>1, ActivateFrame
<1>3. CASE b \in Chain[tip]
  <2>1. /\ failedParent' = failedParent \cup (Chain[tip] \ Chain[Parent[b]])
        /\ tip' = FirstNotSoft(Parent[b], soft)
        /\ candidates' = (candidates \ (Chain[tip] \ Chain[Parent[b]]))
                            \cup NotWorseThan(tip', failed' \cup failedParent')
    BY <1>3 DEF InvalidateBlock
  <2>2. tip' \in linked
    <3>1. Parent[b] \in Block /\ tip' \in Chain[Parent[b]]
      BY <1>0, <1>1, <2>1, NotAbove, FirstNotSoftIn DEF IndexInv
    <3>2. Chain[Parent[b]] \subseteq Chain[tip] /\ Chain[tip] \subseteq linked
      BY <1>0, <1>1, <1>3, Tree0, NotAbove DEF IndexInv
    <3> QED BY <3>1, <3>2
  <2>3. candidates' \subseteq linked
    BY <1>0, <2>1 DEF NotWorseThan, IndexInv
  <2>4. IndexInv'
    BY <1>0, <1>1, <2>2, <2>3, IndexFrame DEF IndexInv
  <2>5. Invalid \subseteq Invalid' /\ Invalid' \subseteq Invalid \cup linked
    BY <1>0, <1>1, <1>3, <2>1 DEF Invalid, IndexInv
  <2>6. WaitInv'
    BY <1>0, <1>1, <2>5, WaitFrame DEF WaitInv
  <2> QED BY <1>2, <2>4, <2>6 DEF Inv
<1>4. CASE b \notin Chain[tip]
  <2>1. /\ failedParent' = failedParent \cup Descendants({b}) /\ UNCHANGED tip
        /\ candidates' = (candidates \ ({b} \cup Descendants({b})))
                            \cup NotWorseThan(tip, failed' \cup failedParent')
    BY <1>4 DEF InvalidateBlock
  <2>2. candidates' \subseteq linked
    BY <1>0, <2>1 DEF NotWorseThan, IndexInv
  <2>3. IndexInv'
    BY <1>0, <1>1, <2>1, <2>2, IndexFrame DEF IndexInv
  <2>4. Invalid' = Invalid \cup {b} \cup Descendants({b})
    BY <1>1, <2>1 DEF Invalid
  <2>5. ASSUME NEW x \in header \ {Genesis}, Parent[x] \in Invalid' \ linked
        PROVE  x \in Invalid' \/ Chain[x] \cap Unfit # {}
    <3>1. x \in Block /\ Parent[x] \in Block /\ Parent[x] \in Chain[x] /\ x \notin Chain[Parent[x]]
          /\ Chain[x] = {x} \cup Chain[Parent[x]]
      BY <1>0, NotAbove, Tree0 DEF IndexInv
    <3>2. CASE Parent[x] \in Invalid
      BY <1>0, <2>4, <2>5, <3>2 DEF WaitInv
    <3>3. CASE b \in Chain[Parent[x]]
      <4>1. x \in Descendants({b})
        BY <3>1, <3>3 DEF Descendants
      <4> QED BY <2>4, <4>1
    <3>4. Parent[x] \in Invalid \/ b \in Chain[Parent[x]]
      BY <2>4, <2>5, <3>1, Tree0 DEF Descendants
    <3> QED BY <3>2, <3>3, <3>4
  <2>6. WaitInv'
    BY <1>0, <1>1, <2>5, WaitFrame
  <2> QED BY <1>2, <2>3, <2>6 DEF Inv
<1> QED BY <1>3, <1>4

(* Clearing a block clears its parent as well, or leaves it as it was.      *)
LEMMA ReconsiderInv ==
  ASSUME Inv, NEW t \in Thread, NEW b \in Block, ReconsiderBlock(t, b)
  PROVE  Inv'
<1>0. IndexInv /\ WaitInv /\ ThreadInv
  BY DEF Inv
<1> DEFINE gone == {x \in Invalid : b \in Chain[x]} \cup Chain[b]
<1>1. /\ cs = NoThread /\ pc[t] = "idle" /\ Activate(t, NoBlock)
      /\ UNCHANGED <<index, soft, tip, cs, rpc, linked>>
      /\ failed' = failed \ gone /\ failedParent' = failedParent \ gone
  BY DEF ReconsiderBlock, Command, index
<1>2. ThreadInv'
  BY <1>0, <1>1, ActivateFrame DEF ThreadInv
<1>3. candidates' \subseteq linked
  BY <1>0 DEF ReconsiderBlock, IndexInv
<1>4. IndexInv'
  BY <1>0, <1>1, <1>3, IndexFrame DEF IndexInv
<1>5. ASSUME NEW x \in header \ {Genesis}, Parent[x] \in Invalid' \ linked
      PROVE  x \in Invalid' \/ Chain[x] \cap Unfit # {}
  <2>1. x \in Block /\ Parent[x] \in Chain[x] /\ Chain[x] = {x} \cup Chain[Parent[x]]
    BY <1>0, NotAbove, Tree0 DEF IndexInv
  <2>2. Invalid' = Invalid \ gone
    BY <1>1 DEF Invalid
  <2>3. Parent[x] \in Invalid \ linked /\ Parent[x] \notin gone
    BY <1>5, <2>2
  <2>4. x \in Invalid \/ Chain[x] \cap Unfit # {}
    BY <1>0, <2>3 DEF WaitInv
  <2>5. x \notin Chain[b]
    BY <2>1, <2>3, Tree0
  <2>6. b \notin Chain[x]
    BY <2>1, <2>3, <2>5, Tree0
  <2> QED BY <2>2, <2>4, <2>5, <2>6
<1>6. WaitInv'
  BY <1>0, <1>1, <1>5, WaitFrame
<1> QED BY <1>2, <1>4, <1>6 DEF Inv

LEMMA SoftWithGenesis ==
  ASSUME IndexInv, NEW b \in Block \ {Genesis}, NEW n, NEW h
  PROVE  DOMAIN SoftWith(b, n, h) = Block /\ SoftWith(b, n, h)[Genesis] = -1
BY Tree0 DEF SoftWith, IndexInv

LEMMA SoftRejectInv ==
  ASSUME Inv, NEW t \in Thread, NEW b \in Block, NEW n, SoftRejectBlock(t, b, n)
  PROVE  Inv'
<1>0. IndexInv /\ WaitInv /\ ThreadInv
  BY DEF Inv
<1>1. /\ b \in Block \ {Genesis} /\ cs = NoThread /\ pc[t] = "idle"
      /\ UNCHANGED <<index, linked, failed, failedParent>>
      /\ soft' = SoftWith(b, n, Height[b] + n) /\ tip' = FirstNotSoft(tip, soft')
  BY DEF SoftRejectBlock, Command, index, flags
<1>2. DOMAIN soft' = Block /\ soft'[Genesis] = -1
  BY <1>0, <1>1, SoftWithGenesis
<1>3. tip' \in linked
  BY <1>0, <1>1, <1>2, FirstNotSoftIn DEF IndexInv
<1>4. candidates' \subseteq linked
  BY <1>0 DEF SoftRejectBlock, NotWorseThan, IndexInv
<1>5. IndexInv'
  BY <1>0, <1>1, <1>2, <1>3, <1>4, IndexFrame
<1>6. WaitInv'
  BY <1>0, <1>1, WaitFrame DEF WaitInv, Invalid
<1>7. ThreadInv'
  <2>1. CASE UNCHANGED <<cs, rpc, pc, locals>>
    BY <1>0, <1>1, <2>1, IdleFrame DEF locals, ThreadInv
  <2>2. CASE cs' = t /\ rpc' = t /\ Activate(t, NoBlock)
    BY <1>0, <1>1, <2>2, ActivateFrame
  <2> QED BY <2>1, <2>2 DEF SoftRejectBlock
<1> QED BY <1>5, <1>6, <1>7 DEF Inv

LEMMA AcceptSoftInv ==
  ASSUME Inv, NEW t \in Thread, NEW b \in Block, NEW n, AcceptSoftRejectedBlock(t, b, n)
  PROVE  Inv'
<1>0. IndexInv /\ WaitInv /\ ThreadInv
  BY DEF Inv
<1>1. /\ b \in Block \ {Genesis} /\ cs = NoThread /\ pc[t] = "idle" /\ Activate(t, NoBlock)
      /\ UNCHANGED <<index, linked, failed, failedParent, candidates, tip, cs, rpc>>
      /\ soft' = SoftWith(b, n, Height[b] + soft[b])
  BY DEF AcceptSoftRejectedBlock, Command, index, flags
<1>2. DOMAIN soft' = Block /\ soft'[Genesis] = -1
  BY <1>0, <1>1, SoftWithGenesis
<1>3. IndexInv'
  BY <1>0, <1>1, <1>2, IndexFrame DEF IndexInv
<1>4. WaitInv'
  BY <1>0, <1>1, WaitFrame DEF WaitInv, Invalid
<1>5. ThreadInv'
  BY <1>0, <1>1, ActivateFrame DEF ThreadInv
<1> QED BY <1>3, <1>4, <1>5 DEF Inv

LEMMA PreciousInv ==
  ASSUME Inv, NEW t \in Thread, NEW b \in Block, PreciousBlock(t, b)
  PROVE  Inv'
<1>0. IndexInv /\ WaitInv /\ ThreadInv
  BY DEF Inv
<1>1. /\ cs = NoThread /\ pc[t] = "idle" /\ Activate(t, NoBlock)
      /\ UNCHANGED <<index, linked, failed, failedParent, soft, tip, cs, rpc>>
  BY DEF PreciousBlock, Command, index, flags
<1>2. candidates' \subseteq linked
  BY <1>0 DEF PreciousBlock, PruneWith, Usable, IndexInv
<1>3. IndexInv'
  BY <1>0, <1>1, <1>2, IndexFrame DEF IndexInv
<1>4. WaitInv'
  BY <1>0, <1>1, WaitFrame DEF WaitInv, Invalid
<1>5. ThreadInv'
  BY <1>0, <1>1, ActivateFrame DEF ThreadInv
<1> QED BY <1>3, <1>4, <1>5 DEF Inv
-----------------------------------------------------------------------------
LEMMA InitInv == Init => Inv
<1> SUFFICES ASSUME Init PROVE Inv
  OBVIOUS
<1>1. IndexInv
  BY Tree0, ChainAssumption DEF Init, IndexInv
<1>2. ThreadInv
  BY Tree0 DEF Init, ThreadInv
<1>3. WaitInv
  <2>1. \A b \in Block : Genesis \in Chain[b]
    BY Tree0
  <2> QED BY <2>1 DEF Init, WaitInv, Invalid
<1> QED BY <1>1, <1>2, <1>3 DEF Inv

LEMMA NextInv == Inv /\ [Next]_vars => Inv'
<1> SUFFICES ASSUME Inv, [Next]_vars PROVE Inv'
  OBVIOUS
<1>1. ASSUME NEW t \in Thread, Turn(t) \/ CheckCancelled(t) PROVE Inv'
  BY <1>1, LeaveInv, StartInv, DisconnectInv, ConnectHeldInv, StartCheckInv, CheckedInv DEF Turn
<1>2. CASE Operator
  BY <1>2, InvalidateInv, ReconsiderInv, SoftRejectInv, AcceptSoftInv, PreciousInv DEF Operator
<1>3. CASE UNCHANGED vars
  <2>1. UNCHANGED <<index, linked, failed, failedParent, soft, candidates, tip, cs, rpc, pc, mostWork, checking>>
    BY <1>3 DEF vars, flags, locals, index
  <2>2. IndexInv' /\ WaitInv'
    BY <2>1, IndexFrame, WaitFrame DEF Inv, IndexInv, WaitInv, Invalid
  <2>3. ThreadInv'
    BY <2>1 DEF Inv, ThreadInv, Covered, Validating
  <2> QED BY <2>2, <2>3 DEF Inv
<1> QED BY <1>1, <1>2, <1>3, ArrivalInv DEF Next

LEMMA Inductive == Spec => []Inv
BY InitInv, NextInv, PTL DEF Spec

(* For any tree, any number of threads and any commands, two threads never  *)
(* connect the same block at once.  A thread that is about to has cs_main   *)
(* and found no ancestor of its target in validation when it took it.       *)
THEOREM ValidatedOnce == Spec => []NoDoubleValidation
<1>1. Inv => NoDoubleValidation
  <2> SUFFICES ASSUME Inv PROVE NoDoubleValidation
    OBVIOUS
  <2>1. \A t, u \in Thread : t # u /\ checking[t] # NoBlock => checking[t] # checking[u]
    BY DEF Inv, ThreadInv
  <2>2. ASSUME NEW t \in Thread, pc[t] = "step", tip \in Chain[mostWork[t]], tip # mostWork[t]
        PROVE  NextBlock(t) \notin Validating
    BY <2>2, NextFacts DEF Inv, ThreadInv, Covered
  <2> QED BY <2>1, <2>2 DEF NoDoubleValidation
<1> QED BY <1>1, Inductive, PTL

(* Blocks that arrive in any order, beside any commands, wait for their     *)
(* ancestors exactly as long as one of them is missing.                     *)
THEOREM NothingLeftUnlinked == Spec => []UnlinkedExact
<1>1. Inv => UnlinkedExact
  BY DEF Inv, IndexInv, WaitInv, UnlinkedExact
<1> QED BY <1>1, Inductive, PTL
-----------------------------------------------------------------------------
(* The active chain.                                                        *)

(* The tip stays or goes back, targets stay or are dropped, and whatever is *)
(* newly marked is in neither, or on the way to a block that is bad.        *)
LEMMA ActiveFrame ==
  ASSUME Inv, ActiveInv, tip' \in Chain[tip], NEW M, Invalid' \subseteq Invalid \cup M,
         \A x \in M : x \notin Chain[tip'],
         \A t \in Thread : mostWork'[t] \in {mostWork[t], NoBlock},
         \A t \in Thread : mostWork[t] # NoBlock =>
            \A x \in M \cap Chain[mostWork[t]] : Chain[x] \cap Bad # {}
  PROVE  ActiveInv'
<1>1. Chain[tip'] \subseteq Chain[tip]
  BY Tree0 DEF Inv, IndexInv
<1>2. Chain[tip'] \cap (Invalid' \cup Bad) = {}
  BY <1>1 DEF ActiveInv
<1>3. ASSUME NEW t \in Thread, mostWork'[t] # NoBlock,
             NEW x \in Chain[mostWork'[t]] \cap Invalid'
      PROVE  Chain[x] \cap Bad # {}
  BY <1>3 DEF ActiveInv
<1> QED BY <1>2, <1>3 DEF ActiveInv

LEMMA ActiveSame ==
  ASSUME Inv, ActiveInv, tip' \in Chain[tip], Invalid' \subseteq Invalid,
         \A t \in Thread : mostWork'[t] \in {mostWork[t], NoBlock}
  PROVE  ActiveInv'
BY ActiveFrame

LEMMA TipChains ==
  ASSUME Inv
  PROVE  /\ tip \in Block /\ tip \in Chain[tip] /\ Chain[tip] \subseteq linked /\ linked \subseteq Block \ Unfit
         /\ \A t \in Thread : mostWork[t] # NoBlock =>
               mostWork[t] \in linked /\ Chain[mostWork[t]] \subseteq linked
BY Tree0 DEF Inv, IndexInv, ThreadInv

LEMMA ArrivalActive == ASSUME Inv, ActiveInv, Arrival PROVE ActiveInv'
<1>1. UNCHANGED <<tip, mostWork>>
  BY DEF Arrival, AcceptHeader, RejectBlock, AcceptKnown, ReceiveBlock, Activate, locals
<1>2. CASE UNCHANGED <<failed, failedParent>>
  BY <1>1, <1>2, TipChains, ActiveSame DEF Invalid
<1>3. ASSUME NEW b \in Block \ {Genesis}, RejectBlock(b) PROVE ActiveInv'
  <2>1. b \in Unfit /\ Invalid' \subseteq Invalid \cup {b}
    BY <1>3 DEF RejectBlock, Invalid
  <2> QED BY <1>1, <2>1, TipChains, ActiveFrame
<1> QED BY <1>2, <1>3 DEF Arrival, AcceptHeader, AcceptKnown, ReceiveBlock, flags

LEMMA SearchKeeps ==
  ASSUME Inv, NEW t \in Thread, NEW m, Search(t, m), UNCHANGED failed, NEW b \in linked
  PROVE  /\ Chain[b] \cap Invalid = {} => Chain[b] \cap Invalid' = {}
         /\ (\A x \in Chain[b] \cap Invalid : Chain[x] \cap Bad # {})
              => \A x \in Chain[b] \cap Invalid' : Chain[x] \cap Bad # {}
<1>1. IndexInv /\ b \in Block
  BY DEF Inv, IndexInv
<1>2. ASSUME NEW x \in Chain[b] \cap Invalid', x \notin Invalid
      PROVE  \E y \in Chain[b] \cap Invalid : Chain[y] \subseteq Chain[x]
  <2>1. PICK y \in Invalid \cap Block : y \in Chain[x]
    BY <1>1, <1>2, SearchMarks
  <2>2. x \in Block /\ Chain[x] \subseteq Chain[b]
    BY <1>1, Tree0
  <2> QED BY <2>1, <2>2, Tree0
<1> QED BY <1>2

LEMMA TargetClean ==
  ASSUME Inv, ActiveInv, NEW t \in Thread, NEW m \in FindMostWorkChain, Target(t, m) # NoBlock
  PROVE  /\ Target(t, m) \in linked
         /\ \A x \in Chain[Target(t, m)] \cap Invalid : Chain[x] \cap Bad # {}
<1>1. Target(t, m) \in linked /\ linked \subseteq Block /\ tip \in Block
  BY TargetLinked DEF Inv, IndexInv
<1>2. CASE Cached(t)
  BY <1>1, <1>2 DEF Target, ActiveInv
<1>3. CASE ~Cached(t)
  <2>1. Chain[tip] \cap Invalid = {}
    BY DEF ActiveInv
  <2>2. m # NoBlock /\ Target(t, m) = Consider(pblock[t], m)
    BY <1>3 DEF Target
  <2>3. CASE Target(t, m) = m
    <3>1. Clean(m)
      BY <2>2 DEF FindMostWorkChain
    <3> QED BY <1>1, <2>1, <2>3, <3>1 DEF Clean
  <2>4. CASE Target(t, m) # m
    <3> DEFINE b == pblock[t]
    <3>1. Target(t, m) = b /\ b # Genesis /\ Parent[b] = tip /\ b \notin Invalid
      BY <2>2, <2>4 DEF Consider, Usable
    <3>2. Chain[b] = {b} \cup Chain[tip]
      BY <1>1, <3>1, Tree0
    <3> QED BY <1>1, <2>1, <3>1, <3>2
  <2> QED BY <2>3, <2>4
<1> QED BY <1>1, <1>2, <1>3

LEMMA LoopActive ==
  ASSUME Inv, ActiveInv, NEW t \in Thread, Leave(t) \/ Start(t)
  PROVE  ActiveInv'
<1>1. PICK m \in FindMostWorkChain :
        /\ Search(t, m)
        /\ \/ mostWork' = [mostWork EXCEPT ![t] = NoBlock]
           \/ GoesOn(Target(t, m)) /\ mostWork' = [mostWork EXCEPT ![t] = Target(t, m)]
  BY DEF Leave, Start
<1>2. UNCHANGED <<failed, tip>>
  BY DEF Leave, Start
<1>3. tip \in linked /\ mostWork \in [Thread -> linked \cup {NoBlock}]
  BY DEF Inv, IndexInv, ThreadInv
<1>4. Chain[tip'] \cap (Invalid' \cup Bad) = {}
  BY <1>1, <1>2, <1>3, SearchKeeps DEF ActiveInv
<1>5. ASSUME NEW u \in Thread, mostWork'[u] # NoBlock
      PROVE  /\ mostWork'[u] \in linked
             /\ \A x \in Chain[mostWork'[u]] \cap Invalid : Chain[x] \cap Bad # {}
  <2>1. CASE mostWork'[u] = mostWork[u]
    BY <1>3, <1>5, <2>1 DEF ActiveInv
  <2>2. CASE mostWork'[u] # mostWork[u]
    <3>1. mostWork'[u] = Target(t, m)
      BY <1>1, <1>3, <1>5, <2>2
    <3> QED BY <1>5, <3>1, TargetClean
  <2> QED BY <2>1, <2>2
<1>6. ASSUME NEW u \in Thread, mostWork'[u] # NoBlock, NEW x \in Chain[mostWork'[u]] \cap Invalid'
      PROVE  Chain[x] \cap Bad # {}
  BY <1>1, <1>2, <1>5, <1>6, SearchKeeps
<1> QED BY <1>4, <1>6 DEF ActiveInv

(* A thread that does not find its next block bad makes it the tip.         *)
LEMMA NewTip ==
  ASSUME Inv, ActiveInv, NEW t \in Thread, mostWork[t] # NoBlock,
         NEW b \in Chain[mostWork[t]] \ {Genesis}, b \notin Bad, Parent[b] = tip, tip' = b,
         Invalid' = Invalid, \A u \in Thread : mostWork'[u] \in {mostWork[u], NoBlock}
  PROVE  ActiveInv'
<1>1. b \in Block /\ Chain[b] = {b} \cup Chain[tip]
  BY TipChains, Tree0
<1>2. b \notin Invalid
  BY <1>1 DEF ActiveInv
<1> QED BY <1>1, <1>2 DEF ActiveInv

(* A thread marks the block that it finds bad.                              *)
LEMMA FoundBad ==
  ASSUME Inv, ActiveInv, NEW b \in Bad \cap linked, InvalidBlockFound(b), UNCHANGED <<failedParent, tip>>,
         \A u \in Thread : mostWork'[u] \in {mostWork[u], NoBlock}
  PROVE  ActiveInv'
<1>1. Invalid' \subseteq Invalid \cup {b} /\ b \in Block
  BY TipChains DEF InvalidBlockFound, Invalid
<1>2. b \notin Chain[tip] /\ Chain[b] \cap Bad # {}
  BY <1>1, Tree0 DEF ActiveInv
<1>3. tip' = tip /\ tip \in Chain[tip]
  BY TipChains
<1> DEFINE M == {b}
<1>4. /\ Invalid' \subseteq Invalid \cup M /\ \A x \in M : x \notin Chain[tip']
      /\ \A x \in M : Chain[x] \cap Bad # {}
  BY <1>1, <1>2, <1>3
<1> HIDE DEF M
<1> QED BY <1>3, <1>4, ActiveFrame

LEMMA FinishDrops ==
  ASSUME ThreadInv, NEW t \in Thread, NEW tp, NEW keep, Finish(t, tp, keep)
  PROVE  \A u \in Thread : mostWork'[u] \in {mostWork[u], NoBlock}
BY DEF Finish, ThreadInv

LEMMA StepActive ==
  ASSUME Inv, ActiveInv, NEW t \in Thread, DisconnectTip(t) \/ ConnectHeld(t) \/ StartCheck(t)
  PROVE  ActiveInv'
<1>0. ThreadInv /\ IndexInv /\ pc[t] = "step" /\ UNCHANGED failedParent
  BY DEF Inv, DisconnectTip, ConnectHeld, StartCheck, Connecting, flags
<1>1. \A u \in Thread : mostWork'[u] \in {mostWork[u], NoBlock}
  BY <1>0, FinishDrops DEF DisconnectTip, ConnectHeld, StartCheck
<1>2. mostWork[t] # NoBlock
  BY <1>0 DEF ThreadInv
<1>3. CASE DisconnectTip(t)
  <2>1. mostWork[t] \in Block /\ tip \in Block \ {Genesis}
    <3>1. mostWork[t] \in Block /\ tip \in Block
      BY <1>2, TipChains
    <3>2. tip \notin Chain[mostWork[t]]
      BY <1>3 DEF DisconnectTip
    <3> QED BY <3>1, <3>2, Tree0
  <2>2. tip' \in Chain[tip] /\ Invalid' = Invalid
    BY <1>3, <2>1, NotAbove DEF DisconnectTip, Invalid, flags
  <2> QED BY <1>1, <2>2, ActiveSame
<1>4. CASE StartCheck(t)
  <2>1. tip' = tip /\ Invalid' = Invalid
    BY <1>4 DEF StartCheck, Invalid, flags
  <2> QED BY <1>1, <2>1, TipChains, ActiveSame
<1>5. CASE ConnectHeld(t)
  <2> DEFINE b == NextBlock(t)
  <2>1. b \in Chain[mostWork[t]] \ {Genesis} /\ Parent[b] = tip /\ b \in linked
    BY <1>5, NextFacts DEF ConnectHeld, Connecting
  <2>2. CASE b \in Bad /\ InvalidBlockFound(b) /\ UNCHANGED tip
    BY <1>0, <1>1, <2>1, <2>2, FoundBad
  <2>3. CASE b \notin Bad /\ MakeTip(b) /\ UNCHANGED failed
    <3>1. tip' = b /\ Invalid' = Invalid
      BY <1>0, <2>3 DEF MakeTip, Invalid
    <3> QED BY <1>1, <1>2, <2>1, <2>3, <3>1, NewTip
  <2> QED BY <1>5, <2>2, <2>3 DEF ConnectHeld
<1> QED BY <1>3, <1>4, <1>5

LEMMA CheckActive ==
  ASSUME Inv, ActiveInv, NEW t \in Thread, CheckPassed(t) \/ CheckFailed(t) \/ CheckCancelled(t)
  PROVE  ActiveInv'
<1> DEFINE b == checking[t]
<1>0. ThreadInv /\ IndexInv /\ pc[t] = "check" /\ UNCHANGED failedParent
  BY DEF Inv, CheckPassed, CheckFailed, CheckCancelled, flags
<1>1. \A u \in Thread : mostWork'[u] \in {mostWork[u], NoBlock}
  <2>1. \E tp, keep : Finish(t, tp, keep)
    BY DEF CheckPassed, CheckFailed, CheckCancelled, Abandon
  <2> QED BY <1>0, <2>1, FinishDrops
<1>2. mostWork[t] # NoBlock /\ b \in Chain[mostWork[t]] \ {Genesis} /\ b \in linked
  BY <1>0, TipChains DEF ThreadInv
<1>3. CASE CheckFailed(t)
  BY <1>0, <1>1, <1>2, <1>3, FoundBad DEF CheckFailed
<1>4. CASE UNCHANGED <<tip, failed>>
  BY <1>0, <1>1, <1>4, TipChains, ActiveSame DEF Invalid
<1>5. CASE b \notin Bad /\ tip = Parent[b] /\ tip' = b /\ UNCHANGED failed
  <2>1. Invalid' = Invalid
    BY <1>0, <1>5 DEF Invalid
  <2> QED BY <1>1, <1>2, <1>5, <2>1, NewTip
<1> QED BY <1>3, <1>4, <1>5 DEF CheckPassed, CheckCancelled, MakeTip, flags

(* What invalidateblock marks descends from its block.                      *)
LEMMA InvalidateActive ==
  ASSUME Inv, ActiveInv, Careful, NEW t \in Thread, NEW b \in Block, InvalidateBlock(t, b)
  PROVE  ActiveInv'
<1> DEFINE M == Invalid' \ Invalid
<1>1. b \in Block \ {Genesis} /\ failed' = failed \cup {b} /\ UNCHANGED mostWork
  BY DEF InvalidateBlock, Activate
<1>2. tip' \in Chain[tip] /\ b \notin Chain[tip']
  <2>1. CASE b \in Chain[tip]
    <3>1. Parent[b] \in Block /\ tip' \in Chain[Parent[b]] /\ b \notin Chain[Parent[b]]
      BY <1>1, <2>1, NotAbove, FirstNotSoftIn DEF InvalidateBlock, Inv, IndexInv
    <3>2. Chain[Parent[b]] \subseteq Chain[tip]
      BY <1>1, <2>1, TipChains, NotAbove, Tree0
    <3> QED BY <3>1, <3>2, Tree0
  <2>2. CASE b \notin Chain[tip]
    BY <2>2, TipChains DEF InvalidateBlock
  <2> QED BY <2>1, <2>2
<1>3. ASSUME NEW x \in M PROVE b \in Chain[x]
  <2>1. CASE x = b
    BY <1>1, <2>1, Tree0
  <2>2. CASE x \in Descendants({b})
    BY <2>2 DEF Descendants
  <2>3. CASE b \in Chain[tip] /\ x \in Chain[tip] \ Chain[Parent[b]]
    <3>1. x \in Chain[b] \/ b \in Chain[x]
      BY <2>3, TipChains, Linear
    <3> QED BY <1>1, <2>1, <2>3, <3>1, Tree0
  <2> QED BY <1>1, <2>1, <2>2, <2>3 DEF InvalidateBlock, Invalid
<1>4. tip' \in Block
  BY <1>2, TipChains, Tree0
<1>5. \A x \in M : x \notin Chain[tip']
  BY <1>2, <1>3, <1>4, Tree0
<1>6. ASSUME NEW u \in Thread, mostWork[u] # NoBlock PROVE \A x \in M : x \notin Chain[mostWork[u]]
  BY <1>3, <1>6, TipChains, Tree0 DEF Careful
<1>7. Invalid' \subseteq Invalid \cup M
  OBVIOUS
<1> HIDE DEF M
<1> QED BY <1>1, <1>2, <1>5, <1>6, <1>7, ActiveFrame

LEMMA OperatorActive == ASSUME Inv, ActiveInv, Careful, Operator PROVE ActiveInv'
<1>1. ASSUME NEW t \in Thread, NEW b \in Block, ReconsiderBlock(t, b) \/ PreciousBlock(t, b)
      PROVE  ActiveInv'
  <2>1. UNCHANGED <<tip, mostWork>> /\ Invalid' \subseteq Invalid
    BY <1>1 DEF ReconsiderBlock, PreciousBlock, Activate, Invalid, flags
  <2> QED BY <2>1, TipChains, ActiveSame
<1>2. ASSUME NEW t \in Thread, NEW b \in Block, NEW n, AcceptSoftRejectedBlock(t, b, n)
      PROVE  ActiveInv'
  <2>1. UNCHANGED <<tip, mostWork, failed, failedParent>>
    BY <1>2 DEF AcceptSoftRejectedBlock, Activate, flags
  <2> QED BY <2>1, TipChains, ActiveSame DEF Invalid
<1>3. ASSUME NEW t \in Thread, NEW b \in Block, NEW n, SoftRejectBlock(t, b, n)
      PROVE  ActiveInv'
  <2>1. /\ UNCHANGED <<mostWork, failed, failedParent>> /\ b \in Block \ {Genesis}
        /\ soft' = SoftWith(b, n, Height[b] + n) /\ tip' = FirstNotSoft(tip, soft')
    BY <1>3 DEF SoftRejectBlock, Activate, flags, locals
  <2>2. soft'[Genesis] = -1
    BY <2>1, SoftWithGenesis DEF Inv
  <2>3. tip' \in Chain[tip]
    BY <2>1, <2>2, FirstNotSoftIn, TipChains
  <2> QED BY <2>1, <2>3, ActiveSame DEF Invalid
<1> QED BY <1>1, <1>2, <1>3, InvalidateActive DEF Operator

(* No block that validation or the operator marked is in the active chain,  *)
(* for any tree and any number of threads, as long as invalidateblock is    *)
(* not given for a block that a thread is on its way to: BlockConnector     *)
(* does not read the flags again after it has checked the scripts, and that *)
(* is the only way to an invalid active chain.                              *)
THEOREM ActiveChainValid == Spec /\ [][Careful]_vars => []ActiveValid
<1>1. Init => ActiveInv
  <2> SUFFICES ASSUME Init PROVE ActiveInv
    OBVIOUS
  <2>1. tip = Genesis /\ Invalid = {} /\ Genesis \notin Bad
    BY ChainAssumption DEF Init, Invalid
  <2>2. \A t \in Thread : mostWork[t] = NoBlock
    BY DEF Init
  <2> QED BY <2>1, <2>2, Tree0 DEF ActiveInv
<1>2. Inv /\ ActiveInv /\ [Next]_vars /\ [Careful]_vars => ActiveInv'
  <2> SUFFICES ASSUME Inv, ActiveInv, [Next]_vars, [Careful]_vars PROVE ActiveInv'
    OBVIOUS
  <2>1. CASE UNCHANGED vars
    <3>1. UNCHANGED <<failed, failedParent, tip, mostWork>>
      BY <2>1 DEF vars, flags, locals
    <3> QED BY <3>1, TipChains, ActiveSame DEF Invalid
  <2>2. CASE Next /\ Careful
    <3>1. ASSUME NEW t \in Thread, Turn(t) \/ CheckCancelled(t) PROVE ActiveInv'
      BY <3>1, LoopActive, StepActive, CheckActive DEF Turn
    <3> QED BY <2>2, <3>1, ArrivalActive, OperatorActive DEF Next
  <2> QED BY <2>1, <2>2
<1>3. ActiveInv => ActiveValid
  BY DEF ActiveInv, ActiveValid
<1> QED BY <1>1, <1>2, <1>3, Inductive, PTL DEF Spec
=============================================================================
