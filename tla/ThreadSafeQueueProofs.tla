------------------------- MODULE ThreadSafeQueueProofs -------------------------
(* Any number of callers of a blocking queue of any capacity: nobody is left asleep    *)
(* with what it waits for at hand.                                                     *)
EXTENDS ThreadSafeQueue, FiniteSetTheorems, TLAPS

(* The blocking queue.  As long as somebody waits to pop there are as many pops on     *)
(* their way as there are elements; as long as somebody waits to push there are as     *)
(* many pushes on their way as there are free places, or no waiting push fits.         *)
OnTheWay(ops) == {c \in Caller \ sleepers : call[c].op \in ops}

Inputs == {<<x>> : x \in Values} \cup Sequences_

QueueType ==
  /\ variableSizeObjects \in BOOLEAN /\ isClosed \in BOOLEAN
  /\ currentSize \in Int /\ theQueue \in Seq(Values)
  /\ ~variableSizeObjects => currentSize = Len(theQueue)
  /\ DOMAIN call = Caller /\ sleepers \subseteq Caller
  /\ \A c \in sleepers : call[c].op \in PushOps \cup PopOps
  /\ \A c \in Caller : call[c].op \in PushOps => call[c].vals \in Inputs
  /\ isClosed => sleepers = {}

PopsAwake ==
  Sleeping(PopOps) # {} => Len(theQueue) <= Cardinality(OnTheWay(PopOps))

PushesAwake ==
  IF variableSizeObjects
  THEN \A c \in Sleeping(PushOps) : ~Fits(call[c].vals)
  ELSE Sleeping(PushOps) # {} =>
         maximalSize - currentSize <= Cardinality(OnTheWay(PushOps))

QueueInv == QueueType /\ PopsAwake /\ PushesAwake

LEMMA HeadTail ==
  ASSUME NEW X, NEW q \in Seq(X), q # <<>>
  PROVE  /\ Head(q) \in X /\ Tail(q) \in Seq(X) /\ Len(Tail(q)) = Len(q) - 1
         /\ \A i \in 1..(Len(q) - 1) : Tail(q)[i] = q[i + 1]
OBVIOUS


Sums(s) == CHOOSE g : g = [i \in 0..Len(s) |-> IF i = 0 THEN 0 ELSE g[i - 1] + s[i]]

LEMMA SizeIsSum == \A s : SizeNeededForSequence(s) = Sums(s)[Len(s)]
BY DEF SizeNeededForSequence, Sums

LEMMA SizeOfOne ==
  ASSUME NEW x \in Nat
  PROVE  SizeNeededForSequence(<<x>>) = x
<1> DEFINE s == <<x>>
           g0 == [i \in 0..1 |-> IF i = 0 THEN 0 ELSE x]
<1>1. Len(s) = 1 /\ s[1] = x
  OBVIOUS
<1>2. g0 = [i \in 0..1 |-> IF i = 0 THEN 0 ELSE g0[i - 1] + s[i]]
  <2>1. \A i \in 0..1 : g0[i] = IF i = 0 THEN 0 ELSE g0[i - 1] + s[i]
    BY <1>1
  <2> HIDE DEF s
  <2> QED BY <2>1
<1> HIDE DEF s, g0
<1>3. Sums(s) = [i \in 0..Len(s) |-> IF i = 0 THEN 0 ELSE Sums(s)[i - 1] + s[i]]
  BY <1>1, <1>2 DEF Sums
<1>4. Sums(s)[0] = 0 /\ Sums(s)[1] = Sums(s)[0] + s[1]
  BY <1>1, <1>3
<1>5. Sums(s)[Len(s)] = x
  BY <1>1, <1>4
<1> QED BY <1>5, SizeIsSum DEF s

LEMMA SizeOfTwo ==
  ASSUME NEW x \in Nat, NEW y \in Nat
  PROVE  SizeNeededForSequence(<<x, y>>) = x + y
<1> DEFINE s == <<x, y>>
           g0 == [i \in 0..2 |-> IF i = 0 THEN 0 ELSE IF i = 1 THEN x ELSE x + y]
<1>1. Len(s) = 2 /\ s[1] = x /\ s[2] = y
  OBVIOUS
<1>2. g0 = [i \in 0..2 |-> IF i = 0 THEN 0 ELSE g0[i - 1] + s[i]]
  <2>1. \A i \in 0..2 : g0[i] = IF i = 0 THEN 0 ELSE g0[i - 1] + s[i]
    BY <1>1
  <2> HIDE DEF s
  <2> QED BY <2>1
<1> HIDE DEF s, g0
<1>3. Sums(s) = [i \in 0..Len(s) |-> IF i = 0 THEN 0 ELSE Sums(s)[i - 1] + s[i]]
  BY <1>1, <1>2 DEF Sums
<1>4. Sums(s)[0] = 0 /\ Sums(s)[1] = Sums(s)[0] + s[1] /\ Sums(s)[2] = Sums(s)[1] + s[2]
  BY <1>1, <1>3
<1>5. Sums(s)[Len(s)] = x + y
  BY <1>1, <1>4
<1> QED BY <1>5, SizeIsSum DEF s

LEMMA InputSize ==
  ASSUME variableSizeObjects \in BOOLEAN, NEW vals \in Inputs
  PROVE  /\ vals \in Seq(Values) /\ SizeNeededForSequence(vals) \in Nat
         /\ ~variableSizeObjects => SizeNeededForSequence(vals) = 1 /\ Len(vals) = 1
<1>0. Sizes \subseteq Nat
  BY QueueAssumption
<1>1. ASSUME NEW x \in Values, vals = <<x>>
      PROVE  /\ vals \in Seq(Values) /\ SizeNeededForSequence(vals) \in Nat
             /\ ~variableSizeObjects => SizeNeededForSequence(vals) = 1 /\ Len(vals) = 1
  <2>1. x \in Nat /\ (~variableSizeObjects => x = 1)
    BY <1>0 DEF Values
  <2>2. SizeNeededForSequence(vals) = x
    BY <1>1, <2>1, SizeOfOne
  <2>3. vals \in Seq(Values) /\ Len(vals) = 1
    BY <1>1
  <2> QED BY <2>1, <2>2, <2>3
<1>2. ASSUME vals \in Sequences_
      PROVE  /\ vals \in Seq(Values) /\ SizeNeededForSequence(vals) \in Nat
             /\ variableSizeObjects
  <2>1. variableSizeObjects /\ Values = Sizes
    BY <1>2 DEF Sequences_, Values
  <2>2. PICK x \in Sizes, y \in Sizes : vals = <<x, y>>
    BY <1>2, <2>1 DEF Sequences_
  <2>3. SizeNeededForSequence(vals) = x + y
    BY <1>0, <2>2, SizeOfTwo
  <2>4. vals \in Seq(Sizes)
    BY <2>2
  <2> QED BY <1>0, <2>1, <2>3, <2>4
<1> QED BY <1>1, <1>2 DEF Inputs

LEMMA Counted ==
  ASSUME NEW ops
  PROVE  /\ IsFiniteSet(OnTheWay(ops)) /\ Cardinality(OnTheWay(ops)) \in Nat
         /\ IsFiniteSet(OnTheWay(ops)') /\ Cardinality(OnTheWay(ops)') \in Nat
<1>1. OnTheWay(ops) \in SUBSET Caller /\ OnTheWay(ops)' \in SUBSET Caller
  BY DEF OnTheWay
<1>2. IsFiniteSet(OnTheWay(ops)) /\ IsFiniteSet(OnTheWay(ops)')
  BY <1>1, QueueAssumption, FS_Subset
<1> QED BY <1>2, FS_CardinalityType

(* A caller returns that was not asleep.                                               *)
Returns(ops) ==
  \/ call' = call
  \/ \E c \in OnTheWay(ops) : call' = [call EXCEPT ![c] = Returned]

LEMMA Returning ==
  ASSUME QueueType, NEW ops \in {PushOps, PopOps}, Returns(ops), sleepers' \subseteq sleepers,
         variableSizeObjects' = variableSizeObjects
  PROVE  /\ DOMAIN call' = Caller
         /\ \A c \in Caller : call'[c].op \in PushOps => call'[c].vals \in Inputs'
         /\ \A c \in sleepers : call'[c] = call[c]
         /\ \A kind : Sleeping(kind)' = Sleeping(kind) \cap sleepers'
<1>1. Inputs' = Inputs
  BY DEF Inputs, Values, Sequences_
<1>2. DOMAIN call' = Caller /\ \A c \in Caller : call'[c] = call[c] \/ call'[c] = Returned
  BY DEF QueueType, Returns
<1>3. "none" \notin PushOps /\ Returned.op = "none"
  BY DEF PushOps, Returned
<1>4. \A c \in sleepers : call'[c] = call[c]
  BY DEF QueueType, Returns, OnTheWay
<1>5. \A kind : Sleeping(kind)' = Sleeping(kind) \cap sleepers'
  BY <1>4 DEF Sleeping
<1> QED BY <1>1, <1>2, <1>3, <1>4, <1>5 DEF QueueType

LEMMA Leaving ==
  ASSUME QueueType, NEW ops \in {PushOps, PopOps}, Returns(ops),
         \A c \in Caller : call[c].op \in ops => (c \in sleepers' <=> c \in sleepers)
  PROVE  Cardinality(OnTheWay(ops)') >= Cardinality(OnTheWay(ops)) - 1
<1>1. CASE call' = call
  <2>1. OnTheWay(ops)' = OnTheWay(ops)
    BY <1>1 DEF OnTheWay
  <2> QED BY <2>1, Counted
<1>2. ASSUME NEW c \in OnTheWay(ops), call' = [call EXCEPT ![c] = Returned]
      PROVE  Cardinality(OnTheWay(ops)') = Cardinality(OnTheWay(ops)) - 1
  <2>1. \A d \in Caller : call'[d].op \in ops <=> (call[d].op \in ops /\ d # c)
    BY <1>2 DEF QueueType, PushOps, PopOps, Returned, OnTheWay
  <2>2. OnTheWay(ops)' = OnTheWay(ops) \ {c}
    BY <2>1 DEF OnTheWay
  <2> QED BY <1>2, <2>2, Counted, FS_RemoveElement
<1> QED BY <1>1, <1>2, Counted DEF Returns

LEMMA Others ==
  ASSUME QueueType
  PROVE  /\ Returns(PushOps) =>
              \A c \in Caller : call'[c].op \in PopOps <=> call[c].op \in PopOps
         /\ Returns(PopOps) =>
              \A c \in Caller : call'[c].op \in PushOps <=> call[c].op \in PushOps
BY DEF Returns, OnTheWay, PushOps, PopOps, Returned, QueueType

(* A push.                                                                             *)
LEMMA Pushed ==
  ASSUME QueueInv, NEW vals \in Inputs, Returns(PushOps),
         NEW W \in SUBSET sleepers, AppendSequence(vals, W), sleepers' = W,
         UNCHANGED <<isClosed, variableSizeObjects>>
  PROVE  QueueInv'
<1> DEFINE n == SizeNeededForSequence(vals)
<1>0. QueueType /\ PopsAwake /\ PushesAwake /\ variableSizeObjects \in BOOLEAN
  BY DEF QueueInv, QueueType
<1>1. /\ vals \in Seq(Values) /\ n \in Nat
      /\ ~variableSizeObjects => n = 1 /\ Len(vals) = 1
  BY <1>0, InputSize
<1>2. /\ theQueue' = theQueue \o vals /\ currentSize' = currentSize + n
      /\ IF Len(vals) = 1 THEN notify_one(PopOps, W) ELSE W = sleepers \ Sleeping(PopOps)
  BY DEF AppendSequence
<1> HIDE DEF n
<1>3. /\ DOMAIN call' = Caller
      /\ \A c \in Caller : call'[c].op \in PushOps => call'[c].vals \in Inputs'
      /\ \A c \in sleepers : call'[c] = call[c]
      /\ \A kind : Sleeping(kind)' = Sleeping(kind) \cap sleepers'
  BY <1>0, Returning
<1>4. /\ theQueue' \in Seq(Values) /\ Len(theQueue') = Len(theQueue) + Len(vals)
      /\ Values' = Values
  BY <1>0, <1>1, <1>2 DEF QueueType, Values
<1>5. QueueType'
  <2>1. currentSize' \in Int /\ (~variableSizeObjects => currentSize' = Len(theQueue'))
    <3>1. /\ currentSize \in Int /\ Len(theQueue) \in Nat
          /\ ~variableSizeObjects => currentSize = Len(theQueue)
      BY <1>0 DEF QueueType
    <3>2. currentSize' \in Int
      BY <1>1, <1>2, <3>1
    <3>3. ASSUME ~variableSizeObjects PROVE currentSize' = Len(theQueue')
      <4>1. n = 1 /\ Len(vals) = 1 /\ currentSize = Len(theQueue)
        BY <1>1, <3>1, <3>3
      <4> QED BY <1>2, <1>4, <4>1
    <3> QED BY <3>2, <3>3
  <2>2. /\ sleepers' \subseteq Caller /\ (isClosed' => sleepers' = {})
        /\ \A c \in sleepers' : call'[c].op \in PushOps \cup PopOps
    BY <1>0, <1>3 DEF QueueType
  <2>3. variableSizeObjects' \in BOOLEAN /\ isClosed' \in BOOLEAN
    BY <1>0 DEF QueueType
  <2> QED BY <1>3, <1>4, <2>1, <2>2, <2>3 DEF QueueType, PushOps, PopOps
<1>6. PushOps \cap PopOps = {} /\ Sleeping(PushOps) \cap Sleeping(PopOps) = {}
  BY DEF PushOps, PopOps, Sleeping
<1>7. Sleeping(PushOps) \subseteq W
  BY <1>2, <1>6 DEF notify_one, Sleeping
<1>8. PopsAwake'
  <2> SUFFICES ASSUME Sleeping(PopOps)' # {}
               PROVE  Len(theQueue') <= Cardinality(OnTheWay(PopOps)')
    BY DEF PopsAwake
  <2>1. Len(vals) = 1 /\ Sleeping(PopOps) # {}
    BY <1>2, <1>3
  <2>2. PICK w \in Sleeping(PopOps) : W = sleepers \ {w}
    BY <1>2, <2>1 DEF notify_one
  <2>3. OnTheWay(PopOps)' = OnTheWay(PopOps) \cup {w} /\ w \notin OnTheWay(PopOps)
    <3>1. \A c \in Caller : call'[c].op \in PopOps <=> call[c].op \in PopOps
      BY <1>0, Others
    <3> QED BY <1>0, <2>2, <3>1 DEF OnTheWay, Sleeping, QueueType
  <2>4. Cardinality(OnTheWay(PopOps)') = Cardinality(OnTheWay(PopOps)) + 1
    BY <2>3, Counted, FS_AddElement
  <2>5. Len(theQueue) <= Cardinality(OnTheWay(PopOps)) /\ Len(theQueue) \in Nat
    BY <1>0, <2>1 DEF PopsAwake, QueueType
  <2> QED BY <1>4, <2>1, <2>4, <2>5, Counted
<1>9. PushesAwake'
  <2>1. Sleeping(PushOps)' = Sleeping(PushOps)
    BY <1>3, <1>7
  <2>2. CASE variableSizeObjects
    <3> SUFFICES ASSUME NEW c \in Sleeping(PushOps) PROVE ~Fits(call[c].vals)'
      BY <2>1, <2>2 DEF PushesAwake
    <3>1. c \in sleepers /\ call'[c] = call[c] /\ call[c].vals \in Inputs
      BY <1>0, <1>3 DEF Sleeping, QueueType
    <3>2. SizeNeededForSequence(call[c].vals) \in Nat
      BY <1>0, <3>1, InputSize
    <3>3. ~(currentSize + SizeNeededForSequence(call[c].vals) <= maximalSize)
      BY <1>0, <2>2 DEF PushesAwake, Fits
    <3>4. ~(currentSize' + SizeNeededForSequence(call[c].vals) <= maximalSize)
      BY <1>0, <1>1, <1>2, <3>2, <3>3, QueueAssumption DEF QueueType
    <3> QED BY <3>1, <3>4 DEF Fits, SizeNeededForSequence
  <2>3. CASE ~variableSizeObjects
    <3> SUFFICES ASSUME Sleeping(PushOps) # {}
                 PROVE  maximalSize - currentSize' <= Cardinality(OnTheWay(PushOps)')
      BY <2>1, <2>3 DEF PushesAwake
    <3>1. maximalSize - currentSize <= Cardinality(OnTheWay(PushOps))
      BY <1>0, <2>3 DEF PushesAwake
    <3>3. Cardinality(OnTheWay(PushOps)') >= Cardinality(OnTheWay(PushOps)) - 1
      <4>1. \A c \in Caller : call[c].op \in PushOps => (c \in sleepers' <=> c \in sleepers)
        BY <1>7 DEF Sleeping
      <4> QED BY <1>0, <4>1, Leaving
    <3> QED BY <1>0, <1>1, <1>2, <2>3, <3>1, <3>3, Counted, QueueAssumption DEF QueueType
  <2> QED BY <1>0, <2>2, <2>3
<1> QED BY <1>5, <1>8, <1>9 DEF QueueInv

(* A pop of one element.                                                               *)
LEMMA Popped ==
  ASSUME QueueInv, Returns(PopOps), theQueue # <<>>, theQueue' = Tail(theQueue),
         currentSize' = currentSize - Head(theQueue),
         NEW W \in SUBSET sleepers, PostPopNotify(W), sleepers' = W,
         UNCHANGED <<isClosed, variableSizeObjects>>
  PROVE  QueueInv'
<1>0. QueueType /\ PopsAwake /\ PushesAwake /\ variableSizeObjects \in BOOLEAN
  BY DEF QueueInv, QueueType
<1>1. /\ Head(theQueue) \in Values /\ theQueue' \in Seq(Values)
      /\ Len(theQueue') = Len(theQueue) - 1 /\ Len(theQueue) \in Nat
  BY <1>0, HeadTail DEF QueueType
<1>2. Head(theQueue) \in Nat /\ (~variableSizeObjects => Head(theQueue) = 1) /\ Values' = Values
  <2>1. Sizes \subseteq Nat
    BY QueueAssumption
  <2>2. CASE variableSizeObjects
    BY <1>1, <2>1, <2>2 DEF Values
  <2>3. CASE ~variableSizeObjects
    BY <1>1, <2>3 DEF Values
  <2> QED BY <1>0, <2>2, <2>3
<1>3. /\ DOMAIN call' = Caller
      /\ \A c \in Caller : call'[c].op \in PushOps => call'[c].vals \in Inputs'
      /\ \A c \in sleepers : call'[c] = call[c]
      /\ \A kind : Sleeping(kind)' = Sleeping(kind) \cap sleepers'
  BY <1>0, Returning
<1>5. QueueType'
  <2>1. currentSize' \in Int /\ (~variableSizeObjects => currentSize' = Len(theQueue'))
    <3>1. currentSize \in Int /\ (~variableSizeObjects => currentSize = Len(theQueue))
      BY <1>0 DEF QueueType
    <3>2. currentSize' \in Int
      BY <1>2, <3>1
    <3>3. ASSUME ~variableSizeObjects PROVE currentSize' = Len(theQueue')
      <4>1. Head(theQueue) = 1 /\ currentSize = Len(theQueue)
        BY <1>2, <3>1, <3>3
      <4> QED BY <1>1, <4>1
    <3> QED BY <3>2, <3>3
  <2>2. /\ sleepers' \subseteq Caller /\ (isClosed' => sleepers' = {})
        /\ \A c \in sleepers' : call'[c].op \in PushOps \cup PopOps
    BY <1>0, <1>3 DEF QueueType
  <2>3. variableSizeObjects' \in BOOLEAN /\ isClosed' \in BOOLEAN
    BY <1>0 DEF QueueType
  <2> QED BY <1>1, <1>2, <1>3, <2>1, <2>2, <2>3 DEF QueueType, PushOps, PopOps
<1>6. PushOps \cap PopOps = {} /\ Sleeping(PushOps) \cap Sleeping(PopOps) = {}
  BY DEF PushOps, PopOps, Sleeping
<1>7. Sleeping(PopOps) \subseteq W
  BY <1>6 DEF PostPopNotify, notify_one, Sleeping
<1>8. PopsAwake'
  <2> SUFFICES ASSUME Sleeping(PopOps)' # {}
               PROVE  Len(theQueue') <= Cardinality(OnTheWay(PopOps)')
    BY DEF PopsAwake
  <2>1. Len(theQueue) <= Cardinality(OnTheWay(PopOps))
    BY <1>0, <1>3 DEF PopsAwake
  <2>2. Cardinality(OnTheWay(PopOps)') >= Cardinality(OnTheWay(PopOps)) - 1
    <3>1. \A c \in Caller : call[c].op \in PopOps => (c \in sleepers' <=> c \in sleepers)
      BY <1>7 DEF Sleeping
    <3> QED BY <1>0, <3>1, Leaving
  <2> QED BY <1>1, <2>1, <2>2, Counted
<1>9. PushesAwake'
  <2>1. CASE variableSizeObjects
    <3>1. Sleeping(PushOps)' = {}
      BY <1>3, <2>1 DEF PostPopNotify
    <3> QED BY <2>1, <3>1 DEF PushesAwake
  <2>2. CASE ~variableSizeObjects
    <3> SUFFICES ASSUME Sleeping(PushOps)' # {}
                 PROVE  maximalSize - currentSize' <= Cardinality(OnTheWay(PushOps)')
      BY <2>2 DEF PushesAwake
    <3>1. Sleeping(PushOps) # {}
      BY <1>3
    <3>2. maximalSize - currentSize <= Cardinality(OnTheWay(PushOps))
      BY <1>0, <2>2, <3>1 DEF PushesAwake
    <3>3. PICK w \in Sleeping(PushOps) : W = sleepers \ {w}
      BY <2>2, <3>1 DEF PostPopNotify, notify_one
    <3>4. \A c \in Caller : call'[c].op \in PushOps <=> call[c].op \in PushOps
      BY <1>0, Others
    <3>5. OnTheWay(PushOps)' = OnTheWay(PushOps) \cup {w} /\ w \notin OnTheWay(PushOps)
      BY <1>0, <3>3, <3>4 DEF OnTheWay, Sleeping, QueueType
    <3>6. Cardinality(OnTheWay(PushOps)') = Cardinality(OnTheWay(PushOps)) + 1
      BY <3>5, Counted, FS_AddElement
    <3> QED BY <1>0, <1>2, <2>2, <3>2, <3>6, Counted, QueueAssumption DEF QueueType
  <2> QED BY <1>0, <2>1, <2>2
<1> QED BY <1>5, <1>8, <1>9 DEF QueueInv

(* A pop of everything, which wakes every push.                                        *)
LEMMA Emptied ==
  ASSUME QueueInv, Returns(PopOps), theQueue' = <<>>, currentSize' = 0,
         sleepers' = sleepers \ Sleeping(PushOps),
         UNCHANGED <<isClosed, variableSizeObjects>>
  PROVE  QueueInv'
<1>0. QueueType /\ variableSizeObjects \in BOOLEAN
  BY DEF QueueInv, QueueType
<1>1. theQueue' \in Seq(Values') /\ Len(theQueue') = 0
  OBVIOUS
<1>2. /\ DOMAIN call' = Caller
      /\ \A c \in Caller : call'[c].op \in PushOps => call'[c].vals \in Inputs'
      /\ \A c \in sleepers : call'[c] = call[c]
      /\ \A kind : Sleeping(kind)' = Sleeping(kind) \cap sleepers'
  BY <1>0, Returning
<1>3. QueueType'
  <2>1. /\ sleepers' \subseteq Caller /\ (isClosed' => sleepers' = {})
        /\ \A c \in sleepers' : call'[c].op \in PushOps \cup PopOps
    BY <1>0, <1>2 DEF QueueType
  <2>2. variableSizeObjects' \in BOOLEAN /\ isClosed' \in BOOLEAN
    BY <1>0 DEF QueueType
  <2> QED BY <1>1, <1>2, <2>1, <2>2 DEF QueueType, PushOps, PopOps
<1>4. Sleeping(PushOps)' = {}
  BY <1>2
<1>5. PopsAwake' /\ PushesAwake'
  BY <1>1, <1>4, Counted DEF PopsAwake, PushesAwake
<1> QED BY <1>3, <1>5 DEF QueueInv

(* Everybody is woken.                                                                 *)
LEMMA AllAwake ==
  ASSUME QueueInv, sleepers' = {}, call' = call, variableSizeObjects' = variableSizeObjects,
         isClosed' \in BOOLEAN, currentSize' \in Int, theQueue' \in Seq(Values),
         ~variableSizeObjects => currentSize' = Len(theQueue')
  PROVE  QueueInv'
<1>1. Inputs' = Inputs /\ Values' = Values
  BY DEF Inputs, Values, Sequences_
<1>2. \A ops : Sleeping(ops)' = {}
  BY DEF Sleeping
<1>3. QueueType'
  BY <1>1 DEF QueueInv, QueueType, PushOps
<1> QED BY <1>2, <1>3 DEF QueueInv, PopsAwake, PushesAwake

(* What one sleeper more or one caller less leaves alone.                              *)
LEMMA OtherKind ==
  ASSUME QueueType, NEW c \in Caller, NEW ops, NEW kind,
         call[c].op \in ops, ops \cap kind = {}, "none" \notin kind,
         \/ sleepers' = sleepers \cup {c} /\ call' = call
         \/ sleepers' = sleepers /\ call' = [call EXCEPT ![c] = Returned]
  PROVE  Sleeping(kind)' = Sleeping(kind) /\ OnTheWay(kind)' = OnTheWay(kind)
<1>1. \A d \in Caller : call'[d].op \in kind <=> call[d].op \in kind
  BY DEF QueueType, Returned
<1>2. \A d \in Caller : call[d].op \in kind => (d \in sleepers' <=> d \in sleepers)
  OBVIOUS
<1>3. sleepers' \subseteq Caller /\ sleepers \subseteq Caller
  BY DEF QueueType
<1> QED BY <1>1, <1>2, <1>3 DEF Sleeping, OnTheWay

LEMMA Kinds ==
  /\ PushOps \cap PopOps = {} /\ PopOps \cap PushOps = {}
  /\ "none" \notin PushOps /\ "none" \notin PopOps
BY DEF PushOps, PopOps

(* A caller falls asleep.                                                              *)
LEMMA FallsAsleep ==
  ASSUME QueueInv, NEW c \in Caller, c \notin sleepers, sleepers' = sleepers \cup {c}, ~isClosed,
         UNCHANGED <<theQueue, currentSize, call, isClosed, variableSizeObjects>>,
         \/ call[c].op \in PopOps /\ theQueue = <<>>
         \/ call[c].op \in PushOps /\ ~Fits(call[c].vals)
  PROVE  QueueInv'
<1>0. QueueType /\ PopsAwake /\ PushesAwake /\ variableSizeObjects \in BOOLEAN
  BY DEF QueueInv, QueueType
<1>1. Inputs' = Inputs /\ Values' = Values /\ \A v : Fits(v)' = Fits(v)
  BY DEF Inputs, Values, Sequences_, Fits, SizeNeededForSequence
<1>2. QueueType'
  BY <1>0, <1>1 DEF QueueType, PushOps, PopOps
<1>3. CASE call[c].op \in PopOps /\ theQueue = <<>>
  <2>1. /\ Sleeping(PushOps)' = Sleeping(PushOps)
        /\ OnTheWay(PushOps)' = OnTheWay(PushOps)
    BY <1>0, <1>3, Kinds, OtherKind
  <2>2. PushesAwake'
    BY <1>0, <1>1, <2>1 DEF PushesAwake
  <2>3. Len(theQueue') = 0
    BY <1>3
  <2>4. PopsAwake'
    BY <2>3, Counted DEF PopsAwake
  <2> QED BY <1>2, <2>2, <2>4 DEF QueueInv
<1>4. CASE call[c].op \in PushOps /\ ~Fits(call[c].vals)
  <2>1. /\ Sleeping(PopOps)' = Sleeping(PopOps)
        /\ OnTheWay(PopOps)' = OnTheWay(PopOps)
    BY <1>0, <1>4, Kinds, OtherKind
  <2>2. PopsAwake'
    BY <1>0, <2>1 DEF PopsAwake
  <2>3. CASE variableSizeObjects
    <3>1. Sleeping(PushOps)' = Sleeping(PushOps) \cup {c}
      BY <1>4 DEF Sleeping
    <3>2. PushesAwake'
      BY <1>0, <1>1, <1>4, <2>3, <3>1 DEF PushesAwake
    <3> QED BY <1>2, <2>2, <3>2 DEF QueueInv
  <2>4. CASE ~variableSizeObjects
    <3>1. SizeNeededForSequence(call[c].vals) = 1
      BY <1>0, <1>4, <2>4, InputSize DEF QueueType
    <3>2. ~(currentSize + 1 <= maximalSize)
      BY <1>4, <3>1 DEF Fits
    <3>3. maximalSize - currentSize <= 0 /\ maximalSize - currentSize \in Int
      BY <1>0, <3>2, QueueAssumption DEF QueueType
    <3>4. maximalSize - currentSize <= Cardinality(OnTheWay(PushOps)')
      BY <3>3, Counted
    <3>5. PushesAwake'
      BY <2>4, <3>4 DEF PushesAwake
    <3> QED BY <1>2, <2>2, <3>5 DEF QueueInv
  <2> QED BY <1>0, <2>3, <2>4
<1> QED BY <1>3, <1>4

(* A call comes back with nothing done: the queue is closed, or the value is too big.  *)
LEMMA GivesUp ==
  ASSUME QueueInv, NEW c \in Caller, c \notin sleepers, call' = [call EXCEPT ![c] = Returned],
         UNCHANGED <<theQueue, currentSize, sleepers, isClosed, variableSizeObjects>>,
         \/ isClosed
         \/ call[c].op \in PushOps /\ SizeNeededForSequence(call[c].vals) > maximalSize
  PROVE  QueueInv'
<1>0. QueueType /\ PopsAwake /\ PushesAwake /\ variableSizeObjects \in BOOLEAN
  BY DEF QueueInv, QueueType
<1>1. Inputs' = Inputs /\ Values' = Values /\ \A v : Fits(v)' = Fits(v)
  BY DEF Inputs, Values, Sequences_, Fits, SizeNeededForSequence
<1>2. QueueType'
  <2>1. \A d \in Caller : call'[d] = IF d = c THEN Returned ELSE call[d]
    BY <1>0 DEF QueueType
  <2>2. Returned.op \notin PushOps /\ DOMAIN call' = Caller
    BY <1>0 DEF QueueType, Returned, PushOps
  <2> QED BY <1>0, <1>1, <2>1, <2>2 DEF QueueType, PushOps, PopOps
<1>3. CASE isClosed
  <2>1. \A ops : Sleeping(ops)' = {}
    BY <1>0, <1>3 DEF QueueType, Sleeping
  <2> QED BY <1>2, <2>1 DEF QueueInv, PopsAwake, PushesAwake
<1>4. CASE call[c].op \in PushOps /\ SizeNeededForSequence(call[c].vals) > maximalSize
  <2>1. /\ Sleeping(PopOps)' = Sleeping(PopOps)
        /\ OnTheWay(PopOps)' = OnTheWay(PopOps)
    BY <1>0, <1>4, Kinds, OtherKind
  <2>2. PopsAwake'
    BY <1>0, <2>1 DEF PopsAwake
  <2>3. CASE variableSizeObjects
    <3>1. /\ Sleeping(PushOps)' = Sleeping(PushOps)
          /\ \A d \in Sleeping(PushOps) : call'[d] = call[d]
      BY <1>0 DEF Sleeping, QueueType
    <3>2. PushesAwake'
      BY <1>0, <1>1, <2>3, <3>1 DEF PushesAwake
    <3> QED BY <1>2, <2>2, <3>2 DEF QueueInv
  <2>4. CASE ~variableSizeObjects
    <3>1. SizeNeededForSequence(call[c].vals) = 1
      BY <1>0, <1>4, <2>4, InputSize DEF QueueType
    <3>2. currentSize = Len(theQueue) /\ Len(theQueue) \in Nat
      BY <1>0, <2>4 DEF QueueType
    <3>3. maximalSize - currentSize <= 0 /\ maximalSize - currentSize \in Int
      BY <1>4, <3>1, <3>2, QueueAssumption
    <3>4. maximalSize - currentSize <= Cardinality(OnTheWay(PushOps)')
      BY <3>3, Counted
    <3>5. PushesAwake'
      BY <2>4, <3>4 DEF PushesAwake
    <3> QED BY <1>2, <2>2, <3>5 DEF QueueInv
  <2> QED BY <1>0, <2>3, <2>4
<1> QED BY <1>3, <1>4

(* A call begins.                                                                      *)
LEMMA Begins ==
  ASSUME QueueInv, NEW c \in Caller, Call(c)
  PROVE  QueueInv'
<1>0. QueueType /\ PopsAwake /\ PushesAwake /\ variableSizeObjects \in BOOLEAN
  BY DEF QueueInv, QueueType
<1>1. UNCHANGED <<theQueue, currentSize, isClosed, variableSizeObjects, sleepers>> /\ call[c] = Returned
  BY DEF Call
<1>2. PICK op, vals :
        /\ op \in PushOps \cup PopOps
        /\ call' = [call EXCEPT ![c] = [op |-> op, vals |-> vals]]
        /\ op \in PushOps => vals \in Inputs
  <2>1. CASE \E x \in Values : Make(c, "PushWait", <<x>>)
    <3>1. PICK x \in Values : Make(c, "PushWait", <<x>>)  BY <2>1
    <3> WITNESS "PushWait", <<x>>
    <3> QED BY <3>1 DEF Make, PushOps, Inputs
  <2>2. CASE \E vals \in Sequences_ : Make(c, "PushManyWait", vals)
    <3>1. PICK v \in Sequences_ : Make(c, "PushManyWait", v)  BY <2>2
    <3> WITNESS "PushManyWait", v
    <3> QED BY <3>1 DEF Make, PushOps, Inputs
  <2>3. CASE \E op \in PopOps : Make(c, op, <<>>)
    <3>1. PICK o \in PopOps : Make(c, o, <<>>)  BY <2>3
    <3> WITNESS o, <<>>
    <3> QED BY <3>1, Kinds DEF Make
  <2> QED BY <2>1, <2>2, <2>3 DEF Call
<1>3. Inputs' = Inputs /\ Values' = Values /\ \A v : Fits(v)' = Fits(v)
  BY <1>1 DEF Inputs, Values, Sequences_, Fits, SizeNeededForSequence
<1>4. c \notin sleepers /\ c \notin OnTheWay(PushOps) /\ c \notin OnTheWay(PopOps)
  BY <1>0, <1>1, Kinds DEF QueueType, Returned, OnTheWay
<1>5. /\ DOMAIN call' = Caller
      /\ \A d \in Caller : call'[d] = IF d = c THEN [op |-> op, vals |-> vals] ELSE call[d]
  BY <1>0, <1>2 DEF QueueType
<1>6. QueueType'
  <2>1. \A d \in Caller : call'[d].op \in PushOps => call'[d].vals \in Inputs
    BY <1>0, <1>2, <1>5 DEF QueueType
  <2>2. \A d \in sleepers : call'[d] = call[d]
    BY <1>0, <1>4, <1>5 DEF QueueType
  <2> QED BY <1>0, <1>1, <1>3, <1>5, <2>1, <2>2 DEF QueueType, PushOps, PopOps
<1>7. \A ops : /\ Sleeping(ops)' = Sleeping(ops)
                /\ \A d \in Sleeping(ops) : call'[d] = call[d]
  BY <1>0, <1>1, <1>4, <1>5 DEF QueueType, Sleeping
<1>8. ASSUME NEW ops \in {PushOps, PopOps}
      PROVE  Cardinality(OnTheWay(ops)) <= Cardinality(OnTheWay(ops)')
  <2>1. OnTheWay(ops) \in SUBSET OnTheWay(ops)'
    BY <1>1, <1>4, <1>5 DEF OnTheWay
  <2> QED BY <2>1, Counted, FS_Subset
<1>9. PopsAwake'
  <2> SUFFICES ASSUME Sleeping(PopOps) # {}
               PROVE  Len(theQueue) <= Cardinality(OnTheWay(PopOps)')
    BY <1>1, <1>7 DEF PopsAwake
  <2>1. Len(theQueue) <= Cardinality(OnTheWay(PopOps)) /\ Len(theQueue) \in Nat
    BY <1>0 DEF PopsAwake, QueueType
  <2> QED BY <1>8, <2>1, Counted
<1>10. PushesAwake'
  <2>1. CASE variableSizeObjects
    BY <1>0, <1>1, <1>3, <1>7, <2>1 DEF PushesAwake
  <2>2. CASE ~variableSizeObjects
    <3> SUFFICES ASSUME Sleeping(PushOps) # {}
                 PROVE  maximalSize - currentSize <= Cardinality(OnTheWay(PushOps)')
      BY <1>1, <1>7, <2>2 DEF PushesAwake
    <3>1. maximalSize - currentSize <= Cardinality(OnTheWay(PushOps)) /\ currentSize \in Int
      BY <1>0, <2>2 DEF PushesAwake, QueueType
    <3> QED BY <1>8, <3>1, Counted, QueueAssumption
  <2> QED BY <1>0, <2>1, <2>2
<1> QED BY <1>6, <1>9, <1>10 DEF QueueInv

LEMMA QueueStep ==
  ASSUME QueueInv, [QueueNext]_queueVars
  PROVE  QueueInv'
<1>0. QueueType
  BY DEF QueueInv
<1>1. ASSUME NEW c \in Caller, PushWait(c) PROVE QueueInv'
  <2> DEFINE vals == call[c].vals
  <2>1. c \in OnTheWay(PushOps) /\ c \notin sleepers /\ call[c].op \in PushOps /\ vals \in Inputs
    BY <1>0, <1>1 DEF PushWait, OnTheWay, QueueType
  <2>2. CASE SizeNeededForSequence(vals) > maximalSize \/ isClosed
    <3>1. CASE ReturnFrom(c) /\ UNCHANGED <<theQueue, currentSize, sleepers>>
      BY <1>1, <2>1, <2>2, <3>1, GivesUp DEF PushWait, ReturnFrom
    <3>2. CASE ~isClosed /\ \E W \in SUBSET sleepers : AppendSequence(vals, W) /\ sleepers' = W /\ ReturnFrom(c)
      BY <1>1, <2>1, <3>2, Pushed DEF PushWait, ReturnFrom, Returns
    <3>3. CASE ~isClosed /\ SizeNeededForSequence(vals) <= maximalSize
      <4>1. SizeNeededForSequence(vals) \in Nat
        BY <1>0, <2>1, InputSize DEF QueueType
      <4> QED BY <2>2, <3>3, <4>1, QueueAssumption
    <3>4. \/ ReturnFrom(c) /\ UNCHANGED <<theQueue, currentSize, sleepers>>
          \/ ~isClosed /\ \E W \in SUBSET sleepers : AppendSequence(vals, W) /\ sleepers' = W /\ ReturnFrom(c)
          \/ ~isClosed /\ SizeNeededForSequence(vals) <= maximalSize
      BY <1>1 DEF PushWait
    <3> QED BY <3>1, <3>2, <3>3, <3>4
  <2>3. CASE ~isClosed /\ Fits(vals) /\ ~(SizeNeededForSequence(vals) > maximalSize)
    <3>1. PICK W \in SUBSET sleepers : AppendSequence(vals, W) /\ sleepers' = W
      BY <1>1, <2>3 DEF PushWait
    <3>2. Returns(PushOps)
      BY <1>1, <2>1, <2>3 DEF PushWait, ReturnFrom, Returns
    <3> QED BY <1>1, <2>1, <3>1, <3>2, Pushed DEF PushWait
  <2>4. CASE ~isClosed /\ ~Fits(vals) /\ ~(SizeNeededForSequence(vals) > maximalSize)
    BY <1>1, <2>1, <2>4, FallsAsleep DEF PushWait
  <2> QED BY <2>2, <2>3, <2>4
<1>2. ASSUME NEW c \in Caller, PopWait(c) PROVE QueueInv'
  <2>1. c \in OnTheWay(PopOps) /\ c \notin sleepers /\ call[c].op \in PopOps
    BY <1>2 DEF PopWait, OnTheWay, PopOps
  <2>2. CASE theQueue # <<>>
    <3>1. PICK W \in SUBSET sleepers : PostPopNotify(W) /\ sleepers' = W
      BY <1>2, <2>2 DEF PopWait
    <3>2. Returns(PopOps)
      BY <1>2, <2>1, <2>2 DEF PopWait, ReturnFrom, Returns
    <3>3. /\ theQueue' = Tail(theQueue) /\ currentSize' = currentSize - Head(theQueue)
          /\ UNCHANGED <<isClosed, variableSizeObjects>>
      BY <1>2, <2>2 DEF PopWait
    <3> QED BY <2>2, <3>1, <3>2, <3>3, Popped
  <2>3. CASE theQueue = <<>> /\ isClosed
    BY <1>2, <2>1, <2>3, GivesUp DEF PopWait, ReturnFrom
  <2>4. CASE theQueue = <<>> /\ ~isClosed
    BY <1>2, <2>1, <2>4, FallsAsleep DEF PopWait
  <2> QED BY <2>2, <2>3, <2>4
<1>3. ASSUME NEW c \in Caller, PopAllWait(c) PROVE QueueInv'
  <2>1. c \in OnTheWay(PopOps) /\ c \notin sleepers /\ call[c].op \in PopOps
    BY <1>3 DEF PopAllWait, OnTheWay, PopOps
  <2>2. CASE theQueue # <<>>
    <3>1. Returns(PopOps)
      BY <1>3, <2>1, <2>2 DEF PopAllWait, ReturnFrom, Returns
    <3> QED BY <1>3, <2>2, <3>1, Emptied DEF PopAllWait
  <2>3. CASE theQueue = <<>> /\ isClosed
    BY <1>3, <2>1, <2>3, GivesUp DEF PopAllWait, ReturnFrom
  <2>4. CASE theQueue = <<>> /\ ~isClosed
    BY <1>3, <2>1, <2>4, FallsAsleep DEF PopAllWait
  <2> QED BY <2>2, <2>3, <2>4
<1>4. ASSUME PushNoWait PROVE QueueInv'
  <2>1. PICK vals \in Inputs, W \in SUBSET sleepers : AppendSequence(vals, W) /\ sleepers' = W
    BY <1>4 DEF PushNoWait, Inputs
  <2>2. Returns(PushOps) /\ UNCHANGED <<isClosed, variableSizeObjects>>
    BY <1>4 DEF PushNoWait, Returns
  <2> QED BY <2>1, <2>2, Pushed
<1>5. ASSUME PopNoWait PROVE QueueInv'
  <2>1. PICK W \in SUBSET sleepers : PostPopNotify(W) /\ sleepers' = W
    BY <1>5 DEF PopNoWait
  <2>2. /\ theQueue # <<>> /\ theQueue' = Tail(theQueue) /\ currentSize' = currentSize - Head(theQueue)
        /\ UNCHANGED <<isClosed, variableSizeObjects>> /\ Returns(PopOps)
    BY <1>5 DEF PopNoWait, Returns
  <2> QED BY <2>1, <2>2, Popped
<1>6. ASSUME PopAllNoWait PROVE QueueInv'
  BY <1>6, Emptied DEF PopAllNoWait, Returns
<1>7. ASSUME ReplaceContent PROVE QueueInv'
  <2>1. PICK vals \in Sequences_ : theQueue' = vals /\ currentSize' = SizeNeededForSequence(vals)
    BY <1>7 DEF ReplaceContent
  <2>2. variableSizeObjects
    BY <2>1 DEF Sequences_
  <2>3. vals \in Seq(Values) /\ SizeNeededForSequence(vals) \in Nat
    BY <1>0, InputSize DEF Inputs, QueueType
  <2>4. /\ sleepers' = {} /\ UNCHANGED <<isClosed, variableSizeObjects, call>>
        /\ isClosed' \in BOOLEAN /\ currentSize' \in Int
    BY <1>0, <1>7, <2>1, <2>3 DEF ReplaceContent, QueueType
  <2> QED BY <2>1, <2>2, <2>3, <2>4, AllAwake
<1>8. ASSUME NEW d \in BOOLEAN, Close(d) PROVE QueueInv'
  <2>1. /\ sleepers' = {} /\ UNCHANGED <<variableSizeObjects, call>> /\ isClosed' \in BOOLEAN
        /\ \/ theQueue' = <<>> /\ currentSize' = 0
           \/ theQueue' = theQueue /\ currentSize' = currentSize
    BY <1>8 DEF Close
  <2>2. /\ theQueue' \in Seq(Values) /\ currentSize' \in Int
        /\ ~variableSizeObjects => currentSize' = Len(theQueue')
    <3>1. <<>> \in Seq(Values) /\ Len(<<>>) = 0
      OBVIOUS
    <3>2. CASE theQueue' = <<>> /\ currentSize' = 0
      BY <3>1, <3>2
    <3>3. CASE theQueue' = theQueue /\ currentSize' = currentSize
      BY <1>0, <3>3 DEF QueueType
    <3> QED BY <2>1, <3>2, <3>3
  <2> QED BY <2>1, <2>2, AllAwake
<1>9. ASSUME UNCHANGED queueVars PROVE QueueInv'
  <2>1. UNCHANGED <<theQueue, currentSize, isClosed, variableSizeObjects, call, sleepers>>
    BY <1>9 DEF queueVars
  <2>2. Inputs' = Inputs /\ Values' = Values /\ \A v : Fits(v)' = Fits(v)
    BY <2>1 DEF Inputs, Values, Sequences_, Fits, SizeNeededForSequence
  <2>3. \A ops : Sleeping(ops)' = Sleeping(ops) /\ OnTheWay(ops)' = OnTheWay(ops)
    BY <2>1 DEF Sleeping, OnTheWay
  <2>4. QueueType'
    BY <1>0, <2>1, <2>2 DEF QueueType, PushOps, PopOps
  <2>5. PopsAwake' /\ PushesAwake'
    BY <2>1, <2>2, <2>3 DEF QueueInv, PopsAwake, PushesAwake
  <2> QED BY <2>4, <2>5 DEF QueueInv
<1> QED BY <1>1, <1>2, <1>3, <1>4, <1>5, <1>6, <1>7, <1>8, <1>9, Begins DEF QueueNext, Step

(* No caller of the queue sleeps on a condition that holds with nobody on the way.     *)
LEMMA CallersAwake == QueueSpec => []QueueWakeups
<1>1. QueueInit => QueueInv
  <2> SUFFICES ASSUME QueueInit PROVE QueueInv
    OBVIOUS
  <2>1. /\ theQueue = <<>> /\ currentSize = 0 /\ isClosed = FALSE /\ variableSizeObjects \in BOOLEAN
        /\ call = [c \in Caller |-> Returned] /\ sleepers = {}
    BY DEF QueueInit
  <2>2. \A ops : Sleeping(ops) = {}
    BY <2>1 DEF Sleeping
  <2>3. <<>> \in Seq(Values) /\ Len(<<>>) = 0 /\ Returned.op \notin PushOps
    BY Kinds DEF Returned
  <2>4. PopsAwake /\ PushesAwake
    BY <2>2 DEF PopsAwake, PushesAwake
  <2>5. /\ theQueue \in Seq(Values) /\ currentSize \in Int /\ currentSize = Len(theQueue)
        /\ DOMAIN call = Caller /\ \A c \in Caller : call[c].op \notin PushOps
    BY <2>1, <2>3
  <2>6. QueueType
    BY <2>1, <2>5 DEF QueueType
  <2> QED BY <2>4, <2>6 DEF QueueInv
<1>2. QueueInv => QueueWakeups
  <2> SUFFICES ASSUME QueueInv PROVE QueueWakeups
    OBVIOUS
  <2>0. QueueType /\ PopsAwake /\ PushesAwake
    BY DEF QueueInv
  <2>1. ASSUME Sleeping(PopOps) # {}, theQueue # <<>>
        PROVE  \E c \in Caller \ sleepers : call[c].op \in PopOps
    <3>1. Len(theQueue) \in Nat /\ Len(theQueue) > 0 /\ Len(theQueue) <= Cardinality(OnTheWay(PopOps))
      BY <2>0, <2>1 DEF QueueType, PopsAwake
    <3>2. OnTheWay(PopOps) # {}
      BY <3>1, FS_EmptySet
    <3> QED BY <3>2 DEF OnTheWay
  <2>2. ASSUME NEW c \in Sleeping(PushOps), Fits(call[c].vals)
        PROVE  \E d \in Caller \ sleepers : call[d].op \in PushOps
    <3>1. ~variableSizeObjects /\ maximalSize - currentSize <= Cardinality(OnTheWay(PushOps))
      BY <2>0, <2>2 DEF PushesAwake
    <3>2. c \in Caller /\ call[c].vals \in Inputs /\ variableSizeObjects \in BOOLEAN /\ currentSize \in Int
      BY <2>0 DEF QueueType, Sleeping
    <3>3. SizeNeededForSequence(call[c].vals) = 1
      BY <3>1, <3>2, InputSize
    <3>4. maximalSize - currentSize > 0
      BY <2>2, <3>2, <3>3, QueueAssumption DEF Fits
    <3>5. OnTheWay(PushOps) # {}
      <4>1. Cardinality(OnTheWay(PushOps)) > 0
        BY <3>1, <3>2, <3>4, Counted, QueueAssumption
      <4> QED BY <4>1, FS_EmptySet
    <3> QED BY <3>5 DEF OnTheWay
  <2>3. Sleeping(PopOps) # {} \/ Sleeping(PushOps) # {} => ~isClosed
    BY <2>0 DEF QueueType, Sleeping
  <2> QED BY <2>1, <2>2, <2>3 DEF QueueWakeups
<1> QED BY <1>1, <1>2, QueueStep, PTL DEF QueueSpec
===============================================================================
