-------------------------- MODULE CoinsCacheProofs --------------------------
(***************************************************************************)
(* Proofs about CoinsCache, for any outpoints, coins, blocks and spans.    *)
(*                                                                         *)
(* StoreIsBest, FreshSound and the others are not inductive one by one: a  *)
(* FRESH entry of a span is sound only because attached spans stand on the *)
(* best block, and erasing on SpendCoin is right only because FRESH is     *)
(* sound.  IInv is their conjunction with what links the layers.           *)
(***************************************************************************)
EXTENDS CoinsCache, TLAPS

(* An entry of the store is a copy of its record or a modification of it.   *)
StoreEntryOK(e, below) ==
  e # None =>
    /\ e.own
    /\ ~e.dirty => e.coin = below /\ e.coin # Spent /\ ~e.fresh
    /\ e.dirty => e.script
    /\ e.fresh => below = Spent

(* The same for a span above the coin `below' of its base block; `looked'   *)
(* says that the outpoint is an input that was looked up.                   *)
SpanEntryOK(f, below, looked) ==
  f # None =>
    /\ ~f.dirty => f.coin = below /\ f.coin # Spent /\ ~f.fresh /\ looked
    /\ f.dirty => f.script /\ f.own
    /\ f.fresh => below = Spent

(* An entry that does not own its data points to a complete store entry.    *)
PointsTo(f, e) ==
  f # None /\ ~f.own => e # None /\ e.coin = f.coin /\ e.script

StoreOK ==
  /\ db = UtxoOf[dbBest]
  /\ \A o \in Outpoint : StoreEntryOK(store[o], db[o])
  /\ \A o \in Outpoint : Through(store[o], db[o]) = UtxoOf[GetBestBlock][o]

SpanOK(s) ==
  /\ mode[s] = "free" => cache[s] = Empty /\ ins[s] = {} /\ hash[s] = Null
  /\ mode[s] = "detached" => ins[s] = {}
  /\ mode[s] # "free" =>
       \A o \in Outpoint : SpanEntryOK(cache[s][o], UtxoOf[hash[s]][o], o \in ins[s])
  /\ mode[s] = "attached" =>
       /\ hash[s] = hashBlock
       /\ \A o \in Outpoint : PointsTo(cache[s][o], store[o])

IInv == TypeOK /\ StoreOK /\ \A s \in Span : SpanOK(s)

-----------------------------------------------------------------------------

(* None is not an entry, so a cache slot is None or a record.               *)
LEMMA EntryFacts ==
  ASSUME NEW e \in Entry \cup {None}, e # None
  PROVE  /\ e \in Entry
         /\ e.coin \in Coin \cup {Spent}
         /\ e.script \in BOOLEAN /\ e.own \in BOOLEAN
         /\ e.dirty \in BOOLEAN /\ e.fresh \in BOOLEAN
  BY CoinsAssumption DEF Entry

(* The constructors of entries return entries.                              *)
LEMMA EntryTypes ==
  /\ \A c \in Coin \cup {Spent}, a, b \in BOOLEAN : Loaded(c, a, b) \in Entry
  /\ \A e \in Entry \cup {None}, c \in Coin, w \in BOOLEAN : Added(e, c, w) \in Entry
  /\ \A e \in Entry \cup {None} : SpentEntry(e) \in Entry \cup {None}
  /\ \A e, p \in Entry \cup {None} : Merged(e, p) \in Entry \cup {None}
<1>1. \A c \in Coin \cup {Spent}, a, b \in BOOLEAN : Loaded(c, a, b) \in Entry
  BY DEF Loaded, Entry
<1>2. ASSUME NEW e \in Entry \cup {None}, NEW c \in Coin, NEW w \in BOOLEAN
      PROVE  Added(e, c, w) \in Entry
  BY DEF Added, Entry, Fresh, Dirty
<1>3. ASSUME NEW e \in Entry \cup {None}
      PROVE  SpentEntry(e) \in Entry \cup {None}
  BY DEF SpentEntry, Entry, Fresh
<1>4. ASSUME NEW e \in Entry \cup {None}, NEW p \in Entry \cup {None}
      PROVE  Merged(e, p) \in Entry \cup {None}
  <2>1. CASE ~Dirty(e)
    BY <2>1 DEF Merged
  <2>2. CASE Dirty(e) /\ p = None
    BY <2>2 DEF Merged, Dirty
  <2>3. CASE Dirty(e) /\ p # None
    BY <2>3, EntryFacts DEF Merged, Dirty, Entry
  <2> QED BY <2>1, <2>2, <2>3
<1> QED BY <1>1, <1>2, <1>3, <1>4

(* BatchWrite of one entry: the merged entry shows what the span showed,    *)
(* and is again a sound store entry.                                        *)
LEMMA MergeSound ==
  ASSUME NEW e \in Entry \cup {None}, NEW f \in Entry \cup {None},
         NEW d \in Coin \cup {Spent},
         StoreEntryOK(e, d), SpanEntryOK(f, Through(e, d), TRUE)
  PROVE  /\ Through(Merged(f, e), d) = Through(f, Through(e, d))
         /\ StoreEntryOK(Merged(f, e), d)
<1>1. CASE f = None \/ ~Dirty(f)
  BY <1>1 DEF Merged, Dirty, Through, SpanEntryOK
<1>2. CASE f # None /\ Dirty(f) /\ e = None
  BY <1>2, EntryFacts DEF Merged, Dirty, Through, SpanEntryOK, StoreEntryOK
<1>3. CASE f # None /\ Dirty(f) /\ e # None
  <2>1. f \in Entry /\ e \in Entry /\ f.dirty
    BY <1>3, EntryFacts DEF Dirty
  <2>2. CASE e.fresh /\ f.coin = Spent
    BY <1>3, <2>1, <2>2 DEF Merged, Through, SpanEntryOK, StoreEntryOK
  <2>3. CASE ~(e.fresh /\ f.coin = Spent)
    <3>1. Merged(f, e) = [f EXCEPT !.fresh = e.fresh]
      BY <1>3, <2>3 DEF Merged
    <3>2. /\ Merged(f, e) \in Entry
          /\ Merged(f, e).coin = f.coin /\ Merged(f, e).script = f.script
          /\ Merged(f, e).own = f.own /\ Merged(f, e).dirty = f.dirty
          /\ Merged(f, e).fresh = e.fresh
      BY Zenon, <3>1, <2>1 DEF Entry
    <3>3. Merged(f, e) # None
      BY <3>2, CoinsAssumption
    <3> QED BY <1>3, <2>1, <3>2, <3>3 DEF Through, SpanEntryOK, StoreEntryOK
  <2> QED BY <2>2, <2>3
<1> QED BY <1>1, <1>2, <1>3

-----------------------------------------------------------------------------
(* Reading.                                                                 *)

(* CoinsDB::GetCoin may fill a slot or load a script; nobody who looks at   *)
(* the store through it, or points into it, can tell.                       *)
LEMMA StoreReadSound ==
  ASSUME IInv, NEW o \in Outpoint, NEW n \in BOOLEAN, NEW e \in StoreAfterGet(o, n)
  PROVE  /\ e \in Entry \cup {None}
         /\ StoreEntryOK(e, db[o])
         /\ Through(e, db[o]) = Through(store[o], db[o])
         /\ \A f \in Entry \cup {None} : PointsTo(f, store[o]) => PointsTo(f, e)
<1>1. /\ store[o] \in Entry \cup {None} /\ db[o] \in Coin \cup {Spent}
      /\ StoreEntryOK(store[o], db[o])
  BY DEF IInv, TypeOK, Cache, Map, StoreOK
<1>2. CASE e = store[o]
  BY <1>1, <1>2
<1>3. CASE e # store[o] /\ store[o] = None
  <2>1. db[o] # Spent
    BY Zenon, <1>3 DEF StoreAfterGet
  <2>2. PICK b \in BOOLEAN : e = Loaded(db[o], b, TRUE)
    BY Zenon, <1>3, <2>1 DEF StoreAfterGet
  <2>3. e \in Entry /\ e # None
    BY Zenon, <1>1, <2>2, EntryTypes, CoinsAssumption
  <2>4. e.coin = db[o] /\ e.own /\ ~e.dirty /\ ~e.fresh
    BY <2>2 DEF Loaded
  <2> QED BY <1>1, <1>3, <2>1, <2>3, <2>4 DEF StoreEntryOK, Through, PointsTo
<1>4. CASE e # store[o] /\ store[o] # None
  <2>1. store[o] \in Entry /\ e = [store[o] EXCEPT !.script = TRUE]
    BY <1>1, <1>4 DEF StoreAfterGet
  <2>2. /\ e \in Entry /\ e.coin = store[o].coin /\ e.own = store[o].own
        /\ e.dirty = store[o].dirty /\ e.fresh = store[o].fresh /\ e.script
    BY Zenon, <2>1 DEF Entry
  <2>3. e # None
    BY <2>2, CoinsAssumption
  <2> QED BY <1>1, <1>4, <2>1, <2>2, <2>3 DEF StoreEntryOK, Through, PointsTo
<1> QED BY <1>2, <1>3, <1>4

(* What an attached span stands on: the coins of its base block.            *)
LEMMA AttachedBase ==
  ASSUME IInv, NEW s \in Span, Attached(s), NEW o \in Outpoint
  PROVE  /\ hash[s] = hashBlock /\ hash[s] = GetBestBlock /\ hash[s] \in Block
         /\ Through(store[o], db[o]) = UtxoOf[hash[s]][o]
         /\ UtxoOf[hash[s]][o] \in Coin \cup {Spent}
         /\ SpanEntryOK(cache[s][o], UtxoOf[hash[s]][o], o \in ins[s])
         /\ PointsTo(cache[s][o], store[o])
<1>1. hash[s] \in Block /\ hash[s] = hashBlock
  BY DEF IInv, TypeOK, SpanOK, Attached
<1>2. GetBestBlock = hashBlock
  BY <1>1, CoinsAssumption DEF GetBestBlock
<1> QED BY <1>1, <1>2, CoinsAssumption DEF IInv, StoreOK, SpanOK, Attached, Map

(* CCoinsViewCache::GetCoin leaves a sound entry that is marked as looked   *)
(* up, shows the coin of the view, and points to what the store holds.      *)
LEMMA SpanReadSound ==
  ASSUME IInv, NEW s \in Span, Attached(s), NEW o \in Outpoint, NEW n \in BOOLEAN,
         NEW e \in IF Asks(cache[s][o], n) THEN StoreAfterGet(o, n) ELSE {store[o]},
         NEW f, f = SpanAfterGet(cache[s][o], e)
  PROVE  /\ e \in Entry \cup {None} /\ f \in Entry \cup {None}
         /\ StoreEntryOK(e, db[o])
         /\ Through(e, db[o]) = Through(store[o], db[o])
         /\ \A g \in Entry \cup {None} : PointsTo(g, store[o]) => PointsTo(g, e)
         /\ SpanEntryOK(f, UtxoOf[hash[s]][o], TRUE)
         /\ PointsTo(f, e)
         /\ ~Unspent(f) => Through(cache[s][o], UtxoOf[hash[s]][o]) = Spent
<1>1. /\ cache[s][o] \in Entry \cup {None} /\ store[o] \in Entry \cup {None}
      /\ db[o] \in Coin \cup {Spent} /\ StoreEntryOK(store[o], db[o])
  BY DEF IInv, TypeOK, Cache, Map, StoreOK
<1>2. /\ e \in Entry \cup {None}
      /\ StoreEntryOK(e, db[o])
      /\ Through(e, db[o]) = Through(store[o], db[o])
      /\ \A g \in Entry \cup {None} : PointsTo(g, store[o]) => PointsTo(g, e)
  <2>1. CASE Asks(cache[s][o], n)
    BY <2>1, StoreReadSound
  <2>2. CASE ~Asks(cache[s][o], n)
    BY <2>2, <1>1
  <2> QED BY <2>1, <2>2
<1>3. /\ Through(store[o], db[o]) = UtxoOf[hash[s]][o]
      /\ SpanEntryOK(cache[s][o], UtxoOf[hash[s]][o], o \in ins[s])
      /\ PointsTo(cache[s][o], store[o])
  BY AttachedBase
<1>4. CASE cache[s][o] # None
  <2>1. f = cache[s][o]
    BY <1>4 DEF SpanAfterGet
  <2> QED BY <1>1, <1>2, <1>3, <1>4, <2>1 DEF SpanEntryOK, Unspent, Through
<1>5. CASE cache[s][o] = None /\ Unspent(e)
  <2>1. f = Loaded(e.coin, e.script, ~e.script)
    BY <1>5 DEF SpanAfterGet
  <2>2. e \in Entry /\ e # None /\ e.coin # Spent /\ e.coin \in Coin \cup {Spent}
        /\ e.script \in BOOLEAN
    BY <1>2, <1>5, EntryFacts DEF Unspent
  <2>3. f \in Entry /\ f # None
    BY Zenon, <2>1, <2>2, EntryTypes, CoinsAssumption
  <2>4. f.coin = e.coin /\ f.script = e.script /\ f.own = ~e.script /\ ~f.dirty /\ ~f.fresh
    BY <2>1 DEF Loaded
  <2>5. e.coin = UtxoOf[hash[s]][o]
    BY <1>2, <1>3, <2>2 DEF Through
  <2> QED BY Zenon, <1>2, <2>2, <2>3, <2>4, <2>5 DEF SpanEntryOK, PointsTo, Unspent
<1>6. CASE cache[s][o] = None /\ ~Unspent(e)
  <2>1. f = None
    BY <1>6 DEF SpanAfterGet
  <2>2. Through(e, db[o]) = Spent
    <3>1. CASE e = None
      <4>1. e \in StoreAfterGet(o, n) /\ store[o] = None
        <5>1. Asks(cache[s][o], n)
          BY <1>6 DEF Asks
        <5>2. e \in StoreAfterGet(o, n)
          BY <5>1
        <5>3. store[o] = None
          <6> SUFFICES ASSUME store[o] # None PROVE FALSE
            OBVIOUS
          <6>1. store[o] \in Entry
            BY <1>1
          <6>2. e = [store[o] EXCEPT !.script = TRUE]
            BY <5>2, <3>1 DEF StoreAfterGet
          <6>3. e \in Entry
            BY Zenon, <6>1, <6>2 DEF Entry
          <6> QED BY <6>3, <3>1, CoinsAssumption
        <5> QED BY <5>2, <5>3
      <4>2. CASE db[o] = Spent
        BY <3>1, <4>2 DEF Through
      <4>3. CASE db[o] # Spent
        <5>1. PICK b \in BOOLEAN : e = Loaded(db[o], b, TRUE)
          BY Zenon, <4>1, <4>3 DEF StoreAfterGet
        <5>2. e \in Entry
          BY Zenon, <5>1, <1>1, EntryTypes
        <5> QED BY <5>2, <3>1, CoinsAssumption
      <4> QED BY <4>2, <4>3
    <3>2. CASE e # None
      BY <3>2, <1>6 DEF Unspent, Through
    <3> QED BY <3>1, <3>2
  <2> QED BY <1>2, <1>3, <1>6, <2>1, <2>2 DEF SpanEntryOK, PointsTo, Through
<1> QED BY Zenon, <1>4, <1>5, <1>6

-----------------------------------------------------------------------------
(* The steps.                                                               *)

(* Replacing one entry of one attached span, and the store entry below it,  *)
(* by sound ones preserves the invariant: every action of checkScripts,     *)
(* UpdateCoins and ApplyBlockUndo is an instance.                           *)
LEMMA SpanChange ==
  ASSUME IInv, NEW s \in Span, Attached(s), NEW o \in Outpoint,
         NEW e \in Entry \cup {None}, NEW g \in Entry \cup {None},
         StoreEntryOK(e, db[o]),
         Through(e, db[o]) = Through(store[o], db[o]),
         \A f \in Entry \cup {None} : PointsTo(f, store[o]) => PointsTo(f, e),
         SpanEntryOK(g, UtxoOf[hash[s]][o], o \in ins'[s]),
         PointsTo(g, e),
         store' = [store EXCEPT ![o] = e],
         cache' = [cache EXCEPT ![s][o] = g],
         NEW I \in SUBSET Outpoint, ins' = [ins EXCEPT ![s] = I], ins[s] \ {o} \subseteq I,
         UNCHANGED <<db, dbBest, hashBlock, mode, hash>>
  PROVE  IInv'
<1>1. TypeOK'
  BY DEF IInv, TypeOK, Cache
<1>2. GetBestBlock' = GetBestBlock
  BY DEF GetBestBlock
<1>3. StoreOK'
  <2>1. ASSUME NEW p \in Outpoint
        PROVE  /\ StoreEntryOK(store'[p], db[p])
               /\ Through(store'[p], db[p]) = UtxoOf[GetBestBlock][p]
    BY DEF IInv, TypeOK, Cache, StoreOK
  <2> QED BY <1>2, <2>1 DEF IInv, StoreOK
<1>4. ASSUME NEW r \in Span
      PROVE  SpanOK(r)'
  <2>1. SpanOK(r) /\ cache[r] \in Cache
    BY DEF IInv, TypeOK
  <2>2. ASSUME NEW p \in Outpoint, Attached(r)
        PROVE  PointsTo(cache'[r][p], store'[p])
    <3>1. PointsTo(cache[r][p], store[p]) /\ cache[r][p] \in Entry \cup {None}
      BY <2>1, <2>2 DEF SpanOK, Attached, Cache
    <3>2. CASE p # o
      BY <3>1, <3>2 DEF IInv, TypeOK, Cache
    <3>3. CASE p = o /\ r # s
      BY <3>1, <3>3 DEF IInv, TypeOK, Cache
    <3>4. CASE p = o /\ r = s
      BY <3>4 DEF IInv, TypeOK, Cache
    <3> QED BY <3>2, <3>3, <3>4
  <2>3. CASE r # s
    <3>1. cache'[r] = cache[r] /\ ins'[r] = ins[r]
      BY <2>3 DEF IInv, TypeOK
    <3> QED BY <2>1, <2>2, <3>1 DEF SpanOK, Attached
  <2>4. CASE r = s
    <3>1. ins'[s] = I
      BY DEF IInv, TypeOK
    <3>2. ASSUME NEW p \in Outpoint
          PROVE  SpanEntryOK(cache'[s][p], UtxoOf[hash[s]][p], p \in ins'[s])
      <4>1. SpanEntryOK(cache[s][p], UtxoOf[hash[s]][p], p \in ins[s])
        BY AttachedBase
      <4>2. CASE p = o
        BY <4>2 DEF IInv, TypeOK, Cache
      <4>3. CASE p # o
        <5>1. cache'[s][p] = cache[s][p] /\ (p \in ins[s] => p \in ins'[s])
          BY <4>3, <3>1 DEF IInv, TypeOK, Cache
        <5> QED BY <4>1, <5>1 DEF SpanEntryOK
      <4> QED BY <4>2, <4>3
    <3> QED BY <2>1, <2>2, <2>4, <3>2 DEF SpanOK, Attached
  <2> QED BY <2>3, <2>4
<1> QED BY <1>1, <1>3, <1>4 DEF IInv

(* Clearing an entry leaves a sound one that needs no look-up.              *)
LEMMA SpentSound ==
  ASSUME NEW f \in Entry \cup {None}, NEW d, NEW looked,
         SpanEntryOK(f, d, TRUE), NEW e
  PROVE  /\ SpentEntry(f) \in Entry \cup {None}
         /\ SpanEntryOK(SpentEntry(f), d, looked)
         /\ PointsTo(SpentEntry(f), e)
<1>1. SpentEntry(f) \in Entry \cup {None}
  BY EntryTypes
<1> QED BY <1>1 DEF SpentEntry, SpanEntryOK, PointsTo, Fresh

(* Adding a coin: FRESH is sound when the view showed no unspent coin.      *)
LEMMA AddedSound ==
  ASSUME NEW f \in Entry \cup {None}, NEW d, NEW looked, SpanEntryOK(f, d, TRUE),
         NEW c \in Coin, NEW w \in BOOLEAN, ~w => Through(f, d) = Spent, NEW e
  PROVE  /\ Added(f, c, w) \in Entry
         /\ SpanEntryOK(Added(f, c, w), d, looked)
         /\ PointsTo(Added(f, c, w), e)
<1>1. Added(f, c, w) \in Entry
  BY EntryTypes
<1>2. (Fresh(f) \/ (~w /\ ~Dirty(f))) => d = Spent
  BY DEF SpanEntryOK, Fresh, Dirty, Through
<1> QED BY Zenon, <1>1, <1>2 DEF Added, SpanEntryOK, PointsTo

(* checkScripts looks an input up.                                          *)
LEMMA HaveInputIInv ==
  ASSUME IInv, NEW s \in Span, NEW o \in Outpoint, NEW n \in BOOLEAN, HaveInput(s, o, n)
  PROVE  IInv'
<1>a. /\ Attached(s) /\ SpanGet(s, o, n, Same)
      /\ ins' = [ins EXCEPT ![s] = ins[s] \cup {o}]
      /\ UNCHANGED <<db, dbBest, hashBlock, mode, hash>>
  BY DEF HaveInput
<1>1. PICK e \in IF Asks(cache[s][o], n) THEN StoreAfterGet(o, n) ELSE {store[o]} :
        /\ store' = [store EXCEPT ![o] = e]
        /\ cache' = [cache EXCEPT ![s][o] = SpanAfterGet(@, e)]
  BY Zenon, <1>a DEF SpanGet, Same
<1> DEFINE f == SpanAfterGet(cache[s][o], e)
<1>2. cache' = [cache EXCEPT ![s][o] = f]
  BY <1>1 DEF IInv, TypeOK, Cache
<1>3. /\ e \in Entry \cup {None} /\ f \in Entry \cup {None}
      /\ StoreEntryOK(e, db[o])
      /\ Through(e, db[o]) = Through(store[o], db[o])
      /\ \A g \in Entry \cup {None} : PointsTo(g, store[o]) => PointsTo(g, e)
      /\ SpanEntryOK(f, UtxoOf[hash[s]][o], TRUE)
      /\ PointsTo(f, e)
  BY ZenonT(60), <1>a, SpanReadSound
<1> DEFINE I == ins[s] \cup {o}
<1>4. /\ ins' = [ins EXCEPT ![s] = I] /\ o \in ins'[s]
      /\ I \in SUBSET Outpoint /\ ins[s] \ {o} \subseteq I
  BY <1>a DEF IInv, TypeOK
<1>5. SpanEntryOK(f, UtxoOf[hash[s]][o], o \in ins'[s])
  BY Zenon, <1>3, <1>4
<1> HIDE DEF f, I
<1> QED BY Zenon, <1>1, <1>2, <1>3, <1>4, <1>5, <1>a, SpanChange

(* SpendCoin of a span, with the bookkeeping of its callers.                *)
LEMMA SpendCoinIInv ==
  ASSUME IInv, NEW s \in Span, NEW o \in Outpoint, Attached(s), SpendCoin(s, o),
         NEW I \in SUBSET Outpoint, ins' = [ins EXCEPT ![s] = I], ins[s] \ {o} \subseteq I
  PROVE  IInv'
<1>1. PICK e \in IF Asks(cache[s][o], TRUE) THEN StoreAfterGet(o, TRUE) ELSE {store[o]} :
        /\ store' = [store EXCEPT ![o] = e]
        /\ cache' = [cache EXCEPT ![s][o] = SpentEntry(SpanAfterGet(@, e))]
  BY Zenon DEF SpanGet, SpendCoin
<1> DEFINE f == SpanAfterGet(cache[s][o], e)
           g == SpentEntry(f)
<1>2. cache' = [cache EXCEPT ![s][o] = g]
  BY <1>1 DEF IInv, TypeOK, Cache
<1>3. /\ e \in Entry \cup {None} /\ f \in Entry \cup {None}
      /\ StoreEntryOK(e, db[o])
      /\ Through(e, db[o]) = Through(store[o], db[o])
      /\ \A h \in Entry \cup {None} : PointsTo(h, store[o]) => PointsTo(h, e)
      /\ SpanEntryOK(f, UtxoOf[hash[s]][o], TRUE)
  BY Zenon, SpanReadSound
<1>4. /\ g \in Entry \cup {None}
      /\ SpanEntryOK(g, UtxoOf[hash[s]][o], o \in ins'[s])
      /\ PointsTo(g, e)
  BY Zenon, <1>3, SpentSound
<1>5. UNCHANGED <<db, dbBest, hashBlock, mode, hash>>
  BY DEF SpendCoin
<1> HIDE DEF f, g
<1> QED BY Zenon, <1>1, <1>2, <1>3, <1>4, <1>5, SpanChange

(* UpdateCoins adds an output.                                              *)
LEMMA AddOutputIInv ==
  ASSUME IInv, NEW s \in Span, NEW o \in Outpoint, NEW c \in Coin, NEW w \in BOOLEAN,
         AddOutput(s, o, c, w)
  PROVE  IInv'
<1> DEFINE f == cache[s][o]
           g == Added(f, c, w)
           e == store[o]
<1>1. /\ Attached(s) /\ ins[s] = {} /\ (w \/ SpanView(s)[o] = Spent)
      /\ cache' = [cache EXCEPT ![s][o] = g] /\ store' = [store EXCEPT ![o] = e]
      /\ ins' = [ins EXCEPT ![s] = {}]
      /\ UNCHANGED <<db, dbBest, hashBlock, mode, hash>>
  BY DEF AddOutput, IInv, TypeOK, Cache
<1>2. /\ e \in Entry \cup {None} /\ f \in Entry \cup {None}
      /\ StoreEntryOK(e, db[o])
  BY DEF IInv, TypeOK, Cache, StoreOK
<1>3. /\ SpanEntryOK(f, UtxoOf[hash[s]][o], o \in ins[s])
      /\ Through(store[o], db[o]) = UtxoOf[hash[s]][o]
  BY <1>1, AttachedBase
<1>4. SpanEntryOK(f, UtxoOf[hash[s]][o], TRUE)
  BY <1>3 DEF SpanEntryOK
<1>5. ~w => Through(f, UtxoOf[hash[s]][o]) = Spent
  BY <1>1, <1>3 DEF SpanView, StoreView
<1>6. /\ g \in Entry
      /\ SpanEntryOK(g, UtxoOf[hash[s]][o], o \in ins'[s])
      /\ PointsTo(g, e)
  BY Zenon, <1>2, <1>4, <1>5, AddedSound
<1> HIDE DEF f, g, e
<1>7. e = store[o]
  BY DEF e
<1> QED BY Zenon, <1>1, <1>2, <1>6, <1>7, SpanChange

(* UndoCoinSpend: HaveCoin decides whether the coin is an overwrite.        *)
LEMMA UndoInputIInv ==
  ASSUME IInv, NEW s \in Span, NEW o \in Outpoint, NEW c \in Coin, UndoInput(s, o, c)
  PROVE  IInv'
<1>1. PICK e \in IF Asks(cache[s][o], FALSE) THEN StoreAfterGet(o, FALSE) ELSE {store[o]} :
        /\ store' = [store EXCEPT ![o] = e]
        /\ cache' = [cache EXCEPT ![s][o] =
                       Added(SpanAfterGet(@, e), c, Unspent(SpanAfterGet(@, e)))]
  BY Zenon DEF SpanGet, UndoInput
<1> DEFINE f == SpanAfterGet(cache[s][o], e)
           w == Unspent(f)
           g == Added(f, c, w)
<1>2. cache' = [cache EXCEPT ![s][o] = g]
  BY <1>1 DEF IInv, TypeOK, Cache
<1>a. Attached(s) /\ ins[s] = {} /\ UNCHANGED <<db, dbBest, hashBlock, mode, hash, ins>>
  BY DEF UndoInput
<1>3. /\ e \in Entry \cup {None} /\ f \in Entry \cup {None}
      /\ StoreEntryOK(e, db[o])
      /\ Through(e, db[o]) = Through(store[o], db[o])
      /\ \A h \in Entry \cup {None} : PointsTo(h, store[o]) => PointsTo(h, e)
      /\ SpanEntryOK(f, UtxoOf[hash[s]][o], TRUE)
      /\ ~Unspent(f) => Through(cache[s][o], UtxoOf[hash[s]][o]) = Spent
  BY Zenon, <1>a, SpanReadSound
<1>4. ~w => Through(f, UtxoOf[hash[s]][o]) = Spent
  <2>1. CASE f = None
    <3>1. cache[s][o] = None
      BY <2>1 DEF SpanAfterGet
    <3> QED BY <1>3, <2>1, <3>1 DEF Unspent, Through
  <2>2. CASE f # None
    BY <2>2 DEF Unspent, Through
  <2> QED BY <2>1, <2>2
<1>5. w \in BOOLEAN
  BY SMTT(60) DEF Unspent
<1>6. /\ g \in Entry
      /\ SpanEntryOK(g, UtxoOf[hash[s]][o], o \in ins'[s])
      /\ PointsTo(g, e)
  BY Zenon, <1>3, <1>4, <1>5, AddedSound
<1>7. ins' = [ins EXCEPT ![s] = {}]
  BY <1>a DEF IInv, TypeOK
<1> HIDE DEF f, g, w
<1> QED BY Zenon, <1>1, <1>2, <1>3, <1>6, <1>7, <1>a, SpanChange

(* The actions that a reader of the coins database takes.                   *)
LEMMA ViewGetCoinIInv ==
  ASSUME IInv, NEW o \in Outpoint, NEW n \in BOOLEAN, ViewGetCoin(o, n)
  PROVE  IInv'
<1>1. PICK e \in StoreAfterGet(o, n) : store' = [store EXCEPT ![o] = e]
  BY Zenon DEF ViewGetCoin
<1>2. UNCHANGED <<db, dbBest, hashBlock, mode, hash, cache, ins>>
  BY DEF ViewGetCoin
<1>3. /\ e \in Entry \cup {None}
      /\ StoreEntryOK(e, db[o])
      /\ Through(e, db[o]) = Through(store[o], db[o])
      /\ \A f \in Entry \cup {None} : PointsTo(f, store[o]) => PointsTo(f, e)
  BY StoreReadSound
<1>4. TypeOK'
  BY <1>1, <1>2, <1>3 DEF IInv, TypeOK, Cache
<1>5. StoreOK'
  <2>1. GetBestBlock' = GetBestBlock
    BY <1>2 DEF GetBestBlock
  <2>2. ASSUME NEW p \in Outpoint
        PROVE  /\ StoreEntryOK(store'[p], db[p])
               /\ Through(store'[p], db[p]) = UtxoOf[GetBestBlock][p]
    BY <1>1, <1>3 DEF IInv, TypeOK, Cache, StoreOK
  <2> QED BY <1>2, <2>1, <2>2 DEF IInv, StoreOK
<1>6. ASSUME NEW r \in Span PROVE SpanOK(r)'
  <2>1. SpanOK(r) /\ cache[r] \in Cache
    BY SMTT(60) DEF IInv, TypeOK
  <2>2. ASSUME NEW p \in Outpoint, mode[r] = "attached"
        PROVE  PointsTo(cache[r][p], store'[p])
    BY <1>1, <1>3, <2>1, <2>2 DEF IInv, TypeOK, Cache, SpanOK
  <2> QED BY <1>2, <2>1, <2>2 DEF SpanOK
<1> QED BY <1>4, <1>5, <1>6 DEF IInv

(* Opening, detaching, re-attaching and destroying a span.  A detached span *)
(* holds no clean entry, hence nothing that points into the store.          *)
LEMMA ModeStepIInv ==
  ASSUME IInv, NEW s \in Span,
         Open(s) \/ ForceDetach(s) \/ TryReattach(s) \/ Destroy(s)
  PROVE  IInv'
<1>1. GetBestBlock \in Block /\ GetBestBlock # Null
  BY CoinsAssumption DEF GetBestBlock, IInv, TypeOK
<1>2. UNCHANGED <<db, dbBest, store>> /\ hashBlock' \in {hashBlock, GetBestBlock}
  BY DEF Open, ForceDetach, TryReattach, Destroy
<1>3. GetBestBlock' = GetBestBlock
  BY <1>1, <1>2 DEF GetBestBlock
<1>4. StoreOK'
  BY <1>2, <1>3 DEF IInv, StoreOK
<1>5. TypeOK'
  <2>1. Empty \in Cache
    BY DEF Empty, Cache
  <2>2. CASE Open(s)
    BY <1>1, <1>2, <2>2 DEF IInv, TypeOK, Open, Mode
  <2>3. CASE ForceDetach(s)
    BY <2>3 DEF IInv, TypeOK, ForceDetach, Attached, Mode
  <2>4. CASE TryReattach(s) /\ GetBestBlock = hash[s]
    BY <1>1, <1>2, <2>4 DEF IInv, TypeOK, TryReattach, Mode
  <2>5. CASE Destroy(s) \/ (TryReattach(s) /\ GetBestBlock # hash[s])
    BY <1>1, <1>2, <2>1, <2>5 DEF IInv, TypeOK, TryReattach, Destroy, Close, Mode
  <2> QED BY <2>2, <2>3, <2>4, <2>5
<1>6. ASSUME NEW r \in Span, mode[r] = "attached" PROVE hashBlock' = hashBlock
  <2>1. hash[r] = hashBlock /\ hash[r] \in Block
    BY <1>6 DEF IInv, TypeOK, SpanOK
  <2> QED BY SMTT(60), <2>1, <1>2, CoinsAssumption DEF GetBestBlock
<1>7. ASSUME NEW r \in Span PROVE SpanOK(r)'
  <2>1. SpanOK(r) /\ cache[r] \in Cache
    BY DEF IInv, TypeOK
  <2>2. CASE r # s
    <3>1. mode'[r] = mode[r] /\ hash'[r] = hash[r] /\ cache'[r] = cache[r] /\ ins'[r] = ins[r]
      BY SMTT(60), <2>2 DEF IInv, TypeOK, Open, ForceDetach, TryReattach, Destroy, Close
    <3> QED BY <1>2, <1>6, <2>1, <3>1 DEF SpanOK
  <2>3. CASE r = s /\ Open(s)
    <3>1. /\ mode'[s] = "attached" /\ hash'[s] = GetBestBlock /\ hashBlock' = GetBestBlock
          /\ cache'[s] = cache[s] /\ ins'[s] = ins[s] /\ mode[s] = "free"
      BY SMTT(60), <2>3 DEF IInv, TypeOK, Open
    <3>2. \A o \in Outpoint : cache[s][o] = None
      BY ZenonT(60), <2>1, <2>3, <3>1 DEF SpanOK, Empty
    <3> QED BY <2>3, <3>1, <3>2 DEF SpanOK, SpanEntryOK, PointsTo
  <2>4. CASE r = s /\ ForceDetach(s)
    <3>1. /\ mode'[s] = "detached" /\ hash'[s] = hash[s] /\ mode[s] = "attached"
          /\ cache'[s] = cache[s] /\ ins'[s] = ins[s] /\ ins[s] = {}
      BY SMTT(60), <2>4 DEF IInv, TypeOK, ForceDetach, Complete, Attached
    <3> QED BY Zenon, <2>1, <2>4, <3>1 DEF SpanOK
  <2>5. CASE r = s /\ (Destroy(s) \/ (TryReattach(s) /\ GetBestBlock # hash[s]))
    <3>1. mode'[s] = "free" /\ hash'[s] = Null /\ cache'[s] = Empty /\ ins'[s] = {}
      BY SMTT(60), <2>5 DEF IInv, TypeOK, Destroy, TryReattach, Close
    <3> QED BY <2>5, <3>1 DEF SpanOK
  <2>6. CASE r = s /\ TryReattach(s) /\ GetBestBlock = hash[s]
    <3>1. /\ mode'[s] = "attached" /\ hash'[s] = hash[s] /\ mode[s] = "detached"
          /\ cache'[s] = cache[s] /\ ins'[s] = ins[s] /\ hashBlock' = hash[s]
      BY SMTT(60), <2>6 DEF IInv, TypeOK, TryReattach
    <3>2. ASSUME NEW o \in Outpoint
          PROVE  /\ SpanEntryOK(cache[s][o], UtxoOf[hash[s]][o], o \in ins[s])
                 /\ PointsTo(cache[s][o], store'[o])
      <4>1. SpanEntryOK(cache[s][o], UtxoOf[hash[s]][o], o \in ins[s]) /\ ins[s] = {}
        BY <2>1, <2>6, <3>1 DEF SpanOK
      <4>2. cache[s][o] # None => cache[s][o].own
        BY <4>1 DEF SpanEntryOK
      <4> QED BY <4>1, <4>2 DEF PointsTo
    <3> QED BY <2>6, <3>1, <3>2 DEF SpanOK
  <2> QED BY <2>2, <2>3, <2>4, <2>5, <2>6
<1> QED BY <1>4, <1>5, <1>7 DEF IInv

(* TryFlush: entry by entry MergeSound.  No other span is attached, so no   *)
(* pointer into the store is disturbed.                                     *)
LEMMA TryFlushIInv ==
  ASSUME IInv, NEW s \in Span, NEW b \in Block, TryFlush(s, b)
  PROVE  IInv'
<1>1. /\ Attached(s) /\ \A r \in Span \ {s} : ~Attached(r)
      /\ ins[s] = {} /\ SpanView(s) = UtxoOf[b]
      /\ store' = [o \in Outpoint |-> Merged(cache[s][o], store[o])]
      /\ hashBlock' = b /\ hash' = [hash EXCEPT ![s] = b]
      /\ cache' = [cache EXCEPT ![s] = Empty]
      /\ UNCHANGED <<db, dbBest, mode, ins>>
  BY SMTT(60) DEF TryFlush, Complete
<1>2. ASSUME NEW o \in Outpoint
      PROVE  /\ store'[o] \in Entry \cup {None}
             /\ StoreEntryOK(store'[o], db[o])
             /\ Through(store'[o], db[o]) = UtxoOf[b][o]
  <2>1. /\ store[o] \in Entry \cup {None} /\ cache[s][o] \in Entry \cup {None}
        /\ db[o] \in Coin \cup {Spent} /\ StoreEntryOK(store[o], db[o])
    BY SMTT(60) DEF IInv, TypeOK, Cache, Map, StoreOK
  <2>2. SpanEntryOK(cache[s][o], Through(store[o], db[o]), o \in ins[s])
    BY SMTT(60), <1>1, AttachedBase
  <2>3. SpanEntryOK(cache[s][o], Through(store[o], db[o]), TRUE)
    BY <2>2 DEF SpanEntryOK
  <2>4. store'[o] = Merged(cache[s][o], store[o])
    BY SMTT(60), <1>1
  <2>6. /\ Through(store'[o], db[o]) = Through(cache[s][o], Through(store[o], db[o]))
        /\ StoreEntryOK(store'[o], db[o])
    BY ZenonT(60), <2>1, <2>3, <2>4, MergeSound
  <2>7. SpanView(s)[o] = Through(cache[s][o], Through(store[o], db[o]))
    BY DEF SpanView, StoreView
  <2>8. store'[o] \in Entry \cup {None}
    BY <2>1, <2>4, EntryTypes
  <2> QED BY SMTT(60), <1>1, <2>6, <2>7, <2>8
<1>3. GetBestBlock' = b
  BY <1>1, CoinsAssumption DEF GetBestBlock
<1>4. StoreOK'
  BY <1>1, <1>2, <1>3 DEF IInv, StoreOK
<1>5. TypeOK'
  <2>1. Empty \in Cache
    BY DEF Empty, Cache
  <2>2. store' \in Cache
    BY <1>1, <1>2 DEF Cache
  <2> QED BY <1>1, <2>1, <2>2 DEF IInv, TypeOK
<1>6. ASSUME NEW r \in Span PROVE SpanOK(r)'
  <2>1. SpanOK(r)
    BY DEF IInv
  <2>2. CASE r # s
    <3>1. /\ mode'[r] = mode[r] /\ hash'[r] = hash[r] /\ cache'[r] = cache[r]
          /\ ins'[r] = ins[r] /\ mode[r] # "attached"
      BY SMTT(60), <1>1, <2>2 DEF IInv, TypeOK, Attached
    <3> QED BY Zenon, <2>1, <3>1 DEF SpanOK
  <2>3. CASE r = s
    <3>1. /\ mode'[s] = "attached" /\ hash'[s] = b /\ ins'[s] = {}
          /\ \A o \in Outpoint : cache'[s][o] = None
      BY <1>1 DEF IInv, TypeOK, Attached, Empty
    <3> QED BY <1>1, <2>3, <3>1 DEF SpanOK, SpanEntryOK, PointsTo
  <2> QED BY <2>2, <2>3
<1> QED BY SMTT(60), <1>4, <1>5, <1>6 DEF IInv

(* Flush, Uncache and a restart.  The write lock keeps attached spans out.  *)
LEMMA OwnerStepIInv ==
  ASSUME IInv, Flush \/ (\E o \in Outpoint : Uncache(o)) \/ Restart
  PROVE  IInv'
<1>1. CASE Flush
  <2>1. /\ NoReader /\ hashBlock # Null
        /\ db' = [o \in Outpoint |-> IF Dirty(store[o]) THEN store[o].coin ELSE db[o]]
        /\ dbBest' = hashBlock /\ store' = Empty
        /\ UNCHANGED <<hashBlock, mode, hash, cache, ins>>
    BY <1>1 DEF Flush
  <2>2. GetBestBlock = hashBlock /\ GetBestBlock' = hashBlock /\ hashBlock \in Block
    BY SMTT(60), <2>1 DEF GetBestBlock, IInv, TypeOK
  <2>3. ASSUME NEW o \in Outpoint
        PROVE  /\ db'[o] = UtxoOf[hashBlock][o]
               /\ store'[o] = None
    <3>1. /\ store[o] \in Entry \cup {None} /\ StoreEntryOK(store[o], db[o])
          /\ Through(store[o], db[o]) = UtxoOf[hashBlock][o]
      BY <2>2 DEF IInv, TypeOK, Cache, StoreOK
    <3>2. db'[o] = IF Dirty(store[o]) THEN store[o].coin ELSE db[o]
      BY <2>1
    <3> QED BY <2>1, <3>1, <3>2 DEF Dirty, Through, StoreEntryOK, Empty
  <2>4. db' = UtxoOf[hashBlock]
    <3>1. UtxoOf[hashBlock] \in Map
      BY <2>2, CoinsAssumption
    <3> QED BY <2>1, <2>3, <3>1 DEF Map
  <2>5. StoreOK'
    BY <2>1, <2>2, <2>3, <2>4 DEF StoreOK, StoreEntryOK, Through
  <2>6. TypeOK'
    <3>1. Empty \in Cache
      BY DEF Empty, Cache
    <3>2. db' \in Map
      BY SMTT(60), <2>2, <2>4, CoinsAssumption
    <3> QED BY <2>1, <2>2, <3>1, <3>2 DEF IInv, TypeOK
  <2>7. ASSUME NEW r \in Span PROVE SpanOK(r)'
    BY <2>1 DEF IInv, SpanOK, NoReader, Attached
  <2> QED BY <2>5, <2>6, <2>7 DEF IInv
<1>2. ASSUME NEW o \in Outpoint, Uncache(o) PROVE IInv'
  <2>1. /\ NoReader /\ store[o] # None /\ ~store[o].dirty
        /\ store' = [store EXCEPT ![o] = None]
        /\ UNCHANGED <<db, dbBest, hashBlock, mode, hash, cache, ins>>
    BY <1>2 DEF Uncache
  <2>2. GetBestBlock' = GetBestBlock
    BY SMTT(60), <2>1 DEF GetBestBlock
  <2>3. ASSUME NEW p \in Outpoint
        PROVE  /\ StoreEntryOK(store'[p], db[p])
               /\ Through(store'[p], db[p]) = UtxoOf[GetBestBlock][p]
    BY <2>1 DEF IInv, TypeOK, Cache, StoreOK, StoreEntryOK, Through
  <2>4. StoreOK'
    BY <2>1, <2>2, <2>3 DEF IInv, StoreOK
  <2>5. TypeOK'
    BY SMTT(60), <2>1 DEF IInv, TypeOK, Cache
  <2>6. ASSUME NEW r \in Span PROVE SpanOK(r)'
    BY <2>1 DEF IInv, SpanOK, NoReader, Attached
  <2> QED BY <2>4, <2>5, <2>6 DEF IInv
<1>3. CASE Restart
  <2>1. Empty \in Cache /\ \A o \in Outpoint : Empty[o] = None
    BY DEF Empty, Cache
  <2>2. GetBestBlock' = dbBest
    BY <1>3 DEF Restart, GetBestBlock
  <2>3. TypeOK'
    BY SMTT(60), <1>3, <2>1 DEF IInv, TypeOK, Restart, Mode
  <2>4. StoreOK'
    BY Zenon, <1>3, <2>1, <2>2 DEF IInv, StoreOK, Restart, StoreEntryOK, Through
  <2>5. ASSUME NEW r \in Span PROVE SpanOK(r)'
    BY <1>3 DEF Restart, SpanOK
  <2> QED BY <2>3, <2>4, <2>5 DEF IInv
<1> QED BY <1>1, <1>2, <1>3

(* The initial states satisfy the invariant.                                *)
LEMMA InitIInv ==
  Init => IInv
<1> SUFFICES ASSUME Init PROVE IInv
  OBVIOUS
<1>1. Empty \in Cache /\ \A o \in Outpoint : Empty[o] = None
  BY DEF Empty, Cache
<1>2. TypeOK
  BY SMTT(60), <1>1, CoinsAssumption DEF Init, TypeOK, Mode
<1>3. StoreOK
  BY <1>1 DEF Init, StoreOK, StoreEntryOK, Through, GetBestBlock
<1>4. ASSUME NEW s \in Span PROVE SpanOK(s)
  BY DEF Init, SpanOK
<1> QED BY <1>2, <1>3, <1>4 DEF IInv

(* Every step preserves the invariant.                                      *)
LEMMA NextIInv ==
  IInv /\ [Next]_vars => IInv'
<1> SUFFICES ASSUME IInv, [Next]_vars PROVE IInv'
  OBVIOUS
<1>1. ASSUME NEW s \in Span, SpanStep(s) PROVE IInv'
  <2>1. CASE Open(s) \/ ForceDetach(s) \/ TryReattach(s) \/ Destroy(s)
    BY <2>1, ModeStepIInv
  <2>2. ASSUME NEW o \in Outpoint, NEW n \in BOOLEAN, HaveInput(s, o, n) PROVE IInv'
    BY <2>2, HaveInputIInv
  <2>3. ASSUME NEW o \in Outpoint, SpendInput(s, o) PROVE IInv'
    <3> DEFINE I == ins[s] \ {o}
    <3>1. /\ Attached(s) /\ SpendCoin(s, o) /\ I \in SUBSET Outpoint
          /\ ins' = [ins EXCEPT ![s] = I] /\ ins[s] \ {o} \subseteq I
      BY <2>3 DEF SpendInput, IInv, TypeOK
    <3> HIDE DEF I
    <3> QED BY Zenon, <3>1, SpendCoinIInv
  <2>4. ASSUME NEW o \in Outpoint, NEW c \in Coin, NEW w \in BOOLEAN, AddOutput(s, o, c, w)
        PROVE  IInv'
    BY <2>4, AddOutputIInv
  <2>5. ASSUME NEW o \in Outpoint, UndoOutput(s, o) PROVE IInv'
    <3> DEFINE I == ins[s]
    <3>1. /\ Attached(s) /\ SpendCoin(s, o) /\ I \in SUBSET Outpoint
          /\ ins' = [ins EXCEPT ![s] = I] /\ ins[s] \ {o} \subseteq I
      BY <2>5 DEF UndoOutput, IInv, TypeOK
    <3> HIDE DEF I
    <3> QED BY Zenon, <3>1, SpendCoinIInv
  <2>6. ASSUME NEW o \in Outpoint, NEW c \in Coin, UndoInput(s, o, c) PROVE IInv'
    BY <2>6, UndoInputIInv
  <2>7. ASSUME NEW b \in Block, TryFlush(s, b) PROVE IInv'
    BY <2>7, TryFlushIInv
  <2> QED BY <1>1, <2>1, <2>2, <2>3, <2>4, <2>5, <2>6, <2>7 DEF SpanStep
<1>2. ASSUME NEW o \in Outpoint, NEW n \in BOOLEAN, ViewGetCoin(o, n) PROVE IInv'
  BY <1>2, ViewGetCoinIInv
<1>3. CASE Flush \/ (\E o \in Outpoint : Uncache(o)) \/ Restart
  BY <1>3, OwnerStepIInv
<1>4. CASE UNCHANGED vars
  <2>1. GetBestBlock' = GetBestBlock
    BY SMTT(60), <1>4 DEF vars, GetBestBlock
  <2>2. TypeOK' /\ StoreOK'
    BY SMTT(60), <1>4, <2>1 DEF vars, IInv, TypeOK, StoreOK
  <2>3. ASSUME NEW s \in Span PROVE SpanOK(s)'
    BY <1>4 DEF vars, IInv, SpanOK
  <2> QED BY <2>2, <2>3 DEF IInv
<1> QED BY <1>1, <1>2, <1>3, <1>4 DEF Next

(* IInv holds in every reachable state.                                     *)
THEOREM Inductive == Spec => []IInv
  BY InitIInv, NextIInv, PTL DEF Spec

-----------------------------------------------------------------------------
(* What follows.                                                            *)

(* The caches keep their types.                                             *)
THEOREM TypeCorrect == Spec => []TypeOK
<1>1. IInv => TypeOK
  BY DEF IInv
<1> QED BY <1>1, Inductive, PTL

(* The coins database is always exactly the unspent coins of its best       *)
(* block, whatever is committed, flushed, evicted, abandoned or restarted.  *)
THEOREM StoreCorrect == Spec => []StoreIsBest
<1>1. ASSUME IInv PROVE StoreIsBest
  <2>1. GetBestBlock \in Block
    BY <1>1 DEF IInv, TypeOK, GetBestBlock
  <2>2. UtxoOf[GetBestBlock] \in Map
    BY <2>1, CoinsAssumption
  <2>3. \A o \in Outpoint : StoreView[o] = UtxoOf[GetBestBlock][o]
    BY <1>1 DEF IInv, StoreOK, StoreView
  <2>4. StoreView = UtxoOf[GetBestBlock]
    BY <2>2, <2>3 DEF StoreView, Map
  <2> QED BY <1>1, <2>4 DEF StoreIsBest, IInv, StoreOK
<1> QED BY <1>1, Inductive, PTL

(* FRESH is never misapplied, so BatchWrite never throws its logic_error    *)
(* and SpendCoin never erases an entry that is still needed.                *)
THEOREM FreshCorrect == Spec => []FreshSound
<1>1. ASSUME IInv PROVE FreshSound
  <2>1. ASSUME NEW o \in Outpoint, Fresh(store[o]) PROVE db[o] = Spent
    BY SMTT(60), <1>1, <2>1 DEF IInv, StoreOK, StoreEntryOK, Fresh
  <2>2. ASSUME NEW o \in Outpoint, NEW s \in Span, Fresh(cache[s][o])
        PROVE  UtxoOf[hash[s]][o] = Spent
    <3>1. CASE mode[s] = "free"
      BY SMTT(60), <1>1, <2>2, <3>1 DEF IInv, SpanOK, Empty, Fresh
    <3>2. CASE mode[s] # "free"
      BY <1>1, <2>2, <3>2 DEF IInv, SpanOK, SpanEntryOK, Fresh
    <3> QED BY SMTT(60), <3>1, <3>2
  <2> QED BY SMTT(60), <2>1, <2>2 DEF FreshSound
<1> QED BY <1>1, Inductive, PTL

(* No entry of a usable span dangles, and what is written has its script.   *)
THEOREM PointersCorrect == Spec => [](NoDangling /\ DirtyHasScript)
<1>1. ASSUME IInv PROVE NoDangling
  <2>1. ASSUME NEW s \in Span, NEW o \in Outpoint, Attached(s), cache[s][o] # None, ~cache[s][o].own
        PROVE  Unspent(store[o]) /\ store[o].script /\ store[o].coin = cache[s][o].coin
    <3>1. SpanEntryOK(cache[s][o], UtxoOf[hash[s]][o], o \in ins[s]) /\ PointsTo(cache[s][o], store[o])
      BY SMTT(60), <1>1, <2>1, AttachedBase
    <3> QED BY SMTT(60), <2>1, <3>1 DEF SpanEntryOK, PointsTo, Unspent
  <2> QED BY SMTT(60), <2>1 DEF NoDangling
<1>2. ASSUME IInv PROVE DirtyHasScript
  <2>1. ASSUME NEW o \in Outpoint, Dirty(store[o]) PROVE store[o].script /\ store[o].own
    BY <1>2, <2>1 DEF IInv, StoreOK, StoreEntryOK, Dirty
  <2>2. ASSUME NEW o \in Outpoint, NEW s \in Span, Dirty(cache[s][o])
        PROVE  cache[s][o].script /\ cache[s][o].own
    <3>1. CASE mode[s] = "free"
      BY SMTT(60), <1>2, <2>2, <3>1 DEF IInv, SpanOK, Empty, Dirty
    <3>2. CASE mode[s] # "free"
      BY <1>2, <2>2, <3>2 DEF IInv, SpanOK, SpanEntryOK, Dirty
    <3> QED BY SMTT(60), <3>1, <3>2
  <2> QED BY <2>1, <2>2 DEF DirtyHasScript
<1> QED BY <1>1, <1>2, Inductive, PTL

(* Nobody changes the coins under an attached span.                         *)
LEMMA IInvStable ==
  ASSUME IInv, NEW s \in Span, Attached(s)
  PROVE  SpanView(s) = WorkView(s) /\ StoreView = UtxoOf[hash[s]]
<1>1. \A o \in Outpoint : StoreView[o] = UtxoOf[hash[s]][o]
  BY AttachedBase DEF StoreView
<1>2. hash[s] \in Block /\ UtxoOf[hash[s]] \in Map
  BY SMTT(60), CoinsAssumption DEF IInv, TypeOK, Attached
<1>3. StoreView = UtxoOf[hash[s]]
  BY <1>1, <1>2 DEF StoreView, Map
<1> QED BY SMTT(60), <1>3 DEF SpanView, WorkView

(* An attached span sees its own changes on top of its base block.          *)
THEOREM SpanCorrect == Spec => []SpanStable
<1>1. IInv => SpanStable
  BY IInvStable DEF SpanStable
<1> QED BY <1>1, Inductive, PTL

-----------------------------------------------------------------------------
(* CoinsCache implements UTXOSet.                                           *)

(* The refined variables are well defined: the store shows the set of the   *)
(* best block, and every live span shows some coin or Spent per outpoint.   *)
Views ==
  /\ db \in Map
  /\ StoreView = UtxoOf[GetBestBlock] /\ StoreView \in Map
  /\ GetBestBlock \in Block
  /\ \A s \in Span : mode[s] # "free" => UtxoOf[hash[s]] \in Map /\ WorkView(s) \in Map

(* IInv makes the refined variables well defined.                           *)
LEMMA Refined == IInv => Views
<1> SUFFICES ASSUME IInv PROVE Views
  OBVIOUS
<1>1. GetBestBlock \in Block
  BY DEF IInv, TypeOK, GetBestBlock
<1>2. UtxoOf[GetBestBlock] \in Map
  BY SMTT(60), <1>1, CoinsAssumption
<1>3. \A o \in Outpoint : StoreView[o] = UtxoOf[GetBestBlock][o]
  BY SMTT(60) DEF IInv, StoreOK, StoreView
<1>4. StoreView = UtxoOf[GetBestBlock]
  BY <1>2, <1>3 DEF StoreView, Map
<1>5. ASSUME NEW s \in Span, mode[s] # "free"
      PROVE  UtxoOf[hash[s]] \in Map /\ WorkView(s) \in Map
  <2>1. hash[s] \in Block /\ UtxoOf[hash[s]] \in Map
    BY <1>5, CoinsAssumption DEF IInv, TypeOK
  <2>2. ASSUME NEW o \in Outpoint PROVE WorkView(s)[o] \in Coin \cup {Spent}
    <3>1. cache[s][o] \in Entry \cup {None} /\ UtxoOf[hash[s]][o] \in Coin \cup {Spent}
      BY <2>1 DEF IInv, TypeOK, Cache, Map
    <3> QED BY SMTT(60), <3>1, EntryFacts DEF WorkView, Through
  <2> QED BY <2>1, <2>2 DEF WorkView, Map
<1> QED BY <1>1, <1>2, <1>4, <1>5 DEF IInv, TypeOK, Views

(* A step that touches only the entries of one attached span is a Change.   *)
LEMMA ChangeRefines ==
  ASSUME IInv, IInv', NEW s \in Span, Attached(s),
         UNCHANGED <<db, dbBest, hashBlock, mode, hash>>,
         \A r \in Span \ {s} : cache'[r] = cache[r]
  PROVE  Map0!Change(s)
<1>0. Views /\ Views'
  BY Refined, PTL
<1>1. GetBestBlock' = GetBestBlock
  BY DEF GetBestBlock
<1>2. StoreView' = StoreView
  BY <1>0, <1>1 DEF Views
<1>3. mode[s] # "free"
  BY DEF Attached
<1>4. WorkView(s) \in Map
  BY <1>0, <1>3 DEF Views
<1>5. (WorkView(s) \in Map)'
  BY <1>0, <1>3 DEF Views
<1>6. Base' = Base
  BY DEF Base
<1>7. ASSUME NEW r \in Span PROVE Work'[r] = [Work EXCEPT ![s] = WorkView(s)'][r]
  <2>1. CASE r = s
    BY SMTT(60), <1>3, <2>1 DEF Work
  <2>2. CASE r # s
    <3>1. WorkView(r)' = WorkView(r)
      BY <2>2 DEF WorkView
    <3> QED BY <2>2, <3>1 DEF Work
  <2> QED BY <2>1, <2>2
<1>8. Work' = [Work EXCEPT ![s] = WorkView(s)']
  BY ZenonT(60), <1>7 DEF Work
<1>9. Work[s] # None
  BY <1>3, <1>4, CoinsAssumption DEF Work
<1>10. Work'[s] = WorkView(s)'
  BY <1>3 DEF Work
<1> QED BY Zenon, <1>2, <1>5, <1>6, <1>8, <1>9, <1>10 DEF Map0!Change, Map0!Map, Map

(* A span that is closed discards its working copy.                         *)
LEMMA CloseRefines ==
  ASSUME IInv, IInv', NEW s \in Span, mode[s] # "free", Close(s),
         UNCHANGED <<db, dbBest, store>>, GetBestBlock' = GetBestBlock
  PROVE  Map0!Discard(s)
<1>1. StoreView' = StoreView
  BY DEF StoreView
<1>2. Work[s] # None
  BY Refined, CoinsAssumption DEF Work, Views
<1>3. ASSUME NEW r \in Span
      PROVE  /\ Work'[r] = [Work EXCEPT ![s] = None][r]
             /\ Base'[r] = [Base EXCEPT ![s] = None][r]
  <2>1. CASE r = s
    BY SMTT(60), <2>1 DEF Work, Base, Close, IInv, TypeOK
  <2>2. CASE r # s
    <3>1. mode'[r] = mode[r] /\ hash'[r] = hash[r] /\ cache'[r] = cache[r]
      BY SMTT(60), <2>2 DEF Close, IInv, TypeOK
    <3>2. WorkView(r)' = WorkView(r)
      BY SMTT(60), <3>1 DEF WorkView
    <3> QED BY SMTT(60), <2>2, <3>1, <3>2 DEF Work, Base
  <2> QED BY <2>1, <2>2
<1>4. Work' = [Work EXCEPT ![s] = None] /\ Base' = [Base EXCEPT ![s] = None]
  BY ZenonT(60), <1>3 DEF Work, Base
<1> QED BY <1>1, <1>2, <1>4 DEF Map0!Discard

(* A step that leaves the best block, the spans and leveldb alone stutters. *)
LEMMA StutterRefines ==
  ASSUME IInv, IInv', UNCHANGED <<db, hash, cache>>, GetBestBlock' = GetBestBlock,
         \A s \in Span : (mode'[s] = "free") <=> (mode[s] = "free")
  PROVE  UNCHANGED Map0!vars
<1>0. Views /\ Views'
  BY Refined, PTL
<1>1. StoreView' = StoreView
  BY <1>0 DEF Views
<1>2. \A s \in Span : WorkView(s)' = WorkView(s)
  BY DEF WorkView
<1>3. Work' = Work /\ Base' = Base
  BY <1>2 DEF Work, Base
<1> QED BY <1>1, <1>3 DEF Map0!vars

(* A new span starts from the current set.                                  *)
LEMMA OpenRefines ==
  ASSUME IInv, NEW s \in Span, Open(s) PROVE Map0!Open(s)
<1>0. Views
  BY Refined
<1>a. /\ mode[s] = "free" /\ mode' = [mode EXCEPT ![s] = "attached"]
      /\ hash' = [hash EXCEPT ![s] = GetBestBlock]
      /\ db' = db /\ store' = store /\ cache' = cache
  BY DEF Open
<1>1. StoreView' = StoreView
  BY <1>a DEF StoreView
<1>2. hash'[s] = GetBestBlock /\ mode'[s] = "attached"
  BY SMTT(60), <1>a DEF IInv, TypeOK
<1>3. cache[s] = Empty
  BY SMTT(60), <1>a DEF IInv, SpanOK
<1>4. WorkView(s)' = StoreView
  <2>1. \A o \in Outpoint : WorkView(s)'[o] = StoreView[o]
    BY <1>0, <1>a, <1>2, <1>3 DEF WorkView, Through, Empty, Views
  <2> QED BY SMTT(60), <1>0, <2>1 DEF WorkView, Views, Map
<1>5. ASSUME NEW r \in Span
      PROVE  /\ Work'[r] = [Work EXCEPT ![s] = StoreView][r]
             /\ Base'[r] = [Base EXCEPT ![s] = StoreView][r]
  <2>1. CASE r = s
    BY SMTT(60), <1>0, <1>2, <1>4, <2>1 DEF Work, Base, Views
  <2>2. CASE r # s
    <3>1. mode'[r] = mode[r] /\ hash'[r] = hash[r] /\ cache'[r] = cache[r]
      BY <1>a, <2>2 DEF IInv, TypeOK
    <3>2. WorkView(r)' = WorkView(r)
      BY SMTT(60), <3>1 DEF WorkView
    <3> QED BY <2>2, <3>1, <3>2 DEF Work, Base
  <2> QED BY <2>1, <2>2
<1>6. Work' = [Work EXCEPT ![s] = StoreView] /\ Base' = [Base EXCEPT ![s] = StoreView]
  BY Zenon, <1>5 DEF Work, Base
<1>7. Work[s] = None
  BY <1>a DEF Work
<1> QED BY <1>a, <1>1, <1>6, <1>7 DEF Map0!Open

(* TryFlush commits: the set the span started from is still the current one *)
(* and is replaced by the span's working copy as a whole.                   *)
LEMMA TryFlushRefines ==
  ASSUME IInv, IInv', NEW s \in Span, NEW b \in Block, TryFlush(s, b) PROVE Map0!Commit(s)
<1>0. Views /\ Views'
  BY Refined, PTL
<1>a. /\ Attached(s) /\ Complete(s, b) /\ hashBlock' = b
      /\ hash' = [hash EXCEPT ![s] = b]
      /\ cache' = [cache EXCEPT ![s] = Empty]
      /\ db' = db /\ mode' = mode
  BY DEF TryFlush
<1>1. SpanView(s) = WorkView(s) /\ StoreView = UtxoOf[hash[s]]
  BY <1>a, IInvStable
<1>2. WorkView(s) = UtxoOf[b]
  BY <1>a, <1>1 DEF Complete
<1>3. StoreView' = UtxoOf[b]
  <2>1. GetBestBlock' = b
    BY <1>a, CoinsAssumption DEF GetBestBlock
  <2> QED BY <1>0, <2>1 DEF Views
<1>4. mode[s] # "free"
  BY SMTT(60), <1>a DEF Attached
<1>5. hash'[s] = b /\ cache'[s] = Empty
  BY <1>a DEF IInv, TypeOK
<1>6. WorkView(s)' = UtxoOf[b]
  <2>1. UtxoOf[b] \in Map
    BY CoinsAssumption
  <2>2. \A o \in Outpoint : WorkView(s)'[o] = UtxoOf[b][o]
    BY SMTT(60), <1>5 DEF WorkView, Through, Empty
  <2> QED BY <2>1, <2>2 DEF WorkView, Map
<1>7. ASSUME NEW r \in Span
      PROVE  Work'[r] = Work[r] /\ Base'[r] = [Base EXCEPT ![s] = WorkView(s)][r]
  <2>1. CASE r = s
    BY SMTT(60), <1>a, <1>2, <1>4, <1>5, <1>6, <2>1 DEF Work, Base
  <2>2. CASE r # s
    <3>1. mode'[r] = mode[r] /\ hash'[r] = hash[r] /\ cache'[r] = cache[r]
      BY <1>a, <2>2 DEF IInv, TypeOK
    <3>2. WorkView(r)' = WorkView(r)
      BY SMTT(60), <3>1 DEF WorkView
    <3> QED BY SMTT(60), <2>2, <3>1, <3>2 DEF Work, Base
  <2> QED BY <2>1, <2>2
<1>8. Work' = Work /\ Base' = [Base EXCEPT ![s] = WorkView(s)]
  BY Zenon, <1>7 DEF Work, Base
<1>9. Work[s] = WorkView(s) /\ Work[s] # None /\ Base[s] = StoreView
  BY <1>0, <1>1, <1>4, CoinsAssumption DEF Work, Base, Views
<1> QED BY <1>a, <1>2, <1>3, <1>8, <1>9 DEF Map0!Commit

(* GetCoin on a span, followed by any change of the entry it left, touches  *)
(* no entry of another span.                                                *)
LEMMA GetTouchesOne ==
  ASSUME IInv, NEW s \in Span, NEW o \in Outpoint, NEW n \in BOOLEAN, NEW New(_),
         SpanGet(s, o, n, New)
  PROVE  \A r \in Span \ {s} : cache'[r] = cache[r]
<1>1. PICK e : cache' = [cache EXCEPT ![s][o] = New(SpanAfterGet(cache[s][o], e))]
  BY Zenon DEF SpanGet, IInv, TypeOK
<1> QED BY <1>1 DEF IInv, TypeOK

(* Every step of a span is a step of the plain map, or a stutter.           *)
LEMMA SpanStepRefines ==
  ASSUME IInv, IInv', NEW s \in Span, SpanStep(s)
  PROVE  Map0!Open(s) \/ Map0!Change(s) \/ Map0!Commit(s) \/ Map0!Discard(s)
         \/ UNCHANGED Map0!vars
<1>1. CASE Open(s)
  BY <1>1, OpenRefines
<1>2. ASSUME NEW o \in Outpoint, NEW n \in BOOLEAN, HaveInput(s, o, n) PROVE Map0!Change(s)
  <2>1. Attached(s) /\ SpanGet(s, o, n, Same) /\ UNCHANGED <<db, dbBest, hashBlock, mode, hash>>
    BY <1>2 DEF HaveInput
  <2>2. \A r \in Span \ {s} : cache'[r] = cache[r]
    BY SMTT(60), <2>1, GetTouchesOne
  <2> QED BY Zenon, <2>1, <2>2, ChangeRefines
<1>3. ASSUME NEW o \in Outpoint, SpendInput(s, o) \/ UndoOutput(s, o) PROVE Map0!Change(s)
  <2>1. /\ Attached(s) /\ SpanGet(s, o, TRUE, SpentEntry)
        /\ UNCHANGED <<db, dbBest, hashBlock, mode, hash>>
    BY Zenon, <1>3 DEF SpendInput, UndoOutput, SpendCoin
  <2>2. \A r \in Span \ {s} : cache'[r] = cache[r]
    BY ZenonT(60), <2>1, GetTouchesOne
  <2> QED BY <2>1, <2>2, ChangeRefines
<1>4. ASSUME NEW o \in Outpoint, NEW c \in Coin, NEW w \in BOOLEAN, AddOutput(s, o, c, w)
      PROVE  Map0!Change(s)
  <2>1. /\ Attached(s) /\ UNCHANGED <<db, dbBest, hashBlock, mode, hash>>
        /\ \A r \in Span \ {s} : cache'[r] = cache[r]
    BY ZenonT(60), <1>4 DEF AddOutput, IInv, TypeOK
  <2> QED BY <2>1, ChangeRefines
<1>5. ASSUME NEW o \in Outpoint, NEW c \in Coin, UndoInput(s, o, c) PROVE Map0!Change(s)
  <2> DEFINE Restored(f) == Added(f, c, Unspent(f))
  <2>1. /\ Attached(s) /\ SpanGet(s, o, FALSE, Restored)
        /\ UNCHANGED <<db, dbBest, hashBlock, mode, hash>>
    BY Zenon, <1>5 DEF UndoInput, SpanGet
  <2> HIDE DEF Restored
  <2>2. \A r \in Span \ {s} : cache'[r] = cache[r]
    BY Zenon, <2>1, GetTouchesOne
  <2> QED BY SMTT(60), <2>1, <2>2, ChangeRefines
<1>6. CASE ForceDetach(s)
  <2>1. /\ UNCHANGED <<db, hash, cache>> /\ GetBestBlock' = GetBestBlock
        /\ \A r \in Span : (mode'[r] = "free") <=> (mode[r] = "free")
    BY <1>6 DEF ForceDetach, Attached, GetBestBlock, IInv, TypeOK
  <2> QED BY SMTT(60), <2>1, StutterRefines
<1>7. CASE TryReattach(s)
  <2>0. GetBestBlock' = GetBestBlock /\ UNCHANGED <<db, dbBest, store>> /\ mode[s] = "detached"
    BY SMTT(60), <1>7, CoinsAssumption DEF TryReattach, GetBestBlock, IInv, TypeOK
  <2>1. CASE GetBestBlock = hash[s]
    <3>1. /\ UNCHANGED <<db, hash, cache>>
          /\ \A r \in Span : (mode'[r] = "free") <=> (mode[r] = "free")
      BY <1>7, <2>0, <2>1 DEF TryReattach, IInv, TypeOK
    <3> QED BY SMTT(60), <2>0, <3>1, StutterRefines
  <2>2. CASE GetBestBlock # hash[s]
    <3>1. Close(s)
      BY <1>7, <2>2 DEF TryReattach
    <3> QED BY <2>0, <3>1, CloseRefines
  <2> QED BY SMTT(60), <2>1, <2>2
<1>8. ASSUME NEW b \in Block, TryFlush(s, b) PROVE Map0!Commit(s)
  BY <1>8, TryFlushRefines
<1>9. CASE Destroy(s)
  <2>1. /\ mode[s] # "free" /\ Close(s) /\ UNCHANGED <<db, dbBest, store>>
        /\ GetBestBlock' = GetBestBlock
    BY <1>9 DEF Destroy, GetBestBlock
  <2> QED BY <2>1, CloseRefines
<1> QED BY <1>1, <1>2, <1>3, <1>4, <1>5, <1>6, <1>7, <1>8, <1>9 DEF SpanStep

(* The steps of the database's owner, and reads, are steps of the map too.  *)
LEMMA OwnerStepRefines ==
  ASSUME IInv, IInv',
         \/ \E o \in Outpoint, n \in BOOLEAN : ViewGetCoin(o, n)
         \/ \E o \in Outpoint : Uncache(o)
         \/ Flush
         \/ Restart
  PROVE  Map0!Flush \/ Map0!Restart \/ UNCHANGED Map0!vars
<1>0. Views /\ Views'
  BY Refined, PTL
<1>1. CASE (\E o \in Outpoint, n \in BOOLEAN : ViewGetCoin(o, n)) \/ (\E o \in Outpoint : Uncache(o))
  <2>1. UNCHANGED <<db, hash, cache, mode>> /\ GetBestBlock' = GetBestBlock
    BY <1>1 DEF ViewGetCoin, Uncache, GetBestBlock
  <2> QED BY <2>1, StutterRefines
<1>2. CASE Flush
  <2>1. UNCHANGED <<mode, hash, cache>> /\ GetBestBlock' = GetBestBlock /\ GetBestBlock = dbBest'
        /\ store' = Empty
    BY ZenonT(60), <1>2 DEF Flush, GetBestBlock
  <2>2. StoreView' = StoreView
    <3>1. StoreView = UtxoOf[GetBestBlock]
      BY <1>0, Zenon DEF Views
    <3>2. StoreView' = UtxoOf[GetBestBlock']
      BY <1>0, Zenon DEF Views
    <3> QED BY <2>1, <3>1, <3>2, Zenon
  <2>3. Work' = Work /\ Base' = Base
    <3>1. \A s \in Span : WorkView(s)' = WorkView(s)
      BY <2>1 DEF WorkView
    <3> QED BY <2>1, <3>1 DEF Work, Base
  <2>4. db' = StoreView'
    <3>1. db' \in Map
      BY <1>0 DEF Views
    <3> QED BY SMTT(60), <2>1, <3>1 DEF StoreView, Through, Empty, Map
  <2> QED BY SMTT(60), <2>2, <2>3, <2>4 DEF Map0!Flush
<1>3. CASE Restart
  <2>1. store' = Empty /\ db' = db /\ mode' = [s \in Span |-> "free"]
    BY SMTT(60), <1>3 DEF Restart
  <2>2. StoreView' = db
    BY <1>0, <2>1 DEF StoreView, Through, Empty, Views, Map
  <2>3. Work' = [s \in Span |-> None] /\ Base' = [s \in Span |-> None]
    BY <2>1 DEF Work, Base
  <2> QED BY <2>1, <2>2, <2>3 DEF Map0!Restart
<1> QED BY <1>1, <1>2, <1>3

(* The initial states map to initial states of the plain map.               *)
LEMMA InitRefines == Init => Map0!Init
<1> SUFFICES ASSUME Init PROVE Map0!Init
  OBVIOUS
<1>1. db \in Map
  BY SMTT(60), CoinsAssumption DEF Init
<1>2. StoreView = db
  BY <1>1 DEF Init, StoreView, Through, Empty, Map
<1>3. Work = [s \in Span |-> None] /\ Base = [s \in Span |-> None]
  BY DEF Init, Work, Base
<1> QED BY <1>1, <1>2, <1>3 DEF Map0!Init, Map0!Map, Map

(* The layered caches with their flags, detached spans and pointers behave  *)
(* as one map of unspent outputs with private working copies: a block is    *)
(* committed as a whole and only onto the set it was validated against.     *)
THEOREM Refinement == Spec => Implements
<1>1. IInv /\ IInv' /\ [Next]_vars => [Map0!Next]_(Map0!vars)
  <2> SUFFICES ASSUME IInv, IInv', [Next]_vars PROVE [Map0!Next]_(Map0!vars)
    OBVIOUS
  <2>1. ASSUME NEW s \in Span, SpanStep(s) PROVE [Map0!Next]_(Map0!vars)
    BY <2>1, SpanStepRefines DEF Map0!Next
  <2>2. CASE \/ \E o \in Outpoint, n \in BOOLEAN : ViewGetCoin(o, n)
             \/ \E o \in Outpoint : Uncache(o)
             \/ Flush
             \/ Restart
    BY <2>2, OwnerStepRefines DEF Map0!Next
  <2>3. CASE UNCHANGED vars
    <3>1. UNCHANGED <<db, hash, cache, mode>> /\ GetBestBlock' = GetBestBlock
      BY <2>3 DEF vars, GetBestBlock
    <3> QED BY <3>1, StutterRefines
  <2> QED BY <2>1, <2>2, <2>3 DEF Next
<1> QED BY <1>1, InitRefines, Inductive, PTL DEF Spec, Implements, Map0!Spec
=============================================================================
