-------------------------- MODULE CoinsFetchProofs --------------------------
(***************************************************************************)
(* Any number of threads may look up any coins: one thread loads a coin,   *)
(* every caller gets what it asked for, and the memory that the cache      *)
(* accounts for is that of its entries.                                    *)
(***************************************************************************)
EXTENDS CoinsFetch, FiniteSetTheorems, TLAPS

Summand(f, g, s) ==
  IF s = {} THEN 0 ELSE LET x == CHOOSE x \in s : TRUE IN f[x] + g[s \ {x}]
Partial(f) == CHOOSE g : g = [s \in SUBSET DOMAIN f |-> Summand(f, g, s)]

LEMMA NatMin ==
  ASSUME NEW N \in SUBSET Nat, N # {}
  PROVE  \E m \in N : \A k \in N : m <= k
<1> DEFINE R == {ss \in Nat \X Nat : ss[1] < ss[2]}
<1>1. IsWellFoundedOn(R, Nat)
  BY NatLessThanWellFounded DEF OpToRel
<1>2. PICK m \in N : \A k \in N : <<k, m>> \notin R
  <2> HIDE DEF R
  <2> QED BY <1>1, WFMin
<1>3. ASSUME NEW k \in N PROVE m <= k
  <2>1. <<k, m>> \in Nat \X Nat /\ <<k, m>>[1] = k /\ <<k, m>>[2] = m
    OBVIOUS
  <2>2. ~(k < m)
    BY <1>2, <2>1
  <2> QED BY <2>2
<1> QED BY <1>3

LEMMA TotalIsPartial == \A f : Total(f) = Partial(f)[DOMAIN f]
 BY DEF Total, MapThenSumSet, MapThenFoldSet, Partial, Summand

LEMMA PartialDef ==
  ASSUME NEW f, IsFiniteSet(DOMAIN f)
  PROVE  Partial(f) = [s \in SUBSET DOMAIN f |-> Summand(f, Partial(f), s)]
<1> DEFINE D == DOMAIN f
           Level(n) == {s \in SUBSET D : Cardinality(s) <= n}
           Defined(n) == \E g : g = [s \in Level(n) |-> Summand(f, g, s)]
<1>0. \A s \in SUBSET D : IsFiniteSet(s) /\ Cardinality(s) \in Nat /\ Cardinality(s) <= Cardinality(D)
  BY FS_Subset, FS_CardinalityType
<1>1. Defined(0)
  <2>1. \A s \in Level(0) : s = {}
    BY <1>0, FS_EmptySet
  <2>2. \A g : \A s \in Level(0) : Summand(f, g, s) = 0
    BY <2>1 DEF Summand
  <2> DEFINE g0 == [s \in Level(0) |-> 0]
  <2> HIDE DEF Level
  <2>3. g0 = [s \in Level(0) |-> Summand(f, g0, s)]
    BY <2>2
  <2> QED BY <2>3
<1>2. ASSUME NEW n \in Nat, Defined(n) PROVE Defined(n+1)
  <2>1. PICK g : g = [s \in Level(n) |-> Summand(f, g, s)]
    BY <1>2
  <2> DEFINE h == [s \in Level(n+1) |-> Summand(f, g, s)]
  <2>2. \A s \in Level(n+1) : s # {} => s \ {CHOOSE x \in s : TRUE} \in Level(n)
    <3> SUFFICES ASSUME NEW s \in Level(n+1), s # {} PROVE s \ {CHOOSE x \in s : TRUE} \in Level(n)
      OBVIOUS
    <3>1. (CHOOSE x \in s : TRUE) \in s
      OBVIOUS
    <3> DEFINE x == CHOOSE x \in s : TRUE
    <3> HIDE DEF x
    <3>2. Cardinality(s \ {x}) = Cardinality(s) - 1 /\ s \ {x} \in SUBSET D
      BY <3>1, <1>0, FS_RemoveElement DEF x
    <3>3. s \ {x} \in Level(n)
      BY <3>2, <1>0
    <3> QED BY <3>3 DEF x
  <2>3. \A s \in Level(n) : h[s] = g[s] /\ s \in Level(n+1)
    <3>1. \A s \in Level(n) : s \in Level(n+1)
      BY <1>0
    <3> HIDE DEF Level
    <3> QED BY <2>1, <3>1
  <2>4. \A s \in Level(n+1) : Summand(f, g, s) = Summand(f, h, s)
    <3> HIDE DEF Level, h
    <3> QED BY <2>2, <2>3 DEF Summand
  <2>5. h = [s \in Level(n+1) |-> Summand(f, h, s)]
    <3> HIDE DEF Level
    <3> QED BY <2>4
  <2> QED BY <2>5
<1>3. \A n \in Nat : Defined(n)
  <2> DEFINE N == {n \in Nat : ~Defined(n)}
  <2> SUFFICES ASSUME N # {} PROVE FALSE
    OBVIOUS
  <2> HIDE DEF Defined
  <2>1. PICK m \in N : \A k \in N : m <= k
    BY NatMin
  <2>2. m # 0 /\ m - 1 \in Nat /\ m - 1 \notin N
    BY <2>1, <1>1
  <2> QED BY <2>1, <2>2, <1>2
<1>4. Level(Cardinality(D)) = SUBSET D
  BY <1>0
<1>5. \E g : g = [s \in SUBSET D |-> Summand(f, g, s)]
  <2>1. Defined(Cardinality(D))
    BY <1>3, FS_CardinalityType
  <2> QED BY <2>1, <1>4
<1> QED BY <1>5 DEF Partial

LEMMA SubsetMin ==
  ASSUME NEW D, IsFiniteSet(D), NEW T \in SUBSET (SUBSET D), T # {}
  PROVE  \E s \in T : \A u \in SUBSET s : u # s => u \notin T
<1>1. T \subseteq FiniteSubsetsOf(D)
  BY FS_FiniteSubsetsOfFinite
<1>2. PICK s \in T : \A u \in T : <<u, s>> \notin StrictSubsetOrdering(D)
  BY <1>1, FS_StrictSubsetOrderingWellFounded, WFMin
<1>3. ASSUME NEW u \in SUBSET s, u # s PROVE u \notin T
  <2>1. <<u, s>> \in (SUBSET D) \X (SUBSET D) /\ <<u, s>>[1] = u /\ <<u, s>>[2] = s
    OBVIOUS
  <2>2. <<u, s>> \in StrictSubsetOrdering(D)
    BY <1>3, <2>1 DEF StrictSubsetOrdering
  <2> QED BY <1>2, <2>2
<1> QED BY <1>3

LEMMA PartialStep ==
  ASSUME NEW D, IsFiniteSet(D), NEW f \in [D -> Int]
  PROVE  /\ Partial(f)[{}] = 0
         /\ \A s \in SUBSET D : s # {} =>
              \E x \in s : Partial(f)[s] = f[x] + Partial(f)[s \ {x}]
<1> DEFINE P == Partial(f)
<1>0. DOMAIN f = D
  OBVIOUS
<1>1. P = [s \in SUBSET D |-> Summand(f, P, s)]
  BY <1>0, PartialDef
<1> HIDE DEF P
<1>2. P[{}] = 0
  BY <1>1 DEF Summand
<1>3. ASSUME NEW s \in SUBSET D, s # {}
      PROVE  \E x \in s : P[s] = f[x] + P[s \ {x}]
  <2>1. (CHOOSE y \in s : TRUE) \in s
    BY <1>3
  <2>2. P[s] = f[CHOOSE y \in s : TRUE] + P[s \ {CHOOSE y \in s : TRUE}]
    BY <1>1, <1>3 DEF Summand
  <2> QED BY <2>1, <2>2
<1> QED BY <1>2, <1>3 DEF P

LEMMA PartialType ==
  ASSUME NEW D, IsFiniteSet(D), NEW f \in [D -> Int]
  PROVE  \A s \in SUBSET D : Partial(f)[s] \in Int
<1> DEFINE T == {s \in SUBSET D : Partial(f)[s] \notin Int}
<1> SUFFICES ASSUME T # {} PROVE FALSE
  OBVIOUS
<1>0. T \in SUBSET (SUBSET D)
  OBVIOUS
<1> HIDE DEF T
<1>1. PICK s \in T : \A u \in SUBSET s : u # s => u \notin T
  BY <1>0, SubsetMin
<1>2. s \in SUBSET D /\ s # {}
  <2>1. Partial(f)[{}] = 0
    BY PartialStep
  <2> QED BY <2>1 DEF T
<1>3. PICK x \in s : Partial(f)[s] = f[x] + Partial(f)[s \ {x}]
  BY <1>2, PartialStep
<1>4. Partial(f)[s \ {x}] \in Int
  BY <1>1, <1>2 DEF T
<1> QED BY <1>2, <1>3, <1>4 DEF T

LEMMA PartialRemove ==
  ASSUME NEW D, IsFiniteSet(D), NEW f \in [D -> Int]
  PROVE  \A s \in SUBSET D : \A x \in s : Partial(f)[s] = f[x] + Partial(f)[s \ {x}]
<1> DEFINE P == Partial(f)
           T == {s \in SUBSET D : \E x \in s : P[s] # f[x] + P[s \ {x}]}
<1> SUFFICES ASSUME T # {} PROVE FALSE
  OBVIOUS
<1>0. T \in SUBSET (SUBSET D)
  OBVIOUS
<1> HIDE DEF P, T
<1>1. PICK s \in T : \A u \in SUBSET s : u # s => u \notin T
  BY <1>0, SubsetMin
<1>2. PICK x \in s : P[s] # f[x] + P[s \ {x}]
  BY DEF T
<1>3. PICK y \in s : P[s] = f[y] + P[s \ {y}]
  BY <1>0, PartialStep DEF P
<1>4. x # y
  BY <1>2, <1>3
<1>5. P[s \ {y}] = f[x] + P[(s \ {y}) \ {x}]
  BY <1>0, <1>1, <1>4 DEF T
<1>6. P[s \ {x}] = f[y] + P[(s \ {x}) \ {y}]
  BY <1>0, <1>1, <1>4 DEF T
<1>7. (s \ {y}) \ {x} = (s \ {x}) \ {y}
  OBVIOUS
<1>8. P[(s \ {x}) \ {y}] \in Int /\ f[x] \in Int /\ f[y] \in Int
  BY <1>0, PartialType DEF P
<1> DEFINE p == P[(s \ {x}) \ {y}]
<1>9. f[y] + (f[x] + p) = f[x] + (f[y] + p)
  BY <1>8
<1> QED BY <1>2, <1>3, <1>5, <1>6, <1>7, <1>9

LEMMA TotalType ==
  ASSUME NEW D, IsFiniteSet(D), NEW f \in [D -> Int]
  PROVE  Total(f) \in Int
BY TotalIsPartial, PartialType

LEMMA TotalNat ==
  ASSUME NEW D, IsFiniteSet(D), NEW f \in [D -> Nat]
  PROVE  Total(f) \in Nat
<1> DEFINE T == {s \in SUBSET D : Partial(f)[s] \notin Nat}
<1>1. T = {}
  <2> SUFFICES ASSUME T # {} PROVE FALSE
    OBVIOUS
  <2>0. T \in SUBSET (SUBSET D) /\ f \in [D -> Int]
    OBVIOUS
  <2> HIDE DEF T
  <2>1. PICK s \in T : \A u \in SUBSET s : u # s => u \notin T
    BY <2>0, SubsetMin
  <2>2. s # {} /\ s \in SUBSET D
    <3>1. Partial(f)[{}] = 0
      BY <2>0, PartialStep
    <3> QED BY <3>1 DEF T
  <2>3. PICK x \in s : Partial(f)[s] = f[x] + Partial(f)[s \ {x}]
    BY <2>0, <2>2, PartialStep
  <2>4. Partial(f)[s \ {x}] \in Nat
    BY <2>1, <2>2 DEF T
  <2> QED BY <2>2, <2>3, <2>4 DEF T
<1> QED BY <1>1, TotalIsPartial

LEMMA PartialZero ==
  ASSUME NEW D, IsFiniteSet(D), NEW f \in [D -> Int],
         NEW Z \in SUBSET D, \A x \in Z : f[x] = 0
  PROVE  Partial(f)[Z] = 0
<1> DEFINE T == {s \in SUBSET Z : Partial(f)[s] # 0}
<1>1. T = {}
  <2> SUFFICES ASSUME T # {} PROVE FALSE
    OBVIOUS
  <2>0. T \in SUBSET (SUBSET D)
    OBVIOUS
  <2> HIDE DEF T
  <2>1. PICK s \in T : \A u \in SUBSET s : u # s => u \notin T
    BY <2>0, SubsetMin
  <2>2. s # {} /\ s \in SUBSET D /\ s \in SUBSET Z
    BY PartialStep DEF T
  <2>3. PICK x \in s : Partial(f)[s] = f[x] + Partial(f)[s \ {x}]
    BY <2>2, PartialStep
  <2>4. Partial(f)[s \ {x}] = 0
    BY <2>1, <2>2 DEF T
  <2> QED BY <2>2, <2>3, <2>4 DEF T
<1> QED BY <1>1

LEMMA TotalZero ==
  ASSUME NEW D, IsFiniteSet(D), NEW f \in [D -> Int], \A x \in D : f[x] = 0
  PROVE  Total(f) = 0
<1>1. DOMAIN f = D /\ D \in SUBSET D
  OBVIOUS
<1>2. Partial(f)[D] = 0
  BY <1>1, PartialZero
<1> QED BY <1>1, <1>2, TotalIsPartial

LEMMA PartialAdd ==
  ASSUME NEW D, IsFiniteSet(D), NEW f \in [D -> Int], NEW g \in [D -> Int],
         NEW h \in [D -> Int], \A x \in D : h[x] = f[x] + g[x]
  PROVE  \A s \in SUBSET D : Partial(h)[s] = Partial(f)[s] + Partial(g)[s]
<1> DEFINE F == Partial(f)
           G == Partial(g)
           H == Partial(h)
           T == {s \in SUBSET D : H[s] # F[s] + G[s]}
<1>1. ASSUME NEW s \in SUBSET D, NEW x \in s PROVE F[s] = f[x] + F[s \ {x}]
  BY PartialRemove
<1>2. ASSUME NEW s \in SUBSET D, NEW x \in s PROVE G[s] = g[x] + G[s \ {x}]
  BY PartialRemove
<1>3. ASSUME NEW s \in SUBSET D, NEW x \in s PROVE H[s] = h[x] + H[s \ {x}]
  BY PartialRemove
<1>4. F[{}] = 0 /\ G[{}] = 0 /\ H[{}] = 0
  BY PartialStep
<1>5. \A s \in SUBSET D : F[s] \in Int /\ G[s] \in Int
  BY PartialType
<1>6. T \in SUBSET (SUBSET D)
  OBVIOUS
<1> SUFFICES ASSUME T # {} PROVE FALSE
  OBVIOUS
<1> HIDE DEF F, G, H, T
<1>7. PICK s \in T : \A u \in SUBSET s : u # s => u \notin T
  BY <1>6, SubsetMin
<1>8. s \in SUBSET D /\ H[s] # F[s] + G[s]
  BY DEF T
<1>9. PICK x : x \in s
  <2>1. s # {}
    <3> SUFFICES ASSUME s = {} PROVE FALSE
      OBVIOUS
    <3>1. H[s] = 0 /\ F[s] = 0 /\ G[s] = 0
      BY <1>4
    <3> QED BY <1>8, <3>1
  <2> QED BY <2>1
<1>10. s \ {x} \in SUBSET D /\ H[s \ {x}] = F[s \ {x}] + G[s \ {x}]
  BY <1>7, <1>8, <1>9 DEF T
<1>11. /\ F[s] = f[x] + F[s \ {x}] /\ G[s] = g[x] + G[s \ {x}] /\ H[s] = h[x] + H[s \ {x}]
  BY <1>1, <1>2, <1>3, <1>8, <1>9
<1>12. /\ F[s \ {x}] \in Int /\ G[s \ {x}] \in Int
       /\ f[x] \in Int /\ g[x] \in Int /\ h[x] = f[x] + g[x]
  BY <1>5, <1>8, <1>9, <1>10
<1>13. H[s] = F[s] + G[s]
  BY <1>10, <1>11, <1>12
<1> QED BY <1>8, <1>13

LEMMA TotalAdd ==
  ASSUME NEW D, IsFiniteSet(D), NEW f \in [D -> Int], NEW g \in [D -> Int],
         NEW h \in [D -> Int], \A x \in D : h[x] = f[x] + g[x]
  PROVE  Total(h) = Total(f) + Total(g)
<1>1. DOMAIN f = D /\ DOMAIN g = D /\ DOMAIN h = D /\ D \in SUBSET D
  OBVIOUS
<1>2. Partial(h)[D] = Partial(f)[D] + Partial(g)[D]
  BY <1>1, PartialAdd
<1> QED BY <1>1, <1>2, TotalIsPartial

(* Changing one summand changes the sum by the difference.                  *)
LEMMA TotalUpdate ==
  ASSUME NEW D, IsFiniteSet(D), NEW f \in [D -> Int], NEW x \in D, NEW v \in Int
  PROVE  Total([f EXCEPT ![x] = v]) = Total(f) + (v - f[x])
<1> DEFINE g == [y \in D |-> IF y = x THEN v - f[x] ELSE 0]
           h == [f EXCEPT ![x] = v]
<1>1. g \in [D -> Int] /\ h \in [D -> Int] /\ \A y \in D : h[y] = f[y] + g[y]
  OBVIOUS
<1>2. g[x] = v - f[x] /\ \A y \in D \ {x} : g[y] = 0
  OBVIOUS
<1>3. DOMAIN g = D /\ D \in SUBSET D /\ D \ {x} \in SUBSET D
  OBVIOUS
<1> HIDE DEF g, h
<1>4. Total(h) = Total(f) + Total(g)
  BY <1>1, TotalAdd
<1>5. Partial(g)[D] = g[x] + Partial(g)[D \ {x}]
  BY <1>1, <1>3, PartialRemove
<1>6. Partial(g)[D \ {x}] = 0
  BY <1>1, <1>2, <1>3, PartialZero
<1>7. Total(g) = v - f[x]
  BY <1>2, <1>3, <1>5, <1>6, TotalIsPartial
<1> QED BY <1>4, <1>7 DEF h

-----------------------------------------------------------------------------
(* The invariant.                                                           *)

(* Entries that are not DIRTY are copies of what leveldb has.               *)
CleanStored == \A o \in Coin : cache[o] \in {"bare", "loaded"} => o \in coinDb

Marked ==
  \A o \in Coin : o \in fetching <=> \E t \in Reader : Fetcher(t) /\ outpoint[t] = o

Alone ==
  \A t, u \in Reader : Fetcher(t) /\ Fetcher(u) /\ outpoint[t] = outpoint[u] => t = u

(* What a thread knew when it went to read still holds while it reads: the  *)
(* entry is as it found it, and there is no more room than it counted on.   *)
Plan(t) ==
  LET o == outpoint[t] IN
  /\ cache[o] = IF coinFromCache[t] THEN "bare" ELSE "none"
  /\ coinFromCache[t] => ScriptSize[o] <= maxScriptSize[t]
  /\ maxScriptSize[t] <= maxScriptLoadingSize[t]
  /\ Threshold - DynamicMemoryUsage <= maxScriptLoadingSize[t]
  /\ place[t] = "drop" => o \notin coinDb
  /\ place[t] = "store" => o \in coinDb /\ coinFromView[t] = DBGetCoin(o, maxScriptLoadingSize[t])

FetchInv ==
  /\ FetchType /\ UsageExact /\ CleanStored /\ Marked /\ Alone
  /\ \A t \in Reader : Fetcher(t) => Plan(t)
  /\ Answered

LEMMA UsageType ==
  ASSUME FetchAssumption, NEW store \in [Coin -> Kind]
  PROVE  Usage(store) \in [Coin -> Nat] /\ Usage(store) \in [Coin -> Int]
BY DEF FetchAssumption, Usage, EntryUsage

LEMMA UsageUpdate ==
  ASSUME FetchAssumption, NEW store \in [Coin -> Kind], NEW o \in Coin, NEW k \in Kind
  PROVE  Total(Usage([store EXCEPT ![o] = k]))
           = Total(Usage(store)) + (EntryUsage(o, k) - EntryUsage(o, store[o]))
<1>1. Usage([store EXCEPT ![o] = k]) = [Usage(store) EXCEPT ![o] = EntryUsage(o, k)]
  BY DEF Usage
<1>2. EntryUsage(o, k) \in Int /\ Usage(store)[o] = EntryUsage(o, store[o])
  BY DEF FetchAssumption, EntryUsage, Usage
<1>3. IsFiniteSet(Coin) /\ Usage(store) \in [Coin -> Int]
  BY UsageType DEF FetchAssumption
<1> DEFINE f == Usage(store)
           v == EntryUsage(o, k)
<1>4. f \in [Coin -> Int] /\ v \in Int
  BY <1>2, <1>3
<1> HIDE DEF f, v
<1>5. Total([f EXCEPT ![o] = v]) = Total(f) + (v - f[o])
  BY <1>3, <1>4, TotalUpdate
<1> QED BY <1>1, <1>2, <1>5 DEF f, v

(* The memory in use, and how it grows with the entries.                    *)
LEMMA MemoryType ==
  ASSUME FetchAssumption, FetchType
  PROVE  DynamicMemoryUsage \in Nat
<1>1. IsFiniteSet(Entries)
  BY FS_Subset DEF Entries, FetchAssumption
<1>2. Cardinality(Entries) \in Nat
  BY <1>1, FS_CardinalityType
<1> QED BY <1>2 DEF DynamicMemoryUsage, FetchAssumption, FetchType

LEMMA MemoryGrows ==
  ASSUME FetchAssumption, FetchType, FetchType', coinsUsage <= coinsUsage',
         \A o \in Coin : cache[o] # "none" => cache'[o] # "none"
  PROVE  DynamicMemoryUsage' \in Nat /\ DynamicMemoryUsage <= DynamicMemoryUsage'
<1>1. IsFiniteSet(Entries') /\ Entries \subseteq Entries'
  BY FS_Subset DEF Entries, FetchAssumption
<1>2. /\ Cardinality(Entries) \in Nat /\ Cardinality(Entries') \in Nat
      /\ Cardinality(Entries) <= Cardinality(Entries')
  BY <1>1, FS_Subset, FS_CardinalityType
<1>3. \A n, a, b \in Nat : a <= b => n * a <= n * b
  OBVIOUS
<1>4. Node * Cardinality(Entries) <= Node * Cardinality(Entries')
  BY <1>2, <1>3 DEF FetchAssumption
<1>5. /\ Node * Cardinality(Entries) \in Nat /\ Node * Cardinality(Entries') \in Nat
  BY <1>2 DEF FetchAssumption
<1> QED BY <1>4, <1>5 DEF DynamicMemoryUsage, FetchType

LEMMA FetchInitially ==
  ASSUME FetchAssumption
  PROVE  FetchInit => FetchInv
<1> SUFFICES ASSUME FetchInit PROVE FetchInv
  OBVIOUS
<1>1. UsageExact
  <2>1. Usage(cache) \in [Coin -> Int] /\ \A o \in Coin : Usage(cache)[o] = 0
    BY DEF FetchInit, Usage, EntryUsage
  <2> QED BY <2>1, TotalZero DEF FetchInit, UsageExact, FetchAssumption
<1>2. FetchType
  BY DEF FetchInit, FetchType, PC, Kind, Found
<1> QED BY <1>1, <1>2 DEF FetchInit, FetchInv, CleanStored, Marked, Alone, Fetcher, Answered

LEMMA FetchStep ==
  ASSUME FetchAssumption, FetchInv, [FetchNext]_fetchVars
  PROVE  FetchInv'
<1> USE DEF FetchInv
<1>1. ASSUME NEW t \in Reader, Hit(t) PROVE FetchInv'
  <2>1. FetchType'
    BY <1>1 DEF Hit, Return, FetchType, PC, Found
  <2>2. /\ \A u \in Reader : Fetcher(u)' = Fetcher(u)
        /\ \A u \in Reader : Plan(u)' = Plan(u)
    BY <1>1 DEF Hit, Return, FetchType, Fetcher, Plan, DBGetCoin, DynamicMemoryUsage, Entries, PC
  <2>3. UsageExact' /\ CleanStored' /\ Marked' /\ Alone'
    BY <1>1, <2>2 DEF Hit, UsageExact, Usage, CleanStored, Marked, Alone
  <2>4. Answered'
    BY <1>1 DEF Hit, Return, FetchType, Answered, HasScript, Kind
  <2> QED BY <2>1, <2>2, <2>3, <2>4
<1>2. ASSUME NEW t \in Reader, Miss(t) PROVE FetchInv'
  <2>0. DynamicMemoryUsage \in Nat /\ DynamicMemoryUsage' = DynamicMemoryUsage
    BY <1>2, MemoryType DEF Miss, DynamicMemoryUsage, Entries
  <2>1. FetchType'
    BY <1>2, <2>0 DEF Miss, FetchType, PC, getMaxScriptLoadingSize, FetchAssumption
  <2>2. \A u \in Reader \ {t} : Fetcher(u)' = Fetcher(u) /\ Plan(u)' = Plan(u)
    BY <1>2, <2>0 DEF Miss, FetchType, Fetcher, Plan, DBGetCoin
  <2>3. Fetcher(t)' /\ ~Fetcher(t)
    BY <1>2 DEF Miss, FetchType, Fetcher
  <2>4. Plan(t)'
    <3>1. outpoint[t] \in Coin /\ ScriptSize[outpoint[t]] \in Nat /\ maxScriptSize[t] \in Nat
      BY DEF FetchType, FetchAssumption
    <3>2. /\ maxScriptLoadingSize'[t] = getMaxScriptLoadingSize(maxScriptSize[t])
          /\ coinFromCache'[t] = (cache[outpoint[t]] # "none") /\ place'[t] = "read"
          /\ Misses(t)
          /\ UNCHANGED <<cache, outpoint, maxScriptSize>>
      BY <1>2 DEF Miss, FetchType
    <3>3. /\ maxScriptSize[t] <= maxScriptLoadingSize'[t]
          /\ Threshold - DynamicMemoryUsage <= maxScriptLoadingSize'[t]
      BY <2>0, <3>1, <3>2 DEF getMaxScriptLoadingSize, FetchAssumption
    <3> QED BY <2>0, <3>1, <3>2, <3>3 DEF Plan, Misses
  <2>5. Marked'
    BY <1>2, <2>2, <2>3 DEF Miss, Marked, FetchType
  <2>6. Alone'
    BY <1>2, <2>2, <2>3 DEF Miss, Marked, Alone, FetchType
  <2>7. UsageExact' /\ CleanStored' /\ Answered'
    BY <1>2 DEF Miss, UsageExact, Usage, CleanStored, Answered, FetchType
  <2> QED BY <2>1, <2>2, <2>4, <2>5, <2>6, <2>7
<1>3. ASSUME NEW t \in Reader, Read(t) PROVE FetchInv'
  <2>0. DynamicMemoryUsage' = DynamicMemoryUsage
    BY <1>3 DEF Read, DynamicMemoryUsage, Entries
  <2>1. FetchType'
    BY <1>3 DEF Read, FetchType, PC, Found, DBGetCoin
  <2>2. \A u \in Reader : Fetcher(u)' = Fetcher(u)
    BY <1>3 DEF Read, FetchType, Fetcher
  <2>3. \A u \in Reader \ {t} : Plan(u)' = Plan(u)
    BY <1>3, <2>0 DEF Read, FetchType, Plan, DBGetCoin
  <2>4. Plan(t)'
    <3>1. Plan(t)
      BY <1>3 DEF Read, Fetcher
    <3> QED BY <1>3, <2>0, <3>1 DEF Read, FetchType, Plan, DBGetCoin
  <2>5. UsageExact' /\ CleanStored' /\ Answered' /\ Marked' /\ Alone'
    BY <1>3, <2>2 DEF Read, UsageExact, Usage, CleanStored, Answered, FetchType, Marked, Alone
  <2> QED BY <2>1, <2>2, <2>3, <2>4, <2>5
<1>4. ASSUME NEW t \in Reader, Drop(t) PROVE FetchInv'
  <2>0. DynamicMemoryUsage' = DynamicMemoryUsage
    BY <1>4 DEF Drop, DynamicMemoryUsage, Entries
  <2>1. FetchType'
    BY <1>4 DEF Drop, Return, FetchType, PC, Found
  <2>2. \A u \in Reader \ {t} : Fetcher(u)' = Fetcher(u) /\ Plan(u)' = Plan(u)
    BY <1>4, <2>0 DEF Drop, Return, FetchType, Fetcher, Plan, DBGetCoin
  <2>3. Fetcher(t) /\ ~Fetcher(t)'
    BY <1>4 DEF Drop, Return, FetchType, Fetcher
  <2>4. Marked' /\ Alone'
    BY <1>4, <2>2, <2>3 DEF Drop, Marked, Alone, FetchType
  <2>5. Answered'
    <3>1. Plan(t) /\ outpoint[t] \in Coin
      BY <2>3 DEF FetchType
    <3>2. cache[outpoint[t]] = "none" /\ outpoint[t] \notin coinDb
      BY <1>4, <3>1 DEF Drop, Plan, CleanStored
    <3> QED BY <1>4, <3>2 DEF Drop, Return, FetchType, Answered
  <2>6. UsageExact' /\ CleanStored'
    BY <1>4 DEF Drop, UsageExact, Usage, CleanStored
  <2> QED BY <2>1, <2>2, <2>3, <2>4, <2>5, <2>6
<1>5. ASSUME NEW t \in Reader, Store(t) PROVE FetchInv'
  <2> DEFINE o == outpoint[t]
             kind == IF hasSpaceForScript(ScriptSize[o]) THEN "loaded" ELSE "bare"
  <2>1. Fetcher(t) /\ Plan(t) /\ o \in Coin /\ o \in coinDb
    BY <1>5 DEF Store, Fetcher, Plan, FetchType
  <2>2. /\ cache' = [cache EXCEPT ![o] = kind] /\ coinsUsage' = coinsUsage + EntryUsage(o, kind)
        /\ fetching' = fetching \ {o} /\ place' = [place EXCEPT ![t] = "done"]
        /\ answer' = [answer EXCEPT ![t] = coinFromView[t]]
        /\ UNCHANGED <<coinDb, outpoint, maxScriptSize, coinFromCache, maxScriptLoadingSize,
                       coinFromView>>
    BY <1>5 DEF Store, Return
  <2>3. kind \in {"loaded", "bare"}
    OBVIOUS
  <2> HIDE DEF kind
  <2>4. EntryUsage(o, kind) \in Nat /\ EntryUsage(o, cache[o]) = 0
    BY <2>1 DEF EntryUsage, FetchAssumption, Plan
  <2>5. FetchType'
    BY <2>1, <2>2, <2>3, <2>4 DEF FetchType, Kind, PC
  <2>6. UsageExact'
    <3>1. Total(Usage([cache EXCEPT ![o] = kind]))
            = Total(Usage(cache)) + (EntryUsage(o, kind) - EntryUsage(o, cache[o]))
      BY <2>1, <2>3, UsageUpdate DEF FetchType, Kind
    <3>2. Usage(cache)' = Usage([cache EXCEPT ![o] = kind])
      BY <2>2 DEF Usage
    <3> QED BY <2>2, <2>4, <3>1, <3>2 DEF UsageExact, FetchType
  <2>7. DynamicMemoryUsage' \in Nat /\ DynamicMemoryUsage <= DynamicMemoryUsage'
    BY <2>1, <2>2, <2>3, <2>4, <2>5, MemoryGrows DEF FetchType
  <2>8. \A u \in Reader \ {t} : Fetcher(u)' = Fetcher(u)
    BY <2>2 DEF Fetcher, FetchType
  <2>9. ~Fetcher(t)'
    BY <2>2 DEF Fetcher, FetchType
  <2>10. CleanStored'
    BY <2>1, <2>2 DEF CleanStored, FetchType
  <2>11. Marked' /\ Alone'
    BY <2>1, <2>2, <2>8, <2>9 DEF Marked, Alone, FetchType
  <2>12. ASSUME NEW u \in Reader, Fetcher(u)' PROVE Plan(u)'
    <3>1. u # t /\ Fetcher(u) /\ Plan(u) /\ outpoint[u] # o
      BY <2>1, <2>8, <2>9, <2>12 DEF Alone
    <3>2. DynamicMemoryUsage \in Nat /\ DynamicMemoryUsage' \in Nat
          /\ maxScriptLoadingSize[u] \in Nat /\ Threshold \in Nat
      BY <2>7, MemoryType DEF FetchType, FetchAssumption
    <3>3. Threshold - DynamicMemoryUsage <= maxScriptLoadingSize[u]
      BY <3>1 DEF Plan
    <3>4. Threshold - DynamicMemoryUsage' <= maxScriptLoadingSize[u]
      BY <2>7, <3>2, <3>3
    <3>5. /\ cache'[outpoint[u]] = cache[outpoint[u]] /\ place'[u] = place[u]
      BY <2>2, <3>1 DEF FetchType
    <3> QED BY <2>2, <3>1, <3>4, <3>5 DEF Plan, DBGetCoin
  <2>13. Answered'
    <3> SUFFICES ASSUME NEW u \in Reader, place'[u] = "done"
                 PROVE  LET p == outpoint'[u] IN
                        /\ answer'[u] = "none" <=> cache'[p] = "spent" \/ (cache'[p] = "none" /\ p \notin coinDb')
                        /\ answer'[u] = "bare" => maxScriptSize'[u] < ScriptSize[p]
      BY DEF Answered
    <3>1. CASE u = t
      <4>1. answer'[t] = DBGetCoin(o, maxScriptLoadingSize[t])
        BY <1>5, <2>1, <2>2 DEF Store, Plan, FetchType
      <4>2. cache'[o] = kind
        BY <2>1, <2>2 DEF FetchType
      <4>3. answer'[t] = "bare" => maxScriptSize[t] < ScriptSize[o]
        BY <2>1, <4>1 DEF DBGetCoin, Plan, FetchType, FetchAssumption
      <4> QED BY <2>1, <2>2, <2>3, <3>1, <4>1, <4>2, <4>3 DEF DBGetCoin
    <3>2. CASE u # t
      BY <2>1, <2>2, <2>3, <3>2 DEF Answered, FetchType, Plan
    <3> QED BY <3>1, <3>2
  <2> QED BY <2>5, <2>6, <2>10, <2>11, <2>12, <2>13
<1>6. ASSUME NEW t \in Reader, Finish(t) PROVE FetchInv'
  <2>0. DynamicMemoryUsage' = DynamicMemoryUsage
    BY <1>6 DEF Finish, DynamicMemoryUsage, Entries
  <2>1. FetchType'
    BY <1>6 DEF Finish, FetchType, PC, Found, FetchAssumption
  <2>2. \A u \in Reader : Fetcher(u)' = Fetcher(u)
    BY <1>6 DEF Finish, FetchType, Fetcher
  <2>3. \A u \in Reader : Fetcher(u) => Plan(u)'
    BY <1>6, <2>0 DEF Finish, FetchType, Plan, DBGetCoin, Fetcher
  <2>4. UsageExact' /\ CleanStored' /\ Marked' /\ Alone' /\ Answered'
    BY <1>6, <2>2 DEF Finish, UsageExact, Usage, CleanStored, Marked, Alone, Answered, FetchType
  <2> QED BY <2>1, <2>2, <2>3, <2>4
<1>7. ASSUME NEW t \in Reader, NEW o \in Coin, NEW size \in {0, AnySize}, Call(t, o, size)
      PROVE  FetchInv'
  <2>0. DynamicMemoryUsage' = DynamicMemoryUsage
    BY <1>7 DEF Call, DynamicMemoryUsage, Entries
  <2>1. FetchType'
    BY <1>7 DEF Call, FetchType, PC
  <2>2. \A u \in Reader : Fetcher(u)' = Fetcher(u)
    BY <1>7 DEF Call, FetchType, Fetcher
  <2>3. \A u \in Reader : Fetcher(u) => outpoint'[u] = outpoint[u] /\ Plan(u)'
    BY <1>7, <2>0 DEF Call, FetchType, Plan, DBGetCoin, Fetcher
  <2>4. UsageExact' /\ CleanStored' /\ Answered'
    BY <1>7 DEF Call, UsageExact, Usage, CleanStored, Answered, FetchType
  <2>5. Marked' /\ Alone'
    BY <1>7, <2>2, <2>3 DEF Call, Marked, Alone
  <2> QED BY <2>1, <2>2, <2>3, <2>4, <2>5
<1>8. ASSUME NEW new \in [Coin -> Kind], BatchWrite(new) PROVE FetchInv'
  <2>1. UsageExact' /\ coinsUsage' \in Nat
    <3> DEFINE f == Usage(cache)
               h == Usage(new)
               g == [o \in Coin |-> h[o] - f[o]]
    <3>1. /\ f \in [Coin -> Int] /\ h \in [Coin -> Int] /\ h \in [Coin -> Nat]
          /\ IsFiniteSet(Coin)
      BY UsageType DEF FetchType, FetchAssumption
    <3>2. coinsUsage = Total(f) /\ coinsUsage' = coinsUsage + Total(g) /\ Usage(cache)' = h
      BY <1>8 DEF BatchWrite, UsageChange, UsageExact, Usage
    <3> HIDE DEF f, h
    <3>3. g \in [Coin -> Int] /\ \A o \in Coin : h[o] = f[o] + g[o]
      BY <3>1
    <3> HIDE DEF g
    <3>4. Total(h) = Total(f) + Total(g)
      BY <3>1, <3>3, TotalAdd
    <3>5. Total(h) \in Nat
      BY <3>1, TotalNat
    <3> QED BY <3>2, <3>4, <3>5 DEF UsageExact
  <2>2. FetchType'
    BY <1>8, <2>1 DEF BatchWrite, FetchType, fetchLocals
  <2>3. CleanStored'
    BY <1>8 DEF BatchWrite, CleanStored, WrittenEntry, FetchType, Kind
  <2> QED BY <1>8, <2>1, <2>2, <2>3
        DEF BatchWrite, NoReader, fetchLocals, Marked, Alone, Fetcher, Answered
<1>9. ASSUME Flush PROVE FetchInv'
  <2>1. UsageExact'
    <3>1. cache' \in [Coin -> Kind] /\ \A o \in Coin : Usage(cache')[o] = 0
      BY <1>9 DEF Flush, Kind, Usage, EntryUsage
    <3>2. Usage(cache') \in [Coin -> Int]
      BY <3>1, UsageType
    <3>3. Total(Usage(cache')) = 0
      BY <3>1, <3>2, TotalZero DEF FetchAssumption
    <3>4. Usage(cache)' = Usage(cache')
      BY DEF Usage
    <3> QED BY <1>9, <3>3, <3>4 DEF Flush, UsageExact
  <2>2. FetchType' /\ CleanStored'
    BY <1>9 DEF Flush, FetchType, Kind, CleanStored, fetchLocals
  <2> QED BY <1>9, <2>1, <2>2
        DEF Flush, NoReader, fetchLocals, Marked, Alone, Fetcher, Answered
<1>10. ASSUME NEW o \in Coin, Uncache(o) PROVE FetchInv'
  <2>1. UsageExact' /\ coinsUsage' \in Nat
    <3>1. cache \in [Coin -> Kind] /\ "none" \in Kind
      BY DEF FetchType, Kind
    <3>2. Total(Usage([cache EXCEPT ![o] = "none"]))
            = Total(Usage(cache)) + (EntryUsage(o, "none") - EntryUsage(o, cache[o]))
      BY <3>1, UsageUpdate
    <3>3. EntryUsage(o, "none") = 0 /\ EntryUsage(o, cache[o]) \in Nat
      BY DEF EntryUsage, FetchAssumption
    <3>4. Usage(cache)' = Usage([cache EXCEPT ![o] = "none"])
      BY <1>10 DEF Uncache, Usage
    <3>5. Total(Usage([cache EXCEPT ![o] = "none"])) \in Nat
      <4>1. [cache EXCEPT ![o] = "none"] \in [Coin -> Kind]
        BY <3>1
      <4>2. Usage([cache EXCEPT ![o] = "none"]) \in [Coin -> Nat]
        BY <4>1, UsageType
      <4> QED BY <4>2, TotalNat DEF FetchAssumption
    <3>6. coinsUsage' = coinsUsage - EntryUsage(o, cache[o]) /\ coinsUsage \in Nat
      BY <1>10 DEF Uncache, FetchType
    <3> QED BY <3>2, <3>3, <3>4, <3>5, <3>6 DEF UsageExact
  <2>2. FetchType' /\ CleanStored'
    BY <1>10, <2>1 DEF Uncache, FetchType, Kind, CleanStored, fetchLocals
  <2> QED BY <1>10, <2>1, <2>2
        DEF Uncache, NoReader, fetchLocals, Marked, Alone, Fetcher, Answered
<1>11. ASSUME UNCHANGED fetchVars PROVE FetchInv'
  <2>1. /\ UNCHANGED <<coinDb, cache, coinsUsage, fetching>>
        /\ UNCHANGED <<place, outpoint, maxScriptSize, coinFromCache, maxScriptLoadingSize,
                       coinFromView, answer>>
    BY <1>11 DEF fetchVars, fetchLocals
  <2>2. FetchType' /\ UsageExact' /\ CleanStored' /\ Answered'
    BY <2>1 DEF FetchType, UsageExact, Usage, CleanStored, Answered
  <2>3. \A t \in Reader : Fetcher(t)' = Fetcher(t) /\ (Fetcher(t) => Plan(t)')
    BY <2>1 DEF Fetcher, Plan, DBGetCoin, DynamicMemoryUsage, Entries
  <2> QED BY <2>1, <2>2, <2>3 DEF Marked, Alone
<1> QED
  BY <1>1, <1>2, <1>3, <1>4, <1>5, <1>6, <1>7, <1>8, <1>9, <1>10, <1>11 DEF FetchNext, Step

-----------------------------------------------------------------------------
(* The theorems.                                                            *)

(* In every reachable state of any number of threads, only one thread loads *)
(* a coin, mFetchingCoins names exactly the coins being loaded, and what    *)
(* CoinsDB::GetCoin asserts after its unlocked read holds.                  *)
THEOREM OneThreadFetches ==
  ASSUME FetchAssumption
  PROVE  FetchSafety => []OneFetcher
<1>1. ASSUME FetchInv PROVE OneFetcher
  <2>1. fetching = {outpoint[t] : t \in {u \in Reader : Fetcher(u)}}
    BY <1>1 DEF FetchInv, Marked, FetchType
  <2>2. ASSUME NEW t \in Reader, place[t] = "store"
        PROVE  LET o == outpoint[t] IN
               /\ cache[o] = IF coinFromCache[t] THEN "bare" ELSE "none"
               /\ coinFromCache[t] \/ hasSpaceForScript(ScriptSize[o]) => coinFromView[t] = "full"
    <3>1. Plan(t)
      BY <1>1, <2>2 DEF FetchInv, Fetcher
    <3>2. /\ DynamicMemoryUsage \in Nat /\ Threshold \in Nat /\ ScriptSize[outpoint[t]] \in Nat
          /\ maxScriptSize[t] \in Nat /\ maxScriptLoadingSize[t] \in Nat
      BY <1>1, MemoryType DEF FetchInv, FetchType, FetchAssumption
    <3>3. coinFromCache[t] \/ hasSpaceForScript(ScriptSize[outpoint[t]])
            => ScriptSize[outpoint[t]] <= maxScriptLoadingSize[t]
      BY <3>1, <3>2 DEF Plan, hasSpaceForScript
    <3> QED BY <2>2, <3>1, <3>3 DEF Plan, DBGetCoin
  <2> QED BY <1>1, <2>1, <2>2 DEF FetchInv, Alone, OneFetcher
<1>2. FetchInv /\ [FetchNext]_fetchVars => FetchInv'
  BY FetchStep
<1> QED BY <1>1, <1>2, FetchInitially, PTL DEF FetchSafety

(* Whatever the other threads load or the writer commits in between,        *)
(* GetCoin returns a coin if and only if there is one, and its script if    *)
(* the caller asked for it.                                                 *)
THEOREM CallersAnswered ==
  ASSUME FetchAssumption
  PROVE  FetchSafety => []Answered
<1>1. FetchInv => Answered
  BY DEF FetchInv
<1>2. FetchInv /\ [FetchNext]_fetchVars => FetchInv'
  BY FetchStep
<1> QED BY <1>1, <1>2, FetchInitially, PTL DEF FetchSafety

(* cachedCoinsUsage, adjusted by every insertion, replacement and removal,  *)
(* is at all times the sum over the entries of cacheCoins.                  *)
THEOREM UsageIsExact ==
  ASSUME FetchAssumption
  PROVE  FetchSafety => []UsageExact
<1>1. FetchInv => UsageExact
  BY DEF FetchInv
<1>2. FetchInv /\ [FetchNext]_fetchVars => FetchInv'
  BY FetchStep
<1> QED BY <1>1, <1>2, FetchInitially, PTL DEF FetchSafety
=============================================================================
