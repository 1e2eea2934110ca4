----------------------------- MODULE CoinsFetch -----------------------------
(***************************************************************************)
(* CoinsDB::GetCoin by several threads (src/src/txdb.cpp): the coin is     *)
(* looked up in the cache under mCoinsViewCacheMtx, read from leveldb      *)
(* without it and stored under it again.  mFetchingCoins keeps two threads *)
(* from loading the same coin; how much of a script is read is decided     *)
(* before the read and whether it is kept only after it.                   *)
(*                                                                         *)
(* All callers hold the read lock of the coins database; a writer acts     *)
(* when nobody does (WPUSMutex).                                           *)
(***************************************************************************)
EXTENDS Integers, FiniteSets, FiniteSetsExt

CONSTANTS
  Reader,       \* threads that look coins up
  Coin,         \* outpoints
  ScriptSize,   \* GetScriptSize() of each coin
  Heap,         \* memusage::DynamicUsage() of each script
  Special,      \* coins whose script is stored in a compressed form
  Node,         \* memory of an entry of cacheCoins without its script
  Threshold,    \* mCacheSizeThreshold
  AnySize       \* numeric_limits<size_t>::max()

VARIABLES
  coinDb,       \* coins with a record in leveldb
  cache,        \* CoinsStore::cacheCoins
  coinsUsage,   \* CoinsStore::cachedCoinsUsage
  fetching,     \* mFetchingCoins
  place,        \* per thread: its place in GetCoin
  outpoint, maxScriptSize,               \* the arguments
  coinFromCache, maxScriptLoadingSize,   \* the local variables
  coinFromView,
  answer        \* what GetCoin returned

(* Sizes are unsigned, and no script is larger than numeric_limits<size_t>::max().       *)
FetchAssumption ==
  /\ IsFiniteSet(Coin)
  /\ ScriptSize \in [Coin -> Nat] /\ Heap \in [Coin -> Nat]
  /\ Node \in Nat /\ Threshold \in Nat /\ AnySize \in Nat
  /\ \A o \in Coin : ScriptSize[o] <= AnySize

fetchLocals == <<place, outpoint, maxScriptSize, coinFromCache,
                 maxScriptLoadingSize, coinFromView, answer>>
fetchVars == <<coinDb, cache, coinsUsage, fetching, fetchLocals>>

(* A coin is absent, known without its script, or known with it.            *)
Found == {"none", "bare", "full"}

(* "bare" and "loaded" entries are clean, "added" and "spent" ones DIRTY.   *)
Kind == {"none", "bare", "loaded", "added", "spent"}

PC == {"idle", "look", "read", "drop", "store", "done"}

FetchType ==
  /\ coinDb \subseteq Coin
  /\ cache \in [Coin -> Kind]
  /\ coinsUsage \in Nat
  /\ fetching \subseteq Coin
  /\ place \in [Reader -> PC]
  /\ outpoint \in [Reader -> Coin]
  /\ maxScriptSize \in [Reader -> {0, AnySize}]
  /\ coinFromCache \in [Reader -> BOOLEAN]
  /\ maxScriptLoadingSize \in [Reader -> Nat]
  /\ coinFromView \in [Reader -> Found]
  /\ answer \in [Reader -> Found]

FetchInit ==
  /\ coinDb \in SUBSET Coin
  /\ cache = [o \in Coin |-> "none"]
  /\ coinsUsage = 0
  /\ fetching = {}
  /\ place = [t \in Reader |-> "idle"]
  /\ outpoint \in [Reader -> Coin]
  /\ maxScriptSize = [t \in Reader |-> 0]
  /\ coinFromCache = [t \in Reader |-> FALSE]
  /\ maxScriptLoadingSize = [t \in Reader |-> 0]
  /\ coinFromView = [t \in Reader |-> "none"]
  /\ answer = [t \in Reader |-> "none"]

-----------------------------------------------------------------------------
(* Sizes.                                                                   *)

(* An empty script needs no loading.                                        *)
HasScript(o, kind) == kind \in {"loaded", "added", "full"} \/ (kind = "bare" /\ ScriptSize[o] = 0)

(* CCoinsCacheEntry::DynamicMemoryUsage.                                    *)
EntryUsage(o, kind) == IF kind \in {"loaded", "added"} THEN Heap[o] ELSE 0

Usage(store) == [o \in Coin |-> EntryUsage(o, store[o])]

Total(f) == MapThenSumSet(LAMBDA o : f[o], DOMAIN f)

Entries == {o \in Coin : cache[o] # "none"}
DynamicMemoryUsage == Node * Cardinality(Entries) + coinsUsage

(* A mutant: only the free room counts, not what the caller asked for.      *)
roomOnly(requested) ==
  IF Threshold > DynamicMemoryUsage THEN Threshold - DynamicMemoryUsage ELSE requested

getMaxScriptLoadingSize(requested) ==
  IF Threshold > DynamicMemoryUsage
  THEN LET room == Threshold - DynamicMemoryUsage
       IN IF requested > room THEN requested ELSE room
  ELSE requested

hasSpaceForScript(size) == Threshold >= DynamicMemoryUsage + size

-----------------------------------------------------------------------------
(* GetCoin.                                                                 *)

Call(t, o, size) ==
  /\ place[t] = "idle"
  /\ place' = [place EXCEPT ![t] = "look"]
  /\ outpoint' = [outpoint EXCEPT ![t] = o]
  /\ maxScriptSize' = [maxScriptSize EXCEPT ![t] = size]
  /\ UNCHANGED <<coinDb, cache, coinsUsage, fetching, coinFromCache,
                 maxScriptLoadingSize, coinFromView, answer>>

Return(t, r) ==
  /\ place' = [place EXCEPT ![t] = "done"]
  /\ answer' = [answer EXCEPT ![t] = r]

(* The cache answers.                                                       *)
Hit(t) ==
  LET o == outpoint[t] IN
  /\ place[t] = "look"
  /\ \/ cache[o] = "spent" /\ Return(t, "none")
     \/ HasScript(o, cache[o]) /\ Return(t, "full")
     \/ cache[o] = "bare" /\ maxScriptSize[t] < ScriptSize[o] /\ Return(t, "bare")
  /\ UNCHANGED <<coinDb, cache, coinsUsage, fetching, outpoint, maxScriptSize,
                 coinFromCache, maxScriptLoadingSize, coinFromView>>

Misses(t) ==
  LET o == outpoint[t] IN
  cache[o] = "none" \/ (cache[o] = "bare" /\ ~HasScript(o, "bare") /\ maxScriptSize[t] >= ScriptSize[o])

(* The first thread that misses will read; the others yield and look again. *)
Miss(t) ==
  /\ place[t] = "look" /\ Misses(t)
  /\ outpoint[t] \notin fetching
  /\ fetching' = fetching \cup {outpoint[t]}
  /\ maxScriptLoadingSize' =
       [maxScriptLoadingSize EXCEPT ![t] = getMaxScriptLoadingSize(maxScriptSize[t])]
  /\ coinFromCache' = [coinFromCache EXCEPT ![t] = cache[outpoint[t]] # "none"]
  /\ place' = [place EXCEPT ![t] = "read"]
  /\ UNCHANGED <<coinDb, cache, coinsUsage, outpoint, maxScriptSize, coinFromView, answer>>

(* DBGetCoin skips a script that is too large unless it is compressed.      *)
DBGetCoin(o, size) ==
  IF o \notin coinDb THEN "none"
  ELSE IF ScriptSize[o] <= size \/ o \in Special THEN "full" ELSE "bare"

Read(t) ==
  LET c == DBGetCoin(outpoint[t], maxScriptLoadingSize[t]) IN
  /\ place[t] = "read"
  /\ coinFromView' = [coinFromView EXCEPT ![t] = c]
  /\ place' = [place EXCEPT ![t] = IF c = "none" THEN "drop" ELSE "store"]
  /\ UNCHANGED <<coinDb, cache, coinsUsage, fetching, outpoint, maxScriptSize,
                 coinFromCache, maxScriptLoadingSize, answer>>

(* A mutant: the guard does not run when there is no such coin.             *)
DropLeaky(t) ==
  /\ place[t] = "drop"
  /\ Return(t, "none")
  /\ UNCHANGED <<coinDb, cache, coinsUsage, fetching, outpoint, maxScriptSize,
                 coinFromCache, maxScriptLoadingSize, coinFromView>>

(* There is no such coin: the guard erases the mark.                        *)
Drop(t) ==
  /\ place[t] = "drop"
  /\ fetching' = fetching \ {outpoint[t]}
  /\ Return(t, "none")
  /\ UNCHANGED <<coinDb, cache, coinsUsage, outpoint, maxScriptSize,
                 coinFromCache, maxScriptLoadingSize, coinFromView>>

(* A mutant: ReplaceWithCoinWithScript does not count the script.           *)
StoreUncounted(t) ==
  LET o == outpoint[t]
      kind == IF hasSpaceForScript(ScriptSize[o]) THEN "loaded" ELSE "bare"
  IN
  /\ place[t] = "store"
  /\ fetching' = fetching \ {o}
  /\ cache' = [cache EXCEPT ![o] = kind]
  /\ coinsUsage' = coinsUsage + IF coinFromCache[t] THEN 0 ELSE EntryUsage(o, kind)
  /\ Return(t, coinFromView[t])
  /\ UNCHANGED <<coinDb, outpoint, maxScriptSize, coinFromCache,
                 maxScriptLoadingSize, coinFromView>>

(* The script is kept when there is room, else only the rest of the coin.   *)
Store(t) ==
  LET o == outpoint[t]
      kind == IF hasSpaceForScript(ScriptSize[o]) THEN "loaded" ELSE "bare"
  IN
  /\ place[t] = "store"
  /\ fetching' = fetching \ {o}
  /\ cache' = [cache EXCEPT ![o] = kind]
  /\ coinsUsage' = coinsUsage + EntryUsage(o, kind)
  /\ Return(t, coinFromView[t])
  /\ UNCHANGED <<coinDb, outpoint, maxScriptSize, coinFromCache,
                 maxScriptLoadingSize, coinFromView>>

(* The caller is done with the coin; the locals are gone.                   *)
Finish(t) ==
  /\ place[t] = "done"
  /\ place' = [place EXCEPT ![t] = "idle"]
  /\ maxScriptSize' = [maxScriptSize EXCEPT ![t] = 0]
  /\ coinFromCache' = [coinFromCache EXCEPT ![t] = FALSE]
  /\ maxScriptLoadingSize' = [maxScriptLoadingSize EXCEPT ![t] = 0]
  /\ coinFromView' = [coinFromView EXCEPT ![t] = "none"]
  /\ answer' = [answer EXCEPT ![t] = "none"]
  /\ UNCHANGED <<coinDb, cache, coinsUsage, fetching, outpoint>>

-----------------------------------------------------------------------------
(* The writer, alone.                                                       *)

NoReader == \A t \in Reader : place[t] = "idle"

(* The entries that BatchWrite can leave for a coin: as it was, added,      *)
(* spent (UpdateEntry, or AddEntry if it is not cached), or erased, which   *)
(* needs FRESH and so a coin that is not in leveldb.                        *)
WrittenEntry(o) ==
  {cache[o], "added"}
  \cup (IF cache[o] \in {"bare", "loaded", "added"} \/ (cache[o] = "none" /\ o \in coinDb)
         THEN {"spent"} ELSE {})
  \cup (IF cache[o] = "added" /\ o \notin coinDb THEN {"none"} ELSE {})

UsageChange(new) == Total([o \in Coin |-> Usage(new)[o] - Usage(cache)[o]])

BatchWrite(new) ==
  /\ NoReader
  /\ \A o \in Coin : new[o] \in WrittenEntry(o)
  /\ cache' = new
  /\ coinsUsage' = coinsUsage + UsageChange(new)
  /\ UNCHANGED <<coinDb, fetching, fetchLocals>>

Flush ==
  /\ NoReader
  /\ coinDb' = (coinDb \cup {o \in Coin : cache[o] = "added"}) \ {o \in Coin : cache[o] = "spent"}
  /\ cache' = [o \in Coin |-> "none"]
  /\ coinsUsage' = 0
  /\ UNCHANGED <<fetching, fetchLocals>>

Uncache(o) ==
  /\ NoReader
  /\ cache[o] \in {"bare", "loaded"}
  /\ cache' = [cache EXCEPT ![o] = "none"]
  /\ coinsUsage' = coinsUsage - EntryUsage(o, cache[o])
  /\ UNCHANGED <<coinDb, fetching, fetchLocals>>

Step(t) == Hit(t) \/ Miss(t) \/ Read(t) \/ Drop(t) \/ Store(t) \/ Finish(t)

FetchNext ==
  \/ \E t \in Reader : Step(t)
  \/ \E t \in Reader, o \in Coin, size \in {0, AnySize} : Call(t, o, size)
  \/ \E new \in [Coin -> Kind] : BatchWrite(new)
  \/ Flush
  \/ \E o \in Coin : Uncache(o)

FetchSafety == FetchInit /\ [][FetchNext]_fetchVars

(* Every thread inside GetCoin keeps running.                               *)
FetchSpec == FetchSafety /\ \A t \in Reader : WF_fetchVars(Step(t))

-----------------------------------------------------------------------------
(* Properties.                                                              *)

Fetcher(t) == place[t] \in {"read", "drop", "store"}

(* "Only one thread can reach this point for each distinct outpoint", and   *)
(* mFetchingCoins names exactly the coins that some thread is loading: no   *)
(* mark is left behind that would make later readers wait for ever.  So what *)
(* the code asserts after the read holds whenever it gets the mutex: the    *)
(* entry is still the one it found, and a script that will be kept was      *)
(* read, although other threads filled the cache in between.                *)
OneFetcher ==
  /\ fetching = {outpoint[t] : t \in {u \in Reader : Fetcher(u)}}
  /\ \A t, u \in Reader : Fetcher(t) /\ Fetcher(u) /\ outpoint[t] = outpoint[u] => t = u
  /\ \A t \in Reader : place[t] = "store" =>
       LET o == outpoint[t] IN
       /\ cache[o] = IF coinFromCache[t] THEN "bare" ELSE "none"
       /\ coinFromCache[t] \/ hasSpaceForScript(ScriptSize[o]) => coinFromView[t] = "full"

(* A caller gets a coin if and only if there is one, and with its script if *)
(* it asked for it (the assertion of GetCoinWithScript).                    *)
Answered ==
  \A t \in Reader : place[t] = "done" =>
    LET o == outpoint[t] IN
    /\ answer[t] = "none" <=> cache[o] = "spent" \/ (cache[o] = "none" /\ o \notin coinDb)
    /\ answer[t] = "bare" => maxScriptSize[t] < ScriptSize[o]

(* cachedCoinsUsage, which is only ever adjusted, is the sum over the       *)
(* entries, so it never wraps below zero and the threshold means something. *)
UsageExact == coinsUsage = Total(Usage(cache))

=============================================================================
