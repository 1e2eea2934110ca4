----------------------------- MODULE CoinsCache -----------------------------
(***************************************************************************)
(* The layered cache of unspent coins (src/src/coins.{h,cpp}, txdb.cpp):   *)
(* leveldb below CoinsDB::mCache (`store'), below the private cache of     *)
(* each CoinsDBSpan, with the DIRTY and FRESH flags, coins cached without  *)
(* their script, entries of a span that only point into the store, and the *)
(* ForceDetach/TryReattach protocol of parallel block validation.          *)
(*                                                                         *)
(* The read lock of an attached span and the write locks of TryFlush,      *)
(* Flush and Uncache are the guards that WPUSMutex establishes.            *)
(***************************************************************************)
EXTENDS FiniteSets

CONSTANTS
  Outpoint,     \* transaction outputs
  Coin,         \* contents of an unspent output
  Spent,        \* the null coin; in leveldb: no record
  Block,        \* block hashes
  Null,         \* the null hash
  Span,         \* CoinsDBSpan objects
  None,         \* absence of a cache entry
  UtxoOf        \* the unspent coins after each block

Map == [Outpoint -> Coin \cup {Spent}]

Entry == [coin : Coin \cup {Spent}, script : BOOLEAN, own : BOOLEAN,
          dirty : BOOLEAN, fresh : BOOLEAN]

ASSUME CoinsAssumption ==
  /\ Spent \notin Coin
  /\ Null \notin Block
  /\ None \notin Entry
  /\ None \notin Map
  /\ UtxoOf \in [Block -> Map]

VARIABLES
  db,          \* coin records in leveldb
  dbBest,      \* DB_BEST_BLOCK
  store,       \* CoinsDB::mCache
  hashBlock,   \* CoinsDB::hashBlock, Null until it is first asked for
  mode,        \* per span: "free", "attached" or "detached"
  hash,        \* per span: its hashBlock
  cache,       \* per span: its mCache
  ins          \* per span: inputs looked up and not yet spent by UpdateCoins

vars == <<db, dbBest, store, hashBlock, mode, hash, cache, ins>>

Cache == [Outpoint -> Entry \cup {None}]
Mode == {"free", "attached", "detached"}
Empty == [o \in Outpoint |-> None]

TypeOK ==
  /\ db \in Map
  /\ dbBest \in Block
  /\ store \in Cache
  /\ hashBlock \in Block \cup {Null}
  /\ mode \in [Span -> Mode]
  /\ hash \in [Span -> Block \cup {Null}]
  /\ \A s \in Span : mode[s] # "free" => hash[s] \in Block
  /\ cache \in [Span -> Cache]
  /\ ins \in [Span -> SUBSET Outpoint]

Init ==
  /\ dbBest \in Block
  /\ db = UtxoOf[dbBest]
  /\ store = Empty
  /\ hashBlock = Null
  /\ mode = [s \in Span |-> "free"]
  /\ hash = [s \in Span |-> Null]
  /\ cache = [s \in Span |-> Empty]
  /\ ins = [s \in Span |-> {}]

-----------------------------------------------------------------------------
(* CoinsStore: the operations on one entry.                                 *)

(* What a reader of a layer sees: its entry, or the layer below.            *)
Through(e, below) == IF e = None THEN below ELSE e.coin

Dirty(e) == e # None /\ e.dirty
Fresh(e) == e # None /\ e.fresh
Unspent(e) == e # None /\ e.coin # Spent

(* AddCoin(outpoint, CoinImpl): an unspent coin loaded from below.          *)
Loaded(c, withScript, owning) ==
  [coin |-> c, script |-> withScript, own |-> owning, dirty |-> FALSE, fresh |-> FALSE]

(* A mutant: FRESH is set although the erasure is still to be written.      *)
AddedAlwaysFresh(e, c, overwrite) ==
  [coin |-> c, script |-> TRUE, own |-> TRUE, dirty |-> TRUE,
   fresh |-> Fresh(e) \/ ~overwrite]

(* AddCoin(outpoint, CoinWithScript, possible_overwrite).  The logic_error  *)
(* is thrown when e is unspent and overwrite is false.                      *)
Added(e, c, overwrite) ==
  [coin |-> c, script |-> TRUE, own |-> TRUE, dirty |-> TRUE,
   fresh |-> Fresh(e) \/ (~overwrite /\ ~Dirty(e))]

(* SpendCoin: a FRESH entry disappears, any other is cleared and DIRTY.     *)
SpentEntry(e) ==
  IF e = None \/ Fresh(e) THEN None
  ELSE [coin |-> Spent, script |-> TRUE, own |-> TRUE, dirty |-> TRUE, fresh |-> FALSE]

(* BatchWrite of one entry: AddEntry, EraseCoin or UpdateEntry.             *)
Merged(child, parent) ==
  IF ~Dirty(child) THEN parent
  ELSE IF parent = None
       THEN IF child.fresh /\ child.coin = Spent THEN None ELSE child
  ELSE IF parent.fresh /\ child.coin = Spent THEN None
  ELSE [child EXCEPT !.fresh = parent.fresh]

-----------------------------------------------------------------------------
(* CoinsDB and CCoinsViewCache: reading.                                    *)

GetBestBlock == IF hashBlock = Null THEN dbBest ELSE hashBlock

StoreView == [o \in Outpoint |-> Through(store[o], db[o])]
SpanView(s) == [o \in Outpoint |-> Through(cache[s][o], StoreView[o])]

(* CoinsDB::GetCoin: the store entries it can leave behind.  Whether a      *)
(* script is kept depends on the space below the cache threshold.           *)
StoreAfterGet(o, needScript) ==
  IF store[o] = None
  THEN IF db[o] = Spent THEN {None} ELSE {Loaded(db[o], b, TRUE) : b \in BOOLEAN}
  ELSE IF needScript /\ store[o].coin # Spent
       THEN {store[o], [store[o] EXCEPT !.script = TRUE]}
  ELSE {store[o]}

(* CCoinsViewCache::GetCoin: does it ask the layer below?                   *)
Asks(f, needScript) ==
  f = None \/ (needScript /\ f.coin # Spent /\ ~f.script)

(* The span entry it leaves when the store holds e afterwards.  A coin that *)
(* the store holds with its script is only pointed to.                      *)
SpanAfterGet(f, e) ==
  IF f # None THEN f
  ELSE IF Unspent(e) THEN Loaded(e.coin, e.script, ~e.script)
  ELSE None

(* GetCoin of a span; the span entry is then replaced by New(entry).        *)
SpanGet(s, o, needScript, New(_)) ==
  \E e \in IF Asks(cache[s][o], needScript)
            THEN StoreAfterGet(o, needScript) ELSE {store[o]} :
    /\ store' = [store EXCEPT ![o] = e]
    /\ cache' = [cache EXCEPT ![s][o] = New(SpanAfterGet(@, e))]

Same(f) == f

Attached(s) == mode[s] = "attached"

(* CoinsDBView::GetCoin by any thread with a read lock.                     *)
ViewGetCoin(o, needScript) ==
  /\ \E e \in StoreAfterGet(o, needScript) : store' = [store EXCEPT ![o] = e]
  /\ UNCHANGED <<db, dbBest, hashBlock, mode, hash, cache, ins>>

-----------------------------------------------------------------------------
(* Connecting and disconnecting blocks on a span.                           *)

(* The constructor takes the read lock; ConnectBlock and DisconnectBlock    *)
(* begin by comparing GetBestBlock with the block they start from.          *)
Open(s) ==
  /\ mode[s] = "free"
  /\ mode' = [mode EXCEPT ![s] = "attached"]
  /\ hash' = [hash EXCEPT ![s] = GetBestBlock]
  /\ hashBlock' = GetBestBlock
  /\ UNCHANGED <<db, dbBest, store, cache, ins>>

(* checkScripts looks the inputs of a transaction up (HaveInputs, GetCoin,  *)
(* GetCoinWithScript) before UpdateCoins spends them.                       *)
HaveInput(s, o, needScript) ==
  /\ Attached(s)
  /\ SpanView(s)[o] # Spent
  /\ SpanGet(s, o, needScript, Same)
  /\ ins' = [ins EXCEPT ![s] = @ \cup {o}]
  /\ UNCHANGED <<db, dbBest, hashBlock, mode, hash>>

SpendCoin(s, o) ==
  /\ SpanGet(s, o, TRUE, SpentEntry)
  /\ UNCHANGED <<db, dbBest, hashBlock, mode, hash>>

(* UpdateCoins: the inputs, then the outputs.                               *)
SpendInput(s, o) ==
  /\ Attached(s) /\ o \in ins[s]
  /\ SpendCoin(s, o)
  /\ ins' = [ins EXCEPT ![s] = @ \ {o}]

(* AddCoins with check = false.  Only a coinbase may overwrite an unspent   *)
(* output; the caller knows that any other output is new.                   *)
AddOutput(s, o, c, coinbase) ==
  /\ Attached(s) /\ ins[s] = {}
  /\ coinbase \/ SpanView(s)[o] = Spent
  /\ cache' = [cache EXCEPT ![s][o] = Added(@, c, coinbase)]
  /\ UNCHANGED <<db, dbBest, store, hashBlock, mode, hash, ins>>

(* ApplyBlockUndo spends the outputs of a transaction ...                   *)
UndoOutput(s, o) ==
  /\ Attached(s) /\ ins[s] = {}
  /\ SpendCoin(s, o)
  /\ UNCHANGED ins

(* ... and UndoCoinSpend restores its inputs.                               *)
UndoInput(s, o, c) ==
  /\ Attached(s) /\ ins[s] = {}
  /\ SpanGet(s, o, FALSE, LAMBDA f : Added(f, c, Unspent(f)))
  /\ UNCHANGED <<db, dbBest, hashBlock, mode, hash, ins>>

(* The loop of checkScripts over the transactions of a block is done.       *)
Complete(s, b) == ins[s] = {} /\ SpanView(s) = UtxoOf[b]

ForceDetach(s) ==
  /\ Attached(s)
  /\ \E b \in Block : Complete(s, b)
  /\ mode' = [mode EXCEPT ![s] = "detached"]
  /\ UNCHANGED <<db, dbBest, store, hashBlock, hash, cache, ins>>

Close(s) ==
  /\ mode' = [mode EXCEPT ![s] = "free"]
  /\ hash' = [hash EXCEPT ![s] = Null]
  /\ cache' = [cache EXCEPT ![s] = Empty]
  /\ ins' = [ins EXCEPT ![s] = {}]

(* A mutant: the best block is not compared.                                *)
TryReattachBlindly(s) ==
  /\ mode[s] = "detached"
  /\ mode' = [mode EXCEPT ![s] = "attached"]
  /\ hashBlock' = GetBestBlock
  /\ UNCHANGED <<hash, cache, ins>>
  /\ UNCHANGED <<db, dbBest, store>>

(* When the best block changed Connect throws and the span is destroyed.    *)
TryReattach(s) ==
  /\ mode[s] = "detached"
  /\ IF GetBestBlock = hash[s]
     THEN /\ mode' = [mode EXCEPT ![s] = "attached"]
          /\ UNCHANGED <<hash, cache, ins>>
     ELSE Close(s)
  /\ hashBlock' = GetBestBlock
  /\ UNCHANGED <<db, dbBest, store>>

(* A mutant: the other readers are not waited for.                          *)
TryFlushHasty(s, b) ==
  /\ Attached(s)
  /\ Complete(s, b)
  /\ store' = [o \in Outpoint |-> Merged(cache[s][o], store[o])]
  /\ hashBlock' = b
  /\ hash' = [hash EXCEPT ![s] = b]
  /\ cache' = [cache EXCEPT ![s] = Empty]
  /\ UNCHANGED <<db, dbBest, mode, ins>>

(* SetBestBlock and TryFlush.  The write lock waits for the other readers.  *)
TryFlush(s, b) ==
  /\ Attached(s) /\ \A r \in Span \ {s} : ~Attached(r)
  /\ Complete(s, b)
  /\ store' = [o \in Outpoint |-> Merged(cache[s][o], store[o])]
  /\ hashBlock' = b
  /\ hash' = [hash EXCEPT ![s] = b]
  /\ cache' = [cache EXCEPT ![s] = Empty]
  /\ UNCHANGED <<db, dbBest, mode, ins>>

(* The block is invalid, validation is cancelled, or the span is no longer  *)
(* needed: it is destroyed with whatever it holds.                          *)
Destroy(s) ==
  /\ mode[s] # "free"
  /\ Close(s)
  /\ UNCHANGED <<db, dbBest, store, hashBlock>>

-----------------------------------------------------------------------------
(* The owner of the database.                                               *)

NoReader == \A s \in Span : ~Attached(s)

(* CoinsDB::Flush with DBBatchWrite; CoinsRecovery opens this step up.      *)
Flush ==
  /\ NoReader
  /\ hashBlock # Null
  /\ db' = [o \in Outpoint |-> IF Dirty(store[o]) THEN store[o].coin ELSE db[o]]
  /\ dbBest' = hashBlock
  /\ store' = Empty
  /\ UNCHANGED <<hashBlock, mode, hash, cache, ins>>

(* Mutants: the write lock is not taken; modified entries are dropped too.  *)
UncacheUnlocked(o) ==
  /\ store[o] # None /\ ~store[o].dirty /\ ~store[o].fresh
  /\ store' = [store EXCEPT ![o] = None]
  /\ UNCHANGED <<db, dbBest, hashBlock, mode, hash, cache, ins>>

Uncache(o) ==
  /\ NoReader
  /\ store[o] # None /\ ~store[o].dirty /\ ~store[o].fresh
  /\ store' = [store EXCEPT ![o] = None]
  /\ UNCHANGED <<db, dbBest, hashBlock, mode, hash, cache, ins>>

Restart ==
  /\ store' = Empty
  /\ hashBlock' = Null
  /\ mode' = [s \in Span |-> "free"]
  /\ hash' = [s \in Span |-> Null]
  /\ cache' = [s \in Span |-> Empty]
  /\ ins' = [s \in Span |-> {}]
  /\ UNCHANGED <<db, dbBest>>

SpanStep(s) ==
  \/ Open(s)
  \/ \E o \in Outpoint :
       \/ \E needScript \in BOOLEAN : HaveInput(s, o, needScript)
       \/ SpendInput(s, o)
       \/ \E c \in Coin, coinbase \in BOOLEAN : AddOutput(s, o, c, coinbase)
       \/ UndoOutput(s, o)
       \/ \E c \in Coin : UndoInput(s, o, c)
  \/ ForceDetach(s)
  \/ TryReattach(s)
  \/ \E b \in Block : TryFlush(s, b)
  \/ Destroy(s)

Next ==
  \/ \E s \in Span : SpanStep(s)
  \/ \E o \in Outpoint, needScript \in BOOLEAN : ViewGetCoin(o, needScript)
  \/ \E o \in Outpoint : Uncache(o)
  \/ Flush
  \/ Restart

Spec == Init /\ [][Next]_vars

-----------------------------------------------------------------------------
(* Properties.                                                              *)

(* At every moment the store and leveldb together are exactly the unspent   *)
(* coins of the block that GetBestBlock names, and leveldb alone those of   *)
(* the block it records: no interleaving of commits, flushes, evictions and *)
(* failed validations loses or resurrects a coin.                           *)
StoreIsBest == StoreView = UtxoOf[GetBestBlock] /\ db = UtxoOf[dbBest]

(* FRESH is never misapplied: an entry with that flag has no unspent coin   *)
(* below it, so erasing it on SpendCoin is right and the logic_error of     *)
(* BatchWrite is never thrown.                                              *)
FreshSound ==
  \A o \in Outpoint :
    /\ Fresh(store[o]) => db[o] = Spent
    /\ \A s \in Span : Fresh(cache[s][o]) => UtxoOf[hash[s]][o] = Spent

(* The assertion of DBBatchWrite: a modified unspent entry carries its      *)
(* script.  In the store it owns the storage too.                           *)
DirtyHasScript ==
  \A o \in Outpoint :
    /\ Dirty(store[o]) => store[o].script /\ store[o].own
    /\ \A s \in Span : Dirty(cache[s][o]) => cache[s][o].script /\ cache[s][o].own

(* An entry of a usable span that points into the store finds there the     *)
(* same coin with its script, also after the span was detached, the store   *)
(* was flushed or evicted, and the span was attached again.                 *)
NoDangling ==
  \A s \in Span, o \in Outpoint :
    Attached(s) /\ cache[s][o] # None /\ ~cache[s][o].own =>
      Unspent(store[o]) /\ store[o].script /\ store[o].coin = cache[s][o].coin

(* What a span works on: its changes on top of the block it started from.   *)
WorkView(s) == [o \in Outpoint |-> Through(cache[s][o], UtxoOf[hash[s]][o])]

(* While a span is attached nobody changes the coins under it, and a span   *)
(* that TryReattach accepts sees what it saw when it was detached.          *)
SpanStable == \A s \in Span : Attached(s) => SpanView(s) = WorkView(s)

(* The caches implement the plain map of UTXOSet.                           *)
Work == [s \in Span |-> IF mode[s] = "free" THEN None ELSE WorkView(s)]
Base == [s \in Span |-> IF mode[s] = "free" THEN None ELSE UtxoOf[hash[s]]]

Map0 == INSTANCE UTXOSet WITH utxo <- StoreView, disk <- db, work <- Work, base <- Base
Implements == Map0!Spec
=============================================================================
