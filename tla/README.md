# A TLA+ verification of the novobitcoin node

The modules in this directory model the part of the node that decides which
block chain is active and which coins are unspent: the coins database with its
cache layers and its mutex, its recovery after a crash, the activation of the
best chain by several threads, and the queue that checks scripts in parallel.
TLC checks each of them on small instances; TLAPS proves the safety of three of
them for every instance. `PROJECT.json` lists components, runs, mutants, the
source lines behind each definition, hazards and theorems. Source paths below
are relative to `src/src/`.

## 1. Inventory of the system

| Part | State | Operations | What makes it hard |
|---|---|---|---|
| Coins database lock (`write_preferring_upgradable_mutex`) | two counters, handles | ReadLock, WriteLock, TryWriteLock (upgrade), Release | upgrade against writer, wake-ups, an unlocked read of a counter |
| Coins caches (`coins`, `txdb`) | leveldb, store, private cache per span, DIRTY and FRESH flags | lookups, spend, add, undo, detach, reattach, commit, flush, evict | parallel block validation over one store; borrowed pointers |
| Coin loading (`txdb.cpp` GetCoin) | cache, usage counter, mFetchingCoins | look up, read, store | decision before, use after an unlocked disk read |
| Flush and recovery (`txdb.cpp`, `validation.cpp` ReplayBlocks) | coins, best block and head blocks on disk; block index on disk | batches, replay, start-up | a crash anywhere, also during recovery |
| Chain activation (`validation.cpp`, `block_index.h`, `blockvalidation.h`) | block index, flags, candidates, tip, threads | headers, blocks, ActivateBestChain, five operator commands | cs_main released during script checks, retries, invalid blocks |
| Script checks (`checkqueue.h`, `checkqueuepool.h`, `taskcancellation.h`) | queue, counters, sessions | Add, Wait, cancel, interrupt, destroy; GetChecker | two condition variables, cancellation at any moment |
| Transaction validator, orphans, double-spend detector, rejects, propagator | queues by priority, batches, known spends, orphan pool | enqueue, batch, resubmit, retry, remove | lock order, transactions between two queues |
| Mempool (`txmempool`, eviction tracker) | entries, links, CPFP groups, primary and secondary pool | add, remove, trim, block, reorganisation | consistency of links, groups, counters and journal |
| Mempool database (`mempooltxdb`), time-locked mempool | task queue, batch, cross-reference key | add, remove, sync, clear, crash; update, finalise, purge | coalescing, crash between dump and write |
| Mining journal and assembler | journals, change sets, index, template | apply, replace, iterate | an index into a structure that others change |
| Peers (`net/`): block download tracker, associations, streams, message handling | blocks in flight, streams, queues | request, receive, fail, disconnect, move | several peers, disconnects at any time |
| Block files, pruning, merkle tree store | file infos, dirty sets, index | allocate, prune, reindex, crash | order of file and index writes |
| Concurrency utilities: blocking queue, thread pool, scheduler, HTTP work queue | queues, counters | push, pop, close; submit, pause; schedule, stop | lost wake-ups, shutdown |
| Address manager, caches, filters | tables, counters | add, good, attempt, select; insert, erase | drift of redundant counters |
| Pure algorithms: skip list, difficulty, merkle root, compression, leaky bucket | none | functions | boundaries and widths |
| Consensus rules, script interpreter, wallet, RPC, ZMQ, serialization, libraries | | | predicates, formatting, I/O: see section 8 |

How the parts meet: a message handler or an RPC thread stores a block in the
index and calls ActivateBestChain. It picks a target among the candidates,
opens a span over the coins database (a read lock), spends and adds the block's
coins in the span's cache, releases cs_main, detaches the span and has the
scripts checked by a queue from the pool. Then it takes cs_main again,
reattaches the span if the tip has not moved, and commits the span into the
store with an upgraded lock. From time to time the store is written to leveldb
in batches. Afterwards the mempool and the mining journal follow the new tip.

## 2. Plan

Order: what the node must never get wrong comes first (coins, recovery, chain
choice), then the queues under it, then transactions, then peers.

| Step | Modules | Abstract specification | State |
|---|---|---|---|
| 1 | WPUSMutex | | checked, proved |
| 2 | CoinsCache | UTXOSet | checked, proved, refinement proved |
| 3 | CoinsFetch | | checked |
| 4 | CoinsRecovery | | checked, proved |
| 5 | BlockTree, ChainState | | checked |
| 6 | CheckQueue | CheckSession | checked |
| 7 | CheckQueuePool over CheckSession | pool of sessions | to do |
| 8 | ThreadSafeQueue, then MempoolTxDB on it | bounded FIFO | to do |
| 9 | TxnValidator with double-spend detector and orphans; TimeLockedMempool | no transaction lost, no two spenders accepted | to do |
| 10 | Mempool with groups and eviction; Journal and assembler | mempool order | to do |
| 11 | BlockDownload, Association | | to do |
| 12 | BlockFiles with pruning, composed with CoinsRecovery; MerkleTreeStore | | to do |
| 13 | ThreadPool, Scheduler, HTTP work queue, AddrMan | | to do |
| 14 | Pure algorithms against reference definitions | | to do |

Proofs to come: NoDoubleValidation and ScriptsClosed of ChainState; OwnSession
and the refinement of CheckQueue; OneFetcher and UsageExact of CoinsFetch; then
the queue and the journal. The modules avoid RECURSIVE operators so that they
stay within reach of the prover.

Composition. CoinsCache relies on the lock through its guards (a span that is
attached excludes writers), which are what WPUSMutex!Exclusion and
HolderIsCurrent establish. CoinsFetch is the inside of the one step by which
CoinsCache reads a coin. CoinsRecovery is the inside of Flush and Restart. In
ChainState a script check is one nondeterministic answer: pass, fail or
cancelled, which is what CheckSession promises.

## 3. Modules and code

**WPUSMutex** (`write_preferring_upgradable_mutex.{h,cpp}`). One handle per
thread. Whatever the code does under `mMutex` is one step; the unlocked read of
`mWritePending` at the entry of TryWriteLock is a step of its own (`pc =
"enter"`). `asleep` holds the threads blocked on the condition variable; they
run again after notify_all or spuriously. `stale` is a history variable: the
data was written since the thread took its lock.

**UTXOSet** is the abstract specification: a map from outputs to coins, a copy
on disk, and transactions (spans) that work on a private copy and commit only
if nobody committed since they began.

**CoinsCache** (`coins.{h,cpp}`, `txdb.cpp`). `db` is leveldb, `store` the
cache of CoinsDB, `cache[s]` that of each span. An entry records its coin, its
DIRTY and FRESH flags, whether its script is loaded and whether it owns its data
or points into the store. Actions: lookup of an input, UpdateCoins (spend and
add, with the overwrite allowed to coinbases), undo of outputs and inputs,
ForceDetach, TryReattach, TryFlush, Flush, Uncache, Restart. Reading may fill
the layers below. A span is committed as block `b` only when what it shows is
what that block leaves unspent (`Complete`), which is what validation
establishes.

**CoinsFetch** (`txdb.cpp` CoinsDB::GetCoin). The three critical sections of
the lookup and the disk read between them, for several threads, with the
memory threshold and the usage counter. Writers act when no reader is inside.

**CoinsRecovery** (`txdb.cpp` DBBatchWrite, `validation.cpp` FlushStateToDisk
and ReplayBlocks, `processing_block_index.cpp`). A flush writes any subsets of
the modified coins one batch after another, the first with the head-blocks
record, the last with the best block. Crash is possible in every state.
Replay undoes and redoes one block per step.

**BlockTree** is the constant tree of blocks (parents, chains, heights, work).
**ChainState** (`validation.cpp`, `block_index.{h,cpp}`, `blockvalidation.h`)
has the block index as sets of blocks per status flag, the candidates, the
comparator with its three keys, and for each thread its place and local
variables in ActivateBestChain. `cs` is the owner of cs_main. A thread gives it
up at the end of a step and during a parallel script check. The commands
invalidateblock, reconsiderblock, softrejectblock, acceptblock and
preciousblock are actions; the first and the third keep cs_main while they
activate (`rpc`), as the code does.

**CheckSession** is what a session of the check queue promises.
**CheckQueue** (`checkqueue.h`, the scope guard of `checkqueuepool.h`) is the
loop that master and workers share: batches, the counters nTodo, nIdle and
nTotal, both condition variables, the token that is tested without the mutex,
the guard that cleans up after interrupted threads, and the destructor. A check
is represented by the number of the session it was added in.

`MC*` modules hold the constants for TLC. Definitions introduced as mutants
are wrong variants of an operation, one per property: with the variant in its
place the property is violated. They are not part of any specification.

## 4. Runs

| Run | Instance | States | Shows |
|---|---|---|---|
| wpus | 4 threads | 20,625 | exclusion, current data after an upgrade, no lost wake-up; a writer gets the lock and an upgrade returns |
| coins | 2 outputs, 2 coins, 2 blocks, 2 spans | 64,758 | the layers add up to the coins of the best block, flags and pointers are sound, UTXOSet is implemented |
| fetch | 3 threads, 2 coins | 127,002 | one loader per coin, correct answers, exact usage, lookups return |
| recovery | 2 branches of 2 blocks, 4 outputs | 20,582 | every crash leaves something that can be and is repaired; the node starts |
| chain_parallel | 3 threads, 5 blocks with siblings, 1 invalid, 1 cancellation | 65,440 | no double validation, best chain never forgotten, ends up active |
| chain_commands | 1 thread, two chains, any 2 of 5 commands | 242,389 | the node at rest is on the best usable chain |
| chain_live | 2 threads, the same tree, 1 block invalid before and 1 during its script checks | 7,624 | each ActivateBestChain returns |
| chain_race, chain_seesaw | see section 7 | | violations |
| check_queue | 2 workers and the master, 2 sessions of 2 checks | 108,823 | CheckSession is implemented, the queue is idle between sessions, Wait and the destructor end |
| check_stale | as above | | violation, section 7 |

Bounds. Four threads let two readers, an upgrade and a writer meet on the
mutex. Two spans are one that commits and one that is overtaken. In `fetch` the
threshold is small enough for scripts to be refused and kept. The recovery tree
has a fork, a coin spent on one branch only, and an output created and spent in
one block; the number of crashes and batches is not bounded. The tree of
`chain_parallel` has three siblings, one more than MaxParallelBlocks, and a
child of one of them that overtakes the others. `chain_commands` has MaxCommands 2, MaxSoft 1, MaxCancel 1. The
check queue has MaxSession 2 and MaxCheck 2; the same properties also hold with
MaxCheck 4 and transactions of 1 or 4 inputs (1,032,606 states, eight minutes),
where a batch has two checks. Symmetry is used for the spans of `coins` and the
threads of `chain_parallel`; neither run checks liveness.

Deadlock is checked except in chain_commands, check_queue and the runs that end
in a violation: there the bounded supply of commands or sessions ends, or the
queue is destroyed, and the model stops as the system does.

## 5. Fairness

- wpus: threads that can run do run, and a holder releases its lock, as the
  header asks. Nothing makes the mutex fair among waiters, so progress is
  claimed for some writer, not for each.
- fetch: each thread in GetCoin keeps running. A thread that meets the mark of
  another yields and looks again; it could do so for ever while others keep
  loading, evicting and loading that coin, so LookupReturns is stated for the
  time after the last new call.
- recovery: a start that is not interrupted goes on.
- chain_live: each thread inside ActivateBestChain keeps running. Cancellation
  is bounded and needs no fairness.
- check_queue: workers and master keep running, a check ends, and the user
  calls Wait or leaves the scope. Spurious wake-ups are not relied on.

## 6. Proofs

Theorems hold for every value of the constants that satisfies the module's
named assumption. Each rests on an inductive invariant `IInv`, proved initial
and preserved by each action in turn.

**WPUSMutexProofs**, from ThreadsAssumption (the threads are finitely many).
Exclusion alone is not inductive: it needs the counters to mean what they say
(CountW, CountR, CountP), which are about the cardinality of sets of threads
and change by one per step. NoLostWakeup needs the reason why each sleeper
sleeps (SleepOK): a waiting upgrade sleeps only while two readers are inside,
at most one upgrade sleeps, a writer sleeps only while the lock is held, a
reader only while there is a writer or a request. The one step that could let
a sleeper go on and does not notify is the arrival of a second write request,
which only a waiting upgrade heeds; NoLostWakeup shows that somebody awake
notifies later. CountersCorrect implies that the asserts on the counter
(`write_preferring_upgradable_mutex.h:85`, 93 and 113) cannot fail.

**CoinsCacheProofs**, from CoinsAssumption (the special values are distinct,
each block has a set of unspent coins). FreshSound, StoreIsBest and SpanStable
depend on each other: a FRESH entry may be erased when it is spent only because
the layer below has no coin there, and that stays true for a span because nobody
commits under it. IInv says of each entry how it relates to the coin below it
(StoreEntryOK, SpanEntryOK) and to the store it points into (PointsTo). From it
follow the five invariants and the refinement of UTXOSet: every step of the
cache is a step of the map or leaves it as it is. DirtyHasScript, part of
PointersCorrect, shows that no coin is written without its script.

**CoinsRecoveryProofs**, from RecoveryAssumption (a tree of valid blocks whose
spent and created outputs fit together). The argument is that undoing or
redoing a block gives each coin it touches the right state whatever state it was
in, and that a coin it does not touch is the same before and after. So a
`Mixture` of the coins of two blocks stays a mixture of the block reached and
the new tip, all through rollback and rollforward, and at the end both are the
same. IInv adds what is still to be written (DirtyOK) and what the index knows
(IndexOK). StartsUp is not proved.

Only model-checked: all liveness properties (beyond the prover with their
fairness), CoinsFetch, ChainState and CheckQueue.

## 7. Disagreements found

Runs that end in a violation, each of what a document or comment says:

- **chain_race**. A block whose scripts are being checked without cs_main is
  invalidated by the operator. When the check passes, `validation.cpp:2791`
  inserts it among the candidates and connects it without looking at its flags
  again: a block marked invalid becomes the tip. The help of invalidateblock
  says it "Permanently marks a block as invalid, as if it violated a consensus
  rule."
- **chain_seesaw**. softrejectblock is given for a block of which only the
  header is known. When its data arrives the receiving thread prefers it
  (`validation.cpp:4008` does not look at soft rejection), connects it, returns
  to its parent because the tip is soft rejected, and prefers it again, without
  end. The help says that the chain "is reorged back to the first block that is
  not soft rejected."
- **check_stale**. `failedChecks` survives a session that ended without Wait,
  and a worker's list of failed checks is never emptied, so a later failing
  session also reports checks of earlier ones. The caller finds transactions by
  address in its own block and so ignores most of them.

Observed while modelling, without a run of their own:

- reconsiderblock clears the failure of ancestors without making them
  candidates (`validation.cpp:4666`, against the comment at line 156), so
  BestWork holds after it only once all known blocks are received
  (BestWhenComplete). It can also leave a failed-parent flag without a failed
  ancestor (4665, against the check at 6615).
- A reorganisation that fails half way announces a tip with less work than the
  one it started from (3916, against 3888).
- HaveInputsLimited does not test IsSpent (`coins.cpp:194`, against
  `coins.h:551`). Its only caller (`validation.cpp:854`) cannot see a spent
  entry.
- At shutdown a worker of the check queue is interrupted while it sleeps and
  gives back nIdle and nTotal in two steps (`checkqueue.h:63`). A session that
  ends between them fails the assertion of ReturnQueueToPool. init.cpp:150
  interrupts the workers before the connection manager stops.
  IdleBetweenSessions excludes that moment.

## 8. What is left out

Of the modelled parts: pruned block files (their order with the coins flush is
a listed hazard), loss of writes the operating system had not synced, the
duplicate coinbases before BIP30, the genesis block as an argument of
invalidateblock, corrupted-data results and disk errors (they stop the node),
checkpoints, TTOR checks far below the tip, the rebuilding of candidates at
load, RewindBlockIndex. ChainState has no coins: that connecting and
disconnecting a block leaves the right ones is the subject of CoinsCache.

Not modelled at all, with the reason per part in `PROJECT.json`: leveldb (a
batch is atomic), secp256k1, univalue and cryptography; the script interpreter
and the consensus and policy rules, which answer yes or no in the models; the
wallet, RPC, REST, ZMQ, serialization, configuration and start-up code. The
parts of steps 7 to 14 of the plan are within reach and not done yet; their
hazards are listed in `PROJECT.json` with a note.

Hazards of those parts that `PROJECT.json` does not list, to be taken up with
their modules: the tip read before the lock in the time-locked pool
(`time_locked_mempool.cpp:542`); a batch of the mempool database that cannot be
written is dropped (`mempooltxdb.cpp:492`); the journal is replaced and its
changes applied under two holds of the lock (`mining/journal_builder.cpp:59`); a
paused stream must resume (`net/stream.cpp:501`); redundant counters of the
address manager (`addrman.cpp:146`); draining the scheduler
(`scheduler.cpp:86`).
