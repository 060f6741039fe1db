----------------------------- MODULE ChainStore -----------------------------
(***************************************************************************)
(* Block headers, the tipsets they form and the weight of a tipset         *)
(* (blockchain/blocks/src/tipset.rs, `weight' of chain_store.rs), and the  *)
(* head of the chain: ChainStore (blockchain/chain/src/store), its         *)
(* tipset tracker, the HEAD and GENESIS keys of the database, and the      *)
(* start-up of the daemon that gives the store its first head.             *)
(*                                                                         *)
(* A block stands for its CID.  A tipset is a non-empty set of blocks: its *)
(* key lists the CIDs in ticket order, so the set determines the key.      *)
(*                                                                         *)
(* put_tipset runs in several futures of one task (the range syncer), so   *)
(* they interleave only where an await really waits.  Two do: the read of  *)
(* the `heaviest' lock, while a writer waits, and its write, while readers *)
(* of other tasks hold it.  The lock prefers writers: once a future waits  *)
(* to write, no other one can read.                                        *)
(***************************************************************************)
EXTENDS Integers, FiniteSets, FiniteSetsExt

CONSTANTS
    Block,      \* the blocks the node may hear of
    Miner,      \* miner addresses
    StateRoot,  \* roots of the parent state trees
    Header,     \* the header of each block
    Log2Power   \* bits - 1 of the total power in a state

\* `ticket' is the rank of a block in the sort key of BlockHeader (ticket,
\* ties broken by CID), so no two blocks share it; `weight' is the weight of
\* the parent tipset, which is what a header records.
HeaderType ==
    [epoch : Nat, parents : SUBSET Block, miner : Miner, state : StateRoot,
     ticket : Nat, weight : Nat, wins : Nat]

ASSUME HeaderAssumption ==
    /\ IsFiniteSet(Block)
    /\ Header \in [Block -> HeaderType]
    /\ Log2Power \in [StateRoot -> Nat]
    /\ \A a, b \in Block : Header[a].ticket = Header[b].ticket => a = b

MinTicketBlock(ts) ==
    CHOOSE b \in ts : \A c \in ts : Header[b].ticket <= Header[c].ticket

\* verify_blocks compares every header with the FIRST one it is given, and
\* Tipset::new calls it before it sorts the headers.
VerifyBlocks(first, ts) ==
    /\ first \in ts
    /\ \A b \in ts \ {first} :
          /\ Header[b].parents = Header[first].parents
          /\ Header[b].state = Header[first].state
          /\ Header[b].epoch = Header[first].epoch
          /\ Header[b].miner # Header[first].miner

\* The tipsets Tipset::new can build, from headers in any order.
Tipset == {ts \in SUBSET Block : \E first \in ts : VerifyBlocks(first, ts)}

\* The absence of a tipset (None), the empty set: never a tipset.
NoTipset == {}

\* Tipset::new on headers in ticket order, the order of a key that is read back
\* from the database or from a child's header.
IsTipset(ts) == ts # NoTipset /\ VerifyBlocks(MinTicketBlock(ts), ts)

W_RATIO_NUM == 1
W_RATIO_DEN == 2
BLOCKS_PER_EPOCH == 5

WinCount == [b \in Block |-> Header[b].wins]

weight == [ts \in Tipset |->
    LET head   == Header[MinTicketBlock(ts)]
        log2_p == Log2Power[head.state]
        totalJ == MapThenSumSet(LAMBDA b : WinCount[b], ts)
    IN  head.weight + log2_p * 256
          + (log2_p * W_RATIO_NUM * 256 * totalJ) \div (BLOCKS_PER_EPOCH * W_RATIO_DEN)]

-----------------------------------------------------------------------------
(* The store *)

CONSTANTS
    Task,       \* the put_tipset futures in flight
    Genesis,    \* the genesis block
    BadBlock,   \* blocks that fail validation, or whose chain does
    Snapshot    \* config.snapshot: imported chains are not validated

ASSUME StoreAssumption ==
    /\ Genesis \in Block
    /\ BadBlock \in SUBSET Block
    /\ Snapshot \in BOOLEAN

VARIABLES
    phase,      \* how far the daemon's start-up has come
    genesisKey, \* has GENESIS_KEY been written to the database?
    blockstore, \* the headers in the database
    dbHead,     \* the tipset under HEAD_KEY in the database
    heaviest,   \* ChainStore::heaviest
    tracker,    \* the blocks in TipsetTracker::entries
    task        \* where each put_tipset future is, and the tipset it expanded to

memory == <<heaviest, tracker, task>>
vars == <<phase, genesisKey, blockstore, dbHead, memory>>

Phase == {"down", "loaded", "genesisSet", "genesis", "running", "panicked"}

Idle == [pc |-> "idle", ts |-> NoTipset]

TypeOK ==
    /\ phase \in Phase
    /\ genesisKey \in BOOLEAN
    /\ blockstore \in SUBSET Block
    /\ dbHead \in Tipset \cup {NoTipset}
    /\ heaviest \in Tipset \cup {NoTipset}
    /\ tracker \in SUBSET Block
    /\ task \in [Task -> {Idle} \cup [pc : {"read", "write"}, ts : Tipset]]

Init ==
    /\ phase = "down"
    /\ genesisKey = FALSE
    /\ blockstore = {}
    /\ dbHead = NoTipset
    /\ heaviest = NoTipset
    /\ tracker = {}
    /\ task = [t \in Task |-> Idle]

-----------------------------------------------------------------------------
(* Start-up *)

\* tipset_from_keys succeeds when every header is stored and they form a tipset.
Loadable(ts) == ts # NoTipset /\ ts \subseteq blockstore /\ IsTipset(ts)

\* ChainStore::new loads the stored head and ignores a failure to do so.
LoadHeaviestTipset ==
    /\ phase \in {"down", "panicked"}
    /\ phase' = "loaded"
    /\ heaviest' = IF Loadable(dbHead) THEN dbHead ELSE NoTipset
    /\ UNCHANGED <<genesisKey, blockstore, dbHead, tracker, task>>

\* process_car: when the genesis is already stored, the head is left alone.
ProcessCar ==
    /\ phase = "loaded"
    /\ blockstore' = blockstore \cup {Genesis}
    /\ genesisKey' = TRUE
    /\ phase' = IF genesisKey THEN "genesis" ELSE "genesisSet"
    /\ UNCHANGED <<dbHead, memory>>

\* ... and after a new genesis was stored, it becomes the head.
SetGenesisHead ==
    /\ phase = "genesisSet"
    /\ phase' = "genesis"
    /\ dbHead' = {Genesis}
    /\ heaviest' = {Genesis}
    /\ UNCHANGED <<genesisKey, blockstore, tracker, task>>

\* import_chain sets the head, then validates the chain below it, unless the
\* snapshot is trusted; the daemon unwraps the result.  `loaded' is what the CAR
\* file stores: nothing, when skip_load is set.
ImportChain(ts, loaded) ==
    LET valid == Snapshot \/ ts \cap BadBlock = {}
    IN  /\ phase = "genesis"
        /\ blockstore' = blockstore \cup loaded
        /\ ts \subseteq blockstore'
        /\ IsTipset(ts)
        /\ dbHead' = ts
        /\ heaviest' = IF valid THEN ts ELSE NoTipset
        /\ phase' = IF valid THEN "genesis" ELSE "down"
        /\ UNCHANGED <<genesisKey, tracker, task>>

\* MessagePool::new fails when there is no head, and the daemon unwraps it.
MessagePoolNew ==
    /\ phase = "genesis"
    /\ phase' = IF heaviest = NoTipset THEN "panicked" ELSE "running"
    /\ UNCHANGED <<genesisKey, blockstore, dbHead, memory>>

-----------------------------------------------------------------------------
(* Running *)

\* The syncer persists the headers of a tipset before it validates them.
PersistObjects(ts) ==
    /\ phase = "running"
    /\ blockstore' = blockstore \cup ts
    /\ UNCHANGED <<phase, genesisKey, dbHead, memory>>

\* A validated block enters the tracker; a second block of a miner is only
\* warned about.
AddToTipsetTracker(b) ==
    /\ phase = "running"
    /\ b \in blockstore \ BadBlock
    /\ tracker' = tracker \cup {b}
    /\ UNCHANGED <<phase, genesisKey, blockstore, dbHead, heaviest, task>>

\* TipsetTracker::expand, before Tipset::new: the block and every tracked
\* block of the same epoch with the same parents.
Expansion(b) ==
    {b} \cup {c \in tracker : /\ Header[c].epoch = Header[b].epoch
                              /\ Header[c].parents = Header[b].parents}

\* put_tipset up to its first wait.  A tracked block that cannot be loaded, or
\* an expansion that is no tipset, is an error.
PutTipset(t, ts) ==
    LET first    == MinTicketBlock(ts)
        expanded == Expansion(first)
    IN  /\ phase = "running"
        /\ task[t] = Idle
        /\ ts \subseteq tracker
        /\ blockstore' = blockstore \cup ts
        /\ task' = IF /\ {c \in tracker : Header[c].epoch = Header[first].epoch} \subseteq blockstore'
                      /\ VerifyBlocks(first, expanded)
                   THEN [task EXCEPT ![t] = [pc |-> "read", ts |-> expanded]]
                   ELSE task
        /\ UNCHANGED <<phase, genesisKey, dbHead, heaviest, tracker>>

WriterWaits == \E t \in Task : task[t].pc = "write"

\* Mutant: a tipset of the same weight replaces the head.
HeavierOrEqual(ts) == heaviest = NoTipset \/ weight[ts] >= weight[heaviest]

HeavierThanHead(ts) == heaviest = NoTipset \/ weight[ts] > weight[heaviest]

\* Mutant: a waiting writer does not keep readers out.
UpdateHeaviestUnlocked(t) ==
    /\ phase = "running"
    /\ task[t].pc = "read"
    /\ HeavierThanHead(task[t].ts)
    /\ dbHead' = task[t].ts
    /\ task' = [task EXCEPT ![t].pc = "write"]
    /\ UNCHANGED <<phase, genesisKey, blockstore, heaviest, tracker>>

\* Mutant: the head changes in memory before it is written to the database.
UpdateHeaviestMemoryFirst(t) ==
    /\ phase = "running"
    /\ task[t].pc = "read"
    /\ ~WriterWaits
    /\ HeavierThanHead(task[t].ts)
    /\ heaviest' = task[t].ts
    /\ task' = [task EXCEPT ![t].pc = "write"]
    /\ UNCHANGED <<phase, genesisKey, blockstore, dbHead, tracker>>

\* update_heaviest: a heavier tipset is written under HEAD_KEY before the
\* write lock is asked for.
UpdateHeaviest(t) ==
    /\ phase = "running"
    /\ task[t].pc = "read"
    /\ ~WriterWaits
    /\ HeavierThanHead(task[t].ts)
    /\ dbHead' = task[t].ts
    /\ task' = [task EXCEPT ![t].pc = "write"]
    /\ UNCHANGED <<phase, genesisKey, blockstore, heaviest, tracker>>

\* The tipset is not heavier, or its weight or the write of the key fails.
KeepHeaviest(t) ==
    /\ phase = "running"
    /\ task[t].pc = "read"
    /\ ~WriterWaits
    /\ task' = [task EXCEPT ![t] = Idle]
    /\ UNCHANGED <<phase, genesisKey, blockstore, dbHead, heaviest, tracker>>

\* Mutant: the read guard of update_heaviest is held while it waits to write.
SetHeaviestGuardHeld(t) ==
    /\ phase = "running"
    /\ task[t].pc = "write"
    /\ ~WriterWaits
    /\ heaviest' = task[t].ts
    /\ task' = [task EXCEPT ![t] = Idle]
    /\ UNCHANGED <<phase, genesisKey, blockstore, dbHead, tracker>>

\* The write lock is granted: the head changes and an Apply is published.
SetHeaviest(t) ==
    /\ phase = "running"
    /\ task[t].pc = "write"
    /\ heaviest' = task[t].ts
    /\ task' = [task EXCEPT ![t] = Idle]
    /\ UNCHANGED <<phase, genesisKey, blockstore, dbHead, tracker>>

\* The chain muxer drops the syncer, and with it every put_tipset in flight.
DropSyncer ==
    /\ phase = "running"
    /\ task' = [t \in Task |-> Idle]
    /\ UNCHANGED <<phase, genesisKey, blockstore, dbHead, heaviest, tracker>>

Crash ==
    /\ phase # "down"
    /\ phase' = "down"
    /\ heaviest' = NoTipset
    /\ tracker' = {}
    /\ task' = [t \in Task |-> Idle]
    /\ UNCHANGED <<genesisKey, blockstore, dbHead>>

-----------------------------------------------------------------------------
Startup ==
    \/ LoadHeaviestTipset
    \/ ProcessCar
    \/ SetGenesisHead
    \/ MessagePoolNew

Import == \E ts \in Tipset : \E loaded \in {{}, ts} : ImportChain(ts, loaded)

Sync ==
    \/ \E ts \in Tipset : PersistObjects(ts)
    \/ \E b \in Block : AddToTipsetTracker(b)
    \/ \E t \in Task, ts \in Tipset : PutTipset(t, ts)
    \/ DropSyncer

Finish(t) == UpdateHeaviest(t) \/ KeepHeaviest(t) \/ SetHeaviest(t)

Next ==
    \/ Startup
    \/ Import
    \/ Sync
    \/ \E t \in Task : Finish(t)
    \/ Crash

Spec == Init /\ [][Next]_vars

\* A future that was woken is polled again, for as long as its task runs.
FairSpec == Spec /\ \A t \in Task : WF_vars(Finish(t))

-----------------------------------------------------------------------------
(* Properties *)

\* A running node has a head: "Unwrapping is fine because the store always has
\* at least one tipset" (chain_muxer.rs:539, tipset_syncer.rs:287).
RunningHasHead == phase = "running" => heaviest # NoTipset

\* The head on disk is never behind the head in memory, whatever puts were
\* interleaved, dropped half way or cut short: a crash loses no progress.
DurableHead ==
    heaviest # NoTipset =>
        dbHead # NoTipset /\ weight[dbHead] >= weight[heaviest]

\* Every header of the tipset under HEAD_KEY is in the database, and unless two
\* of its blocks have one miner, a restart reads it back.
HeadIsLoadable ==
    dbHead # NoTipset =>
        /\ dbHead \subseteq blockstore
        /\ (\A a, b \in dbHead : Header[a].miner = Header[b].miner => a = b)
              => Loadable(dbHead)

\* While the node runs the head never moves to a tipset that is not heavier,
\* although its weight was read before the lock was given up.
HeadNeverRegresses ==
    [][phase = "running" /\ phase' = "running" /\ heaviest' # heaviest
         => weight[heaviest'] > weight[heaviest]]_vars

\* A put_tipset that waits for the lock of the head gets its answer: no two of
\* them wait for each other.
PutTipsetEnds == \A t \in Task : task[t] # Idle ~> task[t] = Idle

\* The store implements its abstract promise: see HeadStore.
HS == INSTANCE HeadStore WITH mem <- heaviest, disk <- dbHead
ImplementsHeadStore == HS!Spec

\* The head is there whenever the node runs, is on disk first, and can be read
\* back by the next start, whatever puts, imports and crashes came in between.
HeadIsSafe == TypeOK /\ RunningHasHead /\ DurableHead /\ HeadIsLoadable

=============================================================================
