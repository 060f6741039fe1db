-------------------------- MODULE ChainStoreProofs --------------------------
(***************************************************************************)
(* The safety properties of ChainStore, for any blocks, headers and tasks. *)
(*                                                                         *)
(* DurableHead is not inductive: a task that waits to write must find its  *)
(* own tipset on disk, heavier than the head.  That holds because at most  *)
(* one task waits to write, which is what the lock guarantees.             *)
(***************************************************************************)
EXTENDS ChainStore, DataInduction

\* A task exists only in a running node; a process that is down has no head.
PhaseInv ==
    /\ phase \in {"down", "panicked"} => heaviest = NoTipset
    /\ phase # "running" => \A t \in Task : task[t] = Idle

\* The lock: one writer waits, its tipset is on disk and beats the head.
LockInv ==
    /\ \A t, u \in Task : task[t].pc = "write" /\ task[u].pc = "write" => t = u
    /\ \A t \in Task : task[t].pc = "write" =>
          /\ task[t].ts = dbHead
          /\ weight[dbHead] > weight[heaviest]

\* Whatever may become the head is in the database first.
StoredInv ==
    /\ tracker \subseteq blockstore
    /\ dbHead \subseteq blockstore
    /\ \A t \in Task : task[t].ts \subseteq blockstore
    /\ phase = "genesisSet" => Genesis \in blockstore

IInv ==
    /\ TypeOK
    /\ RunningHasHead
    /\ PhaseInv
    /\ LockInv
    /\ StoredInv
    /\ DurableHead

-----------------------------------------------------------------------------
(* Tipsets *)

\* A non-empty set of blocks has a block of the smallest ticket.
LEMMA MinTicketExists ==
    ASSUME NEW ts \in SUBSET Block, ts # {}
    PROVE  MinTicketBlock(ts) \in ts
  <1> DEFINE tickets == {Header[b].ticket : b \in ts}
  <1>1. \A b \in ts : Header[b].ticket \in Nat
    BY HeaderAssumption DEF HeaderType
  <1>2. tickets \in SUBSET Nat /\ tickets # {}
    BY <1>1
  <1>3. PICK n \in tickets : \A m \in tickets : n <= m
    <2> HIDE DEF tickets
    <2> QED
      BY <1>2, LeastNat
  <1>4. \E b \in ts : \A c \in ts : Header[b].ticket <= Header[c].ticket
    BY <1>3
  <1>5. QED
    BY <1>4 DEF MinTicketBlock

\* A tipset is a non-empty set of blocks and its weight is an integer.
LEMMA TipsetFacts ==
    ASSUME NEW ts \in Tipset
    PROVE  ts \subseteq Block /\ ts # NoTipset /\ weight[ts] \in Int
  <1> DEFINE head == Header[MinTicketBlock(ts)]
             totalJ == MapThenSumSet(LAMBDA b : WinCount[b], ts)
             log2_p == Log2Power[head.state]
  <1>1. ts \in SUBSET Block /\ ts # {}
    BY DEF Tipset
  <1>2. head \in HeaderType
    BY <1>1, MinTicketExists, HeaderAssumption
  <1>3. head.weight \in Nat /\ log2_p \in Nat
    BY <1>2, HeaderAssumption DEF HeaderType
  <1>4. totalJ \in Int
    <2>1. \A b \in ts : WinCount[b] \in Int
      BY <1>1, HeaderAssumption DEF WinCount, HeaderType
    <2>2. IsFiniteSet(ts)
      BY <1>1, HeaderAssumption, FS_Subset
    <2>3. SumOf(WinCount, ts) \in Int
      BY <2>1, <2>2, SumRemove
    <2> QED
      BY <2>3 DEF SumOf
  <1>5. weight[ts] = head.weight + log2_p * 256
                     + (log2_p * W_RATIO_NUM * 256 * totalJ) \div (BLOCKS_PER_EPOCH * W_RATIO_DEN)
    BY DEF weight
  <1> HIDE DEF head, totalJ, log2_p
  <1>6. log2_p * 1 * 256 * totalJ \in Int /\ log2_p * 256 \in Int
    BY <1>3, <1>4
  <1>7. weight[ts] \in Int
    BY <1>3, <1>5, <1>6 DEF W_RATIO_NUM, W_RATIO_DEN, BLOCKS_PER_EPOCH
  <1> QED
    BY <1>1, <1>7 DEF NoTipset

-----------------------------------------------------------------------------
(* The invariant *)

\* The invariant holds in the beginning.
LEMMA InitIInv == Init => IInv
  <1> SUFFICES ASSUME Init PROVE IInv
    OBVIOUS
  <1>1. TypeOK
    BY Zenon DEF Init, TypeOK, Phase, NoTipset
  <1>2. QED
    BY <1>1 DEF Init, IInv, RunningHasHead, PhaseInv, LockInv, StoredInv,
                DurableHead, Idle, NoTipset

\* The expansion that put_tipset verified is a tipset of stored blocks.
LEMMA ExpansionFacts ==
    ASSUME IInv, NEW ts \in Tipset, ts \subseteq tracker,
           VerifyBlocks(MinTicketBlock(ts), Expansion(MinTicketBlock(ts)))
    PROVE  Expansion(MinTicketBlock(ts)) \in Tipset
        /\ Expansion(MinTicketBlock(ts)) \subseteq blockstore
  <1>1. MinTicketBlock(ts) \in ts
    BY TipsetFacts, MinTicketExists DEF NoTipset
  <1>2. MinTicketBlock(ts) \in tracker /\ tracker \subseteq blockstore /\ blockstore \subseteq Block
    BY <1>1 DEF IInv, StoredInv, TypeOK
  <1>3. Expansion(MinTicketBlock(ts)) \subseteq blockstore
    BY <1>2 DEF Expansion
  <1>4. MinTicketBlock(ts) \in Expansion(MinTicketBlock(ts))
    BY DEF Expansion
  <1>5. QED
    BY <1>2, <1>3, <1>4 DEF Tipset

\* Every step of the node, and every crash, keeps the invariant.
LEMMA NextIInv == IInv /\ [Next]_vars => IInv'
  <1> SUFFICES ASSUME IInv, [Next]_vars PROVE IInv'
    OBVIOUS
  <1> USE DEF IInv
  <1> {Genesis} \in Tipset
    BY StoreAssumption DEF Tipset, VerifyBlocks
  <1>1. CASE LoadHeaviestTipset
    <2>1. heaviest' \in Tipset \cup {NoTipset} /\ heaviest' \in {dbHead, NoTipset}
      BY <1>1 DEF LoadHeaviestTipset, TypeOK
    <2>2. TypeOK'
      BY <1>1, <2>1 DEF LoadHeaviestTipset, TypeOK, Phase
    <2>3. \A t \in Task : task'[t] = Idle
      BY <1>1 DEF LoadHeaviestTipset, PhaseInv
    <2>4. LockInv' /\ PhaseInv' /\ RunningHasHead' /\ StoredInv'
      BY <1>1, <2>3 DEF LoadHeaviestTipset, LockInv, PhaseInv, RunningHasHead, StoredInv, Idle
    <2>5. DurableHead'
      BY <1>1, <2>1, TipsetFacts DEF LoadHeaviestTipset, TypeOK, DurableHead
    <2>6. QED
      BY <2>2, <2>4, <2>5
  <1>2. CASE ProcessCar
    BY <1>2, StoreAssumption DEF ProcessCar, memory, TypeOK, Phase, RunningHasHead, PhaseInv,
       LockInv, StoredInv, DurableHead
  <1>3. CASE SetGenesisHead
    <2>1. \A t \in Task : task'[t] = Idle
      BY <1>3 DEF SetGenesisHead, PhaseInv
    <2>2. TypeOK' /\ PhaseInv' /\ RunningHasHead' /\ LockInv'
      BY <1>3, <2>1 DEF SetGenesisHead, TypeOK, Phase, PhaseInv, RunningHasHead, LockInv, Idle, NoTipset
    <2>3. StoredInv'
      BY <1>3, <2>1 DEF SetGenesisHead, StoredInv, Idle, NoTipset
    <2>4. DurableHead'
      BY <1>3, TipsetFacts DEF SetGenesisHead, DurableHead
    <2>5. QED
      BY <2>2, <2>3, <2>4
  <1>4. ASSUME NEW ts \in Tipset, NEW loaded \in {{}, ts}, ImportChain(ts, loaded)
        PROVE  IInv'
    <2> DEFINE valid == Snapshot \/ ts \cap BadBlock = {}
    <2>1. /\ phase = "genesis"
          /\ blockstore' = blockstore \cup loaded
          /\ ts \subseteq blockstore'
          /\ dbHead' = ts
          /\ heaviest' = IF valid THEN ts ELSE NoTipset
          /\ phase' = IF valid THEN "genesis" ELSE "down"
          /\ UNCHANGED <<genesisKey, tracker, task>>
      BY <1>4 DEF ImportChain
    <2> HIDE DEF valid
    <2>2. \A t \in Task : task'[t] = Idle
      BY <2>1 DEF PhaseInv
    <2>3. ts \subseteq Block /\ ts # NoTipset /\ weight[ts] \in Int
      BY TipsetFacts
    <2>4. TypeOK'
      BY <2>1, <2>3 DEF TypeOK, Phase, NoTipset
    <2>5. RunningHasHead' /\ PhaseInv' /\ LockInv' /\ DurableHead'
      BY <2>1, <2>2, <2>3 DEF RunningHasHead, PhaseInv, LockInv, DurableHead, Idle
    <2>6. StoredInv'
      BY <2>1, <2>2 DEF StoredInv, Idle, NoTipset
    <2>7. QED
      BY <2>4, <2>5, <2>6
  <1>5. CASE MessagePoolNew
    BY <1>5 DEF MessagePoolNew, memory, TypeOK, Phase, RunningHasHead, PhaseInv,
       LockInv, StoredInv, DurableHead
  <1>6. ASSUME NEW ts \in Tipset, PersistObjects(ts)
        PROVE  IInv'
    BY <1>6, TipsetFacts DEF PersistObjects, memory, TypeOK, RunningHasHead, PhaseInv,
       LockInv, StoredInv, DurableHead
  <1>7. ASSUME NEW b \in Block, AddToTipsetTracker(b)
        PROVE  IInv'
    BY <1>7 DEF AddToTipsetTracker, TypeOK, RunningHasHead, PhaseInv,
       LockInv, StoredInv, DurableHead
  <1>8. ASSUME NEW t \in Task, NEW ts \in Tipset, PutTipset(t, ts)
        PROVE  IInv'
    <2> DEFINE first == MinTicketBlock(ts)
               read  == [pc |-> "read", ts |-> Expansion(first)]
    <2>1. /\ phase = "running"
          /\ task[t] = Idle
          /\ ts \subseteq tracker
          /\ blockstore' = blockstore \cup ts
          /\ UNCHANGED <<phase, genesisKey, dbHead, heaviest, tracker>>
      BY <1>8 DEF PutTipset
    <2>2. \/ task' = task
          \/ task' = [task EXCEPT ![t] = read] /\ VerifyBlocks(first, Expansion(first))
      BY <1>8 DEF PutTipset
    <2>3. CASE task' = task
      BY <2>1, <2>3, TipsetFacts DEF TypeOK, RunningHasHead, PhaseInv, LockInv, StoredInv, DurableHead
    <2>4. CASE task' = [task EXCEPT ![t] = read] /\ VerifyBlocks(first, Expansion(first))
      <3>1. Expansion(first) \in Tipset /\ Expansion(first) \subseteq blockstore
        BY <2>1, <2>4, ExpansionFacts
      <3> HIDE DEF first
      <3>2. task'[t] = read /\ \A u \in Task \ {t} : task'[u] = task[u]
        BY <2>4 DEF TypeOK
      <3> HIDE DEF read
      <3>3. read.pc = "read" /\ read.ts = Expansion(first) /\ read \in [pc : {"read", "write"}, ts : Tipset]
        BY <3>1 DEF read
      <3>4. TypeOK'
        BY <2>1, <2>4, <3>3, TipsetFacts DEF TypeOK
      <3>5. RunningHasHead' /\ PhaseInv' /\ LockInv' /\ DurableHead'
        BY <2>1, <3>2, <3>3 DEF RunningHasHead, PhaseInv, LockInv, DurableHead
      <3>6. StoredInv'
        BY <2>1, <3>1, <3>2, <3>3 DEF StoredInv
      <3>7. QED
        BY <3>4, <3>5, <3>6
    <2>5. QED
      BY <2>2, <2>3, <2>4
  <1>9. ASSUME NEW t \in Task, UpdateHeaviest(t)
        PROVE  IInv'
    <2>1. /\ phase = "running" /\ heaviest # NoTipset
          /\ task[t].pc = "read"
          /\ \A u \in Task : task[u].pc # "write"
          /\ weight[task[t].ts] > weight[heaviest]
          /\ dbHead' = task[t].ts
          /\ task' = [task EXCEPT ![t].pc = "write"]
          /\ UNCHANGED <<phase, genesisKey, blockstore, heaviest, tracker>>
      BY <1>9 DEF UpdateHeaviest, WriterWaits, HeavierThanHead, RunningHasHead
    <2>2. task[t].ts \in Tipset /\ task[t] \in [pc : {"read", "write"}, ts : Tipset]
      BY <2>1 DEF TypeOK, Idle
    <2>3. /\ task'[t] = [task[t] EXCEPT !.pc = "write"]
          /\ \A u \in Task \ {t} : task'[u] = task[u]
      BY <2>1 DEF TypeOK
    <2>4. task'[t].pc = "write" /\ task'[t].ts = task[t].ts
      BY <2>2, <2>3
    <2>5. TypeOK'
      BY <2>1, <2>2 DEF TypeOK
    <2>6. RunningHasHead' /\ PhaseInv'
      BY <2>1 DEF RunningHasHead, PhaseInv
    <2>7. LockInv'
      BY <2>1, <2>3, <2>4 DEF LockInv
    <2>8. StoredInv'
      BY <2>1, <2>3, <2>4 DEF StoredInv
    <2>9. DurableHead'
      BY <2>1, <2>2, TipsetFacts DEF DurableHead, TypeOK
    <2>10. QED
      BY <2>5, <2>6, <2>7, <2>8, <2>9
  <1>10. ASSUME NEW t \in Task, KeepHeaviest(t)
         PROVE  IInv'
    BY <1>10 DEF KeepHeaviest, TypeOK, RunningHasHead, PhaseInv, LockInv, StoredInv,
       DurableHead, Idle, NoTipset
  <1>11. ASSUME NEW t \in Task, SetHeaviest(t)
         PROVE  IInv'
    <2>1. /\ phase = "running"
          /\ task[t].pc = "write"
          /\ heaviest' = dbHead
          /\ task' = [task EXCEPT ![t] = Idle]
          /\ UNCHANGED <<phase, genesisKey, blockstore, dbHead, tracker>>
      BY <1>11 DEF SetHeaviest, LockInv
    <2>2. dbHead \in Tipset
      BY <2>1 DEF TypeOK, LockInv, Idle
    <2>3. task'[t] = Idle /\ \A u \in Task \ {t} : task'[u] = task[u]
      BY <2>1 DEF TypeOK
    <2>4. \A u \in Task : task'[u].pc # "write"
      BY <2>1, <2>3 DEF LockInv, Idle
    <2>5. TypeOK'
      BY <2>1, <2>2 DEF TypeOK
    <2>6. RunningHasHead' /\ PhaseInv' /\ LockInv' /\ DurableHead'
      BY <2>1, <2>2, <2>4, TipsetFacts DEF RunningHasHead, PhaseInv, LockInv, DurableHead
    <2>7. StoredInv'
      BY <2>1, <2>3 DEF StoredInv, Idle, NoTipset
    <2>8. QED
      BY <2>5, <2>6, <2>7
  <1>12. CASE DropSyncer
    BY <1>12 DEF DropSyncer, TypeOK, RunningHasHead, PhaseInv, LockInv, StoredInv,
       DurableHead, Idle, NoTipset
  <1>13. CASE Crash
    BY <1>13 DEF Crash, TypeOK, Phase, RunningHasHead, PhaseInv, LockInv, StoredInv,
       DurableHead, Idle, NoTipset
  <1>14. CASE UNCHANGED vars
    BY <1>14 DEF vars, memory, TypeOK, RunningHasHead, PhaseInv, LockInv, StoredInv, DurableHead
  <1>15. QED
    BY <1>1, <1>2, <1>3, <1>4, <1>5, <1>6, <1>7, <1>8, <1>9, <1>10, <1>11, <1>12, <1>13, <1>14
       DEF Next, Startup, Import, Sync, Finish

\* The invariant of the chain store: whatever futures, imports, crashes and restarts do,
\* the head is typed, stored, and on disk at least as heavy as in memory.
THEOREM Invariance == Spec => []IInv
  BY InitIInv, NextIInv, PTL DEF Spec

-----------------------------------------------------------------------------
(* What follows from it *)

\* ChainStore::heaviest is set whenever the node runs, which every
\* heaviest_tipset().unwrap() of the syncer relies on.
THEOREM RunningHeadTheorem == Spec => []RunningHasHead
  BY Invariance, PTL DEF IInv

\* set_heaviest_tipset keeps the disk ahead of memory: a crash between any two
\* steps loses no head the node had adopted.
THEOREM DurableHeadTheorem == Spec => []DurableHead
  BY Invariance, PTL DEF IInv

\* load_heaviest_tipset finds the headers of the stored head, and can build the
\* tipset unless two of its blocks share a miner.
THEOREM LoadableTheorem == Spec => []HeadIsLoadable
  <1>1. IInv => HeadIsLoadable
    <2> SUFFICES ASSUME IInv, dbHead # NoTipset,
                        \A a, b \in dbHead : Header[a].miner = Header[b].miner => a = b
                 PROVE  IsTipset(dbHead)
      BY DEF IInv, StoredInv, HeadIsLoadable, Loadable
    <2>1. dbHead \in Tipset /\ dbHead \subseteq Block
      BY TipsetFacts DEF IInv, TypeOK
    <2>2. PICK first \in dbHead : VerifyBlocks(first, dbHead)
      BY <2>1 DEF Tipset
    <2>3. MinTicketBlock(dbHead) \in dbHead
      BY <2>1, MinTicketExists DEF NoTipset
    <2>4. QED
      BY <2>2, <2>3 DEF IsTipset, VerifyBlocks
  <1>2. QED
    BY <1>1, Invariance, PTL

\* The head is safe for any blocks and any number of tasks: a running node has one,
\* it was on disk before, and the next start can load it, whatever puts, imports
\* and crashes came in between.
THEOREM HeadSafeTheorem == Spec => []HeadIsSafe
  <1>1. IInv /\ HeadIsLoadable => HeadIsSafe
    BY DEF IInv, HeadIsSafe
  <1>2. QED
    BY <1>1, Invariance, LoadableTheorem, PTL

\* update_heaviest checked the weight under a lock it has given up since; the
\* head it sets is heavier than the head at that moment all the same.
THEOREM NoRegressTheorem == Spec => HeadNeverRegresses
  <1>1. IInv /\ [Next]_vars =>
          [phase = "running" /\ phase' = "running" /\ heaviest' # heaviest
             => weight[heaviest'] > weight[heaviest]]_vars
    <2> SUFFICES ASSUME IInv, Next, phase = "running", phase' = "running", heaviest' # heaviest
                 PROVE  weight[heaviest'] > weight[heaviest]
      BY DEF vars, memory
    <2>1. PICK t \in Task : SetHeaviest(t)
      BY DEF Next, Startup, Import, Sync, Finish, LoadHeaviestTipset, ProcessCar,
         SetGenesisHead, MessagePoolNew, ImportChain, PersistObjects, AddToTipsetTracker,
         PutTipset, DropSyncer, UpdateHeaviest, KeepHeaviest, Crash, memory
    <2>2. QED
      BY <2>1 DEF SetHeaviest, IInv, LockInv
  <1>2. QED
    BY <1>1, Invariance, PTL DEF Spec, HeadNeverRegresses

-----------------------------------------------------------------------------
(* Refinement *)

\* ChainStore, with its tasks, its lock, its start-up and its crashes, implements
\* the two-variable HeadStore under heaviest for mem and dbHead for disk.
THEOREM RefinementTheorem == Spec => ImplementsHeadStore
  <1>1. Init => HS!Init
    BY DEF Init, HS!Init
  <1>2. IInv /\ [Next]_vars => [HS!Next]_(HS!hsVars)
    <2> SUFFICES ASSUME IInv, [Next]_vars, ~(UNCHANGED HS!hsVars)
                 PROVE  HS!Next
      OBVIOUS
    <2> USE DEF HS!Next, HS!hsVars, IInv
    <2> {Genesis} \in Tipset
      BY StoreAssumption DEF Tipset, VerifyBlocks
    <2>1. CASE LoadHeaviestTipset
      BY <2>1 DEF LoadHeaviestTipset, HS!Load, PhaseInv
    <2>2. CASE SetGenesisHead
      BY <2>2 DEF SetGenesisHead, HS!Install
    <2>3. ASSUME NEW ts \in Tipset, NEW loaded \in {{}, ts}, ImportChain(ts, loaded)
          PROVE  HS!Next
      BY <2>3 DEF ImportChain, HS!Install
    <2>4. ASSUME NEW t \in Task, UpdateHeaviest(t)
          PROVE  HS!Next
      <3>1. task[t].ts \in Tipset
        BY <2>4 DEF UpdateHeaviest, TypeOK, Idle
      <3>2. HS!Persist(task[t].ts)
        BY <2>4 DEF UpdateHeaviest, HeavierThanHead, RunningHasHead, HS!Persist
      <3>3. QED
        BY <3>1, <3>2
    <2>5. ASSUME NEW t \in Task, SetHeaviest(t)
          PROVE  HS!Next
      BY <2>5 DEF SetHeaviest, LockInv, RunningHasHead, DurableHead, HS!Adopt
    <2>6. CASE Crash
      BY <2>6 DEF Crash, HS!Crash
    <2>7. QED
      BY <2>1, <2>2, <2>3, <2>4, <2>5, <2>6
         DEF Next, Startup, Import, Sync, Finish, ProcessCar, MessagePoolNew, PersistObjects,
             AddToTipsetTracker, PutTipset, DropSyncer, KeepHeaviest, vars, memory
  <1>3. QED
    BY <1>1, <1>2, Invariance, PTL DEF Spec, ImplementsHeadStore, HS!Spec

=============================================================================
