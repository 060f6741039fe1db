----------------------------- MODULE ChainIndex -----------------------------
(***************************************************************************)
(* Looking a tipset up by its height: ChainStore::tipset_by_height and the *)
(* ChainIndex behind it, whose skip cache is shared by concurrent lookups  *)
(* on several forks.  Stored tipsets never change, so a lookup interleaves *)
(* with others only at its uses of the cache.                              *)
(*                                                                         *)
(* What validation, mining and the actors make of the tipset that is found *)
(* is a function of the stored chain: the tipset whose power counts for a  *)
(* round, and the entry of the random beacon that belongs to an epoch.     *)
(***************************************************************************)
EXTENDS Integers, FiniteSets, Sequences, SequencesExt

CONSTANTS
    Tipset,         \* the tipsets of a tree
    Genesis,        \* its root
    Parent,         \* the parent of every tipset but the root
    MaxEpoch,       \* bound on the epochs
    SKIP_LENGTH,    \* 20
    CacheSize,      \* DEFAULT_CHAIN_INDEX_CACHE_SIZE
    Lookup,         \* the concurrent lookups
    Lookback,       \* CHAIN_FINALITY
    BeaconChanges,  \* the heights from which the second beacon may be used
    RoundTime,      \* seconds per epoch
    Interval,       \* seconds per round of each of the two beacons
    BeaconAge,      \* by how many seconds each of them is older than the chain
    EntryLimit      \* 20: tipsets searched for an entry

VARIABLES
    epoch,          \* the epochs of the tipsets: null rounds are gaps
    skip_cache,     \* tipset -> LookbackEntry, for the tipsets cached
    lookup          \* where each lookup is

vars == <<epoch, skip_cache, lookup>>

NoTipset == "none"
Ok(ts) == [pc |-> "ok", ts |-> ts]
Failed == [pc |-> "failed", ts |-> NoTipset]

LookbackEntry == [parent_height : 0 .. MaxEpoch, target : Tipset \cup {NoTipset}]

\* `cur' is the tipset whose entry is wanted next, `ts' the answer.
LookupType ==
    [pc : {"idle", "get", "fill", "found", "ok", "failed"}, from : Tipset \cup {NoTipset},
     to : 0 .. MaxEpoch, prev : BOOLEAN, cur : Tipset \cup {NoTipset}]

Idle == [pc |-> "idle", from |-> NoTipset, to |-> 0, prev |-> FALSE, cur |-> NoTipset]

TypeOK ==
    /\ epoch \in [Tipset -> 0 .. MaxEpoch]
    /\ DOMAIN skip_cache \subseteq Tipset
    /\ Cardinality(DOMAIN skip_cache) <= CacheSize
    /\ \A ts \in DOMAIN skip_cache : skip_cache[ts] \in LookbackEntry
    /\ lookup \in [Lookup -> LookupType]

Init ==
    /\ epoch \in [Tipset -> 0 .. MaxEpoch]
    /\ epoch[Genesis] = 0
    /\ \A ts \in Tipset \ {Genesis} : epoch[Parent[ts]] < epoch[ts]
    /\ skip_cache = <<>>
    /\ lookup = [l \in Lookup |-> Idle]

-----------------------------------------------------------------------------
(* The algorithms *)

\* walk_back: the parents of the genesis cannot be loaded.
RECURSIVE WalkLoop(_, _)
WalkLoop(ts, to) ==
    IF ts = Genesis THEN Failed
    ELSE LET pts == Parent[ts]
         IN  CASE to > epoch[pts] -> Ok(ts)
               [] to = epoch[pts] -> Ok(pts)
               [] OTHER -> WalkLoop(pts, to)

walk_back(from, to) ==
    CASE to > epoch[from] -> Failed
      [] to = epoch[from] -> Ok(from)
      [] OTHER -> WalkLoop(from, to)

round_height(height) == (height \div SKIP_LENGTH) * SKIP_LENGTH

round_down(ts) == walk_back(ts, round_height(epoch[ts]))

\* Mutant: the target is the rounded tipset, which may be the tipset itself.
SkipTargetUnskipped(ts) == round_down(ts)

\* The target of fill_cache: the tipset one skip length below the rounded
\* height, or the parent when that is lower.
SkipTarget(ts) ==
    LET r_height == round_height(epoch[ts]) - SKIP_LENGTH
    IN  IF epoch[Parent[ts]] < r_height THEN Ok(Parent[ts]) ELSE walk_back(Parent[ts], r_height)

-----------------------------------------------------------------------------
(* The steps of a lookup *)

Found(l, ts) == lookup' = [lookup EXCEPT ![l].pc = "found", ![l].cur = ts]
Fail(l) == lookup' = [lookup EXCEPT ![l].pc = "failed", ![l].cur = NoTipset]
Answer(l, walk) == IF walk.pc = "ok" THEN Found(l, walk.ts) ELSE Fail(l)

\* tipset_by_height down to the first use of the cache.  The caller asks for
\* heights that are not negative.
TipsetByHeight(l, from, to, prev) ==
    LET query == [pc |-> "get", from |-> from, to |-> to, prev |-> prev, cur |-> from]
        walk  == IF epoch[from] - to <= SKIP_LENGTH THEN walk_back(from, to) ELSE round_down(from)
    IN  /\ lookup[l].pc = "idle"
        /\ to <= epoch[from]
        /\ lookup' = [lookup EXCEPT ![l] =
             CASE to = epoch[from] -> [query EXCEPT !.pc = "ok"]
               [] to < epoch[from] /\ walk.pc = "failed" -> [query EXCEPT !.pc = "failed", !.cur = NoTipset]
               [] to < epoch[from] /\ walk.pc = "ok" ->
                    [query EXCEPT !.pc = IF epoch[from] - to <= SKIP_LENGTH THEN "found" ELSE "get",
                                  !.cur = walk.ts]]
        /\ UNCHANGED <<epoch, skip_cache>>

\* Mutant: a parent at the height is overlooked.
UseEntryTooSoon(l, lbe) ==
    LET ts == lookup[l].cur
        to == lookup[l].to
    IN  IF epoch[ts] = to \/ lbe.parent_height <= to THEN Found(l, ts)
        ELSE lookup' = [lookup EXCEPT ![l].pc = "get", ![l].cur = lbe.target]

\* What the loop does with an entry: the genesis has no target.
UseEntry(l, lbe) ==
    LET ts == lookup[l].cur
        to == lookup[l].to
        target_height == IF lbe.target = NoTipset THEN 0 ELSE epoch[lbe.target]
    IN  CASE epoch[ts] = to \/ lbe.parent_height < to -> Found(l, ts)
          [] ~(epoch[ts] = to \/ lbe.parent_height < to) /\ to > target_height ->
               Answer(l, walk_back(ts, to))
          [] ~(epoch[ts] = to \/ lbe.parent_height < to) /\ to <= target_height ->
               lookup' = [lookup EXCEPT ![l].pc = "get", ![l].cur = lbe.target]

\* skip_cache.get
GetEntry(l) ==
    /\ lookup[l].pc = "get"
    /\ IF lookup[l].cur \in DOMAIN skip_cache
       THEN UseEntry(l, skip_cache[lookup[l].cur])
       ELSE lookup' = [lookup EXCEPT ![l].pc = "fill"]
    /\ UNCHANGED <<epoch, skip_cache>>

\* LruCache::put: a full cache gives another entry up.  Which one is left open.
Put(ts, lbe) ==
    \E kept \in SUBSET (DOMAIN skip_cache \ {ts}) :
        /\ IF Cardinality(DOMAIN skip_cache \cup {ts}) <= CacheSize
           THEN kept = DOMAIN skip_cache \ {ts}
           ELSE Cardinality(kept) = CacheSize - 1
        /\ skip_cache' = [t \in kept \cup {ts} |-> IF t = ts THEN lbe ELSE skip_cache[t]]

\* fill_cache: the entry of the genesis is not cached.
FillCache(l) ==
    LET ts == lookup[l].cur
    IN  /\ lookup[l].pc = "fill"
        /\ \/ /\ epoch[ts] = 0
              /\ UseEntry(l, [parent_height |-> 0, target |-> NoTipset])
              /\ UNCHANGED skip_cache
           \/ /\ epoch[ts] # 0
              /\ SkipTarget(ts).pc = "failed"
              /\ Fail(l)
              /\ UNCHANGED skip_cache
           \/ /\ epoch[ts] # 0
              /\ SkipTarget(ts).pc = "ok"
              /\ LET lbe == [parent_height |-> epoch[Parent[ts]], target |-> SkipTarget(ts).ts]
                 IN  Put(ts, lbe) /\ UseEntry(l, lbe)
        /\ UNCHANGED epoch

\* Back in tipset_by_height: a tipset below the height is looked for again
\* without the cache, and in a null round `prev' asks for the one before it.
Finish(l) ==
    LET q    == lookup[l]
        lbts == IF epoch[q.cur] < q.to THEN walk_back(q.from, q.to) ELSE Ok(q.cur)
    IN  /\ q.pc = "found"
        /\ lookup' = [lookup EXCEPT ![l] =
             IF lbts.pc = "failed" THEN [q EXCEPT !.pc = "failed", !.cur = NoTipset]
             ELSE [q EXCEPT !.pc = "ok",
                            !.cur = IF epoch[lbts.ts] = q.to \/ ~q.prev
                                    THEN lbts.ts ELSE Parent[lbts.ts]]]
        /\ UNCHANGED <<epoch, skip_cache>>

-----------------------------------------------------------------------------
(* What the callers make of the tipset that is found *)

LookbackEpoch(round) == IF round > Lookback THEN round - Lookback ELSE 0

\* next_ts is the tipset at the height after that of the lookback.  With more
\* null rounds than the lookback it is not asked for.
get_lookback_tipset_for_round(ts, round, next_ts) ==
    CASE LookbackEpoch(round) >= epoch[ts] -> Ok(ts)
      [] LookbackEpoch(round) < epoch[ts] /\ LookbackEpoch(round) > epoch[next_ts] -> Failed
      [] OTHER -> Ok(Parent[next_ts])

\* The schedule of beacons: the second one is used from the height `change' on.
beacon_for_epoch(change, e) == IF e >= change THEN 2 ELSE 1

max_beacon_round_for_epoch(beacon, e) ==
    (e * RoundTime - RoundTime + BeaconAge[beacon]) \div Interval[beacon]

BeaconEntry(beacon, round) == [beacon |-> beacon, round |-> round]
NoEntry == BeaconEntry(0, 0)

\* Every round since the last entry of the parents; two of a new beacon; and one
\* on the genesis, whose entry has round 0.
beacon_entries_for_block(change, e, parent_epoch, prev) ==
    LET beacon == beacon_for_epoch(change, e)
        max_round == max_beacon_round_for_epoch(beacon, e)
        prev_round == IF prev.round = 0 THEN max_round - 1 ELSE prev.round
        from == IF beacon # beacon_for_epoch(change, parent_epoch) THEN max_round - 2 ELSE prev_round
    IN  IF beacon = beacon_for_epoch(change, parent_epoch) /\ max_round = prev.round THEN <<>>
        ELSE [i \in 1 .. max_round - from |-> BeaconEntry(beacon, from + i)]

\* verify_entry: a round is signed together with the signature of the one before.
verify_entry(curr, prev) ==
    prev.round = 0 \/ (curr.beacon = prev.beacon /\ curr.round = prev.round + 1)

\* At a change of beacon the result of verify_entry is not looked at.
validate_block_drand(change, entries, e, parent_epoch, prev) ==
    LET beacon == beacon_for_epoch(change, e)
        max_round == max_beacon_round_for_epoch(beacon, e)
    IN  CASE beacon # beacon_for_epoch(change, parent_epoch) -> Len(entries) = 2
          [] beacon = beacon_for_epoch(change, parent_epoch) /\ max_round = prev.round -> entries = <<>>
          [] OTHER -> /\ entries # <<>> /\ Last(entries).round = max_round
                      /\ \A i \in DOMAIN entries :
                            verify_entry(entries[i], IF i = 1 THEN prev ELSE entries[i - 1])

\* The entries of the blocks of a tipset, which are mined on the same parents,
\* and the last one of a tipset or of those before it.
RECURSIVE beacon_entries(_, _), LatestEntry(_, _, _)
beacon_entries(change, ts) ==
    IF ts = Genesis THEN <<BeaconEntry(1, 0)>>
    ELSE beacon_entries_for_block(change, epoch[ts], epoch[Parent[ts]],
                                  LatestEntry(change, Parent[ts], EntryLimit))

LatestEntry(change, ts, limit) ==
    LET cbe == beacon_entries(change, ts)
    IN  CASE cbe # <<>> -> Last(cbe)
          [] cbe = <<>> /\ (epoch[ts] = 0 \/ limit = 1) -> NoEntry
          [] OTHER -> LatestEntry(change, Parent[ts], limit - 1)

latest_beacon_entry(change, ts) == LatestEntry(change, ts, EntryLimit)

\* extract_beacon_entry_for_epoch: the entry of the very round, searched in the
\* tipset at or after the epoch and in those before it.
RECURSIVE ExtractEntry(_, _, _, _)
ExtractEntry(change, ts, round, limit) ==
    LET found == {v \in ToSet(beacon_entries(change, ts)) : v.round = round}
    IN  CASE found # {} -> CHOOSE v \in found : TRUE
          [] found = {} /\ (ts = Genesis \/ limit = 1) -> NoEntry
          [] OTHER -> ExtractEntry(change, Parent[ts], round, limit - 1)

extract_beacon_entry_for_epoch(change, rand_ts, e) ==
    ExtractEntry(change, rand_ts, max_beacon_round_for_epoch(beacon_for_epoch(change, e), e), EntryLimit)

-----------------------------------------------------------------------------

Return(l) ==
    /\ lookup[l].pc \in {"ok", "failed"}
    /\ lookup' = [lookup EXCEPT ![l] = Idle]
    /\ UNCHANGED <<epoch, skip_cache>>

Run(l) == GetEntry(l) \/ FillCache(l) \/ Finish(l)

Next ==
    \E l \in Lookup :
        \/ \E from \in Tipset, to \in 0 .. MaxEpoch, prev \in BOOLEAN :
              TipsetByHeight(l, from, to, prev)
        \/ Run(l)
        \/ Return(l)

Spec == Init /\ [][Next]_vars

\* The future of a lookup is polled until it is done.
FairSpec == Spec /\ \A l \in Lookup : WF_vars(Run(l))

-----------------------------------------------------------------------------
(* Properties *)

RECURSIVE Ancestors(_)
Ancestors(ts) == {ts} \cup (IF ts = Genesis THEN {} ELSE Ancestors(Parent[ts]))

\* What tipset_by_height promises, said without a walk or a cache.
ByHeight(from, to, prev) ==
    LET above == {ts \in Ancestors(from) : epoch[ts] >= to}
        below == {ts \in Ancestors(from) : epoch[ts] <= to}
    IN  IF prev THEN CHOOSE ts \in below : \A u \in below : epoch[u] <= epoch[ts]
                ELSE CHOOSE ts \in above : \A u \in above : epoch[u] >= epoch[ts]

\* An answer is the tipset at the height, or the one after or before the null
\* round, whatever other lookups put in the cache or pushed out of it.
AnswerIsByHeight ==
    \A l \in Lookup :
        lookup[l].pc = "ok" =>
            lookup[l].cur = ByHeight(lookup[l].from, lookup[l].to, lookup[l].prev)

\* The slow retrieval of tipset_by_height is never needed: the index returns no
\* tipset below the height ("chain index returned the wrong tipset").
IndexIsNeverTooLow ==
    \A l \in Lookup : lookup[l].pc = "found" => epoch[lookup[l].cur] >= lookup[l].to

\* A lookup fails only on a chain with a stretch of null rounds as long as the
\* skip length.
FailsOnlyAfterNullRun ==
    \A l \in Lookup :
        lookup[l].pc = "failed" =>
            \E ts \in Tipset \ {Genesis} : epoch[ts] - epoch[Parent[ts]] > SKIP_LENGTH

\* Every lookup comes to an answer: following the targets ends.
LookupEnds == \A l \in Lookup : lookup[l].pc = "get" ~> lookup[l].pc \in {"ok", "failed"}

\* The tipset whose power counts for a round is the last one at or below the
\* lookback, or the parent of the block if it is older, through null rounds on
\* both sides (get_lookback_tipset_for_round).
LookbackIsLatest ==
    \A l \in Lookup :
        LET q == lookup[l]
        IN  q.pc = "ok" /\ ~q.prev =>
              \A round \in epoch[q.from] + 1 .. MaxEpoch + 1 :
                LET lbr == LookbackEpoch(round)
                IN  q.to = lbr + 1 \/ lbr >= epoch[q.from] =>
                      get_lookback_tipset_for_round(q.from, round, q.cur) =
                        Ok(IF lbr >= epoch[q.from] THEN q.from ELSE ByHeight(q.from, lbr, TRUE))

\* The randomness of an epoch is that of its own round of its own beacon, also
\* when the epoch was a null round and when the beacon is slower than the chain
\* (get_beacon_randomness_v3).  It is not where the null rounds follow the
\* genesis or go past a change of the beacon: their entries are never on chain.
DrawnIsOfEpoch ==
    \A l \in Lookup, change \in BeaconChanges :
        LET q == lookup[l]
            before == ByHeight(q.from, q.to, TRUE)
            beacon == beacon_for_epoch(change, q.to)
        IN  /\ q.pc = "ok" /\ ~q.prev /\ q.to > 0
            /\ \/ epoch[q.cur] = q.to
               \/ /\ before # Genesis
                  /\ beacon_for_epoch(change, epoch[before]) = beacon
                  /\ beacon_for_epoch(change, epoch[q.cur]) = beacon
            => extract_beacon_entry_for_epoch(change, q.cur, q.to) =
                 BeaconEntry(beacon, max_beacon_round_for_epoch(beacon, q.to))

\* A block with the entries that miner_get_base_info gives it passes the check of
\* validate_block_drand, and so does every block of the chain a lookup is on.
MinedIsAccepted ==
    \A l \in Lookup, change \in BeaconChanges :
        LET ts == lookup[l].from
            prev == latest_beacon_entry(change, Parent[ts])
        IN  lookup[l].pc = "ok" /\ ts # Genesis =>
              /\ prev # NoEntry
              /\ validate_block_drand(change, beacon_entries(change, ts), epoch[ts], epoch[Parent[ts]], prev)

\* What is read from the chain is right, from its heights over the cache to the
\* lookback and the randomness: the callers get what the chain without any
\* cache would tell them.
ReadsAreRight ==
    /\ TypeOK /\ AnswerIsByHeight /\ IndexIsNeverTooLow /\ FailsOnlyAfterNullRun
    /\ LookbackIsLatest /\ DrawnIsOfEpoch /\ MinedIsAccepted

=============================================================================
