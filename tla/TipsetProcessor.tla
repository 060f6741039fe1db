-------------------------- MODULE TipsetProcessor ---------------------------
(***************************************************************************)
(* Which tipset is synced next: TipsetProcessor, its tipset groups, and    *)
(* the TipsetRangeSyncer that it runs (chain_sync/src/tipset_syncer.rs).   *)
(* Tipsets come from the chain muxer and from the RPC over one channel;    *)
(* the processor is a future that is polled, and its poll is split into    *)
(* Gather, which empties the channel, and the steps that drive the state.  *)
(***************************************************************************)
EXTENDS Integers, Sequences, FiniteSetsExt

CONSTANTS
    Tipset,
    Epoch, Parents,     \* of each tipset
    HeaderWeight,       \* Tipset::weight, the weight of the chain below it
    ChainWeight,        \* the weight ChainStore computes for it
    InitialHead,
    ChannelCap,         \* capacity of the tipset channel (20)
    MaxSent,            \* bound on the tipsets submitted over the RPC
    MaxFailed           \* bound on the syncs that fail

NoTipset == "none"

ASSUME TipsetProcessorAssumption ==
    /\ NoTipset \notin Tipset
    /\ Epoch \in [Tipset -> Nat]
    /\ HeaderWeight \in [Tipset -> Nat]
    /\ ChainWeight \in [Tipset -> Nat]
    /\ DOMAIN Parents = Tipset
    /\ InitialHead \in Tipset
    /\ ChannelCap \in Nat \ {0}
    /\ {MaxSent, MaxFailed} \subseteq Nat

VARIABLES
    channel,        \* the tipset channel
    state,          \* TipsetProcessorState
    finding,        \* FindRange: the group that the range finder holds
    current_sync,   \* FindRange: tipsets to add to the range once it is found
    next_sync,      \* the group to be synced after this one
    syncer,         \* SyncRange: the range syncer
    head,           \* the head of the chain store
    sent, failed,   \* how many were submitted, and how many syncs failed
    received        \* the greatest weight received for other ranges since this one was chosen

vars == <<channel, state, finding, current_sync, next_sync, syncer, head, sent, failed, received>>

NoGroup == {}

\* `tasks' are the tipsets being synced, the proposed head in its own task
\* (sync_tipset_range), the others in tasks of sync_tipset.
NoSyncer == [proposed_head |-> NoTipset, range |-> FALSE, included |-> {}, tasks |-> {}]
Syncer == [proposed_head : Tipset, range : BOOLEAN, included : SUBSET Tipset, tasks : SUBSET Tipset]

Key(ts) == <<Epoch[ts], Parents[ts]>>
KeyOf(group) == Key(CHOOSE ts \in group : TRUE)
IsGroup(group) == \A a, b \in group : Key(a) = Key(b)

TypeOK ==
    /\ channel \in Seq(Tipset)
    /\ Len(channel) <= ChannelCap
    /\ state \in {"Idle", "FindRange", "SyncRange"}
    /\ {finding, current_sync, next_sync} \subseteq SUBSET Tipset
    /\ received \in Nat
    /\ sent \in 0 .. MaxSent
    /\ failed \in 0 .. MaxFailed
    /\ syncer \in Syncer \cup {NoSyncer}
    /\ (syncer = NoSyncer) = (state # "SyncRange")
    /\ (finding = NoGroup) = (state # "FindRange")
    /\ head \in Tipset

Init ==
    /\ channel = <<>>
    /\ state = "Idle"
    /\ finding = NoGroup
    /\ current_sync = NoGroup
    /\ next_sync = NoGroup
    /\ syncer = NoSyncer
    /\ head = InitialHead
    /\ sent = 0
    /\ failed = 0
    /\ received = 0

-----------------------------------------------------------------------------
(* TipsetGroup.  A group is the set of its tipsets: a tipset is added once. *)

heaviest_weight(group) == Max({HeaderWeight[ts] : ts \in group})

HeaviestOf(group) == {ts \in group : HeaderWeight[ts] = heaviest_weight(group)}

is_mergeable(a, b) == KeyOf(a) = KeyOf(b)

\* Mutant: the first group is kept, whatever comes later.
UpdateNextKeeps(next, group) == IF next = NoGroup THEN group ELSE next

\* Merge the group received into the next sync, or replace it when heavier.
UpdateNext(next, group) ==
    CASE next = NoGroup -> group
      [] next # NoGroup /\ is_mergeable(next, group) -> next \cup group
      [] next # NoGroup /\ ~is_mergeable(next, group) ->
           IF heaviest_weight(group) > heaviest_weight(next) THEN group ELSE next

\* The tipsets received, grouped by epoch and parents.
Groups(tipsets) == {{t \in tipsets : Key(t) = Key(ts)} : ts \in tipsets}

HeaviestGroups(groups) ==
    {g \in groups : \A h \in groups : heaviest_weight(g) >= heaviest_weight(h)}

-----------------------------------------------------------------------------
(* TipsetRangeSyncer *)

\* TipsetRangeSyncer::new.  The set that is stored is a new one: the proposed
\* head is not in it.
NewSyncer(ts) == [proposed_head |-> ts, range |-> TRUE, included |-> {}, tasks |-> {}]

\* add_tipset for each tipset of a group: duplicates are ignored and another
\* epoch or other parents are an error.
AddTipsets(s, group) ==
    LET new == {ts \in group : ts \notin s.included /\ Key(ts) = Key(s.proposed_head)}
    IN  [s EXCEPT !.included = @ \cup new, !.tasks = @ \cup new]

-----------------------------------------------------------------------------
(* The processor *)

\* sync_submit_block: a block submitted over the RPC; it is not compared with
\* the head.
SendTipset(ts) ==
    /\ Len(channel) < ChannelCap
    /\ sent < MaxSent
    /\ channel' = Append(channel, ts)
    /\ sent' = sent + 1
    /\ UNCHANGED <<state, finding, current_sync, next_sync, syncer, head, failed, received>>

\* Idle: sync the heaviest group and discard the rest.
GatherIdle(groups) ==
    /\ state = "Idle"
    /\ \E group \in HeaviestGroups(groups) :
         /\ finding' = group
         /\ received' = 0
    /\ state' = "FindRange"
    /\ UNCHANGED <<current_sync, next_sync, syncer>>

\* The groups that do not belong to the range that is found or synced.
GatherOthers(groups, key) == {g \in groups : KeyOf(g) # key}

HeaviestReceived(groups, key) ==
    Max({received} \cup {HeaderWeight[ts] : ts \in {t \in UNION groups : Key(t) # key}})

UpdateNextSync(groups, key) ==
    LET others == GatherOthers(groups, key)
    IN  IF others = {} THEN UNCHANGED next_sync
        ELSE \E group \in HeaviestGroups(others) : next_sync' = UpdateNext(next_sync, group)

GatherFindRange(groups) ==
    LET key == KeyOf(finding)
    IN  /\ state = "FindRange"
        /\ current_sync' = current_sync \cup {ts \in UNION groups : Key(ts) = key}
        /\ UpdateNextSync(groups, key)
        /\ received' = HeaviestReceived(groups, key)
        /\ UNCHANGED <<state, finding, syncer>>

GatherSyncRange(groups) ==
    LET key == Key(syncer.proposed_head)
    IN  /\ state = "SyncRange"
        /\ syncer' = AddTipsets(syncer, {ts \in UNION groups : Key(ts) = key})
        /\ UpdateNextSync(groups, key)
        /\ received' = HeaviestReceived(groups, key)
        /\ UNCHANGED <<state, finding, current_sync>>

\* The first half of a poll: everything on the channel is consumed.
Gather ==
    LET groups == Groups({channel[i] : i \in DOMAIN channel})
    IN  /\ channel # <<>>
        /\ channel' = <<>>
        /\ \/ GatherIdle(groups)
           \/ GatherFindRange(groups)
           \/ GatherSyncRange(groups)
        /\ UNCHANGED <<head, sent, failed>>

\* find_range: the heaviest tipset of the group against the head.
RangeFound ==
    /\ state = "FindRange"
    /\ \E proposed_head \in HeaviestOf(finding) :
         /\ proposed_head # head
         /\ Epoch[proposed_head] >= Epoch[head]
         /\ syncer' = AddTipsets(NewSyncer(proposed_head), (finding \ {proposed_head}) \cup current_sync)
    /\ state' = "SyncRange"
    /\ finding' = NoGroup
    /\ current_sync' = NoGroup
    /\ UNCHANGED <<channel, next_sync, head, sent, failed, received>>

\* Mutant: the range finder that failed stays.
RangeNotFoundStays ==
    /\ state = "FindRange"
    /\ \E proposed_head \in HeaviestOf(finding) :
         proposed_head = head \/ Epoch[proposed_head] < Epoch[head]
    /\ next_sync' = NoGroup
    /\ received' = 0
    /\ UNCHANGED <<channel, state, finding, current_sync, syncer, head, sent, failed>>

\* AlreadySynced or InvalidTipsetRangeLength: everything gathered is dropped.
RangeNotFound ==
    /\ state = "FindRange"
    /\ \E proposed_head \in HeaviestOf(finding) :
         proposed_head = head \/ Epoch[proposed_head] < Epoch[head]
    /\ state' = "Idle"
    /\ finding' = NoGroup
    /\ current_sync' = NoGroup
    /\ next_sync' = NoGroup
    /\ received' = 0
    /\ UNCHANGED <<channel, syncer, head, sent, failed>>

\* put_tipset at the end of a task; the range syncer goes on.
PutTipset(ts) == head' = IF ChainWeight[ts] > ChainWeight[head] THEN ts ELSE head

RangeTaskDone ==
    /\ state = "SyncRange"
    /\ syncer.range
    /\ PutTipset(syncer.proposed_head)
    /\ syncer' = [syncer EXCEPT !.range = FALSE]
    /\ UNCHANGED <<channel, state, finding, current_sync, next_sync, sent, failed, received>>

TipsetTaskDone(ts) ==
    /\ state = "SyncRange"
    /\ ts \in syncer.tasks
    /\ PutTipset(ts)
    /\ syncer' = [syncer EXCEPT !.tasks = @ \ {ts}]
    /\ UNCHANGED <<channel, state, finding, current_sync, next_sync, sent, failed, received>>

\* The next sync is started, or the processor waits.
NextRange ==
    /\ syncer' = NoSyncer
    /\ next_sync' = NoGroup
    /\ received' = 0
    /\ finding' = next_sync
    /\ state' = IF next_sync = NoGroup THEN "Idle" ELSE "FindRange"

\* All tasks of the range syncer are done ...
RangeSynced ==
    /\ state = "SyncRange"
    /\ ~syncer.range
    /\ syncer.tasks = {}
    /\ NextRange
    /\ UNCHANGED <<channel, current_sync, head, sent, failed>>

\* ... or one of them failed, and the others are dropped.
RangeFailed ==
    /\ failed < MaxFailed
    /\ failed' = failed + 1
    /\ state = "SyncRange"
    /\ syncer.range \/ syncer.tasks # {}
    /\ NextRange
    /\ UNCHANGED <<channel, current_sync, head, sent>>

Drive ==
    \/ RangeFound
    \/ RangeNotFound
    \/ RangeTaskDone
    \/ \E ts \in Tipset : TipsetTaskDone(ts)
    \/ RangeSynced
    \/ RangeFailed

Next ==
    \/ \E ts \in Tipset : SendTipset(ts)
    \/ Gather
    \/ Drive

Spec == Init /\ [][Next]_vars

-----------------------------------------------------------------------------
(* Properties *)

\* The tipsets of a group, and the tasks of a range, agree in epoch and
\* parents: add_tipset never meets InvalidTipsetEpoch or InvalidTipsetParent.
GroupsAgree ==
    /\ IsGroup(finding \cup current_sync)
    /\ IsGroup(next_sync)
    /\ state = "SyncRange" => IsGroup(syncer.tasks \cup {syncer.proposed_head})

\* The next sync is the heaviest group received while the range is found and
\* synced, however the tipsets were spread over polls.
NextIsHeaviest ==
    state # "Idle" =>
        received = IF next_sync = NoGroup THEN 0 ELSE heaviest_weight(next_sync)

=============================================================================
