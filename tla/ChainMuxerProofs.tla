-------------------------- MODULE ChainMuxerProofs --------------------------
(***************************************************************************)
(* GroupsAgree and QueueIsSound for the muxer with its processor, for any  *)
(* tipsets, channel and sample.  Neither is inductive.  A group that is    *)
(* merged or moved keeps its key only if the slots it comes from are empty *)
(* when the processor's state says so, and the range syncer only adds to a *)
(* range it has.  That the heaviest tipset received is never forgotten     *)
(* needs the weights of the groups, which have a heaviest member because   *)
(* what arrives in a step is finite.                                       *)
(***************************************************************************)
EXTENDS ChainMuxer, DataInduction

\* Which slots of the processor are in use in which state.
SlotsInv ==
    /\ state \in {"Idle", "FindRange", "SyncRange"}
    /\ state = "FindRange" => finding # NoGroup
    /\ state # "FindRange" => finding = NoGroup /\ current_sync = NoGroup
    /\ state = "SyncRange" => syncer \in Syncer
    /\ next_sync \cup finding \cup current_sync \subseteq Tipset
    /\ channel \in Seq(Tipset)
    /\ sample \in Seq(Tipset)
    /\ outgoing \in Tipset \cup {NoTipset}

IInv == SlotsInv /\ GroupsAgree

-----------------------------------------------------------------------------
(* Groups *)

\* The members of a group have the key of the group.
LEMMA KeyOfGroup ==
    ASSUME NEW group, group # NoGroup, IsGroup(group)
    PROVE  \A ts \in group : Key(ts) = KeyOf(group)
  <1>1. (CHOOSE ts \in group : TRUE) \in group
    BY DEF NoGroup
  <1>2. QED
    BY <1>1 DEF IsGroup, KeyOf

\* What is gathered are groups.
LEMMA GatheredGroups ==
    ASSUME NEW tipsets, NEW group \in Groups(tipsets)
    PROVE  group # NoGroup /\ IsGroup(group) /\ group \subseteq tipsets
  BY DEF Groups, IsGroup, NoGroup

\* Merging or replacing the next sync gives a group.
LEMMA UpdateNextGroup ==
    ASSUME NEW next, NEW group, IsGroup(next), IsGroup(group), group # NoGroup
    PROVE  /\ IsGroup(UpdateNext(next, group))
           /\ UpdateNext(next, group) \subseteq next \cup group
  <1>1. CASE next = NoGroup
    BY <1>1 DEF UpdateNext
  <1>2. CASE next # NoGroup /\ is_mergeable(next, group)
    <2>1. \A ts \in next \cup group : Key(ts) = KeyOf(group)
      BY <1>2, KeyOfGroup DEF is_mergeable
    <2>2. QED
      BY <1>2, <2>1 DEF UpdateNext, IsGroup
  <1>3. CASE next # NoGroup /\ ~is_mergeable(next, group)
    BY <1>3 DEF UpdateNext
  <1>4. QED
    BY <1>1, <1>2, <1>3

\* A group that is gathered for another range leaves the next sync a group.
LEMMA NextSyncGroup ==
    ASSUME NEW tipsets, NEW key, IsGroup(next_sync), UpdateNextSync(Groups(tipsets), key)
    PROVE  IsGroup(next_sync') /\ next_sync' \subseteq next_sync \cup tipsets
  <1>1. CASE GatherOthers(Groups(tipsets), key) = {}
    BY <1>1 DEF UpdateNextSync
  <1>2. CASE GatherOthers(Groups(tipsets), key) # {}
    <2>1. PICK group \in HeaviestGroups(GatherOthers(Groups(tipsets), key)) :
             next_sync' = UpdateNext(next_sync, group)
      BY <1>2 DEF UpdateNextSync
    <2>2. group \in Groups(tipsets)
      BY DEF HeaviestGroups, GatherOthers
    <2>3. group # NoGroup /\ IsGroup(group) /\ group \subseteq tipsets
      BY <2>2, GatheredGroups
    <2>4. QED
      BY <2>1, <2>3, UpdateNextGroup
  <1>3. QED
    BY <1>1, <1>2

\* Tipsets that are added to a range have the key of its proposed head.
LEMMA AddTipsetsGroup ==
    ASSUME NEW s \in Syncer, NEW group \in SUBSET Tipset, IsGroup(s.tasks \cup {s.proposed_head})
    PROVE  /\ AddTipsets(s, group) \in Syncer
           /\ IsGroup(AddTipsets(s, group).tasks \cup {AddTipsets(s, group).proposed_head})
  <1> DEFINE new == {ts \in group : ts \notin s.included /\ Key(ts) = Key(s.proposed_head)}
  <1>1. AddTipsets(s, group) = [s EXCEPT !.included = @ \cup new, !.tasks = @ \cup new]
    BY DEF AddTipsets
  <1>2. /\ AddTipsets(s, group) \in Syncer
        /\ AddTipsets(s, group).tasks = s.tasks \cup new
        /\ AddTipsets(s, group).proposed_head = s.proposed_head
    BY <1>1, Zenon DEF Syncer
  <1>3. \A ts \in s.tasks \cup new : Key(ts) = Key(s.proposed_head)
    BY DEF IsGroup
  <1>4. QED
    BY <1>2, <1>3 DEF IsGroup

-----------------------------------------------------------------------------
(* The invariant *)

\* The invariant holds in the beginning: nothing is queued or received.
LEMMA InitIInv == MuxerInit => IInv
  BY DEF MuxerInit, Init, IInv, SlotsInv, GroupsAgree, IsGroup, NoGroup

\* A step that changes none of the slots keeps the invariant.
LEMMA SlotsKept ==
    ASSUME IInv, UNCHANGED <<state, finding, current_sync, next_sync, syncer>>,
           channel' \in Seq(Tipset), sample' \in Seq(Tipset), outgoing' \in Tipset \cup {NoTipset}
    PROVE  IInv'
  BY DEF IInv, SlotsInv, GroupsAgree, IsGroup, Key

\* Gather sorts what the channel held into the slots of its key.
LEMMA GatherIInv == IInv /\ Gather /\ UNCHANGED <<sample, outgoing>> => IInv'
  <1> SUFFICES ASSUME IInv, Gather, UNCHANGED <<sample, outgoing>> PROVE IInv'
    OBVIOUS
  <1> DEFINE tipsets == {channel[i] : i \in DOMAIN channel}
             groups == Groups(tipsets)
  <1>1. tipsets \subseteq Tipset
    BY DEF IInv, SlotsInv
  <1>2. channel' \in Seq(Tipset) /\ channel' = <<>>
    BY DEF Gather
  <1>3. CASE GatherIdle(groups)
    <2>1. PICK group \in HeaviestGroups(groups) : finding' = group
      BY <1>3, Zenon DEF GatherIdle
    <2>2. group # NoGroup /\ IsGroup(group) /\ group \subseteq tipsets
      BY GatheredGroups DEF HeaviestGroups
    <2>3. state' = "FindRange" /\ current_sync' = NoGroup /\ UNCHANGED next_sync
      BY <1>3 DEF GatherIdle, IInv, SlotsInv
    <2>4. QED
      BY <1>1, <1>2, <2>1, <2>2, <2>3 DEF IInv, SlotsInv, GroupsAgree, IsGroup, NoGroup
  <1>4. CASE GatherFindRange(groups)
    <2>1. /\ state = "FindRange" /\ UNCHANGED <<state, finding, syncer>>
          /\ current_sync' = current_sync \cup {ts \in UNION groups : Key(ts) = KeyOf(finding)}
          /\ UpdateNextSync(groups, KeyOf(finding))
      BY <1>4 DEF GatherFindRange
    <2>2. IsGroup(next_sync') /\ next_sync' \subseteq next_sync \cup tipsets
      BY <2>1, NextSyncGroup DEF IInv, GroupsAgree
    <2>3. finding # NoGroup /\ IsGroup(finding) /\ IsGroup(finding \cup current_sync)
      BY <2>1 DEF IInv, SlotsInv, GroupsAgree, IsGroup
    <2>4. \A ts \in finding : Key(ts) = KeyOf(finding)
      BY <2>3, KeyOfGroup
    <2>5. \A ts \in finding \cup current_sync : Key(ts) = KeyOf(finding)
      BY <2>3, <2>4 DEF IsGroup, NoGroup
    <2>6. IsGroup(finding' \cup current_sync')
      BY <2>1, <2>5 DEF IsGroup
    <2>7. UNION groups \subseteq tipsets
      BY GatheredGroups, Zenon
    <2>8. QED
      BY <1>1, <1>2, <2>1, <2>2, <2>6, <2>7, Zenon DEF IInv, SlotsInv, GroupsAgree
  <1>5. CASE GatherSyncRange(groups)
    <2> DEFINE added == {ts \in UNION groups : Key(ts) = Key(syncer.proposed_head)}
    <2>1. /\ state = "SyncRange" /\ UNCHANGED <<state, finding, current_sync>>
          /\ syncer' = AddTipsets(syncer, added)
          /\ UpdateNextSync(groups, Key(syncer.proposed_head))
      BY <1>5 DEF GatherSyncRange
    <2>2. IsGroup(next_sync') /\ next_sync' \subseteq next_sync \cup tipsets
      BY <2>1, NextSyncGroup DEF IInv, GroupsAgree
    <2>3. added \in SUBSET Tipset
      BY <1>1, GatheredGroups, Zenon
    <2>4. syncer' \in Syncer /\ IsGroup(syncer'.tasks \cup {syncer'.proposed_head})
      <3>1. syncer \in Syncer /\ IsGroup(syncer.tasks \cup {syncer.proposed_head})
        BY <2>1 DEF IInv, SlotsInv, GroupsAgree, Syncer
      <3>2. QED
        BY <2>1, <2>3, <3>1, AddTipsetsGroup, Zenon
    <2>5. QED
      BY <1>1, <1>2, <2>1, <2>2, <2>4, Zenon DEF IInv, SlotsInv, GroupsAgree, Syncer
  <1>6. QED
    BY <1>3, <1>4, <1>5 DEF Gather

\* What a range's end leaves: the next sync, alone, or nothing.
LEMMA NextRangeIInv ==
    ASSUME IInv, state = "SyncRange", NextRange, UNCHANGED <<channel, current_sync, sample, outgoing>>
    PROVE  IInv'
  <1>1. current_sync' = NoGroup /\ next_sync' = NoGroup /\ finding' = next_sync
    BY DEF NextRange, IInv, SlotsInv
  <1>2. IsGroup(finding' \cup current_sync') /\ IsGroup(next_sync')
    BY <1>1 DEF IInv, GroupsAgree, IsGroup, NoGroup
  <1>3. CASE next_sync = NoGroup
    BY <1>1, <1>2, <1>3 DEF NextRange, IInv, SlotsInv, GroupsAgree, NoGroup
  <1>4. CASE next_sync # NoGroup
    BY <1>1, <1>2, <1>4 DEF NextRange, IInv, SlotsInv, GroupsAgree, NoGroup
  <1>5. QED
    BY <1>3, <1>4

\* The range finder and the range syncer empty their slots as they move on.
LEMMA DriveIInv == IInv /\ Drive /\ UNCHANGED <<sample, outgoing>> => IInv'
  <1> SUFFICES ASSUME IInv, Drive, UNCHANGED <<sample, outgoing>> PROVE IInv'
    OBVIOUS
  <1>1. CASE RangeFound
    <2>1. PICK ts \in HeaviestOf(finding) :
             syncer' = AddTipsets(NewSyncer(ts), (finding \ {ts}) \cup current_sync)
      BY <1>1, Zenon DEF RangeFound
    <2>2. ts \in Tipset /\ (finding \ {ts}) \cup current_sync \in SUBSET Tipset
      BY DEF HeaviestOf, IInv, SlotsInv
    <2>3. NewSyncer(ts) \in Syncer /\ IsGroup(NewSyncer(ts).tasks \cup {NewSyncer(ts).proposed_head})
      BY <2>2 DEF NewSyncer, Syncer, IsGroup
    <2>4. syncer' \in Syncer /\ IsGroup(syncer'.tasks \cup {syncer'.proposed_head})
      BY <2>1, <2>2, <2>3, AddTipsetsGroup, Zenon
    <2>5. IsGroup(finding' \cup current_sync')
      BY <1>1 DEF RangeFound, IsGroup, NoGroup
    <2>6. QED
      BY <1>1, <2>4, <2>5 DEF RangeFound, IInv, SlotsInv, GroupsAgree, NoGroup
  <1>2. CASE RangeNotFound
    <2>1. IsGroup(finding' \cup current_sync') /\ IsGroup(next_sync')
      BY <1>2 DEF RangeNotFound, IsGroup, NoGroup
    <2>2. QED
      BY <1>2, <2>1 DEF RangeNotFound, IInv, SlotsInv, GroupsAgree, NoGroup
  <1>3. CASE RangeTaskDone
    <2>1. syncer \in Syncer /\ syncer' = [syncer EXCEPT !.range = FALSE]
      BY <1>3 DEF RangeTaskDone, IInv, SlotsInv
    <2>2. /\ syncer' \in Syncer
          /\ syncer'.tasks = syncer.tasks /\ syncer'.proposed_head = syncer.proposed_head
      BY <2>1, Zenon DEF Syncer
    <2>3. QED
      BY <1>3, <2>2 DEF RangeTaskDone, IInv, SlotsInv, GroupsAgree
  <1>4. ASSUME NEW ts \in Tipset, TipsetTaskDone(ts) PROVE IInv'
    <2>1. syncer \in Syncer /\ syncer' = [syncer EXCEPT !.tasks = @ \ {ts}]
      BY <1>4 DEF TipsetTaskDone, IInv, SlotsInv
    <2>2. /\ syncer' \in Syncer
          /\ syncer'.tasks \subseteq syncer.tasks /\ syncer'.proposed_head = syncer.proposed_head
      BY <2>1 DEF Syncer
    <2>3. IsGroup(syncer'.tasks \cup {syncer'.proposed_head})
      BY <1>4, <2>2 DEF TipsetTaskDone, IInv, GroupsAgree, IsGroup
    <2>4. QED
      BY <1>4, <2>2, <2>3 DEF TipsetTaskDone, IInv, SlotsInv, GroupsAgree
  <1>5. CASE RangeSynced
    BY <1>5, NextRangeIInv DEF RangeSynced
  <1>6. CASE RangeFailed
    BY <1>6, NextRangeIInv DEF RangeFailed
  <1>7. QED
    BY <1>1, <1>2, <1>3, <1>4, <1>5, <1>6 DEF Drive

\* Every step of the muxer and of the processor keeps the invariant.
LEMMA NextIInv == IInv /\ [MuxerNext]_all_vars => IInv'
  <1> SUFFICES ASSUME IInv, [MuxerNext]_all_vars PROVE IInv'
    OBVIOUS
  <1>0. channel \in Seq(Tipset) /\ sample \in Seq(Tipset) /\ outgoing \in Tipset \cup {NoTipset}
    BY DEF IInv, SlotsInv
  <1>1. ASSUME NEW ts \in Tipset, ReceiveConnect(ts) PROVE IInv'
    <2>1. outgoing' \in Tipset \cup {NoTipset}
      <3>1. CASE UNCHANGED outgoing
        BY <1>0, <3>1
      <3>2. CASE ~UNCHANGED outgoing
        <4> DEFINE received_tipsets == Append(sample, ts)
        <4>1. PICK nh \in HeaviestOf({received_tipsets[i] : i \in DOMAIN received_tipsets}) : Evaluate(nh)
          BY <1>1, <3>2, Zenon DEF ReceiveConnect
        <4>2. outgoing' = nh
          BY <3>2, <4>1 DEF Evaluate
        <4>3. received_tipsets \in Seq(Tipset)
          BY <1>0, <1>1
        <4>4. nh \in Tipset
          BY <4>1, <4>3 DEF HeaviestOf
        <4>5. QED
          BY <4>2, <4>4
      <3>3. QED
        BY <3>1, <3>2
    <2>2. sample' \in Seq(Tipset)
      <3>1. Append(sample, ts) \in Seq(Tipset) /\ <<>> \in Seq(Tipset)
        BY <1>0, <1>1
      <3>2. sample' = Append(sample, ts) \/ sample' = <<>>
        BY <1>1, Zenon DEF ReceiveConnect
      <3>3. QED
        BY <3>1, <3>2, Zenon
    <2>3. QED
      BY <1>0, <1>1, <2>1, <2>2, SlotsKept DEF ReceiveConnect, vars
  <1>2. ASSUME NEW ts \in Tipset, ReceiveFollow(ts) PROVE IInv'
    BY <1>0, <1>2, SlotsKept DEF ReceiveFollow, vars
  <1>3. ASSUME NEW ts \in Tipset, SubmitBlock(ts) PROVE IInv'
    BY <1>0, <1>3, SlotsKept DEF SubmitBlock, SendTipset, muxer_vars
  <1>4. CASE Settle
    BY <1>0, <1>4, SlotsKept DEF Settle, vars
  <1>5. CASE SendOutgoing
    <2>1. channel' \in Seq(Tipset)
      BY <1>0, <1>5 DEF SendOutgoing
    <2>2. QED
      BY <1>0, <1>5, <2>1, SlotsKept DEF SendOutgoing
  <1>6. CASE BootstrapDone \/ BootstrapFailed
    BY <1>0, <1>6, SlotsKept DEF BootstrapDone, BootstrapFailed, BootstrapEnds
  <1>7. CASE Follow
    BY <1>7, GatherIInv, DriveIInv DEF Follow, muxer_vars
  <1>8. CASE UNCHANGED all_vars
    BY <1>0, <1>8, SlotsKept DEF all_vars, vars, muxer_vars
  <1>9. QED
    BY <1>1, <1>2, <1>3, <1>4, <1>5, <1>6, <1>7, <1>8 DEF MuxerNext

\* add_tipset never meets a tipset of another epoch or of other parents,
\* whatever the network gossips and the RPC submits, and whichever syncs fail.
THEOREM GroupsAlwaysAgree == MuxerSpec => []GroupsAgree
  <1>1. IInv => GroupsAgree
    BY DEF IInv
  <1>2. QED
    BY <1>1, InitIInv, NextIInv, PTL DEF MuxerSpec

-----------------------------------------------------------------------------
(* Weights *)

\* Some weight bounds those of the tipsets: there is a heaviest one.
Bounded(tipsets) == \E b \in Nat : \A ts \in tipsets : HeaderWeight[ts] <= b

\* The tipsets of a channel are finitely many, so their weights are bounded.
LEMMA SequenceBounded ==
    ASSUME NEW s \in Seq(Tipset)
    PROVE  Bounded({s[i] : i \in DOMAIN s})
  <1> DEFINE w == [i \in 1 .. Len(s) |-> HeaderWeight[s[i]]]
  <1>1. Len(s) \in Nat /\ DOMAIN s = 1 .. Len(s) /\ \A i \in 1 .. Len(s) : s[i] \in Tipset
    OBVIOUS
  <1>2. HeaderWeight \in [Tipset -> Nat]
    BY TipsetProcessorAssumption
  <1>3. w \in [1 .. Len(s) -> Nat]
    BY <1>1, <1>2
  <1>4. PICK b \in Nat : \A i \in 1 .. Len(s) : w[i] <= b
    <2> HIDE DEF w
    <2> QED
      BY <1>1, <1>3, FiniteBounded, Zenon
  <1>5. \A ts \in {s[i] : i \in DOMAIN s} : HeaderWeight[ts] <= b
    BY <1>1, <1>4
  <1>6. QED
    BY <1>5 DEF Bounded

\* The weight of a group is that of one of its tipsets, and of no lighter one.
LEMMA HeaviestWeight ==
    ASSUME NEW group \in SUBSET Tipset, group # NoGroup, Bounded(group)
    PROVE  /\ heaviest_weight(group) \in Nat
           /\ \E ts \in group : HeaderWeight[ts] = heaviest_weight(group)
           /\ \A ts \in group : HeaderWeight[ts] <= heaviest_weight(group)
  <1> DEFINE weights == {HeaderWeight[ts] : ts \in group}
  <1>1. weights \in SUBSET Nat /\ weights # {}
    BY TipsetProcessorAssumption DEF NoGroup
  <1>2. PICK b \in Nat : \A n \in weights : n <= b
    BY DEF Bounded
  <1>3. Max(weights) \in weights /\ \A n \in weights : n <= Max(weights)
    BY <1>1, <1>2, MaxOfBounded, Zenon
  <1>4. heaviest_weight(group) = Max(weights)
    BY DEF heaviest_weight
  <1> HIDE DEF weights
  <1>5. heaviest_weight(group) \in weights /\ \A n \in weights : n <= heaviest_weight(group)
    BY <1>3, <1>4
  <1> QED
    BY <1>1, <1>5 DEF weights

-----------------------------------------------------------------------------
(* The queue *)

\* The rest of the invariant: the processor waits only with nothing to sync next,
\* and the next sync is of bounded weight.
Weighed ==
    /\ NextIsHeaviest
    /\ state = "Idle" => next_sync = NoGroup
    /\ Bounded(next_sync)

QueueInv == MuxerTypeOK /\ Weighed

\* The weights of the groups gathered are bounded, like those of the channel.
LEMMA BoundedSubset ==
    ASSUME NEW S, NEW T \in SUBSET S, Bounded(S)
    PROVE  Bounded(T)
  BY DEF Bounded

\* A bound on the weights of two sets of tipsets bounds those of their union.
LEMMA BoundedUnion ==
    ASSUME NEW S \in SUBSET Tipset, NEW T \in SUBSET Tipset, Bounded(S), Bounded(T)
    PROVE  Bounded(S \cup T)
  <1>1. HeaderWeight \in [Tipset -> Nat]
    BY TipsetProcessorAssumption
  <1>2. PICK b \in Nat : \A ts \in S : HeaderWeight[ts] <= b
    BY DEF Bounded
  <1>3. PICK c \in Nat : \A ts \in T : HeaderWeight[ts] <= c
    BY DEF Bounded
  <1>4. b + c \in Nat /\ \A ts \in S \cup T : HeaderWeight[ts] <= b + c
    BY <1>1, <1>2, <1>3
  <1>5. QED
    BY <1>4 DEF Bounded

\* The greatest weight of those received and those received before.
LEMMA HeaviestReceivedIs ==
    ASSUME NEW T \in SUBSET Tipset, Bounded(T), NEW r \in Nat
    PROVE  LET m == Max({r} \cup {HeaderWeight[ts] : ts \in T})
           IN  /\ m \in Nat
               /\ r <= m
               /\ \A ts \in T : HeaderWeight[ts] <= m
               /\ m = r \/ \E ts \in T : m = HeaderWeight[ts]
  <1> DEFINE S == {r} \cup {HeaderWeight[ts] : ts \in T}
  <1>1. HeaderWeight \in [Tipset -> Nat]
    BY TipsetProcessorAssumption
  <1>2. S \in SUBSET Nat /\ S # {}
    BY <1>1
  <1>3. PICK b \in Nat : \A ts \in T : HeaderWeight[ts] <= b
    BY DEF Bounded
  <1>4. b + r \in Nat /\ \A n \in S : n <= b + r
    BY <1>1, <1>3
  <1>5. Max(S) \in S /\ \A n \in S : n <= Max(S)
    <2> HIDE DEF S
    <2> QED
      BY <1>2, <1>4, MaxOfBounded
  <1> DEFINE m == Max(S)
  <1>6. m \in S /\ \A n \in S : n <= m
    BY <1>5, Zenon
  <1>7. m \in Nat /\ r <= m /\ (\A ts \in T : HeaderWeight[ts] <= m)
          /\ (m = r \/ \E ts \in T : m = HeaderWeight[ts])
    <2> HIDE DEF m
    <2> QED
      BY <1>1, <1>2, <1>6
  <1> QED
    BY <1>7, Zenon

\* Merging or replacing keeps the heaviest of what came before and what comes now.
LEMMA UpdateNextHeaviest ==
    ASSUME NEW next \in SUBSET Tipset, NEW group \in SUBSET Tipset, group # NoGroup,
           Bounded(next), Bounded(group)
    PROVE  LET new == UpdateNext(next, group)
           IN  /\ new # NoGroup /\ Bounded(new)
               /\ next = NoGroup => heaviest_weight(new) = heaviest_weight(group)
               /\ next # NoGroup =>
                    /\ heaviest_weight(new) \in {heaviest_weight(next), heaviest_weight(group)}
                    /\ heaviest_weight(new) >= heaviest_weight(next)
                    /\ heaviest_weight(new) >= heaviest_weight(group)
  <1>1. CASE next = NoGroup
    BY <1>1 DEF UpdateNext
  <1>2. CASE next # NoGroup /\ is_mergeable(next, group)
    <2>1. UpdateNext(next, group) = next \cup group
      BY <1>2 DEF UpdateNext
    <2>2. Bounded(next \cup group) /\ next \cup group # NoGroup /\ next \cup group \in SUBSET Tipset
      BY <1>2, BoundedUnion DEF NoGroup
    <2>3. HeaderWeight \in [Tipset -> Nat]
      BY TipsetProcessorAssumption
    <2> DEFINE a == heaviest_weight(next)
               b == heaviest_weight(group)
               c == heaviest_weight(next \cup group)
    <2>4. a \in Nat /\ (\E ts \in next : HeaderWeight[ts] = a) /\ \A ts \in next : HeaderWeight[ts] <= a
      BY <1>2, HeaviestWeight
    <2>5. b \in Nat /\ (\E ts \in group : HeaderWeight[ts] = b) /\ \A ts \in group : HeaderWeight[ts] <= b
      BY HeaviestWeight
    <2>6. /\ c \in Nat
          /\ \E ts \in next \cup group : HeaderWeight[ts] = c
          /\ \A ts \in next \cup group : HeaderWeight[ts] <= c
      BY <2>2, HeaviestWeight, Zenon
    <2>7. c >= a /\ c >= b /\ c \in {a, b}
      <3> HIDE DEF a, b, c
      <3>1. c >= a /\ c >= b
        BY <2>4, <2>5, <2>6
      <3>2. c <= a \/ c <= b
        BY <2>4, <2>5, <2>6
      <3>3. QED
        BY <2>4, <2>5, <2>6, <3>1, <3>2
    <2>8. QED
      BY <1>2, <2>1, <2>2, <2>7
  <1>3. CASE next # NoGroup /\ ~is_mergeable(next, group)
    <2>1. heaviest_weight(next) \in Nat /\ heaviest_weight(group) \in Nat
      BY <1>3, HeaviestWeight
    <2>2. UpdateNext(next, group)
            = IF heaviest_weight(group) > heaviest_weight(next) THEN group ELSE next
      BY <1>3 DEF UpdateNext
    <2>3. QED
      BY <1>3, <2>1, <2>2
  <1>4. QED
    BY <1>1, <1>2, <1>3

\* What was received for other ranges, and what is kept of it, weigh the same.
LEMMA NextSyncHeaviest ==
    ASSUME NEW tipsets \in SUBSET Tipset, Bounded(tipsets), NEW key,
           next_sync \in SUBSET Tipset, Bounded(next_sync), received \in Nat,
           received = IF next_sync = NoGroup THEN 0 ELSE heaviest_weight(next_sync),
           UpdateNextSync(Groups(tipsets), key),
           received' = HeaviestReceived(Groups(tipsets), key)
    PROVE  /\ received' \in Nat
           /\ Bounded(next_sync')
           /\ received' = IF next_sync' = NoGroup THEN 0 ELSE heaviest_weight(next_sync')
  <1> DEFINE groups == Groups(tipsets)
             others == GatherOthers(groups, key)
             T == {t \in UNION groups : Key(t) # key}
  <1>1. T \in SUBSET tipsets /\ T \in SUBSET Tipset
    BY GatheredGroups
  <1>2. ASSUME NEW g \in groups
        PROVE  /\ g # NoGroup /\ g \in SUBSET Tipset /\ Bounded(g)
               /\ \A t \in g : Key(t) = KeyOf(g)
    <2>1. g # NoGroup /\ IsGroup(g) /\ g \subseteq tipsets
      BY GatheredGroups
    <2>2. QED
      BY <2>1, BoundedSubset, KeyOfGroup
  <1>3. \A t \in T : \E g \in others : t \in g
    BY <1>2 DEF GatherOthers
  <1>4. Bounded(T)
    BY <1>1, BoundedSubset
  <1>5. received' = Max({received} \cup {HeaderWeight[ts] : ts \in T})
    BY DEF HeaviestReceived
  <1>6. /\ received' \in Nat
        /\ received <= received'
        /\ \A ts \in T : HeaderWeight[ts] <= received'
        /\ received' = received \/ \E ts \in T : received' = HeaderWeight[ts]
    <2> HIDE DEF T
    <2> DEFINE m == Max({received} \cup {HeaderWeight[ts] : ts \in T})
    <2>1. /\ m \in Nat
          /\ received <= m
          /\ \A ts \in T : HeaderWeight[ts] <= m
          /\ m = received \/ \E ts \in T : m = HeaderWeight[ts]
      BY <1>1, <1>4, HeaviestReceivedIs, Zenon
    <2> HIDE DEF m
    <2>2. received' = m
      BY <1>5 DEF m
    <2> QED
      BY <2>1, <2>2
  <1>7. CASE others = {}
    <2>1. T = {}
      BY <1>3, <1>7
    <2>2. received' = received
      BY <1>6, <2>1
    <2>3. next_sync' = next_sync
      BY <1>7 DEF UpdateNextSync
    <2>4. QED
      BY <1>6, <2>2, <2>3 DEF heaviest_weight, Bounded
  <1>8. CASE others # {}
    <2>1. PICK group \in HeaviestGroups(others) : next_sync' = UpdateNext(next_sync, group)
      BY <1>8 DEF UpdateNextSync
    <2>2. /\ group \in others
          /\ \A h \in others : heaviest_weight(group) >= heaviest_weight(h)
      BY DEF HeaviestGroups
    <2>3. others \subseteq groups
      BY DEF GatherOthers
    <2>4. group \subseteq T
      BY <1>2, <2>2, <2>3 DEF GatherOthers
    <2>5. group # NoGroup /\ group \in SUBSET Tipset /\ Bounded(group)
      BY <1>2, <2>2, <2>3
    <2>6. /\ heaviest_weight(group) \in Nat
          /\ \E ts \in group : HeaderWeight[ts] = heaviest_weight(group)
      BY <2>5, HeaviestWeight
    <2>7. ASSUME NEW t \in T PROVE HeaderWeight[t] <= heaviest_weight(group)
      <3>1. PICK h \in others : t \in h
        BY <1>3
      <3>2. h \in groups
        BY <2>3
      <3>3. heaviest_weight(h) \in Nat /\ HeaderWeight[t] <= heaviest_weight(h)
        BY <1>2, <3>1, <3>2, HeaviestWeight
      <3>4. heaviest_weight(group) >= heaviest_weight(h)
        BY <2>2
      <3>5. HeaderWeight[t] \in Nat
        BY <1>1, TipsetProcessorAssumption
      <3>6. QED
        BY <2>6, <3>3, <3>4, <3>5
    <2> DEFINE w == heaviest_weight(group)
    <2>8. received' >= w /\ received' >= received /\ received' \in {received, w}
      <3> HIDE DEF T, others, groups
      <3>1. received' >= w
        BY <1>6, <2>4, <2>6
      <3>2. received' = received \/ received' <= w
        BY <1>6, <2>7
      <3>3. QED
        BY <1>6, <2>6, <3>1, <3>2
    <2> DEFINE new == UpdateNext(next_sync, group)
    <2>9. /\ new # NoGroup /\ Bounded(new)
          /\ next_sync = NoGroup => heaviest_weight(new) = w
          /\ next_sync # NoGroup =>
               /\ heaviest_weight(new) \in {heaviest_weight(next_sync), w}
               /\ heaviest_weight(new) >= heaviest_weight(next_sync)
               /\ heaviest_weight(new) >= w
      BY <2>5, UpdateNextHeaviest
    <2> HIDE DEF new, w
    <2>10. received' = heaviest_weight(new)
      <3>1. w \in Nat
        BY <2>6 DEF w
      <3>2. QED
        BY <1>6, <2>8, <2>9, <3>1
    <2>11. next_sync' = new
      BY <2>1 DEF new
    <2>12. heaviest_weight(new) = heaviest_weight(next_sync')
      BY <2>11
    <2>13. Bounded(next_sync')
      BY <2>9, <2>11
    <2>14. QED
      BY <1>6, <2>9, <2>10, <2>11, <2>12, <2>13
  <1>9. QED
    BY <1>7, <1>8

\* The queue is empty in the beginning.
LEMMA InitQueueInv == MuxerInit => QueueInv
  <1> SUFFICES ASSUME MuxerInit PROVE QueueInv
    OBVIOUS
  <1> USE TipsetProcessorAssumption, SampleAssumption
  <1>1. TypeOK
    BY DEF MuxerInit, Init, TypeOK, NoGroup
  <1>2. MuxerTypeOK
    <2>1. sample \in Seq(Tipset) /\ Len(sample) < tipset_sample_size
      BY DEF MuxerInit
    <2>2. (bootstrapping # NoBootstrap) = (muxer = "Bootstrap")
      BY DEF MuxerInit
    <2>3. QED
      BY <1>1, <2>1, <2>2, Zenon DEF MuxerInit, Init, MuxerTypeOK
  <1>3. Weighed
    BY Zenon DEF MuxerInit, Init, Weighed, NextIsHeaviest, Bounded, NoGroup
  <1>4. QED
    BY <1>2, <1>3 DEF QueueInv

\* A step that touches neither the state nor the queue.
LEMMA WeighedKept ==
    ASSUME Weighed, UNCHANGED <<state, next_sync, received>>
    PROVE  Weighed'
  BY DEF Weighed, NextIsHeaviest, Bounded, heaviest_weight

\* A processor whose slots fit the state it is in has its types.
LEMMA ProcessorTypes ==
    ASSUME IInv', TypeOK, UNCHANGED sent, UNCHANGED failed \/ failed' \in 0 .. MaxFailed,
           Len(channel') <= ChannelCap, received' \in Nat, head' \in Tipset,
           state' # "SyncRange" => syncer' = NoSyncer
    PROVE  TypeOK'
  <1>1. /\ state' \in {"Idle", "FindRange", "SyncRange"}
        /\ {finding', current_sync', next_sync'} \subseteq SUBSET Tipset
        /\ channel' \in Seq(Tipset)
        /\ (finding' = NoGroup) = (state' # "FindRange")
    BY DEF IInv, SlotsInv
  <1>2. /\ syncer' \in Syncer \cup {NoSyncer}
        /\ (syncer' = NoSyncer) = (state' # "SyncRange")
    <2>1. CASE state' = "SyncRange"
      <3>1. syncer' \in Syncer
        BY <2>1 DEF IInv, SlotsInv
      <3>2. syncer'.proposed_head \in Tipset /\ NoSyncer.proposed_head = NoTipset
        BY <3>1 DEF Syncer, NoSyncer
      <3>3. syncer' # NoSyncer
        BY <3>2, TipsetProcessorAssumption
      <3>4. QED
        BY <2>1, <3>1, <3>3
    <2>2. CASE state' # "SyncRange"
      BY <2>2
    <2>3. QED
      BY <2>1, <2>2
  <1>3. sent' \in 0 .. MaxSent /\ failed' \in 0 .. MaxFailed
    BY DEF TypeOK
  <1>4. QED
    BY <1>1, <1>2, <1>3 DEF TypeOK

\* The muxer's own variables, when a step of the processor leaves them alone.
LEMMA MuxerTypes ==
    ASSUME MuxerTypeOK, TypeOK', muxer = "Follow", UNCHANGED muxer_vars
    PROVE  MuxerTypeOK'
  BY DEF MuxerTypeOK, muxer_vars

\* Gather keeps the heaviest of the other groups as the next one.
LEMMA GatherQueueInv ==
    ASSUME IInv, IInv', QueueInv, Gather, muxer = "Follow", UNCHANGED muxer_vars
    PROVE  QueueInv'
  <1> USE DEF QueueInv
  <1> DEFINE tipsets == {channel[i] : i \in DOMAIN channel}
             groups == Groups(tipsets)
  <1>1. tipsets \in SUBSET Tipset /\ Bounded(tipsets)
    BY SequenceBounded DEF IInv, SlotsInv
  <1>2. channel' = <<>> /\ UNCHANGED <<head, sent, failed>>
    BY DEF Gather
  <1>3. TypeOK
    BY DEF MuxerTypeOK
  <1>4. ASSUME received' \in Nat, state' # "SyncRange" => syncer' = NoSyncer
        PROVE  MuxerTypeOK'
    <2>1. Len(channel') <= ChannelCap /\ head' \in Tipset
      BY <1>2, <1>3, TipsetProcessorAssumption DEF TypeOK
    <2>2. TypeOK'
      BY <1>2, <1>3, <1>4, <2>1, ProcessorTypes
    <2>3. QED
      BY <2>2, MuxerTypes
  <1>5. next_sync \in SUBSET Tipset /\ Bounded(next_sync) /\ received \in Nat
    BY <1>3 DEF TypeOK, Weighed
  <1>6. CASE GatherIdle(groups)
    <2>1. state = "Idle" /\ state' = "FindRange" /\ received' = 0 /\ UNCHANGED <<next_sync, syncer>>
      BY <1>6 DEF GatherIdle
    <2>2. MuxerTypeOK'
      BY <1>3, <1>4, <2>1 DEF TypeOK
    <2>3. Weighed'
      BY <2>1 DEF Weighed, NextIsHeaviest, Bounded, NoGroup
    <2>4. QED
      BY <2>2, <2>3
  <1>7. CASE GatherFindRange(groups) \/ GatherSyncRange(groups)
    <2>1. PICK key : UpdateNextSync(groups, key) /\ received' = HeaviestReceived(groups, key)
      BY <1>7, Zenon DEF GatherFindRange, GatherSyncRange
    <2>2. state # "Idle" /\ UNCHANGED state /\ (state = "FindRange" => UNCHANGED syncer)
      BY <1>7 DEF GatherFindRange, GatherSyncRange
    <2>3. received = IF next_sync = NoGroup THEN 0 ELSE heaviest_weight(next_sync)
      BY <2>2 DEF Weighed, NextIsHeaviest
    <2>4. /\ received' \in Nat
          /\ Bounded(next_sync')
          /\ received' = IF next_sync' = NoGroup THEN 0 ELSE heaviest_weight(next_sync')
      <3> HIDE DEF tipsets
      <3> QED
        BY <1>1, <1>5, <2>1, <2>3, NextSyncHeaviest
    <2>5. MuxerTypeOK'
      BY <1>3, <1>4, <2>2, <2>4 DEF TypeOK
    <2>6. Weighed'
      BY <2>2, <2>4 DEF Weighed, NextIsHeaviest
    <2>7. QED
      BY <2>5, <2>6
  <1>8. QED
    BY <1>6, <1>7 DEF Gather

\* A range ends: the next sync becomes the range to be found, with nothing after it.
LEMMA NextRangeQueue ==
    ASSUME IInv', QueueInv, NextRange, UNCHANGED <<channel, head, sent>>,
           failed' \in 0 .. MaxFailed, muxer = "Follow", UNCHANGED muxer_vars
    PROVE  QueueInv'
  <1>1. TypeOK
    BY DEF QueueInv, MuxerTypeOK
  <1>2. TypeOK'
    BY <1>1, ProcessorTypes DEF NextRange, TypeOK
  <1>3. Weighed'
    BY DEF NextRange, Weighed, NextIsHeaviest, Bounded, NoGroup
  <1>4. QED
    BY <1>2, <1>3, MuxerTypes DEF QueueInv

\* The next group moves only when its range is started, and the count starts again.
LEMMA DriveQueueInv ==
    ASSUME IInv, IInv', QueueInv, Drive, muxer = "Follow", UNCHANGED muxer_vars
    PROVE  QueueInv'
  <1>1. TypeOK /\ Weighed
    BY DEF QueueInv, MuxerTypeOK
  <1>2. \A ts \in Tipset : PutTipset(ts) => head' \in Tipset
    BY <1>1 DEF PutTipset, TypeOK
  <1>3. ASSUME TypeOK', Weighed' PROVE QueueInv'
    BY <1>3, MuxerTypes DEF QueueInv
  <1>4. CASE RangeFound
    <2>1. TypeOK'
      BY <1>1, <1>4, ProcessorTypes DEF RangeFound, TypeOK
    <2>2. Weighed'
      BY <1>1, <1>4 DEF RangeFound, Weighed, NextIsHeaviest, Bounded, heaviest_weight
    <2>3. QED
      BY <1>3, <2>1, <2>2
  <1>5. CASE RangeNotFound
    <2>1. TypeOK'
      BY <1>1, <1>5, ProcessorTypes DEF RangeNotFound, TypeOK
    <2>2. Weighed'
      BY <1>5 DEF RangeNotFound, Weighed, NextIsHeaviest, Bounded, NoGroup
    <2>3. QED
      BY <1>3, <2>1, <2>2
  <1>6. CASE RangeTaskDone
    <2>1. state = "SyncRange" /\ UNCHANGED <<channel, state, next_sync, sent, failed, received>>
      BY <1>6 DEF RangeTaskDone
    <2>2. syncer.proposed_head \in Tipset
      BY <2>1 DEF IInv, SlotsInv, Syncer
    <2>3. head' \in Tipset
      BY <1>2, <1>6, <2>2 DEF RangeTaskDone
    <2>4. TypeOK'
      BY <1>1, <2>1, <2>3, ProcessorTypes DEF TypeOK
    <2>5. QED
      BY <1>1, <1>3, <2>1, <2>4, WeighedKept
  <1>7. ASSUME NEW ts \in Tipset, TipsetTaskDone(ts) PROVE QueueInv'
    <2>1. state = "SyncRange" /\ UNCHANGED <<channel, state, next_sync, sent, failed, received>>
      BY <1>7 DEF TipsetTaskDone
    <2>2. head' \in Tipset
      BY <1>2, <1>7 DEF TipsetTaskDone
    <2>3. TypeOK'
      BY <1>1, <2>1, <2>2, ProcessorTypes DEF TypeOK
    <2>4. QED
      BY <1>1, <1>3, <2>1, <2>3, WeighedKept
  <1>8. CASE RangeSynced
    BY <1>1, <1>8, NextRangeQueue DEF RangeSynced, TypeOK
  <1>9. CASE RangeFailed
    <2>1. failed' \in 0 .. MaxFailed
      BY <1>1, <1>9, TipsetProcessorAssumption DEF RangeFailed, TypeOK
    <2>2. QED
      BY <1>9, <2>1, NextRangeQueue DEF RangeFailed
  <1>10. QED
    BY <1>4, <1>5, <1>6, <1>7, <1>8, <1>9 DEF Drive

\* A tipset that is sent while there is room fits the channel.
LEMMA ChannelTakes ==
    ASSUME TypeOK, NEW ts \in Tipset, Len(channel) < ChannelCap
    PROVE  Append(channel, ts) \in Seq(Tipset) /\ Len(Append(channel, ts)) <= ChannelCap
  <1>1. channel \in Seq(Tipset) /\ Len(channel) \in Nat
    BY DEF TypeOK
  <1>2. Append(channel, ts) \in Seq(Tipset) /\ Len(Append(channel, ts)) = Len(channel) + 1
    BY <1>1
  <1>3. ChannelCap \in Nat
    BY TipsetProcessorAssumption
  <1>4. QED
    BY <1>1, <1>2, <1>3

\* Every step keeps the invariant of the queue.
LEMMA NextQueueInv ==
    ASSUME IInv, IInv', QueueInv, [MuxerNext]_all_vars
    PROVE  QueueInv'
  <1>1. TypeOK /\ Weighed /\ MuxerTypeOK
    BY DEF QueueInv, MuxerTypeOK
  <1>2. ASSUME UNCHANGED vars, MuxerTypeOK' PROVE QueueInv'
    BY <1>1, <1>2, WeighedKept DEF QueueInv, vars
  <1>3. ASSUME UNCHANGED vars PROVE TypeOK'
    BY <1>1, <1>3 DEF TypeOK, vars
  <1>4. ASSUME NEW ts \in Tipset, ReceiveConnect(ts) PROVE QueueInv'
    <2>1. muxer = "Connect" /\ UNCHANGED vars /\ UNCHANGED settled /\ state = "Idle"
          /\ outgoing = NoTipset /\ bootstrapping = NoBootstrap
      BY <1>1, <1>4 DEF ReceiveConnect, MuxerTypeOK
    <2>2. CASE Len(Append(sample, ts)) < tipset_sample_size
      <3>1. sample' = Append(sample, ts) /\ UNCHANGED <<muxer, bootstrapping, outgoing>>
        BY <1>4, <2>2, Zenon DEF ReceiveConnect
      <3>2. sample' \in Seq(Tipset) /\ Len(sample') < tipset_sample_size
        BY <1>1, <2>2, <3>1 DEF MuxerTypeOK
      <3>3. TypeOK' /\ state' = state
        BY <1>3, <2>1 DEF vars
      <3>4. MuxerTypeOK'
        BY <1>1, <2>1, <3>1, <3>2, <3>3 DEF MuxerTypeOK
      <3>5. QED
        BY <1>2, <2>1, <3>4
    <2>3. CASE ~(Len(Append(sample, ts)) < tipset_sample_size)
      <3> DEFINE received_tipsets == Append(sample, ts)
      <3>1. PICK nh \in HeaviestOf({received_tipsets[i] : i \in DOMAIN received_tipsets}) : Evaluate(nh)
        BY <1>4, <2>3, Zenon DEF ReceiveConnect
      <3>2. nh \in Tipset /\ head \in Tipset /\ NoTipset \notin Tipset
        <4>1. received_tipsets \in Seq(Tipset)
          BY <1>1 DEF MuxerTypeOK
        <4>2. nh \in Tipset
          BY <3>1, <4>1 DEF HeaviestOf
        <4>3. QED
          BY <1>1, <4>2, TipsetProcessorAssumption DEF TypeOK
      <3>3. sample' = <<>>
        BY <1>4, <2>3, Zenon DEF ReceiveConnect
      <3>4. \/ muxer' = "Follow" /\ bootstrapping' = NoBootstrap /\ outgoing' \in Tipset \cup {NoTipset}
            \/ muxer' = "Bootstrap" /\ bootstrapping' = <<nh, head>> /\ outgoing' = NoTipset
        BY <2>1, <3>1, <3>2 DEF Evaluate
      <3>5. <<nh, head>> \in Tipset \X Tipset /\ <<nh, head>> # NoBootstrap
        BY <3>2 DEF NoBootstrap
      <3>6. /\ bootstrapping' \in (Tipset \X Tipset) \cup {NoBootstrap}
            /\ (bootstrapping' # NoBootstrap) = (muxer' = "Bootstrap")
        BY <3>4, <3>5
      <3>7. sample' \in Seq(Tipset) /\ Len(sample') < tipset_sample_size
        BY <3>3, SampleAssumption
      <3>8. state' = "Idle" /\ settled' \in BOOLEAN
        BY <1>1, <2>1 DEF vars, MuxerTypeOK
      <3>9. muxer' \in {"Connect", "Bootstrap", "Follow"} /\ outgoing' \in Tipset \cup {NoTipset}
            /\ (outgoing' # NoTipset => muxer' = "Follow")
        BY <3>4
      <3>10. MuxerTypeOK'
        BY <1>3, <2>1, <3>3, <3>6, <3>7, <3>8, <3>9 DEF MuxerTypeOK
      <3>11. QED
        BY <1>2, <2>1, <3>10
    <2>4. QED
      BY <2>2, <2>3
  <1>5. ASSUME NEW ts \in Tipset, ReceiveFollow(ts) PROVE QueueInv'
    BY <1>1, <1>2, <1>3, <1>5 DEF ReceiveFollow, MuxerTypeOK
  <1>6. ASSUME NEW ts \in Tipset, SubmitBlock(ts) PROVE QueueInv'
    <2>1. TypeOK'
      <3>1. channel' \in Seq(Tipset) /\ Len(channel') <= ChannelCap
        BY <1>1, <1>6, ChannelTakes DEF SubmitBlock, SendTipset, MuxerTypeOK
      <3>2. sent' \in 0 .. MaxSent
        BY <1>1, <1>6, TipsetProcessorAssumption DEF SubmitBlock, SendTipset, TypeOK, MuxerTypeOK
      <3>3. QED
        BY <1>1, <1>6, <3>1, <3>2 DEF SubmitBlock, SendTipset, TypeOK, MuxerTypeOK
    <2>2. MuxerTypeOK'
      BY <1>1, <1>6, <2>1 DEF SubmitBlock, SendTipset, MuxerTypeOK, muxer_vars
    <2>3. QED
      BY <1>1, <1>6, <2>2, WeighedKept DEF SubmitBlock, SendTipset, QueueInv
  <1>7. CASE Settle
    <2>1. TypeOK' /\ state' = state
      BY <1>3, <1>7 DEF Settle, vars
    <2>2. MuxerTypeOK'
      BY <1>1, <1>7, <2>1 DEF Settle, MuxerTypeOK
    <2>3. QED
      BY <1>2, <1>7, <2>2 DEF Settle
  <1>8. CASE SendOutgoing
    <2>1. outgoing \in Tipset
      BY <1>1, <1>8 DEF SendOutgoing, MuxerTypeOK
    <2>2. TypeOK'
      <3>1. channel' \in Seq(Tipset) /\ Len(channel') <= ChannelCap
        BY <1>1, <1>8, <2>1, ChannelTakes DEF SendOutgoing, MuxerTypeOK
      <3>2. QED
        BY <1>1, <1>8, <3>1 DEF SendOutgoing, TypeOK, MuxerTypeOK
    <2>3. MuxerTypeOK'
      BY <1>1, <1>8, <2>2 DEF SendOutgoing, MuxerTypeOK
    <2>4. QED
      BY <1>1, <1>8, <2>3, WeighedKept DEF SendOutgoing, QueueInv
  <1>9. CASE BootstrapDone \/ BootstrapFailed
    <2>1. BootstrapEnds /\ muxer = "Bootstrap" /\ bootstrapping \in Tipset \X Tipset
      BY <1>1, <1>9 DEF BootstrapDone, BootstrapFailed, MuxerTypeOK
    <2>2. bootstrapping[1] \in Tipset
      BY <2>1
    <2>3. head' \in Tipset
      BY <1>1, <1>9, <2>2 DEF BootstrapDone, BootstrapFailed, PutTipset, TypeOK
    <2>4. failed' \in 0 .. MaxFailed
      <3>1. failed' = failed \/ (failed < MaxFailed /\ failed' = failed + 1)
        BY <1>9 DEF BootstrapDone, BootstrapFailed
      <3>2. failed \in 0 .. MaxFailed /\ MaxFailed \in Nat
        BY <1>1, TipsetProcessorAssumption DEF TypeOK
      <3>3. QED
        BY <3>1, <3>2
    <2>5. TypeOK'
      BY <1>1, <2>1, <2>3, <2>4 DEF BootstrapEnds, TypeOK
    <2>6. MuxerTypeOK'
      BY <1>1, <2>1, <2>5 DEF BootstrapEnds, MuxerTypeOK
    <2>7. QED
      BY <1>1, <2>1, <2>6, WeighedKept DEF BootstrapEnds, QueueInv
  <1>10. CASE Follow
    BY <1>10, GatherQueueInv, DriveQueueInv DEF Follow
  <1>11. CASE UNCHANGED all_vars
    <2>1. TypeOK' /\ state' = state
      BY <1>3, <1>11 DEF all_vars, vars
    <2>2. MuxerTypeOK'
      BY <1>1, <1>11, <2>1 DEF all_vars, muxer_vars, MuxerTypeOK
    <2>3. QED
      BY <1>2, <1>11, <2>2 DEF all_vars
  <1>12. QED
    BY <1>4, <1>5, <1>6, <1>7, <1>8, <1>9, <1>10, <1>11 DEF MuxerNext

\* The processor's queue is sound with any tipsets, channel and sample: its groups
\* agree, and however the tipsets received were spread over polls, merged and
\* replaced, the range that is synced next is that of the heaviest of them.
THEOREM QueueTheorem == MuxerSpec => []QueueIsSound
  <1>1. IInv /\ QueueInv => QueueIsSound
    BY DEF IInv, QueueInv, Weighed, QueueIsSound
  <1>2. IInv /\ QueueInv /\ [MuxerNext]_all_vars => (IInv /\ QueueInv)'
    BY NextIInv, NextQueueInv
  <1>3. QED
    BY <1>1, <1>2, InitIInv, InitQueueInv, PTL DEF MuxerSpec

=============================================================================
