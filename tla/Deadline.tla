------------------------------- MODULE Deadline -------------------------------
(***************************************************************************)
(* A deadline of the storage miner actor: its partitions, the queue of the *)
(* epochs at which some partition has an expiration, the partitions posted *)
(* in the open window, the ones with early terminations to process, the    *)
(* totals over the partitions, and the snapshot, taken when the window     *)
(* closes, of the partitions and of the proofs accepted without a check,   *)
(* against which a proof can be disputed.                                  *)
(*                                                                         *)
(* A declaration maps the index of a partition to sectors.  Partitions are *)
(* counted from 1.  As in Partition, {} is an error.                       *)
(***************************************************************************)
EXTENDS Partition, Sequences, SequencesExt

NewDeadline ==
    [partitions |-> <<>>, expirations |-> NoEntries, posted |-> {},
     early_terminations |-> {}, live_sectors |-> 0, total_sectors |-> 0,
     faulty_power |-> 0, proofs |-> <<>>, partitions_snapshot |-> <<>>,
     proofs_snapshot |-> <<>>]

(* The results of an operation on each index of I: none if one of them     *)
(* fails.                                                                  *)
OnEach(I, Op(_)) ==
    IF \E i \in I : Op(i) = {} THEN {}
    ELSE {[i \in I |-> CHOOSE r \in Op(i) : TRUE]}

Total(f, Field(_)) == MapThenSumSet(LAMBDA i : Field(f[i]), DOMAIN f)

(* The deadline with the partitions the results in f give.                 *)
Updated(dl, f) ==
    [dl EXCEPT !.partitions = [i \in DOMAIN @ |-> IF i \in DOMAIN f THEN f[i].partition
                                                  ELSE @[i]]]

Known(dl, ps) == ps \subseteq DOMAIN dl.partitions

AddExpirationPartitions(dl, e, ps, d) ==
    [dl EXCEPT !.expirations = AddToQueue(@, QuantizeUp(e, d), ps)]

-----------------------------------------------------------------------------

(* Gives the deadline and the sectors that ended.                          *)
PopExpiredSectors(dl, until) ==
    LET due == {e \in DOMAIN dl.expirations : e <= until}
        ps == UNION {dl.expirations[e] : e \in due}
        rest == [e \in DOMAIN dl.expirations \ due |-> dl.expirations[e]]
        popped(f) ==
            [on_time |-> UNION {f[i].popped.on_time : i \in ps},
             early |-> UNION {f[i].popped.early : i \in ps},
             pledge |-> Total(f, LAMBDA r : r.popped.pledge),
             active |-> Total(f, LAMBDA r : r.popped.active),
             faulty |-> Total(f, LAMBDA r : r.popped.faulty)]
        after(f) ==
            [Updated(dl, f) EXCEPT
                !.expirations = rest,
                !.early_terminations = @ \cup {i \in ps : f[i].popped.early # {}},
                !.live_sectors = @ - Cardinality(popped(f).on_time)
                                   - Cardinality(popped(f).early),
                !.faulty_power = @ - popped(f).faulty]
    IN  IF due = {} THEN {[deadline |-> dl, popped |-> EmptyEntry]}
        ELSE IF ~Known(dl, ps) THEN {}
        ELSE {[deadline |-> after(f), popped |-> popped(f)] :
                f \in OnEach(ps, LAMBDA i : PopExpiredIn(dl.partitions[i], until))}

(* New sectors, in the order of their numbers, fill the last partition up  *)
(* to size and then new ones.                                              *)
AddSectors(dl, size, proven, ss, info, d) ==
    LET n == Len(dl.partitions)
        room == IF n = 0 THEN 0
                ELSE Max({0, size - Cardinality(dl.partitions[n].sectors)})
        rank(s) == Cardinality({t \in ss : t <= s})
        slot(s) == IF rank(s) <= room THEN n ELSE n + 1 + ((rank(s) - room - 1) \div size)
        slots == {slot(s) : s \in ss}
        old(i) == IF i <= n THEN dl.partitions[i] ELSE NewPartition
        due(s) == QuantizeUp(info[s].expiration, d)
        after(f) ==
            [dl EXCEPT
                !.partitions = [i \in 1..Max(slots \cup {n}) |->
                                    IF i \in slots THEN f[i] ELSE old(i)],
                !.expirations = [e \in DOMAIN @ \cup {due(s) : s \in ss} |->
                                    (IF e \in DOMAIN @ THEN @[e] ELSE {})
                                        \cup {slot(s) : s \in {t \in ss : due(t) = e}}],
                !.live_sectors = @ + Cardinality(ss),
                !.total_sectors = @ + Cardinality(ss)]
    IN  IF ss = {} THEN {dl}
        ELSE {after(f) : f \in OnEach(slots, LAMBDA i :
                            AddSectorsTo(old(i), proven, {s \in ss : slot(s) = i}, info, d))}

(* Partitions are visited in order until one of the two limits is reached. *)
(* (A partition is not removed while its bit is set.)                      *)
PopEarlyTerminations(dl, maxPartitions, maxSectors) ==
    LET earlier(i) == {j \in dl.early_terminations : j < i}
        before(i) == Cardinality(UNION {Unprocessed(dl.partitions[j]) : j \in earlier(i)})
        seen == {i \in dl.early_terminations :
                    Cardinality(earlier(i)) < maxPartitions /\ before(i) < maxSectors}
        after == [dl EXCEPT !.partitions =
                    [i \in DOMAIN @ |-> IF i \in seen THEN PopEarlyIn(@[i], maxSectors - before(i))
                                        ELSE @[i]]]
    IN  [after EXCEPT !.early_terminations =
            {i \in @ : i \in seen => Unprocessed(after.partitions[i]) # {}}]

(* Gives the deadline and the active power lost.                           *)
TerminateSectors(dl, epoch, decl, info, d) ==
    LET after(f) ==
            [Updated(dl, f) EXCEPT
                !.early_terminations =
                    @ \cup {i \in DOMAIN f : f[i].removed.on_time \cup f[i].removed.early # {}},
                !.live_sectors = @ - Total(f, LAMBDA r : Cardinality(r.removed.on_time)
                                                         + Cardinality(r.removed.early)),
                !.faulty_power = @ - Total(f, LAMBDA r : r.removed.faulty)]
    IN  IF ~Known(dl, DOMAIN decl) THEN {}
        ELSE {[deadline |-> after(f), lost |-> Total(f, LAMBDA r : r.removed.active)] :
                f \in OnEach(DOMAIN decl,
                        LAMBDA i : TerminateIn(dl.partitions[i], epoch, decl[i], info, d))}

(* Gives the deadline without the partitions ps, their live and their dead *)
(* sectors and their power.  The partitions that stay move down.           *)
RemovePartitions(dl, ps) ==
    LET gone == {dl.partitions[i] : i \in ps}
        kept == SetToSortSeq(DOMAIN dl.partitions \ ps, <)
        live == UNION {LiveSectors(p) : p \in gone}
        dead == UNION {p.terminated : p \in gone}
        moved(is) == {k \in DOMAIN kept : kept[k] \in is}
        after ==
            [dl EXCEPT
                !.partitions = [k \in DOMAIN kept |-> @[kept[k]]],
                !.expirations = [e \in {k \in DOMAIN @ : moved(@[k]) # {}} |-> moved(@[e])],
                !.live_sectors = @ - Cardinality(live),
                !.total_sectors = @ - Cardinality(live) - Cardinality(dead)]
    IN  IF ps = {} THEN {[deadline |-> dl, live |-> {}, dead |-> {}, power |-> 0]}
        ELSE {r \in {[deadline |-> after, live |-> live, dead |-> dead,
                      power |-> MapThenSumSet(LAMBDA i : dl.partitions[i].live_power, ps)]} :
                /\ Known(dl, ps) /\ dl.early_terminations = {}
                /\ \A p \in gone : p.faults = {} /\ p.unproven = {}}

(* Gives the deadline and the change of the active power.                  *)
RecordFaults(dl, expiration, decl, info, d) ==
    LET after(f) ==
            AddExpirationPartitions(
                [Updated(dl, f) EXCEPT !.faulty_power = @ + Total(f, LAMBDA r : r.faulty)],
                expiration, {i \in DOMAIN f : f[i].new # {}}, d)
    IN  IF ~Known(dl, DOMAIN decl) THEN {}
        ELSE {[deadline |-> after(f), delta |-> Total(f, LAMBDA r : r.delta)] :
                f \in OnEach(DOMAIN decl,
                    LAMBDA i : RecordFaultsIn(dl.partitions[i], decl[i], expiration, info, d))}

DeclareFaultsRecovered(dl, decl, info) ==
    IF ~Known(dl, DOMAIN decl) THEN {}
    ELSE {Updated(dl, [i \in DOMAIN f |-> [partition |-> f[i]]]) :
            f \in OnEach(DOMAIN decl,
                    LAMBDA i : DeclareRecoveredIn(dl.partitions[i], decl[i], info))}

(* The window closes: partitions that were not posted become faulty, and   *)
(* the partitions and the accepted proofs are kept for disputes.           *)
ProcessDeadlineEnd(dl, expiration, d) ==
    LET p(i) == dl.partitions[i]
        missed == {i \in DOMAIN dl.partitions \ dl.posted :
                    p(i).recovering_power # 0 \/ p(i).faulty_power # p(i).live_power}
        after(f) ==
            AddExpirationPartitions(
                [Updated(dl, f) EXCEPT !.faulty_power = @ + Total(f, LAMBDA r : r.faulty)],
                expiration, {i \in missed : f[i].faulty # 0}, d)
        closed(x) == [x EXCEPT !.posted = {}, !.partitions_snapshot = x.partitions,
                               !.proofs_snapshot = x.proofs, !.proofs = <<>>]
    IN  {[deadline |-> closed(after(f)), delta |-> Total(f, LAMBDA r : r.delta)] :
            f \in OnEach(missed, LAMBDA i : RecordMissedPost(p(i), expiration, d))}

IsLive(dl) ==
    \/ dl.live_sectors > 0
    \/ dl.posted # {}
    \/ dl.partitions # dl.partitions_snapshot
    \/ dl.proofs # dl.proofs_snapshot

(* posts maps the index of a proven partition to its skipped sectors.      *)
(* Gives the deadline, the change of the active power, the recovered power *)
(* and the sectors actually proven.                                        *)
RecordProvenSectors(dl, expiration, posts, info, d) ==
    LET Prove(i) ==
            UNION {{[partition |-> ActivateUnproven(r.partition),
                     delta |-> s.delta + r.partition.unproven_power + r.recovered,
                     faulty |-> s.faulty, recovered |-> r.recovered, new |-> s.new] :
                        r \in RecoverFaults(s.partition, info, d)} :
                   s \in RecordSkippedFaults(dl.partitions[i], posts[i], expiration, info, d)}
        after(f) ==
            AddExpirationPartitions(
                [Updated(dl, f) EXCEPT
                    !.posted = @ \cup DOMAIN f,
                    !.faulty_power = @ + Total(f, LAMBDA r : r.faulty - r.recovered)],
                expiration, {i \in DOMAIN f : f[i].new}, d)
    IN  IF ~Known(dl, DOMAIN posts) \/ dl.posted \cap DOMAIN posts # {} THEN {}
        ELSE {[deadline |-> after(f), delta |-> Total(f, LAMBDA r : r.delta),
               recovered |-> Total(f, LAMBDA r : r.recovered),
               proven |-> UNION {LiveSectors(f[i].partition) \ f[i].partition.faults :
                                    i \in DOMAIN f}] :
                f \in OnEach(DOMAIN posts, Prove)}

(* A proof accepted without a check, valid or not, for the partitions ps.  *)
RecordPoStProofs(dl, ps, valid) ==
    [dl EXCEPT !.proofs = Append(@, [partitions |-> ps, valid |-> valid])]

(* The proof k of the closed window leaves a hole in the snapshot.  Gives  *)
(* the deadline, and the active sectors and power the proof vouched for.   *)
TakePoStProofs(dl, k) ==
    LET proof == dl.proofs_snapshot[k]
        old == dl.partitions_snapshot
    IN  IF k \notin DOMAIN dl.proofs_snapshot THEN {}
        ELSE {[deadline |->
                 [dl EXCEPT !.proofs_snapshot = [j \in DOMAIN @ \ {k} |-> @[j]]],
               valid |-> proof.valid,
               disputed |-> [i \in proof.partitions |-> ActiveSectors(old[i])],
               power |-> MapThenSumSet(LAMBDA i : ActivePower(old[i]), proof.partitions)]}

(* Gives the deadline and the sectors whose expiration moved.              *)
RescheduleSectorExpirations(dl, new, decl, info, d) ==
    LET known == DOMAIN decl \cap DOMAIN dl.partitions
    IN  {[deadline |->
            AddExpirationPartitions(Updated(dl, f), new,
                {i \in known : f[i].replaced # {}}, d),
          replaced |-> UNION {f[i].replaced : i \in known}] :
            f \in OnEach(known,
                    LAMBDA i : RescheduleIn(dl.partitions[i], new, decl[i], info, d))}

=============================================================================
