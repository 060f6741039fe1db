-------------------------------- MODULE Miner --------------------------------
(***************************************************************************)
(* The storage miner actor: one miner, the messages its owner and worker,  *)
(* the reward actor and any reporter send it, and the two callbacks the    *)
(* power actor makes at the end of an epoch, the confirmation of the seals *)
(* it has verified in bulk and the deferred cron events.                   *)
(*                                                                         *)
(* st is the actor's state.  balance is the actor's, claim and pledged are *)
(* what the power actor holds for it, events are its entries in the power  *)
(* actor's cron queue and proofs the seals submitted in this epoch.  A     *)
(* message that fails leaves no trace, so a failure is a disabled action;  *)
(* an operator gives the set of its results, and {} is an error.  An       *)
(* effect is what one call does: the new state and the changes of the      *)
(* balance, the claim and the pledge, and the events it enrols.            *)
(*                                                                         *)
(* Prices (deposit, pledge, fees) depend on the network's power and        *)
(* reward; here they are fixed or proportional to power.  The proving      *)
(* period starts at epoch 0.                                               *)
(***************************************************************************)
EXTENDS Deadline

CONSTANTS
    Sectors,               \* sector numbers
    DealSectors,           \* the ones that would hold deals
    PartitionSize, MaxPartitions,
    FaultMaxAge, FaultDeclarationCutoff, DisputeWindow,
    MaxProveCommitDuration, PreCommitChallengeDelay, CleanUpDelay,
    MinSectorExpiration, MaxExtension, ConsensusFaultDuration,
    AddressedSectorsMax, AddressedPartitionsMax, MinAggregated,
    SectorSize, DealWeight,
    Deposit, FaultFee, TerminationFee, InvalidPoStFee, DisputeReward,
    ConsensusPenalty, ConsensusReward, AggregateFee,
    BlockReward, LockedReward, VestPeriod, VestStep, VestQuantum,
    Funds, Horizon, Budget \* the funds at the start, the last epoch, messages

VARIABLES st, balance, claim, pledged, events, proofs, epoch, phase, budget

vars == <<st, balance, claim, pledged, events, proofs, epoch, phase, budget>>

Deadlines == 0..(WPoStPeriodDeadlines - 1)

Current(e) == (e \div WPoStChallengeWindow) % WPoStPeriodDeadlines

(* The last and the first epoch of the window of deadline d that is open   *)
(* or comes next.                                                          *)
LastEpoch(d) == QuantizeUp(epoch, d)

OpenEpoch(d) == LastEpoch(d) - WPoStChallengeWindow + 1

IsMutable(d) == epoch < OpenEpoch(d) - WPoStChallengeWindow

CanDispute(d) ==
    /\ OpenEpoch(d) > epoch
    /\ epoch < LastEpoch(d) + 1 - WPoStProvingPeriod + DisputeWindow

CanCompact(d) == IsMutable(d) /\ ~CanDispute(d)

CutoffPassed(d) == epoch >= OpenEpoch(d) - FaultDeclarationCutoff

ConsensusFaultActive(s) == epoch <= s.consensus_fault_elapsed

QaPower(duration, weight) == SectorSize + ((9 * weight) \div duration)

NewState ==
    [precommits |-> NoEntries, cleanup |-> NoEntries, allocated |-> {},
     sectors |-> NoEntries, deadlines |-> [d \in Deadlines |-> NewDeadline],
     early_terminations |-> {}, pre_commit_deposits |-> 0, locked_funds |-> 0,
     vesting |-> NoEntries, fee_debt |-> 0, initial_pledge |-> 0,
     deadline_cron_active |-> FALSE, consensus_fault_elapsed |-> -1]

Effect(s) == [st |-> s, funds |-> 0, power |-> 0, pledge |-> 0, enrol |-> <<>>]

Enrol(e, type) == <<[epoch |-> e, type |-> type]>>

(* What x and then y do, where y was computed on the state x leaves.       *)
Then(x, y) == [st |-> y.st, funds |-> x.funds + y.funds, power |-> x.power + y.power,
               pledge |-> x.pledge + y.pledge, enrol |-> x.enrol \o y.enrol]

WithDeadline(s, d, dl) == [s EXCEPT !.deadlines[d] = dl]

Without(f, ks) == [k \in DOMAIN f \ ks |-> f[k]]

-----------------------------------------------------------------------------
(* Funds.                                                                  *)

UnlockedBalance(s, bal) ==
    bal - s.locked_funds - s.pre_commit_deposits - s.initial_pledge

BalanceInvariants(s, bal) ==
    /\ s.pre_commit_deposits >= 0 /\ s.locked_funds >= 0
    /\ s.initial_pledge >= 0 /\ s.fee_debt >= 0
    /\ UnlockedBalance(s, bal) >= 0

ApplyPenalty(s, amount) == [s EXCEPT !.fee_debt = @ + amount]

UnlockVestedFunds(s) ==
    LET vested == {e \in DOMAIN s.vesting : e < epoch}
        amount == MapThenSumSet(LAMBDA e : s.vesting[e], vested)
    IN  IF s.locked_funds = 0 THEN [st |-> s, amount |-> 0]
        ELSE [st |-> [s EXCEPT !.vesting = Without(@, vested), !.locked_funds = @ - amount],
              amount |-> amount]

(* The entries that vest soonest are unlocked first: of what vests before  *)
(* e, all but the target.                                                  *)
UnlockUnvestedFunds(s, target) ==
    LET until(e) == MapThenSumSet(LAMBDA k : s.vesting[k],
                                  {k \in DOMAIN s.vesting : epoch <= k /\ k <= e})
        left(e) == IF e < epoch THEN s.vesting[e]
                   ELSE Max({0, Min({s.vesting[e], until(e) - target})})
        amount == Min({target, until(Max(DOMAIN s.vesting))})
    IN  IF target = 0 \/ s.locked_funds = 0 THEN [st |-> s, amount |-> 0]
        ELSE [st |-> [s EXCEPT !.vesting = [e \in {k \in DOMAIN @ : left(k) > 0} |-> left(e)],
                               !.locked_funds = @ - amount],
              amount |-> amount]

(* Locks amount, to vest linearly in quantised steps.                      *)
AddLockedFunds(s, amount) ==
    LET at(k) == LET e == epoch + k * VestStep IN e + ((-e) % VestQuantum)
        vested(k) == IF k = 0 THEN 0
                     ELSE IF at(k) - epoch >= VestPeriod THEN amount
                     ELSE (amount * (at(k) - epoch)) \div VestPeriod
        steps == {k \in 1..(VestPeriod \div VestStep) : vested(k - 1) < amount}
        new(e) == MapThenSumSet(LAMBDA k : vested(k) - vested(k - 1),
                                {k \in steps : at(k) = e})
        old(e) == IF e \in DOMAIN s.vesting THEN s.vesting[e] ELSE 0
    IN  [s EXCEPT !.locked_funds = @ + amount,
                  !.vesting = [e \in DOMAIN @ \cup {at(k) : k \in steps} |-> old(e) + new(e)]]

(* Pays what it can of the debt, from vesting funds and then from the      *)
(* balance that was unlocked before.                                       *)
RepayPartialDebt(s, bal) ==
    LET v == UnlockUnvestedFunds(s, s.fee_debt)
        rest == Min({UnlockedBalance(s, bal), s.fee_debt - v.amount})
    IN  IF UnlockedBalance(s, bal) < 0 THEN {}
        ELSE {[st |-> [v.st EXCEPT !.fee_debt = @ - v.amount - rest],
               vesting |-> v.amount, paid |-> v.amount + rest]}

(* Pays the whole debt, or fails.                                          *)
RepayDebts(s, bal) ==
    IF UnlockedBalance(s, bal) < s.fee_debt THEN {}
    ELSE {[Effect([s EXCEPT !.fee_debt = 0]) EXCEPT !.funds = -s.fee_debt]}

(* A penalty is charged and paid as far as possible.                       *)
Penalised(s, bal, amount) ==
    {[Effect(r.st) EXCEPT !.funds = -r.paid, !.pledge = -r.vesting] :
        r \in RepayPartialDebt(ApplyPenalty(s, amount), bal)}

-----------------------------------------------------------------------------
(* Early terminations.                                                     *)

AllUnprocessed(s) ==
    UNION {UNION {Unprocessed(dl.partitions[i]) : i \in DOMAIN dl.partitions} :
            dl \in {s.deadlines[d] : d \in Deadlines}}

(* Deadlines are visited in order until one of the limits is reached.      *)
StatePopEarly(s) ==
    LET earlier(d) ==
            UNION {{<<c, i>> : i \in s.deadlines[c].early_terminations} :
                    c \in {b \in s.early_terminations : b < d}}
        before(d) == Cardinality(UNION {Unprocessed(s.deadlines[p[1]].partitions[p[2]]) :
                                          p \in earlier(d)})
        seen == {d \in s.early_terminations :
                    /\ Cardinality(earlier(d)) < AddressedPartitionsMax
                    /\ before(d) < AddressedSectorsMax}
        Popped(d) == PopEarlyTerminations(s.deadlines[d],
                        AddressedPartitionsMax - Cardinality(earlier(d)),
                        AddressedSectorsMax - before(d))
        after == [s EXCEPT !.deadlines = [d \in Deadlines |-> IF d \in seen THEN Popped(d)
                                                              ELSE @[d]]]
    IN  [after EXCEPT !.early_terminations =
            {d \in @ : d \in seen => after.deadlines[d].early_terminations # {}}]

(* Mutant: the pledge of terminated sectors is not returned.               *)
PayTerminationsKeepPledge(s, bal, taken) ==
    {[Effect(p.st) EXCEPT !.funds = -p.paid, !.pledge = -p.vesting] :
        p \in RepayPartialDebt(ApplyPenalty(s, TerminationFee * Cardinality(taken)), bal)}

(* The fee of the sectors taken is charged and their pledge returned; their *)
(* deals end at the market actor.                                          *)
PayTerminations(s, bal, taken) ==
    UNION {{[Effect(p.st) EXCEPT !.funds = -p.paid, !.pledge = -pledge - p.vesting] :
              p \in RepayPartialDebt([ApplyPenalty(s, TerminationFee * Cardinality(taken)) EXCEPT
                                        !.initial_pledge = @ - pledge], bal)} :
           pledge \in {k \in {PledgeOf(taken, s.sectors)} : k <= s.initial_pledge}}

ProcessEarlyTerminations(s, bal) ==
    UNION {LET taken == AllUnprocessed(s) \ AllUnprocessed(r)
           IN  IF taken = {} THEN {Effect(r)}
               ELSE IF ~(taken \subseteq DOMAIN s.sectors) THEN {}
               ELSE PayTerminations(r, bal, taken) : r \in {StatePopEarly(s)}}

(* Processes a batch; what is left is scheduled for the next epoch unless  *)
(* scheduled says that it already is.                                      *)
ProcessAndSchedule(s, bal, scheduled) ==
    {[x EXCEPT !.enrol = IF x.st.early_terminations # {} /\ ~scheduled
                         THEN Enrol(epoch + 1, "early") ELSE <<>>] :
        x \in ProcessEarlyTerminations(s, bal)}

-----------------------------------------------------------------------------
(* The end of a deadline.                                                  *)

CleanUpExpiredPreCommits(s) ==
    LET due == {e \in DOMAIN s.cleanup : e <= epoch}
        gone == UNION {s.cleanup[e] : e \in due} \cap DOMAIN s.precommits
        burn == MapThenSumSet(LAMBDA n : s.precommits[n].deposit, gone)
    IN  ApplyPenalty([s EXCEPT !.cleanup = Without(@, due), !.precommits = Without(@, gone),
                               !.pre_commit_deposits = @ - burn], burn)

(* Gives the effect and the power that was faulty before.                  *)
AdvanceDeadline(s) ==
    LET d == Current(epoch)
        dl == s.deadlines[d]
        Ended(r, x) ==
            [Effect([WithDeadline(s, d, x.deadline) EXCEPT
                        !.initial_pledge = @ - x.popped.pledge,
                        !.early_terminations = IF x.popped.early = {} THEN @ ELSE @ \cup {d}])
                EXCEPT !.power = r.delta - x.popped.active, !.pledge = -x.popped.pledge]
    IN  IF ~IsLive(dl) THEN {[effect |-> Effect(s), faulty |-> dl.faulty_power]}
        ELSE {[effect |-> x, faulty |-> dl.faulty_power] :
                x \in {y \in UNION {{Ended(r, x) : x \in PopExpiredSectors(r.deadline, LastEpoch(d))} :
                            r \in ProcessDeadlineEnd(dl, LastEpoch(d) + FaultMaxAge, d)} :
                         y.st.initial_pledge >= 0}}

(* The cron goes on while the miner has funds at stake.                    *)
ContinueDeadlineCron(s) ==
    s.pre_commit_deposits # 0 \/ s.initial_pledge # 0 \/ s.locked_funds # 0

HandleProvingDeadline(s, bal) ==
    LET v == UnlockVestedFunds(s)
        cleaned == CleanUpExpiredPreCommits(v.st)
        vested == [Effect(cleaned) EXCEPT !.pledge = -v.amount]
        Cron(x) ==
            IF ContinueDeadlineCron(x.st)
            THEN [x EXCEPT !.enrol = Enrol(QuantizeUp(epoch + 1, Current(epoch + 1)), "deadline")]
            ELSE [x EXCEPT !.st.deadline_cron_active = FALSE]
        advanced ==
            UNION {{Cron(Then(Then(vested, a.effect), p)) :
                        p \in Penalised(a.effect.st, bal, FaultFee * a.faulty)} :
                    a \in AdvanceDeadline(cleaned)}
    IN  IF cleaned.pre_commit_deposits < 0 THEN {}
        ELSE UNION {IF s.early_terminations = {} /\ x.st.early_terminations # {}
                    THEN {Then(x, y) : y \in ProcessAndSchedule(x.st, bal + x.funds, FALSE)}
                    ELSE {x} : x \in advanced}

OnDeferredCronEvent(type, s, bal) ==
    {x \in IF type = "deadline" THEN HandleProvingDeadline(s, bal)
           ELSE ProcessAndSchedule(s, bal, FALSE) :
        BalanceInvariants(x.st, bal + x.funds)}

-----------------------------------------------------------------------------
(* New sectors.                                                            *)

(* A sector goes to the mutable deadline that will have the fewest         *)
(* partitions once compacted, then the fewest now; then to one with an     *)
(* open partition, the fullest first; then to the one with the fewest live *)
(* sectors, and to the first of those.  a is the assignment so far.        *)
AssignmentKey(s, a, d) ==
    LET live == s.deadlines[d].live_sectors + Cardinality(a[d])
        total == s.deadlines[d].total_sectors + Cardinality(a[d])
        full == total % PartitionSize = 0
    IN  <<live \div PartitionSize, total \div PartitionSize, IF full THEN 1 ELSE 0,
          IF full THEN 0 ELSE -total, live, d>>

Precedes(j, k) ==
    \E i \in DOMAIN j : j[i] < k[i] /\ \A h \in 1..(i - 1) : j[h] = k[h]

AssignDeadlines(s, new) ==
    LET open == {d \in Deadlines : IsMutable(d)}
        Place(a, n) ==
            LET best == CHOOSE d \in open : \A e \in open \ {d} :
                            Precedes(AssignmentKey(s, a, d), AssignmentKey(s, a, e))
            IN  [a EXCEPT ![best] = @ \cup {n}]
        result == FoldLeft(Place, [d \in Deadlines |-> {}], SetToSortSeq(new, <))
    IN  {a \in {result} : \A d \in Deadlines : a[d] # {} =>
            s.deadlines[d].total_sectors + Cardinality(a[d]) <= PartitionSize * MaxPartitions}

AssignSectorsToDeadlines(s, new) ==
    UNION {{[s EXCEPT !.deadlines = f] :
              f \in OnEach(Deadlines, LAMBDA d :
                        AddSectors(s.deadlines[d], PartitionSize, FALSE, a[d], s.sectors, d))} :
           a \in AssignDeadlines(s, new)}

(* The capacity sectors that ss replace, by deadline and partition.        *)
Replacements(s, ss) == UNION {s.precommits[n].replaces : n \in ss}

(* Replaced sectors are to end with their next window.  Gives, by deadline, *)
(* the new deadline and the sectors found.                                 *)
RescheduleReplaced(s, ss) ==
    LET all == Replacements(s, ss)
        decl(d) == [i \in {r.partition : r \in {q \in all : q.deadline = d}} |->
                        {r.sector : r \in {q \in all : q.deadline = d /\ q.partition = i}}]
    IN  OnEach({r.deadline : r \in all}, LAMBDA d :
            RescheduleSectorExpirations(s.deadlines[d], LastEpoch(d), decl(d), s.sectors, d))

(* The record of a new sector: its pledge is at least that of the sector   *)
(* it replaces.                                                            *)
NewSector(s, n) ==
    LET p == s.precommits[n]
        power == QaPower(p.expiration - epoch, p.weight)
    IN  [expiration |-> p.expiration, activation |-> epoch, weight |-> p.weight, power |-> power,
         pledge |-> Max({power} \cup {s.sectors[r.sector].pledge : r \in p.replaces})]

(* The pre-commitments of new become sectors, their deposits pledge; f has *)
(* the deadlines of the sectors they replace.                              *)
Confirmed(s, f, new) ==
    LET table == [n \in DOMAIN s.sectors \cup new |-> IF n \in new THEN NewSector(s, n)
                                                      ELSE s.sectors[n]]
        stored == [s EXCEPT
                    !.deadlines = [d \in Deadlines |-> IF d \in DOMAIN f THEN f[d].deadline
                                                       ELSE @[d]],
                    !.sectors = table, !.precommits = Without(@, new),
                    !.pre_commit_deposits =
                        @ - MapThenSumSet(LAMBDA n : s.precommits[n].deposit, new),
                    !.initial_pledge = @ + PledgeOf(new, table)]
    IN  AssignSectorsToDeadlines(stored, new)

(* The seals of ss have been verified, and their deals activated.  A       *)
(* sector whose replaced sector was not found fails the whole batch.       *)
ConfirmSectorProofsValid(s, bal, ss) ==
    LET new == {n \in ss : s.precommits[n].expiration - epoch >= MinSectorExpiration}
        fs == {f \in RescheduleReplaced(s, ss) :
                 {r.sector : r \in Replacements(s, new)}
                    \subseteq UNION {f[d].replaced : d \in DOMAIN f}}
    IN  IF ss = {} \/ fs = {} THEN {}
        ELSE {[Effect(x) EXCEPT !.pledge = PledgeOf(new, x.sectors)] :
                x \in {y \in UNION {Confirmed(s, f, new) : f \in fs} : BalanceInvariants(y, bal)}}

-----------------------------------------------------------------------------
(* Messages.                                                               *)

(* The effect of a call: the power actor refuses a negative claim.         *)
Save(x) ==
    /\ BalanceInvariants(x.st, balance + x.funds)
    /\ claim + x.power >= 0
    /\ st' = x.st
    /\ balance' = balance + x.funds
    /\ claim' = claim + x.power
    /\ pledged' = pledged + x.pledge
    /\ events' = events \o x.enrol

Message(results) ==
    /\ phase = "messages" /\ budget > 0
    /\ budget' = budget - 1
    /\ \E x \in results : Save(x)
    /\ UNCHANGED <<proofs, epoch, phase>>

(* A partition of the miner and some of its sectors.                       *)
Partitions == {<<d, i>> \in Deadlines \X (1..MaxPartitions) :
                    i \in DOMAIN st.deadlines[d].partitions}

PartitionAt(p) == st.deadlines[p[1]].partitions[p[2]]

SectorsOf(p) == PartitionAt(p).sectors

InPartition(p, ss) == [i \in {p[2]} |-> ss]

ValidExpiration(activation, expiration) ==
    /\ expiration - activation >= MinSectorExpiration
    /\ expiration <= epoch + MaxExtension

CanReplace(r, expiration) ==
    LET p == st.deadlines[r.deadline].partitions[r.partition]
    IN  /\ r.sector \in DOMAIN st.sectors \ DealSectors
        /\ expiration >= st.sectors[r.sector].expiration
        /\ r.sector \in LiveSectors(p) \ p.faults

(* Sectors with deals may replace committed capacity.                      *)
ReplaceChoices(n) ==
    IF n \notin DealSectors THEN {{}}
    ELSE {{}} \cup UNION {{{[deadline |-> p[1], partition |-> p[2], sector |-> m]} :
                              m \in SectorsOf(p)} : p \in Partitions}

(* The first pre-commitment starts the deadline cron.                      *)
StartCron ==
    IF st.deadline_cron_active THEN <<>>
    ELSE Enrol(LastEpoch(Current(epoch)), "deadline")

PreCommitRecord(n, expiration, replaces) ==
    [expiration |-> expiration, epoch |-> epoch, deposit |-> Deposit,
     weight |-> IF n \in DealSectors THEN DealWeight ELSE 0, replaces |-> replaces]

(* Records the pre-commitments, and when to clean them up.                 *)
StorePreCommits(s, ss, expiration, replaces) ==
    LET due == epoch + MaxProveCommitDuration + CleanUpDelay
        cleanup == due + ((-due) % WPoStChallengeWindow)
    IN  [s EXCEPT !.pre_commit_deposits = @ + Deposit * Cardinality(ss),
                  !.allocated = @ \cup ss,
                  !.precommits = [n \in DOMAIN @ \cup ss |->
                                    IF n \in ss THEN PreCommitRecord(n, expiration, replaces[n])
                                    ELSE @[n]],
                  !.cleanup = AddToQueue(@, cleanup, ss),
                  !.deadline_cron_active = TRUE]

(* A batch of more than one sector pays a fee with the debts.              *)
PreCommitSectorBatch(ss, expiration, replaces) ==
    LET charged == ApplyPenalty(st, IF Cardinality(ss) > 1 THEN AggregateFee ELSE 0)
        available == UnlockedBalance(charged, balance) - charged.fee_debt
    IN  /\ ValidExpiration(epoch + MaxProveCommitDuration, expiration)
        /\ ~ConsensusFaultActive(st)
        /\ \A n \in ss : \A r \in replaces[n] : CanReplace(r, expiration)
        /\ available >= Deposit * Cardinality(ss)
        /\ ss \cap st.allocated = {}
        /\ Message({[x EXCEPT !.st = StorePreCommits(@, ss, expiration, replaces),
                              !.enrol = StartCron] :
                        x \in RepayDebts(charged, balance)})

NotTooEarly(n) == epoch > st.precommits[n].epoch + PreCommitChallengeDelay

InTime(n) == epoch <= st.precommits[n].epoch + MaxProveCommitDuration

(* The seal joins the power actor's batch.                                 *)
ProveCommitSector(n) ==
    /\ phase = "messages" /\ budget > 0
    /\ budget' = budget - 1
    /\ n \in DOMAIN st.precommits /\ NotTooEarly(n) /\ InTime(n)
    /\ proofs' = proofs \cup {n}
    /\ UNCHANGED <<st, balance, claim, pledged, events, epoch, phase>>

(* Of the sectors whose seals one proof covers, the late ones are skipped, *)
(* and so are the ones whose deals cannot be activated.                    *)
ProveCommitAggregate(ss, active) ==
    /\ Cardinality(ss) >= MinAggregated
    /\ ss \subseteq DOMAIN st.precommits /\ \A n \in ss : NotTooEarly(n)
    /\ active \subseteq {n \in ss : InTime(n)}
    /\ {n \in ss : InTime(n)} \ DealSectors \subseteq active
    /\ Message({[x EXCEPT !.funds = -AggregateFee] :
                    x \in ConfirmSectorProofsValid(st, balance, active)})

(* What the posts prove, which must be something.                          *)
ProvenBy(posts, d) ==
    {r \in RecordProvenSectors(st.deadlines[d], LastEpoch(d) + FaultMaxAge, posts,
                               st.sectors, d) : r.proven # {}}

(* A proof that recovers power is verified at once, any other is kept in   *)
(* case it is disputed.                                                    *)
AcceptPoSt(r, ps, valid) ==
    IF r.recovered = 0 THEN {RecordPoStProofs(r.deadline, ps, valid)}
    ELSE {dl \in {r.deadline} : valid}

(* Partitions of the open deadline, each with the sectors it skips.  valid *)
(* says that the verifier, if it is asked, does not fail; what it answers  *)
(* then is not looked at.                                                  *)
SubmitWindowedPoSt(posts, valid) ==
    LET d == Current(epoch)
    IN  Message(UNION {{[Effect(WithDeadline(st, d, dl)) EXCEPT !.power = r.delta] :
                            dl \in AcceptPoSt(r, DOMAIN posts, valid)} : r \in ProvenBy(posts, d)})

(* The sectors a disputed proof t vouched for become faulty.               *)
DisputedFaults(d, t) ==
    {[Effect(WithDeadline(st, d, x.deadline)) EXCEPT !.power = x.delta] :
        x \in RecordFaults(t.deadline, LastEpoch(d) - WPoStProvingPeriod + FaultMaxAge,
                           t.disputed, st.sectors, d)}

(* The penalty, from which the reporter is paid, and the burnt rest.       *)
DisputePenalty(x, t) ==
    {Then(x, y) : y \in Penalised(x.st, balance, InvalidPoStFee * t.power + DisputeReward)}

(* A proof of the last window turns out to be invalid.                     *)
DisputeWindowedPoSt(d, k) ==
    /\ CanDispute(d)
    /\ Message(UNION {UNION {DisputePenalty(x, t) : x \in DisputedFaults(d, t)} :
                  t \in {u \in TakePoStProofs(st.deadlines[d], k) : ~u.valid}})

DeclareFaults(p, ss) ==
    /\ Cardinality(ss) <= AddressedSectorsMax
    /\ ~CutoffPassed(p[1])
    /\ Message({[Effect(WithDeadline(st, p[1], r.deadline)) EXCEPT !.power = r.delta] :
                  r \in RecordFaults(st.deadlines[p[1]], LastEpoch(p[1]) + FaultMaxAge,
                                     InPartition(p, ss), st.sectors, p[1])})

DeclareRecovered(p, ss) ==
    /\ Cardinality(ss) <= AddressedSectorsMax
    /\ ~CutoffPassed(p[1]) /\ ~ConsensusFaultActive(st)
    /\ Message(UNION {{[x EXCEPT !.st = WithDeadline(@, p[1], dl)] :
                          dl \in DeclareFaultsRecovered(x.st.deadlines[p[1]],
                                                        InPartition(p, ss), st.sectors)} :
                      x \in RepayDebts(st, balance)})

(* The weight of deals is what is left of it at this epoch.                *)
Extended(old, expiration) ==
    LET weight == (old.weight * (old.expiration - epoch)) \div (old.expiration - old.activation)
    IN  [old EXCEPT !.expiration = expiration, !.weight = weight,
                    !.power = QaPower(expiration - old.activation, weight)]

StoreExtended(p, part, table, expiration) ==
    LET dl == [st.deadlines[p[1]] EXCEPT !.partitions[p[2]] = part]
    IN  [WithDeadline(st, p[1], AddExpirationPartitions(dl, expiration, {p[2]}, p[1]))
            EXCEPT !.sectors = table]

ExtendSectorExpiration(p, ss, expiration) ==
    LET table == [n \in DOMAIN st.sectors |-> IF n \in ss THEN Extended(st.sectors[n], expiration)
                                              ELSE st.sectors[n]]
    IN  /\ Cardinality(ss) <= AddressedSectorsMax
        /\ ss \subseteq DOMAIN st.sectors
        /\ \A n \in ss : /\ st.sectors[n].expiration >= epoch
                         /\ expiration >= st.sectors[n].expiration
                         /\ ValidExpiration(st.sectors[n].activation, expiration)
        /\ Message({[Effect(StoreExtended(p, r.partition, table, expiration))
                        EXCEPT !.power = r.delta] :
                      r \in ReplaceSectors(PartitionAt(p), ss, st.sectors, table, p[1])})

(* decls, possibly empty, maps deadlines to declarations.                  *)
TerminateSectorsIn(decls) ==
    LET had == st.early_terminations # {}
        Terminated(f) ==
            [st EXCEPT !.deadlines = [d \in Deadlines |-> IF d \in DOMAIN f THEN f[d].deadline
                                                          ELSE @[d]],
                       !.early_terminations = @ \cup DOMAIN f]
    IN  /\ Total(decls, LAMBDA f : Total(f, Cardinality)) <= AddressedSectorsMax
        /\ \A d \in DOMAIN decls : IsMutable(d)
        /\ Message(UNION {{[x EXCEPT !.power = -Total(f, LAMBDA r : r.lost)] :
                              x \in ProcessAndSchedule(Terminated(f), balance, had)} :
              f \in OnEach(DOMAIN decls, LAMBDA d :
                      TerminateSectors(st.deadlines[d], epoch, decls[d], st.sectors, d))})

(* Compaction must not change the power.                                   *)
CompactPartitions(d, ps) ==
    LET Compacted(r) ==
            {[Effect([WithDeadline(st, d, dl) EXCEPT !.sectors = Without(@, r.dead)])
                EXCEPT !.power = 0] :
                dl \in {x \in AddSectors(r.deadline, PartitionSize, TRUE, r.live, st.sectors, d) :
                          r.power = PowerOf(r.live, st.sectors)}}
    IN  /\ CanCompact(d)
        /\ Message(UNION {Compacted(r) : r \in RemovePartitions(st.deadlines[d], ps)})

CompactSectorNumbers(ss) ==
    Message({Effect([st EXCEPT !.allocated = @ \cup ss])})

(* The reward actor sends a block reward, part of which is locked.         *)
ApplyRewards(penalty) ==
    LET bal == balance + BlockReward
        v == UnlockVestedFunds(st)
        locked == AddLockedFunds(v.st, LockedReward)
    IN  /\ UnlockedBalance(st, bal) >= LockedReward
        /\ Message({[x EXCEPT !.funds = @ + BlockReward,
                              !.pledge = @ + LockedReward - v.amount] :
                       x \in Penalised(locked, bal, penalty)})

(* The reporter's reward stays with the miner if it cannot be sent.        *)
ReportConsensusFault(fault_epoch, sent) ==
    LET Reward(x) == Min({-x.funds, ConsensusReward})
    IN  /\ fault_epoch < epoch /\ fault_epoch >= st.consensus_fault_elapsed
        /\ Message({[x EXCEPT !.st.consensus_fault_elapsed = epoch + ConsensusFaultDuration,
                              !.funds = IF sent THEN @ ELSE @ + Reward(x)] :
                       x \in Penalised(st, balance, ConsensusPenalty)})

WithdrawBalance(requested) ==
    LET v == UnlockVestedFunds(st)
        available == UnlockedBalance(v.st, balance) - v.st.fee_debt
    IN  /\ st.early_terminations = {}
        /\ Message({[x EXCEPT !.funds = @ - Min({available, requested}), !.pledge = -v.amount] :
                       x \in RepayDebts(v.st, balance)})

RepayDebt == Message(Penalised(st, balance, 0))

(* A plain transfer to the miner.                                          *)
ReceiveFunds(amount) == Message({[Effect(st) EXCEPT !.funds = amount]})

-----------------------------------------------------------------------------
(* The end of an epoch.                                                    *)

EndMessages ==
    /\ phase = "messages"
    /\ phase' = "confirm"
    /\ UNCHANGED <<st, balance, claim, pledged, events, proofs, epoch, budget>>

(* The power actor confirms the seals that verified; a confirmation that   *)
(* fails is only logged.                                                   *)
ConfirmProofs(active) ==
    LET results == ConfirmSectorProofsValid(st, balance, active)
    IN  /\ phase = "confirm"
        /\ active \subseteq proofs \cap DOMAIN st.precommits
        /\ phase' = "events" /\ proofs' = {}
        /\ IF results = {} THEN UNCHANGED <<st, balance, claim, pledged, events>>
           ELSE \E x \in results : Save(x)
        /\ UNCHANGED <<epoch, budget>>

Due == {k \in DOMAIN events : events[k].epoch <= epoch}

(* The first due event.  If its handler fails, nothing of it remains and   *)
(* the power actor drops the miner.                                        *)
RunEvent ==
    LET k == Min(Due)
        results == {x \in OnDeferredCronEvent(events[k].type, st, balance) :
                        claim + x.power >= 0}
    IN  /\ phase = "events" /\ Due # {}
        /\ phase' = IF results = {} THEN "dropped" ELSE phase
        /\ \E x \in IF results = {} THEN {Effect(st)} ELSE results :
             /\ st' = x.st /\ balance' = balance + x.funds
             /\ claim' = claim + x.power /\ pledged' = pledged + x.pledge
             /\ events' = RemoveAt(events, k) \o x.enrol
        /\ UNCHANGED <<proofs, epoch, budget>>

NextEpoch ==
    /\ phase = "events" /\ Due = {} /\ epoch < Horizon
    /\ epoch' = epoch + 1 /\ phase' = "messages"
    /\ UNCHANGED <<st, balance, claim, pledged, events, proofs, budget>>

Init ==
    /\ st = NewState /\ balance = Funds /\ claim = 0 /\ pledged = 0
    /\ events = <<>> /\ proofs = {} /\ epoch = 0 /\ phase = "messages"
    /\ budget = Budget

Expirations == {epoch + MaxProveCommitDuration + MinSectorExpiration, epoch + MaxExtension}

Seal ==
    \/ /\ phase = "messages" /\ budget > 0
       /\ \E ss \in SUBSET Sectors \ {{}}, e \in Expirations :
             \E replaces \in [ss -> UNION {ReplaceChoices(n) : n \in ss}] :
                /\ \A n \in ss : replaces[n] \in ReplaceChoices(n)
                /\ PreCommitSectorBatch(ss, e, replaces)
    \/ \E n \in Sectors : ProveCommitSector(n)
    \/ \E ss \in SUBSET DOMAIN st.precommits : \E active \in SUBSET ss :
          ProveCommitAggregate(ss, active)
    \/ \E n \in Sectors : CompactSectorNumbers({n})

Prove ==
    LET all == st.deadlines[Current(epoch)].partitions
    IN  /\ phase = "messages" /\ budget > 0
        /\ \E ps \in SUBSET DOMAIN all \ {{}}, valid \in BOOLEAN :
              \E posts \in [ps -> SUBSET UNION {all[i].sectors : i \in ps}] :
                 /\ \A i \in ps : posts[i] \subseteq all[i].sectors
                 /\ SubmitWindowedPoSt(posts, valid)

Fault ==
    \/ \E p \in Partitions : \E ss \in SUBSET SectorsOf(p) \ {{}} : DeclareFaults(p, ss)
    \/ \E p \in Partitions : \E ss \in SUBSET SectorsOf(p) \ {{}} : DeclareRecovered(p, ss)
    \/ \E d \in Deadlines : \E k \in DOMAIN st.deadlines[d].proofs_snapshot :
          DisputeWindowedPoSt(d, k)

Finish ==
    \/ \E p \in Partitions : \E ss \in SUBSET SectorsOf(p) \ {{}} :
          ExtendSectorExpiration(p, ss, epoch + MaxExtension)
    \/ TerminateSectorsIn(<<>>)
    \/ \E p \in Partitions : \E ss \in SUBSET SectorsOf(p) \ {{}} :
          TerminateSectorsIn([d \in {p[1]} |-> InPartition(p, ss)])
    \/ \E d \in Deadlines : \E ps \in SUBSET DOMAIN st.deadlines[d].partitions \ {{}} :
          CompactPartitions(d, ps)

Fund ==
    \/ \E penalty \in {0, BlockReward + 1} : ApplyRewards(penalty)
    \/ \E e \in 0..epoch, sent \in BOOLEAN : ReportConsensusFault(e, sent)
    \/ \E amount \in {1, Funds} : WithdrawBalance(amount)
    \/ RepayDebt
    \/ ReceiveFunds(1)

EndOfEpoch ==
    \/ EndMessages
    \/ \E active \in SUBSET proofs : ConfirmProofs(active)
    \/ RunEvent
    \/ NextEpoch

Next == Seal \/ Prove \/ Fault \/ Finish \/ Fund \/ EndOfEpoch

Spec == Init /\ [][Next]_vars

-----------------------------------------------------------------------------
(* Properties.                                                             *)

AllPartitions == {st.deadlines[p[1]].partitions[p[2]] : p \in Partitions}

(* The variables have their types; sectors in the table and pre-commits    *)
(* are distinct, and both come from allocated numbers.                     *)
TypeOK ==
    /\ balance \in Nat /\ claim \in Nat /\ pledged \in Nat
    /\ epoch \in 0..Horizon /\ budget \in 0..Budget
    /\ phase \in {"messages", "confirm", "events", "dropped"}
    /\ DOMAIN st.sectors \cap DOMAIN st.precommits = {}
    /\ DOMAIN st.sectors \cup DOMAIN st.precommits \subseteq st.allocated
    /\ proofs \subseteq Sectors

(* The power the power actor credits to the miner is the active power of   *)
(* its partitions: every message and every cron event that makes sectors   *)
(* proven, faulty, recovered, extended, terminated or expired reports      *)
(* exactly the difference.                                                 *)
ClaimIsActivePower ==
    claim = MapThenSumSet(LAMBDA p : ActivePower(PartitionAt(p)), Partitions)

(* The power actor's total counts exactly the pledge and the vesting funds *)
(* the miner has locked.                                                   *)
PledgedIsAtStake == pledged = st.initial_pledge + st.locked_funds

(* The pledge the miner must hold is the sum of the pledges of its live    *)
(* sectors and of those terminated early and not yet processed: no sector  *)
(* gives its pledge back twice, or never.                                  *)
PledgeIsOfSectors ==
    st.initial_pledge =
        MapThenSumSet(LAMBDA p : PledgeOf(LiveSectors(PartitionAt(p))
                                            \cup Unprocessed(PartitionAt(p)), st.sectors),
                      Partitions)

(* The deposits held are those of the pre-commits, and each pre-commit has *)
(* a clean-up to come that takes its deposit if it is not proven.          *)
DepositsArePreCommits ==
    /\ st.pre_commit_deposits =
         MapThenSumSet(LAMBDA n : st.precommits[n].deposit, DOMAIN st.precommits)
    /\ \A n \in DOMAIN st.precommits :
         \E e \in DOMAIN st.cleanup : n \in st.cleanup[e] /\ e >= epoch

(* Every live sector of a partition is scheduled exactly once, and each    *)
(* entry's pledge, active and faulty power are those of its sectors; so    *)
(* the partition's powers are the sums over its sets.                      *)
ScheduledOnce ==
    \A p \in AllPartitions :
        LET q == p.expirations
            all(e) == q[e].on_time \cup q[e].early
        IN  /\ LiveSectors(p) = UNION {all(e) : e \in DOMAIN q}
            /\ \A e, f \in DOMAIN q : e # f => all(e) \cap all(f) = {}
            /\ \A e \in DOMAIN q :
                 /\ q[e].on_time \cap q[e].early = {} /\ q[e].early \subseteq p.faults
                 /\ q[e].pledge = PledgeOf(q[e].on_time, st.sectors)
                 /\ q[e].active = PowerOf(all(e) \ p.faults, st.sectors)
                 /\ q[e].faulty = PowerOf(all(e) \cap p.faults, st.sectors)
            /\ p.live_power = PowerOf(LiveSectors(p), st.sectors)
            /\ p.faulty_power = PowerOf(p.faults, st.sectors)
            /\ p.unproven_power = PowerOf(p.unproven, st.sectors)
            /\ p.recovering_power = PowerOf(p.recoveries, st.sectors)

(* A deadline knows what its partitions hold: the epochs at which one of   *)
(* them has sectors to expire, and the totals; a missing epoch would leave *)
(* sectors alive for ever.                                                 *)
DeadlineSummarises ==
    \A d \in Deadlines :
        LET dl == st.deadlines[d]
            ps == dl.partitions
        IN  /\ \A i \in DOMAIN ps : \A e \in DOMAIN ps[i].expirations :
                 e \in DOMAIN dl.expirations /\ i \in dl.expirations[e]
            /\ dl.live_sectors = Total(ps, LAMBDA p : Cardinality(LiveSectors(p)))
            /\ dl.total_sectors = Total(ps, LAMBDA p : Cardinality(p.sectors))
            /\ dl.faulty_power = Total(ps, LAMBDA p : p.faulty_power)

(* Sectors terminated early are found again from their partition, their    *)
(* deadline and the miner, and while there are any the next batch is       *)
(* scheduled for this epoch or the next.                                   *)
EarlyTerminationsTracked ==
    /\ \A p \in Partitions :
         (Unprocessed(PartitionAt(p)) # {}) =>
            /\ p[2] \in st.deadlines[p[1]].early_terminations
            /\ p[1] \in st.early_terminations
    /\ st.early_terminations # {} =>
         \E k \in DOMAIN events : events[k].type = "early" /\ events[k].epoch <= epoch + 1

(* The deadline cron is enrolled exactly once while it is active, for the  *)
(* end of the deadline that is open or, once it has run in this epoch, of  *)
(* the next one.                                                           *)
CronIsEnrolledOnce ==
    LET mine == {k \in DOMAIN events : events[k].type = "deadline"}
    IN  IF ~st.deadline_cron_active THEN mine = {}
        ELSE /\ Cardinality(mine) = 1
             /\ \A k \in mine : events[k].epoch \in
                  {LastEpoch(Current(epoch))} \cup
                  (IF phase = "events" THEN {QuantizeUp(epoch + 1, Current(epoch + 1))} ELSE {})

(* A cron event never fails: the power actor would drop the miner and its  *)
(* power.                                                                  *)
CronNeverFails == phase # "dropped"

(* A miner with live sectors or pre-commits always has its cron: nothing   *)
(* else would end them, or take a fee for their faults.                    *)
CronWhileAtStake ==
    (\/ DOMAIN st.precommits # {}
     \/ \E p \in AllPartitions : LiveSectors(p) # {}) => st.deadline_cron_active

(* "This always works because we don't allow compaction/moving sectors     *)
(* during the challenge window": the sectors of a proof that can be        *)
(* disputed can be loaded and recorded as faulty.                          *)
DisputeIsRecordable ==
    \A d \in Deadlines : CanDispute(d) =>
        \A k \in DOMAIN st.deadlines[d].proofs_snapshot :
            \A t \in TakePoStProofs(st.deadlines[d], k) :
                /\ UNION {t.disputed[i] : i \in DOMAIN t.disputed} \subseteq DOMAIN st.sectors
                /\ RecordFaults(t.deadline, LastEpoch(d) - WPoStProvingPeriod + FaultMaxAge,
                                t.disputed, st.sectors, d) # {}

(* Messages add, move or terminate no sector of the deadline whose window  *)
(* is open or of the one that comes next: what has to be proven is         *)
(* settled.                                                                *)
ImmutableNearWindow ==
    [][phase = "messages" =>
         \A d \in {Current(epoch), Current(epoch + WPoStChallengeWindow)} :
            LET ps == st.deadlines[d].partitions
            IN  [i \in DOMAIN ps |-> LiveSectors(ps[i])]' =
                [i \in DOMAIN ps |-> LiveSectors(ps[i])]]_vars

(* A pre-commitment that does not become a sector is kept, and with it the *)
(* chance to prove the seal, for the whole time the policy gives it.       *)
PreCommitsLast ==
    [][\A n \in DOMAIN st.precommits \ (DOMAIN st.precommits \cup DOMAIN st.sectors)' :
         epoch > st.precommits[n].epoch + MaxProveCommitDuration]_vars

(* Where a faulty sector is scheduled to end.                              *)
EndOf(p, n) == CHOOSE e \in DOMAIN p.expirations :
                  n \in p.expirations[e].on_time \cup p.expirations[e].early

(* A sector that stays faulty is never given more time: only its recovery  *)
(* puts its end off.                                                       *)
FaultsAreNotPutOff ==
    [][\A p \in Partitions \cap Partitions' :
         \A n \in PartitionAt(p).faults \cap PartitionAt(p)'.faults :
            EndOf(PartitionAt(p), n)' <= EndOf(PartitionAt(p), n)]_vars

(* Power, pledge, deposits and queues all describe the same sectors.       *)
SectorsAccounted ==
    /\ TypeOK /\ ClaimIsActivePower /\ PledgedIsAtStake /\ PledgeIsOfSectors
    /\ DepositsArePreCommits /\ ScheduledOnce /\ DeadlineSummarises /\ EarlyTerminationsTracked

(* The miner's cron is there when it is needed and never fails, nor does a *)
(* dispute of a proof it let pass.                                         *)
CronIsSound == CronNeverFails /\ CronIsEnrolledOnce /\ CronWhileAtStake /\ DisputeIsRecordable

(* What a step never does: touch sectors about to be proven, drop a        *)
(* pre-commit early, or give a faulty sector more time.                    *)
DeadlinesAreKept == ImmutableNearWindow /\ PreCommitsLast /\ FaultsAreNotPutOff

=============================================================================
