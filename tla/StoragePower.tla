---------------------------- MODULE StoragePower ----------------------------
(* The storage power actor with the reward actor it reports to.  Miners claim *)
(* power, enrol for cron events and submit proofs; the tick at the end of an  *)
(* epoch calls them back, one after another, and each of them may call the    *)
(* actor again before its callback succeeds or fails.  The tick is a sequence *)
(* of steps here, one for each callback, between which nothing but the        *)
(* callbacks themselves happens.                                              *)
(*                                                                            *)
(* The reward actor keeps how far the network has come on its baseline, which *)
(* decides the reward of an epoch, and pays the winners.  The fixed-point     *)
(* formulas of the baseline and of the reward are data: the baseline grows by *)
(* a fixed ratio, and the reward of an epoch is any of Rewards.               *)
EXTENDS Integers, Sequences, FiniteSets, SequencesExt, FiniteSetsExt, Functions

CONSTANTS GrowthNum, GrowthDen,         \* BASELINE_EXPONENT as a ratio
          BASELINE_INITIAL_VALUE, INIT_BASELINE_POWER,
          Rewards,                      \* what an epoch may be worth
          EXPECTED_LEADERS_PER_EPOCH,
          InitialRewardBalance,
          WinCounts, GasRewards,
          MaxAwards                     \* bound

baseline_power_from_prev(prev) == (prev * GrowthNum) \div GrowthDen

ASSUME RewardAssumption ==
    /\ GrowthNum > GrowthDen /\ GrowthDen > 0
    /\ baseline_power_from_prev(INIT_BASELINE_POWER) <= BASELINE_INITIAL_VALUE

VARIABLES rw,                   \* the State of the actor, without the two below
          total_storage_power_reward, reward_balance, awards

rewardVars == <<rw, total_storage_power_reward, reward_balance, awards>>

-----------------------------------------------------------------------------

\* The while loop: network time follows what was realized.
RECURSIVE Catchup(_)
Catchup(r) ==
    IF r.cumsum_realized <= r.cumsum_baseline THEN r
    ELSE LET power == baseline_power_from_prev(r.effective_baseline_power)
         IN  Catchup([r EXCEPT !.effective_network_time = @ + 1,
                               !.effective_baseline_power = power,
                               !.cumsum_baseline = @ + power])

UpdateToNextEpoch(r, power) ==
    LET baseline == baseline_power_from_prev(r.this_epoch_baseline_power)
    IN  Catchup([r EXCEPT !.epoch = @ + 1,
                          !.this_epoch_baseline_power = baseline,
                          !.cumsum_realized = @ + IF baseline <= power THEN baseline ELSE power])

UpdateToNextEpochWithReward(r, power) ==
    {[UpdateToNextEpoch(r, power) EXCEPT !.this_epoch_reward = reward] : reward \in Rewards}

\* Epochs without a tick are caught up first.
RECURSIVE UpdateNetworkKPI(_, _, _)
UpdateNetworkKPI(r, power, curr_epoch) ==
    IF r.epoch < curr_epoch THEN UpdateNetworkKPI(UpdateToNextEpoch(r, power), power, curr_epoch)
    ELSE UpdateToNextEpochWithReward(r, power)

-----------------------------------------------------------------------------

\* What is left of the block reward if the balance does not cover it.
BlockReward(gas_reward, block_reward, balance) ==
    IF gas_reward + block_reward > balance THEN balance - gas_reward ELSE block_reward

\* The gas of the block is in the balance already when the reward is paid to the
\* miner, or to the burnt funds if the miner refuses it.
AwardBlockReward(win_count, gas_reward) ==
    /\ awards < MaxAwards /\ awards' = awards + 1
    /\ win_count > 0
    /\ LET promised == (rw.this_epoch_reward * win_count) \div EXPECTED_LEADERS_PER_EPOCH
           balance == reward_balance + gas_reward
           total == IF gas_reward + promised > balance THEN balance ELSE gas_reward + promised
       IN  /\ total_storage_power_reward' =
                total_storage_power_reward + BlockReward(gas_reward, promised, balance)
           /\ reward_balance' = balance - total
    /\ UNCHANGED rw

RewardInit ==
    /\ rw \in UpdateToNextEpochWithReward(
                [epoch |-> -1, cumsum_baseline |-> 0, cumsum_realized |-> 0, effective_network_time |-> 0,
                 effective_baseline_power |-> BASELINE_INITIAL_VALUE,
                 this_epoch_baseline_power |-> INIT_BASELINE_POWER, this_epoch_reward |-> 0], 0)
    /\ total_storage_power_reward = 0
    /\ reward_balance = InitialRewardBalance
    /\ awards = 0

RewardNext == \E w \in WinCounts, g \in GasRewards : AwardBlockReward(w, g)

-----------------------------------------------------------------------------

\* Effective network time is the ceiling of the time at which the baseline adds
\* up to what was realized, and never ahead of the epochs that were counted.
NetworkTimeIsCeiling ==
    /\ rw.cumsum_realized <= rw.cumsum_baseline
    /\ rw.effective_network_time > 0 => rw.cumsum_baseline - rw.effective_baseline_power < rw.cumsum_realized
    /\ rw.effective_network_time <= rw.epoch + 1

\* The rewards recorded are those that left the actor, also when the balance ran
\* out.
RewardsAccounted == reward_balance + total_storage_power_reward = InitialRewardBalance

-----------------------------------------------------------------------------
(* The storage power actor *)

CONSTANTS Miner,
          MinPower,                     \* consensus_miner_min_power
          CONSENSUS_MINER_MIN_MINERS, MAX_MINER_PROVE_COMMITS_PER_EPOCH,
          Deltas,                       \* changes [raw, qa] of a claim
          PledgeDeltas,
          NullRuns,                     \* epochs from one tick to the next
          MaxEpoch, MaxCalls, MaxPower  \* bounds of the model

ASSUME PowerAssumption == MinPower > 0

VARIABLES claims,               \* miner -> [raw, qa]
          committed, above,     \* power of all claims, and of those over the minimum
          miner_above_min_power_count, miner_count,
          cron_event_queue,     \* sequence of [epoch, miner] in the order of enrolment
          first_cron_epoch,
          proof_validation_batch,       \* miner -> number of proofs
          total_pledge_collateral,
          this_epoch_power,
          epoch,
          phase, todo, failed,  \* where the tick is: callbacks to do, miners whose failed
          called,               \* the callback that runs has called the actor
          created, calls        \* the miners that ever were; how often they called

powerVars == <<claims, committed, above, miner_above_min_power_count, miner_count, cron_event_queue,
               first_cron_epoch, proof_validation_batch, total_pledge_collateral, this_epoch_power,
               epoch, phase, todo, failed, called, created, calls>>
vars == <<rewardVars, powerVars>>

-----------------------------------------------------------------------------
\* Claims: the part of the state they change, as a record.

Stats == [claims |-> claims, committed |-> committed, above |-> above,
          count |-> miner_above_min_power_count]

Plus(p, d) == [raw |-> p.raw + d.raw, qa |-> p.qa + d.qa]
Minus(p) == [raw |-> -p.raw, qa |-> -p.qa]

\* Mutant: a miner that falls under the minimum only takes away the difference.
AboveAfterDifference(s, old, new, delta) ==
    IF old.raw < MinPower /\ new.raw >= MinPower THEN Plus(s.above, new)
    ELSE IF old.raw >= MinPower THEN Plus(s.above, delta)
    ELSE s.above

\* The power over the minimum: all of a claim comes or goes as it passes it.
AboveAfter(s, old, new, delta) ==
    CASE old.raw < MinPower /\ new.raw >= MinPower -> Plus(s.above, new)
      [] old.raw >= MinPower /\ new.raw < MinPower -> Plus(s.above, Minus(old))
      [] old.raw >= MinPower /\ new.raw >= MinPower -> Plus(s.above, delta)
      [] OTHER -> s.above

Above(p) == IF p.raw >= MinPower THEN 1 ELSE 0

AddToClaim(s, miner, delta) ==
    LET old == s.claims[miner]
        new == Plus(old, delta)
    IN  [claims |-> [s.claims EXCEPT ![miner] = new],
         committed |-> Plus(s.committed, delta),
         above |-> AboveAfter(s, old, new, delta),
         count |-> s.count + Above(new) - Above(old)]

\* A claim that is gone already is no error.
DeleteClaim(s, miner) ==
    IF miner \notin DOMAIN s.claims THEN s
    ELSE [AddToClaim(s, miner, Minus(s.claims[miner])) EXCEPT !.claims = Restrict(@, DOMAIN @ \ {miner})]

SetStats(s) ==
    /\ claims' = s.claims /\ committed' = s.committed /\ above' = s.above
    /\ miner_above_min_power_count' = s.count

Running(miner) == phase \in {"confirm", "event"} /\ todo # <<>> /\ Head(todo) = miner

\* A miner calls when one of its messages runs, or its callback.
MinerCalls(miner) ==
    /\ phase = "messages" \/ Running(miner)
    /\ calls + awards < MaxCalls /\ calls' = calls + 1
    /\ miner \in DOMAIN claims
    /\ called' = (phase # "messages") /\ UNCHANGED created

-----------------------------------------------------------------------------
\* Messages.

\* The miner's address is a new one.
CreateMiner(miner) ==
    /\ phase = "messages"
    /\ miner \notin created /\ created' = created \cup {miner}
    /\ calls + awards < MaxCalls /\ calls' = calls + 1
    /\ claims' = [m \in DOMAIN claims \cup {miner} |-> IF m = miner THEN [raw |-> 0, qa |-> 0] ELSE claims[m]]
    /\ miner_count' = miner_count + 1
    /\ UNCHANGED <<rewardVars, committed, above, miner_above_min_power_count, cron_event_queue,
                   first_cron_epoch, proof_validation_batch, total_pledge_collateral,
                   this_epoch_power, epoch, phase, todo, failed, called>>

UpdateClaimedPower(miner, delta) ==
    /\ MinerCalls(miner)
    /\ LET new == Plus(claims[miner], delta) IN new.raw \in 0 .. MaxPower /\ new.qa \in 0 .. MaxPower
    /\ SetStats(AddToClaim(Stats, miner, delta))
    /\ UNCHANGED <<rewardVars, miner_count, cron_event_queue, first_cron_epoch, proof_validation_batch,
                   total_pledge_collateral, this_epoch_power, epoch, phase, todo, failed>>

\* An event may be enrolled for an epoch that has passed.
FirstCronEpoch(event_epoch) == IF event_epoch < first_cron_epoch THEN event_epoch ELSE first_cron_epoch

EnrollCronEvent(miner, event_epoch) ==
    /\ MinerCalls(miner)
    /\ event_epoch >= 0
    /\ cron_event_queue' = Append(cron_event_queue, [epoch |-> event_epoch, miner |-> miner])
    /\ first_cron_epoch' = FirstCronEpoch(event_epoch)
    /\ UNCHANGED <<rewardVars, claims, committed, above, miner_above_min_power_count, miner_count,
                   proof_validation_batch, total_pledge_collateral, this_epoch_power, epoch, phase, todo, failed>>

UpdatePledgeTotal(miner, delta) ==
    /\ MinerCalls(miner)
    /\ total_pledge_collateral + delta >= 0
    /\ total_pledge_collateral' = total_pledge_collateral + delta
    /\ UNCHANGED <<rewardVars, claims, committed, above, miner_above_min_power_count, miner_count,
                   cron_event_queue, first_cron_epoch, proof_validation_batch, this_epoch_power,
                   epoch, phase, todo, failed>>

BatchHasRoom(miner) == proof_validation_batch[miner] < MAX_MINER_PROVE_COMMITS_PER_EPOCH

SubmitPoRepForBulkVerify(miner) ==
    /\ phase = "messages" /\ MinerCalls(miner)
    /\ BatchHasRoom(miner)
    /\ proof_validation_batch' = [proof_validation_batch EXCEPT ![miner] = @ + 1]
    /\ UNCHANGED <<rewardVars, claims, committed, above, miner_above_min_power_count, miner_count,
                   cron_event_queue, first_cron_epoch, total_pledge_collateral, this_epoch_power,
                   epoch, phase, todo, failed>>

-----------------------------------------------------------------------------
\* on_epoch_tick_end.

\* The batch is wiped before the miners hear of it.
ProcessBatchProofVerifies ==
    /\ phase = "messages"
    /\ phase' = "confirm"
    /\ todo' = SetToSeq({m \in DOMAIN claims : proof_validation_batch[m] > 0})
    /\ proof_validation_batch' = [m \in Miner |-> 0]
    /\ UNCHANGED <<rewardVars, claims, committed, above, miner_above_min_power_count, miner_count,
                   cron_event_queue, first_cron_epoch, total_pledge_collateral, this_epoch_power,
                   epoch, failed, called, created, calls>>

\* ConfirmSectorProofsValid returns; that it failed is ignored.
Confirmed ==
    /\ phase = "confirm" /\ todo # <<>>
    /\ todo' = Tail(todo) /\ called' = FALSE
    /\ UNCHANGED <<rewardVars, claims, committed, above, miner_above_min_power_count, miner_count,
                   cron_event_queue, first_cron_epoch, proof_validation_batch, total_pledge_collateral,
                   this_epoch_power, epoch, phase, failed, created, calls>>

DueEvent(ev) == ev.epoch \in first_cron_epoch .. epoch

\* The events of every epoch since the last tick are taken out of the queue, and
\* those of miners without a claim forgotten.
CollectCronEvents ==
    /\ phase = "confirm" /\ todo = <<>>
    /\ phase' = "event"
    /\ todo' = [i \in 1 .. Len(SelectSeq(cron_event_queue, LAMBDA ev : DueEvent(ev) /\ ev.miner \in DOMAIN claims)) |->
                  SelectSeq(cron_event_queue, LAMBDA ev : DueEvent(ev) /\ ev.miner \in DOMAIN claims)[i].miner]
    /\ cron_event_queue' = SelectSeq(cron_event_queue, LAMBDA ev : ~DueEvent(ev))
    /\ first_cron_epoch' = epoch + 1
    /\ UNCHANGED <<rewardVars, claims, committed, above, miner_above_min_power_count, miner_count,
                   proof_validation_batch, total_pledge_collateral, this_epoch_power, epoch, failed, called, created, calls>>

\* OnDeferredCronEvent of the next event returns; a failure undoes what the
\* miner did in it, which here is a callback that called nothing.
OnDeferredCronEvent(ok) ==
    /\ phase = "event" /\ todo # <<>>
    /\ ok \/ ~called
    /\ todo' = Tail(todo) /\ called' = FALSE
    /\ failed' = IF ok THEN failed ELSE Append(failed, Head(todo))
    /\ UNCHANGED <<rewardVars, claims, committed, above, miner_above_min_power_count, miner_count,
                   cron_event_queue, first_cron_epoch, proof_validation_batch, total_pledge_collateral,
                   this_epoch_power, epoch, phase, created, calls>>

current_total_power == IF miner_above_min_power_count < CONSENSUS_MINER_MIN_MINERS THEN committed ELSE above

\* The claims of the miners that failed are deleted, and counted off once for
\* every failure.
DeleteFailed ==
    /\ phase = "event" /\ todo = <<>>
    /\ phase' = "end"
    /\ SetStats(FoldLeft(DeleteClaim, Stats, failed))
    /\ miner_count' = miner_count - Len(failed)
    /\ failed' = <<>>
    /\ UNCHANGED <<rewardVars, cron_event_queue, first_cron_epoch, proof_validation_batch,
                   total_pledge_collateral, this_epoch_power, epoch, todo, called, created, calls>>

\* The power of this epoch is fixed and reported to the reward actor.
TickEnd ==
    /\ phase = "end" /\ epoch < MaxEpoch
    /\ phase' = "messages"
    /\ this_epoch_power' = current_total_power
    /\ rw' \in UpdateNetworkKPI(rw, current_total_power.raw, epoch)
    /\ \E n \in NullRuns : epoch' = epoch + n
    /\ UNCHANGED <<total_storage_power_reward, reward_balance, awards, claims, committed, above,
                   miner_above_min_power_count, miner_count, cron_event_queue, first_cron_epoch,
                   proof_validation_batch, total_pledge_collateral, todo, failed, called, created, calls>>

-----------------------------------------------------------------------------

Init ==
    /\ RewardInit
    /\ claims = <<>>
    /\ committed = [raw |-> 0, qa |-> 0] /\ above = [raw |-> 0, qa |-> 0]
    /\ miner_above_min_power_count = 0 /\ miner_count = 0
    /\ cron_event_queue = <<>> /\ first_cron_epoch = 0
    /\ proof_validation_batch = [m \in Miner |-> 0]
    /\ total_pledge_collateral = 0 /\ this_epoch_power = [raw |-> 0, qa |-> 0]
    /\ epoch = 0 /\ phase = "messages" /\ todo = <<>> /\ failed = <<>>
    /\ called = FALSE /\ created = {} /\ calls = 0

Next ==
    \/ phase = "messages" /\ calls + awards < MaxCalls /\ RewardNext /\ UNCHANGED powerVars
    \/ \E miner \in Miner :
         \/ CreateMiner(miner) \/ SubmitPoRepForBulkVerify(miner)
         \/ \E delta \in Deltas : UpdateClaimedPower(miner, delta)
         \/ \E e \in 0 .. MaxEpoch : EnrollCronEvent(miner, e)
         \/ \E delta \in PledgeDeltas : UpdatePledgeTotal(miner, delta)
    \/ ProcessBatchProofVerifies \/ Confirmed \/ CollectCronEvents
    \/ (\E ok \in BOOLEAN : OnDeferredCronEvent(ok))
    \/ DeleteFailed \/ TickEnd

Spec == Init /\ [][Next]_vars

-----------------------------------------------------------------------------

SumOf(f(_), S) == FoldSet(LAMBDA x, sum : f(x) + sum, 0, S)
Over == {m \in DOMAIN claims : claims[m].raw >= MinPower}

TypeOK ==
    /\ DOMAIN claims \subseteq created
    /\ \A m \in DOMAIN claims : claims[m].raw \in Nat /\ claims[m].qa \in Nat
    /\ total_pledge_collateral \in Nat
    /\ \A m \in Miner : proof_validation_batch[m] \in 0 .. MAX_MINER_PROVE_COMMITS_PER_EPOCH
    /\ phase \in {"messages", "confirm", "event", "end"}

\* The totals that decide the consensus power of the network are those of the
\* claims: of all of them, and of those over the minimum, whatever way a claim
\* passed it and whether or not it was deleted since.
TotalsAreSums ==
    /\ committed = [raw |-> SumOf(LAMBDA m : claims[m].raw, DOMAIN claims),
                    qa |-> SumOf(LAMBDA m : claims[m].qa, DOMAIN claims)]
    /\ above = [raw |-> SumOf(LAMBDA m : claims[m].raw, Over), qa |-> SumOf(LAMBDA m : claims[m].qa, Over)]
    /\ miner_above_min_power_count = Cardinality(Over)

\* No cron event is forgotten: whatever epoch it was enrolled for, also a past
\* one and also during the tick, the tick will still come to it.
NoEventMissed == \A i \in DOMAIN cron_event_queue : cron_event_queue[i].epoch >= first_cron_epoch

\* A miner whose cron event failed has lost its claim by the end of the tick and
\* never has power again.
FrozenForGood ==
    [][/\ phase = "event" /\ phase' = "end" => \A i \in DOMAIN failed : failed[i] \notin DOMAIN claims'
       /\ \A m \in created \ DOMAIN claims : m \notin DOMAIN claims']_vars

\* The power table, its totals, the cron queue and the reward that is paid for
\* the power fit together, through ticks in which miners fail and call back.
PowerIsSound ==
    /\ [](TypeOK /\ TotalsAreSums /\ NoEventMissed /\ NetworkTimeIsCeiling /\ RewardsAccounted)
    /\ FrozenForGood

=============================================================================
