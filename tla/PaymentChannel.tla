--------------------------- MODULE PaymentChannel ---------------------------
(* The payment channel actor: vouchers that the payer signed, each for the   *)
(* total of a lane so far, are redeemed until the channel settles; what was  *)
(* redeemed is paid out when it is collected.                                *)
(*                                                                           *)
(* A voucher stands for one that passes the checks that leave no trace: the  *)
(* signature of the other party, the channel's address, the secret and the   *)
(* extra call.                                                               *)
EXTENDS Integers, Sequences, FiniteSets, SequencesExt, Functions

CONSTANTS Vouchers,     \* [lane, nonce, amount, merges, min_settle_height, time_lock_min, time_lock_max]
          SETTLE_DELAY,
          Funding,      \* what the payer may put in at first
          MaxEpoch, MaxDeposits, MaxVouchers    \* bounds of the model

VARIABLES alive,        \* the actor exists
          to_send, settling_at, min_settle_height,
          lane_states,  \* lane -> [redeemed, nonce]
          balance, epoch,
          paid,         \* what collect gave [to, from]
          deposits, redeemed    \* how often the payer added funds; the vouchers that were redeemed

vars == <<alive, to_send, settling_at, min_settle_height, lane_states, balance, epoch, paid, deposits, redeemed>>

-----------------------------------------------------------------------------
\* The lanes that a voucher merges into its own, one after another.

Merging == [lanes |-> lane_states, others |-> 0, ok |-> TRUE]

MergeLane(acc, m, lane) ==
    IF ~acc.ok \/ m.lane = lane \/ m.lane \notin DOMAIN acc.lanes THEN [acc EXCEPT !.ok = FALSE]
    ELSE IF acc.lanes[m.lane].nonce >= m.nonce THEN [acc EXCEPT !.ok = FALSE]
    ELSE [acc EXCEPT !.lanes[m.lane].nonce = m.nonce, !.others = @ + acc.lanes[m.lane].redeemed]

Merges(sv) == FoldLeft(LAMBDA acc, m : MergeLane(acc, m, sv.lane), Merging, sv.merges)

\* The lane of the voucher, new if there is none.
Lane(sv) == IF sv.lane \in DOMAIN lane_states THEN lane_states[sv.lane] ELSE [redeemed |-> 0, nonce |-> 0]


BalanceDelta(sv) == sv.amount - (Merges(sv).others + Lane(sv).redeemed)

SetLane(sv) ==
    [l \in DOMAIN Merges(sv).lanes \cup {sv.lane} |->
        IF l = sv.lane THEN [redeemed |-> sv.amount, nonce |-> sv.nonce] ELSE Merges(sv).lanes[l]]

DelaySettling(sv) ==
    /\ settling_at' = IF settling_at # 0 /\ settling_at < sv.min_settle_height
                      THEN sv.min_settle_height ELSE settling_at
    /\ min_settle_height' = IF min_settle_height < sv.min_settle_height THEN sv.min_settle_height ELSE min_settle_height

Covers(delta) == delta + to_send >= 0 /\ delta + to_send <= balance

UpdateChannelState(sv) ==
    /\ alive /\ Cardinality(redeemed) < MaxVouchers
    /\ settling_at # 0 => epoch < settling_at
    /\ epoch >= sv.time_lock_min
    /\ sv.time_lock_max # 0 => epoch <= sv.time_lock_max
    /\ sv.amount >= 0
    /\ sv.lane \in DOMAIN lane_states => lane_states[sv.lane].nonce < sv.nonce
    /\ Merges(sv).ok
    /\ Covers(BalanceDelta(sv))
    /\ to_send' = to_send + BalanceDelta(sv)
    /\ DelaySettling(sv)
    /\ lane_states' = SetLane(sv)
    /\ redeemed' = redeemed \cup {sv}
    /\ UNCHANGED <<alive, balance, epoch, paid, deposits>>

Settle ==
    /\ alive /\ settling_at = 0
    /\ settling_at' = IF epoch + SETTLE_DELAY < min_settle_height THEN min_settle_height ELSE epoch + SETTLE_DELAY
    /\ UNCHANGED <<alive, to_send, min_settle_height, lane_states, balance, epoch, paid, deposits, redeemed>>

\* to_send goes to the payee, and the deletion returns the rest to the payer.
Collect ==
    /\ alive /\ settling_at # 0 /\ epoch >= settling_at
    /\ paid' = [to |-> to_send, from |-> balance - to_send]
    /\ balance' = 0 /\ alive' = FALSE
    /\ UNCHANGED <<to_send, settling_at, min_settle_height, lane_states, epoch, deposits, redeemed>>

Deposit ==
    /\ alive /\ deposits < MaxDeposits
    /\ deposits' = deposits + 1 /\ balance' = balance + 1
    /\ UNCHANGED <<alive, to_send, settling_at, min_settle_height, lane_states, epoch, paid, redeemed>>

Tick ==
    /\ alive /\ epoch < MaxEpoch /\ epoch' = epoch + 1
    /\ UNCHANGED <<alive, to_send, settling_at, min_settle_height, lane_states, balance, paid, deposits, redeemed>>

-----------------------------------------------------------------------------

Init ==
    /\ alive = TRUE
    /\ to_send = 0 /\ settling_at = 0 /\ min_settle_height = 0
    /\ lane_states = <<>>
    /\ balance \in Funding
    /\ epoch = 0 /\ paid = [to |-> 0, from |-> 0]
    /\ deposits = 0 /\ redeemed = {}

Next == (\E sv \in Vouchers : UpdateChannelState(sv)) \/ Settle \/ Collect \/ Deposit \/ Tick

Spec == Init /\ [][Next]_vars

-----------------------------------------------------------------------------

TypeOK ==
    /\ alive \in BOOLEAN
    /\ settling_at \in Nat /\ min_settle_height \in Nat /\ epoch \in 0 .. MaxEpoch
    /\ \A l \in DOMAIN lane_states : lane_states[l] \in [redeemed : Nat, nonce : Nat]
    /\ redeemed \subseteq Vouchers

\* The channel can always pay what it owes: no order of vouchers, merges and
\* deposits makes to_send negative or more than the balance.
OwesWhatItHas == alive => to_send \in 0 .. balance

LastAmount(l) == LET of(l_) == {sv \in redeemed : sv.lane = l_}
                 IN  (CHOOSE sv \in of(l) : \A o \in of(l) : o.nonce <= sv.nonce).amount

\* Nothing is counted twice: the payee is owed no more than the last voucher of
\* every lane says, taken together.
NothingCountedTwice ==
    to_send <= FoldFunction(+, 0, [l \in {sv.lane : sv \in redeemed} |-> LastAmount(l)])

\* A channel that settles waits for the latest height that a redeemed voucher
\* asked for, whether the voucher came before or after the settling.
SettlesNoSooner ==
    settling_at # 0 => \A sv \in redeemed : settling_at >= sv.min_settle_height

\* A voucher is redeemed once: redeeming and merging only raise the nonce of a
\* lane, and neither happens in a channel that has settled.
NoncesOnlyRise ==
    [][/\ \A l \in DOMAIN lane_states : lane_states'[l].nonce >= lane_states[l].nonce
       /\ \A sv \in redeemed : lane_states'[sv.lane].nonce >= sv.nonce
       /\ \A sv \in redeemed : \A i \in DOMAIN sv.merges : lane_states'[sv.merges[i].lane].nonce >= sv.merges[i].nonce
       /\ lane_states' # lane_states => settling_at = 0 \/ epoch < settling_at]_vars


=============================================================================
