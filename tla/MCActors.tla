------------------------------ MODULE MCActors ------------------------------
(* Instances for TLC of the actors that hold funds and power for others: the *)
(* power and reward actors, the multisig, the payment channel, the keys of a *)
(* miner and the bit fields it keeps its sectors in.  In a behaviour one of  *)
(* the five parts moves, and the others stay where they start.               *)
EXTENDS StoragePower

MCDeltas == {[raw |-> 1, qa |-> 2], [raw |-> 6, qa |-> 1], [raw |-> -1, qa |-> -2]}

CONSTANTS a, b, c, SIGNERS_MAX, MaxTxns, SETTLE_DELAY, MaxDeposits, MaxVouchers, LastEpoch,
          Bits, Fields, MaxOps

MCCalls ==
    {[to |-> "other", value |-> 1, method |-> "Send"],
     [to |-> "self", value |-> 0, method |-> "AddSigner", signer |-> c, increase |-> TRUE],
     [to |-> "self", value |-> 0, method |-> "RemoveSigner", signer |-> b, decrease |-> TRUE],
     [to |-> "self", value |-> 0, method |-> "RemoveSigner", signer |-> a, decrease |-> FALSE],
     [to |-> "self", value |-> 0, method |-> "SwapSigner", from |-> a, new |-> c],
     [to |-> "self", value |-> 0, method |-> "ChangeNumApprovalsThreshold", new_threshold |-> 3],
     [to |-> "self", value |-> 0, method |-> "LockBalance", start_epoch |-> 0, unlock_duration |-> 3, amount |-> 2]}

MCConstructors ==
    {[signers |-> {a, b}, num_approvals_threshold |-> 2, unlock_duration |-> 0, start_epoch |-> 0, value |-> 2],
     [signers |-> {a, b}, num_approvals_threshold |-> 1, unlock_duration |-> 3, start_epoch |-> 0, value |-> 2]}

Voucher(lane, nonce, amount, merges, height, lock) ==
    [lane |-> lane, nonce |-> nonce, amount |-> amount, merges |-> merges,
     min_settle_height |-> height, time_lock_min |-> 0, time_lock_max |-> lock]

\* Two lanes: vouchers that raise, lower and merge them, one that is for a while
\* only and one that is not yet good.
MCVouchers ==
    {Voucher(0, 1, 1, <<>>, 0, 0), Voucher(0, 2, 3, <<>>, 0, 0), Voucher(0, 4, 0, <<>>, 3, 2),
     Voucher(1, 1, 1, <<>>, 2, 0),
     Voucher(1, 2, 4, <<[lane |-> 0, nonce |-> 3]>>, 0, 0),
     Voucher(1, 3, 4, <<[lane |-> 0, nonce |-> 5]>>, 4, 0),
     [Voucher(1, 4, 2, <<>>, 0, 0) EXCEPT !.time_lock_min = 1]}

\* Runs of one bit, of up to 15 and of more; a length of two bytes.
MCFields == {{}, 0 .. 16, {1, 4} \cup 20 .. 36, 3 .. 150}

VARIABLES part,
          ms_st, ms_balance, ms_epoch, ms_deposits,
          pc_alive, pc_to_send, pc_settling_at, pc_min_settle_height, pc_lane_states,
          pc_balance, pc_epoch, pc_paid, pc_deposits, pc_redeemed,
          mc_owner, mc_worker, mc_control, mc_pending_worker, mc_pending_owner,
          mc_caller, mc_epoch,
          field, bits, other, others, ops

ms_vars == <<ms_st, ms_balance, ms_epoch, ms_deposits>>
pc_vars == <<pc_alive, pc_to_send, pc_settling_at, pc_min_settle_height, pc_lane_states,
             pc_balance, pc_epoch, pc_paid, pc_deposits, pc_redeemed>>
mc_vars == <<mc_owner, mc_worker, mc_control, mc_pending_worker, mc_pending_owner,
             mc_caller, mc_epoch>>
bf_vars == <<field, bits, other, others, ops>>

Wallet == INSTANCE Multisig WITH
    st <- ms_st, balance <- ms_balance, epoch <- ms_epoch, deposits <- ms_deposits,
    Address <- {a, b, c}, Calls <- MCCalls, Constructors <- MCConstructors, MaxEpoch <- LastEpoch

Channel == INSTANCE PaymentChannel WITH
    alive <- pc_alive, to_send <- pc_to_send, settling_at <- pc_settling_at,
    min_settle_height <- pc_min_settle_height, lane_states <- pc_lane_states,
    balance <- pc_balance, epoch <- pc_epoch, paid <- pc_paid, deposits <- pc_deposits,
    redeemed <- pc_redeemed, Vouchers <- MCVouchers, Funding <- {2, 3}, MaxEpoch <- LastEpoch + 2

Keys == INSTANCE MinerControl WITH
    owner <- mc_owner, worker <- mc_worker, control_addresses <- mc_control,
    pending_worker_key <- mc_pending_worker, pending_owner_address <- mc_pending_owner,
    caller <- mc_caller, epoch <- mc_epoch, Address <- {a, b, c}, Principal <- {a, b, c},
    WorkerKey <- {a, b}, MAX_CONTROL_ADDRESSES <- 1, WORKER_KEY_CHANGE_DELAY <- 2,
    MaxEpoch <- LastEpoch + 3

Sectors == INSTANCE BitField

MCInit ==
    /\ part \in {"power", "wallet", "channel", "keys", "bits"}
    /\ Init /\ Wallet!Init /\ Channel!Init /\ Keys!Init /\ Sectors!BInit
    /\ part # "wallet" => ms_st.num_approvals_threshold = 2
    /\ part # "channel" => pc_balance = 2
    /\ part # "keys" => mc_owner = a /\ mc_worker = a
    /\ part # "bits" => bits = {} /\ others = {}

MCNext ==
    /\ UNCHANGED part
    /\ \/ part = "power" /\ Next /\ UNCHANGED <<ms_vars, pc_vars, mc_vars, bf_vars>>
       \/ part = "wallet" /\ Wallet!Next /\ UNCHANGED <<vars, pc_vars, mc_vars, bf_vars>>
       \/ part = "channel" /\ Channel!Next /\ UNCHANGED <<vars, ms_vars, mc_vars, bf_vars>>
       \/ part = "keys" /\ Keys!Next /\ UNCHANGED <<vars, ms_vars, pc_vars, bf_vars>>
       \/ part = "bits" /\ Sectors!BNext /\ UNCHANGED <<vars, ms_vars, pc_vars, mc_vars>>

MCSpec == MCInit /\ [][MCNext]_<<part, vars, ms_vars, pc_vars, mc_vars, bf_vars>>

-----------------------------------------------------------------------------

\* The wallet does what signers enough agreed on (see Multisig).
WalletIsSafe == Wallet!WalletIsSafe


\* The keys of a miner change as their holders agreed (see MinerControl).
ControlIsSafe == Keys!ControlIsSafe

\* A bit field is the set of its bits (see BitField).
BitFieldIsRight == part = "bits" => Sectors!BitFieldIsRight

=============================================================================
