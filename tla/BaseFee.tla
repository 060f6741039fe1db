------------------------------ MODULE BaseFee -------------------------------
(***************************************************************************)
(* The base fee: compute_base_fee and compute_next_base_fee                *)
(* (blockchain/chain/src/store/base_fee.rs).  A chain grows by tipsets     *)
(* whose blocks share messages, and every tipset carries the fee computed  *)
(* from its parent.                                                        *)
(***************************************************************************)
EXTENDS Integers, FiniteSetsExt

CONSTANTS
    Message,                \* the messages (by their CIDs)
    GasLimit,               \* the gas limit of each
    BLOCK_GAS_TARGET,
    MINIMUM_BASE_FEE,
    INITIAL_BASE_FEE,
    UPGRADE_SMOKE_HEIGHT,
    MaxEpoch,               \* bound on the chain: the last epoch stands for all later ones
    MaxBlocks,              \* bound on the blocks of a tipset
    MaxBaseFee              \* bound on the fee

ASSUME BaseFeeAssumption ==
    /\ IsFiniteSet(Message)
    /\ GasLimit \in [Message -> Nat]
    /\ BLOCK_GAS_TARGET \in Nat \ {0}
    /\ MINIMUM_BASE_FEE \in Nat
    /\ INITIAL_BASE_FEE \in Nat
    /\ INITIAL_BASE_FEE >= MINIMUM_BASE_FEE
    /\ UPGRADE_SMOKE_HEIGHT \in Nat
    /\ MaxEpoch \in Nat
    /\ MaxBlocks \in Nat \ {0}
    /\ MaxBaseFee \in Nat

BLOCK_GAS_LIMIT == 2 * BLOCK_GAS_TARGET
BASE_FEE_MAX_CHANGE_DENOM == 8
PACKING_EFFICIENCY_DENOM == 5
PACKING_EFFICIENCY_NUM == 4

\* A block packs no more gas than its limit (check_block_messages).
PackedBlock == {b \in SUBSET Message : MapThenSumSet(LAMBDA m : GasLimit[m], b) <= BLOCK_GAS_LIMIT}

TipsetBlocks == UNION {[1 .. n -> PackedBlock] : n \in 1 .. MaxBlocks}

VARIABLES
    epoch,      \* the epoch of the head
    blocks,     \* the blocks of the head, each the set of its messages
    base_fee    \* the parent_base_fee of the head's blocks

vars == <<epoch, blocks, base_fee>>

\* The fee never falls below the minimum.
TypeOK ==
    /\ epoch \in 0 .. MaxEpoch
    /\ blocks \in TipsetBlocks
    /\ base_fee \in Nat
    /\ base_fee >= MINIMUM_BASE_FEE

Init ==
    /\ epoch = 0
    /\ blocks = [i \in 1 .. 1 |-> {}]
    /\ base_fee = INITIAL_BASE_FEE

-----------------------------------------------------------------------------
Abs(n) == IF n < 0 THEN -n ELSE n

\* Before the smoke upgrade the packing efficiency inflates the gas that is
\* counted: the fraction is flipped, as in the other implementations.
GasDelta(gas_limit_used, no_of_blocks, ep) ==
    (IF ep > UPGRADE_SMOKE_HEIGHT
     THEN gas_limit_used \div no_of_blocks
     ELSE (PACKING_EFFICIENCY_DENOM * gas_limit_used) \div (no_of_blocks * PACKING_EFFICIENCY_NUM))
    - BLOCK_GAS_TARGET

\* Limit the absolute change at the block gas target.
CappedDelta(delta) ==
    IF Abs(delta) > BLOCK_GAS_TARGET
    THEN IF delta > 0 THEN BLOCK_GAS_TARGET ELSE -BLOCK_GAS_TARGET
    ELSE delta

\* Mutant: the quotients are rounded towards zero.
compute_next_base_fee_truncated(fee, gas_limit_used, no_of_blocks, ep) ==
    LET delta  == CappedDelta(GasDelta(gas_limit_used, no_of_blocks, ep))
        size   == ((fee * Abs(delta)) \div BLOCK_GAS_TARGET) \div BASE_FEE_MAX_CHANGE_DENOM
        next   == IF delta < 0 THEN fee - size ELSE fee + size
    IN  IF next < MINIMUM_BASE_FEE THEN MINIMUM_BASE_FEE ELSE next

\* div_floor twice, then the minimum.
compute_next_base_fee(fee, gas_limit_used, no_of_blocks, ep) ==
    LET delta  == CappedDelta(GasDelta(gas_limit_used, no_of_blocks, ep))
        change == ((fee * delta) \div BLOCK_GAS_TARGET) \div BASE_FEE_MAX_CHANGE_DENOM
    IN  IF fee + change < MINIMUM_BASE_FEE THEN MINIMUM_BASE_FEE ELSE fee + change

\* Mutant: a message counts in every block that has it.
TotalLimitPerBlock(bs) ==
    MapThenSumSet(LAMBDA i : MapThenSumSet(LAMBDA m : GasLimit[m], bs[i]), DOMAIN bs)

\* The gas limits of the unique messages of the tipset.
TotalLimit(bs) == MapThenSumSet(LAMBDA m : GasLimit[m], UNION {bs[i] : i \in DOMAIN bs})

compute_base_fee(bs, ep, fee) ==
    compute_next_base_fee(fee, TotalLimit(bs), Cardinality(DOMAIN bs), ep)

\* The next tipset carries the fee that its parent leads to.
NextTipset ==
    LET fee == compute_base_fee(blocks, epoch, base_fee)
    IN  /\ fee <= MaxBaseFee
        /\ base_fee' = fee
        /\ blocks' \in TipsetBlocks
        /\ epoch' = IF epoch < MaxEpoch THEN epoch + 1 ELSE epoch

Next == NextTipset

Spec == Init /\ [][Next]_vars

\* The chain goes on growing.
FairSpec == Spec /\ WF_vars(Next)

-----------------------------------------------------------------------------
(* Properties *)

\* From a tipset to the next the fee changes by at most an eighth ("Limits gas
\* base fee change to 12.5%"), whatever gas its blocks use and however the
\* packing efficiency inflates it.
ChangeLimited ==
    [][/\ BASE_FEE_MAX_CHANGE_DENOM * (base_fee' - base_fee) <= base_fee
       /\ BASE_FEE_MAX_CHANGE_DENOM * (base_fee - base_fee') < base_fee + BASE_FEE_MAX_CHANGE_DENOM]_vars

\* A block that only repeats messages of the other blocks never raises the fee.
RepeatedMessagesAreFree ==
    \A b \in SUBSET UNION {blocks[i] : i \in DOMAIN blocks} :
        LET n == Cardinality(DOMAIN blocks)
            more == [i \in 1 .. n + 1 |-> IF i <= n THEN blocks[i] ELSE b]
        IN  compute_base_fee(more, epoch, base_fee) <= compute_base_fee(blocks, epoch, base_fee)

\* When tipsets stay empty the fee falls all the way to the minimum: rounding
\* the change never leaves it stuck above.
FeeFallsToMinimum ==
    <>[](\A i \in DOMAIN blocks : blocks[i] = {}) => <>[](base_fee = MINIMUM_BASE_FEE)

\* The fee is bounded in every way the miners rely on: it is never below the
\* minimum, moves by an eighth at most, and is not raised by including again
\* what other blocks include.
FeeIsSound == [](TypeOK /\ RepeatedMessagesAreFree) /\ ChangeLimited

=============================================================================
