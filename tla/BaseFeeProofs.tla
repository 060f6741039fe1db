--------------------------- MODULE BaseFeeProofs ----------------------------
(***************************************************************************)
(* Theorems about BaseFee: the fee stays above its minimum and changes by  *)
(* at most an eighth per tipset, for every gas target, every minimum and   *)
(* every set of messages.                                                  *)
(***************************************************************************)
EXTENDS BaseFee, DataInduction

\* Multiplying by a natural number keeps the order.
LEMMA TimesMonotone ==
    ASSUME NEW a \in Nat, NEW b \in Int, NEW c \in Int, b <= c
    PROVE  a * b <= a * c
<1>1. a * (c - b) >= 0
  BY SMT
<1>2. a * (c - b) = a * c - a * b
  BY SMT
<1> QED
  BY <1>1, <1>2, SMT

\* What a quotient that is rounded down satisfies.
LEMMA DivFloor ==
    ASSUME NEW x \in Int, NEW t \in Nat \ {0}
    PROVE  /\ x \div t \in Int
           /\ t * (x \div t) <= x
           /\ x < t * (x \div t) + t
  BY SMT

\* A quotient lies between the same bounds as its exact value.
LEMMA DivBetween ==
    ASSUME NEW f \in Nat, NEW d \in Int, NEW t \in Nat \ {0}, -t <= d, d <= t
    PROVE  /\ (f * d) \div t \in Int
           /\ -f <= (f * d) \div t
           /\ (f * d) \div t <= f
<1> DEFINE q == (f * d) \div t
<1>1. /\ f * d \in Int
      /\ q \in Int
      /\ t * q <= f * d
      /\ f * d < t * q + t
  <2>1. f * d \in Int
    OBVIOUS
  <2> QED
    BY <2>1, DivFloor
<1>2. f * d <= f * t
  BY TimesMonotone
<1>3. f * (-t) <= f * d
  BY TimesMonotone
<1>4. q <= f
  <2> SUFFICES ASSUME f + 1 <= q PROVE FALSE
    BY <1>1
  <2>1. t * (f + 1) <= t * q
    BY <1>1, TimesMonotone
  <2>2. t * (f + 1) = f * t + t
    BY SMT
  <2> QED
    BY <1>1, <1>2, <2>1, <2>2
<1>5. -f <= q
  <2> SUFFICES ASSUME q + 1 <= -f PROVE FALSE
    BY <1>1
  <2>1. t * (q + 1) <= t * (-f)
    BY <1>1, TimesMonotone
  <2>2. t * (q + 1) = t * q + t
    BY <1>1, SMT
  <2>3. t * (-f) = f * (-t)
    BY SMT
  <2> QED
    BY <1>1, <1>3, <2>1, <2>2, <2>3
<1> QED
  BY <1>1, <1>4, <1>5

\* A quotient grows with the number that is divided ...
LEMMA DivMonotone ==
    ASSUME NEW x \in Int, NEW y \in Int, NEW t \in Nat \ {0}, x <= y
    PROVE  x \div t <= y \div t
<1> DEFINE p == x \div t
           q == y \div t
<1>1. p \in Int /\ q \in Int /\ t * p <= x /\ y < t * q + t
  BY DivFloor
<1> HIDE DEF p, q
<1>2. p <= q
  <2> SUFFICES ASSUME q + 1 <= p PROVE FALSE
    BY <1>1
  <2>1. t * (q + 1) <= t * p
    BY <1>1, TimesMonotone
  <2>2. t * (q + 1) = t * q + t
    BY <1>1, SMT
  <2> QED
    BY <1>1, <2>1, <2>2
<1> QED
  BY <1>2 DEF p, q

\* ... and falls with the number it is divided by.
LEMMA DivAntitone ==
    ASSUME NEW g \in Nat, NEW a \in Nat \ {0}, NEW b \in Nat \ {0}, a <= b
    PROVE  g \div b <= g \div a
<1> DEFINE p == g \div a
           q == g \div b
<1>1. /\ p \in Int /\ q \in Int
      /\ g < a * p + a
      /\ b * q <= g /\ g < b * q + b
  BY DivFloor
<1> HIDE DEF p, q
<1>2. q \in Nat
  <2> SUFFICES ASSUME q + 1 <= 0 PROVE FALSE
    BY <1>1
  <2>1. b * (q + 1) <= b * 0
    BY <1>1, TimesMonotone
  <2>2. b * (q + 1) = b * q + b /\ b * 0 = 0
    BY <1>1, SMT
  <2> QED
    BY <1>1, <2>1, <2>2
<1>3. q * a <= q * b
  BY <1>2, TimesMonotone
<1>4. q * a = a * q /\ q * b = b * q
  BY <1>1, SMT
<1>5. q <= p
  <2> SUFFICES ASSUME p + 1 <= q PROVE FALSE
    BY <1>1
  <2>1. a * (p + 1) <= a * q
    BY <1>1, TimesMonotone
  <2>2. a * (p + 1) = a * p + a
    BY <1>1, SMT
  <2> QED
    BY <1>1, <1>3, <1>4, <2>1, <2>2
<1> QED
  BY <1>5 DEF p, q

\* The fee after a tipset, for every amount of gas: it respects the minimum,
\* grows by at most an eighth and falls by at most an eighth, rounded up.
LEMMA NextFee ==
    ASSUME NEW fee \in Nat, NEW gas \in Nat, NEW n \in Nat \ {0}, NEW ep \in Nat,
           fee >= MINIMUM_BASE_FEE
    PROVE  LET next == compute_next_base_fee(fee, gas, n, ep)
           IN  /\ next \in Nat
               /\ next >= MINIMUM_BASE_FEE
               /\ BASE_FEE_MAX_CHANGE_DENOM * (next - fee) <= fee
               /\ BASE_FEE_MAX_CHANGE_DENOM * (fee - next) < fee + BASE_FEE_MAX_CHANGE_DENOM
<1> DEFINE d == GasDelta(gas, n, ep)
           c == CappedDelta(d)
           q == (fee * c) \div BLOCK_GAS_TARGET
           change == q \div BASE_FEE_MAX_CHANGE_DENOM
<1> USE BaseFeeAssumption
<1>1. d \in Int
  <2>1. gas \div n \in Int
    BY DivFloor
  <2>2. n * 4 \in Nat \ {0} /\ 5 * gas \in Int
    OBVIOUS
  <2>3. (5 * gas) \div (n * 4) \in Int
    BY <2>2, DivFloor
  <2> QED
    BY <2>1, <2>3 DEF GasDelta, PACKING_EFFICIENCY_DENOM, PACKING_EFFICIENCY_NUM
<1>2. c \in Int /\ -BLOCK_GAS_TARGET <= c /\ c <= BLOCK_GAS_TARGET
  <2> HIDE DEF d
  <2> QED
    BY <1>1 DEF CappedDelta, Abs
<1>3. q \in Int /\ -fee <= q /\ q <= fee
  <2> HIDE DEF c
  <2> QED
    BY <1>2, DivBetween, Zenon
<1>4. change \in Int /\ 8 * change <= q /\ q < 8 * change + 8
  <2> HIDE DEF q
  <2> QED
    BY <1>3, DivFloor DEF BASE_FEE_MAX_CHANGE_DENOM
<1>5. compute_next_base_fee(fee, gas, n, ep)
        = IF fee + change < MINIMUM_BASE_FEE THEN MINIMUM_BASE_FEE ELSE fee + change
  BY DEF compute_next_base_fee
<1> HIDE DEF change
<1> QED
  BY <1>3, <1>4, <1>5 DEF BASE_FEE_MAX_CHANGE_DENOM

\* More blocks with the same gas never lead to a higher fee.
LEMMA MoreBlocks ==
    ASSUME NEW fee \in Nat, NEW gas \in Nat, NEW n \in Nat \ {0}, NEW ep \in Nat
    PROVE  compute_next_base_fee(fee, gas, n + 1, ep) <= compute_next_base_fee(fee, gas, n, ep)
<1> USE BaseFeeAssumption
<1> DEFINE Delta(k) == GasDelta(gas, k, ep)
           Capped(k) == CappedDelta(Delta(k))
           Quotient(k) == (fee * Capped(k)) \div BLOCK_GAS_TARGET
           Change(k) == Quotient(k) \div BASE_FEE_MAX_CHANGE_DENOM
<1>1. Delta(n) \in Int /\ Delta(n + 1) \in Int /\ Delta(n + 1) <= Delta(n)
  <2>1. /\ gas \div n \in Int /\ gas \div (n + 1) \in Int
        /\ gas \div (n + 1) <= gas \div n
    <3>1. n + 1 \in Nat \ {0} /\ n <= n + 1 /\ gas \in Int
      OBVIOUS
    <3>2. gas \div n \in Int
      BY <3>1, DivFloor
    <3>3. gas \div (n + 1) \in Int
      BY <3>1, DivFloor
    <3>4. gas \div (n + 1) <= gas \div n
      BY <3>1, DivAntitone, Zenon
    <3> QED
      BY <3>2, <3>3, <3>4
  <2>2. /\ n * 4 \in Nat \ {0} /\ (n + 1) * 4 \in Nat \ {0}
        /\ n * 4 <= (n + 1) * 4 /\ 5 * gas \in Nat
    OBVIOUS
  <2>3. /\ (5 * gas) \div (n * 4) \in Int /\ (5 * gas) \div ((n + 1) * 4) \in Int
        /\ (5 * gas) \div ((n + 1) * 4) <= (5 * gas) \div (n * 4)
    <3> DEFINE low == n * 4
               high == (n + 1) * 4
               much == 5 * gas
    <3>1. low \in Nat \ {0} /\ high \in Nat \ {0} /\ low <= high /\ much \in Nat /\ much \in Int
      BY <2>2
    <3> HIDE DEF low, high, much
    <3>2. much \div low \in Int
      BY <3>1, DivFloor
    <3>3. much \div high \in Int
      BY <3>1, DivFloor
    <3>4. much \div high <= much \div low
      BY <3>1, DivAntitone, Zenon
    <3> QED
      BY <3>2, <3>3, <3>4 DEF low, high, much
  <2> QED
    BY <2>1, <2>3 DEF GasDelta, PACKING_EFFICIENCY_DENOM, PACKING_EFFICIENCY_NUM
<1>2. Capped(n) \in Int /\ Capped(n + 1) \in Int /\ Capped(n + 1) <= Capped(n)
  <2> HIDE DEF Delta
  <2> QED
    BY <1>1 DEF CappedDelta, Abs
<1>3. Quotient(n) \in Int /\ Quotient(n + 1) \in Int /\ Quotient(n + 1) <= Quotient(n)
  <2> HIDE DEF Capped
  <2>1. fee * Capped(n) \in Int /\ fee * Capped(n + 1) \in Int
    BY <1>2
  <2>2. fee * Capped(n + 1) <= fee * Capped(n)
    BY <1>2, TimesMonotone
  <2> QED
    BY <2>1, <2>2, DivFloor, DivMonotone
<1>4. Change(n) \in Int /\ Change(n + 1) \in Int /\ Change(n + 1) <= Change(n)
  <2> HIDE DEF Quotient
  <2>1. BASE_FEE_MAX_CHANGE_DENOM \in Nat \ {0}
    BY DEF BASE_FEE_MAX_CHANGE_DENOM
  <2> QED
    BY <1>3, <2>1, DivFloor, DivMonotone, Zenon
<1>5. ASSUME NEW k \in {n, n + 1}
      PROVE  compute_next_base_fee(fee, gas, k, ep)
               = IF fee + Change(k) < MINIMUM_BASE_FEE THEN MINIMUM_BASE_FEE ELSE fee + Change(k)
  BY DEF compute_next_base_fee
<1> HIDE DEF Change
<1> QED
  BY <1>4, <1>5

-----------------------------------------------------------------------------
(* The gas of a tipset *)

\* Every tipset has at least one block, and its gas is a natural number.
LEMMA TipsetGas ==
    ASSUME NEW bs \in TipsetBlocks
    PROVE  /\ TotalLimit(bs) \in Nat
           /\ Cardinality(DOMAIN bs) \in Nat \ {0}
           /\ DOMAIN bs = 1 .. Cardinality(DOMAIN bs)
<1>1. PICK n \in 1 .. MaxBlocks : bs \in [1 .. n -> PackedBlock]
  BY DEF TipsetBlocks
<1>2. n \in Nat \ {0} /\ Cardinality(DOMAIN bs) = n /\ DOMAIN bs = 1 .. n
  <2>1. n \in Nat \ {0}
    BY BaseFeeAssumption
  <2>2. Cardinality(1 .. n) = n
    BY <2>1, FS_Interval
  <2> QED
    BY <1>1, <2>1, <2>2
<1> DEFINE all == UNION {bs[i] : i \in DOMAIN bs}
<1>3. all \in SUBSET Message
  BY <1>1, Zenon DEF PackedBlock
<1>4. SumOf(GasLimit, all) \in Nat
  <2>1. \A m \in Message : GasLimit[m] \in Nat
    BY BaseFeeAssumption
  <2> HIDE DEF all
  <2> QED
    BY <1>3, <2>1, BaseFeeAssumption, SumSubset
<1>5. TotalLimit(bs) = SumOf(GasLimit, all)
  BY DEF TotalLimit, SumOf
<1> QED
  BY <1>2, <1>4, <1>5

\* A block without messages can be packed.
LEMMA EmptyBlock == {} \in PackedBlock
<1>1. MapThenSumSet(LAMBDA m : GasLimit[m], {}) = SumOf(GasLimit, {})
  BY DEF SumOf
<1>2. SumOf(GasLimit, {}) = 0
  BY SumEmpty
<1> QED
  BY <1>1, <1>2, BaseFeeAssumption DEF PackedBlock, BLOCK_GAS_LIMIT

-----------------------------------------------------------------------------
(* The chain *)

\* What a step of the chain does to the fee.
LEMMA StepFee ==
    ASSUME TypeOK, NextTipset
    PROVE  /\ TypeOK'
           /\ BASE_FEE_MAX_CHANGE_DENOM * (base_fee' - base_fee) <= base_fee
           /\ BASE_FEE_MAX_CHANGE_DENOM * (base_fee - base_fee') < base_fee + BASE_FEE_MAX_CHANGE_DENOM
<1>1. TotalLimit(blocks) \in Nat /\ Cardinality(DOMAIN blocks) \in Nat \ {0}
  BY TipsetGas DEF TypeOK
<1>2. /\ base_fee' \in Nat
      /\ base_fee' >= MINIMUM_BASE_FEE
      /\ BASE_FEE_MAX_CHANGE_DENOM * (base_fee' - base_fee) <= base_fee
      /\ BASE_FEE_MAX_CHANGE_DENOM * (base_fee - base_fee') < base_fee + BASE_FEE_MAX_CHANGE_DENOM
  <2>1. base_fee \in Nat /\ base_fee >= MINIMUM_BASE_FEE /\ epoch \in Nat
    BY BaseFeeAssumption DEF TypeOK
  <2>2. base_fee' = compute_next_base_fee(base_fee, TotalLimit(blocks), Cardinality(DOMAIN blocks), epoch)
    BY DEF NextTipset, compute_base_fee
  <2> QED
    BY <1>1, <2>1, <2>2, NextFee
<1>3. epoch' \in 0 .. MaxEpoch /\ blocks' \in TipsetBlocks
  BY BaseFeeAssumption DEF TypeOK, NextTipset
<1> QED
  BY <1>2, <1>3 DEF TypeOK

\* The initial fee is at least the minimum.
LEMMA InitTypeOK == Init => TypeOK
<1> SUFFICES ASSUME Init PROVE TypeOK
  OBVIOUS
<1>1. {} \in PackedBlock
  BY EmptyBlock
<1> QED
  BY <1>1, BaseFeeAssumption DEF Init, TypeOK, TipsetBlocks

\* compute_base_fee never returns less than MINIMUM_BASE_FEE, along any chain.
THEOREM FeeAboveMinimum == Spec => []TypeOK
<1>1. TypeOK /\ [Next]_vars => TypeOK'
  <2> SUFFICES ASSUME TypeOK, [Next]_vars PROVE TypeOK'
    OBVIOUS
  <2>1. CASE NextTipset
    BY <2>1, StepFee
  <2>2. CASE UNCHANGED vars
    BY <2>2 DEF TypeOK, vars
  <2> QED
    BY <2>1, <2>2 DEF Next
<1> QED
  BY <1>1, InitTypeOK, PTL DEF Spec

\* No tipset changes the base fee by more than an eighth (compute_next_base_fee
\* caps the delta and rounds down twice).
THEOREM ChangeIsLimited == Spec => ChangeLimited
<1>1. TypeOK /\ [Next]_vars =>
        [/\ BASE_FEE_MAX_CHANGE_DENOM * (base_fee' - base_fee) <= base_fee
         /\ BASE_FEE_MAX_CHANGE_DENOM * (base_fee - base_fee') < base_fee + BASE_FEE_MAX_CHANGE_DENOM]_vars
  BY StepFee DEF Next
<1> QED
  BY <1>1, FeeAboveMinimum, PTL DEF Spec, ChangeLimited

\* compute_base_fee counts the gas of a message once however many blocks include
\* it: repeating messages in another block never raises the fee.
THEOREM RepeatedAreFree == Spec => []RepeatedMessagesAreFree
<1>1. TypeOK => RepeatedMessagesAreFree
  <2> SUFFICES ASSUME TypeOK, NEW b \in SUBSET UNION {blocks[i] : i \in DOMAIN blocks}
               PROVE  LET n == Cardinality(DOMAIN blocks)
                          more == [i \in 1 .. n + 1 |-> IF i <= n THEN blocks[i] ELSE b]
                      IN  compute_base_fee(more, epoch, base_fee)
                            <= compute_base_fee(blocks, epoch, base_fee)
    BY Zenon DEF RepeatedMessagesAreFree
  <2> DEFINE n == Cardinality(DOMAIN blocks)
             more == [i \in 1 .. n + 1 |-> IF i <= n THEN blocks[i] ELSE b]
  <2>1. TotalLimit(blocks) \in Nat /\ n \in Nat \ {0} /\ DOMAIN blocks = 1 .. n
    BY TipsetGas DEF TypeOK
  <2>2. Cardinality(DOMAIN more) = n + 1
    <3> HIDE DEF n
    <3>1. Cardinality(1 .. n + 1) = n + 1
      BY <2>1, FS_Interval
    <3> QED
      BY <3>1
  <2>3. UNION {more[i] : i \in DOMAIN more} = UNION {blocks[i] : i \in DOMAIN blocks}
    <3> HIDE DEF n
    <3>1. \A i \in 1 .. n : i \in DOMAIN more /\ more[i] = blocks[i]
      BY <2>1
    <3>2. \A i \in DOMAIN more : i \in 1 .. n \/ more[i] = b
      BY <2>1
    <3> HIDE DEF more
    <3> QED
      BY <2>1, <3>1, <3>2
  <2>4. TotalLimit(more) = TotalLimit(blocks)
    <3> HIDE DEF more
    <3> QED
      BY <2>3, Zenon DEF TotalLimit
  <2>5. base_fee \in Nat /\ epoch \in Nat
    BY BaseFeeAssumption DEF TypeOK
  <2> HIDE DEF more, n
  <2>6. compute_base_fee(more, epoch, base_fee) <= compute_base_fee(blocks, epoch, base_fee)
    BY <2>1, <2>2, <2>4, <2>5, MoreBlocks, SMTT(30) DEF compute_base_fee, n
  <2> QED
    BY <2>6 DEF more, n
<1> QED
  BY <1>1, FeeAboveMinimum, PTL

\* The base fee is sound, for every gas target, every minimum and every finite set
\* of messages: above the minimum, limited in its changes, blind to repetitions.
THEOREM FeeTheorem == Spec => FeeIsSound
  BY FeeAboveMinimum, RepeatedAreFree, ChangeIsLimited, PTL DEF FeeIsSound

=============================================================================
