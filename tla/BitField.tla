------------------------------ MODULE BitField ------------------------------
(***************************************************************************)
(* Bit fields (utils/bitfield), the sets of sector numbers of the miner    *)
(* actor: ranges of ones in ascending order, with the bits set and unset   *)
(* since kept aside.  Operators walk two lists of ranges side by side, and *)
(* the field is stored as RLE+: the lengths of its runs, each in 1, 6 or   *)
(* more bits.                                                              *)
(*                                                                         *)
(* A range start..end is <<start, end>>; bytes are a sequence of bits, the *)
(* lowest first, whose length is a multiple of 8.                          *)
(***************************************************************************)
EXTENDS Integers, FiniteSets, Sequences, SequencesExt, FiniteSetsExt

CONSTANTS
    Bits,       \* the bits that calls set and unset
    Fields,     \* the sets of bits two fields may start with
    MaxOps      \* bound: calls

VARIABLES
    field, bits,    \* a field, and the bits the calls should have left in it
    other, others,  \* a second one, and its bits
    ops

bitVars == <<field, bits, other, others, ops>>

Smaller(a, b) == IF a < b THEN a ELSE b
Larger(a, b) == IF a > b THEN a ELSE b
Length(range) == range[2] - range[1]
Flatten(ranges) == UNION {r[1] .. r[2] - 1 : r \in ToSet(ranges)}

from_ranges(ranges) == [ranges |-> ranges, set |-> {}, unset |-> {}]

\* The bits in ascending order, and from each on as long as the next follows.
RECURSIVE ranges_from_bits(_)
ranges_from_bits(S) ==
    LET start == Min(S)
        end == CHOOSE e \in start + 1 .. Max(S) + 1 : e \notin S /\ start .. e - 1 \subseteq S
    IN  IF S = {} THEN <<>> ELSE <<<<start, end>>>> \o ranges_from_bits({b \in S : b > end})

-----------------------------------------------------------------------------
\* The combinators: what comes out of the first two ranges, of which the one
\* that ends first (a) is dropped, and what is left of the other one (b).
\* aIsLhs says which is which; cut also counts the bits it has cut out.

Step(out, rest, cut) == [out |-> out, rest |-> rest, cut |-> cut]

\* A slip: the left range is not shortened when the right one is dropped.
DifferenceUnshortened(a, b, aIsLhs) ==
    IF aIsLhs THEN Step(<<a[1], Smaller(a[2], b[1])>>, b, 0)
    ELSE Step(<<b[1], Smaller(b[2], a[1])>>, b, Length(a))

Difference(a, b, aIsLhs) ==
    IF aIsLhs THEN Step(<<a[1], Smaller(a[2], b[1])>>, b, 0)
    ELSE Step(<<b[1], Smaller(b[2], a[1])>>, <<Larger(b[1], a[2]), b[2]>>, Length(a))

SymmetricDifference(a, b) ==
    IF a[1] <= b[1]
    THEN Step(<<a[1], Smaller(a[2], b[1])>>, <<Larger(b[1], a[2]), b[2]>>, 0)
    ELSE Step(<<b[1], a[1]>>, <<a[2], b[2]>>, 0)

Advance(op, a, b, aIsLhs) ==
    CASE op = "union" -> Step(<<Smaller(a[1], b[1]), a[2]>>, b, 0)
      [] op = "intersection" -> Step(<<Larger(a[1], b[1]), a[2]>>, b, 0)
      [] op \in {"difference", "cut"} -> Difference(a, b, aIsLhs)
      [] op = "symmetric_difference" -> SymmetricDifference(a, b)

KeepsLhsTail(op) == op # "intersection"
KeepsRhsTail(op) == op \in {"union", "symmetric_difference"}

Shifted(op, range, cut) ==
    IF op = "cut" THEN <<range[1] - cut, range[2] - cut>> ELSE range

RECURSIVE next_range(_, _, _, _)
next_range(op, lhs, rhs, cut) ==
    LET left == lhs # <<>> /\ (rhs = <<>> \/ Head(lhs)[2] <= Head(rhs)[2])
        step == IF left THEN Advance(op, Head(lhs), Head(rhs), TRUE)
                ELSE Advance(op, Head(rhs), Head(lhs), FALSE)
    IN  CASE lhs = <<>> /\ rhs = <<>> -> <<>>
          [] lhs # <<>> /\ rhs = <<>> ->
                (IF KeepsLhsTail(op) THEN <<Shifted(op, Head(lhs), cut)>> ELSE <<>>)
                    \o next_range(op, Tail(lhs), rhs, cut)
          [] lhs = <<>> /\ rhs # <<>> ->
                (IF KeepsRhsTail(op) THEN <<Head(rhs)>> ELSE <<>>) \o next_range(op, lhs, Tail(rhs), cut)
          [] OTHER ->
                <<Shifted(op, step.out, cut)>> \o
                (IF left THEN next_range(op, Tail(lhs), <<step.rest>> \o Tail(rhs), cut)
                 ELSE next_range(op, <<step.rest>> \o Tail(lhs), Tail(rhs), cut + step.cut))

\* Empty ranges are left out, and those that overlap or touch become one.
Merge(ranges) ==
    FoldLeft(LAMBDA acc, r : IF r[1] >= r[2] THEN acc
                             ELSE IF acc = <<>> \/ r[1] > Last(acc)[2] THEN Append(acc, r)
                             ELSE [acc EXCEPT ![Len(acc)][2] = Larger(@, r[2])],
             <<>>, ranges)

Combine(op, lhs, rhs) == Merge(next_range(op, lhs, rhs, 0))

ranges(bf) ==
    Combine("difference", Combine("union", bf.ranges, ranges_from_bits(bf.set)),
            ranges_from_bits(bf.unset))

RECURSIVE skip_bits(_, _)
skip_bits(rs, n) ==
    IF rs = <<>> THEN <<>>
    ELSE IF Length(Head(rs)) > n THEN <<<<Head(rs)[1] + n, Head(rs)[2]>>>> \o Tail(rs)
    ELSE skip_bits(Tail(rs), n - Length(Head(rs)))

RECURSIVE take_bits(_, _)
take_bits(rs, n) ==
    IF n = 0 \/ rs = <<>> THEN <<>>
    ELSE IF Length(Head(rs)) > n THEN <<<<Head(rs)[1], Head(rs)[1] + n>>>>
    ELSE <<Head(rs)>> \o take_bits(Tail(rs), n - Length(Head(rs)))

-----------------------------------------------------------------------------
\* What a field answers.

len(bf) == FoldLeft(LAMBDA n, r : n + Length(r), 0, ranges(bf))

get(bf, i) ==
    \/ i \in bf.set
    \/ i \notin bf.unset /\ \E r \in ToSet(bf.ranges) : r[1] <= i /\ i < r[2]

\* iter: the ranges with the bits set, without those unset.
iter(bf) == Flatten(Combine("union", bf.ranges, ranges_from_bits(bf.set))) \ bf.unset

\* first: only the lowest of the bits set can be the first.
first(bf) ==
    LET low == IF bf.set = {} THEN <<>> ELSE <<<<Min(bf.set), Min(bf.set) + 1>>>>
        candidates == Flatten(Combine("union", bf.ranges, low)) \ bf.unset
    IN  IF candidates = {} THEN -1 ELSE Min(candidates)

last(bf) == IF ranges(bf) = <<>> THEN -1 ELSE Last(ranges(bf))[2] - 1

is_empty(bf) == bf.set = {} /\ Flatten(bf.ranges) \subseteq bf.unset

contains_any(bf, of) == Combine("intersection", ranges(bf), ranges(of)) # <<>>
contains_all(bf, of) == Combine("difference", ranges(of), ranges(bf)) = <<>>

-----------------------------------------------------------------------------
\* RLE+.

\* BitWriter::write: the lowest n bits of a value, lowest first.
write(value, n) == [i \in 1 .. n |-> (value \div 2^(i - 1)) % 2]

RECURSIVE varint(_)
varint(n) == IF n < 128 THEN write(n, 8) ELSE write(128 + (n % 128), 8) \o varint(n \div 128)

write_len(n) ==
    IF n = 1 THEN <<1>>
    ELSE IF n < 16 THEN write(2, 2) \o write(n, 4)
    ELSE write(0, 2) \o varint(n)

\* finish: padded to a byte, and no zero byte at the end.
RECURSIVE finish(_)
finish(bs) ==
    LET padded == bs \o [i \in 1 .. (8 - (Len(bs) % 8)) % 8 |-> 0]
        n == Len(padded)
    IN  IF n > 0 /\ \A i \in n - 7 .. n : padded[i] = 0 THEN finish(SubSeq(padded, 1, n - 8)) ELSE padded

\* The runs of zeros and of ones in turn, the first one of zeros.
Runs(rs) ==
    FlattenSeq([i \in DOMAIN rs |-> <<rs[i][1] - (IF i = 1 THEN 0 ELSE rs[i - 1][2]), Length(rs[i])>>])

to_bytes(bf) ==
    LET runs == Runs(ranges(bf))
        written == IF runs[1] = 0 THEN Tail(runs) ELSE runs
    IN  IF runs = <<>> THEN <<>>
        ELSE finish(write(0, 2) \o <<IF runs[1] = 0 THEN 1 ELSE 0>>
                    \o FlattenSeq([i \in DOMAIN written |-> write_len(written[i])]))

\* BitReader::read: zeros once the buffer is exhausted.
read(bs, pos, n) == SumSet({IF pos + i \in DOMAIN bs THEN bs[pos + i] * 2^i ELSE 0 : i \in 0 .. n - 1})

\* read_varint: what was read and how many bytes it took, -1 if it is not one.
RECURSIVE read_varint(_, _, _)
read_varint(bs, pos, i) ==
    LET byte == read(bs, pos, 8)
        rest == read_varint(bs, pos + 8, i + 1)
    IN  IF i = 9 THEN [len |-> -1, used |-> 0]
        ELSE IF byte >= 128
             THEN IF rest.len < 0 THEN rest
                  ELSE [len |-> (byte - 128) + 128 * rest.len, used |-> rest.used + 8]
        ELSE IF i = 0 \/ byte # 0 THEN [len |-> byte, used |-> 8]
        ELSE [len |-> -1, used |-> 0]

read_len(bs, pos) ==
    IF read(bs, pos, 1) = 1 THEN [len |-> 1, used |-> 1]
    ELSE IF read(bs, pos + 1, 1) = 1 THEN [len |-> read(bs, pos + 2, 4), used |-> 6]
    ELSE LET v == read_varint(bs, pos + 2, 0) IN [v EXCEPT !.used = @ + 2]

\* The loop of from_bytes: ranges of ones until a length of 0.
RECURSIVE ReadRanges(_, _, _, _)
ReadRanges(bs, pos, index, one) ==
    LET r == read_len(bs, pos)
    IN  IF r.len <= 0 THEN <<>>
        ELSE (IF one THEN <<<<index, index + r.len>>>> ELSE <<>>)
                \o ReadRanges(bs, pos + r.used, index + r.len, ~one)

\* What from_bytes accepts: no zero byte at the end, version 0.
Accepted(bs) == (bs # <<>> => read(bs, Len(bs) - 7, 8) # 0) /\ read(bs, 1, 2) = 0

from_bytes(bs) == from_ranges(ReadRanges(bs, 4, 0, read(bs, 3, 1) = 1))

\* The JSON form: the same runs, each as one byte.
to_json(bf) ==
    IF is_empty(bf) THEN <<0>>
    ELSE [i \in DOMAIN Runs(ranges(bf)) |-> Runs(ranges(bf))[i] % 256]

from_json(runs) ==
    LET end == [i \in DOMAIN runs |-> FoldLeft(+, 0, SubSeq(runs, 1, i))]
    IN  from_ranges([i \in 1 .. Len(runs) \div 2 |-> <<end[2 * i - 1], end[2 * i]>>])

FitsJson(bf) == \A n \in ToSet(Runs(ranges(bf))) : n < 256

-----------------------------------------------------------------------------
\* The calls.

BInit ==
    /\ bits \in Fields /\ others \in Fields
    /\ field = from_ranges(ranges_from_bits(bits))
    /\ other = from_ranges(ranges_from_bits(others))
    /\ ops = 0

Op ==
    /\ ops < MaxOps
    /\ ops' = ops + 1

Set(b) ==
    /\ Op
    /\ field' = [field EXCEPT !.unset = @ \ {b}, !.set = @ \cup {b}]
    /\ bits' = bits \cup {b}
    /\ UNCHANGED <<other, others>>

Unset(b) ==
    /\ Op
    /\ field' = [field EXCEPT !.set = @ \ {b}, !.unset = @ \cup {b}]
    /\ bits' = bits \ {b}
    /\ UNCHANGED <<other, others>>

\* What each operator should give.
Meaning(op) ==
    CASE op = "union" -> bits \cup others
      [] op = "intersection" -> bits \cap others
      [] op = "difference" -> bits \ others
      [] op = "symmetric_difference" -> (bits \ others) \cup (others \ bits)
      [] op = "cut" -> {b - Cardinality({o \in others : o < b}) : b \in bits \ others}

\* |, &, -, ^ and cut.
Operate(op) ==
    /\ Op
    /\ field' = from_ranges(Combine(op, ranges(field), ranges(other)))
    /\ bits' = Meaning(op)
    /\ UNCHANGED <<other, others>>

\* slice: an error if there are not bits enough.
Slice(start, n) ==
    /\ Op
    /\ LET taken == from_ranges(take_bits(skip_bits(ranges(field), start), n))
       IN  len(taken) = n /\ field' = taken
    /\ bits' = {b \in bits : Cardinality({c \in bits : c < b}) \in start .. start + n - 1}
    /\ UNCHANGED <<other, others>>

\* The field is stored and loaded again.
Reload ==
    /\ Op
    /\ Accepted(to_bytes(field))
    /\ field' = from_bytes(to_bytes(field))
    /\ UNCHANGED <<bits, other, others>>

\* The field goes through JSON; a run of 256 or more does not.
ReloadJson ==
    /\ Op
    /\ FitsJson(field)
    /\ field' = from_json(to_json(field))
    /\ UNCHANGED <<bits, other, others>>

\* The caller goes on with the other one.
Exchange ==
    /\ Op
    /\ field' = other /\ bits' = others
    /\ other' = field /\ others' = bits

BNext ==
    \/ \E b \in Bits : Set(b) \/ Unset(b)
    \/ \E op \in {"union", "intersection", "difference", "symmetric_difference", "cut"} : Operate(op)
    \/ \E start \in {0, 1, 2}, n \in {2, 17} : Slice(start, n)
    \/ Reload \/ ReloadJson \/ Exchange

-----------------------------------------------------------------------------
\* Properties.

BTypeOK == field.set \cap field.unset = {} /\ ops \in 0 .. MaxOps

\* Whatever was set, unset, combined, sliced and stored, a field holds exactly
\* the bits it should, however it is asked: by its ranges, which are not empty
\* and do not touch, bit by bit, by its iterator, its ends, its length, and in
\* comparison with the other field.
FieldIsTheSet ==
    LET rs == ranges(field)
    IN  /\ Flatten(rs) = bits /\ iter(field) = bits
        /\ \A i \in DOMAIN rs : rs[i][1] < rs[i][2] /\ (i > 1 => rs[i - 1][2] < rs[i][1])
        /\ \A b \in Bits \cup bits : get(field, b) <=> b \in bits
        /\ len(field) = Cardinality(bits) /\ (is_empty(field) <=> bits = {})
        /\ first(field) = (IF bits = {} THEN -1 ELSE Min(bits))
        /\ last(field) = (IF bits = {} THEN -1 ELSE Max(bits))
        /\ contains_any(field, other) <=> bits \cap others # {}
        /\ contains_all(field, other) <=> others \subseteq bits

\* rleplus: two fields with the same bits are stored as the same bytes, with
\* whatever calls they were made, and these bytes are accepted and are those
\* bits.
EncodingIsUnique ==
    /\ to_bytes(field) = to_bytes(from_ranges(ranges_from_bits(bits)))
    /\ Accepted(to_bytes(field))
    /\ Flatten(from_bytes(to_bytes(field)).ranges) = bits

\* A bit field is the set of its bits, in memory, stored and read back.
BitFieldIsRight == BTypeOK /\ FieldIsTheSet /\ EncodingIsUnique

=============================================================================
