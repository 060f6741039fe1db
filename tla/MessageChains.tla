--------------------------- MODULE MessageChains ---------------------------
(***************************************************************************)
(* Greedy message selection (message_pool/src/msg_chain.rs and             *)
(* msgpool/selection.rs): the pending messages of a sender become a list   *)
(* of chains, and a block is filled from the chains that pay best per unit *)
(* of gas, those of the priority senders first.  gas_perf is the quotient  *)
(* of gas_reward and gas_limit; it is compared exactly.                    *)
(***************************************************************************)
EXTENDS Integers, Sequences, FiniteSets, SequencesExt, FiniteSetsExt

CONSTANTS
    Sender, Priority,
    Pools,              \* the pools to select from: sets of functions on Sender
                        \* to [sequence, balance, msgs], the state of the sender
                        \* and its messages [sequence, gas_limit, reward, funds]
    BLOCK_GAS_LIMIT, MIN_GAS,
    OnChainGas          \* the gas that putting a message on chain costs

VARIABLES
    input,
    pc,                 \* "create", "build", "sort", "merge", "tail", "scan", "panic", "done"
    stage,              \* whose chains: "priority" or "rest"
    todo,               \* the senders whose chains are not made yet
    build,              \* node_vec of the sender at work: [sender, chain]
    nodes,              \* Chains::map, on the keys <<sender, position>>
    key_vec,
    result,             \* the messages selected, as [sender, sequence]
    gas_limit,
    last,               \* the index of the chain that did not fit
    at                  \* the index of the loop over the chains from last on

vars == <<input, pc, stage, todo, build, nodes, key_vec, result, gas_limit, last, at>>

-----------------------------------------------------------------------------
\* create_message_chains

SortedMsgs(s) == SetToSortSeq(input[s].msgs, LAMBDA a, b : a.sequence < b.sequence)

SumTo(f(_), n) == FoldFunction(+, 0, [i \in 1 .. n |-> f(i)])

\* The messages that can be included: no gap from the sender's sequence on,
\* enough gas each, no more gas than a block has, and covered by the balance.
Usable(s) ==
    LET msgs == SelectSeq(SortedMsgs(s), LAMBDA m : m.sequence >= input[s].sequence)
        Fits(i) ==
            /\ msgs[i].sequence = input[s].sequence + i - 1
            /\ msgs[i].gas_limit >= OnChainGas
            /\ SumTo(LAMBDA j : msgs[j].gas_limit, i) <= BLOCK_GAS_LIMIT
            /\ input[s].balance - SumTo(LAMBDA j : msgs[j].funds, i - 1) >= msgs[i].funds
    IN  SubSeq(msgs, 1, Max({n \in 0 .. Len(msgs) : \A i \in 1 .. n : Fits(i)}))

NewChain(m) == [msgs |-> <<m>>, gas_reward |-> m.reward, gas_limit |-> m.gas_limit, valid |-> TRUE]

Join(a, b) == [a EXCEPT !.msgs = @ \o b.msgs, !.gas_reward = @ + b.gas_reward, !.gas_limit = @ + b.gas_limit]

\* a.gas_perf < b.gas_perf; a chain trimmed to nothing has gas_perf 0.
PerfLess(a, b) ==
    LET Limit(c) == IF c.gas_limit > 0 THEN c.gas_limit ELSE 1
        Reward(c) == IF c.gas_limit > 0 THEN c.gas_reward ELSE 0
    IN  Reward(a) * Limit(b) < Reward(b) * Limit(a)

Negative(c) == c.gas_limit > 0 /\ c.gas_reward < 0

\* A message that would lower the gas_perf of the chain starts another one.
Chunks(msgs) ==
    FoldLeft(LAMBDA chain, m :
                 IF chain # <<>> /\ ~PerfLess(Join(Last(chain), NewChain(m)), Last(chain))
                 THEN [chain EXCEPT ![Len(chain)] = Join(@, NewChain(m))]
                 ELSE Append(chain, NewChain(m)),
             <<>>, msgs)

CreateChains(s) ==
    /\ pc = "create" /\ s \in todo
    /\ todo' = todo \ {s}
    /\ IF Usable(s) = <<>> THEN UNCHANGED <<pc, build>>
       ELSE pc' = "build" /\ build' = [sender |-> s, chain |-> Chunks(Usable(s))]
    /\ UNCHANGED <<input, stage, nodes, key_vec, result, gas_limit, last, at>>


MergesInto(b, a) == ~PerfLess(b, a)

\* One turn of the loop over node_vec, from its end: a chain goes into the one
\* before it when it pays no less.
MergePass(chain) ==
    SelectSeq(
        FoldLeft(LAMBDA ns, k :
                     LET i == Len(ns) + 1 - k
                     IN  IF MergesInto(ns[i], ns[i - 1])
                         THEN [ns EXCEPT ![i - 1] = Join(@, ns[i]), ![i].valid = FALSE]
                         ELSE ns,
                 chain, [k \in 1 .. Len(chain) - 1 |-> k]),
        LAMBDA n : n.valid)

MergeChains ==
    /\ pc = "build" /\ MergePass(build.chain) # build.chain
    /\ build' = [build EXCEPT !.chain = MergePass(@)]
    /\ UNCHANGED <<input, pc, stage, todo, nodes, key_vec, result, gas_limit, last, at>>

LinkChains ==
    /\ pc = "build" /\ MergePass(build.chain) = build.chain
    /\ LET keys == {build.sender} \X (1 .. Len(build.chain))
       IN  nodes' = [k \in DOMAIN nodes \cup keys |-> IF k \in keys THEN build.chain[k[2]] ELSE nodes[k]]
    /\ key_vec' = key_vec \o [i \in 1 .. Len(build.chain) |-> <<build.sender, i>>]
    /\ pc' = "create"
    /\ UNCHANGED <<input, stage, todo, build, result, gas_limit, last, at>>

-----------------------------------------------------------------------------
\* merge_and_trim.  Indices into key_vec start at 1 here.

\* MsgChainNode::compare is Greater.
Greater(a, b) == PerfLess(b, a) \/ (~PerfLess(a, b) /\ a.gas_reward > b.gas_reward)

Perms(s) == {p \in [DOMAIN s -> ToSet(s)] : ToSet(p) = ToSet(s)}

Sorted(p) == \A i \in 1 .. Len(p) - 1 : ~Greater(nodes[p[i + 1]], nodes[p[i]])

ToRest(res, gas) ==
    /\ stage' = "rest" /\ pc' = "create"
    /\ todo' = Sender \ Priority
    /\ nodes' = <<>> /\ key_vec' = <<>>
    /\ result' = res /\ gas_limit' = gas
    /\ UNCHANGED <<last, at>>

Finish(res, gas) ==
    \/ stage = "priority" /\ gas >= MIN_GAS /\ ToRest(res, gas)
    \/ /\ stage = "rest" \/ gas < MIN_GAS
       /\ pc' = "done"
       /\ result' = res /\ gas_limit' = gas
       /\ UNCHANGED <<stage, todo, nodes, key_vec, last, at>>

\* Chains that compare equal come in any order.  Without any chain the priority
\* stage is left out, and the other one indexes an empty vector.
SortChains ==
    /\ pc = "create" /\ todo = {}
    /\ \/ key_vec = <<>> /\ stage = "priority" /\ ToRest(<<>>, BLOCK_GAS_LIMIT)
       \/ /\ key_vec = <<>> /\ stage = "rest"
          /\ pc' = "panic"
          /\ UNCHANGED <<stage, todo, nodes, key_vec, result, gas_limit, last, at>>
       \/ /\ key_vec # <<>>
          /\ \E p \in Perms(key_vec) :
               /\ Sorted(p)
               /\ \/ Negative(nodes[p[1]]) /\ Finish(<<>>, gas_limit)
                  \/ /\ ~Negative(nodes[p[1]])
                     /\ key_vec' = p /\ pc' = "merge" /\ last' = 1
                     /\ UNCHANGED <<stage, todo, nodes, result, gas_limit, at>>
    /\ UNCHANGED <<input, build>>

Slots(k) == [i \in 1 .. Len(nodes[k].msgs) |-> [sender |-> k[1], sequence |-> nodes[k].msgs[i].sequence]]

FitsInBlock(node) == node.gas_limit <= gas_limit

\* The chains that fit, as long as they pay.
MergeNext ==
    /\ pc = "merge"
    /\ UNCHANGED <<input, build>>
    /\ \/ /\ last <= Len(key_vec) => Negative(nodes[key_vec[last]])
          /\ Finish(result, gas_limit)
       \/ /\ last <= Len(key_vec)
          /\ LET node == nodes[key_vec[last]]
             IN  /\ ~Negative(node)
                 /\ IF FitsInBlock(node)
                    THEN /\ gas_limit' = gas_limit - node.gas_limit
                         /\ result' = result \o Slots(key_vec[last])
                         /\ last' = last + 1
                         /\ UNCHANGED pc
                    ELSE pc' = "tail" /\ UNCHANGED <<gas_limit, result, last>>
          /\ UNCHANGED <<stage, todo, nodes, key_vec, at>>

\* trim_msgs_at: messages leave the chain from its end until it fits and pays.
\* What is left of msgs is what follows the messages that fit, and the later
\* chains of the sender become invalid.  Nothing is trimmed at the first index.
Trimmed(idx, gas) ==
    LET k == key_vec[idx]
        node == nodes[k]
        len == Len(node.msgs)
        Keep(n) == [gas_limit |-> node.gas_limit - SumTo(LAMBDA j : node.msgs[n + j].gas_limit, len - n),
                    gas_reward |-> node.gas_reward - SumTo(LAMBDA j : node.msgs[n + j].reward, len - n)]
        n == Max({0} \cup {j \in 1 .. len : Keep(j).gas_limit <= gas /\ ~Negative(Keep(j))})
    IN  IF idx = 1 THEN nodes
        ELSE [x \in DOMAIN nodes |->
                IF x = k
                THEN [msgs |-> IF n = 0 THEN <<>> ELSE SubSeq(node.msgs, n + 1, len),
                      gas_limit |-> Keep(n).gas_limit, gas_reward |-> Keep(n).gas_reward, valid |-> node.valid /\ n > 0]
                ELSE IF x[1] = k[1] /\ x[2] > k[2] THEN [nodes[x] EXCEPT !.valid = FALSE, !.msgs = <<>>]
                ELSE nodes[x]]

\* The trimmed chain goes down to where the next one is less.
PushedDown(idx, ns) ==
    LET to == Min({j \in idx .. Len(key_vec) : j = Len(key_vec) \/ Greater(ns[key_vec[idx]], ns[key_vec[j + 1]])})
    IN  [j \in DOMAIN key_vec |->
            IF j < idx \/ j > to THEN key_vec[j] ELSE IF j = to THEN key_vec[idx] ELSE key_vec[j + 1]]

TrimLast ==
    /\ pc = "tail"
    /\ UNCHANGED <<input, build>>
    /\ \/ (gas_limit < MIN_GAS \/ last > Len(key_vec)) /\ Finish(result, gas_limit)
       \/ /\ gas_limit >= MIN_GAS /\ last <= Len(key_vec)
          /\ nodes' = Trimmed(last, gas_limit)
          /\ key_vec' = IF nodes'[key_vec[last]].valid THEN PushedDown(last, nodes') ELSE key_vec
          /\ pc' = "scan" /\ at' = last
          /\ UNCHANGED <<stage, todo, result, gas_limit, last>>

\* The next valid chain from last on: it is taken if it fits, and else it is the
\* next one to trim, at an index that the code adds to last.
ScanNext ==
    /\ pc = "scan"
    /\ UNCHANGED <<input, build>>
    /\ \/ at > Len(key_vec) /\ Finish(result, gas_limit)
       \/ /\ at <= Len(key_vec)
          /\ LET k == key_vec[at]
                 node == nodes[k]
             IN  \/ node.valid /\ Negative(node) /\ Finish(result, gas_limit)
                 \/ /\ ~node.valid
                    /\ at' = at + 1
                    /\ UNCHANGED <<pc, stage, todo, nodes, key_vec, result, gas_limit, last>>
                 \/ /\ node.valid /\ ~Negative(node) /\ FitsInBlock(node)
                    /\ gas_limit' = gas_limit - node.gas_limit
                    /\ result' = result \o Slots(k)
                    /\ nodes' = [nodes EXCEPT ![k].msgs = <<>>]
                    /\ at' = at + 1
                    /\ UNCHANGED <<pc, stage, todo, key_vec, last>>
                 \/ /\ node.valid /\ ~Negative(node) /\ ~FitsInBlock(node)
                    /\ last' = last + at - 1
                    /\ pc' = "tail"
                    /\ UNCHANGED <<stage, todo, nodes, key_vec, result, gas_limit, at>>

-----------------------------------------------------------------------------

Init ==
    /\ input \in Pools
    /\ pc = "create" /\ stage = "priority"
    /\ todo = Priority
    /\ build = [sender |-> CHOOSE s \in Sender : TRUE, chain |-> <<>>]
    /\ nodes = <<>> /\ key_vec = <<>> /\ result = <<>>
    /\ gas_limit = BLOCK_GAS_LIMIT
    /\ last = 1 /\ at = 1

Next ==
    \/ \E s \in Sender : CreateChains(s)
    \/ MergeChains \/ LinkChains \/ SortChains \/ MergeNext \/ TrimLast \/ ScanNext

Spec == Init /\ [][Next]_vars

-----------------------------------------------------------------------------

Average(msgs, i, j) ==
    [gas_limit |-> SumTo(LAMBDA k : msgs[i + k - 1].gas_limit, j - i + 1),
     gas_reward |-> SumTo(LAMBDA k : msgs[i + k - 1].reward, j - i + 1)]

\* The chains create_message_chains ends with are the ones a miner can take in
\* order with most profit: they divide the usable messages, and each one is the
\* longest of the runs from its first message on that pay best per unit of gas.
ChainsPayBest ==
    pc = "build" /\ MergePass(build.chain) = build.chain =>
        LET msgs == Usable(build.sender)
            First(c) == 1 + SumTo(LAMBDA k : Len(build.chain[k].msgs), c - 1)
        IN  /\ FlattenSeq([c \in DOMAIN build.chain |-> build.chain[c].msgs]) = msgs
            /\ \A c \in DOMAIN build.chain :
                 LET end == First(c) + Len(build.chain[c].msgs) - 1
                     best == Average(msgs, First(c), end)
                 IN  \A j \in First(c) .. Len(msgs) :
                        LET other == Average(msgs, First(c), j)
                        IN  ~PerfLess(best, other) /\ (j > end => PerfLess(other, best))

\* Of each sender, the messages picked so far, in the order they were picked.
Picked(s) == LET own == SelectSeq(result, LAMBDA m : m.sender = s)
             IN  [i \in DOMAIN own |-> own[i].sequence]

\* As long as chains fit, the block is sound: of every sender it has the messages
\* from the sender's sequence on, in order and without a gap.
BlockIsSound ==
    pc \in {"sort", "merge"} =>
        \A s \in Sender \ (IF stage = "rest" THEN Priority ELSE {}) :
            Picked(s) = [i \in 1 .. Len(Picked(s)) |-> input[s].sequence + i - 1]

\* No message is picked twice, and the gas the picked chains count as theirs is
\* within the block's.
NothingTwice ==
    /\ IsInjective(result)
    /\ gas_limit \in 0 .. BLOCK_GAS_LIMIT


=============================================================================
