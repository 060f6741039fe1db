--------------------------- MODULE MCMessagePool ---------------------------
(* Instances of MessagePool and MessageChains for TLC.  In a behaviour one  *)
(* of the two moves, and the other stays where it starts.                   *)
EXTENDS MessagePool

Msg(from, sequence, gas_premium, bls, low) ==
    [from |-> from, sequence |-> sequence, gas_premium |-> gas_premium, bls |-> bls, low |-> low]

a0 == Msg("a", 0, 1, FALSE, FALSE)
a0x == Msg("a", 0, 3, FALSE, FALSE)
a1 == Msg("a", 1, 1, FALSE, TRUE)
b0 == Msg("b", 0, 1, TRUE, FALSE)

MCMessage == {a0, a0x, a1, b0}

\* t1 applies a0, and t2 nothing; u1, on another fork, has a0x in one block and
\* b0 in another.
MCTipset == {"g", "t1", "t2", "u1"}
MCParent == [t1 |-> "g", t2 |-> "t1", u1 |-> "g"]
MCIncluded == [g |-> <<>>, t1 |-> <<<<a0>>>>, t2 |-> <<<<>>>>, u1 |-> <<<<a0x>>, <<b0>>>>]

-----------------------------------------------------------------------------
\* The chains: messages as <<gas_limit, reward>>.

CONSTANTS Sender, Priority, Pools, BLOCK_GAS_LIMIT, MIN_GAS, OnChainGas

Pays == {<<1, -1>>, <<1, 1>>, <<1, 3>>, <<2, 3>>, <<3, 2>>}
Lists(max) == UNION {[1 .. n -> Pays] : n \in 0 .. max}

\* A sender with a list of messages: numbers from gap on are one too high.
Pending(list, balance, gap) ==
    [sequence |-> 1, balance |-> balance,
     msgs |-> {[sequence |-> IF i >= gap THEN i + 1 ELSE i, gas_limit |-> list[i][1],
                reward |-> list[i][2], funds |-> 1] : i \in DOMAIN list}]

No == Pending(<<>>, 0, 9)

\* Chains of two ordinary senders with and without a priority one; a gap, a
\* balance that runs out, a message below the sequence; two priority senders.
MCPools ==
    {[p |-> x, q |-> No, r |-> Pending(y, 3, 9), s |-> Pending(z, 2, 9)] :
        x \in {No, Pending(<<<<2, 1>>>>, 3, 9)}, y \in Lists(3), z \in Lists(1)}
    \cup {[p |-> No, q |-> Pending(x, 1, 9), r |-> Pending(x, 3, 2), s |-> [Pending(x, 3, 9) EXCEPT !.sequence = 2]] :
        x \in Lists(3)}
    \cup {[p |-> Pending(x, 3, 9), q |-> Pending(y, 3, 9), r |-> Pending(<<<<1, 1>>>>, 1, 9), s |-> No] :
        x \in Lists(2), y \in Lists(2)}

OneMessage == [p |-> No, q |-> No, r |-> Pending(<<<<1, 1>>>>, 3, 9), s |-> Pending(<<>>, 2, 9)]

VARIABLES part, input, pc, stage, todo, build, nodes, key_vec, result, gas_limit, last, at

chain_vars == <<input, pc, stage, todo, build, nodes, key_vec, result, gas_limit, last, at>>

Chains == INSTANCE MessageChains

MCInit ==
    /\ part \in {"pool", "chains"}
    /\ Init /\ Chains!Init
    /\ part = "pool" => input = OneMessage
    /\ part = "chains" => reverts

MCNext ==
    /\ UNCHANGED part
    /\ \/ part = "pool" /\ Next /\ UNCHANGED chain_vars
       \/ part = "chains" /\ Chains!Next /\ UNCHANGED vars

\* The pool's tasks go on, as in MessagePool.
MCFairness ==
    LET Pool(A) == part = "pool" /\ A /\ UNCHANGED <<part, chain_vars>>
    IN  /\ WF_vars(Pool(PendingEnd))
        /\ \A c \in Call : WF_vars(Pool(CallStep(c)))
        /\ WF_vars(Pool(ChangeStep))
        /\ WF_vars(Pool(RepubBegin)) /\ WF_vars(Pool(RepubCollect)) /\ WF_vars(Pool(RepubEnd))
        /\ WF_vars(Pool(SelectStep))

MCSpec == MCInit /\ [][MCNext]_<<part, vars, chain_vars>> /\ MCFairness


=============================================================================
