------------------------------- MODULE MCState -------------------------------
(* Instances for TLC of what stands below and around the chain's states: the  *)
(* tries of the state tree in their buffered block store (Hamt, Amt), the     *)
(* state manager's cache of tipset states (TipsetState) and its search for    *)
(* messages (MessageWait), and the key store (KeyStore).  They are            *)
(* independent: in a behaviour one of them moves (part), and the others stay  *)
(* where they start.                                                          *)
EXTENDS Hamt, TipsetState, KeyStore

\* Four keys share six bits of their hashes, three of them nine; the third
\* digit of three bits crosses into the second byte.
MCHash == (1 :> <<161, 64>>) @@ (2 :> <<160, 192>>) @@ (3 :> <<162, 0>>)
          @@ (4 :> <<160, 128>>) @@ (5 :> <<179, 0>>)
Full(S) == {<<k, "a">> : k \in S}
MCMaps == {Full(S) : S \in {{}, {1, 2, 3}, {1, 2, 3, 4}, {1, 2, 3, 4, 5}}}

ArrayMaps == {Full(S) : S \in {{}, {0, 5}, {1, 2, 14}}}

\* The tipset states: a chain with a null round, claims that are right, that
\* name a wrong state, or wrong receipts, and a height in the null round.
StateParent == [g |-> "g", a |-> "g", b |-> "a", c |-> "b"]
StateEpoch == [g |-> 0, a |-> 1, b |-> 2, c |-> 4]
StateClaims ==
    {[height |-> h, state |-> StateParent, receipts |-> StateParent] : h \in {0, 3}} \cup
    {[height |-> 1, state |-> [StateParent EXCEPT !["b"] = "g"], receipts |-> StateParent],
     [height |-> 1, state |-> StateParent, receipts |-> [StateParent EXCEPT !["c"] = "a"]]}

\* The messages: x is in b, and was in c, a fork that lost.
WaitParent == [g |-> "g", a |-> "g", b |-> "a", c |-> "a", d |-> "b", e |-> "d", f |-> "e"]
WaitEpoch == [g |-> 0, a |-> 1, b |-> 2, c |-> 3, d |-> 4, e |-> 5, f |-> 6]
Msg(seq, id) == [seq |-> seq, id |-> id]
WaitMsgs ==
    [g |-> <<>>, a |-> <<Msg(0, "w")>>, b |-> <<Msg(1, "x"), Msg(2, "z")>>,
     c |-> <<Msg(1, "x")>>, d |-> <<Msg(3, "u")>>, e |-> <<>>, f |-> <<>>]
WaitHeads == <<"a", "c", "b", "d", "e", "f">>

CONSTANTS
    WordBits, Indices, Batches,
    Confidences, QueueCap

VARIABLES
    part,       \* the part that moves
    height, count,
    head, queue, confidence, pc, current, search, sent, reverts, candidate, result, receipt

array_vars == <<height, count>>
wait_vars == <<head, queue, confidence, pc, current, search, sent, reverts, candidate, result, receipt>>
all_vars == <<part, hamtVars, array_vars, tsVars, wait_vars, keyVars>>

Array == INSTANCE Amt WITH bit_width <- 1, InitialMaps <- ArrayMaps
Wait == INSTANCE MessageWait WITH Genesis <- "g", ParentOf <- WaitParent, HeightOf <- WaitEpoch,
                                  MsgsOf <- WaitMsgs, target <- Msg(1, "x"), Heads <- WaitHeads

\* What the proofs of TipsetState and KeyStore assume holds of the instance.
ASSUME InstanceAssumption == StateAssumption /\ KeyAssumption

\* A part that does not move starts in one way.
FirstClaim == [height |-> 0, state |-> StateParent, receipts |-> StateParent]

MCInit ==
    /\ part \in {"hamt", "amt", "states", "wait", "keys"}
    /\ IF part = "amt" THEN Array!AInit /\ panicked = FALSE
       ELSE HInit /\ height = 0 /\ count = 0
    /\ part \notin {"hamt", "amt"} => contents = {}
    /\ TInit
    /\ part # "states" => claim = FirstClaim
    /\ Wait!WInit
    /\ part # "wait" => confidence = 0
    /\ KInit
    /\ part # "keys" => ~encrypted

HamtStep(A) == part = "hamt" /\ A /\ UNCHANGED <<part, array_vars, tsVars, wait_vars, keyVars>>
ArrayStep(A) == part = "amt" /\ A /\ UNCHANGED <<part, panicked, tsVars, wait_vars, keyVars>>
StatesStep(A) == part = "states" /\ A /\ UNCHANGED <<part, hamtVars, array_vars, wait_vars, keyVars>>
WaitStep(A) == part = "wait" /\ A /\ UNCHANGED <<part, hamtVars, array_vars, tsVars, keyVars>>
KeysStep(A) == part = "keys" /\ A /\ UNCHANGED <<part, hamtVars, array_vars, tsVars, wait_vars>>

MCNext ==
    \/ HamtStep(HNext)
    \/ ArrayStep(Array!ANext)
    \/ StatesStep(TNext)
    \/ WaitStep(Wait!WNext)
    \/ KeysStep(KNext)

MCSpec == MCInit /\ [][MCNext]_all_vars

\* Every task of the state manager that can go on is run.  Heads, requests and
\* failures come as they come, a bounded number of times; it is then enough
\* that something runs while anything can.
MCFairSpec ==
    /\ MCSpec
    /\ WF_tsVars(StatesStep(Validate \/ \E p \in Tasks : TaskStep(p)))
    /\ WF_wait_vars(WaitStep(Wait!Begin \/ Wait!Search \/ Wait!Poll))

\* The trie is the map the calls made, canonical, and can be read (see Hamt,
\* Amt).
TriesAreSound == IF part = "amt" THEN Array!TrieIsSound ELSE TrieIsSound

\* What a flush wrote is closed and is all of the root (see BufferedStore).
TriesAreDurable == IF part = "amt" THEN Array!StoreIsDurable ELSE StoreIsDurable



=============================================================================
