---------------------------- MODULE MCChainReads ----------------------------
(* Instances of BaseFee and ChainIndex for TLC: what is computed from a chain *)
(* that is stored.  The two are independent: in a behaviour one of them       *)
(* moves, and the other stays where it starts.                                *)
EXTENDS BaseFee

MCMessage == {"m1", "m2", "m3"}
MCGasLimit == [m \in MCMessage |-> CASE m = "m1" -> 3 [] m = "m2" -> 5 [] m = "m3" -> 8]

CONSTANTS Tipset, Genesis, Parent, MaxHeight, SKIP_LENGTH, CacheSize, Lookup,
          Lookback, BeaconChanges, RoundTime, Interval, BeaconAge, EntryLimit,
          First     \* the lookup that asks for either side of a null round

\* A chain of three tipsets on the genesis, and a fork of it at the second.
MCTipset == {"g", "a", "b", "c", "x"}
MCParent ==
    [ts \in MCTipset \ {"g"} |->
        CASE ts = "a" -> "g" [] ts = "b" -> "a" [] ts = "c" -> "b" [] ts = "x" -> "b"]

\* A beacon that is slower than the chain, then one that is faster.
MCInterval == <<4, 1>>
MCBeaconAge == <<4, 1>>

VARIABLES
    part,       \* the part that moves
    heights, skip_cache, lookup

index_vars == <<heights, skip_cache, lookup>>

Index == INSTANCE ChainIndex WITH epoch <- heights, MaxEpoch <- MaxHeight

\* The chain whose fee is computed has no lookups on it, so one assignment of
\* heights is enough there.
FirstHeights == [ts \in Tipset |-> CASE ts = "g" -> 0 [] ts = "a" -> 1 [] ts = "b" -> 2 [] OTHER -> 3]

MCInit ==
    /\ part \in {"fee", "index"}
    /\ Init
    /\ Index!Init
    /\ part = "fee" => heights = FirstHeights

MCNext ==
    /\ UNCHANGED part
    /\ \/ part = "fee" /\ Next /\ UNCHANGED index_vars
       \/ /\ part = "index" /\ Index!Next /\ UNCHANGED vars
          /\ \A l \in Lookup \ {First} : lookup'[l] = Index!Idle \/ lookup'[l].prev

MCSpec == MCInit /\ [][MCNext]_<<part, vars, index_vars>>

\* The chain goes on growing, and the future of a lookup is polled until it is
\* done.
MCFairSpec ==
    /\ MCSpec
    /\ WF_vars(part = "fee" /\ Next /\ UNCHANGED <<part, index_vars>>)
    /\ \A l \in Lookup : WF_index_vars(part = "index" /\ Index!Run(l) /\ UNCHANGED <<part, vars>>)

\* When tipsets stay empty the fee falls all the way to the minimum (see
\* BaseFee): where the fee moves at all.
FeeFalls == part = "fee" => FeeFallsToMinimum

\* The callers of the chain index get what the chain without its cache would
\* tell them (see ChainIndex).
ReadsAreRight == Index!ReadsAreRight

\* Every lookup comes to an answer (see ChainIndex).
LookupEnds == Index!LookupEnds

=============================================================================
