---------------------------- MODULE MCChainMuxer ----------------------------
(* An instance of ChainMuxer for TLC. *)
EXTENDS ChainMuxer

\* The head g, two tipsets of one epoch on it, a lighter fork c two epochs up,
\* and the network's head f, on a third chain.
MCTipset == {"g", "a", "b", "c", "f"}
MCEpoch == [ts \in MCTipset |-> CASE ts = "g" -> 0 [] ts \in {"a", "b"} -> 1 [] ts \in {"c", "f"} -> 2]
MCParents == [ts \in MCTipset |->
    CASE ts = "g" -> {} [] ts \in {"a", "b"} -> {"g"} [] ts = "c" -> {"y"} [] ts = "f" -> {"x"}]
MCHeaderWeight == [ts \in MCTipset |->
    CASE ts = "g" -> 0 [] ts = "c" -> 1 [] ts \in {"a", "b"} -> 2 [] ts = "f" -> 3]
MCChainWeight == [ts \in MCTipset |->
    CASE ts = "g" -> 1 [] ts = "c" -> 2 [] ts = "a" -> 3 [] ts = "b" -> 4 [] ts = "f" -> 5]

=============================================================================
