---------------------------- MODULE MCChainStore ----------------------------
(* An instance of ChainStore for TLC. *)
EXTENDS ChainStore

\* A genesis, three blocks on it, two of them by one miner, a child, and a
\* block that fails validation.
MCBlock == {"g", "a", "b", "d", "c", "e"}
MCMiner == {"m1", "m2"}
MCState == {"s"}
MCLog2Power == [s \in MCState |-> 1]

H(e, ps, m, k, w) ==
    [epoch |-> e, parents |-> ps, miner |-> m, state |-> "s",
     ticket |-> k, weight |-> w, wins |-> 1]

MCHeader == [b \in MCBlock |->
    CASE b = "g" -> H(0, {}, "m1", 0, 0)
      [] b = "a" -> H(1, {"g"}, "m1", 2, 300)
      [] b = "b" -> H(1, {"g"}, "m2", 1, 300)
      [] b = "d" -> H(1, {"g"}, "m2", 3, 300)
      [] b = "c" -> H(2, {"a"}, "m1", 4, 600)
      [] b = "e" -> H(2, {"b"}, "m2", 5, 600)]

\* The weights of the instance, worked out once; that they are integers for
\* every instance is a lemma of ChainStoreProofs.
ASSUME WeightsAreIntegers == weight \in [Tipset -> Int]

=============================================================================
