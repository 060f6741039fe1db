------------------------------- MODULE MCSync -------------------------------
(* Instances of RangeSync and PeerManager for TLC.  The two are independent: *)
(* in a behaviour one of them moves, and the other stays where it starts.    *)
EXTENDS RangeSync

\* On a: the local chains l, m and k, and the network's x, {n, o}, p and x, s.
\* The chains of k and of s have null rounds.
MCBlock == {"g", "a", "l", "m", "k", "x", "n", "o", "p", "s"}

MCEpoch == [b \in MCBlock |->
    CASE b = "g" -> 0 [] b = "a" -> 1 [] b \in {"l", "x"} -> 2
      [] b \in {"m", "k", "n", "o"} -> 3 [] b \in {"p", "s"} -> 4]

MCParents == [b \in MCBlock |->
    CASE b = "g" -> {} [] b = "a" -> {"g"} [] b \in {"l", "x", "k"} -> {"a"}
      [] b = "m" -> {"l"} [] b \in {"n", "o", "s"} -> {"x"} [] b = "p" -> {"n", "o"}]

MCTipset == {{b} : b \in MCBlock} \cup {{"n", "o"}}

CONSTANTS Peer, Request, SHUFFLE_PEERS_PREFIX, Duration, MaxLogged, MaxEvents,
          Steady    \* bound: the peers that stay once they are connected

VARIABLES
    part,       \* the part that moves
    full_peers, bad_peers, metrics, avg_global_time, connected, events, greeting, removing, request

peer_vars ==
    <<full_peers, bad_peers, metrics, avg_global_time, connected, events, greeting, removing, request>>

Peers == INSTANCE PeerManager

MCInit ==
    /\ part \in {"range", "peers"}
    /\ Init
    /\ part = "peers" => head = {"m"}
    /\ Peers!Init

MCNext ==
    /\ UNCHANGED part
    /\ \/ part = "range" /\ Next /\ UNCHANGED peer_vars
       \/ part = "peers" /\ Peers!Next /\ UNCHANGED vars /\ Steady \cap connected \subseteq connected'

MCSpec ==
    /\ MCInit
    /\ [][MCNext]_<<part, vars, peer_vars>>
    /\ WF_vars(part = "range" /\ RangeStep /\ UNCHANGED <<part, peer_vars>>)

\* The gauges count the peers, and no late failure brings a bad one back (see
\* PeerManager).
PeersAreTracked == Peers!PeersAreTracked

=============================================================================
