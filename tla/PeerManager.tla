---------------------------- MODULE PeerManager -----------------------------
(***************************************************************************)
(* The peers that a node asks for chain data: PeerManager, the requests of *)
(* SyncNetworkContext, and the tasks that the chain muxer spawns when a    *)
(* peer connects or disconnects.  All of them run concurrently, and every  *)
(* method of the peer manager is atomic under its lock.                    *)
(***************************************************************************)
EXTENDS Integers, FiniteSets, Sequences

CONSTANTS
    Peer,
    Request,                \* the chain exchange requests in flight
    SHUFFLE_PEERS_PREFIX,   \* how many of the best peers are asked (16)
    Duration,               \* response times
    MaxLogged,              \* bound on the successes and failures of a peer
    MaxEvents               \* bound on the p2p events waiting

VARIABLES
    full_peers,         \* peer -> PeerInfo, for the peers in the map
    bad_peers,
    metrics,            \* the gauges FULL_PEERS and BAD_PEERS
    avg_global_time,
    connected,          \* the peers the swarm is connected to
    events,             \* p2p events the muxer has not yet received
    greeting,           \* where the task of a connected event of a peer is
    removing,           \* peers with a task of a disconnected event
    request             \* the state of each request

sets == <<full_peers, bad_peers, metrics>>
net == <<connected, events>>
vars == <<sets, avg_global_time, net, greeting, removing, request>>

PeerInfo == [successes : Nat, failures : Nat, average_time : Nat]
NewPeer == [successes |-> 0, failures |-> 0, average_time |-> 0]

Event == {"connected", "disconnected", "tipset"} \X Peer
Greeting == {"none", "check", "hello"}
NoPeer == "none"

\* `top' are the peers still to be asked, `peer' the one that is asked.
RequestState ==
    [pc : {"idle", "next", "wait", "done", "failed"}, top : SUBSET Peer, peer : Peer \cup {NoPeer}]

IdleRequest == [pc |-> "idle", top |-> {}, peer |-> NoPeer]

TypeOK ==
    /\ DOMAIN full_peers \subseteq Peer
    /\ \A p \in DOMAIN full_peers : full_peers[p] \in PeerInfo
    /\ bad_peers \subseteq Peer
    /\ metrics \in [full : Nat, bad : Nat]
    /\ avg_global_time \in Nat
    /\ connected \subseteq Peer
    /\ events \in Seq(Event)
    /\ greeting \in [Peer -> Greeting]
    /\ removing \subseteq Peer
    /\ request \in [Request -> RequestState]

Init ==
    /\ full_peers = <<>>
    /\ bad_peers = {}
    /\ metrics = [full |-> 0, bad |-> 0]
    /\ avg_global_time = 0
    /\ connected = {}
    /\ events = <<>>
    /\ greeting = [p \in Peer |-> "none"]
    /\ removing = {}
    /\ request = [r \in Request |-> IdleRequest]

-----------------------------------------------------------------------------
(* The methods of PeerManager *)

IsFull(p) == p \in DOMAIN full_peers

With(p, info) ==
    [q \in DOMAIN full_peers \cup {p} |-> IF q = p THEN info ELSE full_peers[q]]

Without(p) == [q \in DOMAIN full_peers \ {p} |-> full_peers[q]]

\* or_default
Info(p) == IF IsFull(p) THEN full_peers[p] ELSE NewPeer

\* A moving average with weight 1/alpha; the first time is taken as it is.
Average(avg, dur, alpha) ==
    CASE avg = 0 -> dur
      [] avg # 0 /\ dur < avg -> avg - (avg - dur) \div alpha
      [] avg # 0 /\ dur >= avg -> avg + (dur - avg) \div alpha

log_time(info, dur) == Average(info.average_time, dur, 5)

update_peer_head(p) ==
    /\ full_peers' = IF IsFull(p) THEN full_peers ELSE With(p, NewPeer)
    /\ metrics' = IF IsFull(p) THEN metrics ELSE [metrics EXCEPT !.full = @ + 1]
    /\ UNCHANGED bad_peers

is_peer_new(p) == p \notin bad_peers /\ ~IsFull(p)

log_success(p, dur) ==
    /\ bad_peers' = bad_peers \ {p}
    /\ metrics' = [full |-> metrics.full + (IF IsFull(p) THEN 0 ELSE 1),
                   bad  |-> metrics.bad - (IF p \in bad_peers THEN 1 ELSE 0)]
    /\ full_peers' = With(p, [Info(p) EXCEPT !.successes = @ + 1, !.average_time = log_time(Info(p), dur)])

\* Mutant: a failure of a bad peer is logged, too.
log_failure_always(p, dur) ==
    /\ metrics' = [metrics EXCEPT !.full = IF IsFull(p) THEN @ ELSE @ + 1]
    /\ full_peers' = With(p, [Info(p) EXCEPT !.failures = @ + 1, !.average_time = log_time(Info(p), dur)])
    /\ UNCHANGED bad_peers

log_failure(p, dur) ==
    IF p \in bad_peers THEN UNCHANGED sets
    ELSE /\ metrics' = [metrics EXCEPT !.full = IF IsFull(p) THEN @ ELSE @ + 1]
         /\ full_peers' = With(p, [Info(p) EXCEPT !.failures = @ + 1,
                                                  !.average_time = log_time(Info(p), dur)])
         /\ UNCHANGED bad_peers

mark_peer_bad(p) ==
    /\ full_peers' = Without(p)
    /\ bad_peers' = bad_peers \cup {p}
    /\ metrics' = [full |-> metrics.full - (IF IsFull(p) THEN 1 ELSE 0),
                   bad  |-> metrics.bad + (IF p \in bad_peers THEN 0 ELSE 1)]

remove_peer(p) ==
    /\ full_peers' = Without(p)
    /\ metrics' = [metrics EXCEPT !.full = IF IsFull(p) THEN @ - 1 ELSE @]
    /\ UNCHANGED bad_peers

-----------------------------------------------------------------------------
(* sorted_peers.  The cost is a floating point number: a failure rate over no
   successes is infinite, and infinity times a zero average is not a number. *)

Cost(p) ==
    LET i == full_peers[p]
    IN  CASE i.successes = 0 /\ i.failures = 0 -> [kind |-> "number", num |-> 9 * avg_global_time, den |-> 10]
          [] i.successes > 0 -> [kind |-> "number", den |-> i.successes,
                                 num |-> i.average_time * i.successes + i.failures * avg_global_time]
          [] i.successes = 0 /\ i.failures > 0 ->
               [kind |-> IF avg_global_time = 0 THEN "nan" ELSE "inf", num |-> 0, den |-> 1]

Cheaper(p, q) ==
    LET c == Cost(p)
        d == Cost(q)
    IN  \/ c.kind = "number" /\ d.kind = "number" /\ c.num * d.den < d.num * c.den
        \/ c.kind = "number" /\ d.kind = "inf"

\* What the sort may return: no peer stands right behind one that costs more.
\* A comparison with "nan" says that both are equal.
SortedPeers ==
    {s \in [1 .. Cardinality(DOMAIN full_peers) -> DOMAIN full_peers] :
        /\ \A i, j \in DOMAIN s : s[i] = s[j] => i = j
        /\ \A i \in DOMAIN s : i + 1 \in DOMAIN s => ~Cheaper(s[i + 1], s[i])}

top_peers_shuffled ==
    {{s[i] : i \in DOMAIN s \cap 1 .. SHUFFLE_PEERS_PREFIX} : s \in SortedPeers}

-----------------------------------------------------------------------------
(* Requests *)

RoomToLog(p) == Info(p).successes + Info(p).failures < MaxLogged

\* handle_chain_exchange_request, without a peer and with one.
StartRequest(r) ==
    /\ request[r].pc = "idle"
    /\ \E top \in top_peers_shuffled :
         request' = [request EXCEPT ![r] = [pc |-> "next", top |-> top, peer |-> NoPeer]]
    /\ UNCHANGED <<sets, avg_global_time, net, greeting, removing>>

StartRequestTo(r, p) ==
    /\ request[r].pc = "idle"
    /\ request' = [request EXCEPT ![r] = [pc |-> "wait", top |-> {}, peer |-> p]]
    /\ UNCHANGED <<sets, avg_global_time, net, greeting, removing>>

\* The next of the shuffled peers; the request fails after the last.
AskNext(r) ==
    /\ request[r].pc = "next"
    /\ \/ \E p \in request[r].top :
             request' = [request EXCEPT ![r].pc = "wait", ![r].top = @ \ {p}, ![r].peer = p]
       \/ /\ request[r].top = {}
          /\ request' = [request EXCEPT ![r] = [IdleRequest EXCEPT !.pc = "failed"]]
    /\ UNCHANGED <<sets, avg_global_time, net, greeting, removing>>

TryNext(r) == request' = [request EXCEPT ![r].pc = "next", ![r].peer = NoPeer]

\* A response, whose status into_result may still refuse.
Answered(r, dur) ==
    LET p == request[r].peer
    IN  /\ request[r].pc = "wait"
        /\ RoomToLog(p)
        /\ log_success(p, dur)
        /\ \/ /\ request' = [request EXCEPT ![r] = [IdleRequest EXCEPT !.pc = "done"]]
              /\ avg_global_time' = Average(avg_global_time, dur, 20)
           \/ /\ TryNext(r)
              /\ UNCHANGED avg_global_time
        /\ UNCHANGED <<net, greeting, removing>>

\* ConnectionClosed, DialFailure, UnsupportedProtocols
ConnectionFailed(r) ==
    /\ request[r].pc = "wait"
    /\ mark_peer_bad(request[r].peer)
    /\ TryNext(r)
    /\ UNCHANGED <<avg_global_time, net, greeting, removing>>

\* The timeout of the request or of the network context, or a dropped sender.
TimedOut(r, dur) ==
    /\ request[r].pc = "wait"
    /\ RoomToLog(request[r].peer)
    /\ log_failure(request[r].peer, dur)
    /\ TryNext(r)
    /\ UNCHANGED <<avg_global_time, net, greeting, removing>>

EndRequest(r) ==
    /\ request[r].pc \in {"done", "failed"}
    /\ request' = [request EXCEPT ![r] = IdleRequest]
    /\ UNCHANGED <<sets, avg_global_time, net, greeting, removing>>

-----------------------------------------------------------------------------
(* Connections.  The swarm reports them in order; the muxer spawns a task for
   each report and goes on. *)

Connect(p) ==
    /\ Len(events) < MaxEvents
    /\ p \notin connected
    /\ connected' = connected \cup {p}
    /\ events' = Append(events, <<"connected", p>>)
    /\ UNCHANGED <<sets, avg_global_time, greeting, removing, request>>

Disconnect(p) ==
    /\ Len(events) < MaxEvents
    /\ p \in connected
    /\ connected' = connected \ {p}
    /\ events' = Append(events, <<"disconnected", p>>)
    /\ UNCHANGED <<sets, avg_global_time, greeting, removing, request>>

\* A hello or a gossiped block whose tipset turns out to be valid.
SendTipset(p) ==
    /\ Len(events) < MaxEvents
    /\ p \in connected
    /\ events' = Append(events, <<"tipset", p>>)
    /\ UNCHANGED <<sets, avg_global_time, connected, greeting, removing, request>>

\* process_gossipsub_event
ReceiveEvent ==
    /\ events # <<>>
    /\ events' = Tail(events)
    /\ LET kind == Head(events)[1]
           p    == Head(events)[2]
       IN  \/ /\ kind = "connected"
              /\ greeting[p] = "none"
              /\ greeting' = [greeting EXCEPT ![p] = "check"]
              /\ UNCHANGED <<sets, removing>>
           \/ /\ kind = "disconnected"
              /\ removing' = removing \cup {p}
              /\ UNCHANGED <<sets, greeting>>
           \/ /\ kind = "tipset"
              /\ update_peer_head(p)
              /\ UNCHANGED <<greeting, removing>>
    /\ UNCHANGED <<avg_global_time, connected, request>>

\* handle_peer_connected_event: only a peer that is new gets a hello.
CheckNew(p) ==
    /\ greeting[p] = "check"
    /\ greeting' = [greeting EXCEPT ![p] = IF is_peer_new(p) THEN "hello" ELSE "none"]
    /\ UNCHANGED <<sets, avg_global_time, net, removing, request>>

HelloAnswer(p, dur) ==
    /\ greeting[p] = "hello"
    /\ RoomToLog(p)
    /\ log_success(p, dur) \/ mark_peer_bad(p) \/ log_failure(p, dur)
    /\ greeting' = [greeting EXCEPT ![p] = "none"]
    /\ UNCHANGED <<avg_global_time, net, removing, request>>

\* handle_peer_disconnected_event
RemovePeer(p) ==
    /\ p \in removing
    /\ remove_peer(p)
    /\ removing' = removing \ {p}
    /\ UNCHANGED <<avg_global_time, net, greeting, request>>

-----------------------------------------------------------------------------
RequestStep(r) ==
    \/ StartRequest(r)
    \/ \E p \in Peer : StartRequestTo(r, p)
    \/ AskNext(r)
    \/ \E dur \in Duration : Answered(r, dur) \/ TimedOut(r, dur)
    \/ ConnectionFailed(r)
    \/ EndRequest(r)

PeerStep(p) ==
    \/ Connect(p)
    \/ Disconnect(p)
    \/ SendTipset(p)
    \/ CheckNew(p)
    \/ \E dur \in Duration : HelloAnswer(p, dur)
    \/ RemovePeer(p)

Next ==
    \/ \E r \in Request : RequestStep(r)
    \/ \E p \in Peer : PeerStep(p)
    \/ ReceiveEvent

Spec == Init /\ [][Next]_vars

-----------------------------------------------------------------------------
(* Properties *)

\* The gauges count the sets, however answers, failures and connection events
\* of a peer interleave.
MetricsCountPeers ==
    /\ metrics.full = Cardinality(DOMAIN full_peers)
    /\ metrics.bad = Cardinality(bad_peers)

\* A peer that was marked bad is used again only after it answered, or sent a
\* tipset of its own: no failure that is logged late brings it back.
BadPeerComesBackByItself ==
    [][\A p \in bad_peers :
         p \in DOMAIN full_peers' \ DOMAIN full_peers =>
            \/ p \notin bad_peers'
            \/ events # <<>> /\ Head(events) = <<"tipset", p>>]_vars

\* The peers are tracked: the gauges count the sets, and a bad peer is used again
\* only by what it does itself.
PeersAreTracked == [](TypeOK /\ MetricsCountPeers) /\ BadPeerComesBackByItself

=============================================================================
