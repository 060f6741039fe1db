---------------------------- MODULE HeadChanges -----------------------------
(***************************************************************************)
(* Subscriptions to head changes: ChainStore::sub_head_changes and         *)
(* next_head_change, and the websocket task that streams the changes to    *)
(* a client (ChainNotify in node/rpc).  Every subscriber has a thread of   *)
(* its own; heads are numbered in the order in which they are set, and a   *)
(* head change is the number of the head it carries.                       *)
(***************************************************************************)
EXTENDS Integers, Sequences

CONSTANTS
    Subscriber,     \* the websocket tasks
    ChannelCap,     \* capacity of a subscriber's channel (16)
    SINK_CAP,       \* head changes the publisher retains (200)
    MaxHead,        \* bound on the heads set
    Closers         \* the clients that may go away

ASSUME HeadChangesAssumption ==
    /\ ChannelCap \in Nat \ {0}
    /\ SINK_CAP \in Nat \ {0}
    /\ MaxHead \in Nat
    /\ Closers \subseteq Subscriber

VARIABLES
    heaviest,       \* the number of the head
    published,      \* the last head change that was published
    subscriptions_count,
    subscriptions,  \* id -> the subscriber whose receiver it holds, if any
    caller,         \* the call of sub_head_changes and the task it spawns
    channel,        \* the head changes in each subscriber's channel
    reader          \* the streaming loop of each subscriber

vars == <<heaviest, published, subscriptions_count, subscriptions, caller, channel, reader>>

HeadNumber == 0 .. MaxHead
Id == Nat \ {0}
NoOne == "none"

\* `next' is the position of the subscriber in the publisher, `change' the one
\* its task is about to send and `sent' the last one that it sent.
Caller == [pc : {"start", "subscribed", "loaded", "counted", "inserted",
                 "receive", "send", "ended", "panicked"},
           id : Nat, next : 1 .. MaxHead + 1, change : HeadNumber, sent : HeadNumber]

\* `rx' is the receiver that next_head_change waits on, `got' the newest head
\* that the client was told of.
Reader == [pc : {"wait", "loop", "recv", "closed", "panicked"},
           rx : Subscriber \cup {NoOne}, got : HeadNumber]

TypeOK ==
    /\ heaviest \in HeadNumber
    /\ published \in {heaviest, heaviest - 1} \cap HeadNumber
    /\ subscriptions_count \in Nat
    /\ DOMAIN subscriptions \subseteq Id
    /\ \A id \in DOMAIN subscriptions : subscriptions[id] \in Subscriber \cup {NoOne}
    /\ caller \in [Subscriber -> Caller]
    /\ channel \in [Subscriber -> Seq(HeadNumber)]
    /\ \A s \in Subscriber : Len(channel[s]) <= ChannelCap
    /\ reader \in [Subscriber -> Reader]

Init ==
    /\ heaviest = 0
    /\ published = 0
    /\ subscriptions_count = 0
    /\ subscriptions = <<>>
    /\ caller = [s \in Subscriber |-> [pc |-> "start", id |-> 0, next |-> 1, change |-> 0, sent |-> 0]]
    /\ channel = [s \in Subscriber |-> <<>>]
    /\ reader = [s \in Subscriber |-> [pc |-> "wait", rx |-> NoOne, got |-> 0]]

-----------------------------------------------------------------------------
(* set_heaviest_tipset: the head is set and then published, without waiting
   for any subscriber. *)
SetHead ==
    /\ heaviest < MaxHead
    /\ published = heaviest
    /\ heaviest' = heaviest + 1
    /\ UNCHANGED <<published, subscriptions_count, subscriptions, caller, channel, reader>>

Publish ==
    /\ published < heaviest
    /\ published' = heaviest
    /\ UNCHANGED <<heaviest, subscriptions_count, subscriptions, caller, channel, reader>>

-----------------------------------------------------------------------------
(* sub_head_changes *)

\* A receiver is dropped once no id leads to it and no reader waits on it.
Dropped(s) ==
    /\ \A id \in DOMAIN subscriptions : subscriptions[id] # s
    /\ \A r \in Subscriber : reader[r].rx # s

Insert(id, s) ==
    subscriptions' = [i \in DOMAIN subscriptions \cup {id} |->
                        IF i = id THEN s ELSE subscriptions[i]]

Subscribe(s) ==
    /\ caller[s].pc = "start"
    /\ caller' = [caller EXCEPT ![s].pc = "subscribed", ![s].next = published + 1]
    /\ UNCHANGED <<heaviest, published, subscriptions_count, subscriptions, channel, reader>>

\* The id comes from a load ...
LoadCount(s) ==
    /\ caller[s].pc = "subscribed"
    /\ caller' = [caller EXCEPT ![s].pc = "loaded", ![s].id = subscriptions_count + 1]
    /\ UNCHANGED <<heaviest, published, subscriptions_count, subscriptions, channel, reader>>

\* ... and the count is incremented afterwards.
FetchAdd(s) ==
    /\ caller[s].pc = "loaded"
    /\ subscriptions_count' = subscriptions_count + 1
    /\ caller' = [caller EXCEPT ![s].pc = "counted"]
    /\ UNCHANGED <<heaviest, published, subscriptions, channel, reader>>

InsertReceiver(s) ==
    /\ caller[s].pc = "counted"
    /\ Insert(caller[s].id, s)
    /\ caller' = [caller EXCEPT ![s].pc = "inserted"]
    /\ UNCHANGED <<heaviest, published, subscriptions_count, channel, reader>>

\* The current head is the first event; the send must not fail.  The id goes
\* back to the client, and a task forwards what follows.
SendCurrent(s) ==
    /\ caller[s].pc = "inserted"
    /\ \/ /\ Dropped(s)
          /\ caller' = [caller EXCEPT ![s].pc = "panicked"]
          /\ UNCHANGED <<channel, reader>>
       \/ /\ ~Dropped(s)
          /\ channel' = [channel EXCEPT ![s] = Append(@, heaviest)]
          /\ caller' = [caller EXCEPT ![s].pc = "receive", ![s].sent = heaviest]
          /\ reader' = [reader EXCEPT ![s].pc = "loop"]
    /\ UNCHANGED <<heaviest, published, subscriptions_count, subscriptions>>

-----------------------------------------------------------------------------
(* The forwarding task *)

Lagged(s) == caller[s].next + SINK_CAP <= published

ReceiveChange(s) ==
    /\ caller[s].pc = "receive"
    /\ caller[s].next <= published
    /\ ~Lagged(s)
    /\ caller' = [caller EXCEPT ![s].pc = "send", ![s].change = caller[s].next,
                                ![s].next = @ + 1]
    /\ UNCHANGED <<heaviest, published, subscriptions_count, subscriptions, channel, reader>>

\* Mutant: the task ends when it lags.
SkipLaggedEnds(s) ==
    /\ caller[s].pc = "receive"
    /\ Lagged(s)
    /\ caller' = [caller EXCEPT ![s].pc = "ended"]
    /\ UNCHANGED <<heaviest, published, subscriptions_count, subscriptions, channel, reader>>

\* RecvError::Lagged: the subscriber goes on with the oldest change retained.
SkipLagged(s) ==
    /\ caller[s].pc = "receive"
    /\ Lagged(s)
    /\ caller' = [caller EXCEPT ![s].next = published - SINK_CAP + 1]
    /\ UNCHANGED <<heaviest, published, subscriptions_count, subscriptions, channel, reader>>

\* Mutant: a change that finds the channel full is dropped.
ForwardChangeTrySend(s) ==
    /\ caller[s].pc = "send"
    /\ ~Dropped(s)
    /\ \/ /\ Len(channel[s]) < ChannelCap
          /\ channel' = [channel EXCEPT ![s] = Append(@, caller[s].change)]
          /\ caller' = [caller EXCEPT ![s].pc = "receive", ![s].sent = caller[s].change]
       \/ /\ Len(channel[s]) = ChannelCap
          /\ caller' = [caller EXCEPT ![s].pc = "receive"]
          /\ UNCHANGED channel
    /\ UNCHANGED <<heaviest, published, subscriptions_count, subscriptions, reader>>

\* tx.send waits while the channel is full, and fails once its receiver is
\* dropped: the task then writes None under its id and ends.
ForwardChange(s) ==
    /\ caller[s].pc = "send"
    /\ \/ /\ Dropped(s)
          /\ Insert(caller[s].id, NoOne)
          /\ caller' = [caller EXCEPT ![s].pc = "ended"]
          /\ UNCHANGED channel
       \/ /\ ~Dropped(s)
          /\ Len(channel[s]) < ChannelCap
          /\ channel' = [channel EXCEPT ![s] = Append(@, caller[s].change)]
          /\ caller' = [caller EXCEPT ![s].pc = "receive", ![s].sent = caller[s].change]
          /\ UNCHANGED subscriptions
    /\ UNCHANGED <<heaviest, published, subscriptions_count, reader>>

-----------------------------------------------------------------------------
(* The streaming loop: chain_notify calls next_head_change again and again. *)

\* next_head_change without a receiver is None, which chain_notify unwraps.
NextHeadChange(s) ==
    /\ reader[s].pc = "loop"
    /\ LET rx == subscriptions[caller[s].id]
       IN  reader' = [reader EXCEPT ![s] =
                        IF rx = NoOne THEN [@ EXCEPT !.pc = "panicked"]
                                      ELSE [@ EXCEPT !.pc = "recv", !.rx = rx]]
    /\ UNCHANGED <<heaviest, published, subscriptions_count, subscriptions, caller, channel>>

\* The receiver answers, or fails when its channel is closed and empty.
RecvChange(s) ==
    /\ reader[s].pc = "recv"
    /\ LET rx == reader[s].rx
       IN  \/ /\ channel[rx] # <<>>
              /\ channel' = [channel EXCEPT ![rx] = Tail(@)]
              /\ reader' = [reader EXCEPT ![s].pc = "loop", ![s].rx = NoOne,
                                          ![s].got = Head(channel[rx])]
           \/ /\ channel[rx] = <<>>
              /\ caller[rx].pc \in {"ended", "panicked"}
              /\ reader' = [reader EXCEPT ![s].pc = "panicked", ![s].rx = NoOne]
              /\ UNCHANGED channel
    /\ UNCHANGED <<heaviest, published, subscriptions_count, subscriptions, caller>>

\* The client is gone: the next send on its socket fails and the loop ends.
CloseSocket(s) ==
    /\ s \in Closers
    /\ reader[s].pc = "loop"
    /\ reader' = [reader EXCEPT ![s].pc = "closed"]
    /\ UNCHANGED <<heaviest, published, subscriptions_count, subscriptions, caller, channel>>

-----------------------------------------------------------------------------
SubHeadChanges(s) ==
    \/ Subscribe(s)
    \/ LoadCount(s)
    \/ FetchAdd(s)
    \/ InsertReceiver(s)
    \/ SendCurrent(s)

Forward(s) ==
    \/ ReceiveChange(s)
    \/ SkipLagged(s)
    \/ ForwardChange(s)

Stream(s) == NextHeadChange(s) \/ RecvChange(s)

Next ==
    \/ SetHead
    \/ Publish
    \/ \E s \in Subscriber :
          \/ SubHeadChanges(s)
          \/ Forward(s)
          \/ Stream(s)
          \/ CloseSocket(s)

Spec == Init /\ [][Next]_vars

\* Every task that can go on is run; heads need not change.
FairSpec ==
    /\ Spec
    /\ WF_vars(Publish)
    /\ \A s \in Subscriber :
         /\ WF_vars(SubHeadChanges(s))
         /\ WF_vars(Forward(s))
         /\ WF_vars(Stream(s))

-----------------------------------------------------------------------------
(* Properties *)

\* No head change is lost between the current head and the first change that
\* is forwarded, nor between two that are: a task only skips what it lagged
\* behind by more than the publisher retains.
NoChangeLost ==
    \A s \in Subscriber :
        caller[s].pc = "send" =>
            \/ caller[s].change <= caller[s].sent + 1
            \/ caller[s].sent + 1 + SINK_CAP <= published

\* A client that stays and shares its id with no other is told of the last
\* head, however far its task or its socket lagged behind.
ToldOfLastHead ==
    \A s \in Subscriber :
        <>[](/\ reader[s].pc \notin {"wait", "closed"}
             /\ \A r \in Subscriber \ {s} : caller[r].id # caller[s].id)
          => <>[](reader[s].got = heaviest)

\* The channels keep to their bounds and no change between two that are
\* forwarded is lost, however slowly a client reads.
ForwardingIsSound == TypeOK /\ NoChangeLost

=============================================================================
