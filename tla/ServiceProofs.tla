---------------------------- MODULE ServiceProofs ----------------------------
(***************************************************************************)
(* Proofs about what the node serves.  A subscription to head changes      *)
(* (HeadChanges) loses none between the head it starts with and the        *)
(* changes it forwards, for every number of subscribers, every capacity    *)
(* and every order in which the publisher, the calls of sub_head_changes,  *)
(* the forwarding tasks and the streaming loops take their steps.  The key *)
(* store (KeyStore) keeps the keys of the wallet through every             *)
(* interleaving of calls, flushes, errors and crashes.                     *)
(***************************************************************************)
EXTENDS HeadChanges, KeyStore, SequenceTheorems, TLAPS

-----------------------------------------------------------------------------
(* The subscriptions to head changes *)

\* sub_head_changes has not sent the current head yet.
Before == {"start", "subscribed", "loaded", "counted", "inserted", "panicked"}

\* The ids that calls and streaming loops use lead somewhere.
IdsAreKnown ==
    \A s \in Subscriber :
        /\ caller[s].pc \notin {"start", "subscribed"} => caller[s].id \in Id
        /\ caller[s].pc \in {"inserted", "receive", "send", "ended"}
             => caller[s].id \in DOMAIN subscriptions
        /\ reader[s].pc # "wait" => caller[s].pc \in {"receive", "send", "ended"}
        /\ reader[s].pc = "recv" => reader[s].rx \in Subscriber

\* A channel is empty until the current head is sent.
ChannelsStartEmpty ==
    \A s \in Subscriber : caller[s].pc \in Before => channel[s] = <<>>

\* No task is ahead of the publisher, and what lies between the last change it
\* sent and the next one it receives is nothing, or is what it lagged behind by.
NoGap(sent, next) == next <= sent + 1 \/ sent + 1 + SINK_CAP <= published

TasksFollow ==
    \A s \in Subscriber :
        /\ caller[s].next <= published + 1
        /\ caller[s].pc = "receive" => NoGap(caller[s].sent, caller[s].next)
        /\ caller[s].pc = "send" =>
             /\ NoGap(caller[s].sent, caller[s].change)
             /\ caller[s].next = caller[s].change + 1

\* The inductive invariant.
IInv == TypeOK /\ IdsAreKnown /\ ChannelsStartEmpty /\ TasksFollow

\* Nobody has subscribed in the beginning.
LEMMA InitIInv == Init => IInv
<1> SUFFICES ASSUME Init PROVE IInv
  OBVIOUS
<1> USE HeadChangesAssumption
<1>1. DOMAIN subscriptions = {}
  BY DEF Init
<1>2. TypeOK
  <2>1. <<>> \in Seq(HeadNumber) /\ Len(<<>>) = 0
    OBVIOUS
  <2> QED
    BY <1>1, <2>1 DEF Init, TypeOK, HeadNumber, Caller, Reader, NoOne
<1> QED
  BY <1>1, <1>2 DEF Init, IInv, IdsAreKnown, ChannelsStartEmpty, TasksFollow, NoGap, Before

-----------------------------------------------------------------------------
(* What steps do to a call or task: the one that is taken changes the record of
   one caller, or that of one reader. *)

\* The fields of a caller.
LEMMA CallerFields ==
    ASSUME NEW c \in Caller
    PROVE  /\ c.pc \in {"start", "subscribed", "loaded", "counted", "inserted",
                        "receive", "send", "ended", "panicked"}
           /\ c.id \in Nat
           /\ c.next \in Nat \ {0} /\ c.next <= MaxHead + 1
           /\ c.change \in Nat /\ c.sent \in Nat
           /\ c.change \in HeadNumber /\ c.sent \in HeadNumber
<1>1. c.next \in 1 .. MaxHead + 1 /\ c.change \in HeadNumber /\ c.sent \in HeadNumber
  BY DEF Caller
<1> QED
  BY <1>1, HeadChangesAssumption DEF Caller, HeadNumber

\* A step that changes one caller.
LEMMA OneCaller ==
    ASSUME IInv, NEW s \in Subscriber, NEW c \in Caller, caller' = [caller EXCEPT ![s] = c]
    PROVE  /\ caller' \in [Subscriber -> Caller]
           /\ \A r \in Subscriber \ {s} : caller'[r] = caller[r]
           /\ caller'[s] = c
<1>1. caller \in [Subscriber -> Caller]
  BY DEF IInv, TypeOK
<1> QED
  BY <1>1

\* A step that changes one reader.
LEMMA OneReader ==
    ASSUME IInv, NEW s \in Subscriber, NEW c \in Reader, reader' = [reader EXCEPT ![s] = c]
    PROVE  /\ reader' \in [Subscriber -> Reader]
           /\ \A r \in Subscriber \ {s} : reader'[r] = reader[r]
           /\ reader'[s] = c
<1>1. reader \in [Subscriber -> Reader]
  BY DEF IInv, TypeOK
<1> QED
  BY <1>1

\* What the invariant says of the numbers.
LEMMA Numbers ==
    ASSUME IInv
    PROVE  /\ heaviest \in HeadNumber /\ published \in HeadNumber
           /\ heaviest \in Nat /\ published \in Nat
           /\ published <= heaviest /\ heaviest <= MaxHead
           /\ subscriptions_count \in Nat
           /\ \A s \in Subscriber : caller[s] \in Caller /\ reader[s] \in Reader
  BY HeadChangesAssumption DEF IInv, TypeOK, HeadNumber

\* A step of the publisher.
LEMMA PublisherStep ==
    ASSUME IInv, SetHead \/ Publish
    PROVE  IInv'
<1>1. /\ heaviest' \in HeadNumber /\ published' \in {heaviest', heaviest' - 1} \cap HeadNumber
      /\ published \in Int /\ published' \in Int /\ published <= published'
      /\ UNCHANGED <<subscriptions_count, subscriptions, caller, channel, reader>>
  BY HeadChangesAssumption DEF IInv, TypeOK, SetHead, Publish, HeadNumber
<1>2. TypeOK' /\ IdsAreKnown' /\ ChannelsStartEmpty'
  BY <1>1 DEF IInv, TypeOK, IdsAreKnown, ChannelsStartEmpty
<1>3. ASSUME NEW s \in Subscriber
      PROVE  caller[s].next \in Int /\ caller[s].sent \in Int /\ caller[s].change \in Int
  <2>1. caller[s] \in Caller
    BY Numbers
  <2> QED
    BY <2>1, CallerFields
<1>4. TasksFollow'
  BY <1>1, <1>3, HeadChangesAssumption DEF IInv, TasksFollow, NoGap
<1> QED
  BY <1>2, <1>4 DEF IInv

\* What the steps of sub_head_changes before the current head is sent have in common.
LEMMA CallStep ==
    ASSUME IInv, NEW s \in Subscriber, NEW c \in Caller,
           caller' = [caller EXCEPT ![s] = c],
           caller[s].pc \in {"start", "subscribed", "loaded", "counted"},
           c.pc \in {"subscribed", "loaded", "counted", "inserted"},
           c.next <= published + 1,
           c.pc # "subscribed" => c.id \in Id,
           subscriptions_count' \in Nat,
           DOMAIN subscriptions \subseteq DOMAIN subscriptions',
           DOMAIN subscriptions' \subseteq Id,
           \A id \in DOMAIN subscriptions' : subscriptions'[id] \in Subscriber \cup {NoOne},
           c.pc = "inserted" => c.id \in DOMAIN subscriptions',
           UNCHANGED <<heaviest, published, channel, reader>>
    PROVE  IInv'
<1>1. /\ caller' \in [Subscriber -> Caller]
      /\ \A r \in Subscriber \ {s} : caller'[r] = caller[r]
      /\ caller'[s] = c
  BY OneCaller, Zenon
<1>2. TypeOK'
  BY <1>1 DEF IInv, TypeOK
<1>3. IdsAreKnown'
  BY <1>1 DEF IInv, IdsAreKnown
<1>4. ChannelsStartEmpty'
  BY <1>1 DEF IInv, ChannelsStartEmpty, Before
<1>5. TasksFollow'
  BY <1>1 DEF IInv, TasksFollow, NoGap
<1> QED
  BY <1>2, <1>3, <1>4, <1>5 DEF IInv

\* sub_head_changes subscribes to the publisher.
LEMMA SubscribeStep ==
    ASSUME IInv, NEW s \in Subscriber, Subscribe(s) \/ LoadCount(s) \/ FetchAdd(s) \/ InsertReceiver(s)
    PROVE  IInv'
<1> USE HeadChangesAssumption
<1>1. /\ caller[s] \in Caller
      /\ published \in Nat /\ published <= MaxHead
      /\ subscriptions_count \in Nat
      /\ subscriptions_count + 1 \in Nat
      /\ published + 1 \in 1 .. MaxHead + 1 /\ published + 1 <= published + 1
      /\ caller[s].next <= published + 1
  BY Numbers DEF IInv, TasksFollow
<1>2. /\ caller[s].pc \notin {"start", "subscribed"} => caller[s].id \in Id
      /\ DOMAIN subscriptions \subseteq Id
      /\ \A id \in DOMAIN subscriptions : subscriptions[id] \in Subscriber \cup {NoOne}
  BY DEF IInv, IdsAreKnown, TypeOK
<1>3. CASE Subscribe(s)
  <2> DEFINE c == [caller[s] EXCEPT !.pc = "subscribed", !.next = published + 1]
  <2>1. c \in Caller /\ c.pc = "subscribed" /\ c.next = published + 1
    BY <1>1, Zenon DEF Caller
  <2>2. caller' = [caller EXCEPT ![s] = c] /\ caller[s].pc = "start"
    BY <1>3, Zenon DEF Subscribe
  <2>3. UNCHANGED <<heaviest, published, channel, reader, subscriptions, subscriptions_count>>
    BY <1>3 DEF Subscribe
  <2> HIDE DEF c
  <2> QED
    BY <1>1, <1>2, <2>1, <2>2, <2>3, CallStep, Zenon
<1>4. CASE LoadCount(s)
  <2> DEFINE c == [caller[s] EXCEPT !.pc = "loaded", !.id = subscriptions_count + 1]
  <2>1. c \in Caller /\ c.pc = "loaded" /\ c.next = caller[s].next /\ c.id = subscriptions_count + 1
    BY <1>1, Zenon DEF Caller
  <2>2. caller' = [caller EXCEPT ![s] = c] /\ caller[s].pc = "subscribed"
    BY <1>4, Zenon DEF LoadCount
  <2>3. UNCHANGED <<heaviest, published, channel, reader, subscriptions, subscriptions_count>>
    BY <1>4 DEF LoadCount
  <2>4. c.id \in Id
    BY <1>1, <2>1 DEF Id
  <2> HIDE DEF c
  <2> QED
    BY <1>1, <1>2, <2>1, <2>2, <2>3, <2>4, CallStep, Zenon
<1>5. CASE FetchAdd(s)
  <2> DEFINE c == [caller[s] EXCEPT !.pc = "counted"]
  <2>1. c \in Caller /\ c.pc = "counted" /\ c.next = caller[s].next /\ c.id = caller[s].id
    BY <1>1 DEF Caller
  <2>2. caller' = [caller EXCEPT ![s] = c] /\ caller[s].pc = "loaded"
    BY <1>5 DEF FetchAdd
  <2>3. UNCHANGED <<heaviest, published, channel, reader, subscriptions>> /\ subscriptions_count' \in Nat
    BY <1>1, <1>5 DEF FetchAdd
  <2> HIDE DEF c
  <2> QED
    BY <1>1, <1>2, <2>1, <2>2, <2>3, CallStep, Zenon
<1>6. CASE InsertReceiver(s)
  <2> DEFINE c == [caller[s] EXCEPT !.pc = "inserted"]
  <2>1. c \in Caller /\ c.pc = "inserted" /\ c.next = caller[s].next /\ c.id = caller[s].id
    BY <1>1 DEF Caller
  <2>2. caller' = [caller EXCEPT ![s] = c] /\ caller[s].pc = "counted"
    BY <1>6 DEF InsertReceiver
  <2>3. UNCHANGED <<heaviest, published, channel, reader, subscriptions_count>>
    BY <1>6 DEF InsertReceiver
  <2>4. subscriptions' = [i \in DOMAIN subscriptions \cup {c.id} |->
                            IF i = c.id THEN s ELSE subscriptions[i]]
    BY <1>6, <2>1 DEF InsertReceiver, Insert
  <2> HIDE DEF c
  <2>5. /\ DOMAIN subscriptions' = DOMAIN subscriptions \cup {c.id}
        /\ \A id \in DOMAIN subscriptions' : subscriptions'[id] \in Subscriber \cup {NoOne}
    BY <1>2, <2>4
  <2> QED
    BY <1>1, <1>2, <2>1, <2>2, <2>3, <2>5, CallStep, Zenon
<1> QED
  BY <1>3, <1>4, <1>5, <1>6

\* The current head is sent.
LEMMA SendCurrentStep ==
    ASSUME IInv, NEW s \in Subscriber, SendCurrent(s)
    PROVE  IInv'
<1> USE HeadChangesAssumption
<1>1. /\ heaviest \in HeadNumber /\ heaviest \in Nat /\ published \in Nat /\ published <= heaviest
      /\ caller[s] \in Caller /\ reader[s] \in Reader
      /\ caller[s].next \in Nat /\ caller[s].next <= published + 1
  BY Numbers, CallerFields DEF IInv, TasksFollow
<1>2. /\ UNCHANGED <<heaviest, published, subscriptions_count, subscriptions>>
      /\ caller[s].pc = "inserted"
  BY DEF SendCurrent
<1>3. channel[s] = <<>> /\ reader[s].pc = "wait" /\ caller[s].id \in DOMAIN subscriptions
                        /\ caller[s].id \in Id
  <2>1. reader[s].pc = "wait"
    BY <1>2 DEF IInv, IdsAreKnown
  <2> QED
    BY <1>2, <2>1 DEF IInv, ChannelsStartEmpty, Before, IdsAreKnown
<1>4. CASE Dropped(s)
  <2> DEFINE c == [caller[s] EXCEPT !.pc = "panicked"]
  <2>1. c \in Caller /\ c.pc = "panicked" /\ c.id = caller[s].id /\ c.next = caller[s].next
    BY <1>1 DEF Caller
  <2>2. caller' = [caller EXCEPT ![s] = c] /\ UNCHANGED <<channel, reader>>
    BY <1>4 DEF SendCurrent
  <2> HIDE DEF c
  <2>3. /\ caller' \in [Subscriber -> Caller]
        /\ \A r \in Subscriber \ {s} : caller'[r] = caller[r]
        /\ caller'[s] = c
    BY <2>1, <2>2, OneCaller, Zenon
  <2>4. TypeOK' /\ ChannelsStartEmpty'
    BY <1>2, <1>3, <2>1, <2>2, <2>3 DEF IInv, TypeOK, ChannelsStartEmpty, Before
  <2>5. IdsAreKnown' /\ TasksFollow'
    BY <1>1, <1>2, <1>3, <2>1, <2>2, <2>3 DEF IInv, IdsAreKnown, TasksFollow, NoGap
  <2> QED
    BY <2>4, <2>5 DEF IInv
<1>5. CASE ~Dropped(s)
  <2> DEFINE c == [caller[s] EXCEPT !.pc = "receive", !.sent = heaviest]
             d == [reader[s] EXCEPT !.pc = "loop"]
  <2>1. /\ c \in Caller /\ c.pc = "receive" /\ c.id = caller[s].id
        /\ c.next = caller[s].next /\ c.sent = heaviest
    BY <1>1, Zenon DEF Caller
  <2>2. d \in Reader /\ d.pc = "loop"
    BY <1>1 DEF Reader
  <2>3. /\ caller' = [caller EXCEPT ![s] = c] /\ reader' = [reader EXCEPT ![s] = d]
        /\ channel' = [channel EXCEPT ![s] = Append(<<>>, heaviest)]
    BY <1>3, <1>5, Zenon DEF SendCurrent
  <2> HIDE DEF c, d
  <2>4. /\ caller' \in [Subscriber -> Caller]
        /\ \A r \in Subscriber \ {s} : caller'[r] = caller[r]
        /\ caller'[s] = c
    BY <2>1, <2>3, OneCaller, Zenon
  <2>5. /\ reader' \in [Subscriber -> Reader]
        /\ \A r \in Subscriber \ {s} : reader'[r] = reader[r]
        /\ reader'[s] = d
    BY <2>2, <2>3, OneReader, Zenon
  <2>6. /\ channel' \in [Subscriber -> Seq(HeadNumber)]
        /\ \A r \in Subscriber : Len(channel'[r]) <= ChannelCap
        /\ \A r \in Subscriber \ {s} : channel'[r] = channel[r]
    <3>1. Append(<<>>, heaviest) \in Seq(HeadNumber) /\ Len(Append(<<>>, heaviest)) = 1
      BY <1>1
    <3>2. channel \in [Subscriber -> Seq(HeadNumber)] /\ \A r \in Subscriber : Len(channel[r]) <= ChannelCap
      BY DEF IInv, TypeOK
    <3> DEFINE first == Append(<<>>, heaviest)
    <3> HIDE DEF first
    <3> QED
      BY <2>3, <3>1, <3>2 DEF first
  <2>7. TypeOK'
    BY <1>2, <2>4, <2>5, <2>6 DEF IInv, TypeOK
  <2>8. IdsAreKnown' /\ ChannelsStartEmpty'
    <3>1. IdsAreKnown'
      BY <1>2, <1>3, <2>1, <2>2, <2>4, <2>5 DEF IInv, IdsAreKnown
    <3>2. ChannelsStartEmpty'
      BY <2>1, <2>4, <2>6 DEF IInv, ChannelsStartEmpty, Before
    <3> QED
      BY <3>1, <3>2
  <2>9. TasksFollow'
    BY <1>1, <1>2, <2>1, <2>4 DEF IInv, TasksFollow, NoGap
  <2> QED
    BY <2>7, <2>8, <2>9 DEF IInv
<1> QED
  BY <1>4, <1>5

\* What the steps of a forwarding task that leave the channel alone have in common.
LEMMA TaskStep ==
    ASSUME IInv, NEW s \in Subscriber, NEW c \in Caller,
           caller' = [caller EXCEPT ![s] = c],
           caller[s].pc \in {"receive", "send"}, c.pc \in {"receive", "send", "ended"},
           c.id = caller[s].id,
           c.next <= published + 1,
           c.pc = "receive" => NoGap(c.sent, c.next),
           c.pc = "send" => NoGap(c.sent, c.change) /\ c.next = c.change + 1,
           DOMAIN subscriptions' = DOMAIN subscriptions,
           \A id \in DOMAIN subscriptions' : subscriptions'[id] \in Subscriber \cup {NoOne},
           channel' \in [Subscriber -> Seq(HeadNumber)],
           \A r \in Subscriber : Len(channel'[r]) <= ChannelCap,
           \A r \in Subscriber \ {s} : channel'[r] = channel[r],
           UNCHANGED <<heaviest, published, subscriptions_count, reader>>
    PROVE  IInv'
<1>1. /\ caller' \in [Subscriber -> Caller]
      /\ \A r \in Subscriber \ {s} : caller'[r] = caller[r]
      /\ caller'[s] = c
  BY OneCaller, Zenon
<1>2. TypeOK'
  BY <1>1 DEF IInv, TypeOK
<1>3. IdsAreKnown'
  BY <1>1 DEF IInv, IdsAreKnown
<1>4. ChannelsStartEmpty'
  BY <1>1 DEF IInv, ChannelsStartEmpty, Before
<1>5. TasksFollow'
  BY <1>1 DEF IInv, TasksFollow, NoGap
<1> QED
  BY <1>2, <1>3, <1>4, <1>5 DEF IInv

\* The forwarding task receives a change, learns that it lagged, or sends.
LEMMA ForwardStep ==
    ASSUME IInv, NEW s \in Subscriber, Forward(s)
    PROVE  IInv'
<1> USE HeadChangesAssumption
<1>1. /\ published \in Nat /\ published <= MaxHead
      /\ caller[s] \in Caller
      /\ caller[s].next <= published + 1
      /\ caller[s].pc = "receive" => NoGap(caller[s].sent, caller[s].next)
      /\ caller[s].pc = "send" => /\ NoGap(caller[s].sent, caller[s].change)
                                  /\ caller[s].next = caller[s].change + 1
      /\ caller[s].pc = "send" => caller[s].id \in DOMAIN subscriptions
  BY Numbers DEF IInv, TasksFollow, IdsAreKnown
<1>2. /\ caller[s].next \in Nat \ {0} /\ caller[s].sent \in Nat /\ caller[s].change \in Nat
      /\ caller[s].change \in HeadNumber
  BY <1>1, CallerFields
<1>3. /\ channel \in [Subscriber -> Seq(HeadNumber)]
      /\ \A r \in Subscriber : Len(channel[r]) <= ChannelCap
      /\ \A id \in DOMAIN subscriptions : subscriptions[id] \in Subscriber \cup {NoOne}
  BY DEF IInv, TypeOK
<1>4. CASE ReceiveChange(s)
  <2> DEFINE c == [caller[s] EXCEPT !.pc = "send", !.change = caller[s].next, !.next = caller[s].next + 1]
  <2>1. /\ caller[s].pc = "receive" /\ caller[s].next <= published
        /\ caller' = [caller EXCEPT ![s] = c]
        /\ UNCHANGED <<heaviest, published, subscriptions_count, subscriptions, channel, reader>>
    BY <1>4, Zenon DEF ReceiveChange
  <2>2. caller[s].next \in HeadNumber /\ caller[s].next + 1 \in 1 .. MaxHead + 1
    BY <1>1, <1>2, <2>1 DEF HeadNumber
  <2>3. /\ c \in Caller /\ c.pc = "send" /\ c.id = caller[s].id /\ c.sent = caller[s].sent
        /\ c.change = caller[s].next /\ c.next = caller[s].next + 1
    BY <1>1, <2>2, Zenon DEF Caller
  <2> HIDE DEF c
  <2>4. NoGap(c.sent, c.change) /\ c.next = c.change + 1 /\ c.next <= published + 1
    BY <1>1, <1>2, <2>1, <2>3
  <2> QED
    BY <1>3, <2>1, <2>3, <2>4, TaskStep, Zenon
<1>5. CASE SkipLagged(s)
  <2> DEFINE c == [caller[s] EXCEPT !.next = published - SINK_CAP + 1]
  <2>1. /\ caller[s].pc = "receive" /\ caller[s].next + SINK_CAP <= published
        /\ caller' = [caller EXCEPT ![s] = c]
        /\ UNCHANGED <<heaviest, published, subscriptions_count, subscriptions, channel, reader>>
    BY <1>5 DEF SkipLagged, Lagged
  <2>2. published - SINK_CAP + 1 \in 1 .. MaxHead + 1
    BY <1>1, <1>2, <2>1
  <2>3. /\ c \in Caller /\ c.pc = "receive" /\ c.id = caller[s].id /\ c.sent = caller[s].sent
        /\ c.next = published - SINK_CAP + 1
    BY <1>1, <2>1, <2>2 DEF Caller
  <2> HIDE DEF c
  <2>4. NoGap(c.sent, c.next) /\ c.next <= published + 1
    BY <1>1, <1>2, <2>3 DEF NoGap
  <2> QED
    BY <1>3, <2>1, <2>3, <2>4, TaskStep, Zenon
<1>6. CASE ForwardChange(s) /\ Dropped(s)
  <2> DEFINE c == [caller[s] EXCEPT !.pc = "ended"]
  <2>1. /\ caller[s].pc = "send"
        /\ caller' = [caller EXCEPT ![s] = c]
        /\ Insert(caller[s].id, NoOne)
        /\ UNCHANGED <<heaviest, published, subscriptions_count, channel, reader>>
    BY <1>6 DEF ForwardChange
  <2>2. c \in Caller /\ c.pc = "ended" /\ c.id = caller[s].id /\ c.next = caller[s].next
    BY <1>1 DEF Caller
  <2>3. /\ DOMAIN subscriptions' = DOMAIN subscriptions
        /\ \A id \in DOMAIN subscriptions' : subscriptions'[id] \in Subscriber \cup {NoOne}
    <3>1. DOMAIN subscriptions \cup {caller[s].id} = DOMAIN subscriptions
      BY <1>1, <2>1, Zenon
    <3> QED
      BY <1>3, <2>1, <3>1 DEF Insert
  <2> HIDE DEF c
  <2> QED
    BY <1>1, <1>3, <2>1, <2>2, <2>3, TaskStep, Zenon
<1>7. CASE ForwardChange(s) /\ ~Dropped(s)
  <2> DEFINE c == [caller[s] EXCEPT !.pc = "receive", !.sent = caller[s].change]
             more == Append(channel[s], caller[s].change)
  <2>1. /\ caller[s].pc = "send" /\ Len(channel[s]) < ChannelCap
        /\ caller' = [caller EXCEPT ![s] = c]
        /\ channel' = [channel EXCEPT ![s] = more]
        /\ UNCHANGED <<heaviest, published, subscriptions_count, subscriptions, reader>>
    BY <1>7, Zenon DEF ForwardChange
  <2>2. /\ c \in Caller /\ c.pc = "receive" /\ c.id = caller[s].id /\ c.next = caller[s].next
        /\ c.sent = caller[s].change
    BY <1>1, <1>2, Zenon DEF Caller
  <2>3. more \in Seq(HeadNumber) /\ Len(more) = Len(channel[s]) + 1 /\ Len(channel[s]) \in Nat
    BY <1>2, <1>3
  <2> HIDE DEF c, more
  <2>4. /\ channel' \in [Subscriber -> Seq(HeadNumber)]
        /\ \A r \in Subscriber : Len(channel'[r]) <= ChannelCap
        /\ \A r \in Subscriber \ {s} : channel'[r] = channel[r]
    BY <1>3, <2>1, <2>3
  <2>5. NoGap(c.sent, c.next) /\ c.next <= published + 1
    BY <1>1, <1>2, <2>1, <2>2 DEF NoGap
  <2> QED
    BY <1>3, <2>1, <2>2, <2>4, <2>5, TaskStep, Zenon
<1> QED
  BY <1>4, <1>5, <1>6, <1>7 DEF Forward

\* A step of a streaming loop: no call and no task is touched, and a channel
\* only loses its first change.
LEMMA StreamStep ==
    ASSUME IInv, NEW s \in Subscriber, Stream(s) \/ CloseSocket(s)
    PROVE  IInv'
<1>1. /\ UNCHANGED <<heaviest, published, subscriptions_count, subscriptions, caller>>
      /\ reader[s].pc \in {"loop", "recv"}
  BY DEF Stream, NextHeadChange, RecvChange, CloseSocket
<1>2. /\ reader[s] \in Reader
      /\ caller[s].pc \in {"receive", "send", "ended"}
      /\ caller[s].id \in DOMAIN subscriptions
      /\ reader[s].pc = "recv" => reader[s].rx \in Subscriber
  BY <1>1, Numbers DEF IInv, IdsAreKnown
<1>3. /\ channel \in [Subscriber -> Seq(HeadNumber)]
      /\ \A r \in Subscriber : Len(channel[r]) <= ChannelCap
      /\ subscriptions[caller[s].id] \in Subscriber \cup {NoOne}
  BY <1>2 DEF IInv, TypeOK
<1>4. \E c \in Reader : /\ reader' = [reader EXCEPT ![s] = c]
                        /\ c.pc # "wait"
                        /\ c.pc = "recv" => c.rx \in Subscriber
  <2>1. CASE NextHeadChange(s)
    <3> DEFINE rx == subscriptions[caller[s].id]
               c == IF rx = NoOne THEN [reader[s] EXCEPT !.pc = "panicked"]
                                  ELSE [reader[s] EXCEPT !.pc = "recv", !.rx = rx]
    <3>1. reader' = [reader EXCEPT ![s] = c]
      BY <2>1 DEF NextHeadChange
    <3>2. c \in Reader /\ c.pc # "wait" /\ (c.pc = "recv" => c.rx \in Subscriber)
      BY <1>2, <1>3, Zenon DEF Reader
    <3> QED
      BY <3>1, <3>2, Zenon
  <2>2. CASE RecvChange(s) /\ channel[reader[s].rx] # <<>>
    <3> DEFINE rx == reader[s].rx
               c == [reader[s] EXCEPT !.pc = "loop", !.rx = NoOne, !.got = Head(channel[rx])]
    <3>1. reader' = [reader EXCEPT ![s] = c]
      BY <2>2, Zenon DEF RecvChange
    <3>2. Head(channel[rx]) \in HeadNumber
      BY <1>2, <1>3, <2>2 DEF RecvChange
    <3>3. c \in Reader /\ c.pc = "loop"
      BY <1>2, <3>2, Zenon DEF Reader
    <3> QED
      BY <3>1, <3>3, Zenon
  <2>3. CASE RecvChange(s) /\ channel[reader[s].rx] = <<>>
    <3> DEFINE c == [reader[s] EXCEPT !.pc = "panicked", !.rx = NoOne]
    <3>1. reader' = [reader EXCEPT ![s] = c]
      BY <2>3, Zenon DEF RecvChange
    <3>2. c \in Reader /\ c.pc = "panicked"
      BY <1>2, Zenon DEF Reader
    <3> QED
      BY <3>1, <3>2, Zenon
  <2>4. CASE CloseSocket(s)
    <3> DEFINE c == [reader[s] EXCEPT !.pc = "closed"]
    <3>1. reader' = [reader EXCEPT ![s] = c]
      BY <2>4 DEF CloseSocket
    <3>2. c \in Reader /\ c.pc = "closed"
      BY <1>2 DEF Reader
    <3> QED
      BY <3>1, <3>2, Zenon
  <2> QED
    BY <2>1, <2>2, <2>3, <2>4 DEF Stream
<1>5. PICK c \in Reader : /\ reader' = [reader EXCEPT ![s] = c]
                          /\ c.pc # "wait"
                          /\ c.pc = "recv" => c.rx \in Subscriber
  BY <1>4, Zenon
<1>6. /\ reader' \in [Subscriber -> Reader]
      /\ \A r \in Subscriber \ {s} : reader'[r] = reader[r]
      /\ reader'[s] = c
  BY <1>5, OneReader, Zenon
<1>7. /\ channel' \in [Subscriber -> Seq(HeadNumber)]
      /\ \A r \in Subscriber : Len(channel'[r]) <= ChannelCap
      /\ \A r \in Subscriber : channel[r] = <<>> => channel'[r] = <<>>
  <2>1. CASE UNCHANGED channel
    BY <1>3, <2>1
  <2>2. CASE RecvChange(s) /\ channel[reader[s].rx] # <<>>
    <3> DEFINE rx == reader[s].rx
               less == Tail(channel[rx])
    <3>1. channel' = [channel EXCEPT ![rx] = less] /\ rx \in Subscriber
      BY <1>2, <2>2 DEF RecvChange
    <3>2. less \in Seq(HeadNumber) /\ Len(less) = Len(channel[rx]) - 1 /\ Len(channel[rx]) \in Nat
      BY <1>3, <2>2, <3>1
    <3> HIDE DEF less
    <3> QED
      BY <1>3, <2>2, <3>1, <3>2, HeadChangesAssumption
  <2> QED
    BY <2>1, <2>2 DEF Stream, NextHeadChange, RecvChange, CloseSocket
<1>8. TypeOK'
  BY <1>1, <1>6, <1>7 DEF IInv, TypeOK
<1>9. IdsAreKnown'
  BY <1>1, <1>2, <1>5, <1>6 DEF IInv, IdsAreKnown
<1>10. ChannelsStartEmpty' /\ TasksFollow'
  BY <1>1, <1>7 DEF IInv, ChannelsStartEmpty, TasksFollow, NoGap
<1> QED
  BY <1>8, <1>9, <1>10 DEF IInv

-----------------------------------------------------------------------------
\* The invariant holds in every state of every behaviour.
THEOREM Invariance == Spec => []IInv
<1>1. IInv /\ [Next]_vars => IInv'
  <2> SUFFICES ASSUME IInv, [Next]_vars PROVE IInv'
    OBVIOUS
  <2>1. CASE UNCHANGED vars
    BY <2>1 DEF vars, IInv, TypeOK, IdsAreKnown, ChannelsStartEmpty, TasksFollow, NoGap
  <2>2. CASE SetHead \/ Publish
    BY <2>2, PublisherStep
  <2>3. ASSUME NEW s \in Subscriber,
               SubHeadChanges(s) \/ Forward(s) \/ Stream(s) \/ CloseSocket(s)
        PROVE  IInv'
    BY <2>3, SubscribeStep, SendCurrentStep, ForwardStep, StreamStep DEF SubHeadChanges
  <2> QED
    BY <2>1, <2>2, <2>3 DEF Next
<1> QED
  BY InitIInv, <1>1, PTL DEF Spec

\* sub_head_changes and the task it spawns forward every head change: channels
\* keep to their bounds, and only what the publisher no longer retains is skipped.
THEOREM ForwardingTheorem == Spec => []ForwardingIsSound
<1>1. IInv => ForwardingIsSound
  BY DEF IInv, ForwardingIsSound, NoChangeLost, TasksFollow, NoGap
<1> QED
  BY Invariance, <1>1, PTL

-----------------------------------------------------------------------------
(* The key store *)

Names == Addr \cup {"default", "jwt"}
Item(n, k) == [name |-> n, key |-> k]

\* The default of these keys is one of them.
Closed(keys) == "default" \in DOMAIN keys => keys["default"] \in DOMAIN keys

\* What a call may have left to do.  A default is put only when its key is
\* there, or comes first.
Plan(t, keys, applied) ==
    \/ t = <<>>
    \/ t = <<Item("jwt", "jwt")>>
    \/ \E a \in Addr :
         \/ t = <<Item(a, a)>>
         \/ t = <<Item(a, a), Item("default", a)>> /\ (applied => a \in DOMAIN keys)
         \/ t = <<Item("default", "none"), Item("default", a)>> /\ a \in DOMAIN keys
         \/ t = <<Item("default", a)>> /\ a \in DOMAIN keys

\* The file is what the last complete flush wrote, or is void of keys, which
\* it is not unless a flush was cut short.
FileOK ==
    /\ \E kind \in {"absent", "empty", "partial"} : disk = File(kind)
       \/ disk = Whole(durable)
    /\ ~cut => disk \in {File("absent"), Whole(durable)}
    /\ disk = File("absent") => durable = NoKeys
    /\ step = "write" => cut

\* A call has something to do while it flushes.
CallOK ==
    /\ phase \in {"down", "ready", "stopping"}
    /\ step \in {"idle", "create", "write"}
    /\ phase # "ready" => todo = <<>>
    /\ phase = "down" => step = "idle"
    /\ phase = "ready" /\ step # "idle" => todo # <<>>
    /\ Plan(todo, key_info, step # "idle")
    /\ errors \in Nat

\* The inductive invariant of the key store.
KInv ==
    /\ CallOK /\ FileOK
    /\ DOMAIN key_info \subseteq Names /\ DOMAIN durable \subseteq Names
    /\ Closed(key_info) /\ Closed(durable)
    /\ FileFollowsMemory

\* The empty store has no default.
LEMMA NoKeysClosed == DOMAIN NoKeys = {} /\ Closed(NoKeys)
  BY DEF NoKeys, Closed

\* What is read back of a file has the properties of what was written.
LEMMA DiskKeys ==
    ASSUME KInv
    PROVE  /\ DOMAIN disk.keys \subseteq Names /\ Closed(disk.keys)
           /\ disk.keys \in {NoKeys, durable}
           /\ disk.kind \in {"absent", "empty", "partial", "whole"}
           /\ disk.keys # NoKeys => disk = Whole(durable)
<1>1. (\E kind \in {"absent", "empty", "partial"} : disk = File(kind)) \/ disk = Whole(durable)
  BY DEF KInv, FileOK
<1>2. DOMAIN durable \subseteq Names /\ Closed(durable)
  BY DEF KInv
<1>3. \/ /\ disk.keys = NoKeys
         /\ disk.kind \in {"absent", "empty", "partial"}
      \/ disk = Whole(durable) /\ disk.keys = durable /\ disk.kind = "whole"
  BY <1>1 DEF File, Whole
<1> QED
  BY <1>2, <1>3, NoKeysClosed

\* The last flush of a call leaves none.
LEMMA TailOne == ASSUME NEW x PROVE Tail(<<x>>) = <<>>
  OBVIOUS

\* ... and the first of two leaves the other.
LEMMA TailTwo == ASSUME NEW x, NEW y PROVE Tail(<<x, y>>) = <<y>>
  OBVIOUS

\* A key that is removed is gone, and no other.
LEMMA WithoutKeys ==
    ASSUME NEW keys, NEW n
    PROVE  DOMAIN Without(keys, n) = DOMAIN keys \ {n}
  BY DEF Without, Restrict

\* There is no file in the beginning.
LEMMA InitKInv == KInit => KInv
<1> SUFFICES ASSUME KInit PROVE KInv
  OBVIOUS
<1>1. CallOK
  BY DEF KInit, CallOK, Plan
<1>2. disk = File("absent") /\ durable = NoKeys /\ key_info = NoKeys /\ phase = "down" /\ step = "idle"
  BY DEF KInit
<1>3. FileOK /\ FileFollowsMemory
  BY <1>2 DEF FileOK, FileFollowsMemory, Idle
<1> QED
  BY <1>1, <1>2, <1>3, NoKeysClosed DEF KInv

\* The daemon starts.
LEMMA StartStep ==
    ASSUME KInv, Start
    PROVE  KInv'
<1>1. /\ phase = "down" /\ phase' = "ready" /\ key_info' = disk.keys
      /\ todo' = IF "jwt" \in DOMAIN disk.keys THEN <<>> ELSE <<Item("jwt", "jwt")>>
      /\ UNCHANGED <<disk, step, durable, cut, errors>>
  BY DEF Start, Item
<1>2. step = "idle" /\ errors \in Nat
  BY <1>1 DEF KInv, CallOK
<1>3. CallOK'
  BY <1>1, <1>2 DEF CallOK, Plan
<1>4. FileOK'
  BY <1>1 DEF KInv, FileOK
<1>5. FileFollowsMemory'
  <2> SUFFICES ASSUME todo' = <<>> PROVE disk' = Whole(key_info') /\ durable' = key_info'
    BY DEF FileFollowsMemory, Idle
  <2>1. "jwt" \in DOMAIN disk.keys
    BY <1>1
  <2>2. disk = Whole(durable) /\ disk.keys = durable
    BY <2>1, DiskKeys, NoKeysClosed
  <2> QED
    BY <1>1, <2>2
<1> QED
  BY <1>1, <1>3, <1>4, <1>5, DiskKeys DEF KInv

\* A wallet call starts: it has something to do, and nothing is written yet.
LEMMA WalletStep ==
    ASSUME KInv, NEW a \in Addr, WalletNew(a) \/ WalletImport(a) \/ WalletSetDefault(a)
    PROVE  KInv'
<1>1. /\ phase = "ready" /\ step = "idle"
      /\ UNCHANGED <<phase, key_info, disk, step, durable, cut, errors>>
  BY DEF WalletNew, WalletImport, WalletSetDefault, WalletCall, Idle
<1>2. \/ todo' = <<Item(a, a)>>
      \/ todo' = <<Item(a, a), Item("default", a)>>
      \/ todo' = <<Item("default", "none"), Item("default", a)>> /\ a \in DOMAIN key_info
  <2>1. CASE WalletNew(a)
    BY <2>1 DEF WalletNew, Item
  <2>2. CASE WalletImport(a)
    BY <2>2 DEF WalletImport, Item
  <2>3. CASE WalletSetDefault(a)
    BY <2>3 DEF WalletSetDefault, Item
  <2> QED
    BY <2>1, <2>2, <2>3
<1>3. CallOK'
  <2>1. todo' # <<>>
    BY <1>2
  <2>2. Plan(todo', key_info', step' # "idle")
    BY <1>1, <1>2 DEF Plan
  <2> QED
    BY <1>1, <2>1, <2>2 DEF KInv, CallOK
<1>4. FileOK' /\ FileFollowsMemory'
  <2>1. todo' # <<>>
    BY <1>2
  <2> QED
    BY <1>1, <2>1 DEF KInv, FileOK, FileFollowsMemory, Idle
<1> QED
  BY <1>1, <1>3, <1>4 DEF KInv

\* The change in memory keeps the default among the keys.
LEMMA ChangeStep ==
    ASSUME KInv, KeyAssumption, Change
    PROVE  KInv'
<1> DEFINE n == Head(todo).name
           k == Head(todo).key
<1>1. /\ phase = "ready" /\ todo # <<>> /\ step = "idle"
      /\ key_info' = IF k = "none" THEN Without(key_info, n) ELSE With(key_info, n, k)
      /\ step' = "create"
      /\ UNCHANGED <<phase, disk, todo, durable, cut, errors>>
  BY DEF Change
<1>2. DOMAIN key_info \subseteq Names /\ Closed(key_info) /\ Plan(todo, key_info, FALSE)
  BY <1>1, Zenon DEF KInv, CallOK
<1>3. \/ todo = <<Item("jwt", "jwt")>> /\ n = "jwt" /\ k = "jwt"
      \/ \E a \in Addr :
           \/ todo = <<Item(a, a)>> /\ n = a /\ k = a
           \/ todo = <<Item(a, a), Item("default", a)>> /\ n = a /\ k = a
           \/ /\ todo = <<Item("default", "none"), Item("default", a)>> /\ a \in DOMAIN key_info
              /\ n = "default" /\ k = "none"
           \/ /\ todo = <<Item("default", a)>> /\ a \in DOMAIN key_info
              /\ n = "default" /\ k = a
  BY <1>1, <1>2 DEF Plan, Item
<1> HIDE DEF n, k
<1>4. /\ DOMAIN key_info' \subseteq Names /\ Closed(key_info')
      /\ Plan(todo', key_info', TRUE)
  <2>1. CASE todo = <<Item("jwt", "jwt")>> /\ n = "jwt" /\ k = "jwt"
    <3>1. key_info' = With(key_info, "jwt", "jwt")
      BY <1>1, <2>1
    <3>2. /\ DOMAIN key_info' = DOMAIN key_info \cup {"jwt"}
          /\ \A m \in DOMAIN key_info \ {"jwt"} : key_info'[m] = key_info[m]
      BY <3>1 DEF With
    <3>3. DOMAIN key_info' \subseteq Names /\ Closed(key_info')
      BY <1>2, <3>2 DEF Closed, Names
    <3> QED
      BY <1>1, <2>1, <3>3 DEF Plan
  <2>2. ASSUME NEW a \in Addr, n = a /\ k = a,
               todo = <<Item(a, a)>> \/ todo = <<Item(a, a), Item("default", a)>>
        PROVE  <1>4!1 /\ <1>4!2
    <3>1. a # "none" /\ a # "default"
      BY DEF KeyAssumption
    <3>2. key_info' = With(key_info, a, a)
      BY <1>1, <2>2, <3>1
    <3>3. /\ DOMAIN key_info' = DOMAIN key_info \cup {a}
          /\ \A m \in DOMAIN key_info \ {a} : key_info'[m] = key_info[m]
      BY <3>2 DEF With
    <3>4. DOMAIN key_info' \subseteq Names
      BY <1>2, <3>3 DEF Names
    <3>5. Closed(key_info')
      BY <1>2, <3>1, <3>3 DEF Closed
    <3>6. Plan(todo', key_info', TRUE)
      BY <1>1, <2>2, <3>3 DEF Plan
    <3> QED
      BY <3>4, <3>5, <3>6, Zenon
  <2>3. ASSUME NEW a \in Addr, todo = <<Item("default", "none"), Item("default", a)>>,
               a \in DOMAIN key_info, n = "default" /\ k = "none"
        PROVE  <1>4!1 /\ <1>4!2
    <3>1. a # "default"
      BY DEF KeyAssumption
    <3>2. DOMAIN key_info' = DOMAIN key_info \ {"default"}
      BY <1>1, <2>3, WithoutKeys
    <3>3. DOMAIN key_info' \subseteq Names /\ Closed(key_info')
      BY <1>2, <3>2 DEF Closed
    <3>4. Plan(todo', key_info', TRUE)
      BY <1>1, <2>3, <3>1, <3>2 DEF Plan
    <3> QED
      BY <3>3, <3>4, Zenon
  <2>4. ASSUME NEW a \in Addr, todo = <<Item("default", a)>>, a \in DOMAIN key_info,
               n = "default" /\ k = a
        PROVE  <1>4!1 /\ <1>4!2
    <3>1. a # "none"
      BY DEF KeyAssumption
    <3>2. key_info' = With(key_info, "default", a)
      BY <1>1, <2>4, <3>1
    <3>3. DOMAIN key_info' = DOMAIN key_info \cup {"default"} /\ key_info'["default"] = a
      BY <3>2 DEF With
    <3>4. DOMAIN key_info' \subseteq Names /\ Closed(key_info')
      BY <1>2, <2>4, <3>3 DEF Closed, Names
    <3>5. Plan(todo', key_info', TRUE)
      BY <1>1, <2>4, <3>3 DEF Plan
    <3> QED
      BY <3>4, <3>5, Zenon
  <2> QED
    BY <1>3, <2>1, <2>2, <2>3, <2>4, Zenon
<1>5. CallOK'
  BY <1>1, <1>4, Zenon DEF KInv, CallOK
<1>6. FileOK' /\ FileFollowsMemory'
  BY <1>1 DEF KInv, FileOK, FileFollowsMemory, Idle
<1> QED
  BY <1>1, <1>4, <1>5, <1>6 DEF KInv

\* A flush is begun when the daemon stops, and empties the file.
LEMMA BeginFlushStep ==
    ASSUME KInv, Stop \/ Create
    PROVE  KInv'
<1>1. CASE Stop
  BY <1>1 DEF KInv, CallOK, Plan, FileOK, FileFollowsMemory, Stop, Idle
<1>2. CASE Create
  <2>1. /\ step = "create" /\ step' = "write" /\ disk' = File("empty") /\ cut'
        /\ UNCHANGED <<phase, key_info, todo, durable, errors>>
    BY <1>2 DEF Create
  <2>2. CallOK'
    BY <2>1 DEF KInv, CallOK
  <2>3. File("empty") # File("absent")
    BY DEF File
  <2>4. FileOK' /\ FileFollowsMemory'
    BY <2>1, <2>3 DEF KInv, FileOK, FileFollowsMemory, Idle
  <2> QED
    BY <2>1, <2>2, <2>4 DEF KInv
<1> QED
  BY <1>1, <1>2

\* A call that goes on after its flush has a plan again.
LEMMA GoOnCall ==
    ASSUME KInv, step # "idle", GoOn, errors' \in Nat
    PROVE  /\ CallOK' /\ DOMAIN key_info' \subseteq Names /\ Closed(key_info')
           /\ phase' = "ready" => key_info' = key_info
<1>1. CASE phase = "stopping"
  <2>1. phase' = "down" /\ key_info' = NoKeys /\ todo' = todo /\ step' = "idle" /\ todo = <<>>
    BY <1>1 DEF GoOn, KInv, CallOK
  <2> QED
    BY <2>1, NoKeysClosed DEF CallOK, Plan
<1>2. CASE phase # "stopping"
  <2>1. /\ phase = "ready" /\ step' = "idle" /\ todo' = Tail(todo) /\ todo # <<>>
        /\ UNCHANGED <<phase, key_info>>
        /\ Plan(todo, key_info, TRUE)
    BY <1>2, Zenon DEF GoOn, KInv, CallOK
  <2>2. Plan(todo', key_info', FALSE)
    <3>1. CASE todo = <<Item("jwt", "jwt")>> \/ \E a \in Addr : todo = <<Item(a, a)>> \/ todo = <<Item("default", a)>>
      <4>1. Tail(todo) = <<>>
        BY <3>1, TailOne, Zenon
      <4> QED
        BY <2>1, <4>1 DEF Plan
    <3>2. ASSUME NEW a \in Addr, a \in DOMAIN key_info,
                 \/ todo = <<Item(a, a), Item("default", a)>>
                 \/ todo = <<Item("default", "none"), Item("default", a)>>
          PROVE  Plan(todo', key_info', FALSE)
      <4>1. Tail(todo) = <<Item("default", a)>>
        BY <3>2, TailTwo, Zenon
      <4> QED
        BY <2>1, <3>2, <4>1 DEF Plan
    <3> QED
      BY <2>1, <3>1, <3>2 DEF Plan
  <2> QED
    BY <2>1, <2>2, Zenon DEF KInv, CallOK
<1> QED
  BY <1>1, <1>2

\* One that gives up has none.
LEMMA GiveUpCall ==
    ASSUME KInv, GiveUp, errors' \in Nat
    PROVE  /\ CallOK' /\ DOMAIN key_info' \subseteq Names /\ Closed(key_info')
<1>1. step' = "idle" /\ todo' = <<>> /\ phase' \in {"down", phase}
  BY DEF GiveUp
<1>2. key_info' \in {NoKeys, key_info}
  BY DEF GiveUp
<1> QED
  BY <1>1, <1>2, NoKeysClosed DEF KInv, CallOK, Plan

\* The write, and what may go wrong with the file.
LEMMA WriteStep ==
    ASSUME KInv, Write
    PROVE  KInv'
<1>1. /\ step = "write" /\ disk' = Whole(key_info) /\ durable' = key_info /\ ~cut'
      /\ GoOn /\ errors' = errors /\ step' = "idle"
  BY DEF Write, GoOn
<1>2. errors' \in Nat
  BY <1>1 DEF KInv, CallOK
<1>3. /\ CallOK' /\ DOMAIN key_info' \subseteq Names /\ Closed(key_info')
      /\ phase' = "ready" => key_info' = key_info
  BY <1>1, <1>2, GoOnCall
<1>4. Whole(durable') # File("absent")
  BY DEF Whole, File
<1>5. FileOK'
  BY <1>1, <1>4 DEF FileOK
<1>6. FileFollowsMemory'
  BY <1>1, <1>3 DEF FileFollowsMemory, Idle
<1> QED
  BY <1>1, <1>3, <1>5, <1>6 DEF KInv

\* The disk fails in the middle of a flush.
LEMMA DiskErrorStep ==
    ASSUME KInv, CreateFails \/ WriteFails
    PROVE  KInv'
<1>1. /\ errors' = errors + 1 /\ UNCHANGED <<durable, cut>> /\ step # "idle"
      /\ GiveUp \/ GoOn
      /\ \/ UNCHANGED disk
         \/ step = "write" /\ disk' \in {File("empty"), File("partial")}
  BY DEF CreateFails, WriteFails, DiskError
<1>2. errors' \in Nat /\ errors' # 0
  BY <1>1 DEF KInv, CallOK
<1>3. CallOK' /\ DOMAIN key_info' \subseteq Names /\ Closed(key_info')
  BY <1>1, <1>2, GoOnCall, GiveUpCall
<1>4. step' = "idle"
  BY <1>1 DEF GiveUp, GoOn
<1>5. File("empty") # File("absent") /\ File("partial") # File("absent")
  BY DEF File
<1>6. FileOK'
  BY <1>1, <1>4, <1>5 DEF KInv, FileOK
<1>7. FileFollowsMemory'
  BY <1>2 DEF FileFollowsMemory
<1> QED
  BY <1>1, <1>3, <1>6, <1>7 DEF KInv

\* The node crashes, in the middle of a flush or not.
LEMMA CrashStep ==
    ASSUME KInv, NodeCrash
    PROVE  KInv'
<1>1. /\ phase' = "down" /\ key_info' = NoKeys /\ todo' = <<>> /\ step' = "idle"
      /\ UNCHANGED <<durable, cut, errors>>
      /\ UNCHANGED disk \/ (step = "write" /\ disk' = File("partial"))
  BY DEF NodeCrash
<1>2. File("partial") # File("absent")
  BY DEF File
<1>3. CallOK'
  BY <1>1 DEF KInv, CallOK, Plan
<1>4. FileOK'
  BY <1>1, <1>2 DEF KInv, FileOK
<1>5. FileFollowsMemory'
  BY <1>1 DEF FileFollowsMemory, Idle
<1> QED
  BY <1>1, <1>3, <1>4, <1>5, NoKeysClosed DEF KInv

\* What the invariant says of the keys.
LEMMA KInvKeeps == KInv => KeysAreKept
<1> SUFFICES ASSUME KInv PROVE KeysAreKept
  OBVIOUS
<1>1. KTypeOK
  BY DiskKeys DEF KInv, CallOK, KTypeOK, Names
<1>2. OnlyACutLoses
  <2> SUFFICES ASSUME ~cut PROVE disk.keys = durable /\ disk.kind \in {"whole", "absent"}
    BY DEF OnlyACutLoses
  <2>1. disk = Whole(durable) \/ (disk = File("absent") /\ durable = NoKeys)
    BY DEF KInv, FileOK
  <2> QED
    BY <2>1 DEF Whole, File
<1>3. DefaultIsAKey
  BY DiskKeys DEF KInv, DefaultIsAKey, Closed
<1> QED
  BY <1>1, <1>2, <1>3 DEF KInv, KeysAreKept

\* The file follows what is in memory, a key that was written is lost only by a
\* flush that is cut short, and the default is always one of the keys: for
\* every set of addresses and every number of calls, errors and crashes.
THEOREM KeysTheorem == KeyAssumption /\ KSpec => []KeysAreKept
<1>1. KeyAssumption /\ KInv /\ [KNext]_keyVars => KInv'
  <2> SUFFICES ASSUME KeyAssumption, KInv, [KNext]_keyVars PROVE KInv'
    OBVIOUS
  <2>1. CASE UNCHANGED keyVars
    BY <2>1 DEF keyVars, KInv, CallOK, FileOK, FileFollowsMemory, Idle
  <2>2. CASE KNext
    BY <2>2, StartStep, ChangeStep, BeginFlushStep, WriteStep, DiskErrorStep, CrashStep, WalletStep
       DEF KNext
  <2> QED
    BY <2>1, <2>2
<1>2. KeyAssumption /\ KInit => KInv
  BY InitKInv
<1>3. KeyAssumption => []KeyAssumption
  <2>1. KeyAssumption => KeyAssumption'
    BY DEF KeyAssumption
  <2> QED
    BY <2>1, PTL
<1> QED
  BY <1>1, <1>2, <1>3, KInvKeeps, PTL DEF KSpec

=============================================================================
