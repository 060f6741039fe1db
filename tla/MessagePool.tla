---------------------------- MODULE MessagePool ----------------------------
(***************************************************************************)
(* The message pool (message_pool/src/msgpool): pushes over the RPC and    *)
(* messages from gossip, the task that follows the chain's head, the task  *)
(* that republishes local messages, the RPC's list of pending messages,    *)
(* and the part of message selection that works on the pool.               *)
(*                                                                         *)
(* A message is a record; two messages differ when their CIDs do.  A step  *)
(* ends where the code may wait for a lock another task can hold.  The     *)
(* lock of pending prefers writers: a task that asks for the write lock    *)
(* keeps out every later reader (async-lock, as async-std uses it).        *)
(* required_funds of a MsgSet is left out: only push_with_sequence reads   *)
(* it, which no caller can use (it wants a Provider that is a function).   *)
(***************************************************************************)
EXTENDS Integers, Sequences, FiniteSets, SequencesExt, FiniteSetsExt

CONSTANTS
    Addr,           \* senders
    Message,        \* [from, sequence, gas_premium, bls, low]; low: the fee
                    \* cap is below the lower bound that publishing asks for
    Tipset, Parent, \* the block tree
    Included,       \* [Tipset -> Seq(Seq(Message))]: the messages of its blocks
    Genesis,
    Call,           \* tasks that serve RPC calls or gossip
    RPC_BUFFER,     \* capacity of the channel of head changes
    TRIGGERS,       \* capacity of the republish trigger
    Reverts,        \* may the provider publish reverts? a subset of BOOLEAN
    MaxInputs       \* bound on calls, selections, head changes and timer ticks

VARIABLES
    pending,        \* HashMap<Address, MsgSet>, a partial function on Addr
    cur_tipset,
    local_addrs,
    bls_sig_cache,  \* the BLS messages whose signature is known
    republished,
    repub_trigger,  \* triggers in the channel
    writer,         \* who waits for the write lock of pending
    reader,         \* does MessagePool::pending hold its read lock?
    keystore,       \* the RPC call that holds the lock of the key store
    call,           \* [Call -> what the call is about to do]
    change,         \* the head change task
    repub,          \* the republish task
    select,         \* a call of select_messages; took: what it removed from pending
    events,         \* the channel of head changes
    head,           \* the tipset published last
    reverts,        \* does the provider publish reverts?
    budget          \* the inputs still to come

pool == <<pending, cur_tipset, local_addrs, bls_sig_cache, republished, repub_trigger>>
tasks == <<call, change, repub, select>>
vars == <<pool, tasks, writer, reader, keystore, events, head, reverts, budget>>

NoOne == "no one"
Nobody == [pc |-> "idle"]
Quiet == [pc |-> "idle", failed |-> FALSE]
NoSelect == [pc |-> "idle", took |-> {}]

Input == budget > 0 /\ budget' = budget - 1

-----------------------------------------------------------------------------
\* The chain, as the provider shows it.

ChainOf[ts \in Tipset] == {ts} \cup IF ts = Genesis THEN {} ELSE ChainOf[Parent[ts]]

MessagesOf(ts) == UNION {ToSet(Included[ts][i]) : i \in DOMAIN Included[ts]}

\* get_actor_after reads the parent state of ts: ts's own messages are not in it.
StateSequence(ts, addr) ==
    Cardinality({m.sequence : m \in {x \in UNION {MessagesOf(t) : t \in ChainOf[ts] \ {ts}} : x.from = addr}})

-----------------------------------------------------------------------------
\* MsgSet, and the pending map of them.

SameSlot(m, x) == m.from = x.from /\ m.sequence = x.sequence

At(mset, seq) == {m \in mset.msgs : m.sequence = seq}

MinPrice(premium) == premium + (premium * 64) \div 256 + 1

\* The error of MsgSet::add leaves the set as it is, except for next_sequence.
AddFails(mset, m) == \E e \in At(mset, m.sequence) : m = e \/ m.gas_premium <= MinPrice(e.gas_premium)

\* Mutant: next_sequence itself does not move next_sequence.
MsgSetAddAfter(mset, m) ==
    [next_sequence |-> IF mset.msgs = {} \/ m.sequence > mset.next_sequence
                       THEN m.sequence + 1 ELSE mset.next_sequence,
     msgs |-> IF AddFails(mset, m) THEN mset.msgs ELSE (mset.msgs \ At(mset, m.sequence)) \cup {m}]

MsgSetAdd(mset, m) ==
    [next_sequence |-> IF mset.msgs = {} \/ m.sequence >= mset.next_sequence
                       THEN m.sequence + 1 ELSE mset.next_sequence,
     msgs |-> IF AddFails(mset, m) THEN mset.msgs ELSE (mset.msgs \ At(mset, m.sequence)) \cup {m}]

\* MsgSet::rm of a sequence that a tipset applied.
MsgSetRm(mset, seq) ==
    LET free == CHOOSE n \in seq + 1 .. seq + 1 + Cardinality(mset.msgs) :
                    At(mset, n) = {} /\ \A k \in seq + 1 .. n - 1 : At(mset, k) # {}
    IN  [msgs |-> mset.msgs \ At(mset, seq),
         next_sequence |-> IF seq < mset.next_sequence THEN mset.next_sequence
                           ELSE IF At(mset, seq) = {} THEN free ELSE seq + 1]

MsgSetOf(addr, ts) ==
    IF addr \in DOMAIN pending THEN pending[addr]
    ELSE [msgs |-> {}, next_sequence |-> StateSequence(ts, addr)]

\* add_helper: the set of a sender that had none is kept only when the add succeeds.
AddHelper(m, ts) ==
    /\ bls_sig_cache' = IF m.bls THEN bls_sig_cache \cup {m} ELSE bls_sig_cache
    /\ pending' = [a \in DOMAIN pending \cup {m.from} |->
                     IF a = m.from THEN MsgSetAdd(MsgSetOf(a, ts), m) ELSE pending[a]]

\* remove(.., applied = true): a set that becomes empty is dropped.
RemoveSequence(addr, seq) ==
    pending' = IF addr \notin DOMAIN pending THEN pending
               ELSE LET mset == MsgSetRm(pending[addr], seq)
                    IN  [a \in {b \in DOMAIN pending : b # addr \/ mset.msgs # {}} |->
                            IF a = addr THEN mset ELSE pending[a]]

-----------------------------------------------------------------------------
\* The locks.  The republish task holds a read guard of cur_tipset for a while.

CanRead == writer = NoOne
CanWrite(p) == ~reader /\ writer \in {NoOne, p}

ChangeWantsCur == change.pc = "rewind" \/ (change.pc = "next" /\ change.apply /\ change.blocks = <<>>)
CanReadCur == ~(repub.pc = "collect" /\ ChangeWantsCur)
CanWriteCur == repub.pc # "collect"

AboutToWrite(p) ==
    \/ p \in Call /\ call[p].pc = "insert"
    \/ p = "change" /\ change.pc \in {"remove", "readd"}
    \/ p = "select" /\ select.pc = "remove" /\ \E m \in select.todo : \A x \in select.rmsgs : ~SameSlot(x, m)

\* A task asks for the write lock while pending() holds its read lock.
AskWrite(p) ==
    /\ reader /\ writer = NoOne
    /\ AboutToWrite(p)
    /\ writer' = p
    /\ UNCHANGED <<pool, tasks, reader, keystore, events, head, reverts, budget>>

\* MessagePool::pending: with its read lock it takes the same lock again for
\* every sender, and that of cur_tipset.
PendingBegin ==
    /\ ~reader /\ CanRead /\ Input
    /\ reader' = TRUE
    /\ UNCHANGED <<pool, tasks, writer, keystore, events, head, reverts>>

PendingEnd ==
    /\ reader
    /\ CanReadCur
    /\ pending # <<>> => CanRead
    /\ reader' = FALSE
    /\ UNCHANGED <<pool, tasks, writer, keystore, events, head, reverts, budget>>

-----------------------------------------------------------------------------
\* Pushes over the RPC and messages from gossip.

\* add_tipset, up to add_helper.
Accepts(m, local) ==
    /\ StateSequence(cur_tipset, m.from) <= m.sequence
    /\ m.low => local

\* push, and add (local = FALSE), of a message that passes check_message.
Push(c, m, local) ==
    /\ call[c].pc = "idle" /\ Input
    /\ CanReadCur
    /\ Accepts(m, local)
    /\ call' = [call EXCEPT ![c] = [pc |-> "insert", m |-> m, local |-> local]]
    /\ UNCHANGED <<pool, change, repub, select, writer, reader, keystore, events, head, reverts>>

\* mpool_push_message holds the key store while it finds the sequence and pushes.
MpoolPushMessage(c, addr) ==
    /\ call[c].pc = "idle" /\ Input
    /\ keystore = NoOne /\ CanReadCur
    /\ keystore' = c
    /\ call' = [call EXCEPT ![c] = [pc |-> "sequence", from |-> addr, ts |-> cur_tipset]]
    /\ UNCHANGED <<pool, change, repub, select, writer, reader, events, head, reverts>>

\* get_sequence, once it has read cur_tipset.
GetSequence(addr, ts) ==
    LET sequence == StateSequence(ts, addr)
    IN  IF addr \in DOMAIN pending /\ pending[addr].next_sequence >= sequence
        THEN pending[addr].next_sequence ELSE sequence

SignMessage(c) ==
    /\ call[c].pc = "sequence" /\ CanRead
    /\ \E m \in Message :
         /\ m.from = call[c].from
         /\ m.sequence = GetSequence(call[c].from, call[c].ts)
         /\ call' = [call EXCEPT ![c] = [pc |-> "push", m |-> m]]
    /\ UNCHANGED <<pool, change, repub, select, writer, reader, keystore, events, head, reverts, budget>>

Release(c) == keystore' = IF keystore = c THEN NoOne ELSE keystore

PushSigned(c) ==
    /\ call[c].pc = "push" /\ CanReadCur
    /\ \/ /\ Accepts(call[c].m, TRUE)
          /\ call' = [call EXCEPT ![c] = [pc |-> "insert", m |-> @.m, local |-> TRUE]]
          /\ UNCHANGED keystore
       \/ /\ ~Accepts(call[c].m, TRUE)
          /\ call' = [call EXCEPT ![c] = Nobody]
          /\ Release(c)
    /\ UNCHANGED <<pool, change, repub, select, writer, reader, events, head, reverts, budget>>

Insert(c) ==
    /\ call[c].pc = "insert" /\ CanWrite(c)
    /\ writer' = NoOne
    /\ LET m == call[c].m
           failed == m.from \in DOMAIN pending /\ AddFails(pending[m.from], m)
       IN  /\ AddHelper(m, cur_tipset)
           /\ \/ /\ call[c].local /\ ~failed
                 /\ call' = [call EXCEPT ![c] = [pc |-> "local", m |-> m]]
                 /\ UNCHANGED keystore
              \/ /\ failed \/ ~call[c].local
                 /\ call' = [call EXCEPT ![c] = Nobody]
                 /\ Release(c)
    /\ UNCHANGED <<cur_tipset, local_addrs, republished, repub_trigger, change, repub, select,
                   reader, events, head, reverts, budget>>

AddLocal(c) ==
    /\ call[c].pc = "local"
    /\ local_addrs' = local_addrs \cup {call[c].m.from}
    /\ call' = [call EXCEPT ![c] = Nobody]
    /\ Release(c)
    /\ UNCHANGED <<pending, cur_tipset, bls_sig_cache, republished, repub_trigger, change, repub, select,
                   writer, reader, events, head, reverts, budget>>

-----------------------------------------------------------------------------
\* Head changes.  The channel drops its oldest event for a reader that lags.

Send(e) == events' = IF Len(events) = RPC_BUFFER THEN Append(Tail(events), e) ELSE Append(events, e)

\* The chain store publishes Apply of its new head, whatever the old one was.
Publish ==
    /\ Input
    /\ \/ \E ts \in Tipset \ {head} :
            /\ reverts => ts # Genesis /\ Parent[ts] = head
            /\ head' = ts
            /\ Send([apply |-> TRUE, ts |-> ts])
       \/ /\ reverts /\ head # Genesis
          /\ head' = Parent[head]
          /\ Send([apply |-> FALSE, ts |-> head])
    /\ UNCHANGED <<pool, tasks, writer, reader, keystore, reverts>>

ReceiveHeadChange ==
    /\ change.pc = "idle" /\ events # <<>>
    /\ LET e == Head(events)
       IN  change' = [pc |-> IF e.apply THEN "next" ELSE "rewind", apply |-> e.apply, ts |-> e.ts,
                      blocks |-> Included[e.ts], msgs |-> <<>>, rmsgs |-> {}, repub |-> FALSE]
    /\ events' = Tail(events)
    /\ UNCHANGED <<pool, call, repub, select, writer, reader, keystore, head, reverts, budget>>

\* head_change of a revert: first cur_tipset goes back to the parent.
Rewind ==
    /\ change.pc = "rewind" /\ CanWriteCur
    /\ cur_tipset' = Parent[change.ts]
    /\ change' = [change EXCEPT !.pc = "next"]
    /\ UNCHANGED <<pending, local_addrs, bls_sig_cache, republished, repub_trigger, call, repub, select,
                   writer, reader, keystore, events, head, reverts, budget>>


\* add_to_selected_msgs for a list of messages: later ones take the slot.
AddToSelected(rmsgs, msgs) ==
    FoldLeft(LAMBDA acc, m : {x \in acc : ~SameSlot(x, m)} \cup {m}, rmsgs, msgs)

\* Reading the messages of a block may fail, and so may finding the signature
\* of a BLS message that the pool never held: the head change ends there.
NextBlock ==
    /\ change.pc = "next" /\ change.blocks # <<>>
    /\ LET msgs == Head(change.blocks)
           signed == \A m \in ToSet(msgs) : m.bls => m \in bls_sig_cache
       IN  change' \in
             {[Quiet EXCEPT !.failed = TRUE]} \cup
             (IF change.apply
              THEN {[change EXCEPT !.blocks = Tail(@), !.msgs = msgs,
                                   !.pc = IF msgs = <<>> THEN "next" ELSE "remove"]}
              ELSE IF signed
              THEN {[change EXCEPT !.blocks = Tail(@), !.rmsgs = AddToSelected(@, msgs)]}
              ELSE {})
    /\ UNCHANGED <<pool, call, repub, select, writer, reader, keystore, events, head, reverts, budget>>

\* remove_from_selected_msgs for a message of an applied tipset, and the mark
\* in republished, which asks for a republish when the message is new there.
RemoveApplied ==
    /\ change.pc = "remove" /\ CanWrite("change")
    /\ writer' = NoOne
    /\ LET m == Head(change.msgs)
       IN  /\ RemoveSequence(m.from, m.sequence)
           /\ republished' = IF change.repub THEN republished ELSE republished \cup {m}
           /\ change' = [change EXCEPT !.msgs = Tail(@), !.repub = @ \/ m \notin republished,
                                       !.pc = IF Tail(change.msgs) = <<>> THEN "next" ELSE "remove"]
    /\ UNCHANGED <<cur_tipset, local_addrs, bls_sig_cache, repub_trigger, call, repub, select,
                   reader, keystore, events, head, reverts, budget>>

\* Mutant: cur_tipset stays behind.
EndApplyBehind ==
    /\ change.pc = "next" /\ change.apply /\ change.blocks = <<>> /\ CanWriteCur
    /\ change' = IF change.repub THEN [change EXCEPT !.pc = "trigger"] ELSE Quiet
    /\ UNCHANGED <<pool, call, repub, select, writer, reader, keystore, events, head, reverts, budget>>

EndApply ==
    /\ change.pc = "next" /\ change.apply /\ change.blocks = <<>> /\ CanWriteCur
    /\ cur_tipset' = change.ts
    /\ change' = IF change.repub THEN [change EXCEPT !.pc = "trigger"] ELSE Quiet
    /\ UNCHANGED <<pending, local_addrs, bls_sig_cache, republished, repub_trigger, call, repub, select,
                   writer, reader, keystore, events, head, reverts, budget>>

Trigger ==
    /\ change.pc = "trigger" /\ repub_trigger < TRIGGERS
    /\ repub_trigger' = repub_trigger + 1
    /\ change' = Quiet
    /\ UNCHANGED <<pending, cur_tipset, local_addrs, bls_sig_cache, republished, call, repub, select,
                   writer, reader, keystore, events, head, reverts, budget>>

EndRevert ==
    /\ change.pc = "next" /\ ~change.apply /\ change.blocks = <<>>
    /\ change' = IF change.rmsgs = {} THEN Quiet ELSE [change EXCEPT !.pc = "readd"]
    /\ UNCHANGED <<pool, call, repub, select, writer, reader, keystore, events, head, reverts, budget>>

\* A reverted message goes back; an error of add_helper is only logged.
Readd ==
    /\ change.pc = "readd" /\ CanWrite("change")
    /\ writer' = NoOne
    /\ \E m \in change.rmsgs :
         /\ AddHelper(m, cur_tipset)
         /\ change' = IF change.rmsgs = {m} THEN Quiet ELSE [change EXCEPT !.rmsgs = @ \ {m}]
    /\ UNCHANGED <<cur_tipset, local_addrs, republished, repub_trigger, call, repub, select,
                   reader, keystore, events, head, reverts, budget>>

-----------------------------------------------------------------------------
\* republish_pending_messages, started by its timer or by a trigger.

RepubBegin ==
    /\ repub.pc = "idle" /\ CanReadCur
    /\ \/ repub_trigger > 0 /\ repub_trigger' = repub_trigger - 1 /\ UNCHANGED budget
       \/ Input /\ UNCHANGED repub_trigger
    /\ repub' = [pc |-> "collect"]
    /\ republished' = {}
    /\ UNCHANGED <<pending, cur_tipset, local_addrs, bls_sig_cache, call, change, select,
                   writer, reader, keystore, events, head, reverts>>

\* What create_message_chains can use: no gap from the state's sequence on.
Includable(addr, msgs, ts) ==
    {m \in msgs : \A n \in StateSequence(ts, addr) .. m.sequence : \E x \in msgs : x.sequence = n}

\* Which of the chains fit, and whose fee caps are high enough, is left open.
RepubCollect ==
    /\ repub.pc = "collect" /\ CanRead
    /\ \E msgs \in SUBSET UNION {Includable(a, pending[a].msgs, cur_tipset) : a \in local_addrs \cap DOMAIN pending} :
         repub' = IF msgs = {} THEN Nobody ELSE [pc |-> "send", msgs |-> msgs]
    /\ UNCHANGED <<pool, call, change, select, writer, reader, keystore, events, head, reverts, budget>>

RepubEnd ==
    /\ repub.pc = "send"
    /\ republished' = repub.msgs
    /\ repub' = Nobody
    /\ UNCHANGED <<pending, cur_tipset, local_addrs, bls_sig_cache, repub_trigger, call, change, select,
                   writer, reader, keystore, events, head, reverts, budget>>

-----------------------------------------------------------------------------
\* select_messages for another tipset than cur_tipset: get_pending_messages
\* copies the pending messages, and run_head_change brings the copy to ts.

SelectBegin(ts) ==
    /\ select.pc = "idle" /\ Input
    /\ CanReadCur /\ CanRead
    /\ ts # cur_tipset
    /\ LET left == ChainOf[cur_tipset] \ ChainOf[ts]
           right == ChainOf[ts] \ ChainOf[cur_tipset]
           copy == UNION {pending[a].msgs : a \in DOMAIN pending}
           back == {m \in UNION {MessagesOf(t) : t \in left} : ~m.bls}
       IN  select' = [pc |-> "remove", took |-> select.took, todo |-> UNION {MessagesOf(t) : t \in right},
                      rmsgs |-> {m \in copy : \A x \in back : ~SameSlot(m, x)} \cup back]
    /\ UNCHANGED <<pool, call, change, repub, writer, reader, keystore, events, head, reverts>>

SelectRemove ==
    /\ select.pc = "remove"
    /\ \E m \in select.todo :
         /\ \/ /\ \E x \in select.rmsgs : SameSlot(x, m)
               /\ select' = [select EXCEPT !.todo = @ \ {m}, !.rmsgs = {x \in @ : ~SameSlot(x, m)}]
               /\ UNCHANGED <<pending, writer>>
            \/ /\ \A x \in select.rmsgs : ~SameSlot(x, m)
               /\ select' = [select EXCEPT !.todo = @ \ {m}, !.took = @ \cup {m}]
               /\ CanWrite("select")
               /\ writer' = NoOne
               /\ RemoveSequence(m.from, m.sequence)
    /\ UNCHANGED <<cur_tipset, local_addrs, bls_sig_cache, republished, repub_trigger, call, change, repub,
                   reader, keystore, events, head, reverts, budget>>

SelectEnd ==
    /\ select.pc = "remove" /\ select.todo = {}
    /\ select' = [NoSelect EXCEPT !.took = select.took]
    /\ UNCHANGED <<pool, call, change, repub, writer, reader, keystore, events, head, reverts, budget>>

-----------------------------------------------------------------------------

Init ==
    /\ pending = <<>>
    /\ cur_tipset = Genesis /\ head = Genesis
    /\ local_addrs = {} /\ bls_sig_cache = {} /\ republished = {}
    /\ repub_trigger = 0
    /\ writer = NoOne /\ reader = FALSE /\ keystore = NoOne
    /\ call = [c \in Call |-> Nobody]
    /\ change = Quiet
    /\ repub = Nobody /\ select = NoSelect
    /\ events = <<>>
    /\ reverts \in Reverts
    /\ budget = MaxInputs

CallStep(c) == SignMessage(c) \/ PushSigned(c) \/ Insert(c) \/ AddLocal(c) \/ AskWrite(c)

ChangeStep ==
    \/ ReceiveHeadChange \/ Rewind \/ NextBlock \/ RemoveApplied \/ EndApply
    \/ Trigger \/ EndRevert \/ Readd \/ AskWrite("change")

SelectStep == SelectRemove \/ SelectEnd \/ AskWrite("select")

Next ==
    \/ PendingBegin \/ PendingEnd
    \/ \E c \in Call : \/ \E m \in Message, local \in BOOLEAN : Push(c, m, local)
                       \/ \E addr \in Addr : MpoolPushMessage(c, addr)
                       \/ CallStep(c)
    \/ Publish \/ ChangeStep
    \/ RepubBegin \/ RepubCollect \/ RepubEnd
    \/ \E ts \in Tipset : SelectBegin(ts)
    \/ SelectStep

\* Every task that can go on goes on; nobody need call, and no head need change.
Fairness ==
    /\ WF_vars(PendingEnd)
    /\ \A c \in Call : WF_vars(CallStep(c))
    /\ WF_vars(ChangeStep)
    /\ WF_vars(RepubBegin) /\ WF_vars(RepubCollect) /\ WF_vars(RepubEnd)
    /\ WF_vars(SelectStep)

Spec == Init /\ [][Next]_vars /\ Fairness

-----------------------------------------------------------------------------

TypeOK ==
    /\ DOMAIN pending \subseteq Addr
    /\ \A a \in DOMAIN pending : /\ pending[a].next_sequence \in Nat
                                 /\ pending[a].msgs \subseteq {m \in Message : m.from = a}
    /\ cur_tipset \in Tipset /\ head \in Tipset
    /\ local_addrs \subseteq Addr
    /\ bls_sig_cache \subseteq {m \in Message : m.bls}
    /\ republished \subseteq Message
    /\ repub_trigger \in 0 .. TRIGGERS
    /\ reader \in BOOLEAN
    /\ keystore \in Call \cup {NoOne}
    /\ writer # NoOne => AboutToWrite(writer)
    /\ \A c \in Call : call[c].pc \in {"sequence", "push"} => keystore = c
    /\ Len(events) <= RPC_BUFFER

\* Whatever the order of adds, removals of applied messages and selections, a
\* sender's set holds one message per sequence, is never empty, and its
\* next_sequence is beyond all of them: get_sequence never gives a new message
\* the sequence of a pending one.
NextSequenceIsFree ==
    \A a \in DOMAIN pending :
        /\ pending[a].msgs # {}
        /\ \A m \in pending[a].msgs : /\ m.sequence < pending[a].next_sequence
                                      /\ At(pending[a], m.sequence) = {m}

\* A pending message leaves the pool only when the tipset being applied, or the
\* chain a selection looks at, has a message of its sender with its sequence,
\* or when a message that pays enough more takes its place.
LeavesForAReason ==
    [][\A a \in DOMAIN pending : \A m \in pending[a].msgs :
          \/ a \in DOMAIN pending' /\ m \in pending'[a].msgs
          \/ /\ a \in DOMAIN pending'
             /\ \E x \in pending'[a].msgs : SameSlot(x, m) /\ 4 * x.gas_premium >= 5 * m.gas_premium + 4
          \/ change.pc = "remove" /\ \E x \in MessagesOf(change.ts) : SameSlot(x, m)
          \/ select.pc = "remove" /\ \E x \in select.todo : SameSlot(x, m)]_vars

\* A revert that ends without an error has put the tipset's messages back: each
\* one's sequence is pending, if no selection took it out.
RevertedComesBack ==
    [][change.pc = "readd" /\ change'.pc = "idle" =>
          \A m \in MessagesOf(change.ts) :
              \/ m.from \in DOMAIN pending' /\ At(pending'[m.from], m.sequence) # {}
              \/ \E x \in select.took : SameSlot(x, m)]_vars

\* The pool follows the head: once the head stays, cur_tipset becomes the tipset
\* published last, unless the last head change failed.  The one thing that can
\* stop it is a call of pending() that waits for ever for a lock.
FollowsHead ==
    \/ <>[](cur_tipset = head \/ (change.pc = "idle" /\ change.failed))
    \/ <>[]reader

\* The pool's sets are sound, so that get_sequence gives a new message a sequence
\* that is free.
PoolIsSound == TypeOK /\ NextSequenceIsFree


=============================================================================
