----------------------------- MODULE MessageWait -----------------------------
(***************************************************************************)
(* StateManager::wait_for_message and get_receipt: a caller waits for a    *)
(* message to be executed.  The call subscribes to head changes, looks at  *)
(* the head, and then races two tasks: one reads the head changes that     *)
(* arrive, the other searches the ancestors of the head it had read.       *)
(*                                                                         *)
(* The chain store publishes Apply of each new head, and no Revert.        *)
(***************************************************************************)
EXTENDS Integers, Sequences, FiniteSets, FiniteSetsExt

CONSTANTS
    Genesis, ParentOf, HeightOf,     \* a tree of tipsets
    MsgsOf,         \* tipset -> the sender's messages in it [seq, id], in order
    target,         \* the message waited for
    Confidences,    \* the confidence the caller may ask for
    Heads,          \* the heads the chain store may take, in the order of weight
    QueueCap        \* capacity of the subscriber's channel

VARIABLES
    head,           \* index of the chain store's head in Heads
    queue,          \* head changes the subscriber has not read
    confidence,
    pc,             \* the call: new, subscribed, waiting, done
    current,        \* the head read by the call (height_of_head is its epoch)
    search,         \* [pc, ts]: the search back task
    sent,           \* whether the search task's signal is in the channel
    reverts,        \* tipsets put into the reverts map
    candidate,      \* the tipset waiting for confidence, or none
    result,         \* what the call returned: the tipset (or an
                    \* error) and the head at that moment
    receipt         \* get_receipt: [ts, found] of the last call

waitVars == <<head, queue, confidence, pc, current, search, sent, reverts, candidate,
              result, receipt>>

none == "none"
Tipsets == DOMAIN HeightOf
HeadTs == Heads[head]


\* tipset_executed_message: the last of the sender's messages in the parent
\* tipset with a sequence up to the target's.
tipset_executed_message(t) ==
    LET msgs == MsgsOf[ParentOf[t]]
        upto == {i \in DOMAIN msgs : msgs[i].seq <= target.seq}
    IN  IF HeightOf[t] = 0 \/ upto = {} THEN "none"
        ELSE IF msgs[Max(upto)] = target THEN "receipt"
        ELSE IF msgs[Max(upto)].seq = target.seq THEN "error" ELSE "none"

\* The sender's sequence in the parent state of a tipset.
SequenceIn[t \in Tipsets] ==
    IF t = Genesis THEN 0 ELSE SequenceIn[ParentOf[t]] + Len(MsgsOf[ParentOf[t]])

\* check_search: one step back.
check_search(t) ==
    IF HeightOf[t] = 0 \/ SequenceIn[t] = 0 \/ SequenceIn[t] < target.seq
    THEN [pc |-> "absent", ts |-> t]
    ELSE [pc |-> CASE tipset_executed_message(ParentOf[t]) = "receipt" -> "found"
                   [] tipset_executed_message(ParentOf[t]) = "error" -> "error"
                   [] OTHER -> "search",
          ts |-> ParentOf[t]]

\* search_back_for_message, as one computation.
search_back_for_message[t \in Tipsets] ==
    IF check_search(t).pc = "search" THEN search_back_for_message[ParentOf[t]]
    ELSE check_search(t)

\* get_receipt: the tipset itself, then its ancestors.
GetReceipt(t) ==
    /\ receipt' = [ts |-> t,
                   found |-> tipset_executed_message(t) = "receipt"
                             \/ search_back_for_message[t].pc = "found"]
    /\ UNCHANGED <<head, queue, confidence, pc, current, search, sent, reverts, candidate, result>>

(***************************************************************************)
(* wait_for_message.                                                       *)
(***************************************************************************)
WInit ==
    /\ head = 1 /\ queue = <<>>
    /\ confidence \in Confidences
    /\ pc = "new"
    /\ current = Genesis
    /\ search = [pc |-> "idle", ts |-> Genesis]
    /\ sent = FALSE /\ reverts = {} /\ candidate = none
    /\ result = [ts |-> none, head |-> Genesis]
    /\ receipt = [ts |-> Genesis, found |-> FALSE]

\* The chain store takes a heavier head and publishes it; a full channel loses
\* its oldest event.
NewHead ==
    /\ head < Len(Heads)
    /\ head' = head + 1
    /\ queue' = IF pc \in {"subscribed", "waiting"}
                THEN LET q == Append(queue, Heads[head'])
                     IN  IF Len(q) > QueueCap THEN Tail(q) ELSE q
                ELSE queue
    /\ UNCHANGED <<confidence, pc, current, search, sent, reverts, candidate, result, receipt>>

Subscribe ==
    /\ pc = "new"
    /\ pc' = "subscribed"
    /\ UNCHANGED <<head, queue, confidence, current, search, sent, reverts, candidate, result,
                   receipt>>

Done(t) ==
    /\ pc' = "done"
    /\ result' = [ts |-> t, head |-> HeadTs]

\* heaviest_tipset, then the check of that tipset, then the tasks are spawned.
ReadHead ==
    /\ pc = "subscribed"
    /\ current' = HeadTs
    /\ IF tipset_executed_message(HeadTs) = "none"
       THEN /\ pc' = "waiting"
            /\ search' = [pc |-> "search", ts |-> HeadTs]
            /\ UNCHANGED result
       ELSE /\ Done(IF tipset_executed_message(HeadTs) = "receipt" THEN HeadTs ELSE "error")
            /\ UNCHANGED search
    /\ UNCHANGED <<head, queue, confidence, sent, reverts, candidate, receipt>>

\* The search task: step by step, and a signal when it is over.
SearchStep ==
    /\ pc = "waiting" /\ search.pc = "search"
    /\ search' = check_search(search.ts)
    /\ sent' = (search'.pc \in {"found", "absent"})
    /\ UNCHANGED <<head, queue, confidence, pc, current, reverts, candidate, result, receipt>>

\* search_back_poll: what was found is returned if it is deep enough below the
\* head that was read and was not applied after the search; otherwise, as
\* when nothing was found, the other task goes on alone.
SearchEnds ==
    /\ pc = "waiting" /\ search.pc \in {"found", "absent", "error"}
    /\ search' = [search EXCEPT !.pc = "over"]
    /\ IF /\ search.pc = "found" /\ search.ts \notin reverts
          /\ HeightOf[current] >= HeightOf[search.ts] + confidence
       THEN Done(search.ts)
       ELSE UNCHANGED <<pc, result>>
    /\ UNCHANGED <<head, queue, confidence, current, sent, reverts, candidate, receipt>>

\* subscriber_poll: one Apply.
Poll ==
    /\ pc = "waiting" /\ queue # <<>>
    /\ queue' = Tail(queue)
    /\ LET t == Head(queue)
           executed == tipset_executed_message(t)
       IN  IF candidate # none /\ HeightOf[t] >= HeightOf[candidate] + confidence
           THEN Done(candidate) /\ UNCHANGED <<sent, reverts, candidate>>
           ELSE /\ sent' = FALSE
                /\ reverts' = IF sent THEN reverts \cup {t} ELSE reverts
                /\ candidate' = IF executed = "receipt" /\ confidence # 0 THEN t ELSE candidate
                /\ IF executed = "error" \/ (executed = "receipt" /\ confidence = 0)
                   THEN Done(IF executed = "error" THEN "error" ELSE t)
                   ELSE UNCHANGED <<pc, result>>
    /\ UNCHANGED <<head, confidence, current, search, receipt>>

Begin == Subscribe \/ ReadHead
Search == SearchStep \/ SearchEnds
WNext ==
    \/ NewHead
    \/ Begin
    \/ Search
    \/ Poll
    \/ \E t \in Tipsets : GetReceipt(t)

(***************************************************************************)
(* Properties.                                                             *)
(***************************************************************************)
\* A tipset and its ancestors.
Lineage[t \in Tipsets] == IF t = Genesis THEN {t} ELSE {t} \cup Lineage[ParentOf[t]]
\* The tipset of t's lineage whose parent holds the message, if there is one.
Executing(t) ==
    {u \in Lineage[t] \ {Genesis} :
        \E i \in DOMAIN MsgsOf[ParentOf[u]] : MsgsOf[ParentOf[u]][i] = target}

WTypeOK ==
    /\ head \in DOMAIN Heads /\ Len(queue) <= QueueCap
    /\ pc \in {"new", "subscribed", "waiting", "done"}
    /\ current \in Tipsets
    /\ search \in [pc : {"idle", "search", "found", "absent", "error", "over"}, ts : Tipsets]
    /\ candidate \in Tipsets \cup {none}

\* A tipset returned to the caller, by either task, executed the message; and
\* while a candidate waits for confidence it is one that did.
ReturnedHasMessage ==
    /\ result.ts \in Tipsets => result.ts \in Executing(result.ts)
    /\ candidate # none => candidate \in Executing(candidate)

\* The search back from a tipset, and get_receipt, find the message exactly
\* when the tipset's lineage executed it: the sender's sequence in the states
\* passed never ends it too early.
SearchIsComplete ==
    /\ receipt.found <=> Executing(receipt.ts) # {}
    /\ search.pc = "found" => search.ts \in Executing(current)
    /\ search.pc = "absent" => Executing(current) = {}

\* A message that was executed deep enough below the head the call read is
\* always returned, whatever heads arrive while the search runs.
OldMessageIsReturned ==
    (pc = "waiting" /\ \E u \in Executing(current) : HeightOf[current] >= HeightOf[u] + confidence)
        ~> (pc = "done")


=============================================================================
