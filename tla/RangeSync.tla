----------------------------- MODULE RangeSync ------------------------------
(***************************************************************************)
(* Syncing a tipset range: sync_tipset_range with sync_headers_in_reverse, *)
(* sync_messages_check_state and validate_tipset, the sync_tipset tasks    *)
(* beside it, and the bad block cache (chain_sync/src/tipset_syncer.rs).   *)
(* A tipset is the set of its blocks.  A peer that answers a request does  *)
(* so with a part of the real chain that is not empty; whether a block is  *)
(* valid in itself is a constant.  The cache is large enough to keep what  *)
(* is put into it.                                                         *)
(***************************************************************************)
EXTENDS Integers, SequencesExt

CONSTANTS
    Block,
    Genesis,                    \* the genesis block
    Tipset,                     \* the tipsets of the network's and the local chains
    Epoch, Parents,             \* of each block
    Invalid,                    \* the blocks that fail a check of validate_block
    Early,                      \* the blocks whose timestamp may be ahead of the clock
    LocalHead,                  \* the heads the node may start with
    Gossiped,                   \* bound: the blocks that come by gossip
    MAX_TIPSETS_TO_REQUEST,     \* 500
    FORK_LENGTH_THRESHOLD,      \* 500
    PartialForkAnswer           \* may a peer answer the fork request in part?

VARIABLES
    head,           \* the head of the chain store
    headers,        \* the blocks whose headers are stored
    messages,       \* the blocks whose messages are stored
    validated,      \* the blocks marked as validated
    bad,            \* the bad block cache
    task            \* the range that is synced

vars == <<head, headers, messages, validated, bad, task>>

NoTipset == {}
ep(ts) == Epoch[CHOOSE b \in ts : TRUE]
par(ts) == Parents[CHOOSE b \in ts : TRUE]

\* The chain from a tipset down, as far as n tipsets.
ChainDown(ts, n) ==
    LET down[i \in 1 .. n] ==
          IF i = 1 THEN <<ts>>
          ELSE IF par(Last(down[i - 1])) = NoTipset THEN down[i - 1]
          ELSE Append(down[i - 1], par(Last(down[i - 1])))
    IN  down[n]

Ancestors(ts) == {t \in Tipset : \E i \in 1 .. ep(ts) + 1 : t \in Range(ChainDown(ts, i))}
AncestorBlocks(ts) == UNION Ancestors(ts)

Idle ==
    [pc |-> "idle", proposed |-> NoTipset, current |-> NoTipset, parents |-> <<>>,
     blocks |-> {}, answer |-> <<>>, searched |-> <<>>, ancestor |-> NoTipset,
     fork_length |-> 0, result |-> "none"]

Pc == {"idle", "headers", "ask", "answer", "fork_ask", "fork", "persist", "messages"}

TypeOK ==
    /\ head \in Tipset
    /\ headers \cup messages \cup validated \cup bad \subseteq Block
    /\ task.pc \in Pc
    /\ {task.proposed, task.current, task.ancestor} \subseteq Tipset \cup {NoTipset}
    /\ UNION {Range(task.parents), Range(task.answer), Range(task.searched)} \subseteq Tipset
    /\ task.blocks \subseteq Block
    /\ task.fork_length \in 0 .. FORK_LENGTH_THRESHOLD
    /\ task.answer # <<>> => task.pc \in {"answer", "fork"}

Init ==
    /\ head \in LocalHead
    /\ headers = AncestorBlocks(head)
    /\ messages = AncestorBlocks(head)
    /\ validated = AncestorBlocks(head)
    /\ bad = {}
    /\ task = Idle

-----------------------------------------------------------------------------
(* The headers of the range, from the proposed head backwards *)

\* The task ends with a result.
End(result) == task' = [Idle EXCEPT !.result = result]

StartRange(ts) ==
    /\ task.pc = "idle"
    /\ ts # head
    /\ ep(ts) >= ep(head)
    /\ task' = [Idle EXCEPT !.pc = "headers", !.proposed = ts, !.current = head, !.parents = <<ts>>]
    /\ UNCHANGED <<head, headers, messages, validated, bad>>

\* validate_tipset_against_cache fails: the descendants seen are bad, too.
ContainsBadBlock(ts) ==
    /\ ts \cap bad # {}
    /\ bad' = bad \cup task.blocks
    /\ End("TipsetRangeWithBadBlock")

Push(ts) ==
    task' = [task EXCEPT !.parents = Append(@, ts), !.blocks = @ \cup ts, !.answer = <<>>, !.pc = "headers"]

\* The range is complete: the local chain was a fork when the oldest tipset
\* and the current head have different parents.
EndOfRange ==
    task' = [task EXCEPT !.pc = IF par(Last(task.parents)) # par(task.current) THEN "fork_ask" ELSE "persist",
                         !.answer = <<>>]

\* An iteration of the loop, down to the request.
HeadersLoop ==
    LET oldest == Last(task.parents)
    IN  /\ task.pc = "headers"
        /\ \/ ContainsBadBlock(par(oldest))
           \/ /\ par(oldest) \cap bad = {}
              /\ UNCHANGED bad
              /\ \/ /\ ep(oldest) <= ep(task.current)
                    /\ EndOfRange
                 \/ /\ ep(oldest) > ep(task.current)
                    /\ par(oldest) \subseteq headers
                    /\ Push(par(oldest))
                 \/ /\ ep(oldest) > ep(task.current)
                    /\ ~(par(oldest) \subseteq headers)
                    /\ task' = [task EXCEPT !.pc = "ask"]
        /\ UNCHANGED <<head, headers, messages, validated>>

\* Mutant: a request that failed is made again.
NetworkFailsRetries ==
    /\ task.pc \in {"ask", "fork_ask"}
    /\ task' = [task EXCEPT !.pc = "headers"]
    /\ UNCHANGED <<head, headers, messages, validated, bad>>

NetworkFails ==
    /\ task.pc \in {"ask", "fork_ask"}
    /\ End("NetworkTipsetQueryFailed")
    /\ UNCHANGED <<head, headers, messages, validated, bad>>

HeadersAnswer ==
    LET oldest == Last(task.parents)
        epoch_diff == ep(oldest) - ep(task.current)
        window == IF epoch_diff < MAX_TIPSETS_TO_REQUEST THEN epoch_diff ELSE MAX_TIPSETS_TO_REQUEST
    IN  /\ task.pc = "ask"
        /\ \E n \in 1 .. window :
             task' = [task EXCEPT !.pc = "answer", !.answer = ChainDown(par(oldest), n)]
        /\ UNCHANGED <<head, headers, messages, validated, bad>>

\* One tipset of the answer.
TakeHeader ==
    LET ts == Head(task.answer)
    IN  /\ task.pc = "answer"
        /\ \/ /\ task.answer = <<>>
              /\ task' = [task EXCEPT !.pc = "headers"]
              /\ UNCHANGED bad
           \/ /\ task.answer # <<>>
              /\ ep(ts) < ep(task.current)
              /\ EndOfRange
              /\ UNCHANGED bad
           \/ /\ task.answer # <<>>
              /\ ep(ts) >= ep(task.current)
              /\ ContainsBadBlock(ts)
           \/ /\ task.answer # <<>>
              /\ ep(ts) >= ep(task.current)
              /\ ts \cap bad = {}
              /\ task' = [task EXCEPT !.parents = Append(@, ts), !.blocks = @ \cup ts, !.answer = Tail(@)]
              /\ UNCHANGED bad
        /\ UNCHANGED <<head, headers, messages, validated>>

-----------------------------------------------------------------------------
(* The search for a common ancestor *)

ForkAnswer ==
    LET oldest == Last(task.parents)
    IN  /\ task.pc = "fork_ask"
        /\ par(oldest) # NoTipset
        /\ IF par(task.current) = NoTipset \/ ~(par(task.current) \subseteq headers)
           THEN End("ChainStore")
           ELSE \E n \in (IF PartialForkAnswer THEN 1 ELSE FORK_LENGTH_THRESHOLD) .. FORK_LENGTH_THRESHOLD :
                  task' = [task EXCEPT !.pc = "fork", !.answer = ChainDown(par(oldest), n),
                                       !.ancestor = par(task.current), !.fork_length = 1]
        /\ UNCHANGED <<head, headers, messages, validated, bad>>

\* One iteration over the fork's tipsets; the last one that is skipped ends
\* the loop as a found ancestor does, with nothing added.
ForkLoop ==
    LET ts == Head(task.answer)
        rest == [task EXCEPT !.answer = Tail(@), !.searched = Append(@, ts)]
    IN  /\ task.pc = "fork"
        /\ CASE task.answer = <<>> -> task' = [task EXCEPT !.pc = "persist", !.searched = <<>>]
             [] task.answer # <<>> /\ ep(ts) = 0 -> End("ForkAtGenesisBlock")
             [] task.answer # <<>> /\ ep(ts) # 0 /\ task.ancestor = ts ->
                  task' = [rest EXCEPT !.pc = "persist", !.parents = @ \o rest.searched,
                                       !.answer = <<>>, !.searched = <<>>]
             [] task.answer # <<>> /\ ep(ts) # 0 /\ task.ancestor # ts ->
                  CASE ep(task.ancestor) < ep(ts) -> task' = rest
                    [] ep(task.ancestor) >= ep(ts) /\ task.fork_length = FORK_LENGTH_THRESHOLD ->
                         End("ChainForkLengthExceedsMaximum")
                    [] ep(task.ancestor) >= ep(ts) /\ task.fork_length < FORK_LENGTH_THRESHOLD ->
                         IF rest.answer = <<>> THEN End("ChainForkLengthExceedsFinalityThreshold")
                         ELSE IF par(task.ancestor) = NoTipset THEN End("ChainStore")
                         ELSE task' = [rest EXCEPT !.ancestor = par(@), !.fork_length = @ + 1]
        /\ UNCHANGED <<head, headers, messages, validated, bad>>

-----------------------------------------------------------------------------
(* Messages and validation, from the oldest tipset up *)


Persist ==
    /\ task.pc = "persist"
    /\ headers' = headers \cup UNION Range(task.parents)
    /\ task' = [task EXCEPT !.pc = "messages", !.parents = Reverse(@)]
    /\ UNCHANGED <<head, messages, validated, bad>>

\* The errors after which a block is not marked bad.
NotMarked == {"TimeTravellingBlock", "TipsetParentNotFound"}

\* What validate_block may return.  The values a header must have are looked
\* at before its parents, the clock before the rest.  The state of the parent
\* tipset can be computed when its messages are stored.
ValidateBlock(b) ==
    CASE b \in validated -> {"ok"}
      [] b \notin validated /\ ~(Parents[b] \subseteq headers) ->
           {"TipsetParentNotFound"} \cup (IF b \in Invalid THEN {"Validation"} ELSE {})
      [] b \notin validated /\ Parents[b] \subseteq headers ->
           (IF b \in Early THEN {"TimeTravellingBlock"} ELSE {})
           \cup {IF b \in Invalid \/ ~(Parents[b] \subseteq messages) THEN "Validation" ELSE "ok"}

\* validate_tipset: all blocks are valid, or the first error to come in ends
\* it, while blocks whose tasks go on may still be marked as validated.
TipsetValid(ts) ==
    /\ \A b \in ts : b = Genesis \/ "ok" \in ValidateBlock(b)
    /\ validated' = validated \cup ts
    /\ messages' = messages \cup ts

TipsetInvalid(ts, strict) ==
    \E b \in ts \ {Genesis} : \E error \in ValidateBlock(b) \ {"ok"} :
        /\ \E others \in SUBSET {c \in ts \ {b} : "ok" \in ValidateBlock(c)} :
             validated' = validated \cup others
        /\ bad' = IF strict /\ error \notin NotMarked THEN bad \cup {b} ELSE bad
        /\ End(error)
        /\ UNCHANGED messages

\* The next tipset: its messages are stored, or a peer sends them.
CheckState ==
    LET ts == Head(task.parents)
    IN  /\ task.pc = "messages"
        /\ task.parents # <<>>
        /\ \/ /\ TipsetValid(ts)
              /\ task' = [task EXCEPT !.parents = Tail(@)]
              /\ UNCHANGED bad
           \/ TipsetInvalid(ts, TRUE)
           \/ /\ ~(ts \subseteq messages)
              /\ End("NetworkMessageQueryFailed")
              /\ UNCHANGED <<messages, validated, bad>>
        /\ UNCHANGED <<head, headers>>

\* Mutant: the last tipset is not validated.
PutTipsetEarly ==
    /\ task.pc = "messages"
    /\ Len(task.parents) <= 1
    /\ head' \in {head, task.proposed}
    /\ End("ok")
    /\ UNCHANGED <<headers, messages, validated, bad>>

\* put_tipset: whether the tipset is heavier than the head is left open.
PutTipset ==
    /\ task.pc = "messages"
    /\ task.parents = <<>>
    /\ head' \in {head, task.proposed}
    /\ End("ok")
    /\ UNCHANGED <<headers, messages, validated, bad>>

\* sync_tipset for a tipset that was added to the range.  Its error ends the
\* range.
SyncTipset(ts) ==
    /\ task.pc # "idle"
    /\ ts # task.proposed
    /\ ep(ts) = ep(task.proposed)
    /\ par(ts) = par(task.proposed)
    /\ headers' = headers \cup ts
    /\ \/ /\ TipsetValid(ts)
          /\ head' \in {head, ts}
          /\ UNCHANGED <<bad, task>>
       \/ /\ TipsetInvalid(ts, FALSE)
          /\ UNCHANGED head
       \/ /\ ~(ts \subseteq messages)
          /\ End("NetworkMessageQueryFailed")
          /\ UNCHANGED <<head, messages, validated, bad>>

\* process_gossipsub_event: a block that is not known to be bad is stored.
GossipBlock(b) ==
    /\ b \notin bad
    /\ headers' = headers \cup {b}
    /\ messages' = messages \cup {b}
    /\ UNCHANGED <<head, validated, bad, task>>

RangeStep ==
    \/ HeadersLoop
    \/ NetworkFails
    \/ HeadersAnswer
    \/ TakeHeader
    \/ ForkAnswer
    \/ ForkLoop
    \/ Persist
    \/ CheckState
    \/ PutTipset

Next ==
    \/ \E ts \in Tipset : StartRange(ts) \/ SyncTipset(ts)
    \/ RangeStep
    \/ \E b \in Gossiped : GossipBlock(b)

Spec == Init /\ [][Next]_vars

\* The future of a range is polled until it is done; requests time out.
FairSpec == Spec /\ WF_vars(RangeStep)

-----------------------------------------------------------------------------
(* Properties *)

\* A range that is synced leaves no gap: every ancestor of the proposed head
\* is validated or an ancestor of the head the range started from, through
\* failed ranges, forks, and blocks that came by gossip in between.
RangeLeavesNoGap ==
    [][task.pc = "messages" /\ task'.result = "ok" =>
         AncestorBlocks(task.proposed) \subseteq validated \cup AncestorBlocks(task.current)]_vars

\* The bad block cache holds only blocks that are invalid or descend from an
\* invalid block: a sync that fails for another reason marks nothing.
BadCacheIsSound ==
    \A b \in bad : b \in Invalid \/ AncestorBlocks(Parents[b]) \cap Invalid # {}

\* The tipsets of a range are a chain: each one's parents are the next one.
RangeIsChain ==
    task.pc \notin {"idle", "messages"} =>
        \A i \in 1 .. Len(task.parents) - 1 : par(task.parents[i]) = task.parents[i + 1]

\* A range that is being synced is finished or given up.
RangeEnds == task.pc # "idle" ~> task.pc = "idle"

\* "The parent tipset will always be there when calling validate_block as part
\* of the sync_tipset_range flow" (tipset_syncer.rs:1199).
ParentAlwaysThere ==
    task.pc = "messages" /\ task.parents # <<>> => par(Head(task.parents)) \subseteq headers


=============================================================================
