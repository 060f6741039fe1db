--------------------------------- MODULE Amt ---------------------------------
(***************************************************************************)
(* The array mapped trie of ipld/amt: the sparse vector behind the state   *)
(* tree's queues and lists.  As with the hash map, the identifier of its   *)
(* root is part of the state root, so the height, the count and the shape  *)
(* must depend on the contents alone.                                      *)
(*                                                                         *)
(* A node is a leaf of values or a node of links; `kids' is the partial    *)
(* function of the entries that are Some.                                  *)
(***************************************************************************)
EXTENDS Naturals, FiniteSets, Sequences, SequencesExt, FiniteSetsExt, TLC

CONSTANTS
    Vals,
    bit_width,
    WordBits,       \* the width of usize
    Indices,        \* the indices the calls use
    Batches,        \* the sets of indices the batch calls use
    InitialMaps, MaxCalls

VARIABLES
    node, height, count,        \* Amt.root
    contents, root, saved, calls, write, base, pending

amtVars == <<node, height, count, contents, root, saved, calls, write, base, pending>>

MAX_INDEX == 2^WordBits - 2

\* nodes_for_height: saturates at the greatest usize.
nodes_for_height(h) ==
    IF bit_width * h >= WordBits THEN 2^WordBits - 1 ELSE 2^(bit_width * h)

Leaf(vals) == [leaf |-> TRUE, kids |-> vals]
Shard(links) == [leaf |-> FALSE, kids |-> links]
Link(cid, cache) == [kind |-> "link", cid |-> cid, cache |-> cache]
Dirty(n) == [kind |-> "dirty", node |-> n]
NoKids == [i \in {} |-> 0]
Without(n, i) == [n EXCEPT !.kids = [j \in DOMAIN n.kids \ {i} |-> n.kids[j]]]
With(n, i, kid) == [n EXCEPT !.kids = (i :> kid) @@ n.kids]

\* What is serialized of a node (links without their cache), and
\* CollapsedNode::expand.
Stored(n) ==
    IF n.leaf THEN n ELSE [n EXCEPT !.kids = [i \in DOMAIN n.kids |-> n.kids[i].cid]]
Loaded(block) ==
    IF block.leaf THEN block
    ELSE Shard([i \in DOMAIN block.kids |-> Link(block.kids[i], <<>>)])
RootBlock(n, h, c) == [root |-> Stored(n), height |-> h, count |-> c]

NodeOf(block) == IF "root" \in DOMAIN block THEN block.root ELSE block
BlockLinks(block) ==
    IF NodeOf(block).leaf THEN {} ELSE {NodeOf(block).kids[i] : i \in DOMAIN NodeOf(block).kids}

store == INSTANCE BufferedStore WITH Links <- BlockLinks

Below(l) ==
    IF l.kind = "dirty" THEN l.node
    ELSE IF l.cache # <<>> THEN l.cache[1] ELSE Loaded(l.cid)

(***************************************************************************)
(* Nodes.                                                                  *)
(***************************************************************************)
\* Node::get: the value at i, and none where the path ends.
RECURSIVE get(_, _, _)
get(n, h, i) ==
    LET sub_i == i \div nodes_for_height(h)
    IN  IF n.leaf THEN {n.kids[j] : j \in DOMAIN n.kids \cap {i}}
        ELSE IF sub_i \notin DOMAIN n.kids THEN {}
        ELSE get(Below(n.kids[sub_i]), h - 1, i % nodes_for_height(h))

\* The caches get fills on its way.
RECURSIVE Visited(_, _, _)
Visited(n, h, i) ==
    LET sub_i == i \div nodes_for_height(h)
        sub == Visited(Below(n.kids[sub_i]), h - 1, i % nodes_for_height(h))
    IN  IF n.leaf THEN n
        ELSE IF sub_i \notin DOMAIN n.kids THEN n
        ELSE With(n, sub_i, IF n.kids[sub_i].kind = "dirty" THEN Dirty(sub)
                            ELSE Link(n.kids[sub_i].cid, <<sub>>))

\* for_each_while: the pairs, in the order of their indices from offset on.
RECURSIVE Pairs(_, _, _)
Pairs(n, h, offset) ==
    IF n.leaf THEN {<<offset + i, n.kids[i]>> : i \in DOMAIN n.kids}
    ELSE UNION {Pairs(Below(n.kids[i]), h - 1, offset + i * nodes_for_height(h)) :
                    i \in DOMAIN n.kids}

\* Node::set, set_leaf: every node on the path becomes a changed one.
RECURSIVE set(_, _, _, _)
set(n, h, i, v) ==
    LET idx == i \div nodes_for_height(h)
        sub == IF idx \in DOMAIN n.kids THEN Below(n.kids[idx])
               ELSE IF h = 1 THEN Leaf(NoKids) ELSE Shard(NoKids)
    IN  IF h = 0 THEN With(n, i, v)
        ELSE With(n, idx, Dirty(set(sub, h - 1, i % nodes_for_height(h), v)))

\* Node::delete: an empty sub node is unlinked; a link below which nothing
\* was found stays a link, with its cache filled.
RECURSIVE delete(_, _, _)
delete(n, h, i) ==
    LET sub_i == i \div nodes_for_height(h)
        l == n.kids[sub_i]
        r == delete(Below(l), h - 1, i % nodes_for_height(h))
        found == get(Below(l), h - 1, i % nodes_for_height(h)) # {}
    IN  IF n.leaf THEN Without(n, i)
        ELSE IF sub_i \notin DOMAIN n.kids THEN n
        ELSE IF l.kind = "link" /\ ~found THEN With(n, sub_i, Link(l.cid, <<r>>))
        ELSE IF found /\ r.kids = NoKids THEN Without(n, sub_i)
        ELSE With(n, sub_i, Dirty(r))

\* Every link is read and cached (for_each, for_each_mut).
RECURSIVE Cached(_)
Cached(n) ==
    IF n.leaf THEN n
    ELSE Shard([i \in DOMAIN n.kids |->
                  IF n.kids[i].kind = "dirty" THEN Dirty(Cached(n.kids[i].node))
                  ELSE Link(n.kids[i].cid, <<Cached(Below(n.kids[i]))>>)])

\* Node::flush, and the blocks it puts.
RECURSIVE flush(_)
flush(n) ==
    IF n.leaf THEN n
    ELSE Shard([i \in DOMAIN n.kids |->
                  IF n.kids[i].kind = "dirty"
                  THEN LET m == flush(n.kids[i].node) IN Link(Stored(m), <<m>>)
                  ELSE n.kids[i]])
RECURSIVE FlushedBlocks(_)
FlushedBlocks(n) ==
    IF n.leaf THEN {}
    ELSE UNION {{Stored(flush(n.kids[i].node))} \cup FlushedBlocks(n.kids[i].node) :
                   i \in {j \in DOMAIN n.kids : n.kids[j].kind = "dirty"}}

(***************************************************************************)
(* The root, as a record of node, height and count.                        *)
(***************************************************************************)
Tree(n, h, c) == [node |-> n, height |-> h, count |-> c]
EmptyTree == Tree(Leaf(NoKids), 0, 0)

\* Amt::set, its loop: the root moves down to link 0 of a new root until the
\* index is in range; an empty root is just replaced.
RECURSIVE Expanded(_, _)
Expanded(t, i) ==
    IF i < nodes_for_height(t.height + 1) THEN t
    ELSE Expanded(Tree(Shard(IF t.node.kids = NoKids THEN NoKids ELSE (0 :> Dirty(t.node))),
                       t.height + 1, t.count), i)

AmtGet(t, i) == IF i >= nodes_for_height(t.height + 1) THEN {} ELSE get(t.node, t.height, i)

AmtSet(t, i, v) ==
    LET e == Expanded(t, i)
    IN  Tree(set(e.node, e.height, i, v), e.height,
             IF AmtGet(t, i) = {} THEN t.count + 1 ELSE t.count)

\* can_collapse and the loop of Amt::delete: while the root has link 0 alone
\* its sub node becomes the root.
RECURSIVE Collapsed(_)
Collapsed(t) ==
    IF t.height > 0 /\ DOMAIN t.node.kids = {0}
    THEN Collapsed(Tree(Below(t.node.kids[0]), t.height - 1, t.count)) ELSE t

\* Amt::delete.
AmtDelete(t, i) ==
    LET n == delete(t.node, t.height, i)
    IN  IF i >= nodes_for_height(t.height + 1) THEN t
        ELSE IF AmtGet(t, i) = {} THEN [t EXCEPT !.node = n]
        ELSE IF n.kids = NoKids THEN [EmptyTree EXCEPT !.count = t.count - 1]
        ELSE Collapsed(Tree(n, t.height, t.count - 1))

\* The indices batch_delete reaches: all of them in order or, if strict, up to
\* the first that is absent, where it fails.
Reached(present, S, strict) ==
    LET absent == S \ present
    IN  IF strict /\ absent # {} THEN {i \in S : i <= Min(absent)} ELSE S

(***************************************************************************)
(* The reference: the one tree a set of pairs should have.                 *)
(***************************************************************************)
RECURSIVE CanonicalNode(_, _)
CanonicalNode(pairs, h) ==
    LET nfh == 2^(bit_width * h)
        Group(j) == {<<p[1] % nfh, p[2]>> : p \in {q \in pairs : q[1] \div nfh = j}}
    IN  IF h = 0
        THEN Leaf([i \in {p[1] : p \in pairs} |-> (CHOOSE p \in pairs : p[1] = i)[2]])
        ELSE Shard([j \in {p[1] \div nfh : p \in pairs} |-> CanonicalNode(Group(j), h - 1)])
CanonicalHeight(pairs) ==
    Min({h \in 0 .. WordBits : \A p \in pairs : p[1] < 2^(bit_width * (h + 1))})
Canonical(pairs) ==
    RootBlock(Loaded(CanonicalNode(pairs, CanonicalHeight(pairs))),
              CanonicalHeight(pairs), Cardinality(pairs))

RECURSIVE BlocksOf(_)
BlocksOf(block) == {block} \cup UNION {BlocksOf(l) : l \in BlockLinks(block)}

(***************************************************************************)
(* The operations.                                                         *)
(***************************************************************************)
AInit ==
    \E m \in InitialMaps :
        /\ contents = m
        /\ base = BlocksOf(Canonical(m))
        /\ node = Loaded(Canonical(m).root)
        /\ height = Canonical(m).height
        /\ count = Canonical(m).count
        /\ root = [cid |-> Canonical(m), contents |-> m]
        /\ saved = {root}
        /\ write = {} /\ pending = <<>>
        /\ calls = 0

tree == Tree(node, height, count)
Become(t) == node' = t.node /\ height' = t.height /\ count' = t.count

Call ==
    /\ pending = <<>>
    /\ calls < MaxCalls
    /\ calls' = calls + 1
    /\ UNCHANGED <<root, saved, write, base, pending>>

Set(i, v) ==
    /\ Call
    /\ Become(AmtSet(tree, i, v))
    /\ contents' = {p \in contents : p[1] # i} \cup {<<i, v>>}

\* batch_set: the values from index 0 on.
BatchSet(n, v) ==
    /\ Call
    /\ Become(FoldLeft(LAMBDA t, i : AmtSet(t, i, v), tree, [i \in 1 .. n |-> i - 1]))
    /\ contents' = {p \in contents : p[1] >= n} \cup ((0 .. n - 1) \X {v})

Delete(i) ==
    /\ Call
    /\ Become(AmtDelete(tree, i))
    /\ contents' = {p \in contents : p[1] # i}

BatchDelete(S, strict) ==
    /\ Call
    /\ LET reached == Reached({p[1] : p \in contents}, S, strict)
       IN  /\ Become(FoldLeft(AmtDelete, tree, SetToSortSeq(reached, <)))
           /\ contents' = {p \in contents : p[1] \notin reached}

\* for_each_while_mut: the closure changes the values at S and stops after
\* the last of them or goes on; the changed values are set afterwards.
ForEachMut(S, v) ==
    /\ Call
    /\ S \subseteq {p[1] : p \in contents}
    /\ Become(FoldLeft(LAMBDA t, i : AmtSet(t, i, v), [tree EXCEPT !.node = Cached(@)],
                       SetToSortSeq(S, <)))
    /\ contents' = {p \in contents : p[1] \notin S} \cup (S \X {v})

Get(i) ==
    /\ Call
    /\ node' = IF i >= nodes_for_height(height + 1) THEN node ELSE Visited(node, height, i)
    /\ UNCHANGED <<height, count, contents>>

\* Amt::flush: the changed nodes, then the root.
Flush ==
    /\ pending = <<>>
    /\ calls < MaxCalls
    /\ calls' = calls + 1
    /\ node' = flush(node)
    /\ root' = [cid |-> RootBlock(node', height, count), contents |-> contents]
    /\ store!Put(FlushedBlocks(node) \cup {root'.cid})
    /\ UNCHANGED <<height, count, contents, saved>>

Reopen(r) ==
    /\ node' = Loaded(r.cid.root) /\ height' = r.cid.height /\ count' = r.cid.count
    /\ contents' = r.contents

\* Amt::load of the last root.
Load ==
    /\ pending = <<>>
    /\ Reopen(root)
    /\ UNCHANGED <<root, saved, calls, write, base, pending>>

FlushStore ==
    /\ store!StartFlush(root.cid)
    /\ UNCHANGED <<node, height, count, contents, root, saved, calls>>
WriteBlock ==
    /\ store!WriteBlock
    /\ saved' = IF Len(pending) = 1 THEN saved \cup {root} ELSE saved
    /\ UNCHANGED <<node, height, count, contents, root, calls>>
Crash ==
    /\ pending # <<>>
    /\ store!LoseCache
    /\ root' \in saved
    /\ Reopen(root')
    /\ UNCHANGED <<saved, calls>>

ANext ==
    \/ \E i \in Indices, v \in Vals : Set(i, v)
    \/ \E i \in Indices : Delete(i) \/ Get(i)
    \/ BatchSet(2, CHOOSE v \in Vals : TRUE)
    \/ \E S \in Batches : (\E strict \in BOOLEAN : BatchDelete(S, strict))
                          \/ (\E v \in Vals : ForEachMut(S, v))
    \/ Flush
    \/ Load
    \/ FlushStore
    \/ WriteBlock
    \/ Crash

(***************************************************************************)
(* Properties.                                                             *)
(***************************************************************************)
RECURSIVE LinksIn(_)
LinksIn(n) ==
    IF n.leaf THEN {}
    ELSE UNION {IF n.kids[i].kind = "dirty" THEN LinksIn(n.kids[i].node)
                ELSE {n.kids[i].cid} \cup
                     (IF n.kids[i].cache = <<>> THEN {} ELSE LinksIn(n.kids[i].cache[1])) :
                   i \in DOMAIN n.kids}

\* The array holds what the calls left in it, at every index an array can
\* have up to MAX_INDEX, and counts it: through growth and collapse of the
\* root, changed nodes, links and caches.
ArrayIsTheMap ==
    /\ Pairs(node, height, 0) = contents
    /\ \A i \in 0 .. MAX_INDEX : AmtGet(tree, i) = {p[2] : p \in {q \in contents : q[1] = i}}
    /\ count = Cardinality(contents)

\* The identifier a flush would return depends on the contents alone: the
\* height is the least that holds the greatest index, and no sub node is
\* empty, whatever was set and deleted before.
ArrayIsCanonical == RootBlock(flush(node), height, count) = Canonical(contents)

\* A link's cached node is what the link's identifier stands for, so that
\* flush never skips a change.
RECURSIVE CachesAgree(_)
CachesAgree(n) ==
    \/ n.leaf
    \/ \A i \in DOMAIN n.kids :
        /\ n.kids[i].kind = "dirty" => CachesAgree(n.kids[i].node)
        /\ n.kids[i].kind = "link" =>
              \A m \in ToSet(n.kids[i].cache) :
                 Stored(flush(m)) = n.kids[i].cid /\ FlushedBlocks(m) = {} /\ CachesAgree(m)
CacheIsTheBlock == CachesAgree(node)

\* Nothing the array may have to read is missing from the store.
NoDeadLinks == \A l \in LinksIn(node) : BlocksOf(l) \subseteq write \cup base

\* A root the store was flushed with can be read from the base alone.
SavedIsDurable ==
    \A s \in saved :
        BlocksOf(s.cid) \subseteq base
        /\ Pairs(Loaded(s.cid.root), s.cid.height, 0) = s.contents

\* No block of the base leads nowhere (see BufferedStore).
BaseIsClosed == store!BaseIsClosed

ATypeOK ==
    /\ contents \subseteq (0 .. MAX_INDEX) \X Vals
    /\ root.cid \in write \cup base
    /\ height \in 0 .. WordBits /\ count \in Nat
    /\ calls \in 0 .. MaxCalls

\* The trie is the array the calls made, canonical, and can be read.
TrieIsSound == ATypeOK /\ ArrayIsTheMap /\ CacheIsTheBlock /\ ArrayIsCanonical /\ NoDeadLinks

\* What a flush wrote is closed under links and is all of the root.
StoreIsDurable == BaseIsClosed /\ SavedIsDurable

=============================================================================
