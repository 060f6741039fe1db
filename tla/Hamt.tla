-------------------------------- MODULE Hamt --------------------------------
(***************************************************************************)
(* The hash array mapped trie of ipld/hamt: the map behind every keyed     *)
(* collection of the state tree.  Its root identifier is part of the state *)
(* root all nodes must agree on, so the tree must depend on the contents   *)
(* alone, whatever calls, flushes and reloads led to them.                 *)
(*                                                                         *)
(* A node is a function from the set bits of its bitfield to pointers (the *)
(* vector of pointers in the order of the bits).  A pointer holds up to    *)
(* MAX_ARRAY_WIDTH pairs in key order, a link with a cached copy of the    *)
(* node (<<>> while it was not read), or a changed node not yet stored.    *)
(***************************************************************************)
EXTENDS Naturals, FiniteSets, Sequences, SequencesExt, FiniteSetsExt, TLC

CONSTANTS
    Keys,           \* naturals, ordered as the keys are
    Vals,
    HashOf,         \* the hash of each key: a sequence of bytes
    bit_width,      \* bits of the hash one level consumes
    InitialMaps,    \* the contents a tree found in the base store may have
    MaxCalls        \* bound: calls on the tree

VARIABLES
    node,       \* Hamt.root
    contents,   \* history: the set of <<key, value>> the calls should have left
    root,       \* the last root Hamt::flush returned, with its contents
    saved,      \* history: the roots the base store was flushed with
    panicked,   \* whether unreachable!() was reached, which ends the process
    calls,
    write, base, pending

MAX_ARRAY_WIDTH == 3

hamtVars == <<node, contents, root, saved, panicked, calls, write, base, pending>>

Values(vals) == [kind |-> "values", vals |-> vals]
Link(cid, cache) == [kind |-> "link", cid |-> cid, cache |-> cache]
Dirty(n) == [kind |-> "dirty", node |-> n]

\* What is serialized of a node, and what a node is when read again: a link
\* loses its cache.
Stored(n) ==
    [i \in DOMAIN n |-> IF n[i].kind = "link" THEN [kind |-> "link", cid |-> n[i].cid] ELSE n[i]]
Loaded(block) ==
    [i \in DOMAIN block |->
        IF block[i].kind = "link" THEN Link(block[i].cid, <<>>) ELSE block[i]]

BlockLinks(block) == {block[i].cid : i \in {j \in DOMAIN block : block[j].kind = "link"}}

store == INSTANCE BufferedStore WITH Links <- BlockLinks

(***************************************************************************)
(* Reading the hash.                                                       *)
(***************************************************************************)

\* next_bits: i bits from position consumed, most significant first, crossing
\* into the next byte when fewer are left in this one.
RECURSIVE next_bits(_, _, _)
next_bits(h, consumed, i) ==
    LET leftb == 8 - (consumed % 8)
        part == h[(consumed \div 8) + 1] % 2^leftb
    IN  IF i <= leftb THEN part \div 2^(leftb - i)
        ELSE part * 2^(i - leftb) + next_bits(h, consumed + leftb, i - leftb)

Index(k, depth) == next_bits(HashOf[k], depth * bit_width, bit_width)

\* The reference: the depth-th digit of the whole hash read as one number.
RECURSIVE HashNumber(_)
HashNumber(h) == IF h = <<>> THEN 0 ELSE HashNumber(Front(h)) * 256 + Last(h)
Digit(k, depth) ==
    (HashNumber(HashOf[k]) \div 2^(8 * Len(HashOf[k]) - (depth + 1) * bit_width)) % 2^bit_width

Depths == 0 .. ((8 * Min({Len(HashOf[k]) : k \in Keys})) \div bit_width) - 1

\* No more keys share their whole hash than fit one pointer (next would run
\* out of bits: Error::MaxDepth).
ASSUME HashesDiffer ==
    \A S \in kSubset(MAX_ARRAY_WIDTH + 1, Keys) :
        \E k1, k2 \in S, d \in Depths : Digit(k1, d) # Digit(k2, d)

(***************************************************************************)
(* The tree.                                                               *)
(***************************************************************************)

\* The node below a pointer: the changed node, the cached one, or the stored
\* one read from the store.
Below(p) ==
    IF p.kind = "dirty" THEN p.node
    ELSE IF p.cache # <<>> THEN p.cache[1] ELSE Loaded(p.cid)

\* All pairs of a tree.
RECURSIVE Pairs(_)
Pairs(n) ==
    UNION {IF n[i].kind = "values" THEN ToSet(n[i].vals) ELSE Pairs(Below(n[i])) : i \in DOMAIN n}

\* get_value: the pairs found for a key, one at most.
RECURSIVE get_value(_, _, _)
get_value(n, k, depth) ==
    LET i == Index(k, depth)
    IN  IF i \notin DOMAIN n THEN {}
        ELSE IF n[i].kind = "values" THEN {p \in ToSet(n[i].vals) : p[1] = k}
        ELSE get_value(Below(n[i]), k, depth + 1)

\* The caches get_value fills on its way.
RECURSIVE Visited(_, _, _)
Visited(n, k, depth) ==
    LET i == Index(k, depth)
    IN  IF i \notin DOMAIN n \/ n[i].kind = "values" THEN n
        ELSE IF n[i].kind = "dirty"
             THEN [n EXCEPT ![i].node = Visited(@, k, depth + 1)]
             ELSE [n EXCEPT ![i].cache = <<Visited(Below(n[i]), k, depth + 1)>>]

\* for_each: every link is read and cached.
RECURSIVE for_each(_)
for_each(n) ==
    [i \in DOMAIN n |->
        IF n[i].kind = "values" THEN n[i]
        ELSE IF n[i].kind = "dirty" THEN Dirty(for_each(n[i].node))
        ELSE Link(n[i].cid, <<for_each(Below(n[i]))>>)]

\* A pair goes before the first one with a greater key.
InsertOrdered(vals, k, v) ==
    LET greater == {j \in DOMAIN vals : vals[j][1] > k}
    IN  InsertAt(vals, IF greater = {} THEN Len(vals) + 1 ELSE Min(greater), <<k, v>>)

\* modify_value: the node after setting k, and whether it was modified.
RECURSIVE modify_value(_, _, _, _, _)
\* The Values branch: overwrite in place, split a full array into a node of
\* the next level (the new pair first), or insert in key order.
ModifyValues(n, i, k, v, depth, overwrite) ==
    LET vals == n[i].vals
        at == {j \in DOMAIN vals : vals[j][1] = k}
        split == FoldLeft(LAMBDA m, p : modify_value(m, p[1], p[2], depth + 1, overwrite).node,
                          modify_value(<<>>, k, v, depth + 1, overwrite).node, vals)
    IN  CASE at # {} /\ ~overwrite -> [node |-> n, modified |-> FALSE]
          [] at # {} /\ overwrite ->
                [node |-> [n EXCEPT ![i].vals[Min(at)][2] = v],
                 modified |-> vals[Min(at)][2] # v]
          [] at = {} /\ Len(vals) >= MAX_ARRAY_WIDTH ->
                [node |-> [n EXCEPT ![i] = Dirty(split)], modified |-> TRUE]
          [] OTHER ->
                [node |-> [n EXCEPT ![i].vals = InsertOrdered(vals, k, v)], modified |-> TRUE]
modify_value(n, k, v, depth, overwrite) ==
    LET i == Index(k, depth)
        r == modify_value(Below(n[i]), k, v, depth + 1, overwrite)
    IN  CASE i \notin DOMAIN n ->
                [node |-> n @@ (i :> Values(<<<<k, v>>>>)), modified |-> TRUE]
          [] i \in DOMAIN n /\ n[i].kind = "values" -> ModifyValues(n, i, k, v, depth, overwrite)
          [] i \in DOMAIN n /\ n[i].kind = "dirty" ->
                [node |-> [n EXCEPT ![i] = Dirty(r.node)], modified |-> r.modified]
          [] OTHER ->
                [node |-> [n EXCEPT ![i] = IF r.modified THEN Dirty(r.node)
                                           ELSE Link(n[i].cid, <<r.node>>)],
                 modified |-> r.modified]

\* A slip: the collapsed pairs are left in the order of the pointers.
CleanUnsorted(n) ==
    LET vals == FoldLeft(LAMBDA acc, i : acc \o n[i].vals, <<>>, SetToSortSeq(DOMAIN n, <))
    IN  IF \A i \in DOMAIN n : n[i].kind = "values"
        THEN IF Len(vals) <= MAX_ARRAY_WIDTH THEN Values(vals) ELSE Dirty(n)
        ELSE Dirty(n)

\* clean, on a changed node: when what is below it fits one array of pairs it
\* becomes that array, in key order.  (A node of no pointers is
\* Error::ZeroPointers; here it would leave an array of no pairs, which
\* TreeIsCanonical excludes.)
clean(n) ==
    LET vals == FoldLeft(LAMBDA acc, i : acc \o n[i].vals, <<>>, SetToSortSeq(DOMAIN n, <))
    IN  IF Cardinality(DOMAIN n) <= MAX_ARRAY_WIDTH
        THEN IF \A i \in DOMAIN n : n[i].kind = "values"
             THEN IF Len(vals) <= MAX_ARRAY_WIDTH
                  THEN Values(SortSeq(vals, LAMBDA a, b : a[1] < b[1])) ELSE Dirty(n)
             ELSE Dirty(n)
        ELSE Dirty(n)

\* rm_value: the node without k, whether k was there, and whether clean was
\* called on a pointer that is not dirty (a link below which nothing was
\* deleted stays a link).
RECURSIVE rm_value(_, _, _)
rm_value(n, k, depth) ==
    LET i == Index(k, depth)
        rest == SelectSeq(n[i].vals, LAMBDA p : p[1] # k)
        r == rm_value(Below(n[i]), k, depth + 1)
    IN  CASE i \notin DOMAIN n -> [node |-> n, deleted |-> FALSE, panic |-> FALSE]
          [] i \in DOMAIN n /\ n[i].kind = "values" ->
                [node |-> IF rest = <<>> THEN [j \in DOMAIN n \ {i} |-> n[j]]
                          ELSE [n EXCEPT ![i].vals = rest],
                 deleted |-> rest # n[i].vals, panic |-> FALSE]
          [] i \in DOMAIN n /\ n[i].kind = "dirty" ->
                [node |-> [n EXCEPT ![i] = clean(r.node)],
                 deleted |-> r.deleted, panic |-> r.panic]
          [] OTHER ->
                [node |-> [n EXCEPT ![i] = IF r.deleted THEN clean(r.node)
                                           ELSE Link(n[i].cid, <<r.node>>)],
                 deleted |-> r.deleted, panic |-> r.panic \/ ~r.deleted]

\* Node::flush: every changed node below is stored, deepest first, and its
\* pointer becomes a link that keeps the node as its cache.
RECURSIVE flush(_)
flush(n) ==
    [i \in DOMAIN n |->
        IF n[i].kind = "dirty"
        THEN LET m == flush(n[i].node) IN Link(Stored(m), <<m>>)
        ELSE n[i]]

\* The blocks flush puts.
RECURSIVE FlushedBlocks(_)
FlushedBlocks(n) ==
    UNION {{Stored(flush(n[i].node))} \cup FlushedBlocks(n[i].node) :
              i \in {j \in DOMAIN n : n[j].kind = "dirty"}}

(***************************************************************************)
(* The reference: the one tree a set of pairs should have.                 *)
(***************************************************************************)
RECURSIVE Canonical(_, _)
Canonical(pairs, depth) ==
    LET Group(i) == {p \in pairs : Digit(p[1], depth) = i}
    IN  [i \in {Digit(p[1], depth) : p \in pairs} |->
            IF Cardinality(Group(i)) <= MAX_ARRAY_WIDTH
            THEN Values(SetToSortSeq(Group(i), LAMBDA a, b : a[1] < b[1]))
            ELSE [kind |-> "link", cid |-> Canonical(Group(i), depth + 1)]]

\* A block and all blocks below it.
RECURSIVE BlocksOf(_)
BlocksOf(block) == {block} \cup UNION {BlocksOf(l) : l \in BlockLinks(block)}

(***************************************************************************)
(* The operations.  A flush of the store runs to its end before the next   *)
(* call (it borrows the store mutably).                                    *)
(***************************************************************************)
HInit ==
    \E m \in InitialMaps :
        /\ contents = m
        /\ base = BlocksOf(Canonical(m, 0))
        /\ node = Loaded(Canonical(m, 0))
        /\ root = [cid |-> Canonical(m, 0), contents |-> m]
        /\ saved = {root}
        /\ panicked = FALSE
        /\ write = {} /\ pending = <<>>
        /\ calls = 0

Present(k) == \E p \in contents : p[1] = k

Call ==
    /\ ~panicked /\ pending = <<>>
    /\ calls < MaxCalls
    /\ calls' = calls + 1
    /\ UNCHANGED <<root, saved, write, base, pending>>

Set(k, v) ==
    /\ Call
    /\ node' = modify_value(node, k, v, 0, TRUE).node
    /\ contents' = {p \in contents : p[1] # k} \cup {<<k, v>>}
    /\ UNCHANGED panicked

SetIfAbsent(k, v) ==
    /\ Call
    /\ node' = modify_value(node, k, v, 0, FALSE).node
    /\ contents' = IF Present(k) THEN contents ELSE contents \cup {<<k, v>>}
    /\ UNCHANGED panicked

Delete(k) ==
    /\ Call
    /\ LET r == rm_value(node, k, 0)
       IN  node' = r.node /\ panicked' = r.panic
    /\ contents' = {p \in contents : p[1] # k}

Get(k) ==
    /\ Call
    /\ node' = Visited(node, k, 0)
    /\ UNCHANGED <<contents, panicked>>

ForEach ==
    /\ Call
    /\ node' = for_each(node)
    /\ UNCHANGED <<contents, panicked>>

\* Hamt::flush: the changed nodes, then the root, are put into the store.
Flush ==
    /\ ~panicked /\ pending = <<>>
    /\ calls < MaxCalls
    /\ calls' = calls + 1
    /\ node' = flush(node)
    /\ root' = [cid |-> Stored(node'), contents |-> contents]
    /\ store!Put(FlushedBlocks(node) \cup {Stored(node')})
    /\ UNCHANGED <<contents, saved, panicked>>

\* load, set_root: the tree is read again from the last root.
Load ==
    /\ ~panicked /\ pending = <<>>
    /\ node' = Loaded(root.cid)
    /\ contents' = root.contents
    /\ UNCHANGED <<root, saved, panicked, calls, write, base, pending>>

\* BufferedBlockStore::flush with the last root, and its blocks.
FlushStore ==
    /\ ~panicked
    /\ store!StartFlush(root.cid)
    /\ UNCHANGED <<node, contents, root, saved, panicked, calls>>
WriteBlock ==
    /\ store!WriteBlock
    /\ saved' = IF Len(pending) = 1 THEN saved \cup {root} ELSE saved
    /\ UNCHANGED <<node, contents, root, panicked, calls>>

\* The process ends and starts again from a root it had persisted.
Crash ==
    /\ pending # <<>>
    /\ store!LoseCache
    /\ root' \in saved
    /\ node' = Loaded(root'.cid)
    /\ contents' = root'.contents
    /\ UNCHANGED <<saved, panicked, calls>>

HNext ==
    \/ \E k \in Keys, v \in Vals : Set(k, v) \/ SetIfAbsent(k, v)
    \/ \E k \in Keys : Delete(k) \/ Get(k)
    \/ ForEach
    \/ Flush
    \/ Load
    \/ FlushStore
    \/ WriteBlock
    \/ Crash

(***************************************************************************)
(* Properties.                                                             *)
(***************************************************************************)
\* Every link of a tree, through its caches.
RECURSIVE LinksIn(_)
LinksIn(n) ==
    UNION {IF n[i].kind = "values" THEN {}
           ELSE IF n[i].kind = "dirty" THEN LinksIn(n[i].node)
           ELSE {n[i].cid} \cup (IF n[i].cache = <<>> THEN {} ELSE LinksIn(n[i].cache[1])) :
              i \in DOMAIN n}

HTypeOK ==
    /\ contents \subseteq Keys \X Vals
    /\ panicked \in BOOLEAN
    /\ root \in [cid : write \cup base, contents : SUBSET (Keys \X Vals)]
    /\ calls \in 0 .. MaxCalls

\* The tree holds what the calls left in it, and a key that is there is found
\* on its path, through changed nodes, links and caches alike.
TreeIsTheMap ==
    /\ Pairs(node) = contents
    /\ \A k \in Keys : get_value(node, k, 0) = {p \in contents : p[1] = k}

\* The identifier a flush would return depends on the contents alone: after
\* any sequence of sets, deletes, flushes and reloads the tree is the one
\* the digits of the hashes of its keys give, in key order ("Clean to ensure
\* canonical form", node.rs).
TreeIsCanonical == Stored(flush(node)) = Canonical(contents, 0)

\* A link's cached node is what the link's identifier stands for: a change
\* below a link always turns the link into a changed node ("cache will always
\* be the same", node.rs), so that flush never skips it.
RECURSIVE CachesAgree(_)
CachesAgree(n) ==
    \A i \in DOMAIN n :
        /\ n[i].kind = "dirty" => CachesAgree(n[i].node)
        /\ n[i].kind = "link" =>
              (n[i].cache # <<>> =>
                 Stored(flush(n[i].cache[1])) = n[i].cid /\ FlushedBlocks(n[i].cache[1]) = {}
                 /\ CachesAgree(n[i].cache[1]))
CacheIsTheBlock == CachesAgree(node)

\* Nothing the tree may have to read is missing from the store: not after the
\* cache was emptied by a flush, nor after a restart in the middle of one.
NoDeadLinks == \A l \in LinksIn(node) : BlocksOf(l) \subseteq write \cup base

\* A root the store was flushed with can be read from the base alone, with
\* the contents it had when it was flushed.
SavedIsDurable ==
    \A s \in saved : BlocksOf(s.cid) \subseteq base /\ Pairs(Loaded(s.cid)) = s.contents

\* No block of the base leads nowhere (see BufferedStore).
BaseIsClosed == store!BaseIsClosed

\* The trie is the map the calls made, canonical, and can be read.
TrieIsSound == HTypeOK /\ TreeIsTheMap /\ CacheIsTheBlock /\ TreeIsCanonical /\ NoDeadLinks

\* What a flush wrote is closed under links and is all of the root.
StoreIsDurable == BaseIsClosed /\ SavedIsDurable

=============================================================================
