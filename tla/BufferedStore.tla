---------------------------- MODULE BufferedStore ----------------------------
(***************************************************************************)
(* The buffered block store (ipld/blockstore/src/buffered.rs): blocks are  *)
(* put into an in-memory write cache, and flush(root) copies to the base   *)
(* store the cached blocks that are connected to the root, then empties    *)
(* the cache.                                                              *)
(*                                                                         *)
(* A block's content identifier is the block itself: two blocks have one   *)
(* identifier exactly when they have one content.  Links(b) are the        *)
(* identifiers of the DAG-CBOR links in block b.                           *)
(***************************************************************************)
EXTENDS Sequences, SequencesExt

CONSTANTS
    Links(_)    \* the identifiers a block links to

VARIABLES
    write,      \* the write cache: a set of blocks
    base,       \* the blocks of the base store
    pending     \* the blocks a flush has yet to write to the base, in order

storeVars == <<write, base, pending>>

\* put_raw: into the write cache; an identifier seen before changes nothing.
Put(blocks) ==
    /\ write' = write \cup blocks
    /\ UNCHANGED <<base, pending>>

\* A plausible slip: the block goes to the buffer before what it links to.
RECURSIVE CopyParentFirst(_)
CopyParentFirst(cid) ==
    FoldLeft(LAMBDA acc, l : IF l \in write THEN acc \o CopyParentFirst(l) ELSE acc,
             <<cid>>, SetToSeq(Links(cid)))

\* copy_rec: depth first through the cached blocks, a block after everything
\* it links to.  A link that is not in the cache is taken to be in the base.
RECURSIVE copy_rec(_)
copy_rec(cid) ==
    Append(FoldLeft(LAMBDA acc, l : IF l \in write THEN acc \o copy_rec(l) ELSE acc,
                    <<>>, SetToSeq(Links(cid))),
           cid)

\* flush(root) up to bulk_write.  A root that is not in the cache is refused
\* ("Invalid link"), with nothing changed.
StartFlush(root) ==
    /\ pending = <<>>
    /\ root \in write
    /\ pending' = copy_rec(root)
    /\ UNCHANGED <<write, base>>

\* bulk_write: one block after the other in the order of the buffer (sled and
\* memory; RocksDB writes them as one batch, which is the same without the
\* states in between).
WriteBlock ==
    /\ pending # <<>>
    /\ base' = base \cup {Head(pending)}
    /\ pending' = Tail(pending)
    \* the last one: the cache is replaced by an empty one, connected or not.
    /\ write' = IF Len(pending) = 1 THEN {} ELSE write

\* The process ends: the cache and an unfinished flush are lost.
LoseCache ==
    /\ write' = {}
    /\ pending' = <<>>
    /\ UNCHANGED base

\* Everything below a block of the base is in the base, at every moment of a
\* flush: a reader of the base never meets a link that leads nowhere.
BaseIsClosed == \A b \in base : Links(b) \subseteq base
=============================================================================
