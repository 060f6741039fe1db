----------------------------- MODULE HeadStore -----------------------------
(***************************************************************************)
(* What ChainStore promises of the head of the chain, with no tasks, locks *)
(* or start-up phases: a head in memory and a head on disk, where          *)
(*   - the disk moves to a tipset heavier than the head in memory;         *)
(*   - memory only ever takes what is on disk, and grows while it does;    *)
(*   - a process that starts may install a head, on disk first;            *)
(*   - a crash loses what is in memory and nothing else.                   *)
(***************************************************************************)
EXTENDS Integers

CONSTANTS
    Tipset,     \* the tipsets that may become the head
    NoTipset,   \* no head
    weight      \* the weight of each tipset

VARIABLES
    mem,    \* the head the process answers with
    disk    \* the head a restart would load

hsVars == <<mem, disk>>

Init == mem = NoTipset /\ disk = NoTipset

\* The first half of set_heaviest_tipset: HEAD_KEY is written.
Persist(ts) ==
    /\ mem # NoTipset
    /\ weight[ts] > weight[mem]
    /\ disk' = ts
    /\ UNCHANGED mem

\* The second half: the head in memory follows the disk, to a heavier head.
Adopt ==
    /\ mem # NoTipset
    /\ disk # NoTipset
    /\ weight[disk] > weight[mem]
    /\ mem' = disk
    /\ UNCHANGED disk

\* Genesis or a snapshot becomes the head while the node starts; a start that
\* fails leaves it on disk only.
Install(ts) == mem' \in {ts, NoTipset} /\ disk' = ts

Load ==
    /\ mem = NoTipset
    /\ mem' = disk
    /\ UNCHANGED disk

Crash == mem' = NoTipset /\ UNCHANGED disk

Next ==
    \/ \E ts \in Tipset : Persist(ts) \/ Install(ts)
    \/ Adopt
    \/ Load
    \/ Crash

Spec == Init /\ [][Next]_hsVars

=============================================================================
