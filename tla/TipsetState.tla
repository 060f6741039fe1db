----------------------------- MODULE TipsetState -----------------------------
(***************************************************************************)
(* The state manager's tipset states (blockchain/state_manager/src/lib.rs):*)
(* tasks ask for the state after a tipset and share one cache.  A task     *)
(* takes the cache entry (creating it), then the entry's lock, looks       *)
(* whether another task filled it meanwhile, and computes the state with   *)
(* the lock held.  validate_chain asks for the states of a chain in turn   *)
(* and compares them with what the next tipset claims.                     *)
(*                                                                         *)
(* The state (and the receipts) after a tipset are named by the tipset.    *)
(***************************************************************************)
EXTENDS Naturals, FiniteSets, Sequences

CONSTANTS
    Tasks,          \* tasks that ask for tipset states
    Validator,      \* the task of validate_chain, one of Tasks
    Genesis, ParentOf, HeightOf,     \* a chain of tipsets
    Claims,         \* what it may claim [state, receipts : tipset -> tipset], and
                    \* the height validate_chain is called with
    Tip,            \* the tipset validate_chain is called with
    MaxFails,       \* bound: computations that fail
    MaxAsks         \* bound: calls of tipset_state by the other tasks

VARIABLES
    claim,          \* what the headers claim: parent state and receipts
    cache,          \* the tipsets with an entry, and whether it is filled
    lock,           \* entry -> the task holding its lock, or none
    task,           \* task -> [pc, ts]
    answer,         \* task -> the last answer: a tipset's state, or "error"
    computed,       \* history: tipset -> computations that succeeded
    fails, asks,
    chain, last, verdict    \* validate_chain: tipsets left, last state, result

tsVars == <<claim, cache, lock, task, answer, computed, fails, asks, chain, last, verdict>>

Chain == DOMAIN HeightOf
none == "none"

\* Heights fall from a tipset to its parents, down to the genesis.
StateAssumption ==
    /\ HeightOf \in [Chain -> Nat]
    /\ Genesis \in Chain /\ Tip \in Chain
    /\ \A t \in Chain \ {Genesis} : ParentOf[t] \in Chain /\ HeightOf[ParentOf[t]] < HeightOf[t]
    /\ Chain \cap {none, "error"} = {} /\ none \notin Tasks
    /\ Validator \in Tasks
    /\ MaxFails \in Nat /\ MaxAsks \in Nat

TInit ==
    /\ claim \in Claims
    /\ cache = [t \in {} |-> FALSE]
    /\ lock = [t \in Chain |-> none]
    /\ task = [p \in Tasks |-> [pc |-> "idle", ts |-> Genesis]]
    /\ answer = [p \in Tasks |-> none]
    /\ computed = [t \in Chain |-> 0]
    /\ fails = 0 /\ asks = 0
    /\ chain = <<>> /\ last = [state |-> none, receipts |-> none] /\ verdict = "none"

(***************************************************************************)
(* tipset_state.                                                           *)
(***************************************************************************)
\* cache.write().entry(key).or_default().clone()
Entry(p, t) ==
    /\ task[p].pc = "idle"
    /\ cache' = [u \in DOMAIN cache \cup {t} |-> IF u \in DOMAIN cache THEN cache[u] ELSE FALSE]
    /\ task' = [task EXCEPT ![p] = [pc |-> "entry", ts |-> t]]
    /\ answer' = [answer EXCEPT ![p] = none]

Return(p, result) ==
    /\ task' = [task EXCEPT ![p].pc = "idle"]
    /\ answer' = [answer EXCEPT ![p] = result]

\* A slip: whether the entry is filled is seen before the lock is waited for.
LockThenCompute(p) ==
    /\ task[p].pc = "entry"
    /\ lock[task[p].ts] = none
    /\ lock' = [lock EXCEPT ![task[p].ts] = p]
    /\ task' = [task EXCEPT ![p].pc = "compute"]
    /\ UNCHANGED <<answer, claim, cache, computed, fails, asks, chain, last, verdict>>

\* cache_entry.write().await: a filled entry is returned, and the lock dropped.
Lock(p) ==
    /\ task[p].pc = "entry"
    /\ lock[task[p].ts] = none
    /\ IF cache[task[p].ts]
       THEN Return(p, task[p].ts) /\ UNCHANGED lock
       ELSE /\ lock' = [lock EXCEPT ![task[p].ts] = p]
            /\ task' = [task EXCEPT ![p].pc = "compute"]
            /\ UNCHANGED answer
    /\ UNCHANGED <<claim, cache, computed, fails, asks, chain, last, verdict>>

\* compute_tipset_state succeeded (the genesis needs none): the entry is
\* filled and the lock dropped.
Compute(p) ==
    /\ task[p].pc = "compute"
    /\ cache' = [cache EXCEPT ![task[p].ts] = TRUE]
    /\ computed' = [computed EXCEPT ![task[p].ts] = @ + 1]
    /\ lock' = [lock EXCEPT ![task[p].ts] = none]
    /\ Return(p, task[p].ts)
    /\ UNCHANGED <<claim, fails, asks, chain, last, verdict>>


\* compute_tipset_state failed (two blocks of one miner, a block that could not
\* be read, the virtual machine): the lock is dropped with the entry still empty.
Fail(p) ==
    /\ task[p].pc = "compute" /\ task[p].ts # Genesis
    /\ fails < MaxFails
    /\ fails' = fails + 1
    /\ lock' = [lock EXCEPT ![task[p].ts] = none]
    /\ Return(p, "error")
    /\ UNCHANGED <<claim, cache, computed, asks, chain, last, verdict>>

Ask(p, t) ==
    /\ p # Validator
    /\ asks < MaxAsks
    /\ asks' = asks + 1
    /\ Entry(p, t)
    /\ UNCHANGED <<claim, lock, computed, fails, chain, last, verdict>>

(***************************************************************************)
(* validate_chain.                                                         *)
(***************************************************************************)
\* The walk from a tipset down to a height: the tipsets met, the lowest first,
\* or none if a null round makes it pass the height (the genesis has no
\* parents).
WalkFrom(tip, height) ==
    LET Walk[t \in Chain] ==
          IF HeightOf[t] = height THEN <<t>>
          ELSE IF t = Genesis THEN <<>>
          ELSE IF Walk[ParentOf[t]] = <<>> THEN <<>> ELSE Append(Walk[ParentOf[t]], t)
    IN  Walk[tip]

StartValidate ==
    /\ verdict = "none"
    /\ IF WalkFrom(Tip, claim.height) = <<>>
       THEN verdict' = "error" /\ UNCHANGED <<chain, last>>
       ELSE /\ chain' = WalkFrom(Tip, claim.height)
            /\ last' = [state |-> claim.state[Head(chain')],
                        receipts |-> claim.receipts[Head(chain')]]
            /\ verdict' = "running"
    /\ UNCHANGED <<claim, cache, lock, task, answer, computed, fails, asks>>

\* The header's parent state and receipts are those of the tipset before it.
Matches(t) == claim.state[t] = last.state /\ claim.receipts[t] = last.receipts

\* One round of the loop up to the call of tipset_state.
CheckNext ==
    /\ verdict = "running"
    /\ task[Validator].pc = "idle" /\ answer[Validator] = none
    /\ \/ /\ chain = <<>>
          /\ verdict' = "ok"
          /\ UNCHANGED <<cache, task, answer>>
       \/ /\ chain # <<>> /\ ~Matches(Head(chain))
          /\ verdict' = "mismatch"
          /\ UNCHANGED <<cache, task, answer>>
       \/ /\ chain # <<>> /\ Matches(Head(chain))
          /\ Entry(Validator, Head(chain))
          /\ UNCHANGED verdict
    /\ UNCHANGED <<claim, lock, computed, fails, asks, chain, last>>

\* The answer came: it is what the next tipset must claim.
TakeAnswer ==
    /\ verdict = "running"
    /\ answer[Validator] # none
    /\ IF answer[Validator] = "error"
       THEN verdict' = "error" /\ UNCHANGED <<chain, last, answer>>
       ELSE /\ chain' = Tail(chain)
            /\ last' = [state |-> answer[Validator], receipts |-> answer[Validator]]
            /\ answer' = [answer EXCEPT ![Validator] = none]
            /\ UNCHANGED verdict
    /\ UNCHANGED <<claim, cache, lock, task, computed, fails, asks>>

TaskStep(p) == Lock(p) \/ Compute(p) \/ Fail(p)
Validate == StartValidate \/ CheckNext \/ TakeAnswer
TNext ==
    \/ \E p \in Tasks : TaskStep(p) \/ (\E t \in Chain : Ask(p, t))
    \/ Validate

TSpec == TInit /\ [][TNext]_tsVars

(***************************************************************************)
(* Properties.                                                             *)
(***************************************************************************)
TTypeOK ==
    /\ DOMAIN cache \subseteq Chain /\ \A t \in DOMAIN cache : cache[t] \in BOOLEAN
    /\ lock \in [Chain -> Tasks \cup {none}]
    /\ task \in [Tasks -> [pc : {"idle", "entry", "compute"}, ts : Chain]]
    /\ answer \in [Tasks -> Chain \cup {none, "error"}]
    /\ verdict \in {"none", "running", "ok", "mismatch", "error"}
    /\ fails \in 0 .. MaxFails /\ asks \in 0 .. MaxAsks

\* "Tipset state for a given tipset is guaranteed not to be computed twice":
\* whatever tasks ask for it at once, and whether earlier attempts failed.
ComputedOnce == \A t \in Chain : computed[t] <= 1

\* validate_chain accepts a chain exactly when every tipset above the lowest
\* claims the state and the receipts of the one before it, whatever other
\* tasks compute or fail to compute meanwhile.
VerdictIsRight ==
    LET walk == WalkFrom(Tip, claim.height)
        consistent == \A i \in 2 .. Len(walk) :
                         claim.state[walk[i]] = walk[i - 1] /\ claim.receipts[walk[i]] = walk[i - 1]
    IN  /\ verdict = "ok" => walk # <<>> /\ consistent
        /\ verdict = "mismatch" => ~consistent

\* Every call is answered and the validation comes to a verdict: a failed
\* computation never leaves the others waiting for its entry.
EveryCallReturns ==
    <>[](/\ \A p \in Tasks : task[p].pc = "idle"
         /\ verdict \in {"ok", "mismatch", "error"})

\* States are computed once, and validate_chain tells right chains from wrong
\* ones.
StatesAreRight == TTypeOK /\ ComputedOnce /\ VerdictIsRight

=============================================================================
