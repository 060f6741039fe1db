----------------------------- MODULE MinerControl -----------------------------
(***************************************************************************)
(* Who may act for a storage miner: the owner, the worker key and the      *)
(* control addresses of its MinerInfo, a change of the worker that waits   *)
(* for its epoch, and a change of the owner that waits for the new owner's *)
(* confirmation.  A message whose checks fail leaves no trace.             *)
(***************************************************************************)
EXTENDS Integers, FiniteSets

CONSTANTS
    Address,                    \* ID addresses
    Principal,                  \* those of accounts and multisigs
    WorkerKey,                  \* those of accounts with a BLS key
    MAX_CONTROL_ADDRESSES,
    WORKER_KEY_CHANGE_DELAY,
    MaxEpoch

VARIABLES
    owner, worker, control_addresses,
    pending_worker_key,      \* {} or one [new_worker, effective_at]
    pending_owner_address,   \* {} or one address
    caller,                  \* of the last message, "cron" or "none"
    epoch

vars == <<owner, worker, control_addresses, pending_worker_key, pending_owner_address,
          caller, epoch>>

CheckControlAddresses(cs) == Cardinality(cs) <= MAX_CONTROL_ADDRESSES

(* resolve_worker_address and resolve_control_address.                     *)
Resolved(new_worker, cs) == new_worker \in WorkerKey /\ cs \subseteq Principal

Constructor(o, w, cs) ==
    /\ CheckControlAddresses(cs) /\ o \in Principal /\ Resolved(w, cs)
    /\ owner = o /\ worker = w /\ control_addresses = cs
    /\ pending_worker_key = {} /\ pending_owner_address = {}
    /\ caller = "none" /\ epoch = 0

(* The control addresses change at once, the worker later; a request for   *)
(* another worker while one waits is dropped without an error.             *)
ChangeWorkerAddress(c, new_worker, cs) ==
    /\ CheckControlAddresses(cs) /\ Resolved(new_worker, cs)
    /\ c = owner
    /\ control_addresses' = cs
    /\ pending_worker_key' =
         IF new_worker # worker /\ pending_worker_key = {}
         THEN {[new_worker |-> new_worker, effective_at |-> epoch + WORKER_KEY_CHANGE_DELAY]}
         ELSE pending_worker_key
    /\ caller' = c
    /\ UNCHANGED <<owner, worker, pending_owner_address, epoch>>

ProcessPendingWorker ==
    LET due == {k \in pending_worker_key : epoch >= k.effective_at}
    IN  /\ worker' \in IF due = {} THEN {worker} ELSE {k.new_worker : k \in due}
        /\ pending_worker_key' = pending_worker_key \ due
        /\ UNCHANGED <<owner, control_addresses, pending_owner_address, epoch>>

ConfirmUpdateWorkerKey(c) == c = owner /\ caller' = c /\ ProcessPendingWorker

(* Mutant: any proposed owner is taken for a confirmation.                 *)
ChangeOwnerUnchecked(c, new) ==
    /\ \/ c = owner /\ pending_owner_address' = {new} \ {owner} /\ owner' = owner
       \/ c # owner /\ pending_owner_address # {}
          /\ owner' \in pending_owner_address /\ pending_owner_address' = {}
    /\ caller' = c
    /\ UNCHANGED <<worker, control_addresses, pending_worker_key, epoch>>

(* The owner proposes, or by proposing itself revokes; the proposed owner  *)
(* confirms.                                                               *)
ChangeOwnerAddress(c, new) ==
    /\ \/ /\ c = owner
          /\ pending_owner_address' = {new} \ {owner} /\ owner' = owner
       \/ /\ c # owner /\ pending_owner_address = {c} /\ new = c
          /\ owner' = c /\ pending_owner_address' = {}
    /\ caller' = c
    /\ UNCHANGED <<worker, control_addresses, pending_worker_key, epoch>>

(* The end of a deadline, at some epochs.                                  *)
HandleProvingDeadline == caller' = "cron" /\ ProcessPendingWorker

NextEpoch ==
    /\ epoch < MaxEpoch /\ epoch' = epoch + 1 /\ caller' = "none"
    /\ UNCHANGED <<owner, worker, control_addresses, pending_worker_key, pending_owner_address>>

Init == \E o \in Principal, w \in WorkerKey : Constructor(o, w, {})

Next ==
    \/ \E c \in Address, w \in Address, cs \in SUBSET Address : ChangeWorkerAddress(c, w, cs)
    \/ \E c \in Address : ConfirmUpdateWorkerKey(c)
    \/ \E c, new \in Address : ChangeOwnerAddress(c, new)
    \/ HandleProvingDeadline
    \/ NextEpoch

Spec == Init /\ [][Next]_vars

-----------------------------------------------------------------------------

(* The variables have their types; the worker always has a key fit for the *)
(* election proofs.                                                        *)
TypeOK ==
    /\ owner \in Address /\ worker \in WorkerKey /\ control_addresses \subseteq Principal
    /\ Cardinality(pending_worker_key) <= 1 /\ Cardinality(pending_owner_address) <= 1
    /\ \A k \in pending_worker_key : k.new_worker \in WorkerKey
    /\ pending_owner_address \subseteq Address \ {owner}

(* A miner passes to another owner only when the present owner's standing  *)
(* proposal names it and it confirms that itself; and only the owner makes *)
(* or revokes a proposal.                                                  *)
OwnersAgree ==
    [][/\ owner' # owner => pending_owner_address = {owner'} /\ caller' = owner'
       /\ (owner' = owner /\ pending_owner_address' # pending_owner_address) => caller' = owner
      ]_vars

(* A change of worker that waits is neither replaced nor put off: it takes *)
(* effect as requested, after the delay in which the old key's             *)
(* commitments run out.                                                    *)
WorkerChangeStands ==
    [][\A k \in pending_worker_key :
         \/ k \in pending_worker_key' /\ worker' = worker
         \/ pending_worker_key' = {} /\ worker' = k.new_worker /\ epoch >= k.effective_at]_vars

(* The keys of a miner change hands only as their holders agreed: the      *)
(* owner with the new owner's consent, the worker after the delay.         *)
ControlIsSafe == []TypeOK /\ OwnersAgree /\ WorkerChangeStands

=============================================================================
