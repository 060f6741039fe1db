------------------------------ MODULE Multisig ------------------------------
(* The multisig actor: a wallet whose transactions are sent once enough      *)
(* signers approved them, and whose signers, threshold and lock only its own *)
(* transactions change.  A message that aborts leaves no trace, so every     *)
(* action is a method that succeeds.                                         *)
(*                                                                           *)
(* A signer is an account.  A call to another actor, which may or may not    *)
(* succeed, is to "other"; a call of the wallet to itself runs one of the    *)
(* methods that only it may call, nested in the method that sends it.        *)
EXTENDS Integers, Sequences, FiniteSets, SequencesExt, Functions

CONSTANTS Address,      \* accounts, signers or not
          Calls,        \* [to, value, method, ...] that may be proposed
          Constructors, \* [signers, num_approvals_threshold, unlock_duration, start_epoch, value]
          SIGNERS_MAX,
          MaxTxns, MaxEpoch, MaxDeposits    \* bounds of the model

VARIABLES st,           \* the State of the actor
          balance, epoch,
          deposits      \* how often somebody else sent funds

vars == <<st, balance, epoch, deposits>>

-----------------------------------------------------------------------------
\* State.

CeilDiv(a, b) == (a + b - 1) \div b

AmountLocked(s, elapsed) ==
    IF elapsed >= s.unlock_duration THEN 0
    ELSE IF elapsed <= 0 THEN s.initial_balance
    ELSE CeilDiv(s.initial_balance * (s.unlock_duration - elapsed), s.unlock_duration)

CheckAvailable(s, value) ==
    /\ balance >= value
    /\ value = 0 \/ balance - value >= AmountLocked(s, epoch - s.start_epoch)

\* Mutant: a transaction that loses its last approval stays.
PurgeApprovalsKeep(txs, addr) ==
    [id \in DOMAIN txs |-> [txs[id] EXCEPT !.approved = SelectSeq(@, LAMBDA a : a # addr)]]

\* Every transaction loses the approval of addr, and goes with its last one.
PurgeApprovals(txs, addr) ==
    [id \in {i \in DOMAIN txs : ToSet(txs[i].approved) # {addr}} |->
        [txs[id] EXCEPT !.approved = SelectSeq(@, LAMBDA a : a # addr)]]

SetLocked(s, start, duration, amount) ==
    [s EXCEPT !.start_epoch = start, !.unlock_duration = duration, !.initial_balance = amount]

-----------------------------------------------------------------------------
\* Methods the wallet calls on itself: the states they may leave, none if they
\* abort.

If(guard, s) == {t \in {s} : guard}

AddSigner(s, call) ==
    If(/\ Cardinality(s.signers) < SIGNERS_MAX
       /\ call.signer \notin s.signers,
       [s EXCEPT !.signers = @ \cup {call.signer},
                 !.num_approvals_threshold = @ + IF call.increase THEN 1 ELSE 0])

RemoveSigner(s, call) ==
    If(/\ call.signer \in s.signers
       /\ Cardinality(s.signers) > 1
       /\ call.decrease \/ Cardinality(s.signers) - 1 >= s.num_approvals_threshold
       /\ call.decrease => s.num_approvals_threshold >= 2,
       [s EXCEPT !.signers = @ \ {call.signer},
                 !.num_approvals_threshold = @ - IF call.decrease THEN 1 ELSE 0,
                 !.pending_txs = PurgeApprovals(@, call.signer)])

SwapSigner(s, call) ==
    If(/\ call.from \in s.signers
       /\ call.new \notin s.signers,
       [s EXCEPT !.signers = (@ \ {call.from}) \cup {call.new},
                 !.pending_txs = PurgeApprovals(@, call.from)])

ChangeNumApprovalsThreshold(s, call) ==
    If(call.new_threshold \in 1 .. Cardinality(s.signers),
       [s EXCEPT !.num_approvals_threshold = call.new_threshold])

LockBalance(s, call) ==
    If(/\ call.unlock_duration > 0 /\ call.amount >= 0
       /\ s.unlock_duration = 0,
       SetLocked(s, call.start_epoch, call.unlock_duration, call.amount))

SelfCall(s, call) ==
    CASE call.method = "AddSigner" -> AddSigner(s, call)
      [] call.method = "RemoveSigner" -> RemoveSigner(s, call)
      [] call.method = "SwapSigner" -> SwapSigner(s, call)
      [] call.method = "ChangeNumApprovalsThreshold" -> ChangeNumApprovalsThreshold(s, call)
      [] call.method = "LockBalance" -> LockBalance(s, call)

-----------------------------------------------------------------------------
\* Methods of the signers.

\* The state and what was paid after the send: one that fails leaves the state
\* as it was, and the wallet goes on.
Send(s, call) ==
    IF call.to = "self"
    THEN {[st |-> t, paid |-> 0] : t \in IF SelfCall(s, call) = {} THEN {s} ELSE SelfCall(s, call)}
    ELSE {[st |-> s, paid |-> call.value], [st |-> s, paid |-> 0]}

\* The part of execute_transaction_if_approved for a threshold that is met:
\* whatever came of the send, the transaction is deleted from the state the
\* send left.
ExecuteTransactionIfApproved(s, txn_id, txn) ==
    /\ CheckAvailable(s, txn.call.value)
    /\ \E r \in Send(s, txn.call) :
         /\ st' = [r.st EXCEPT !.pending_txs = Restrict(@, DOMAIN @ \ {txn_id})]
         /\ balance' = balance - r.paid

ThresholdMet(s, txn) == Len(txn.approved) >= s.num_approvals_threshold

ApproveTransaction(s, txn_id, txn, caller) ==
    LET new == [txn EXCEPT !.approved = Append(@, caller)]
        saved == [s EXCEPT !.pending_txs = [i \in DOMAIN @ \cup {txn_id} |-> IF i = txn_id THEN new ELSE @[i]]]
    IN  /\ caller \notin ToSet(txn.approved)
        /\ IF ThresholdMet(s, new)
           THEN ExecuteTransactionIfApproved(saved, txn_id, new)
           ELSE st' = saved /\ UNCHANGED balance

Propose(caller, call) ==
    /\ st.next_tx_id < MaxTxns
    /\ caller \in st.signers
    /\ ApproveTransaction([st EXCEPT !.next_tx_id = @ + 1], st.next_tx_id,
                          [call |-> call, approved |-> <<>>], caller)
    /\ UNCHANGED <<epoch, deposits>>

\* A transaction that already has approvals enough, for the threshold is lower
\* now, is sent without another one.
Approve(caller, txn_id) ==
    /\ caller \in st.signers
    /\ txn_id \in DOMAIN st.pending_txs
    /\ LET txn == st.pending_txs[txn_id]
       IN  \/ ThresholdMet(st, txn) /\ ExecuteTransactionIfApproved(st, txn_id, txn)
           \/ ~ThresholdMet(st, txn) /\ ApproveTransaction(st, txn_id, txn, caller)
    /\ UNCHANGED <<epoch, deposits>>

\* Its first approver cancels a transaction.
Cancel(caller, txn_id) ==
    /\ caller \in st.signers
    /\ txn_id \in DOMAIN st.pending_txs
    /\ Head(st.pending_txs[txn_id].approved) = caller
    /\ st' = [st EXCEPT !.pending_txs = Restrict(@, DOMAIN @ \ {txn_id})]
    /\ UNCHANGED <<balance, epoch, deposits>>

Deposit ==
    /\ deposits < MaxDeposits
    /\ deposits' = deposits + 1
    /\ balance' = balance + 1
    /\ UNCHANGED <<st, epoch>>

Tick == epoch < MaxEpoch /\ epoch' = epoch + 1 /\ UNCHANGED <<st, balance, deposits>>

-----------------------------------------------------------------------------

\* What the constructor accepts.
Constructed(p) ==
    /\ Cardinality(p.signers) \in 1 .. SIGNERS_MAX
    /\ p.num_approvals_threshold \in 1 .. Cardinality(p.signers)
    /\ p.unlock_duration >= 0

Init ==
    /\ \E p \in {q \in Constructors : Constructed(q)} :
         LET new == [signers |-> p.signers, num_approvals_threshold |-> p.num_approvals_threshold,
                     next_tx_id |-> 0, pending_txs |-> <<>>,
                     initial_balance |-> 0, start_epoch |-> 0, unlock_duration |-> 0]
         IN  /\ st = IF p.unlock_duration = 0 THEN new
                     ELSE SetLocked(new, p.start_epoch, p.unlock_duration, p.value)
             /\ balance = p.value
    /\ epoch = 0 /\ deposits = 0

Next ==
    \/ \E caller \in Address : \/ \E call \in Calls : Propose(caller, call)
                               \/ \E id \in DOMAIN st.pending_txs : Approve(caller, id) \/ Cancel(caller, id)
    \/ Deposit \/ Tick

Spec == Init /\ [][Next]_vars

-----------------------------------------------------------------------------

TypeOK ==
    /\ st.signers \subseteq Address
    /\ st.num_approvals_threshold \in Nat
    /\ st.next_tx_id \in 0 .. MaxTxns
    /\ DOMAIN st.pending_txs \subseteq 0 .. st.next_tx_id - 1
    /\ balance \in Nat /\ epoch \in 0 .. MaxEpoch

\* The signers can always act: whatever they add, remove, swap or change, the
\* threshold is at least one and no more than there are signers.
ThresholdReachable == st.num_approvals_threshold \in 1 .. Cardinality(st.signers)

\* The approvals of a pending transaction are of different people who are
\* signers now, so the number of them is what the threshold is compared with;
\* there is always one, who may cancel it.
ApprovalsCount ==
    \A id \in DOMAIN st.pending_txs :
        LET approved == st.pending_txs[id].approved
        IN  approved # <<>> /\ IsInjective(approved) /\ ToSet(approved) \subseteq st.signers

\* What the wallet does, paying somebody, changing its signers, threshold or
\* lock, is a call that signers enough approved: those who approved it before
\* and one who approves it now.
OnlyApproved ==
    [][\/ balance' < balance
       \/ <<st.signers, st.num_approvals_threshold, st.unlock_duration>>'
            # <<st.signers, st.num_approvals_threshold, st.unlock_duration>>
       => \/ st.num_approvals_threshold = 1
          \/ \E id \in DOMAIN st.pending_txs :
               LET approved == ToSet(st.pending_txs[id].approved)
               IN  /\ approved \subseteq st.signers
                   /\ \E a \in st.signers : Cardinality(approved \cup {a}) >= st.num_approvals_threshold
                   /\ balance' < balance => st.pending_txs[id].call.value = balance - balance'
                   /\ id \notin DOMAIN st'.pending_txs]_vars

\* A payment leaves what is locked: at least in proportion to the time that is
\* left.
LockedStays ==
    [][balance' < balance =>
          LET elapsed == epoch - st.start_epoch
          IN  elapsed < st.unlock_duration =>
                /\ balance' * st.unlock_duration >= st.initial_balance * (st.unlock_duration - IF elapsed < 0 THEN 0 ELSE elapsed)
                ]_vars

\* The wallet does what signers enough agreed on and nothing else, can always
\* be acted for, and keeps what is locked.
WalletIsSafe == [](TypeOK /\ ThresholdReachable /\ ApprovalsCount) /\ OnlyApproved /\ LockedStays

=============================================================================
