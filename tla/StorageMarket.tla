---------------------------- MODULE StorageMarket ----------------------------
(* The storage market actor with the verified registry it calls.  Clients and *)
(* providers hold funds in escrow; publishing deals locks what they cost, a   *)
(* sector that starts in time activates them, one that ends early has them    *)
(* slashed, and the cron tick of every epoch pays for the deals scheduled for *)
(* it and settles the ones that ended.                                        *)
(*                                                                            *)
(* A message that aborts leaves no trace, so every action is a method that    *)
(* succeeds; the cron actor ignores a tick that aborts, and the epoch passes. *)
(* Signatures and the bounds on prices, durations and collaterals are         *)
(* properties of a proposal alone: Proposals holds the ones that pass.        *)
EXTENDS Integers, FiniteSets, Functions, FiniteSetsExt, Sequences

-----------------------------------------------------------------------------
\* The verified registry actor: the root key gives verifiers data cap, a verifier
\* gives some of its own to clients, and the market takes what a verified deal
\* uses and restores it if the deal never starts.  UseBytes and RestoreBytes give
\* the clients' caps they may leave, none if they abort.

CONSTANTS Address,
          root_key,
          Allowances,   \* amounts somebody may be given
          MINIMUM_VERIFIED_DEAL_SIZE,
          MaxGrants     \* bound: how often the root key and the verifiers act

ASSUME RegistryAssumption ==
    IsFiniteSet(Address) /\ Allowances \subseteq Nat /\ MINIMUM_VERIFIED_DEAL_SIZE \in Nat

VARIABLES verifiers, verified_clients,  \* data caps, of those who have an entry
          granted,      \* what verifiers ever gave to each address
          grants

registryVars == <<verifiers, verified_clients, granted, grants>>

Put(map, key, value) == [k \in DOMAIN map \cup {key} |-> IF k = key THEN value ELSE map[k]]
Delete(map, key) == Restrict(map, DOMAIN map \ {key})
CapOf(map, key) == IF key \in DOMAIN map THEN map[key] ELSE 0

Act == grants < MaxGrants /\ grants' = grants + 1

-----------------------------------------------------------------------------

AddVerifier(verifier, allowance) ==
    /\ Act
    /\ allowance >= MINIMUM_VERIFIED_DEAL_SIZE
    /\ verifier # root_key
    /\ verifier \notin DOMAIN verified_clients
    /\ verifiers' = Put(verifiers, verifier, allowance)
    /\ UNCHANGED <<verified_clients, granted>>

RemoveVerifier(verifier) ==
    /\ Act
    /\ verifier \in DOMAIN verifiers
    /\ verifiers' = Delete(verifiers, verifier)
    /\ UNCHANGED <<verified_clients, granted>>

AddVerifiedClient(verifier, client, allowance) ==
    /\ Act
    /\ allowance >= MINIMUM_VERIFIED_DEAL_SIZE
    /\ client # root_key
    /\ verifier \in DOMAIN verifiers
    /\ client \notin DOMAIN verifiers
    /\ verifiers[verifier] >= allowance
    /\ verifiers' = [verifiers EXCEPT ![verifier] = @ - allowance]
    /\ verified_clients' = Put(verified_clients, client, CapOf(verified_clients, client) + allowance)
    /\ granted' = [granted EXCEPT ![client] = @ + allowance]

\* Mutant: a deal that fits the cap uses nothing of it.
UseBytesFree(clients, client, deal_size) ==
    {c \in {clients} : client \in DOMAIN clients /\ deal_size <= clients[client]}

\* A client whose cap falls under the minimum loses the rest.
UseBytes(clients, client, deal_size) ==
    IF /\ deal_size >= MINIMUM_VERIFIED_DEAL_SIZE
       /\ client \in DOMAIN clients
       /\ deal_size <= clients[client]
    THEN {IF clients[client] - deal_size < MINIMUM_VERIFIED_DEAL_SIZE
          THEN Delete(clients, client)
          ELSE [clients EXCEPT ![client] = @ - deal_size]}
    ELSE {}

\* One who became a verifier in the meantime gets nothing back.
RestoreBytes(clients, client, deal_size) ==
    IF /\ deal_size >= MINIMUM_VERIFIED_DEAL_SIZE
       /\ client # root_key
       /\ client \notin DOMAIN verifiers
    THEN {Put(clients, client, CapOf(clients, client) + deal_size)}
    ELSE {}

RegistryInit ==
    /\ verifiers = <<>> /\ verified_clients = <<>>
    /\ granted = [a \in Address |-> 0]
    /\ grants = 0

RegistryNext ==
    \E a \in Address :
        \/ \E allowance \in Allowances :
             \/ AddVerifier(a, allowance)
             \/ \E client \in Address : AddVerifiedClient(a, client, allowance)
        \/ RemoveVerifier(a)

-----------------------------------------------------------------------------

\* Nobody gives themself data cap: no address is a verifier and a client at
\* once, whatever the market restores to whom, and the root key is neither.
VerifierOrClient ==
    /\ DOMAIN verifiers \cap DOMAIN verified_clients = {}
    /\ root_key \notin DOMAIN verifiers \cup DOMAIN verified_clients

-----------------------------------------------------------------------------
\* The storage market actor.

CONSTANTS Providers,            \* the miners, Address \ Providers the clients
          Proposals,            \* [client, provider, start, end, price, client_collateral,
                                \*  provider_collateral, verified, piece_size]
          DEAL_UPDATES_INTERVAL,
          Deposits,             \* amounts added to or taken from escrow
          TerminationDelays,    \* how late a miner may report a sector that ended
          MaxDeals, MaxEpoch, MaxTransfers, MaxBatch    \* bounds of the model

\* What validate_deal, the parameters' types and withdraw_balance admit.
ASSUME MarketAssumption ==
    /\ DEAL_UPDATES_INTERVAL \in Nat \ {0}
    /\ Proposals \subseteq [client : Address, provider : Providers, start : Int, end : Int, price : Nat,
                             client_collateral : Nat, provider_collateral : Nat,
                             verified : BOOLEAN, piece_size : Nat]
    /\ \A p \in Proposals : p.start < p.end
    /\ Providers \subseteq Address
    /\ Deposits \subseteq Nat /\ TerminationDelays \subseteq Nat

VARIABLES proposals, states,    \* by deal id; states of the activated ones
          pending_proposals, escrow_table, locked_table, next_id,
          deal_ops_by_epoch,    \* set of <<epoch, deal id>>
          last_cron, totals, balance, epoch,
          transfers,            \* how often escrow was filled or emptied by hand
          paid                  \* what each deal id paid its provider

marketVars == <<proposals, states, pending_proposals, escrow_table, locked_table, next_id,
                deal_ops_by_epoch, last_cron, totals, balance, epoch, transfers, paid>>
vars == <<registryVars, marketVars>>

EPOCH_UNDEFINED == -1
Larger(a, b) == IF a > b THEN a ELSE b
Smaller(a, b) == IF a < b THEN a ELSE b

total_storage_fee(deal) == deal.price * (deal.end - deal.start)
client_balance_requirement(deal) == deal.client_collateral + total_storage_fee(deal)

-----------------------------------------------------------------------------
\* Balances.  The part of the state the mutator works on is a record m; ok says
\* that nothing failed so far.

Mutator == [proposals |-> proposals, states |-> states, pending |-> pending_proposals,
            escrow |-> escrow_table, locked |-> locked_table, next_id |-> next_id,
            ops |-> deal_ops_by_epoch, totals |-> totals, paid |-> paid,
            slashed |-> 0, timed_out |-> <<>>, ok |-> TRUE]

BalanceCovered(addr, amount) == locked_table[addr] + amount <= escrow_table[addr]

MaybeLockBalance(m, addr, amount) ==
    [m EXCEPT !.ok = @ /\ m.locked[addr] + amount <= m.escrow[addr],
              !.locked[addr] = @ + amount]

LockClientAndProviderBalances(m, deal) ==
    LET both == MaybeLockBalance(MaybeLockBalance(m, deal.client, client_balance_requirement(deal)),
                                 deal.provider, deal.provider_collateral)
    IN  [both EXCEPT !.totals.client_collateral = @ + deal.client_collateral,
                     !.totals.storage_fee = @ + total_storage_fee(deal),
                     !.totals.provider_collateral = @ + deal.provider_collateral]

UnlockBalance(m, addr, amount, reason) ==
    [m EXCEPT !.ok = @ /\ amount <= m.locked[addr],
              !.locked[addr] = @ - amount,
              !.totals[reason] = @ - amount]

TakeFromEscrow(m, addr, amount) ==
    [m EXCEPT !.ok = @ /\ amount <= m.escrow[addr], !.escrow[addr] = @ - amount]

TransferBalance(m, id, from, to, amount) ==
    LET taken == UnlockBalance(TakeFromEscrow(m, from, amount), from, amount, "storage_fee")
    IN  [taken EXCEPT !.escrow[to] = @ + amount, !.paid[id] = @ + amount]

SlashBalance(m, addr, amount, reason) ==
    [UnlockBalance(TakeFromEscrow(m, addr, amount), addr, amount, reason) EXCEPT !.slashed = @ + amount]

-----------------------------------------------------------------------------
\* Escrow.

Transfer == transfers < MaxTransfers /\ transfers' = transfers + 1

AddBalance(addr, value) ==
    /\ Transfer
    /\ value > 0
    /\ escrow_table' = [escrow_table EXCEPT ![addr] = @ + value]
    /\ balance' = balance + value
    /\ UNCHANGED <<proposals, states, pending_proposals, locked_table, next_id,
                   deal_ops_by_epoch, last_cron, totals, epoch, paid>>

\* subtract_with_minimum leaves what is locked.
Withdrawable(addr) == Larger(0, escrow_table[addr] - locked_table[addr])

WithdrawBalance(addr, amount) ==
    /\ Transfer
    /\ LET extracted == Smaller(Withdrawable(addr), amount)
       IN  /\ escrow_table' = [escrow_table EXCEPT ![addr] = @ - extracted]
           /\ balance' = balance - extracted
    /\ UNCHANGED <<proposals, states, pending_proposals, locked_table, next_id,
                   deal_ops_by_epoch, last_cron, totals, epoch, paid>>

-----------------------------------------------------------------------------
\* Publishing.

\* A pass over the deals of a message, from the first to the last.
InOrder(op(_, _), base, deals) ==
    MapThenFoldSet(op, base, LAMBDA i : deals[i], LAMBDA at : Max(at), DOMAIN deals)

QuantizeUp(e) == ((e + DEAL_UPDATES_INTERVAL - 1) \div DEAL_UPDATES_INTERVAL) * DEAL_UPDATES_INTERVAL
QuantizeDown(e) == (e \div DEAL_UPDATES_INTERVAL) * DEAL_UPDATES_INTERVAL

\* The first processing of a deal: its turn on the day it starts, or the next.
GenRandNextEpoch(start, id) ==
    LET offset == id % DEAL_UPDATES_INTERVAL
    IN  IF QuantizeDown(start) + offset >= start THEN QuantizeDown(start) + offset
        ELSE QuantizeUp(start) + offset

\* The first pass, over one deal of the message.  What a deal would lock counts
\* against the ones after it even if it is dropped for another reason.
Consider(acc, deal, provider) ==
    LET client == [acc EXCEPT !.client_lockup[deal.client] = @ + client_balance_requirement(deal)]
        both == [client EXCEPT !.provider_lockup = @ + deal.provider_collateral]
        used == IF deal.verified THEN UseBytes(acc.clients, deal.client, deal.piece_size) ELSE {acc.clients}
    IN  IF epoch > deal.start \/ deal.provider # provider THEN acc
        ELSE IF ~BalanceCovered(deal.client, client.client_lockup[deal.client]) THEN client
        ELSE IF \/ ~BalanceCovered(provider, both.provider_lockup)
                \/ deal \in pending_proposals \cup Range(acc.valid)
                \/ used = {}
             THEN both
        ELSE [both EXCEPT !.valid = Append(@, deal), !.clients = CHOOSE c \in used : TRUE]

\* The second pass, over the deals that are left.
Insert(m, deal) ==
    [LockClientAndProviderBalances(m, deal) EXCEPT
        !.next_id = @ + 1,
        !.pending = @ \cup {deal},
        !.proposals = Put(@, m.next_id, deal),
        !.ops = @ \cup {<<GenRandNextEpoch(deal.start, m.next_id), m.next_id>>}]

PublishStorageDeals(deals) ==
    LET provider == deals[1].provider
        first == InOrder(LAMBDA d, acc : Consider(acc, d, provider),
                         [valid |-> <<>>, client_lockup |-> [a \in Address |-> 0],
                          provider_lockup |-> 0, clients |-> verified_clients], deals)
        m == InOrder(LAMBDA d, acc : Insert(acc, d), Mutator, first.valid)
    IN  /\ first.valid # <<>>
        /\ m.next_id <= MaxDeals
        /\ m.ok
        /\ proposals' = m.proposals /\ pending_proposals' = m.pending
        /\ locked_table' = m.locked /\ totals' = m.totals
        /\ next_id' = m.next_id /\ deal_ops_by_epoch' = m.ops
        /\ verified_clients' = first.clients
        /\ UNCHANGED <<verifiers, granted, grants, states, escrow_table, last_cron,
                       balance, epoch, transfers, paid>>

-----------------------------------------------------------------------------
\* What the miners report.

\* validate_deal_can_activate and the checks of activate_deals, for the deals
\* of a sector that is proven now and lasts until the end of each.
CanActivate(id) ==
    /\ id \in DOMAIN proposals
    /\ epoch <= proposals[id].start
    /\ id \notin DOMAIN states
    /\ proposals[id] \in pending_proposals

ActivateDeals(provider, ids) ==
    /\ \A id \in ids : CanActivate(id) /\ proposals[id].provider = provider
    /\ states' = [id \in DOMAIN states \cup ids |->
                    IF id \in ids THEN [last_updated |-> EPOCH_UNDEFINED, slash |-> EPOCH_UNDEFINED]
                    ELSE states[id]]
    /\ UNCHANGED <<registryVars, proposals, pending_proposals, escrow_table, locked_table, next_id,
                   deal_ops_by_epoch, last_cron, totals, balance, epoch, transfers, paid>>

\* A deal is slashed once, and not after it ended.
Slashes(id, ended) ==
    /\ id \in DOMAIN proposals
    /\ proposals[id].end > ended
    /\ states[id].slash = EPOCH_UNDEFINED

\* The sector of these deals ended at some epoch, which the miner reports now or
\* when it gets to it.
OnMinerSectorsTerminate(provider, ids, ended) ==
    /\ \A id \in ids \cap DOMAIN proposals :
         proposals[id].provider = provider /\ (proposals[id].end > ended => id \in DOMAIN states)
    /\ \E id \in ids : Slashes(id, ended)
    /\ states' = [id \in DOMAIN states |-> IF id \in ids /\ Slashes(id, ended)
                                           THEN [states[id] EXCEPT !.slash = ended] ELSE states[id]]
    /\ UNCHANGED <<registryVars, proposals, pending_proposals, escrow_table, locked_table, next_id,
                   deal_ops_by_epoch, last_cron, totals, balance, epoch, transfers, paid>>

-----------------------------------------------------------------------------
\* The cron tick.

collateral_penalty_for_deal_activation_missed(collateral) == collateral


ProcessDealInitTimedOut(m, deal) ==
    LET penalty == collateral_penalty_for_deal_activation_missed(deal.provider_collateral)
        fee == UnlockBalance(m, deal.client, total_storage_fee(deal), "storage_fee")
        collateral == UnlockBalance(fee, deal.client, deal.client_collateral, "client_collateral")
        slashed == SlashBalance(collateral, deal.provider, penalty, "provider_collateral")
    IN  UnlockBalance(slashed, deal.provider, deal.provider_collateral - penalty, "provider_collateral")

ProcessDealExpired(m, deal) ==
    UnlockBalance(UnlockBalance(m, deal.provider, deal.provider_collateral, "provider_collateral"),
                  deal.client, deal.client_collateral, "client_collateral")

deal_get_payment_remaining(deal, slash) == deal.price * (deal.end - Larger(slash, deal.start))

\* The first epoch that is not paid for yet.
PaymentStart(deal, state) == Larger(state.last_updated, deal.start)

PaymentEnd(deal, state) ==
    IF state.slash # EPOCH_UNDEFINED THEN state.slash ELSE Smaller(deal.end, epoch)

Settle(m, deal) ==
    LET slashed == UnlockBalance(m, deal.client, deal.client_collateral, "client_collateral")
    IN  SlashBalance(slashed, deal.provider, deal.provider_collateral, "provider_collateral")


\* update_pending_deal_state with what cron_tick does with its answer.
UpdatePendingDealState(m, id) ==
    LET deal == m.proposals[id]
        state == m.states[id]
        payment == deal.price * (PaymentEnd(deal, state) - PaymentStart(deal, state))
        paying == IF payment > 0 THEN TransferBalance(m, id, deal.client, deal.provider, payment) ELSE m
        gone == [paying EXCEPT !.proposals = Delete(@, id), !.states = Delete(@, id)]
        legal == /\ state.last_updated <= epoch
                 /\ deal.start <= epoch
                 /\ state.slash # EPOCH_UNDEFINED => state.slash <= epoch /\ state.slash <= deal.end
    IN  CASE ~legal -> [m EXCEPT !.ok = FALSE]
          [] legal /\ state.slash # EPOCH_UNDEFINED ->
               Settle(UnlockBalance(gone, deal.client, deal_get_payment_remaining(deal, state.slash), "storage_fee"), deal)
          [] legal /\ state.slash = EPOCH_UNDEFINED /\ epoch >= deal.end -> ProcessDealExpired(gone, deal)
          [] OTHER -> [paying EXCEPT !.states[id].last_updated = epoch,
                                     !.ops = @ \cup {<<epoch + DEAL_UPDATES_INTERVAL, id>>}]

\* One deal id that is scheduled for an epoch of this tick.
ProcessDeal(m, id) ==
    IF id \notin DOMAIN m.proposals THEN [m EXCEPT !.ok = FALSE]
    ELSE LET deal == m.proposals[id]
             started == [m EXCEPT !.pending = @ \ {deal}, !.ok = @ /\ deal \in m.pending]
         IN  CASE id \notin DOMAIN m.states ->
                    ProcessDealInitTimedOut([started EXCEPT !.proposals = Delete(@, id),
                                                            !.timed_out = IF deal.verified THEN Append(@, deal) ELSE @,
                                                            !.ok = @ /\ epoch >= deal.start], deal)
               [] id \in DOMAIN m.states /\ m.states[id].last_updated = EPOCH_UNDEFINED ->
                    UpdatePendingDealState(started, id)
               [] OTHER -> UpdatePendingDealState(m, id)

Due == {op \in deal_ops_by_epoch : op[1] \in last_cron + 1 .. epoch}

RestoreAll(clients, deals) ==
    InOrder(LAMBDA d, c : LET restored == RestoreBytes(c, d.client, d.piece_size)
                          IN  IF restored = {} THEN c ELSE CHOOSE r \in restored : TRUE,
            clients, deals)

\* Epochs are gone through in order, and the deals of each by their ids.
Before(a, b) == a[1] < b[1] \/ (a[1] = b[1] /\ a[2] < b[2])
LastOf(ops) == CHOOSE op \in ops : \A other \in ops \ {op} : Before(other, op)

TickResult ==
    MapThenFoldSet(LAMBDA op, m : ProcessDeal(m, op[2]), [Mutator EXCEPT !.ops = @ \ Due],
                   LAMBDA op : op, LastOf, Due)

\* What the tick slashed is burnt and the caps of verified deals that never
\* started are given back.
CronTick ==
    /\ epoch < MaxEpoch
    /\ epoch' = epoch + 1
    /\ LET m == TickResult
       IN  \/ /\ m.ok
              /\ proposals' = m.proposals /\ states' = m.states /\ pending_proposals' = m.pending
              /\ escrow_table' = m.escrow /\ locked_table' = m.locked /\ totals' = m.totals
              /\ deal_ops_by_epoch' = m.ops /\ paid' = m.paid
              /\ last_cron' = epoch
              /\ balance' = balance - m.slashed
              /\ verified_clients' = RestoreAll(verified_clients, m.timed_out)
           \/ /\ ~m.ok
              /\ UNCHANGED <<proposals, states, pending_proposals, escrow_table, locked_table, totals,
                             deal_ops_by_epoch, paid, last_cron, balance, verified_clients>>
    /\ UNCHANGED <<verifiers, granted, grants, next_id, transfers>>

-----------------------------------------------------------------------------

MarketInit ==
    /\ proposals = <<>> /\ states = <<>> /\ pending_proposals = {}
    /\ escrow_table = [a \in Address |-> 0] /\ locked_table = [a \in Address |-> 0]
    /\ next_id = 0 /\ deal_ops_by_epoch = {}
    /\ last_cron = EPOCH_UNDEFINED
    /\ totals = [client_collateral |-> 0, storage_fee |-> 0, provider_collateral |-> 0]
    /\ balance = 0 /\ epoch = 0 /\ transfers = 0
    /\ paid = [id \in 0 .. MaxDeals - 1 |-> 0]

\* Bound: only those with deals use the market.
Parties == UNION {{p.client, p.provider} : p \in Proposals}
Batches == UNION {[1 .. n -> Proposals] : n \in 1 .. MaxBatch}
Sectors == {ids \in SUBSET (0 .. next_id - 1) : ids # {} /\ Cardinality(ids) <= MaxBatch}

MarketNext ==
    \/ \E addr \in Parties, amount \in Deposits : AddBalance(addr, amount) /\ UNCHANGED registryVars
    \/ \E addr \in Parties, amount \in Deposits : WithdrawBalance(addr, amount) /\ UNCHANGED registryVars
    \/ \E deals \in Batches : PublishStorageDeals(deals)
    \/ \E provider \in Providers, ids \in Sectors :
         \/ ActivateDeals(provider, ids)
         \/ \E delay \in TerminationDelays :
              epoch >= delay /\ OnMinerSectorsTerminate(provider, ids, epoch - delay)
    \/ CronTick

Init == RegistryInit /\ MarketInit

Next == (RegistryNext /\ UNCHANGED marketVars) \/ MarketNext

Spec == Init /\ [][Next]_vars

-----------------------------------------------------------------------------

SumOver(S, w) == MapThenSumSet(LAMBDA x : w[x], S)

\* The fee that is locked for a deal that is not settled.
FeeOwed(ps, ss, id) ==
    ps[id].price * (ps[id].end - IF id \in DOMAIN ss THEN PaymentStart(ps[id], ss[id]) ELSE ps[id].start)

\* What each of the deals ps may still need of an address.
Needs(ps, ss, addr) ==
    [id \in DOMAIN ps |->
        (IF ps[id].client = addr THEN FeeOwed(ps, ss, id) + ps[id].client_collateral ELSE 0)
        + (IF ps[id].provider = addr THEN ps[id].provider_collateral ELSE 0)]

\* States have proposals, balances are never negative, nothing is scheduled
\* that does not exist.
TypeOK ==
    /\ DOMAIN states \subseteq DOMAIN proposals
    /\ DOMAIN proposals \subseteq 0 .. next_id - 1
    /\ \A a \in Address : escrow_table[a] \in Nat /\ locked_table[a] \in Nat
    /\ \A op \in deal_ops_by_epoch : op[2] \in 0 .. next_id - 1
    /\ \A a \in DOMAIN verified_clients : verified_clients[a] \in Nat

\* What is locked of an address is what its deals still may need of it: fees not
\* yet paid and collaterals.  No payment, expiry, timeout or slash leaves a
\* remainder behind or takes what is locked for another deal.
LockedIsOwed ==
    \A a \in Address :
        locked_table[a] = SumOver(DOMAIN proposals, Needs(proposals, states, a))

\* The totals that the circulating supply is computed from are what the table
\* says is locked.
TotalsMatch ==
    totals.client_collateral + totals.storage_fee + totals.provider_collateral
        = SumOver(Address, locked_table)

\* The actor can always pay out: its balance is the sum of the escrow, and of
\* each escrow no more is locked than is there.
Solvent ==
    /\ balance = SumOver(Address, escrow_table)
    /\ \A a \in Address : locked_table[a] <= escrow_table[a]

\* Every deal that is not settled is scheduled, once, for an epoch the cron tick
\* has yet to come to.
ScheduledOnce ==
    /\ \A id \in DOMAIN proposals : Cardinality({op \in deal_ops_by_epoch : op[2] = id}) = 1
    /\ \A op \in deal_ops_by_epoch : op[2] \in DOMAIN proposals /\ op[1] > last_cron

\* The cron tick of every epoch goes through, and no deal outlives its end by
\* more than the interval of its updates and the turn within a day.
SettledInTime ==
    /\ last_cron = epoch - 1
    /\ \A id \in DOMAIN proposals : epoch <= proposals[id].end + 2 * DEAL_UPDATES_INTERVAL

\* The same proposal is never in force twice.
NoTwins ==
    \A i, j \in DOMAIN proposals : proposals[i] = proposals[j] => i = j

\* When a deal is settled its provider was paid for exactly the epochs that it
\* was served: from its start to its end, or to the end of its sector.
PaidForService ==
    [][\A id \in DOMAIN proposals \ DOMAIN proposals' :
          LET deal == proposals[id]
          IN  paid'[id] = IF id \notin DOMAIN states THEN 0
                          ELSE deal.price * ((IF states[id].slash = EPOCH_UNDEFINED THEN deal.end
                                              ELSE Larger(deal.start, states[id].slash)) - deal.start)]_vars

\* Verified deals use no more data cap than the verifiers gave their client:
\* what a client has left and what its deals in force use never exceed it.
CapNotExceeded ==
    \A a \in Address :
        CapOf(verified_clients, a)
          + SumOver({id \in DOMAIN proposals : proposals[id].client = a /\ proposals[id].verified},
                    [id \in DOMAIN proposals |-> proposals[id].piece_size])
        <= granted[a]



\* Data cap is given by verifiers to others and used once.
CapIsKept == CapNotExceeded /\ VerifierOrClient

=============================================================================
