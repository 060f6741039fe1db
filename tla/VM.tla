--------------------------------- MODULE VM ---------------------------------
(***************************************************************************)
(* The virtual machine: the messages of a tipset are applied to the state  *)
(* of its parent (vm/interpreter/src/vm.rs), each by a runtime that calls  *)
(* actors, which call each other (default_runtime.rs).                     *)
(*                                                                         *)
(* The call stack is the variable stack, one frame for each method that is *)
(* being invoked; the actions of a frame are the calls an actor may make   *)
(* to the Runtime interface.  Actors with the code "contract" stand for    *)
(* all the actors whose methods only use that interface: they make any     *)
(* calls in any order, and catch or pass on the errors of what they call.  *)
(* The account, init, cron and reward actors do what their code says.      *)
(*                                                                         *)
(* Every method validates its caller before anything else, or never.       *)
(***************************************************************************)
EXTENDS StateTree, FiniteSetsExt

CONSTANTS
    Prices,          \* price_list_by_epoch(epoch)
    Messages,        \* the messages the blocks may include
    Miners,          \* the miners of the blocks, in block order
    CronEntries,     \* the receivers of the cron actor's entries
    Targets,         \* whom a contract may call, and with how much
    Beneficiaries,   \* whom a contract may leave its balance to
    Root,            \* the actors of the parent state
    Spans,           \* pairs of a parent epoch and an epoch
    V4Height,        \* UPGRADE_ACTORS_V4_HEIGHT
    BaseFee,
    BlockReward,     \* what the reward actor adds to the gas reward
    ImplicitGas,     \* bound: the gas limits of cron and of reward messages
    MaxCallDepth,    \* MAX_CALL_DEPTH
    MaxMessages,     \* bound: messages in the tipset
    Revisit          \* whether a deleted actor may be addressed again

VARIABLES
    tree,            \* VM.state
    vm,              \* where apply_block_messages is, see Init
    gas,             \* GasTracker of the message that is executed
    stack,           \* the frames of the methods being invoked
    bases,           \* history: the actors when each snapshot was taken
    last             \* history: how the last send ended

vars == <<tree, vm, gas, stack, bases, last>>

SystemAddr == <<"id", 0>>
RewardAddr == <<"id", 2>>
CronAddr == <<"id", 3>>
BurntAddr == <<"id", 99>>

Empty == [empty |-> TRUE]           \* EMPTY_ARR_CID

-----------------------------------------------------------------------------
(***************************************************************************)
(* What is charged and who is paid for it (vm/interpreter/src/gas_tracker, *)
(* compute_gas_outputs of vm.rs).                                          *)
(*                                                                         *)
(* A price list is a record of base prices.  Compute and storage gas are   *)
(* only ever used as their sum, and the bytes of a message, an object or a *)
(* return value are one unit, so the storage multiplier is part of the     *)
(* price.  A gas tracker is a record of what is available and used.        *)
(***************************************************************************)
GAS_OVERUSE_NUM == 11
GAS_OVERUSE_DENOM == 10

\* The charges of the price list.
on_chain_message == Prices.on_chain_message

on_chain_return_value == Prices.on_chain_return_value

on_method_invocation(value, method) ==
    Prices.send_base
      + (IF value # 0 THEN Prices.send_transfer_funds ELSE 0)
      + (IF value # 0 /\ method = "send" THEN Prices.send_transfer_only_premium ELSE 0)
      + (IF method # "send" THEN Prices.send_invoke_method ELSE 0)

on_ipld_get == Prices.ipld_get

on_ipld_put == Prices.ipld_put

on_create_actor == Prices.create_actor

\* The one negative price: deleting an actor gives back part of its creation.
on_delete_actor == -Prices.delete_actor

-----------------------------------------------------------------------------
(***************************************************************************)
(* The tracker: a charge that does not fit uses up all that is available.  *)
(***************************************************************************)
NewTracker(limit) == [available |-> limit, used |-> 0]

Fits(tracker, charge) == tracker.used <= tracker.available - charge

charge_gas(tracker, charge) ==
    [tracker EXCEPT !.used = IF Fits(tracker, charge) THEN @ + charge ELSE tracker.available]

-----------------------------------------------------------------------------
(***************************************************************************)
(* Settling a message.  The sender has paid fee_cap for each unit of the   *)
(* limit in advance.                                                       *)
(***************************************************************************)

\* The unused gas that is burnt because the limit was set too high: none up to
\* a tenth above what was used, all of it from twice that on.
GasToBurn(gas_used, gas_limit) ==
    LET over == gas_limit - (GAS_OVERUSE_NUM * gas_used) \div GAS_OVERUSE_DENOM
    IN  IF gas_used = 0 THEN gas_limit
        ELSE IF over < 0 THEN 0
        ELSE ((gas_limit - gas_used) * (IF over > gas_used THEN gas_used ELSE over)) \div gas_used

BaseFeeToPay(base_fee, fee_cap) == IF base_fee > fee_cap THEN fee_cap ELSE base_fee

TipPrice(base_fee, fee_cap, premium) ==
    IF BaseFeeToPay(base_fee, fee_cap) + premium > fee_cap
    THEN fee_cap - BaseFeeToPay(base_fee, fee_cap)
    ELSE premium

BaseFeeBurn(gas_used, base_fee, fee_cap, charge_network_fee) ==
    IF charge_network_fee THEN BaseFeeToPay(base_fee, fee_cap) * gas_used ELSE 0

MinerTip(gas_limit, base_fee, fee_cap, premium) ==
    TipPrice(base_fee, fee_cap, premium) * gas_limit

OverEstimationBurn(gas_used, gas_limit, base_fee, fee_cap) ==
    BaseFeeToPay(base_fee, fee_cap) * GasToBurn(gas_used, gas_limit)

Refund(gas_used, gas_limit, base_fee, fee_cap, premium, charge_network_fee) ==
    fee_cap * gas_limit - BaseFeeBurn(gas_used, base_fee, fee_cap, charge_network_fee)
      - MinerTip(gas_limit, base_fee, fee_cap, premium)
      - OverEstimationBurn(gas_used, gas_limit, base_fee, fee_cap)

\* What the miner of the block pays for a fee cap below the base fee.
MinerPenalty(gas_used, gas_limit, base_fee, fee_cap) ==
    (base_fee - BaseFeeToPay(base_fee, fee_cap)) * gas_used
      + (base_fee - BaseFeeToPay(base_fee, fee_cap)) * GasToBurn(gas_used, gas_limit)

compute_gas_outputs(gas_used, gas_limit, base_fee, fee_cap, premium, charge_network_fee) ==
    [base_fee_burn        |-> BaseFeeBurn(gas_used, base_fee, fee_cap, charge_network_fee),
     miner_tip            |-> MinerTip(gas_limit, base_fee, fee_cap, premium),
     over_estimation_burn |-> OverEstimationBurn(gas_used, gas_limit, base_fee, fee_cap),
     refund               |-> Refund(gas_used, gas_limit, base_fee, fee_cap, premium, charge_network_fee),
     miner_penalty        |-> MinerPenalty(gas_used, gas_limit, base_fee, fee_cap)]

\* ActorVersion::from(get_network_version_default(epoch))
Version(epoch) == IF epoch > V4Height THEN 4 ELSE 3

-----------------------------------------------------------------------------
(***************************************************************************)
(* The runtime.  A machine is a record of the tree, the gas, the error of  *)
(* the last operation and its value; after an error nothing more happens.  *)
(***************************************************************************)
Machine(t, g) == [tree |-> t, gas |-> g, err |-> "ok", val |-> NoAddr]

Then(m, F(_)) == IF m.err = "ok" THEN F(m) ELSE m

With(v, F(_)) == F(v)

Fail(m, err) == [m EXCEPT !.err = err]

Unless(m, bad, err) == IF m.err = "ok" /\ bad THEN Fail(m, err) ELSE m

Charge(m, c) ==
    Then(m, LAMBDA x : [x EXCEPT !.gas = charge_gas(@, c),
                                 !.err = IF Fits(x.gas, c) THEN "ok" ELSE "gas"])

Taking(m, t, v) == [m EXCEPT !.tree = t, !.val = v]

resolve_address(m, addr) ==
    Then(m, LAMBDA x : With(lookup_id(x.tree, addr), LAMBDA r : Taking(x, r.tree, r.id)))

Load(m, addr) ==
    Then(m, LAMBDA x : With(get_actor(x.tree, addr), LAMBDA r : Taking(x, r.tree, r.actor)))

Store(m, addr, actor) == Then(m, LAMBDA x : [x EXCEPT !.tree = set_actor(@, addr, actor)])

\* The actor that was loaded has to be there.
Exists(m, err) == Unless(m, m.val = Nobody, err)

\* The address that was looked up has to resolve.
Resolves(m, err) == Unless(m, m.val = NoAddr, err)

\* The state is replaced if it is still the old one.
Commit(m, addr, old, new) ==
    Then(Unless(m, m.val.state # old, "fatal"), LAMBDA x : Store(x, addr, [x.val EXCEPT !.state = new]))

state_commit(m, addr, old, new) ==
    Then(Exists(Load(m, addr), "fatal"), LAMBDA x : Commit(x, addr, old, new))

Moved(m, from, to, f, t, value) ==
    Store(Store(m, from, [f EXCEPT !.balance = @ - value]), to, [t EXCEPT !.balance = @ + value])

\* The funds leave the actor a, for b.
Withdraw(m, a, b, value) ==
    Then(Exists(Load(m, a), "fatal"), LAMBDA f :
        Then(Exists(Load(f, b), "fatal"), LAMBDA t :
            IF f.val.balance < value THEN Fail(t, "funds")
            ELSE Moved(t, a, b, f.val, t.val, value)))

\* As transfer without the test for two addresses of one actor.
TransferUnresolved(m, from, to, value) ==
    IF from = to THEN m
    ELSE Then(Resolves(resolve_address(m, from), "fatal"), LAMBDA a :
            Then(Resolves(resolve_address(a, to), "fatal"), LAMBDA b :
                Withdraw(b, a.val, b.val, value)))

\* Nothing moves between two addresses of one actor.
transfer(m, from, to, value) ==
    IF from = to THEN m
    ELSE Then(Resolves(resolve_address(m, from), "fatal"), LAMBDA a :
            Then(Resolves(resolve_address(a, to), "fatal"), LAMBDA b :
                IF a.val = b.val THEN b ELSE Withdraw(b, a.val, b.val, value)))

\* resolve_to_key_addr, for an account.
KeyOf(t, addr) == IF addr[1] = "key" THEN addr ELSE get_actor(t, addr).actor.state.address

NewActor(code) == [code |-> code, ver |-> Version(vm.epoch), state |-> Empty,
                   sequence |-> 0, balance |-> 0]

\* account::Actor::constructor, sent by the system actor in a snapshot of its own:
\* when it fails its snapshot is reverted.
ConstructAccount(m, depth, id, addr) ==
    With(state_commit(
            Charge(Charge(Unless([m EXCEPT !.tree = snapshot(@)], depth + 2 > MaxCallDepth, "depth"),
                          on_method_invocation(0, "call")), on_ipld_put),
            id, Empty, [address |-> addr]),
         LAMBDA x : [x EXCEPT !.tree = clear_snapshot(IF x.err = "ok" THEN @ ELSE revert_to_snapshot(@))])

\* Only BLS and Secp256k1 addresses make an account; for another address the
\* registration that went before is undone with the send.
MakeAccount(m, depth, id, addr) ==
    Then(Store(Unless(m, addr[1] # "key", "receiver"), id, NewActor("account")),
         LAMBDA x : Load(ConstructAccount(x, depth, id, addr), id))

try_create_account_actor(m, depth, addr) ==
    Then(Charge(m, on_create_actor), LAMBDA x :
        With(register_new_address(x.tree, addr), LAMBDA r :
            MakeAccount([x EXCEPT !.tree = r.tree], depth, r.id, addr)))

\* execute_send up to the invocation of the method; val is the called actor.
Called(m, depth, addr) ==
    IF m.err = "ok" /\ m.val = Nobody THEN try_create_account_actor(m, depth, addr) ELSE m

Paid(m, from, to, value) ==
    IF value = 0 THEN m ELSE [transfer(m, from, to, value) EXCEPT !.val = m.val]

execute_send(m, depth, cost, from, to, value, method) ==
    Then(Resolves(resolve_address(Unless(m, depth + 1 > MaxCallDepth, "depth"), from), "receiver"),
         LAMBDA x : Paid(Charge(Called(Load(Charge(resolve_address(x, to), cost), to), depth, to),
                                on_method_invocation(value, method)), from, to, value))

\* A method on an actor whose code the network version does not have.
Invocable(r, method) ==
    Unless(r, method # "send" /\ r.val.ver # Version(vm.epoch), "illegal")

-----------------------------------------------------------------------------
(***************************************************************************)
(* Frames.  todo is what the code of the init, cron and reward actors is   *)
(* still going to send, Failed when it can only return an error; leaving   *)
(* says that nothing else is left to do.  A send brings what to do if it   *)
(* fails.                                                                  *)
(***************************************************************************)
Failed == [to |-> NoAddr]

Send(to, value, method, onfail) ==
    [to |-> to, value |-> value, method |-> method, onfail |-> onfail]

Frame(t, r, from, s) ==
    [caller |-> lookup_id(t, from).id, receiver |-> lookup_id(t, s.to).id, code |-> r.val.code,
     value |-> s.value, validated |-> FALSE, tx |-> <<>>, allow_internal |-> TRUE,
     leaving |-> r.val.code = "account", todo |-> <<>>, onfail |-> s.onfail]

Top == stack[Len(stack)]

SetTop(f) == [stack EXCEPT ![Len(stack)] = f]

\* The method of the top frame returns an error: its snapshot is reverted and its
\* caller goes on.  The outermost method has no snapshot of its own.
Outermost == Len(stack) = 1

\* As UnwoundTree where the snapshot is merged and not reverted.
MergedTree(t) == IF Outermost THEN t ELSE clear_snapshot(t)

UnwoundTree(t) == IF Outermost THEN t ELSE clear_snapshot(revert_to_snapshot(t))

UnwoundStack ==
    IF Outermost THEN <<>>
    ELSE [SubSeq(stack, 1, Len(stack) - 1) EXCEPT ![Len(stack) - 1].todo = Top.onfail \o @]

UnwoundBases == IF Outermost THEN bases ELSE SubSeq(bases, 1, Len(bases) - 1)

\* The frame goes on as f, or returns the error of m.
Proceed(m, f) ==
    /\ gas' = m.gas
    /\ tree' = IF m.err = "ok" THEN m.tree ELSE UnwoundTree(m.tree)
    /\ stack' = IF m.err = "ok" THEN SetTop(f) ELSE UnwoundStack
    /\ bases' = IF m.err = "ok" THEN bases ELSE UnwoundBases
    /\ last' = IF m.err = "ok" THEN "running" ELSE "failed"
    /\ vm' = IF m.err # "ok" /\ Outermost THEN [vm EXCEPT !.result = m.err] ELSE vm

Unwind(m) == Proceed(m, Top)

\* internal_send: the frame, as f, makes the send s.  A failed send is undone
\* here; a method is pushed on the stack.
InternalSend(f, s) ==
    \E r \in {Invocable(execute_send(Machine(snapshot(tree), gas), Len(stack), 0, f.receiver,
                                     s.to, s.value, s.method), s.method)} :
        /\ gas' = r.gas
        /\ UNCHANGED vm
        /\ \/ /\ r.err # "ok"
              /\ tree' = clear_snapshot(revert_to_snapshot(r.tree))
              /\ stack' = SetTop([f EXCEPT !.todo = s.onfail \o @])
              /\ last' = "failed"
              /\ UNCHANGED bases
           \/ /\ r.err = "ok" /\ s.method = "send"
              /\ tree' = clear_snapshot(r.tree)
              /\ stack' = SetTop(f)
              /\ last' = "running"
              /\ UNCHANGED bases
           \/ /\ r.err = "ok" /\ s.method # "send"
              /\ tree' = r.tree
              /\ stack' = Append(SetTop(f), Frame(r.tree, r, f.receiver, s))
              /\ bases' = Append(bases, View(tree))
              /\ last' = "running"

-----------------------------------------------------------------------------
(***************************************************************************)
(* The calls of an actor to its runtime                                    *)
(***************************************************************************)
Executing == vm.phase = "exec" /\ stack # <<>>

Now == Machine(tree, gas)

\* A contract that is free to do what it likes.
Acting == Executing /\ Top.code = "contract" /\ Top.validated /\ ~Top.leaving /\ Top.todo = <<>>

\* The code of another actor that is about to begin.
Beginning(code) == Executing /\ Top.code = code /\ Top.validated /\ ~Top.leaving

\* The cron and the reward actor only accept the system actor.
RefusesCaller(f) == f.code \in {"cron", "reward"} /\ f.caller # SystemAddr

\* validate_immediate_caller_*
ValidateCaller ==
    /\ Executing /\ ~Top.validated
    /\ ~RefusesCaller(Top)
    /\ Proceed(Now, [Top EXCEPT !.validated = TRUE])

\* transaction, until its closure runs: no sends are allowed from here on.
BeginTransaction ==
    /\ Acting /\ Top.tx = <<>>
    /\ \E m \in {Charge(Exists(Load(Now, Top.receiver), "illegal"), on_ipld_get)} :
         Proceed(m, [Top EXCEPT !.tx = <<m.val.state>>, !.allow_internal = FALSE])

\* The closure has changed the state, which is stored if it is based on what the
\* actor has now.
EndTransaction ==
    /\ Acting /\ Top.tx # <<>>
    /\ Proceed(state_commit(Charge(Now, on_ipld_put), Top.receiver, Top.tx[1], [value |-> 1]),
               [Top EXCEPT !.tx = <<>>, !.allow_internal = TRUE])

\* create, in a constructor.
RtCreate ==
    /\ Acting /\ Top.tx = <<>>
    /\ Top.caller = InitAddr
    /\ Proceed(state_commit(Charge(Now, on_ipld_put), Top.receiver, Empty, [value |-> 0]), Top)

\* Whether an address is one of an actor that was deleted since the tree was loaded.
Deleted(t, addr) ==
    LET id == lookup_id(t, addr).id
    IN  \E i \in DOMAIN t.layers : /\ id \in DOMAIN t.layers[i].actors
                                   /\ t.layers[i].actors[id] = Nobody

Addressable(addr) == Revisit \/ ~Deleted(tree, addr)

\* new_actor_address: from the origin of the message and its sequence.  The number
\* of actors the message has created so far is part of it, and always 0: no method
\* of a built-in actor makes more than one.
NewActorAddress == <<"actor", KeyOf(tree, vm.msg.from), vm.msg.sequence>>

HasCreated == NewActorAddress \in DOMAIN GetById(tree, InitAddr).actor.state.address_map

RtSend ==
    /\ Acting /\ Top.allow_internal
    /\ \E s \in Targets : /\ Addressable(s.to)
                          /\ s.to = InitAddr => vm.mode = "message" /\ ~HasCreated
                          /\ InternalSend(Top, s)

\* The balance goes to the beneficiary, another actor, and the actor is deleted.
Bequeath(m, self, beneficiary, balance) ==
    Then(IF balance = 0 THEN m
         ELSE With(resolve_address(m, beneficiary), LAMBDA heir :
                transfer(Unless(heir, heir.val \in {NoAddr, self}, "argument"), self, beneficiary, balance)),
         LAMBDA x : [x EXCEPT !.tree = delete_actor(@, self)])

\* delete_actor, the last thing a method does.  The one method that calls it only
\* takes calls from accounts, so no enclosing call is one of the same actor.
DeleteActor ==
    /\ Acting /\ Top.tx = <<>>
    /\ \A i \in 1..(Len(stack) - 1) : stack[i].receiver # Top.receiver
    /\ \E b \in Beneficiaries :
         \E m \in {Then(Exists(Load(Charge(Now, on_delete_actor), Top.receiver), "illegal"),
                        LAMBDA act : Bequeath(act, Top.receiver, b, act.val.balance))} :
            Proceed(m, [Top EXCEPT !.leaving = TRUE])

ReturnedTree == IF Outermost THEN tree ELSE clear_snapshot(tree)

\* A method returns.  One that never validated its caller fails.
Return ==
    /\ Executing /\ Top.todo = <<>> /\ Top.tx = <<>>
    /\ Top.leaving \/ Top.code = "contract"
    /\ Top.code = "account" => Top.validated
    /\ \/ ~Top.validated /\ Unwind(Fail(Now, "illegal"))
       \/ /\ Top.validated
          /\ stack' = SubSeq(stack, 1, Len(stack) - 1)
          /\ last' = "ok"
          /\ UNCHANGED gas
          /\ tree' = ReturnedTree
          /\ bases' = UnwoundBases
          /\ vm' = IF Outermost THEN [vm EXCEPT !.result = "ok"] ELSE vm

\* A method returns an error: a check of its own, an error it passes on, a caller
\* it does not accept, or a send inside a transaction.
Abort ==
    /\ Executing
    /\ \/ Top.todo = <<>> /\ (Top.code = "contract" \/ RefusesCaller(Top))
       \/ Top.todo # <<>> /\ Head(Top.todo) = Failed
    /\ Unwind(Fail(Now, "actor"))

\* The next send of an actor that knows what it sends.
PlannedSend ==
    /\ Executing /\ Top.todo # <<>> /\ Head(Top.todo) # Failed
    /\ Addressable(Head(Top.todo).to)
    /\ InternalSend([Top EXCEPT !.todo = Tail(@)], Head(Top.todo))

-----------------------------------------------------------------------------
(***************************************************************************)
(* The init, cron and reward actors                                        *)
(***************************************************************************)

MapRobust(m, robust) ==
    With(m.val.state, LAMBDA state :
        state_commit(Charge(m, on_ipld_put), InitAddr, state, map_address_to_new_id(state, robust)))

CreateActor(m, id) ==
    With(Load(m, id), LAMBDA x :
        Store(Charge(Unless(x, x.val # Nobody, "argument"), on_create_actor), id, NewActor("contract")))

\* init::Actor::exec of a multisig or payment channel: an address from the origin
\* of the message and its sequence, an ID for it, an empty actor; what is left is
\* to call its constructor with the value received.
Exec ==
    /\ Beginning("init")
    /\ \E init \in {Load(Charge(Now, on_ipld_get), InitAddr)} :
       \E id \in {<<"id", GetById(tree, InitAddr).actor.state.next_id>>} :
       \E made \in {CreateActor(MapRobust(init,
                        NewActorAddress), id)} :
         Proceed(made, [Top EXCEPT !.leaving = TRUE,
                                   !.todo = <<Send(id, Top.value, "call", <<Failed>>)>>])

\* cron::Actor::epoch_tick: one send per entry, whose errors are ignored.
EpochTick ==
    /\ Beginning("cron")
    /\ Proceed(Charge(Now, on_ipld_get),
               [Top EXCEPT !.leaving = TRUE,
                           !.todo = [i \in DOMAIN CronEntries |-> Send(CronEntries[i], 0, "call", <<>>)]])

Award(total) ==
    <<Send(Miners[vm.block], total, "call", <<Send(BurntAddr, total, "send", <<>>)>>)>>

\* reward::Actor::award_block_reward: the miner gets the gas reward and a block
\* reward, as far as the balance goes; what it does not take is burnt.
AwardBlockReward ==
    /\ Beginning("reward")
    /\ \E act \in {Load(Charge(Charge(Now, on_ipld_get), on_ipld_put), RewardAddr)} :
         Proceed(Unless(act, act.val.balance < vm.gas_reward, "state"),
                 [Top EXCEPT !.leaving = TRUE,
                             !.todo = Award(Min({vm.gas_reward + BlockReward, act.val.balance}))])

-----------------------------------------------------------------------------
(***************************************************************************)
(* apply_message                                                           *)
(***************************************************************************)
NoMessage == [cid |-> "none"]

Refuse(exit, penalty) == [exit |-> exit, penalty |-> penalty]

RefusalIf(m, from, stale) ==
    IF on_chain_message > m.limit THEN Refuse("OutOfGas", BaseFee * on_chain_message)
    ELSE IF from = Nobody \/ from.code # "account" THEN Refuse("SenderInvalid", BaseFee * m.limit)
    ELSE IF stale \/ from.balance < m.fee_cap * m.limit
         THEN Refuse("SenderStateInvalid", BaseFee * m.limit)
    ELSE Refuse("none", 0)


RefusalOf(m, from) == RefusalIf(m, from, m.sequence # from.sequence)

\* Why a message is not executed, and what its miner pays for it.
Refusal(m) == RefusalOf(m, get_actor(tree, m.from).actor)

\* A message that an earlier block of the tipset brought is passed over.
Unprocessed(m) == m.cid \notin vm.processed

InBlock == vm.phase = "block" /\ Len(vm.receipts) < MaxMessages

RefuseMessage(m) ==
    /\ InBlock /\ Unprocessed(m)
    /\ Refusal(m).exit # "none"
    /\ tree' = IF Refusal(m).exit = "OutOfGas" THEN tree ELSE get_actor(tree, m.from).tree
    /\ vm' = [vm EXCEPT !.penalty = @ + Refusal(m).penalty,
                        !.processed = @ \cup {m.cid},
                        !.receipts = Append(@, Refusal(m).exit)]
    /\ UNCHANGED <<gas, stack, bases, last>>

Prepaid(from, m) ==
    set_actor(from.tree, m.from,
              [from.actor EXCEPT !.balance = @ - m.fee_cap * m.limit, !.sequence = @ + 1])

\* The sender pays for the whole limit, a snapshot is taken and the send begins.
StartMessage(m) ==
    /\ InBlock /\ Unprocessed(m)
    /\ Refusal(m).exit = "none"
    /\ Addressable(m.to)
    /\ \E paid \in {Prepaid(get_actor(tree, m.from), m)} :
       \E r \in {Invocable(execute_send(Machine(snapshot(paid), NewTracker(m.limit)), 0, on_chain_message,
                                        m.from, m.to, m.value, m.method), m.method)} :
         /\ tree' = r.tree /\ gas' = r.gas
         /\ bases' = <<View(paid)>>
         /\ stack' = IF r.err = "ok" /\ m.method # "send"
                     THEN <<Frame(r.tree, r, m.from, Send(m.to, m.value, m.method, <<>>))>> ELSE <<>>
         /\ last' = "running"
         /\ vm' = [vm EXCEPT !.phase = "exec", !.mode = "message", !.msg = m,
                             !.result = r.err,
                             !.executed = Append(@, <<lookup_id(tree, m.from).id, m.sequence>>)]

\* should_burn: a window post that succeeds is not charged the network fee, up to
\* the upgrade.
should_burn(t, m, exit) ==
    ~ (/\ vm.epoch <= V4Height /\ exit = "ok" /\ m.method = "post"
       /\ get_actor(t, m.to).actor.code = "contract")

AddBalance(act, addr, amount) ==
    set_actor(act.tree, addr, [act.actor EXCEPT !.balance = @ + amount])

Deposit(t, addr, amount) == IF amount = 0 THEN t ELSE AddBalance(get_actor(t, addr), addr, amount)

\* What is left of the payment in advance goes to the burnt funds, the reward
\* actor and the sender.
Settle(t, m, out) ==
    Deposit(Deposit(Deposit(Deposit(t, BurntAddr, out.base_fee_burn), RewardAddr, out.miner_tip),
                    BurntAddr, out.over_estimation_burn), m.from, out.refund)

\* The send is over, with or without a return value to be stored.  Its changes are
\* undone if it failed, the gas is settled and the snapshot merged.  A fatal error
\* gives up the tipset, and what the tree holds then is not used.
FinishMessage ==
    /\ vm.phase = "exec" /\ vm.mode = "message" /\ stack = <<>>
    /\ \E returns \in IF vm.result = "ok" /\ vm.msg.method # "send" THEN BOOLEAN ELSE {FALSE} :
       \E end \in {IF returns THEN Charge(Now, on_chain_return_value) ELSE Fail(Now, vm.result)} :
       \E kept \in {IF end.err = "ok" THEN tree ELSE revert_to_snapshot(tree)} :
       \E burn \in {should_burn(kept, vm.msg, end.err)} :
       \E used \in {Max({end.gas.used, 0})} :
       \E out \in {compute_gas_outputs(used, vm.msg.limit, BaseFee, vm.msg.fee_cap, vm.msg.premium, burn)} :
         /\ tree' = clear_snapshot(Settle(kept, vm.msg, out))
         /\ vm' = [vm EXCEPT
                !.phase = IF end.err = "fatal" THEN "failed" ELSE "block",
                !.msg = NoMessage, !.mode = "none",
                !.gas_reward = @ + out.miner_tip,
                !.penalty = @ + out.miner_penalty,
                !.processed = @ \cup {vm.msg.cid},
                !.receipts = Append(@, end.err)]
         /\ last' = IF end.err = "ok" THEN "ok" ELSE "failed"
    /\ bases' = <<>>
    /\ UNCHANGED <<gas, stack>>

-----------------------------------------------------------------------------
(***************************************************************************)
(* apply_block_messages.  vm is a record of                                *)
(*   phase       "round" and "migrate" for the epochs since the parent,    *)
(*               "block" between messages, "exec" while one is executed,   *)
(*               "flush", "done", "failed"                                 *)
(*   mode, next  what is executed and the phase that follows it            *)
(*   epoch, span self.epoch and the epochs of the parent and the tipset    *)
(*   block       the block whose messages are applied                      *)
(*   gas_reward, penalty, processed, receipts   as in the code             *)
(*   msg, result   the message and how its send ended                      *)
(*   ticks, executed   history: the epochs of the cron messages, and the   *)
(*               senders and sequences of the messages that were executed  *)
(***************************************************************************)
Init ==
    /\ tree = new_from_root(Root)
    /\ gas = NewTracker(0)
    /\ stack = <<>> /\ bases = <<>> /\ last = "running"
    /\ \E span \in Spans :
         vm = [phase |-> "round", mode |-> "none", next |-> "none", epoch |-> span[1], span |-> span,
               block |-> 1, gas_reward |-> 0, penalty |-> 0, processed |-> {}, receipts |-> <<>>,
               msg |-> NoMessage, result |-> "ok", ticks |-> <<>>,
               executed |-> <<>>]

\* apply_implicit_message: no snapshot is taken for it.
ApplyImplicitMessage(mode, to, next) ==
    \E r \in {Invocable(execute_send(Machine(tree, NewTracker(ImplicitGas[mode])), 0, 0, SystemAddr, to, 0, "call"),
                        "call")} :
        /\ tree' = r.tree /\ gas' = r.gas
        /\ stack' = IF r.err = "ok" THEN <<Frame(r.tree, r, SystemAddr, Send(to, 0, "call", <<>>))>> ELSE <<>>
        /\ last' = "running"
        /\ vm' = [vm EXCEPT !.phase = "exec", !.mode = mode, !.next = next, !.result = r.err]
        /\ UNCHANGED bases

\* An epoch between the parent and the tipset: cron runs for the null rounds.
BeginRound ==
    /\ vm.phase = "round"
    /\ \/ /\ vm.epoch > vm.span[1]
          /\ ApplyImplicitMessage("cron", CronAddr, "migrate")
       \/ /\ vm.epoch = vm.span[1]
          /\ vm' = [vm EXCEPT !.phase = "migrate"]
          /\ UNCHANGED <<tree, gas, stack, bases, last>>

\* StateMigration::migrate_state_tree: every actor gets the code of its new version.
MigrateStateTree(root) == [id \in DOMAIN root |-> [root[id] EXCEPT !.ver = 4]]

\* migrate_state, and the step to the next epoch.
Migrate ==
    /\ vm.phase = "migrate"
    /\ tree' = IF vm.epoch = V4Height THEN new_from_root(MigrateStateTree(flush(tree).hamt)) ELSE tree
    /\ vm' = [vm EXCEPT !.epoch = @ + 1, !.phase = IF vm.epoch + 1 = vm.span[2] THEN "block" ELSE "round"]
    /\ UNCHANGED <<gas, stack, bases, last>>

\* The messages of the block are applied: its miner is paid.
EndBlock ==
    /\ vm.phase = "block"
    /\ ApplyImplicitMessage("reward", RewardAddr, "block")

\* An award that failed fails the tipset.
FinishAward ==
    /\ vm.phase = "exec" /\ vm.mode = "reward" /\ stack = <<>>
    /\ vm' = [vm EXCEPT !.phase = IF vm.result # "ok" THEN "failed"
                                  ELSE IF vm.block = Len(Miners) THEN "cron" ELSE "block",
                        !.block = @ + 1, !.gas_reward = 0, !.penalty = 0, !.mode = "none"]
    /\ UNCHANGED <<tree, gas, stack, bases, last>>

EndTipset ==
    /\ vm.phase = "cron"
    /\ ApplyImplicitMessage("cron", CronAddr, "flush")

\* An error of cron is only logged.
FinishCron ==
    /\ vm.phase = "exec" /\ vm.mode = "cron" /\ stack = <<>>
    /\ vm' = [vm EXCEPT !.phase = vm.next, !.ticks = Append(@, vm.epoch), !.mode = "none"]
    /\ UNCHANGED <<tree, gas, stack, bases, last>>

Flush ==
    /\ vm.phase = "flush"
    /\ tree' = flush(tree)
    /\ vm' = [vm EXCEPT !.phase = "done"]
    /\ UNCHANGED <<gas, stack, bases, last>>

RuntimeStep ==
    \/ ValidateCaller \/ BeginTransaction \/ EndTransaction \/ RtCreate \/ RtSend
    \/ DeleteActor \/ Return \/ Abort \/ PlannedSend
    \/ Exec \/ EpochTick \/ AwardBlockReward

VmStep ==
    \/ \E m \in Messages : RefuseMessage(m) \/ StartMessage(m)
    \/ FinishMessage
    \/ BeginRound \/ Migrate \/ EndBlock \/ FinishAward \/ EndTipset \/ FinishCron \/ Flush

Next == RuntimeStep \/ VmStep

Spec == Init /\ [][Next]_vars

-----------------------------------------------------------------------------
(***************************************************************************)
(* Properties                                                              *)
(***************************************************************************)
TypeOK ==
    /\ vm.phase \in {"round", "migrate", "block", "exec", "cron", "flush", "done", "failed"}
    /\ gas.used <= gas.available
    /\ Len(stack) <= MaxCallDepth
    /\ \A id \in DOMAIN View(tree) : View(tree)[id].balance >= 0
    /\ \A i \in DOMAIN stack : stack[i].receiver[1] = "id" /\ stack[i].caller[1] = "id"

Total(view) == MapThenSumSet(LAMBDA id : view[id].balance, DOMAIN view)

\* What the sender of the message being executed paid in advance.
Held == IF vm.phase = "exec" /\ vm.mode = "message" THEN vm.msg.fee_cap * vm.msg.limit ELSE 0

\* No message, call, failed call, award, migration or deletion makes or destroys
\* funds: the actors hold what they held at the start, together with the gas
\* deposit of the message being executed.
FundsAreConserved == Total(View(tree)) + Held = Total(Root)

\* There is one snapshot for a message and one for each call inside it, none
\* between messages, and each still shows the actors as they were when it was
\* taken, so that every enclosing call can still be undone.
SnapshotsAreKept ==
    /\ Len(bases) = Len(tree.layers) - 1
    /\ Len(bases) = IF vm.phase # "exec" THEN 0
                    ELSE (IF vm.mode = "message" THEN 1 ELSE 0) + (IF stack = <<>> THEN 0 ELSE Len(stack) - 1)
    /\ \A i \in DOMAIN bases : ViewTo(tree, i) = bases[i]

SameButBalances(v, w) ==
    /\ DOMAIN v = DOMAIN w
    /\ \A id \in DOMAIN v : [v[id] EXCEPT !.balance = 0] = [w[id] EXCEPT !.balance = 0]

\* A call that returns an error, at whatever depth and after whatever calls of its
\* own that succeeded, leaves the actors as they were before it; a failed message
\* leaves them as they were but for the gas it pays for.
FailedCallsLeaveNothing ==
    [][last' = "failed" =>
        /\ Len(stack) > 1 /\ Len(stack') < Len(stack) => View(tree') = bases[Len(bases)]
        /\ stack # <<>> /\ Len(stack') = Len(stack) => View(tree') = View(tree)
        /\ stack = <<>> /\ vm.mode = "message" => SameButBalances(View(tree'), bases[1])]_vars

\* A call that succeeds keeps the changes of the calls it made.
SuccessIsKept ==
    [][last' = "ok" /\ stack # <<>> => View(tree') = View(tree)]_vars

\* An address that any layer has resolved is mapped to the same ID by the init
\* actor as that layer shows it, also after calls that registered addresses
\* were undone.
ResolvedIsRegistered ==
    \A i \in DOMAIN tree.layers : \A addr \in DOMAIN tree.layers[i].resolve_cache :
        LET map == Shown(tree, i, InitAddr).state.address_map
        IN  addr \in DOMAIN map /\ map[addr] = tree.layers[i].resolve_cache[addr]

\* No two addresses are given one ID, and no actor has an ID that is still to be
\* given out, whatever registrations were undone in between.
IdsAreGivenOnce ==
    LET init == View(tree)[InitAddr].state
    IN  /\ \A a, b \in DOMAIN init.address_map : init.address_map[a] = init.address_map[b] => a = b
        /\ \A id \in DOMAIN View(tree) : id[2] > 99 => id[2] < init.next_id

\* No two messages with one sequence are executed for one account, whichever of
\* its addresses they are sent from.
NoReplay == \A i, j \in DOMAIN vm.executed : vm.executed[i] = vm.executed[j] => i = j

\* Whatever the messages did, the reward actor can pay their tips and no call ends
\* in a fatal error: the tipset is never given up half way.
TipsetIsApplied == vm.phase # "failed"

\* Every actor has code of the version that the epoch it is called in asks for.
CodeMatchesVersion == \A id \in DOMAIN View(tree) : View(tree)[id].ver = Version(vm.epoch)

\* A migration keeps all actors the tree shows, those changed by the cron of a null
\* round included, and the flush at the end stores them.
NothingIsLostInFlush ==
    [][/\ vm.phase = "migrate" => /\ DOMAIN View(tree') = DOMAIN View(tree)
                                  /\ \A id \in DOMAIN View(tree) :
                                       View(tree')[id] = [View(tree)[id] EXCEPT !.ver = View(tree')[id].ver]
       /\ vm.phase = "flush" => tree'.hamt = View(tree)]_vars

\* Cron runs exactly once for every epoch after that of the parent.
CronEveryEpoch ==
    vm.phase = "done" => vm.ticks = [i \in 1..(vm.span[2] - vm.span[1]) |-> vm.span[1] + i]

\* There is one receipt for each different message of the tipset.
OneReceiptPerMessage == Len(vm.receipts) = Cardinality(vm.processed)


\* A call, a message, a migration and a flush happen as a whole or not at all.
CallsAreAtomic == FailedCallsLeaveNothing /\ SuccessIsKept /\ NothingIsLostInFlush

=============================================================================
