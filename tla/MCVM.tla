-------------------------------- MODULE MCVM --------------------------------
(***************************************************************************)
(* The virtual machine on a small state: an account with a key, a contract *)
(* (a multisig, payment channel or miner), and the built-in actors.        *)
(***************************************************************************)
EXTENDS VM

Key(k) == <<"key", k>>

MCPrices ==
    [on_chain_message |-> 1, on_chain_return_value |-> 1, send_base |-> 1, send_transfer_funds |-> 0,
     send_transfer_only_premium |-> 0, send_invoke_method |-> 0, ipld_get |-> 1, ipld_put |-> 1,
     create_actor |-> 1, delete_actor |-> 1]

Actor(code, state, balance) ==
    [code |-> code, ver |-> 3, state |-> state, sequence |-> 0, balance |-> balance]

Contract == <<"id", 101>>

MCRoot ==
    [id \in {<<"id", i>> : i \in {0, 1, 2, 3, 99, 100, 101}} |->
        CASE id = SystemAddr -> Actor("system", Empty, 0)
          [] id = InitAddr -> Actor("init", [address_map |-> [a \in {Key("k1")} |-> <<"id", 100>>],
                                             next_id |-> 102], 0)
          [] id = RewardAddr -> Actor("reward", Empty, 2)
          [] id = CronAddr -> Actor("cron", Empty, 0)
          [] id = BurntAddr -> Actor("account", [address |-> Key("burnt")], 0)
          [] id = <<"id", 100>> -> Actor("account", [address |-> Key("k1")], 45)
          [] id = Contract -> Actor("contract", [value |-> 0], 2)]

Msg(cid, from, to, sequence, value, limit, fee_cap, premium, method) ==
    [cid |-> cid, from |-> from, to |-> to, sequence |-> sequence, value |-> value,
     limit |-> limit, fee_cap |-> fee_cap, premium |-> premium, method |-> method]

MCMessages ==
    {Msg("call", Key("k1"), Contract, 0, 1, 6, 2, 1, "call"),
     Msg("pay", <<"id", 100>>, Key("k1"), 1, 2, 5, 1, 1, "send"),
     Msg("exec", Key("k1"), InitAddr, 0, 1, 9, 3, 1, "call"),
     Msg("post", <<"id", 100>>, Contract, 0, 0, 4, 2, 0, "post"),
     Msg("poor", Key("k3"), Contract, 0, 0, 4, 2, 0, "call")}

MCTargets ==
    {Send(Contract, 0, "call", <<>>), Send(Key("k2"), 1, "send", <<>>), Send(InitAddr, 1, "call", <<>>)}

MCBeneficiaries == {Key("k1")}

MCMiners == <<Contract, <<"id", 100>>>>

MCCron == <<Contract>>

MCImplicitGas == [cron |-> 3, reward |-> 5]

MCSpans == {<<0, 2>>}
=============================================================================
