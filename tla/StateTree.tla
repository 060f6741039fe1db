----------------------------- MODULE StateTree -----------------------------
(***************************************************************************)
(* The state tree of the virtual machine (vm/state_tree/src/lib.rs).       *)
(*                                                                         *)
(* A tree is a record: hamt, the actors of the root it was loaded from,    *)
(* and layers, the stack of caches above it.  A layer holds actors set or  *)
(* read since it was added, Nobody for a deleted one, and resolved         *)
(* addresses.  Every read may fill a cache, so the operators that look     *)
(* something up return the tree as well as what they found.                *)
(*                                                                         *)
(* Addresses are tuples whose first component is the protocol: "id",       *)
(* "key" (BLS and Secp256k1) or "actor".  The state of an actor stands for *)
(* the CID of its state; the state of the init actor is its address map    *)
(* and the next free ID (vm/actor/src/builtin/init/state.rs).              *)
(***************************************************************************)
EXTENDS Integers, Sequences, FiniteSets

InitAddr == <<"id", 1>>

Nobody == [code |-> "nobody"]       \* no actor: Option::None
NoAddr == <<"none">>                \* an address that does not resolve

Put(f, k, v) == [x \in DOMAIN f \cup {k} |-> IF x = k THEN v ELSE f[x]]

Extend(f, g) == [x \in DOMAIN f \cup DOMAIN g |-> IF x \in DOMAIN g THEN g[x] ELSE f[x]]

-----------------------------------------------------------------------------
(***************************************************************************)
(* StateSnapshots                                                          *)
(***************************************************************************)
Layer == [actors |-> <<>>, resolve_cache |-> <<>>]

\* The layers up to n that hold id, or a resolution of addr.
LayersWith(t, n, id) == {i \in 1..n : id \in DOMAIN t.layers[i].actors}

LayersResolving(t, addr) == {i \in DOMAIN t.layers : addr \in DOMAIN t.layers[i].resolve_cache}

Topmost(S) == CHOOSE i \in S : \A j \in S : j <= i

snaps_get_actor(t, id) ==
    LET S == LayersWith(t, Len(t.layers), id)
    IN  IF S = {} THEN Nobody ELSE t.layers[Topmost(S)].actors[id]

snaps_set_actor(t, id, actor) ==
    [t EXCEPT !.layers[Len(t.layers)].actors = Put(@, id, actor)]

cache_resolve_address(t, addr, id) ==
    [t EXCEPT !.layers[Len(t.layers)].resolve_cache = Put(@, addr, id)]

add_layer(t) == [t EXCEPT !.layers = Append(@, Layer)]

drop_layer(t) == [t EXCEPT !.layers = SubSeq(@, 1, Len(@) - 1)]

merge_last_layer(t) ==
    LET n == Len(t.layers)
        top == t.layers[n]
    IN  drop_layer([t EXCEPT !.layers[n - 1] =
            [actors        |-> Extend(@.actors, top.actors),
             resolve_cache |-> Extend(@.resolve_cache, top.resolve_cache)]])

-----------------------------------------------------------------------------
(***************************************************************************)
(* StateTree                                                               *)
(***************************************************************************)
new_from_root(root) == [hamt |-> root, layers |-> <<Layer>>]

HamtGet(t, id) == IF id \in DOMAIN t.hamt THEN t.hamt[id] ELSE Nobody

\* get_actor for an ID address.  A deleted actor reads as Nobody in the layers,
\* which is also what an actor that is in no layer reads as: both are looked up
\* in the HAMT, and what is found there is cached.
GetById(t, id) ==
    IF snaps_get_actor(t, id) # Nobody THEN [tree |-> t, actor |-> snaps_get_actor(t, id)]
    ELSE IF id \in DOMAIN t.hamt THEN [tree |-> snaps_set_actor(t, id, t.hamt[id]), actor |-> t.hamt[id]]
    ELSE [tree |-> t, actor |-> Nobody]

\* init::State::resolve_address, with the init actor as it was read.
ResolveByInit(init, addr) ==
    IF addr \notin DOMAIN init.actor.state.address_map THEN [tree |-> init.tree, id |-> NoAddr]
    ELSE [tree |-> cache_resolve_address(init.tree, addr, init.actor.state.address_map[addr]),
          id |-> init.actor.state.address_map[addr]]

lookup_id(t, addr) ==
    IF addr[1] = "id" THEN [tree |-> t, id |-> addr]
    ELSE IF LayersResolving(t, addr) # {}
    THEN [tree |-> t, id |-> t.layers[Topmost(LayersResolving(t, addr))].resolve_cache[addr]]
    ELSE ResolveByInit(GetById(t, InitAddr), addr)

ActorOf(found) ==
    IF found.id = NoAddr THEN [tree |-> found.tree, actor |-> Nobody]
    ELSE GetById(found.tree, found.id)

get_actor(t, addr) == ActorOf(lookup_id(t, addr))

\* set_actor and delete_actor, for an address that resolves.
SetResolved(found, actor) == snaps_set_actor(found.tree, found.id, actor)

set_actor(t, addr, actor) == SetResolved(lookup_id(t, addr), actor)

delete_actor(t, addr) == set_actor(t, addr, Nobody)

\* init::State::map_address_to_new_id
map_address_to_new_id(state, addr) ==
    [address_map |-> Put(state.address_map, addr, <<"id", state.next_id>>),
     next_id |-> state.next_id + 1]

RegisterIn(init, addr) ==
    [tree |-> snaps_set_actor(init.tree, InitAddr,
                 [init.actor EXCEPT !.state = map_address_to_new_id(@, addr)]),
     id |-> <<"id", init.actor.state.next_id>>]

\* Returns the tree and the new ID address.
register_new_address(t, addr) == RegisterIn(GetById(t, InitAddr), addr)

snapshot(t) == add_layer(t)

clear_snapshot(t) == merge_last_layer(t)

revert_to_snapshot(t) == add_layer(drop_layer(t))

\* flush, with a single layer.
flush(t) ==
    LET all == Extend(t.hamt, t.layers[1].actors)
    IN  [t EXCEPT !.hamt = [id \in {x \in DOMAIN all : all[x] # Nobody} |-> all[id]]]

-----------------------------------------------------------------------------
(***************************************************************************)
(* The actors a tree stands for: those the first n layers show.            *)
(***************************************************************************)
Shown(t, n, id) ==
    LET S == LayersWith(t, n, id)
    IN  IF S = {} THEN HamtGet(t, id) ELSE t.layers[Topmost(S)].actors[id]

Ids(t) == DOMAIN t.hamt \cup UNION {DOMAIN t.layers[i].actors : i \in DOMAIN t.layers}

ViewTo(t, n) ==
    [id \in {x \in Ids(t) : Shown(t, n, x) # Nobody} |-> Shown(t, n, id)]

View(t) == ViewTo(t, Len(t.layers))
=============================================================================
