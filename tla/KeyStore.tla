------------------------------ MODULE KeyStore ------------------------------
(***************************************************************************)
(* The key store (key_management/src/keystore.rs), the wallet calls of the *)
(* RPC server that change it, and the daemon's start and stop around it.   *)
(*                                                                         *)
(* Every change is made in memory and then written by flush, which first   *)
(* truncates the file and then writes it: a crash or a full disk between   *)
(* the two leaves an empty or a partial file.  The writer is buffered and  *)
(* is flushed when it is dropped, where an error is ignored, so a failing  *)
(* write may also go unreported.                                           *)
(*                                                                         *)
(* A wallet key is named by its address; "default" holds a copy of one of  *)
(* them and "jwt" the secret of the RPC tokens.                            *)
(***************************************************************************)
EXTENDS Naturals, Sequences, Functions

CONSTANTS
    Addr,           \* addresses of wallet keys
    MaxOps,         \* bound: wallet calls
    MaxStops,       \* bound: crashes and shutdowns
    MaxDiskErrors   \* bound: file operations that fail

\* Addresses are told from the names of the other keys, and from no key.
KeyAssumption == Addr \cap {"default", "jwt", "none"} = {}

VARIABLES
    encrypted,      \* config.encrypt_keystore
    phase,          \* the daemon: down, ready, stopping
    key_info,       \* KeyStore.key_info: name -> key
    disk,           \* the key file: [kind, keys]
    todo,           \* changes the running call has yet to make: [name, key]
    step,           \* its flush: idle, create, write
    durable,        \* history: what the last complete flush wrote
    cut,            \* history: was the last flush cut short?
    ops, stops, errors

keyVars == <<encrypted, phase, key_info, disk, todo, step, durable, cut, ops, stops, errors>>

NoKeys == [n \in {} |-> "none"]
Whole(keys) == [kind |-> "whole", keys |-> keys]
File(kind) == [kind |-> kind, keys |-> NoKeys]
With(keys, n, k) == [m \in DOMAIN keys \cup {n} |-> IF m = n THEN k ELSE keys[m]]
Without(keys, n) == Restrict(keys, DOMAIN keys \ {n})

KInit ==
    /\ encrypted \in BOOLEAN
    /\ phase = "down"
    /\ key_info = NoKeys /\ durable = NoKeys
    /\ disk = File("absent")
    /\ todo = <<>> /\ step = "idle" /\ cut = FALSE
    /\ ops = 0 /\ stops = 0 /\ errors = 0

\* KeyStore::new.  Clear text that does not parse is an empty store; encrypted
\* data that does not decrypt is an error, and the daemon asks for the
\* passphrase again (or panics, when the salt is cut).
Readable == disk.kind # "partial" \/ ~encrypted

\* The daemon's start: the store is read and, when there is none, a token
\* secret is put.
Start ==
    /\ phase = "down"
    /\ Readable
    /\ phase' = "ready"
    /\ key_info' = disk.keys
    /\ todo' = IF "jwt" \in DOMAIN disk.keys THEN <<>> ELSE <<[name |-> "jwt", key |-> "jwt"]>>
    /\ UNCHANGED <<encrypted, disk, step, durable, cut, ops, stops, errors>>

Idle == phase = "ready" /\ todo = <<>> /\ step = "idle"

WalletCall ==
    /\ Idle
    /\ ops < MaxOps
    /\ ops' = ops + 1
    /\ UNCHANGED <<encrypted, phase, key_info, disk, step, durable, cut, stops, errors>>

\* wallet_new, generate_addr: a new key, the default if there was none.
WalletNew(a) ==
    /\ WalletCall
    /\ a \notin DOMAIN key_info
    /\ todo' = IF "default" \in DOMAIN key_info THEN <<[name |-> a, key |-> a]>>
               ELSE <<[name |-> a, key |-> a], [name |-> "default", key |-> a]>>

\* wallet_import: KeyExists changes nothing.
WalletImport(a) ==
    /\ WalletCall
    /\ a \notin DOMAIN key_info
    /\ todo' = <<[name |-> a, key |-> a]>>

\* wallet_set_default: the old default is removed (an error if there is none)
\* and the new one put, each with its flush.
WalletSetDefault(a) ==
    /\ WalletCall
    /\ a \in DOMAIN key_info /\ "default" \in DOMAIN key_info
    /\ todo' = <<[name |-> "default", key |-> "none"], [name |-> "default", key |-> a]>>

\* A slip: the default is changed without a flush.
ChangeQuietly ==
    /\ phase = "ready" /\ todo # <<>> /\ step = "idle"
    /\ key_info' = IF Head(todo).key = "none" THEN Without(key_info, Head(todo).name)
                   ELSE With(key_info, Head(todo).name, Head(todo).key)
    /\ IF Head(todo).name = "default" THEN todo' = Tail(todo) /\ UNCHANGED step
       ELSE step' = "create" /\ UNCHANGED todo
    /\ UNCHANGED <<encrypted, phase, disk, durable, cut, ops, stops, errors>>

\* The change in memory, and flush is called.
Change ==
    /\ phase = "ready" /\ todo # <<>> /\ step = "idle"
    /\ key_info' = IF Head(todo).key = "none" THEN Without(key_info, Head(todo).name)
                   ELSE With(key_info, Head(todo).name, Head(todo).key)
    /\ step' = "create"
    /\ UNCHANGED <<encrypted, phase, disk, todo, durable, cut, ops, stops, errors>>

\* The daemon was told to stop: it flushes once more.
Stop ==
    /\ Idle
    /\ stops < MaxStops
    /\ stops' = stops + 1
    /\ phase' = "stopping"
    /\ step' = "create"
    /\ UNCHANGED <<encrypted, key_info, disk, todo, durable, cut, ops, errors>>

\* File::create empties the file.
Create ==
    /\ step = "create"
    /\ step' = "write"
    /\ disk' = File("empty")
    /\ cut' = TRUE
    /\ UNCHANGED <<encrypted, phase, key_info, todo, durable, ops, stops, errors>>

\* The call goes on with its next change; a stopping daemon is down.
GoOn ==
    /\ step' = "idle"
    /\ IF phase = "stopping"
       THEN phase' = "down" /\ key_info' = NoKeys /\ UNCHANGED todo
       ELSE todo' = Tail(todo) /\ UNCHANGED <<phase, key_info>>

Write ==
    /\ step = "write"
    /\ disk' = Whole(key_info)
    /\ durable' = key_info
    /\ cut' = FALSE
    /\ GoOn
    /\ UNCHANGED <<encrypted, ops, stops, errors>>

\* An error ends the call; the change stays in memory.  The daemon unwraps
\* the error of its own two flushes.
GiveUp ==
    /\ step' = "idle"
    /\ todo' = <<>>
    /\ IF phase = "stopping" \/ (todo # <<>> /\ Head(todo).name = "jwt")
       THEN phase' = "down" /\ key_info' = NoKeys
       ELSE UNCHANGED <<phase, key_info>>

DiskError ==
    /\ errors < MaxDiskErrors
    /\ errors' = errors + 1
    /\ UNCHANGED <<encrypted, durable, ops, stops>>

CreateFails ==
    /\ step = "create"
    /\ DiskError
    /\ GiveUp
    /\ UNCHANGED <<disk, cut>>

\* Some or none of the bytes are written; the error is seen or not.
WriteFails ==
    /\ step = "write"
    /\ DiskError
    /\ disk' \in {File("empty"), File("partial")}
    /\ GiveUp \/ GoOn
    /\ UNCHANGED cut

\* The process is killed, possibly in the middle of the write.
NodeCrash ==
    /\ phase # "down"
    /\ stops < MaxStops
    /\ stops' = stops + 1
    /\ phase' = "down"
    /\ key_info' = NoKeys
    /\ todo' = <<>> /\ step' = "idle"
    /\ disk' \in IF step = "write" THEN {disk, File("partial")} ELSE {disk}
    /\ UNCHANGED <<encrypted, durable, cut, ops, errors>>

KNext ==
    \/ Start \/ Change \/ Create \/ Write \/ CreateFails \/ WriteFails \/ Stop \/ NodeCrash
    \/ \E a \in Addr : WalletNew(a) \/ WalletImport(a) \/ WalletSetDefault(a)

KSpec == KInit /\ [][KNext]_keyVars

(***************************************************************************)
(* Properties.                                                             *)
(***************************************************************************)
KTypeOK ==
    /\ phase \in {"down", "ready", "stopping"}
    /\ step \in {"idle", "create", "write"}
    /\ DOMAIN key_info \subseteq Addr \cup {"default", "jwt"}
    /\ disk.kind \in {"absent", "empty", "partial", "whole"}

\* Between calls the file holds exactly what is in memory, unless a file
\* operation failed: every change of every call is flushed.
FileFollowsMemory ==
    Idle /\ errors = 0 => disk = Whole(key_info) /\ durable = key_info

\* A key that was once written is lost only when a later flush is cut short
\* by a crash or an error: as long as none was, the file holds the last
\* complete flush, and a start reads it back.
OnlyACutLoses == ~cut => disk.keys = durable /\ disk.kind \in {"whole", "absent"}

\* The default key is also there under its own address, in memory between
\* calls and in every file a start may read, whatever was cut short.
DefaultIsAKey ==
    \A keys \in {key_info, disk.keys} :
        "default" \in DOMAIN keys => keys["default"] \in DOMAIN keys

\* Keys are kept: the file follows memory, only a flush that is cut short loses
\* any, and the default is always one of them.
KeysAreKept == KTypeOK /\ FileFollowsMemory /\ OnlyACutLoses /\ DefaultIsAKey

=============================================================================
