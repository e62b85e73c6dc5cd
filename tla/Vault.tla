------------------------------- MODULE Vault -------------------------------
(***************************************************************************)
(* VaultStorage (core/src/storage/vault.rs): several open instances of one *)
(* vault directory, each a handle in some process, coordinating through an *)
(* OS file lock and a tree of data generations.                            *)
(*                                                                         *)
(* Disk operations are atomic and persist in the order they are issued; a  *)
(* process may crash, and an operation may fail, between any two of them.  *)
(* Every cached field of a handle (generation_root, dek) is kept apart     *)
(* from the disk, since what can go wrong is that they come to differ.     *)
(***************************************************************************)
EXTENDS Integers, FiniteSets

CONSTANTS
  Instances,        \* handles: VaultStorage values, in one process or several
  Creators,         \* instances whose owner may call create
  Rotators,         \* instances whose owner may call rotate_dek
  Blobs,            \* blob identifiers
  Values,           \* blob plaintexts
  MaxGen,           \* bound on generation names and data keys
  Encrypted,        \* cfg.encryption_at_rest
  AtomicDowngrade,  \* whether the OS turns an exclusive lock into a shared one
                    \* in one step; flock(2) does not promise it
  LockErrors        \* whether lock_shared may return an error

ASSUME VaultAssumption ==
  /\ Creators \subseteq Instances
  /\ Rotators \subseteq Instances
  /\ MaxGen \in Nat /\ MaxGen >= 2
  /\ Encrypted \in BOOLEAN
  /\ AtomicDowngrade \in BOOLEAN
  /\ LockErrors \in BOOLEAN

(***************************************************************************)
(* A generation is a directory holding the data and the wrapped data key.  *)
(* Root is the flat layout (the vault root itself), First is               *)
(* generations/generation-0, the others carry a fresh unique_suffix. A     *)
(* data key is named by the same fresh number.                             *)
(***************************************************************************)
Gens == 0..MaxGen
Root == 0
First == 1
NoPointer == 0      \* meta/active_generation is absent: no name denotes Root
Keys == 1..MaxGen
NoKey == 0          \* key_state.json is absent

Files == [gen: Gens, id: Blobs, val: Values, key: Keys]
NoDb == [state |-> "none", key |-> NoKey]
DbStates == [state: {"none", "torn", "whole"}, key: Keys \union {NoKey}]

VARIABLES
  \* the directory
  meta,      \* meta/ exists
  config,    \* meta/vault_config.json exists
  pointer,   \* the name in meta/active_generation
  dir,       \* dir[g]: "none", "stage" (under its .staging- name) or "final"
  wrapped,   \* wrapped[g]: the data key in the key state of g
  files,     \* blob files at their final names
  db,        \* db[g]: sqlite/vault.db.enc of g
  \* the OS
  lock,      \* lock[i]: what the descriptor of i holds on meta/.lock
  fresh,     \* the next unique_suffix, also the next data key
  \* the handles
  pc,        \* where the call in progress stands
  gen,       \* generation_root
  dek,       \* dek
  other,     \* the staged generation of a rotation, then the retired one
  arg,       \* the blob a write_blob in progress is about
  \* history
  acked      \* blobs whose write_blob returned Ok

disk == <<meta, config, pointer, dir, wrapped, files, db>>
handle == <<gen, dek, other, arg>>
vars == <<disk, lock, fresh, pc, handle, acked>>

CreatePcs == {"create_locked", "create_key", "create_config", "create_publish",
              "create_shared"}
OpenPcs == {"open_wait", "open_read"}
\* Places of rotate_dek between taking the exclusive lock and giving it up.
RotatePcs == {"rot_copy", "rot_encrypt", "rot_rename", "rot_publish", "rot_retire",
              "rot_shared"}
\* Places at which the caller owns an open VaultStorage.
SessionPcs == {"idle", "blob", "db", "rot_try", "relock"} \union RotatePcs
Pcs == {"closed"} \union CreatePcs \union OpenPcs \union SessionPcs

Arg == [id: Blobs, val: Values]

DiskTypeOK ==
  /\ meta \in BOOLEAN
  /\ config \in BOOLEAN
  /\ pointer \in Gens
  /\ dir \in [Gens -> {"none", "stage", "final"}]
  /\ wrapped \in [Gens -> Keys \union {NoKey}]
  /\ files \subseteq Files
  /\ db \in [Gens -> DbStates]

TypeOK ==
  /\ DiskTypeOK
  /\ lock \in [Instances -> {"none", "shared", "exclusive"}]
  /\ fresh \in 2..(MaxGen + 1)
  /\ pc \in [Instances -> Pcs]
  /\ gen \in [Instances -> Gens]
  /\ dek \in [Instances -> Keys]
  /\ other \in [Instances -> Gens]
  /\ arg \in [Instances -> SUBSET Arg]
  /\ acked \subseteq Arg
  /\ \A i \in Instances :
       pc[i] \in {"rot_encrypt", "rot_rename", "rot_publish"} => other[i] \in Keys

----------------------------------------------------------------------------
(***************************************************************************)
(* Reading the directory and the lock.                                     *)
(***************************************************************************)
FilesOf(g) == {f \in files : f.gen = g}

\* The files of g, copied into generation n.
FilesInto(g, n) ==
  {[gen |-> n, id |-> f.id, val |-> f.val, key |-> f.key] : f \in FilesOf(g)}

\* The generation open selects: the pointer, else generation-0, else the root.
ActiveGen ==
  IF pointer # NoPointer THEN pointer
  ELSE IF dir[First] = "final" THEN First
  ELSE Root

VaultStateExists ==
  config \/ wrapped[Root] # NoKey \/ pointer # NoPointer \/ wrapped[First] # NoKey

Decrypts(key, k) == Encrypted => key = k

\* What read_blob returns for b through generation g and key k: a set holding
\* the plaintext, or empty when it fails.
ReadBlob(g, k, b) ==
  {f.val : f \in {x \in FilesOf(g) : x.id = b /\ dir[g] = "final" /\ Decrypts(x.key, k)}}

Sessions == {i \in Instances : pc[i] \in SessionPcs}

SharedFree(i) == \A j \in Instances \ {i} : lock[j] # "exclusive"
ExclusiveFree(i) == \A j \in Instances \ {i} : lock[j] = "none"

Goto(i, from, to) ==
  /\ pc[i] = from
  /\ pc' = [pc EXCEPT ![i] = to]

SetLock(i, mode) == lock' = [lock EXCEPT ![i] = mode]

\* The call returns and the handle, or the half-built one, is dropped.
Drop(i) ==
  /\ pc' = [pc EXCEPT ![i] = "closed"]
  /\ SetLock(i, "none")
  /\ gen' = [gen EXCEPT ![i] = Root]
  /\ dek' = [dek EXCEPT ![i] = 1]
  /\ other' = [other EXCEPT ![i] = Root]
  /\ arg' = [arg EXCEPT ![i] = {}]
  /\ UNCHANGED <<disk, fresh, acked>>

\* remove_dir_all of a generation.
RemoveGeneration(g) ==
  /\ dir' = [dir EXCEPT ![g] = "none"]
  /\ wrapped' = [wrapped EXCEPT ![g] = NoKey]
  /\ files' = files \ FilesOf(g)
  /\ db' = [db EXCEPT ![g] = NoDb]
  /\ UNCHANGED <<meta, config, pointer>>

----------------------------------------------------------------------------
(***************************************************************************)
(* Mutants: slips this code could have made, each a wrong form of an       *)
(* action below. They are not part of the specification.                   *)
(***************************************************************************)
\* create looks for an existing vault before it takes the lock, not under it.
CreateDirsUnchecked(i) ==
  /\ Goto(i, "create_locked", "create_key")
  /\ dir' = [dir EXCEPT ![First] = "final"]
  /\ UNCHANGED <<meta, config, pointer, wrapped, files, db, lock, fresh, handle, acked>>

\* write_blob renames its temporary file over a blob already there.
BlobPublishReplacing(i) ==
  /\ \E a \in arg[i] :
       /\ dir[gen[i]] = "final"
       /\ files' = {f \in files : f.gen # gen[i] \/ f.id # a.id}
                     \union {[gen |-> gen[i], id |-> a.id, val |-> a.val, key |-> dek[i]]}
       /\ acked' = acked \union {a}
  /\ Goto(i, "blob", "idle")
  /\ arg' = [arg EXCEPT ![i] = {}]
  /\ UNCHANGED <<meta, config, pointer, dir, wrapped, db, lock, fresh, gen, dek, other>>

\* Rotation proceeds while other instances hold the lock shared.
RotateTryLockAmongReaders(i) ==
  /\ SharedFree(i)
  /\ Goto(i, "rot_try", "rot_copy")
  /\ SetLock(i, "exclusive")
  /\ UNCHANGED <<disk, fresh, handle, acked>>

\* Rotation re-encrypts the blobs but leaves the database under the old key.
RotateEncryptBlobsOnly(i) ==
  /\ \A f \in FilesOf(other[i]) : Decrypts(f.key, dek[i])
  /\ Goto(i, "rot_encrypt", "rot_rename")
  /\ files' = (files \ FilesOf(other[i]))
                \union {[f EXCEPT !.key = other[i]] : f \in FilesOf(other[i])}
  /\ wrapped' = [wrapped EXCEPT ![other[i]] = other[i]]
  /\ UNCHANGED <<meta, config, pointer, dir, db, lock, fresh, handle, acked>>

\* The handle moves to the new generation but keeps its old data key.
RotatePublishOldKey(i) ==
  /\ Goto(i, "rot_publish", "rot_retire")
  /\ pointer' = other[i]
  /\ gen' = [gen EXCEPT ![i] = other[i]]
  /\ other' = [other EXCEPT ![i] = gen[i]]
  /\ UNCHANGED <<meta, config, dir, wrapped, files, db, lock, fresh, dek, arg, acked>>

\* Rotation retires the generation the handle now works on.
RotateRetireNew(i) ==
  /\ Goto(i, "rot_retire", "rot_shared")
  /\ RemoveGeneration(gen[i]) \/ UNCHANGED disk
  /\ other' = [other EXCEPT ![i] = Root]
  /\ UNCHANGED <<lock, fresh, gen, dek, arg, acked>>

\* A failed rotation forgets its staged generation and goes on with the root.
RotateFailsOn(i) ==
  /\ pc[i] \in {"rot_copy", "rot_encrypt", "rot_rename", "rot_publish"}
  /\ other' = [other EXCEPT ![i] = Root]
  /\ UNCHANGED <<disk, lock, fresh, pc, gen, dek, arg, acked>>

\* A failed rotation returns at once, with the exclusive lock still held.
RotateFailsLocked(i) ==
  /\ pc[i] \in {"rot_copy", "rot_encrypt", "rot_rename", "rot_publish"}
  /\ pc' = [pc EXCEPT ![i] = "idle"]
  /\ other' = [other EXCEPT ![i] = Root]
  /\ UNCHANGED <<disk, lock, fresh, gen, dek, arg, acked>>

----------------------------------------------------------------------------
(***************************************************************************)
(* Initially there is no vault, or one an earlier version left in the flat *)
(* layout.                                                                 *)
(***************************************************************************)
Init ==
  /\ \E legacy \in BOOLEAN :
       /\ meta = legacy
       /\ config = legacy
       /\ dir = [g \in Gens |-> IF legacy /\ g = Root THEN "final" ELSE "none"]
       /\ wrapped = [g \in Gens |-> IF legacy /\ g = Root THEN 1 ELSE NoKey]
  /\ pointer = NoPointer
  /\ files = {}
  /\ db = [g \in Gens |-> NoDb]
  /\ lock = [i \in Instances |-> "none"]
  /\ fresh = 2
  /\ pc = [i \in Instances |-> "closed"]
  /\ gen = [i \in Instances |-> Root]
  /\ dek = [i \in Instances |-> 1]
  /\ other = [i \in Instances |-> Root]
  /\ arg = [i \in Instances |-> {}]
  /\ acked = {}

----------------------------------------------------------------------------
(***************************************************************************)
(* create                                                                  *)
(***************************************************************************)
\* Make meta/ and try the lock; VAULT_ALREADY_EXISTS or VAULT_CREATE_IN_PROGRESS
\* when it is held.
CreateLock(i) ==
  /\ i \in Creators
  /\ pc[i] = "closed"
  /\ meta' = TRUE
  /\ IF ExclusiveFree(i)
     THEN Goto(i, "closed", "create_locked") /\ SetLock(i, "exclusive")
     ELSE UNCHANGED <<pc, lock>>
  /\ UNCHANGED <<config, pointer, dir, wrapped, files, db, fresh, handle, acked>>

CreateRefused(i) ==
  /\ pc[i] = "create_locked"
  /\ VaultStateExists
  /\ Drop(i)

CreateDirs(i) ==
  /\ ~VaultStateExists
  /\ Goto(i, "create_locked", "create_key")
  /\ dir' = [dir EXCEPT ![First] = "final"]
  /\ UNCHANGED <<meta, config, pointer, wrapped, files, db, lock, fresh, handle, acked>>

\* Draw a data key and write key_state.json of generation-0.
CreateKeyState(i) ==
  /\ fresh <= MaxGen
  /\ Goto(i, "create_key", "create_config")
  /\ wrapped' = [wrapped EXCEPT ![First] = fresh]
  /\ gen' = [gen EXCEPT ![i] = First]
  /\ dek' = [dek EXCEPT ![i] = fresh]
  /\ fresh' = fresh + 1
  /\ UNCHANGED <<meta, config, pointer, dir, files, db, lock, other, arg, acked>>

CreateConfig(i) ==
  /\ Goto(i, "create_config", "create_publish")
  /\ config' = TRUE
  /\ UNCHANGED <<meta, pointer, dir, wrapped, files, db, lock, fresh, handle, acked>>

CreatePublish(i) ==
  /\ Goto(i, "create_publish", "create_shared")
  /\ pointer' = First
  /\ UNCHANGED <<meta, config, dir, wrapped, files, db, lock, fresh, handle, acked>>

\* An IO error before the pointer is published: what was written stays.
CreateFails(i) ==
  /\ pc[i] \in {"create_locked", "create_key", "create_config", "create_publish"}
  /\ Drop(i)

Create(i) ==
  \/ CreateLock(i) \/ CreateRefused(i) \/ CreateDirs(i) \/ CreateKeyState(i)
  \/ CreateConfig(i) \/ CreatePublish(i) \/ CreateFails(i)

----------------------------------------------------------------------------
(***************************************************************************)
(* open                                                                    *)
(***************************************************************************)
OpenBegin(i) ==
  /\ meta
  /\ Goto(i, "closed", "open_wait")
  /\ UNCHANGED <<disk, lock, fresh, handle, acked>>

\* lock_shared waits for a creation or a rotation in flight.
OpenLock(i) ==
  /\ SharedFree(i)
  /\ Goto(i, "open_wait", "open_read")
  /\ SetLock(i, "shared")
  /\ UNCHANGED <<disk, fresh, handle, acked>>

Openable == config /\ dir[ActiveGen] = "final" /\ wrapped[ActiveGen] # NoKey

\* Read the configuration, the pointer and the key state, and unwrap the key.
OpenRead(i) ==
  /\ Openable
  /\ Goto(i, "open_read", "idle")
  /\ gen' = [gen EXCEPT ![i] = ActiveGen]
  /\ dek' = [dek EXCEPT ![i] = wrapped[ActiveGen]]
  /\ UNCHANGED <<disk, lock, fresh, other, arg, acked>>

OpenFails(i) ==
  /\ pc[i] \in {"open_wait", "open_read"}
  /\ Drop(i)

Open(i) == OpenBegin(i) \/ OpenLock(i) \/ OpenRead(i) \/ OpenFails(i)

----------------------------------------------------------------------------
(***************************************************************************)
(* write_blob and write_sqlite_bytes, through the cached generation and    *)
(* key. The temporary file of write_blob is never read under its own name  *)
(* and rotation skips it, so only the call in progress is kept.            *)
(***************************************************************************)
BlobBegin(i) ==
  /\ dir[gen[i]] = "final"
  /\ Goto(i, "idle", "blob")
  /\ \E a \in Arg : arg' = [arg EXCEPT ![i] = {a}]
  /\ UNCHANGED <<disk, lock, fresh, gen, dek, other, acked>>

\* hard_link: fails when the final name, or the directory no longer, exists.
BlobPublish(i) ==
  /\ \E a \in arg[i] :
       /\ dir[gen[i]] = "final"
       /\ \A f \in FilesOf(gen[i]) : f.id # a.id
       /\ files' = files \union {[gen |-> gen[i], id |-> a.id, val |-> a.val, key |-> dek[i]]}
       /\ acked' = acked \union {a}
  /\ Goto(i, "blob", "idle")
  /\ arg' = [arg EXCEPT ![i] = {}]
  /\ UNCHANGED <<meta, config, pointer, dir, wrapped, db, lock, fresh, gen, dek, other>>

BlobFails(i) ==
  /\ Goto(i, "blob", "idle")
  /\ arg' = [arg EXCEPT ![i] = {}]
  /\ UNCHANGED <<disk, lock, fresh, gen, dek, other, acked>>

WriteBlob(i) == BlobBegin(i) \/ BlobPublish(i) \/ BlobFails(i)

\* fs::write truncates the database in place ...
DbBegin(i) ==
  /\ dir[gen[i]] = "final"
  /\ Goto(i, "idle", "db")
  /\ db' = [db EXCEPT ![gen[i]] = [state |-> "torn", key |-> NoKey]]
  /\ UNCHANGED <<meta, config, pointer, dir, wrapped, files, lock, fresh, handle, acked>>

\* ... and then fills it, unless it fails or another writer's bytes are mixed in.
DbEnd(i) ==
  /\ Goto(i, "db", "idle")
  /\ \/ UNCHANGED db
     \/ /\ dir[gen[i]] = "final"
        /\ \A j \in Instances \ {i} : pc[j] = "db" => gen[j] # gen[i]
        /\ db' = [db EXCEPT ![gen[i]] = [state |-> "whole", key |-> dek[i]]]
  /\ UNCHANGED <<meta, config, pointer, dir, wrapped, files, lock, fresh, handle, acked>>

WriteDb(i) == DbBegin(i) \/ DbEnd(i)

----------------------------------------------------------------------------
(***************************************************************************)
(* rotate_dek                                                              *)
(***************************************************************************)
RotateUnlock(i) ==
  /\ i \in Rotators
  /\ Goto(i, "idle", "rot_try")
  /\ SetLock(i, "none")
  /\ UNCHANGED <<disk, fresh, handle, acked>>

RotateTryLock(i) ==
  /\ ExclusiveFree(i)
  /\ Goto(i, "rot_try", "rot_copy")
  /\ SetLock(i, "exclusive")
  /\ UNCHANGED <<disk, fresh, handle, acked>>

\* VAULT_IN_USE, or try_lock failed otherwise: retake the shared lock and return.
RotateInUse(i) ==
  /\ ~ExclusiveFree(i) \/ LockErrors
  /\ Goto(i, "rot_try", "relock")
  /\ UNCHANGED <<disk, lock, fresh, handle, acked>>

\* copy_generation into the staging directory. The new data key is drawn here
\* and bears the number of the generation.
RotateCopy(i) ==
  /\ fresh <= MaxGen
  /\ dir[gen[i]] = "final"
  /\ Goto(i, "rot_copy", "rot_encrypt")
  /\ other' = [other EXCEPT ![i] = fresh]
  /\ dir' = [dir EXCEPT ![fresh] = "stage"]
  /\ wrapped' = [wrapped EXCEPT ![fresh] = wrapped[gen[i]]]
  /\ files' = files \union FilesInto(gen[i], fresh)
  /\ db' = [db EXCEPT ![fresh] = db[gen[i]]]
  /\ fresh' = fresh + 1
  /\ UNCHANGED <<meta, config, pointer, lock, gen, dek, arg, acked>>

\* Re-encrypt the database and the blobs, each read from the cached generation
\* with the cached key, then write the staged key state.
RotateEncrypt(i) ==
  LET n == other[i]
      NewKey(key) == IF Encrypted THEN n ELSE key
  IN /\ dir[gen[i]] = "final"
     /\ \A f \in FilesOf(n) : Decrypts(f.key, dek[i])
     /\ Encrypted /\ db[n].state # "none" =>
          db[gen[i]].state = "whole" /\ db[gen[i]].key = dek[i]
     /\ Goto(i, "rot_encrypt", "rot_rename")
     /\ files' = (files \ FilesOf(n))
          \union {[gen |-> n, id |-> f.id, val |-> f.val, key |-> NewKey(f.key)] : f \in FilesOf(n)}
     /\ db' = [db EXCEPT ![n] = [state |-> @.state,
                                 key |-> IF @.state = "whole" THEN NewKey(@.key) ELSE @.key]]
     /\ wrapped' = [wrapped EXCEPT ![n] = n]
     /\ UNCHANGED <<meta, config, pointer, dir, lock, fresh, handle, acked>>

RotateRename(i) ==
  /\ Goto(i, "rot_rename", "rot_publish")
  /\ dir' = [dir EXCEPT ![other[i]] = "final"]
  /\ UNCHANGED <<meta, config, pointer, wrapped, files, db, lock, fresh, handle, acked>>

\* publish_generation, and the handle moves to the new generation and key.
RotatePublish(i) ==
  /\ Goto(i, "rot_publish", "rot_retire")
  /\ pointer' = other[i]
  /\ gen' = [gen EXCEPT ![i] = other[i]]
  /\ dek' = [dek EXCEPT ![i] = other[i]]
  /\ other' = [other EXCEPT ![i] = gen[i]]
  /\ UNCHANGED <<meta, config, dir, wrapped, files, db, lock, fresh, arg, acked>>

\* Remove the retired generation; a failure is only logged.
RotateRetire(i) ==
  /\ Goto(i, "rot_retire", "rot_shared")
  /\ RemoveGeneration(other[i]) \/ UNCHANGED disk
  /\ other' = [other EXCEPT ![i] = Root]
  /\ UNCHANGED <<lock, fresh, gen, dek, arg, acked>>

\* An error before the pointer is published. The guard removes the staging
\* directory, or remove_unpublished_generation the renamed one; either may fail,
\* and neither runs when only the sync of generations/ failed.
RotateFails(i) ==
  /\ pc[i] \in {"rot_copy", "rot_encrypt", "rot_rename", "rot_publish"}
  /\ pc' = [pc EXCEPT ![i] = "rot_shared"]
  /\ \/ UNCHANGED disk
     \/ pc[i] # "rot_copy" /\ RemoveGeneration(other[i])
  /\ other' = [other EXCEPT ![i] = Root]
  /\ UNCHANGED <<lock, fresh, gen, dek, arg, acked>>

Rotate(i) ==
  \/ RotateUnlock(i) \/ RotateTryLock(i) \/ RotateInUse(i) \/ RotateCopy(i)
  \/ RotateEncrypt(i) \/ RotateRename(i) \/ RotatePublish(i) \/ RotateRetire(i)
  \/ RotateFails(i)

----------------------------------------------------------------------------
(***************************************************************************)
(* hold_shared at the end of create and of rotate_dek, and the lock_shared *)
(* of a refused rotation.                                                  *)
(***************************************************************************)
HoldSharedPcs == {"create_shared", "rot_shared", "relock"}

\* Without an atomic conversion the OS first gives the exclusive lock up.
DropExclusive(i) ==
  /\ ~AtomicDowngrade
  /\ pc[i] \in HoldSharedPcs
  /\ lock[i] = "exclusive"
  /\ SetLock(i, "none")
  /\ UNCHANGED <<disk, fresh, pc, handle, acked>>

HoldShared(i) ==
  /\ pc[i] \in HoldSharedPcs
  /\ AtomicDowngrade \/ lock[i] # "exclusive"
  /\ SharedFree(i)
  /\ pc' = [pc EXCEPT ![i] = "idle"]
  /\ SetLock(i, "shared")
  /\ UNCHANGED <<disk, fresh, handle, acked>>

\* create returns the error and drops the lock; rotate_dek keeps the instance
\* open with whatever lock it has left.
HoldSharedFails(i) ==
  /\ LockErrors
  /\ pc[i] \in HoldSharedPcs
  /\ IF pc[i] = "create_shared"
     THEN Drop(i)
     ELSE /\ pc' = [pc EXCEPT ![i] = "idle"]
          /\ UNCHANGED <<disk, lock, fresh, handle, acked>>

Relock(i) == DropExclusive(i) \/ HoldShared(i) \/ HoldSharedFails(i)

----------------------------------------------------------------------------
Close(i) == pc[i] = "idle" /\ Drop(i)

\* The process dies: the OS releases the lock, the directory stays as it is.
Crash(i) == pc[i] # "closed" /\ Drop(i)

Next == \E i \in Instances :
  Create(i) \/ Open(i) \/ WriteBlob(i) \/ WriteDb(i) \/ Rotate(i) \/ Relock(i)
  \/ Close(i) \/ Crash(i)

Spec == Init /\ [][Next]_vars

(***************************************************************************)
(* Fairness: a call in progress runs on, and the OS does not starve a      *)
(* blocked lock_shared for ever. Nobody is obliged to start a call, to     *)
(* close a handle, or to crash, and no lock_shared is obliged to fail.     *)
(***************************************************************************)
InProgress(i) ==
  \/ CreateRefused(i) \/ CreateDirs(i) \/ CreateKeyState(i) \/ CreateConfig(i)
  \/ CreatePublish(i) \/ CreateFails(i)
  \/ OpenRead(i) \/ (pc[i] = "open_read" /\ OpenFails(i))
  \/ BlobPublish(i) \/ BlobFails(i) \/ DbEnd(i)
  \/ RotateTryLock(i) \/ RotateInUse(i) \/ RotateCopy(i) \/ RotateEncrypt(i)
  \/ RotateRename(i) \/ RotatePublish(i) \/ RotateRetire(i) \/ RotateFails(i)
  \/ DropExclusive(i) \/ HoldSharedFails(i)

FairSpec ==
  /\ Spec
  /\ \A i \in Instances : WF_vars(InProgress(i)) /\ SF_vars(OpenLock(i)) /\ SF_vars(HoldShared(i))

----------------------------------------------------------------------------
(***************************************************************************)
(* The instances that can be open without a lock, because they are inside  *)
(* rotate_dek or waiting for the shared lock after creating the vault, and *)
(* those that rotate. The contract of VaultStorage needs them to be one    *)
(* ("the default is one rotating owner", docs/adr/0013).                   *)
(***************************************************************************)
Owners == Rotators \union (IF AtomicDowngrade THEN {} ELSE Creators)
OneOwner == \A i, j \in Owners : i = j

(* No acknowledged blob is lost: whatever crashes, fails or rotates in     *)
(* between, a blob whose write_blob returned Ok is in the generation the   *)
(* next open selects, under the key that generation's key state wraps.     *)
NoLostBlob ==
  \A a \in acked : ReadBlob(ActiveGen, wrapped[ActiveGen], a.id) = {a.val}

(* A handle never works on a retired generation or with a retired key: the *)
(* cached generation_root and dek of every open instance are the active    *)
(* ones, also while it holds no lock inside rotate_dek.                    *)
HandlesCurrent ==
  \A i \in Sessions : gen[i] = ActiveGen /\ dek[i] = wrapped[ActiveGen]

(* Rotation only proceeds when its instance is the sole open one, and no   *)
(* creation or open is reading the directory.                              *)
SoleOpenInstance ==
  \A i \in Instances : pc[i] \in RotatePcs /\ lock[i] = "exclusive" =>
    \A j \in Instances \ {i} : pc[j] \in {"closed", "create_shared", "open_wait"}

(* The directory is openable from the moment a create returned: the        *)
(* pointer names a whole generation whose blobs the wrapped key decrypts.  *)
ActiveGenerationWhole ==
  pointer # NoPointer =>
    /\ Openable
    /\ \A f \in FilesOf(pointer) : Decrypts(f.key, wrapped[pointer])
    /\ db[pointer].state = "whole" => Decrypts(db[pointer].key, wrapped[pointer])

(* The key state of a created vault is never overwritten: two creates, or  *)
(* a create racing a rotation, cannot both lay claim to generation-0.      *)
KeyStateKept ==
  [][\A g \in Gens : dir[g] = "final" /\ wrapped[g] # NoKey =>
       wrapped'[g] = wrapped[g] \/ (dir'[g] = "none" /\ g # ActiveGen')]_vars

(* The vault implements the write-once store: what is stored is what a     *)
(* fresh open would read, and every open handle reads exactly that.        *)
BlobsOf(g, k) == {a \in Arg : a.val \in ReadBlob(g, k, a.id)}
Store == INSTANCE VaultStore WITH
  store <- BlobsOf(ActiveGen, wrapped[ActiveGen]),
  view <- [i \in Sessions |-> BlobsOf(gen[i], dek[i])]
ImplementsStore == Store!Spec

(* What an open can wait for: an exclusive lock is held inside create or   *)
(* rotate_dek, never by a handle at rest. Only a rotate_dek whose final    *)
(* lock_shared returned an error keeps one beyond the call.                *)
LockReturned ==
  \A i \in Instances : lock[i] = "exclusive" =>
    pc[i] \in CreatePcs \union RotatePcs \/ (LockErrors /\ i \in Rotators)

(* Every open returns: a crash or a rotation in flight never leaves the    *)
(* vault locked against later opens.                                       *)
OpenReturns ==
  \A i \in Instances : pc[i] = "open_wait" ~> pc[i] \in {"idle", "closed"}
----------------------------------------------------------------------------
(***************************************************************************)
(* The inductive invariant behind NoLostBlob, HandlesCurrent,              *)
(* SoleOpenInstance and ActiveGenerationWhole.                             *)
(***************************************************************************)
\* Who can be where, and with which lock: only an owner is ever open without one.
LockInv ==
  /\ \A i, j \in Instances : lock[i] = "exclusive" /\ i # j => lock[j] = "none"
  /\ \A i \in Instances :
       /\ pc[i] \in (CreatePcs \union RotatePcs) \ HoldSharedPcs => lock[i] = "exclusive"
       /\ pc[i] = "open_read" => lock[i] = "shared"
       /\ pc[i] \in RotatePcs \union {"rot_try", "relock"} => i \in Rotators
       /\ pc[i] \in CreatePcs => i \in Creators
       /\ i \notin Owners /\ pc[i] \in SessionPcs \union {"create_shared"} => lock[i] # "none"

\* Names are drawn fresh: nothing on disk bears a number not yet drawn.
FreshInv ==
  /\ pointer < fresh
  /\ \A f \in files : f.gen < fresh
  /\ \A g \in Gens : g >= fresh => dir[g] = "none"

\* g holds every acknowledged blob, once, and k decrypts all of g.
Whole(g, k) ==
  /\ \A f \in FilesOf(g) : Decrypts(f.key, k)
  /\ \A f, h \in FilesOf(g) : f.id = h.id => f.val = h.val
  /\ db[g].state = "whole" => Decrypts(db[g].key, k)
  /\ \A a \in acked : \E f \in FilesOf(g) : f.id = a.id /\ f.val = a.val

\* Until its configuration is written a vault is empty; from then on it opens.
VaultInv ==
  /\ pointer # NoPointer => config
  /\ ~config => /\ files = {} /\ acked = {} /\ wrapped[Root] = NoKey
                /\ dir[Root] = "none"
                /\ \A g \in Gens : db[g].state = "none"
  /\ config => /\ dir[ActiveGen] = "final"
               /\ wrapped[ActiveGen] # NoKey
               /\ Whole(ActiveGen, wrapped[ActiveGen])

HandleOK(i) ==
  /\ pc[i] \in SessionPcs \union {"create_shared"} =>
       config /\ gen[i] = ActiveGen /\ dek[i] = wrapped[ActiveGen]
  /\ pc[i] = "create_key" => ~VaultStateExists /\ dir[First] = "final"
  /\ pc[i] \in {"create_config", "create_publish"} =>
       /\ pointer = NoPointer /\ dir[First] = "final"
       /\ wrapped[First] # NoKey /\ gen[i] = First /\ dek[i] = wrapped[First]
       /\ config = (pc[i] = "create_publish")
HandleInv == \A i \in Instances : HandleOK(i)

\* The staged generation of a rotation is as whole as the active one.
StageOK(i) ==
  /\ pc[i] \in {"rot_encrypt", "rot_rename", "rot_publish"} =>
       /\ other[i] \in 2..(fresh - 1)
       /\ dir[other[i]] = IF pc[i] = "rot_publish" THEN "final" ELSE "stage"
       /\ Whole(other[i], IF pc[i] = "rot_encrypt" THEN dek[i] ELSE other[i])
       /\ pc[i] # "rot_encrypt" => wrapped[other[i]] = other[i]
  /\ pc[i] \in {"rot_encrypt", "rot_rename", "rot_publish", "rot_retire"} =>
       other[i] # ActiveGen
StageInv == \A i \in Instances : StageOK(i)

(* Under one owner these hold together in every reachable state.           *)
IInv == TypeOK /\ LockInv /\ FreshInv /\ VaultInv /\ HandleInv /\ StageInv

(* The converse of Whole, which the refinement of VaultStore needs: a blob *)
(* file is an acknowledged blob, or a copy of one.                         *)
FilesAcked == \A f \in files : [id |-> f.id, val |-> f.val] \in acked
=============================================================================
