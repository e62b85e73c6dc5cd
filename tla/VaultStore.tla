----------------------------- MODULE VaultStore -----------------------------
(***************************************************************************)
(* What the vault promises, with no files, generations, keys or locks: one *)
(* write-once store of blobs that every open session reads, all of it, at  *)
(* every moment. Key rotation, crashes and failures are not visible.       *)
(***************************************************************************)
CONSTANTS Instances, Blobs, Values

VARIABLES
  store,   \* the stored blobs, a set of [id, val]
  view     \* view[i]: what session i reads; its domain is the open sessions

vars == <<store, view>>

Stored == [id: Blobs, val: Values]

Init ==
  /\ store = {}
  /\ view = [i \in {} |-> {}]

\* The open sessions become S, and each of them reads the store.
Publish(S) == view' = [i \in S |-> store']

Open(i) ==
  /\ i \notin DOMAIN view
  /\ UNCHANGED store
  /\ Publish(DOMAIN view \union {i})

Close(i) ==
  /\ i \in DOMAIN view
  /\ UNCHANGED store
  /\ Publish(DOMAIN view \ {i})

\* write_blob: a stored blob is never replaced.
Write(i, a) ==
  /\ i \in DOMAIN view
  /\ \A b \in store : b.id # a.id
  /\ store' = store \union {a}
  /\ Publish(DOMAIN view)

Next == \E i \in Instances : Open(i) \/ Close(i) \/ \E a \in Stored : Write(i, a)

Spec == Init /\ [][Next]_vars
=============================================================================
