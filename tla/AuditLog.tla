------------------------------ MODULE AuditLog ------------------------------
(***************************************************************************)
(* AuditLog (core/src/audit/log.rs): several handles on one append-only    *)
(* NDJSON file whose records are chained by hashes, under an OS file lock. *)
(*                                                                         *)
(* A handle caches the hash of the last record it knows (last_hash) and    *)
(* keeps it between appends, while other handles append. Writers fail,     *)
(* crash in the middle of a record, and the machine may lose power.        *)
(*                                                                         *)
(* A hash stands for all it covers: SHA-256 over the canonical record,     *)
(* previous hash included, is the sequence of events up to that record, so *)
(* that two hashes are equal exactly when what they cover is.              *)
(*                                                                         *)
(* Assumed: the file's name in its directory is durable. open_or_create    *)
(* makes the file and never syncs the directory, so a loss of power soon   *)
(* after may take the whole log, synced records included. What is said     *)
(* here of a loss of power is said of a log whose file survives it.        *)
(***************************************************************************)
EXTENDS Naturals, Sequences

CONSTANTS
  Writers,   \* AuditLog values, in one process or several
  Events,    \* event contents
  MaxLen     \* bound on the log: the disk is full beyond it

ASSUME AuditAssumption == MaxLen \in Nat

Hashes == Seq(Events)
Records == [event: Events, prev: Hashes]
ZeroHash == << >>

VARIABLES
  log,      \* the terminated records of the file
  torn,     \* bytes without a final newline follow them
  synced,   \* how many records sync_all has made durable
  pc,       \* where the call in progress of each handle stands
  last,     \* last_hash
  acked     \* history: the event hashes that append returned

vars == <<log, torn, synced, pc, last, acked>>

Pcs == {"closed", "open_wait", "open_read", "ready", "app_wait", "app_check",
        "app_write", "app_sync"}

TypeOK ==
  /\ log \in Seq(Records)
  /\ torn \in BOOLEAN
  /\ synced \in 0..Len(log)
  /\ pc \in [Writers -> Pcs]
  /\ last \in [Writers -> Hashes]
  /\ acked \subseteq Hashes

----------------------------------------------------------------------------
HashOf(r) == Append(r.prev, r.event)

\* read_verified_tail: the hash of the final record and the one it extends.
TailHash == IF log = << >> THEN ZeroHash ELSE HashOf(log[Len(log)])
TailPrev == IF log = << >> THEN ZeroHash ELSE log[Len(log)].prev

\* verify_ndjson: every record extends the one before it.
Chained(r) ==
  \A n \in DOMAIN r : r[n].prev = IF n = 1 THEN ZeroHash ELSE HashOf(r[n - 1])

\* The lock a handle holds follows from where its call stands.
Shared(w) == pc[w] = "open_read"
Exclusive(w) == pc[w] \in {"app_check", "app_write", "app_sync"}

Goto(w, from, to) ==
  /\ pc[w] = from
  /\ pc' = [pc EXCEPT ![w] = to]

disk == <<log, torn, synced>>

----------------------------------------------------------------------------
(***************************************************************************)
(* Mutants: slips this code could have made, each a wrong form of an       *)
(* action below. They are not part of the specification.                   *)
(***************************************************************************)
\* append takes the lock shared: two appends can overlap.
AppendLockShared(w) ==
  /\ \A v \in Writers \ {w} : ~Shared(v)
  /\ Goto(w, "app_wait", "app_check")
  /\ UNCHANGED <<disk, last, acked>>

\* append trusts last_hash and does not look at the tail.
AppendCheckNothing(w) ==
  /\ Goto(w, "app_check", "app_write")
  /\ UNCHANGED <<disk, last, acked>>

\* append verifies the final record but not that it is the one it knows.
AppendCheckTailOnly(w) ==
  /\ ~torn
  /\ Goto(w, "app_check", "app_write")
  /\ last' = [last EXCEPT ![w] = TailHash]
  /\ UNCHANGED <<disk, acked>>

\* append reads the tail hash past the bytes of an unterminated record.
AppendCheckTorn(w) ==
  /\ TailHash = last[w] \/ TailPrev = last[w]
  /\ Goto(w, "app_check", "app_write")
  /\ last' = [last EXCEPT ![w] = TailHash]
  /\ UNCHANGED <<disk, acked>>

\* A failed write is repaired by cutting the file at the wrong record.
AppendTornRepair(w) ==
  /\ Goto(w, "app_write", "ready")
  /\ log' = SubSeq(log, 1, IF log = << >> THEN 0 ELSE Len(log) - 1)
  /\ UNCHANGED <<torn, synced, last, acked>>

\* append returns before sync_all.
AppendSyncNot(w) ==
  /\ Goto(w, "app_sync", "ready")
  /\ last' = [last EXCEPT ![w] = TailHash]
  /\ acked' = acked \union {TailHash}
  /\ UNCHANGED disk

----------------------------------------------------------------------------
Init ==
  /\ log = << >>
  /\ torn = FALSE
  /\ synced = 0
  /\ pc = [w \in Writers |-> "closed"]
  /\ last = [w \in Writers |-> ZeroHash]
  /\ acked = {}

(***************************************************************************)
(* open_or_create: creates an absent file, waits for the shared lock, and  *)
(* verifies the whole log.                                                 *)
(***************************************************************************)
OpenBegin(w) ==
  /\ Goto(w, "closed", "open_wait")
  /\ UNCHANGED <<disk, last, acked>>

OpenLock(w) ==
  /\ \A v \in Writers \ {w} : ~Exclusive(v)
  /\ Goto(w, "open_wait", "open_read")
  /\ UNCHANGED <<disk, last, acked>>

OpenRead(w) ==
  /\ ~torn /\ Chained(log)
  /\ Goto(w, "open_read", "ready")
  /\ last' = [last EXCEPT ![w] = TailHash]
  /\ UNCHANGED <<disk, acked>>

\* AUDIT_UNTERMINATED_TAIL, a record that does not verify, or an IO error.
OpenFails(w) ==
  /\ pc[w] \in {"open_wait", "open_read"}
  /\ pc' = [pc EXCEPT ![w] = "closed"]
  /\ UNCHANGED <<disk, last, acked>>

Open(w) == OpenBegin(w) \/ OpenLock(w) \/ OpenRead(w) \/ OpenFails(w)

----------------------------------------------------------------------------
(***************************************************************************)
(* append                                                                  *)
(***************************************************************************)
AppendBegin(w) ==
  /\ Goto(w, "ready", "app_wait")
  /\ UNCHANGED <<disk, last, acked>>

AppendLock(w) ==
  /\ \A v \in Writers \ {w} : ~Exclusive(v) /\ ~Shared(v)
  /\ Goto(w, "app_wait", "app_check")
  /\ UNCHANGED <<disk, last, acked>>

\* AUDIT_UNTERMINATED_TAIL, or AUDIT_STALE_WRITER: last_hash stays as it was.
AppendRefused(w) ==
  /\ torn \/ (TailHash # last[w] /\ TailPrev # last[w])
  /\ Goto(w, "app_check", "ready")
  /\ UNCHANGED <<disk, last, acked>>

\* The tail is the record the handle knows, or extends it by one.
AppendCheck(w) ==
  /\ ~torn
  /\ TailHash = last[w] \/ TailPrev = last[w]
  /\ Goto(w, "app_check", "app_write")
  /\ last' = [last EXCEPT ![w] = TailHash]
  /\ UNCHANGED <<disk, acked>>

\* write_all of the record and its newline.
AppendWrite(w) ==
  /\ Len(log) < MaxLen
  /\ Goto(w, "app_write", "app_sync")
  /\ \E e \in Events : log' = Append(log, [event |-> e, prev |-> last[w]])
  /\ UNCHANGED <<torn, synced, last, acked>>

\* write_all stops part way.
AppendTorn(w) ==
  /\ Goto(w, "app_write", "ready")
  /\ torn' = TRUE
  /\ UNCHANGED <<log, synced, last, acked>>

\* sync_all, last_hash moves on, and append returns the event, or only the
\* error of the unlock that follows.
AppendSync(w) ==
  /\ Goto(w, "app_sync", "ready")
  /\ synced' = Len(log)
  /\ last' = [last EXCEPT ![w] = TailHash]
  /\ acked' = acked \union {TailHash} \/ UNCHANGED acked
  /\ UNCHANGED <<log, torn>>

\* Any other error: opening, locking or reading the file, an event that
\* finalize_event rejects, a write of nothing, or sync_all.
AppendFails(w) ==
  /\ pc[w] \in {"app_wait", "app_check", "app_write", "app_sync"}
  /\ pc' = [pc EXCEPT ![w] = "ready"]
  /\ UNCHANGED <<disk, last, acked>>

AppendEvent(w) ==
  \/ AppendBegin(w) \/ AppendLock(w) \/ AppendRefused(w) \/ AppendCheck(w)
  \/ AppendWrite(w) \/ AppendTorn(w) \/ AppendSync(w) \/ AppendFails(w)

----------------------------------------------------------------------------
\* The handle is dropped, or its process dies, possibly inside write_all.
Close(w) ==
  /\ pc[w] # "closed"
  /\ pc' = [pc EXCEPT ![w] = "closed"]
  /\ last' = [last EXCEPT ![w] = ZeroHash]
  /\ torn' \in IF pc[w] = "app_write" THEN {torn, TRUE} ELSE {torn}
  /\ UNCHANGED <<log, synced, acked>>

\* Every process dies and the file, which is taken to stay in its directory,
\* keeps what was durable, and perhaps more.
PowerLoss ==
  /\ pc' = [w \in Writers |-> "closed"]
  /\ \E n \in synced..Len(log) :
       /\ log' = SubSeq(log, 1, n)
       /\ torn' \in IF n < Len(log) \/ torn THEN BOOLEAN ELSE {FALSE}
       /\ synced' = n
  /\ last' = [w \in Writers |-> ZeroHash]
  /\ UNCHANGED acked

Next == PowerLoss \/ \E w \in Writers : Open(w) \/ AppendEvent(w) \/ Close(w)

Spec == Init /\ [][Next]_vars

----------------------------------------------------------------------------
IsOpen(w) == pc[w] \notin {"closed", "open_wait", "open_read"}

\* The handle has missed more than one record.
Stale(w) == IsOpen(w) /\ TailHash # last[w] /\ TailPrev # last[w]

(* The file is one chain: however opens and appends of several handles     *)
(* interleave, fail or die, no record is written beside another or on a    *)
(* hash that is not its predecessor's.                                     *)
ChainValid == Chained(log)

(* An append that returned its event is on disk for good: at its place in  *)
(* the chain, and durable, as long as the directory keeps the file's name  *)
(* (see above).                                                            *)
AckedKept ==
  \A h \in acked : Len(h) \in 1..synced /\ HashOf(log[Len(h)]) = h

(* Bytes that a dying writer left without a newline are never followed by  *)
(* another record: evidence is not repaired by appending to it.            *)
TornNeverExtended == [][torn => Len(log') <= Len(log)]_vars

(* A handle becomes stale only by what another one appends: alone on its   *)
(* log it never is, whatever failed before, for an append whose sync_all   *)
(* failed is one record past last_hash. And once it is stale it never      *)
(* appends again: only reopening the log helps.                            *)
StaleMeansOvertaken ==
  [][\A w \in Writers : IsOpen(w)' =>
       /\ Stale(w) => Stale(w)'
       /\ Stale(w)' /\ ~Stale(w) =>
            \E v \in Writers \ {w} : pc[v] = "app_write" /\ log' # log]_vars

(* docs/adr/0010: append "rejects a persisted chain whose final hash       *)
(* differs from the hash captured at open time". The code accepts one that *)
(* another handle has made longer by one record: TailHash was returned to  *)
(* that handle, or last[w] would be it.                                    *)
RejectsOtherTail ==
  [][\A w \in Writers : pc[w] = "app_check" /\ TailHash \in acked \ {last[w]} =>
       pc'[w] # "app_write"]_vars

(* The log implements the append-only trail: appends extend it, nothing    *)
(* else changes it but power loss, and what was promised stays, under the  *)
(* assumption above on the name of the file.                               *)
Trail == INSTANCE AuditTrail WITH
  chain <- [n \in DOMAIN log |-> log[n].event],
  promised <- acked
ImplementsTrail == Trail!Spec

----------------------------------------------------------------------------
(***************************************************************************)
(* The inductive invariant behind these properties.                        *)
(***************************************************************************)
\* The events of the first n records: what the hash of the n-th covers.
Covered(n) == [m \in 1..n |-> log[m].event]

PrefixInv == \A n \in DOMAIN log : log[n].prev = Covered(n - 1)

LockInv ==
  \A v, w \in Writers : Exclusive(w) /\ v # w => ~Exclusive(v) /\ ~Shared(v)

\* Between its check and its sync a writer knows exactly where the log ends.
WriteInv == \A w \in Writers :
  /\ pc[w] = "app_write" => ~torn /\ last[w] = TailHash
  /\ pc[w] = "app_sync" => log # << >> /\ last[w] = TailPrev

KnownInv == \A w \in Writers : Len(last[w]) <= Len(log)

(* These hold together in every reachable state.                           *)
AuditInv == TypeOK /\ PrefixInv /\ LockInv /\ WriteInv /\ KnownInv /\ AckedKept
=============================================================================
