---------------------------- MODULE AuditProofs ----------------------------
(***************************************************************************)
(* Proofs about AuditLog, for every set of writers and events and every    *)
(* bound on the log: type correctness, the invariant AuditInv, the         *)
(* properties it implies, and that the log implements AuditTrail.          *)
(***************************************************************************)
EXTENDS AuditLog, SequenceTheorems, TLAPS

USE AuditAssumption

\* The hash of a record is one event longer than the hash it extends.
LEMMA HashOfType ==
  ASSUME NEW r \in Records
  PROVE  HashOf(r) \in Hashes /\ Len(HashOf(r)) = Len(r.prev) + 1
BY DEF HashOf, Records, Hashes

LEMMA ZeroType == ZeroHash \in Hashes /\ Len(ZeroHash) = 0
BY EmptySeq DEF ZeroHash, Hashes

LEMMA TailType ==
  ASSUME log \in Seq(Records)
  PROVE  TailHash \in Hashes /\ TailPrev \in Hashes
<1>1. CASE log = << >> BY <1>1, ZeroType DEF TailHash, TailPrev
<1>2. CASE log # << >>
  <2>1. log[Len(log)] \in Records BY <1>2
  <2> QED BY <1>2, <2>1, HashOfType DEF TailHash, TailPrev, Records
<1> QED BY <1>1, <1>2

Step(w) == Open(w) \/ AppendEvent(w) \/ Close(w)

(* Every action leaves the variables of AuditLog in their types.           *)
THEOREM TypeCorrect == Spec => []TypeOK
<1>1. Init => TypeOK
  <2> SUFFICES ASSUME Init PROVE TypeOK
    OBVIOUS
  <2>1. log \in Seq(Records) /\ Len(log) = 0 BY EmptySeq DEF Init
  <2>2. last \in [Writers -> Hashes] BY ZeroType DEF Init
  <2>3. torn \in BOOLEAN /\ synced \in 0..Len(log) /\ acked \subseteq Hashes
    <3>1. torn \in BOOLEAN /\ acked \subseteq Hashes BY DEF Init
    <3>2. synced = 0 BY DEF Init
    <3> QED BY <2>1, <3>1, <3>2
  <2>4. pc \in [Writers -> Pcs] BY DEF Init, Pcs
  <2> QED BY <2>1, <2>2, <2>3, <2>4 DEF TypeOK
<1>2. TypeOK /\ [Next]_vars => TypeOK'
  <2> SUFFICES ASSUME TypeOK, [Next]_vars PROVE TypeOK'
    OBVIOUS
  <2> USE DEF TypeOK, Pcs, Goto, disk
  <2>1. CASE UNCHANGED vars BY <2>1 DEF vars
  <2>2. CASE PowerLoss
    <3> PICK n \in synced..Len(log) :
          log' = SubSeq(log, 1, n) /\ torn' \in BOOLEAN /\ synced' = n
      BY <2>2 DEF PowerLoss
    <3>1. log' \in Seq(Records) /\ Len(log') = n
      <4>1. \A m \in 1..n : log[m] \in Records OBVIOUS
      <4> QED BY <4>1, SubSeqProperties
    <3> QED BY <2>2, <3>1, ZeroType DEF PowerLoss
  <2>3. ASSUME NEW w \in Writers, Open(w) PROVE TypeOK'
    BY <2>3, TailType DEF Open, OpenBegin, OpenLock, OpenRead, OpenFails
  <2>4. ASSUME NEW w \in Writers, AppendEvent(w) PROVE TypeOK'
    <3>1. CASE AppendBegin(w) \/ AppendLock(w) \/ AppendRefused(w) \/ AppendTorn(w) \/ AppendFails(w)
      BY <3>1 DEF AppendBegin, AppendLock, AppendRefused, AppendTorn, AppendFails
    <3>2. CASE AppendCheck(w)
      <4>1. last' \in [Writers -> Hashes] BY <3>2, TailType DEF AppendCheck
      <4> QED BY <3>2, <4>1 DEF AppendCheck
    <3>3. CASE AppendWrite(w) BY <3>3 DEF AppendWrite, Records
    <3>4. CASE AppendSync(w) BY <3>4, TailType DEF AppendSync
    <3> QED BY <2>4, <3>1, <3>2, <3>3, <3>4 DEF AppendEvent
  <2>5. ASSUME NEW w \in Writers, Close(w) PROVE TypeOK'
    <3>1. torn' \in BOOLEAN
      <4>1. torn' = torn \/ torn' = TRUE BY <2>5 DEF Close
      <4> QED BY <4>1
    <3> QED BY <2>5, <3>1, ZeroType DEF Close
  <2> QED BY <2>1, <2>2, <2>3, <2>4, <2>5 DEF Next
<1> QED BY <1>1, <1>2, PTL DEF Spec

----------------------------------------------------------------------------
(***************************************************************************)
(* Hashes and what they cover.                                             *)
(***************************************************************************)
LEMMA CoveredType ==
  ASSUME log \in Seq(Records), NEW n \in 0..Len(log)
  PROVE  Covered(n) \in Hashes /\ Len(Covered(n)) = n
<1>1. \A m \in 1..n : log[m].event \in Events
  <2>1. \A m \in 1..n : log[m] \in Records OBVIOUS
  <2> QED BY <2>1 DEF Records
<1>2. Covered(n) \in [1..n -> Events] BY <1>1 DEF Covered
<1>3. Covered(n) \in Hashes BY <1>2, SeqDef DEF Hashes
<1>4. DOMAIN Covered(n) = 1..n BY DEF Covered
<1>5. Len(Covered(n)) \in Nat /\ DOMAIN Covered(n) = 1..Len(Covered(n))
  BY <1>3, LenProperties DEF Hashes
<1> QED BY <1>3, <1>4, <1>5

\* The hash of the n-th record covers the first n events.
LEMMA HashCovers ==
  ASSUME log \in Seq(Records), PrefixInv, NEW n \in DOMAIN log
  PROVE  HashOf(log[n]) = Covered(n)
<1>1. log[n] \in Records /\ n \in 1..Len(log) OBVIOUS
<1>2. log[n].prev = Covered(n - 1) BY DEF PrefixInv
<1>3. Covered(n) = Append(Covered(n - 1), log[n].event)
  <2>1. Covered(n - 1) \in Hashes /\ Len(Covered(n - 1)) = n - 1 BY <1>1, CoveredType
  <2>2. Covered(n) \in Hashes /\ Len(Covered(n)) = n BY <1>1, CoveredType
  <2>3. \A m \in 1..n : Covered(n)[m] = Append(Covered(n - 1), log[n].event)[m]
    BY <1>1, <2>1 DEF Covered, Hashes
  <2> QED BY <1>1, <2>1, <2>2, <2>3 DEF Hashes, Records
<1> QED BY <1>2, <1>3 DEF HashOf

LEMMA TailCovers ==
  ASSUME log \in Seq(Records), PrefixInv
  PROVE  TailHash = Covered(Len(log)) /\ Len(TailHash) = Len(log)
<1>1. CASE log = << >>
  BY <1>1 DEF TailHash, ZeroHash, Covered
<1>2. CASE log # << >>
  <2>1. Len(log) \in DOMAIN log BY <1>2
  <2> QED BY <1>2, <2>1, HashCovers, CoveredType DEF TailHash
<1> QED BY <1>1, <1>2

----------------------------------------------------------------------------
(***************************************************************************)
(* The three ways the file changes.                                        *)
(***************************************************************************)
\* Only AppendWrite adds a record and only PowerLoss takes some away.
LEMMA LogSteps ==
  ASSUME NEW w \in Writers, Step(w)
  PROVE  AppendWrite(w) \/ UNCHANGED log
BY DEF Step, Open, OpenBegin, OpenLock, OpenRead, OpenFails, AppendEvent, AppendBegin, AppendLock,
       AppendRefused, AppendCheck, AppendTorn, AppendSync, AppendFails, Close, disk

\* The log after a record was added.
LEMMA Written ==
  ASSUME TypeOK, NEW w \in Writers, AppendWrite(w)
  PROVE  \E e \in Events :
           LET r == [event |-> e, prev |-> last[w]] IN
           /\ r \in Records
           /\ log' = Append(log, r)
           /\ log' \in Seq(Records)
           /\ Len(log') = Len(log) + 1
           /\ log' # << >>
           /\ \A n \in 1..Len(log) : log'[n] = log[n]
           /\ log'[Len(log) + 1] = r
<1>1. PICK e \in Events : log' = Append(log, [event |-> e, prev |-> last[w]])
  BY DEF AppendWrite
<1> DEFINE r == [event |-> e, prev |-> last[w]]
<1>2. r \in Records BY DEF TypeOK, Records
<1>3. log \in Seq(Records) BY DEF TypeOK
<1> QED BY <1>1, <1>2, <1>3, AppendProperties

\* The log after power was lost.
LEMMA Lost ==
  ASSUME TypeOK, PowerLoss
  PROVE  \E n \in synced..Len(log) :
           /\ synced' = n
           /\ log' = SubSeq(log, 1, n)
           /\ log' \in Seq(Records)
           /\ Len(log') = n
           /\ \A m \in 1..n : log'[m] = log[m]
<1>1. PICK n \in synced..Len(log) : log' = SubSeq(log, 1, n) /\ synced' = n
  BY DEF PowerLoss
<1>2. log \in Seq(Records) /\ n \in Nat BY DEF TypeOK
<1>3. \A m \in 1..n : log[m] \in Records BY <1>2
<1>4. log' \in Seq(Records) /\ Len(log') = n /\ \A m \in 1..n : log'[m] = log[m]
  BY <1>1, <1>2, <1>3, SubSeqProperties
<1> QED BY <1>1, <1>4

\* The hash of every record covers exactly the events before it.
LEMMA PrefixStep ==
  ASSUME AuditInv, Next
  PROVE  PrefixInv'
<1> USE DEF AuditInv
<1>1. CASE PowerLoss
  <2> PICK n \in synced..Len(log) : Len(log') = n /\ \A m \in 1..n : log'[m] = log[m]
    BY <1>1, Lost
  <2>1. n \in 0..Len(log) /\ DOMAIN log' = 1..n
    BY <1>1, Lost DEF TypeOK
  <2>2. \A m \in 1..n : Covered(m - 1)' = Covered(m - 1)
    BY <2>1 DEF Covered
  <2> QED BY <2>1, <2>2 DEF PrefixInv, TypeOK
<1>2. ASSUME NEW w \in Writers, AppendWrite(w) PROVE PrefixInv'
  <2>1. PICK e \in Events : /\ log' \in Seq(Records)
                            /\ Len(log') = Len(log) + 1
                            /\ \A n \in 1..Len(log) : log'[n] = log[n]
                            /\ log'[Len(log) + 1] = [event |-> e, prev |-> last[w]]
    BY <1>2, Written
  <2>2. last[w] = Covered(Len(log))
    BY <1>2, TailCovers DEF AppendWrite, Goto, WriteInv, TypeOK
  <2>3. \A n \in 0..Len(log) : Covered(n)' = Covered(n)
    BY <2>1 DEF Covered, TypeOK
  <2>4. \A n \in DOMAIN log' : n \in 1..Len(log) \/ n = Len(log) + 1
    BY <2>1 DEF TypeOK
  <2>5. ASSUME NEW n \in DOMAIN log' PROVE log'[n].prev = Covered(n - 1)'
    <3>1. CASE n \in 1..Len(log)
      BY <2>1, <2>3, <3>1 DEF PrefixInv, TypeOK
    <3>2. CASE n = Len(log) + 1
      BY <2>1, <2>2, <2>3, <3>2 DEF TypeOK
    <3> QED BY <2>4, <3>1, <3>2
  <2> QED BY <2>5 DEF PrefixInv
<1>3. CASE UNCHANGED log BY <1>3 DEF PrefixInv, Covered
<1> QED BY <1>1, <1>2, <1>3, LogSteps DEF Next, Step

----------------------------------------------------------------------------
(***************************************************************************)
(* The lock and the writers.                                               *)
(***************************************************************************)
LEMMA LockStep ==
  ASSUME AuditInv, Next
  PROVE  LockInv'
<1> USE DEF AuditInv, TypeOK, LockInv, Exclusive, Shared, Goto
<1>1. CASE PowerLoss BY <1>1 DEF PowerLoss
<1>2. ASSUME NEW w \in Writers, Open(w) PROVE LockInv'
  BY <1>2 DEF Open, OpenBegin, OpenLock, OpenRead, OpenFails
<1>3. ASSUME NEW w \in Writers, AppendEvent(w) PROVE LockInv'
  BY <1>3 DEF AppendEvent, AppendBegin, AppendLock, AppendRefused, AppendCheck, AppendWrite,
              AppendTorn, AppendSync, AppendFails
<1>4. ASSUME NEW w \in Writers, Close(w) PROVE LockInv' BY <1>4 DEF Close
<1> QED BY <1>1, <1>2, <1>3, <1>4 DEF Next

\* Nobody else touches the file while a writer is between its check and its sync.
LEMMA WriterAlone ==
  ASSUME AuditInv, NEW w \in Writers, Step(w), NEW v \in Writers, v # w, Exclusive(v)
  PROVE  UNCHANGED <<log, torn, synced>> /\ pc'[v] = pc[v] /\ last'[v] = last[v]
<1> USE DEF AuditInv, TypeOK, LockInv, Exclusive, Shared, Goto, disk
<1>1. ~Exclusive(w) OBVIOUS
<1>2. CASE Open(w)
  BY <1>2 DEF Open, OpenBegin, OpenLock, OpenRead, OpenFails
<1>3. CASE AppendEvent(w)
  BY <1>1, <1>3 DEF AppendEvent, AppendBegin, AppendLock, AppendRefused, AppendCheck, AppendWrite,
                    AppendTorn, AppendSync, AppendFails
<1>4. CASE Close(w) BY <1>1, <1>4 DEF Close
<1> QED BY <1>2, <1>3, <1>4 DEF Step

\* A writer that has passed its check knows where the log ends.
LEMMA WriteStep ==
  ASSUME AuditInv, Next
  PROVE  WriteInv'
<1> USE DEF AuditInv, TypeOK, Goto, disk
<1>1. CASE PowerLoss BY <1>1 DEF PowerLoss, WriteInv
<1>2. ASSUME NEW w \in Writers, Step(w), NEW v \in Writers
      PROVE  /\ pc'[v] = "app_write" => ~torn' /\ last'[v] = TailHash'
             /\ pc'[v] = "app_sync" => log' # << >> /\ last'[v] = TailPrev'
  <2>1. CASE v # w /\ Exclusive(v)
    BY <1>2, <2>1, WriterAlone DEF WriteInv, TailHash, TailPrev
  <2>2. CASE v # w /\ ~Exclusive(v)
    <3>1. pc'[v] = pc[v]
      BY <1>2, <2>2 DEF Step, Open, OpenBegin, OpenLock, OpenRead, OpenFails, AppendEvent,
                        AppendBegin, AppendLock, AppendRefused, AppendCheck, AppendWrite,
                        AppendTorn, AppendSync, AppendFails, Close
    <3> QED BY <2>2, <3>1 DEF Exclusive
  <2>3. CASE v = w
    <3>1. CASE AppendCheck(w)
      BY <2>3, <3>1 DEF AppendCheck, TailHash, TailPrev
    <3>2. CASE AppendWrite(w)
      <4>1. PICK e \in Events : /\ log' # << >>
                                /\ Len(log') = Len(log) + 1
                                /\ log'[Len(log) + 1] = [event |-> e, prev |-> last[w]]
        BY <3>2, Written
      <4>2. pc'[w] = "app_sync" /\ last'[w] = last[w] BY <3>2 DEF AppendWrite
      <4> QED BY <2>3, <4>1, <4>2 DEF TailPrev
    <3>3. CASE pc'[w] \notin {"app_write", "app_sync"} BY <2>3, <3>3
    <3>4. AppendCheck(w) \/ AppendWrite(w) \/ pc'[w] \notin {"app_write", "app_sync"}
      BY <1>2 DEF Step, Open, OpenBegin, OpenLock, OpenRead, OpenFails, AppendEvent,
                  AppendBegin, AppendLock, AppendRefused, AppendTorn, AppendSync, AppendFails, Close
    <3> QED BY <3>1, <3>2, <3>3, <3>4
  <2> QED BY <2>1, <2>2, <2>3
<1> QED BY <1>1, <1>2 DEF Next, Step, WriteInv

\* No handle knows of more records than there are.
LEMMA KnownStep ==
  ASSUME AuditInv, Next
  PROVE  KnownInv'
<1> USE DEF AuditInv, TypeOK, Goto, disk
<1>1. CASE PowerLoss
  <2>1. PICK n \in synced..Len(log) : Len(log') = n BY <1>1, Lost
  <2>2. n >= 0 OBVIOUS
  <2> QED BY <1>1, <2>1, <2>2, ZeroType DEF PowerLoss, KnownInv
<1>2. ASSUME NEW w \in Writers, Step(w) PROVE KnownInv'
  <2>1. Len(log') \in Nat /\ Len(log') >= Len(log)
    <3>1. log \in Seq(Records) /\ Len(log) \in Nat BY LenProperties
    <3>2. CASE AppendWrite(w)
      <4>1. Len(log') = Len(log) + 1 BY <3>2, Written
      <4> QED BY <3>1, <4>1
    <3>3. CASE UNCHANGED log BY <3>1, <3>3
    <3> QED BY <1>2, <3>2, <3>3, LogSteps
  <2>2. last' = last \/ (UNCHANGED log /\ \E h \in {TailHash, ZeroHash} : last' = [last EXCEPT ![w] = h])
    BY <1>2 DEF Step, Open, OpenBegin, OpenLock, OpenRead, OpenFails, AppendEvent,
                AppendBegin, AppendLock, AppendRefused, AppendCheck, AppendWrite,
                AppendTorn, AppendSync, AppendFails, Close
  <2>3. Len(TailHash) = Len(log) BY TailCovers
  <2>4. \A v \in Writers : last[v] \in Hashes /\ Len(last[v]) \in Nat /\ Len(last[v]) <= Len(log)
    BY LenProperties DEF KnownInv, Hashes
  <2>5. CASE last' = last BY <2>1, <2>4, <2>5 DEF KnownInv
  <2>6. ASSUME UNCHANGED log, NEW h \in {TailHash, ZeroHash}, last' = [last EXCEPT ![w] = h]
        PROVE  KnownInv'
    <3>1. Len(h) <= Len(log) BY <2>1, <2>3, ZeroType
    <3> QED BY <2>4, <2>6, <3>1 DEF KnownInv
  <2> QED BY <2>2, <2>5, <2>6
<1> QED BY <1>1, <1>2 DEF Next, Step

\* What was acknowledged is in its place and durable.
LEMMA AckedStep ==
  ASSUME AuditInv, Next
  PROVE  AckedKept'
<1> USE DEF AuditInv, TypeOK, Goto, disk
<1>1. CASE PowerLoss
  <2>1. PICK n \in synced..Len(log) : synced' = n /\ Len(log') = n /\ \A m \in 1..n : log'[m] = log[m]
    BY <1>1, Lost
  <2>2. acked' = acked BY <1>1 DEF PowerLoss
  <2> QED BY <2>1, <2>2 DEF AckedKept, HashOf
<1>2. ASSUME NEW w \in Writers, Step(w) PROVE AckedKept'
  <2>1. CASE AppendWrite(w)
    <3>1. \A n \in 1..Len(log) : log'[n] = log[n] BY <2>1, Written
    <3>2. UNCHANGED <<acked, synced>> BY <2>1 DEF AppendWrite
    <3> QED BY <3>1, <3>2 DEF AckedKept, HashOf
  <2>2. CASE AppendSync(w)
    <3>1. synced' = Len(log) /\ log' = log /\ (acked' = acked \union {TailHash} \/ acked' = acked)
      BY <2>2 DEF AppendSync
    <3>2. log # << >> BY <2>2 DEF AppendSync, WriteInv
    <3>3. Len(log) \in 1..Len(log) BY <3>2
    <3>4. Len(TailHash) = Len(log) /\ TailHash = HashOf(log[Len(log)])
      BY <3>2, TailCovers DEF TailHash
    <3>5. ASSUME NEW h \in acked' PROVE Len(h) \in 1..synced' /\ HashOf(log'[Len(h)]) = h
      <4>1. CASE h \in acked BY <3>1, <4>1 DEF AckedKept
      <4>2. CASE h = TailHash BY <3>1, <3>3, <3>4, <4>2
      <4> QED BY <3>1, <3>5, <4>1, <4>2
    <3> QED BY <3>5 DEF AckedKept, HashOf
  <2>3. CASE UNCHANGED <<log, acked, synced>> BY <2>3 DEF AckedKept, HashOf
  <2> QED
    BY <1>2, <2>1, <2>2, <2>3
    DEF Step, Open, OpenBegin, OpenLock, OpenRead, OpenFails, AppendEvent, AppendBegin, AppendLock,
        AppendRefused, AppendCheck, AppendTorn, AppendFails, Close
<1> QED BY <1>1, <1>2 DEF Next, Step

(* AuditInv holds in every reachable state.                                *)
THEOREM Invariant == Spec => []AuditInv
<1>1. Init => PrefixInv /\ LockInv /\ WriteInv /\ KnownInv /\ AckedKept
  <2> SUFFICES ASSUME Init PROVE PrefixInv /\ LockInv /\ WriteInv /\ KnownInv /\ AckedKept
    OBVIOUS
  <2>1. PrefixInv
    <3>1. DOMAIN log = {} BY DEF Init
    <3> QED BY <3>1 DEF PrefixInv
  <2>2. LockInv /\ WriteInv BY DEF Init, LockInv, WriteInv, Exclusive, Shared
  <2>3. KnownInv
    <3>1. log = ZeroHash /\ \A w \in Writers : last[w] = ZeroHash BY DEF Init, ZeroHash
    <3>2. Len(log) = 0 /\ \A w \in Writers : Len(last[w]) = 0 BY <3>1, ZeroType
    <3>3. \A w \in Writers : Len(last[w]) <= Len(log)
      <4> TAKE w \in Writers
      <4>1. Len(last[w]) = 0 /\ Len(log) = 0 BY <3>2
      <4> QED BY <4>1, 0 <= 0
    <3> QED BY <3>3 DEF KnownInv
  <2>4. AckedKept BY DEF Init, AckedKept
  <2> QED BY <2>1, <2>2, <2>3, <2>4
<1>2. AuditInv /\ [Next]_vars => (PrefixInv /\ LockInv /\ WriteInv /\ KnownInv /\ AckedKept)'
  <2> SUFFICES ASSUME AuditInv, [Next]_vars
               PROVE  (PrefixInv /\ LockInv /\ WriteInv /\ KnownInv /\ AckedKept)'
    OBVIOUS
  <2>1. CASE UNCHANGED vars
    BY <2>1 DEF vars, AuditInv, PrefixInv, Covered, LockInv, Exclusive, Shared, WriteInv, TailHash,
                TailPrev, KnownInv, AckedKept, HashOf
  <2>2. CASE Next BY <2>2, PrefixStep, LockStep, WriteStep, KnownStep, AckedStep
  <2> QED BY <2>1, <2>2
<1> QED BY <1>1, <1>2, TypeCorrect, PTL DEF Spec, AuditInv

----------------------------------------------------------------------------
(***************************************************************************)
(* The properties.                                                         *)
(***************************************************************************)
(* The file is one chain, whatever writers interleave, fail or die.        *)
THEOREM OneChain == Spec => []ChainValid
<1>1. AuditInv => ChainValid
  <2> SUFFICES ASSUME AuditInv, NEW n \in DOMAIN log
               PROVE  log[n].prev = IF n = 1 THEN ZeroHash ELSE HashOf(log[n - 1])
    BY DEF ChainValid, Chained
  <2> USE DEF AuditInv, TypeOK
  <2>1. log[n].prev = Covered(n - 1) BY DEF PrefixInv
  <2>2. CASE n = 1
    <3>1. Covered(0) = << >> BY DEF Covered
    <3> QED BY <2>1, <2>2, <3>1 DEF ZeroHash
  <2>3. CASE n # 1
    <3>1. n - 1 \in DOMAIN log BY <2>3
    <3> QED BY <2>1, <2>3, <3>1, HashCovers
  <2> QED BY <2>2, <2>3
<1> QED BY <1>1, Invariant, PTL

(* An append that returned its event stays at its place in the chain, and  *)
(* survives every crash, and every power loss that leaves the file its     *)
(* name in the directory.                                                  *)
THEOREM AckedDurable == Spec => []AckedKept
<1>1. AuditInv => AckedKept BY DEF AuditInv
<1> QED BY <1>1, Invariant, PTL

(* Nothing is ever appended after an unterminated record.                  *)
THEOREM TornStays == Spec => TornNeverExtended
<1> DEFINE Kept == torn => Len(log') <= Len(log)
<1>1. AuditInv /\ [Next]_vars => [Kept]_vars
  <2> SUFFICES ASSUME AuditInv, Next, torn PROVE Len(log') <= Len(log)
    OBVIOUS
  <2>0. Len(log) \in Nat BY LenProperties DEF AuditInv, TypeOK
  <2>1. CASE PowerLoss
    <3>1. PICK n \in synced..Len(log) : Len(log') = n BY <2>1, Lost DEF AuditInv
    <3> QED BY <2>0, <3>1 DEF AuditInv, TypeOK
  <2>2. ASSUME NEW w \in Writers, Step(w) PROVE UNCHANGED log
    <3>1. ~AppendWrite(w) BY DEF AppendWrite, Goto, AuditInv, WriteInv
    <3> QED BY <2>2, <3>1, LogSteps
  <2> QED BY <2>0, <2>1, <2>2 DEF Next, Step
<1> QED BY <1>1, Invariant, PTL DEF Spec, TornNeverExtended

\* A handle that missed more than one record stays refused until reopened.
LEMMA StaleStays ==
  ASSUME AuditInv, Next, NEW w \in Writers, Stale(w), IsOpen(w)'
  PROVE  TailHash' # last'[w] /\ TailPrev' # last'[w]
<1> USE DEF AuditInv, TypeOK, Stale, IsOpen, Goto, disk
<1>1. ~PowerLoss BY DEF PowerLoss
<1>2. PICK v \in Writers : Step(v) BY <1>1 DEF Next, Step
<1>3. last'[w] = last[w]
  BY <1>2 DEF Step, Open, OpenBegin, OpenLock, OpenRead, OpenFails, AppendEvent, AppendBegin,
              AppendLock, AppendRefused, AppendCheck, AppendWrite, AppendTorn, AppendSync,
              AppendFails, Close, WriteInv
<1>4. CASE UNCHANGED log BY <1>3, <1>4 DEF TailHash, TailPrev
<1>5. CASE AppendWrite(v)
  <2>1. PICK e \in Events : /\ log' \in Seq(Records) /\ log' # << >>
                            /\ Len(log') = Len(log) + 1
                            /\ log'[Len(log) + 1] = [event |-> e, prev |-> last[v]]
    BY <1>5, Written
  <2>2. last[v] = TailHash BY <1>5 DEF AppendWrite, WriteInv
  <2>3. TailPrev' = TailHash BY <2>1, <2>2 DEF TailPrev
  <2>4. TailHash' = HashOf([event |-> e, prev |-> last[v]]) BY <2>1 DEF TailHash, HashOf
  <2>5. Len(TailHash') = Len(log) + 1
    <3>1. [event |-> e, prev |-> last[v]] \in Records BY DEF Records
    <3>2. Len(TailHash) = Len(log) BY TailCovers
    <3> QED BY <2>2, <2>4, <3>1, <3>2, HashOfType
  <2>6. Len(last[w]) <= Len(log) /\ Len(log) \in Nat BY LenProperties DEF KnownInv
  <2>7. TailHash' # last[w] BY <2>5, <2>6
  <2> QED BY <1>3, <2>3, <2>7
<1> QED BY <1>2, <1>4, <1>5, LogSteps

\* A handle that was not stale, and is now, was overtaken by another one.
LEMMA StaleByOthers ==
  ASSUME AuditInv, Next, NEW w \in Writers, ~Stale(w), IsOpen(w)', Stale(w)'
  PROVE  \E v \in Writers \ {w} : pc[v] = "app_write" /\ log' # log
<1> USE DEF AuditInv, TypeOK, IsOpen, Goto, disk
<1>1. IsOpen(w) => TailHash = last[w] \/ TailPrev = last[w]
  BY DEF Stale
<1>2. ~PowerLoss BY DEF PowerLoss
<1>3. PICK v \in Writers : Step(v) BY <1>2 DEF Next, Step
<1>4. CASE AppendWrite(v)
  <2>1. PICK e \in Events : /\ log' # << >> /\ Len(log') = Len(log) + 1
                            /\ log'[Len(log) + 1] = [event |-> e, prev |-> last[v]]
    BY <1>4, Written
  <2>2. log' # log
    <3>1. Len(log) \in Nat BY LenProperties
    <3> QED BY <2>1, <3>1
  <2>3. CASE v = w
    <3>1. last'[w] = last[w] BY <1>4, <2>3 DEF AppendWrite
    <3>2. TailPrev' = last[w] BY <2>1, <2>3 DEF TailPrev
    <3> QED BY <3>1, <3>2 DEF Stale
  <2>4. CASE v # w BY <1>4, <2>2, <2>4 DEF AppendWrite
  <2> QED BY <2>3, <2>4
<1>5. CASE UNCHANGED log /\ (last'[w] = TailHash \/ (IsOpen(w) /\ last'[w] = last[w]))
  BY <1>1, <1>5 DEF Stale, TailHash, TailPrev
<1> QED
  BY <1>3, <1>4, <1>5
  DEF Step, Open, OpenBegin, OpenLock, OpenRead, OpenFails, AppendEvent, AppendBegin, AppendLock,
      AppendRefused, AppendCheck, AppendTorn, AppendSync, AppendFails, Close

(* A handle becomes stale only because another one has appended, and stays *)
(* so until the log is opened again.                                       *)
THEOREM StaleIsOvertaken == Spec => StaleMeansOvertaken
<1> DEFINE Kept == \A w \in Writers : IsOpen(w)' =>
      /\ Stale(w) => Stale(w)'
      /\ Stale(w)' /\ ~Stale(w) =>
           \E v \in Writers \ {w} : pc[v] = "app_write" /\ log' # log
<1>1. AuditInv /\ [Next]_vars => [Kept]_vars
  <2> SUFFICES ASSUME AuditInv, Next, NEW w \in Writers, IsOpen(w)'
               PROVE  /\ Stale(w) => Stale(w)'
                      /\ Stale(w)' /\ ~Stale(w) =>
                           \E v \in Writers \ {w} : pc[v] = "app_write" /\ log' # log
    OBVIOUS
  <2>1. Stale(w) => Stale(w)'
    BY StaleStays DEF Stale
  <2> QED BY <2>1, StaleByOthers
<1> QED BY <1>1, Invariant, PTL DEF Spec, StaleMeansOvertaken

(* The log implements the append-only trail of AuditTrail, on the same     *)
(* assumption.                                                             *)
THEOREM Refinement == Spec => ImplementsTrail
<1> DEFINE chain == [n \in DOMAIN log |-> log[n].event]
<1>1. Init => Trail!Init
  BY DEF Init, Trail!Init
<1>2. AuditInv /\ AuditInv' /\ [Next]_vars => [Trail!Next]_(Trail!vars)
  <2> SUFFICES ASSUME AuditInv, AuditInv', [Next]_vars
               PROVE  Trail!Next \/ UNCHANGED Trail!vars
    OBVIOUS
  <2> USE DEF AuditInv, TypeOK, Goto, disk
  <2>0. chain \in Seq(Events) /\ Len(chain) = Len(log) /\ chain = TailHash
    <3>1. chain = Covered(Len(log)) BY DEF Covered
    <3> QED BY <3>1, TailCovers, CoveredType DEF Hashes
  <2>1. CASE UNCHANGED <<log, acked>> BY <2>1 DEF Trail!vars
  <2>2. CASE PowerLoss
    <3>1. PICK n \in synced..Len(log) : /\ synced' = n
                                        /\ log' = SubSeq(log, 1, n)
                                        /\ log' \in Seq(Records) /\ Len(log') = n
                                        /\ \A m \in 1..n : log'[m] = log[m]
      BY <2>2, Lost
    <3>2. n \in 0..Len(chain) BY <2>0, <3>1
    <3>3. chain' = SubSeq(chain, 1, n) BY <2>0, <3>1, <3>2, SubSeqProperties
    <3>4. acked' = acked BY <2>2 DEF PowerLoss
    <3>5. ASSUME NEW p \in acked PROVE Len(p) <= n /\ p = SubSeq(chain', 1, Len(p))
      <4> DEFINE k == Len(p)
      <4>1. k \in 1..n /\ k \in DOMAIN log /\ p = HashOf(log[k]) BY <3>1 DEF AckedKept
      <4>2. p = Covered(k) BY <4>1, HashCovers
      <4>3. \A m \in 1..k : chain'[m] = p[m] /\ p[m] \in Events
        BY <3>1, <4>1, <4>2, CoveredType DEF Covered, Hashes
      <4>4. p \in Seq(Events) BY DEF Hashes
      <4> HIDE DEF chain
      <4>5. /\ SubSeq(chain', 1, k) \in Seq(Events)
            /\ Len(SubSeq(chain', 1, k)) = Len(p)
            /\ \A m \in 1..Len(p) : SubSeq(chain', 1, k)[m] = p[m]
        BY <4>1, <4>3, SubSeqProperties
      <4>6. Len(p) <= n BY <4>1
      <4> QED BY <4>4, <4>5, <4>6, SeqEqual
    <3> QED BY <3>2, <3>3, <3>4, <3>5 DEF Trail!Next, Trail!Lose
  <2>3. ASSUME NEW w \in Writers, AppendWrite(w) PROVE Trail!Next
    <3>1. PICK e \in Events : /\ log' \in Seq(Records) /\ Len(log') = Len(log) + 1
                              /\ \A n \in 1..Len(log) : log'[n] = log[n]
                              /\ log'[Len(log) + 1] = [event |-> e, prev |-> last[w]]
      BY <2>3, Written
    <3>2. chain' = Append(chain, e)
      <4>1. DOMAIN log' = 1..(Len(log) + 1) /\ DOMAIN log = 1..Len(log) BY <3>1
      <4>2. chain' = [n \in 1..(Len(log) + 1) |-> IF n <= Len(log) THEN log[n].event ELSE e]
        BY <3>1, <4>1
      <4> HIDE DEF chain
      <4>3. \A n \in 1..Len(log) : chain[n] = log[n].event BY <4>1 DEF chain
      <4>4. chain' \in Seq(Events) /\ Len(chain') = Len(log) + 1
        <5>1. chain' \in [1..(Len(log) + 1) -> Events]
          <6>1. \A n \in 1..Len(log) : log[n].event \in Events
            <7>1. \A n \in 1..Len(log) : log[n] \in Records OBVIOUS
            <7> QED BY <7>1 DEF Records
          <6> QED BY <4>2, <6>1
        <5>2. Len(log) + 1 \in Nat OBVIOUS
        <5>3. chain' \in Seq(Events) BY <5>1, <5>2, SeqDef
        <5> QED BY <5>1, <5>2, <5>3, LenProperties
      <4>5. Append(chain, e) \in Seq(Events) /\ Len(Append(chain, e)) = Len(log) + 1
        BY <2>0, AppendProperties
      <4>6. \A n \in 1..(Len(log) + 1) : chain'[n] = Append(chain, e)[n]
        BY <2>0, <4>2, <4>3, AppendProperties
      <4> QED BY <4>4, <4>5, <4>6, SeqEqual
    <3>3. acked' = acked BY <2>3 DEF AppendWrite
    <3> QED BY <3>2, <3>3 DEF Trail!Next, Trail!Extend
  <2>4. ASSUME NEW w \in Writers, AppendSync(w) PROVE Trail!Next \/ UNCHANGED Trail!vars
    BY <2>0, <2>4 DEF AppendSync, Trail!Next, Trail!Promise, Trail!vars
  <2> QED
    BY <2>1, <2>2, <2>3, <2>4
    DEF Next, vars, Open, OpenBegin, OpenLock, OpenRead, OpenFails, AppendEvent, AppendBegin,
        AppendLock, AppendRefused, AppendCheck, AppendTorn, AppendFails, Close
<1> QED BY <1>1, <1>2, Invariant, PTL DEF Spec, ImplementsTrail, Trail!Spec
=============================================================================
