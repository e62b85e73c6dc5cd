---------------------------- MODULE VaultProofs ----------------------------
(***************************************************************************)
(* Proofs about Vault, for every set of instances, blobs and values and    *)
(* every bound: type correctness, and under one owner the invariant IInv   *)
(* and the safety properties it implies.                                   *)
(***************************************************************************)
EXTENDS Vault, TLAPS

USE VaultAssumption

\* remove_dir_all of a generation keeps the directory's type.
LEMMA RemoveGenerationType ==
  ASSUME DiskTypeOK, NEW g \in Gens, RemoveGeneration(g)
  PROVE  DiskTypeOK'
BY DEF DiskTypeOK, RemoveGeneration, FilesOf, disk, Gens, Keys, NoKey, NoDb, DbStates

\* Dropping a handle keeps the types.
LEMMA DropType ==
  ASSUME TypeOK, NEW i \in Instances, Drop(i)
  PROVE  TypeOK'
BY DEF TypeOK, DiskTypeOK, Drop, SetLock, disk, Gens, Keys, Root, Pcs

(* Every action leaves the variables of Vault in their types.              *)
THEOREM TypeCorrect == Spec => []TypeOK
<1> USE DEF Gens, Root, First, NoPointer, Keys, NoKey, Files, NoDb, DbStates, Arg,
            Pcs, CreatePcs, OpenPcs, SessionPcs, RotatePcs, HoldSharedPcs,
            disk, handle, vars, Goto, SetLock
<1>1. Init => TypeOK
  BY DEF Init, TypeOK, DiskTypeOK
<1>2. TypeOK /\ [Next]_vars => TypeOK'
  <2> SUFFICES ASSUME TypeOK, [Next]_vars PROVE TypeOK'
    OBVIOUS
  <2>1. CASE UNCHANGED vars
    BY <2>1 DEF TypeOK, DiskTypeOK
  <2>2. ASSUME NEW i \in Instances, Create(i) PROVE TypeOK'
    <3>1. CASE CreateLock(i) BY <3>1 DEF CreateLock, TypeOK, DiskTypeOK
    <3>2. CASE CreateRefused(i) BY <3>2, DropType DEF CreateRefused
    <3>3. CASE CreateDirs(i) BY <3>3 DEF CreateDirs, TypeOK, DiskTypeOK
    <3>4. CASE CreateKeyState(i) BY <3>4 DEF CreateKeyState, TypeOK, DiskTypeOK
    <3>5. CASE CreateConfig(i) BY <3>5 DEF CreateConfig, TypeOK, DiskTypeOK
    <3>6. CASE CreatePublish(i) BY <3>6 DEF CreatePublish, TypeOK, DiskTypeOK
    <3>7. CASE CreateFails(i) BY <3>7, DropType DEF CreateFails
    <3> QED BY <2>2, <3>1, <3>2, <3>3, <3>4, <3>5, <3>6, <3>7 DEF Create
  <2>3. ASSUME NEW i \in Instances, Open(i) PROVE TypeOK'
    <3>1. CASE OpenBegin(i) BY <3>1 DEF OpenBegin, TypeOK, DiskTypeOK
    <3>2. CASE OpenLock(i) BY <3>2 DEF OpenLock, TypeOK, DiskTypeOK
    <3>3. CASE OpenRead(i) BY <3>3 DEF OpenRead, Openable, ActiveGen, TypeOK, DiskTypeOK
    <3>4. CASE OpenFails(i) BY <3>4, DropType DEF OpenFails
    <3> QED BY <2>3, <3>1, <3>2, <3>3, <3>4 DEF Open
  <2>4. ASSUME NEW i \in Instances, WriteBlob(i) PROVE TypeOK'
    <3>1. CASE BlobBegin(i) BY <3>1 DEF BlobBegin, TypeOK, DiskTypeOK
    <3>2. CASE BlobPublish(i) BY <3>2 DEF BlobPublish, TypeOK, DiskTypeOK
    <3>3. CASE BlobFails(i) BY <3>3 DEF BlobFails, TypeOK, DiskTypeOK
    <3> QED BY <2>4, <3>1, <3>2, <3>3 DEF WriteBlob
  <2>5. ASSUME NEW i \in Instances, WriteDb(i) PROVE TypeOK'
    <3>1. CASE DbBegin(i) BY <3>1 DEF DbBegin, TypeOK, DiskTypeOK
    <3>2. CASE DbEnd(i)
      <4>1. db' \in [Gens -> DbStates]
        <5> DEFINE d == [state |-> "whole", key |-> dek[i]]
        <5>1. d \in DbStates BY DEF TypeOK
        <5>2. db' = db \/ db' = [db EXCEPT ![gen[i]] = d] BY <3>2 DEF DbEnd
        <5> QED BY <5>1, <5>2 DEF TypeOK, DiskTypeOK
      <4> QED BY <3>2, <4>1 DEF DbEnd, TypeOK, DiskTypeOK
    <3> QED BY <2>5, <3>1, <3>2 DEF WriteDb
  <2>6. ASSUME NEW i \in Instances, Rotate(i) PROVE TypeOK'
    <3>1. CASE RotateUnlock(i) BY <3>1 DEF RotateUnlock, TypeOK, DiskTypeOK
    <3>2. CASE RotateTryLock(i) BY <3>2 DEF RotateTryLock, TypeOK, DiskTypeOK
    <3>3. CASE RotateInUse(i) BY <3>3 DEF RotateInUse, TypeOK, DiskTypeOK
    <3>4. CASE RotateCopy(i)
      <4>1. fresh \in Gens /\ fresh \in Keys BY <3>4 DEF RotateCopy, TypeOK, DiskTypeOK
      <4>2. files' \subseteq Files
        BY <3>4, <4>1 DEF RotateCopy, FilesInto, FilesOf, TypeOK, DiskTypeOK
      <4>3. /\ db' \in [Gens -> DbStates]
            /\ wrapped' \in [Gens -> Keys \union {NoKey}]
            /\ dir' \in [Gens -> {"none", "stage", "final"}]
        BY <3>4, <4>1 DEF RotateCopy, TypeOK, DiskTypeOK
      <4>4. other' \in [Instances -> Gens] /\ fresh' \in 2..(MaxGen + 1)
        BY <3>4, <4>1 DEF RotateCopy, TypeOK, DiskTypeOK
      <4>5. \A j \in Instances :
              pc'[j] \in {"rot_encrypt", "rot_rename", "rot_publish"} => other'[j] \in Keys
        BY <3>4, <4>1 DEF RotateCopy, TypeOK
      <4>6. DiskTypeOK'
        BY <3>4, <4>2, <4>3 DEF RotateCopy, TypeOK, DiskTypeOK
      <4> QED BY <3>4, <4>4, <4>5, <4>6 DEF RotateCopy, TypeOK
    <3>5. CASE RotateEncrypt(i)
      <4>1. other[i] \in Keys BY <3>5 DEF RotateEncrypt, TypeOK
      <4>2. files' \subseteq Files
        BY <3>5, <4>1 DEF RotateEncrypt, FilesInto, FilesOf, TypeOK, DiskTypeOK
      <4>3. db' \in [Gens -> DbStates]
        <5> DEFINE n == other[i]
                   k == IF Encrypted THEN n ELSE db[n].key
                   d == [state |-> db[n].state,
                         key |-> IF db[n].state = "whole" THEN k ELSE db[n].key]
        <5>1. db[n] \in DbStates BY <4>1 DEF TypeOK, DiskTypeOK
        <5>2. d \in DbStates BY <4>1, <5>1
        <5>3. db' = [db EXCEPT ![n] = d] BY <3>5 DEF RotateEncrypt
        <5> QED BY <5>2, <5>3 DEF TypeOK, DiskTypeOK
      <4> QED BY <3>5, <4>1, <4>2, <4>3 DEF RotateEncrypt, TypeOK, DiskTypeOK
    <3>6. CASE RotateRename(i) BY <3>6 DEF RotateRename, TypeOK, DiskTypeOK
    <3>7. CASE RotatePublish(i) BY <3>7 DEF RotatePublish, TypeOK, DiskTypeOK
    <3>8. CASE RotateRetire(i)
      <4>1. other[i] \in Gens BY DEF TypeOK
      <4>2. DiskTypeOK'
        BY <3>8, <4>1, RemoveGenerationType DEF RotateRetire, TypeOK, DiskTypeOK
      <4> QED BY <3>8, <4>2 DEF RotateRetire, TypeOK
    <3>9. CASE RotateFails(i)
      <4>1. other[i] \in Gens BY DEF TypeOK
      <4>2. DiskTypeOK'
        BY <3>9, <4>1, RemoveGenerationType DEF RotateFails, TypeOK, DiskTypeOK
      <4> QED BY <3>9, <4>2 DEF RotateFails, TypeOK
    <3> QED BY <2>6, <3>1, <3>2, <3>3, <3>4, <3>5, <3>6, <3>7, <3>8, <3>9 DEF Rotate
  <2>7. ASSUME NEW i \in Instances, Relock(i) PROVE TypeOK'
    <3>1. CASE DropExclusive(i) BY <3>1 DEF DropExclusive, TypeOK, DiskTypeOK
    <3>2. CASE HoldShared(i) BY <3>2 DEF HoldShared, TypeOK, DiskTypeOK
    <3>3. CASE HoldSharedFails(i) BY <3>3, DropType DEF HoldSharedFails, TypeOK, DiskTypeOK
    <3> QED BY <2>7, <3>1, <3>2, <3>3 DEF Relock
  <2>8. ASSUME NEW i \in Instances, Close(i) \/ Crash(i) PROVE TypeOK'
    BY <2>8, DropType DEF Close, Crash
  <2> QED BY <2>1, <2>2, <2>3, <2>4, <2>5, <2>6, <2>7, <2>8 DEF Next
<1> QED BY <1>1, <1>2, PTL DEF Spec

----------------------------------------------------------------------------
(***************************************************************************)
(* The lock.                                                               *)
(***************************************************************************)
Step(i) ==
  Create(i) \/ Open(i) \/ WriteBlob(i) \/ WriteDb(i) \/ Rotate(i) \/ Relock(i)
  \/ Close(i) \/ Crash(i)

LEMMA LockDrop ==
  ASSUME TypeOK, LockInv, NEW i \in Instances, Drop(i)
  PROVE  LockInv'
BY DEF TypeOK, LockInv, Drop, SetLock, CreatePcs, RotatePcs, SessionPcs, HoldSharedPcs

\* The lock excludes as it should, and only an owner is ever open without it.
LEMMA LockStep ==
  ASSUME TypeOK, LockInv, NEW i \in Instances, Step(i)
  PROVE  LockInv'
<1> USE DEF TypeOK, CreatePcs, RotatePcs, SessionPcs, HoldSharedPcs, Goto, SetLock
<1>1. CASE Create(i)
  <2>1. CASE CreateRefused(i) \/ CreateFails(i)
    BY <2>1, LockDrop DEF CreateRefused, CreateFails
  <2>2. CASE CreateLock(i)
    BY <2>2 DEF CreateLock, ExclusiveFree, LockInv
  <2>3. CASE CreateDirs(i) \/ CreateKeyState(i) \/ CreateConfig(i) \/ CreatePublish(i)
    BY <2>3 DEF CreateDirs, CreateKeyState, CreateConfig, CreatePublish, LockInv
  <2> QED BY <1>1, <2>1, <2>2, <2>3 DEF Create
<1>2. CASE Open(i)
  <2>1. CASE OpenBegin(i) BY <2>1 DEF OpenBegin, LockInv
  <2>2. CASE OpenLock(i) BY <2>2 DEF OpenLock, SharedFree, LockInv
  <2>3. CASE OpenRead(i) BY <2>3 DEF OpenRead, LockInv
  <2>4. CASE OpenFails(i) BY <2>4, LockDrop DEF OpenFails
  <2> QED BY <1>2, <2>1, <2>2, <2>3, <2>4 DEF Open
<1>3. CASE WriteBlob(i) \/ WriteDb(i)
  BY <1>3 DEF WriteBlob, BlobBegin, BlobPublish, BlobFails, WriteDb, DbBegin, DbEnd, LockInv
<1>4. CASE Rotate(i)
  <2>1. CASE RotateUnlock(i) BY <2>1 DEF RotateUnlock, LockInv, Owners
  <2>2. CASE RotateTryLock(i) BY <2>2 DEF RotateTryLock, ExclusiveFree, LockInv
  <2>3. CASE RotateInUse(i) BY <2>3 DEF RotateInUse, LockInv
  <2>4. CASE RotateCopy(i) BY <2>4 DEF RotateCopy, LockInv
  <2>5. CASE RotateEncrypt(i) BY <2>5 DEF RotateEncrypt, LockInv
  <2>6. CASE RotateRename(i) BY <2>6 DEF RotateRename, LockInv
  <2>7. CASE RotatePublish(i) BY <2>7 DEF RotatePublish, LockInv
  <2>8. CASE RotateRetire(i) BY <2>8 DEF RotateRetire, LockInv
  <2>9. CASE RotateFails(i) BY <2>9 DEF RotateFails, LockInv
  <2> QED BY <1>4, <2>1, <2>2, <2>3, <2>4, <2>5, <2>6, <2>7, <2>8, <2>9 DEF Rotate
<1>5. CASE Relock(i)
  <2>1. CASE DropExclusive(i) BY <2>1 DEF DropExclusive, LockInv, Owners
  <2>2. CASE HoldShared(i) BY <2>2 DEF HoldShared, SharedFree, LockInv
  <2>3. CASE HoldSharedFails(i)
    BY <2>3, LockDrop DEF HoldSharedFails, LockInv, Owners
  <2> QED BY <1>5, <2>1, <2>2, <2>3 DEF Relock
<1>6. CASE Close(i) \/ Crash(i)
  BY <1>6, LockDrop DEF Close, Crash
<1> QED BY <1>1, <1>2, <1>3, <1>4, <1>5, <1>6 DEF Step

\* An exclusive lock leaves every other instance outside its critical sections.
LEMMA Exclusion ==
  ASSUME LockInv, NEW i \in Instances, NEW j \in Instances, i # j,
         pc[i] \in (CreatePcs \union RotatePcs) \ HoldSharedPcs
  PROVE  pc[j] \notin (CreatePcs \union RotatePcs) \ HoldSharedPcs
BY DEF LockInv

\* Under one owner a rotating instance is the only open one.
LEMMA SoleRotator ==
  ASSUME LockInv, OneOwner, NEW i \in Instances, NEW j \in Instances, i # j,
         pc[i] \in RotatePcs, lock[i] = "exclusive"
  PROVE  pc[j] \notin SessionPcs \union {"create_shared"}
<1>1. i \in Owners BY DEF LockInv, Owners
<1>2. j \notin Owners BY <1>1 DEF OneOwner
<1> QED BY <1>2 DEF LockInv

----------------------------------------------------------------------------
(***************************************************************************)
(* The directory. Only the actions of Writes change what IInv says of it.  *)
(***************************************************************************)
data == <<config, pointer, dir, wrapped, files, db, fresh, acked>>

Writes(i) ==
  \/ CreateDirs(i) \/ CreateKeyState(i) \/ CreateConfig(i) \/ CreatePublish(i)
  \/ BlobPublish(i) \/ DbBegin(i) \/ DbEnd(i) \/ RotateCopy(i) \/ RotateEncrypt(i)
  \/ RotateRename(i) \/ RotatePublish(i) \/ RotateRetire(i) \/ RotateFails(i)

LEMMA OtherSteps ==
  ASSUME NEW i \in Instances, Step(i)
  PROVE  Writes(i) \/ UNCHANGED data
BY DEF Step, Writes, data, disk, handle, Drop, Create, CreateLock, CreateRefused, CreateFails,
       Open, OpenBegin, OpenLock, OpenRead, OpenFails, WriteBlob, BlobBegin, BlobFails,
       WriteDb, Rotate, RotateUnlock, RotateTryLock, RotateInUse,
       Relock, DropExclusive, HoldShared, HoldSharedFails, Close, Crash

\* The numbers on disk stay below the next one to be drawn.
LEMMA FreshStep ==
  ASSUME TypeOK, FreshInv, HandleInv, StageInv, NEW i \in Instances, Step(i)
  PROVE  FreshInv'
<1> USE DEF TypeOK, DiskTypeOK, Gens, Keys, Files, FilesOf, First, Root, NoPointer, NoKey, FreshInv
<1>1. CASE UNCHANGED data
  BY <1>1 DEF data
<1>2. CASE CreateDirs(i) BY <1>2 DEF CreateDirs
<1>3. CASE CreateKeyState(i) BY <1>3 DEF CreateKeyState
<1>4. CASE CreateConfig(i) BY <1>4 DEF CreateConfig
<1>5. CASE CreatePublish(i) BY <1>5 DEF CreatePublish
<1>6. CASE BlobPublish(i)
  <2>1. dir[gen[i]] = "final" /\ gen[i] < fresh
    BY <1>6 DEF BlobPublish
  <2> QED BY <1>6, <2>1 DEF BlobPublish
<1>7. CASE DbBegin(i) \/ DbEnd(i) BY <1>7 DEF DbBegin, DbEnd
<1>8. CASE RotateCopy(i) BY <1>8 DEF RotateCopy, FilesInto
<1>9. CASE RotateEncrypt(i)
  <2>1. other[i] \in 2..(fresh - 1) BY <1>9 DEF RotateEncrypt, Goto, StageInv, StageOK
  <2> QED BY <1>9, <2>1 DEF RotateEncrypt, FilesInto
<1>10. CASE RotateRename(i)
  <2>1. other[i] \in 2..(fresh - 1) BY <1>10 DEF RotateRename, Goto, StageInv, StageOK
  <2> QED BY <1>10, <2>1 DEF RotateRename
<1>11. CASE RotatePublish(i)
  <2>1. other[i] \in 2..(fresh - 1) BY <1>11 DEF RotatePublish, Goto, StageInv, StageOK
  <2> QED BY <1>11, <2>1 DEF RotatePublish
<1>12. CASE RotateRetire(i) BY <1>12 DEF RotateRetire, RemoveGeneration, disk
<1>13. CASE RotateFails(i) BY <1>13 DEF RotateFails, RemoveGeneration, disk
<1> QED
  BY OtherSteps, <1>1, <1>2, <1>3, <1>4, <1>5, <1>6, <1>7, <1>8, <1>9, <1>10, <1>11, <1>12,
     <1>13 DEF Writes

\* Removing a generation other than the active one changes neither which is
\* active nor what it holds.
LEMMA RemoveOther ==
  ASSUME TypeOK, NEW g \in Gens, g # ActiveGen, RemoveGeneration(g)
  PROVE  /\ ActiveGen' = ActiveGen
         /\ dir'[ActiveGen] = dir[ActiveGen]
         /\ wrapped'[ActiveGen] = wrapped[ActiveGen]
         /\ db'[ActiveGen] = db[ActiveGen]
         /\ FilesOf(ActiveGen)' = FilesOf(ActiveGen)
BY DEF RemoveGeneration, ActiveGen, FilesOf, TypeOK, DiskTypeOK, Gens, Root, First, NoPointer

LEMMA ActiveGenType ==
  ASSUME TypeOK PROVE ActiveGen \in Gens
BY DEF ActiveGen, TypeOK, DiskTypeOK, Gens, Root, First, NoPointer

\* An action that leaves the active generation, its key and its files alone keeps it whole.
LEMMA ActiveKept ==
  ASSUME TypeOK, VaultInv, UNCHANGED <<config, pointer, acked>>, config,
         ActiveGen' = ActiveGen,
         dir'[ActiveGen] = dir[ActiveGen],
         wrapped'[ActiveGen] = wrapped[ActiveGen],
         db'[ActiveGen] = db[ActiveGen],
         FilesOf(ActiveGen)' = FilesOf(ActiveGen)
  PROVE  VaultInv'
BY DEF VaultInv, Whole, FilesOf, Decrypts

\* A created vault keeps opening to every acknowledged blob.
LEMMA VaultStep ==
  ASSUME TypeOK, FreshInv, VaultInv, HandleInv, StageInv, NEW i \in Instances, Step(i)
  PROVE  VaultInv'
<1> USE DEF Goto, Root, First, NoPointer, NoKey
<1>0. ActiveGen \in Gens BY ActiveGenType
<1>1. CASE UNCHANGED data
  BY <1>1 DEF data, VaultInv, Whole, FilesOf, Decrypts, ActiveGen
<1>2. CASE CreateDirs(i)
  BY <1>2 DEF CreateDirs, VaultStateExists, VaultInv, TypeOK, DiskTypeOK
<1>3. CASE CreateKeyState(i)
  BY <1>3 DEF CreateKeyState, HandleInv, HandleOK, VaultStateExists, VaultInv, TypeOK, DiskTypeOK
<1>4. CASE CreateConfig(i)
  <2>1. /\ ~config /\ config' /\ pointer' = NoPointer /\ dir'[First] = "final"
        /\ wrapped'[First] # NoKey
    BY <1>4 DEF CreateConfig, HandleInv, HandleOK, TypeOK, DiskTypeOK
  <2>2. files' = {} /\ acked' = {} /\ \A g \in Gens : db'[g].state = "none"
    BY <1>4, <2>1 DEF CreateConfig, VaultInv
  <2>3. ActiveGen' = First /\ First \in Gens
    BY <2>1 DEF ActiveGen, Gens
  <2> QED BY <2>1, <2>2, <2>3 DEF VaultInv, Whole, FilesOf
<1>5. CASE CreatePublish(i)
  <2>1. config /\ ActiveGen = First /\ ActiveGen' = First
    BY <1>5 DEF CreatePublish, HandleInv, HandleOK, ActiveGen
  <2> QED BY <1>5, <2>1 DEF CreatePublish, VaultInv, Whole, FilesOf, Decrypts
<1>6. CASE BlobPublish(i)
  <2>1. config /\ gen[i] = ActiveGen /\ dek[i] = wrapped[ActiveGen]
    BY <1>6 DEF BlobPublish, HandleInv, HandleOK, SessionPcs
  <2>2. ActiveGen' = ActiveGen BY <1>6 DEF BlobPublish, ActiveGen
  <2>3. PICK a \in arg[i] :
          /\ \A f \in FilesOf(gen[i]) : f.id # a.id
          /\ files' = files \union
                        {[gen |-> gen[i], id |-> a.id, val |-> a.val, key |-> dek[i]]}
          /\ acked' = acked \union {a}
    BY <1>6 DEF BlobPublish
  <2> DEFINE A == ActiveGen
             new == [gen |-> A, id |-> a.id, val |-> a.val, key |-> wrapped[A]]
  <2>4. FilesOf(A)' = FilesOf(A) \union {new}
    BY <2>1, <2>2, <2>3 DEF FilesOf
  <2>5. UNCHANGED <<config, pointer, dir, wrapped, db>>
    BY <1>6 DEF BlobPublish
  <2>6. Whole(A, wrapped[A]) BY <2>1 DEF VaultInv
  <2>7. \A f, h \in FilesOf(A)' : f.id = h.id => f.val = h.val
    BY <2>1, <2>3, <2>4, <2>6 DEF Whole
  <2>8. \A f \in FilesOf(A)' : Decrypts(f.key, wrapped[A])
    BY <2>4, <2>6 DEF Whole, Decrypts
  <2>9. \A b \in acked' : \E f \in FilesOf(A)' : f.id = b.id /\ f.val = b.val
    <3>1. new \in FilesOf(A)' /\ new.id = a.id /\ new.val = a.val BY <2>4
    <3>2. \A b \in acked : \E f \in FilesOf(A)' : f.id = b.id /\ f.val = b.val
      BY <2>4, <2>6 DEF Whole
    <3> QED BY <2>3, <3>1, <3>2
  <2>10. Whole(ActiveGen, wrapped[ActiveGen])'
    BY <2>2, <2>5, <2>6, <2>7, <2>8, <2>9 DEF Whole, Decrypts
  <2> QED BY <2>1, <2>2, <2>5, <2>10 DEF VaultInv
<1>7. CASE DbBegin(i) \/ DbEnd(i)
  <2>1. config /\ gen[i] = ActiveGen /\ dek[i] = wrapped[ActiveGen]
    BY <1>7 DEF DbBegin, DbEnd, HandleInv, HandleOK, SessionPcs
  <2>2. ActiveGen' = ActiveGen BY <1>7 DEF DbBegin, DbEnd, ActiveGen
  <2>3. UNCHANGED <<config, pointer, dir, wrapped, files, acked>>
    BY <1>7 DEF DbBegin, DbEnd
  <2>4. db'[ActiveGen].state = "whole" =>
          db'[ActiveGen] = db[ActiveGen] \/ db'[ActiveGen].key = wrapped[ActiveGen]
    <3>1. \/ db' = [db EXCEPT ![ActiveGen] = [state |-> "torn", key |-> NoKey]]
          \/ UNCHANGED db
          \/ db' = [db EXCEPT ![ActiveGen] = [state |-> "whole", key |-> wrapped[ActiveGen]]]
      BY <1>7, <2>1 DEF DbBegin, DbEnd
    <3>2. ActiveGen \in DOMAIN db BY <1>0 DEF TypeOK, DiskTypeOK
    <3> QED BY <3>1, <3>2
  <2>5. FilesOf(ActiveGen)' = FilesOf(ActiveGen)
    BY <2>2, <2>3 DEF FilesOf
  <2>6. Whole(ActiveGen, wrapped[ActiveGen]) BY <2>1 DEF VaultInv
  <2>7. db'[ActiveGen].state = "whole" => Decrypts(db'[ActiveGen].key, wrapped[ActiveGen])
    BY <2>4, <2>6 DEF Whole, Decrypts
  <2>8. Whole(ActiveGen, wrapped[ActiveGen])'
    BY <2>2, <2>3, <2>5, <2>6, <2>7 DEF Whole, Decrypts
  <2> QED BY <2>1, <2>2, <2>3, <2>8 DEF VaultInv
<1>8. CASE RotateCopy(i)
  <2>1. ActiveGen # fresh /\ fresh # First
    BY <1>8 DEF ActiveGen, FreshInv, TypeOK
  <2>2. config BY <1>8 DEF RotateCopy, HandleInv, HandleOK, SessionPcs, RotatePcs
  <2>3. ActiveGen' = ActiveGen
    BY <1>8, <2>1 DEF RotateCopy, ActiveGen, TypeOK, DiskTypeOK, Gens
  <2>4. FilesOf(ActiveGen)' = FilesOf(ActiveGen)
    BY <1>8, <2>1, <2>3 DEF RotateCopy, FilesOf, FilesInto
  <2> QED
    BY <1>0, <1>8, <2>1, <2>2, <2>3, <2>4, ActiveKept DEF RotateCopy, TypeOK, DiskTypeOK
<1>9. CASE RotateEncrypt(i)
  <2>1. other[i] # ActiveGen /\ config
    BY <1>9 DEF RotateEncrypt, StageInv, StageOK, HandleInv, HandleOK, SessionPcs, RotatePcs
  <2>2. ActiveGen' = ActiveGen BY <1>9 DEF RotateEncrypt, ActiveGen
  <2>3. FilesOf(ActiveGen)' = FilesOf(ActiveGen)
    BY <1>9, <2>1, <2>2 DEF RotateEncrypt, FilesOf, FilesInto
  <2> QED
    BY <1>0, <1>9, <2>1, <2>2, <2>3, ActiveKept DEF RotateEncrypt, TypeOK, DiskTypeOK
<1>10. CASE RotateRename(i)
  <2>1. other[i] # ActiveGen /\ other[i] # First /\ config
    BY <1>10 DEF RotateRename, StageInv, StageOK, HandleInv, HandleOK, SessionPcs, RotatePcs
  <2>2. ActiveGen' = ActiveGen
    BY <1>10, <2>1 DEF RotateRename, ActiveGen, TypeOK, DiskTypeOK, Gens
  <2>3. FilesOf(ActiveGen)' = FilesOf(ActiveGen)
    BY <1>10, <2>2 DEF RotateRename, FilesOf
  <2> QED
    BY <1>0, <1>10, <2>1, <2>2, <2>3, ActiveKept DEF RotateRename, TypeOK, DiskTypeOK
<1>11. CASE RotatePublish(i)
  <2>1. /\ other[i] \in 2..(fresh - 1) /\ dir[other[i]] = "final"
        /\ wrapped[other[i]] = other[i] /\ Whole(other[i], other[i]) /\ config
    BY <1>11 DEF RotatePublish, StageInv, StageOK, HandleInv, HandleOK, SessionPcs, RotatePcs
  <2>2. ActiveGen' = other[i]
    BY <1>11, <2>1 DEF RotatePublish, ActiveGen
  <2> QED BY <1>11, <2>1, <2>2 DEF RotatePublish, VaultInv, Whole, FilesOf, Decrypts
<1>12. CASE RotateRetire(i) \/ RotateFails(i)
  <2>1. other[i] \in Gens BY DEF TypeOK
  <2>2. config BY <1>12 DEF RotateRetire, RotateFails, HandleInv, HandleOK, SessionPcs, RotatePcs
  <2>3. UNCHANGED disk \/ (other[i] # ActiveGen /\ RemoveGeneration(other[i]))
    BY <1>12 DEF RotateRetire, RotateFails, StageInv, StageOK
  <2>4. UNCHANGED acked BY <1>12 DEF RotateRetire, RotateFails
  <2>5. CASE UNCHANGED disk
    BY <2>4, <2>5 DEF disk, VaultInv, Whole, FilesOf, Decrypts, ActiveGen
  <2>6. CASE other[i] # ActiveGen /\ RemoveGeneration(other[i])
    <3>1. UNCHANGED <<config, pointer>> BY <2>6 DEF RemoveGeneration
    <3> QED BY <2>1, <2>2, <2>4, <2>6, <3>1, RemoveOther, ActiveKept
  <2> QED BY <2>3, <2>5, <2>6
<1> QED
  BY OtherSteps, <1>1, <1>2, <1>3, <1>4, <1>5, <1>6, <1>7, <1>8, <1>9, <1>10, <1>11, <1>12
  DEF Writes

----------------------------------------------------------------------------
(***************************************************************************)
(* The handles and the rotation in progress.                               *)
(***************************************************************************)
\* A step of one instance leaves the others where they are.
LEMMA Locality ==
  ASSUME TypeOK, NEW i \in Instances, Step(i), NEW j \in Instances, i # j
  PROVE  /\ pc'[j] = pc[j] /\ gen'[j] = gen[j] /\ dek'[j] = dek[j] /\ other'[j] = other[j]
<1> USE DEF TypeOK, Goto, handle, Drop
<1>1. CASE Create(i)
  BY <1>1 DEF Create, CreateLock, CreateRefused, CreateDirs, CreateKeyState, CreateConfig,
              CreatePublish, CreateFails
<1>2. CASE Open(i) BY <1>2 DEF Open, OpenBegin, OpenLock, OpenRead, OpenFails
<1>3. CASE WriteBlob(i) \/ WriteDb(i)
  BY <1>3 DEF WriteBlob, BlobBegin, BlobPublish, BlobFails, WriteDb, DbBegin, DbEnd
<1>4. CASE Rotate(i)
  BY <1>4 DEF Rotate, RotateUnlock, RotateTryLock, RotateInUse, RotateCopy, RotateEncrypt,
              RotateRename, RotatePublish, RotateRetire, RotateFails
<1>5. CASE Relock(i) \/ Close(i) \/ Crash(i)
  BY <1>5 DEF Relock, DropExclusive, HoldShared, HoldSharedFails, Close, Crash
<1> QED BY <1>1, <1>2, <1>3, <1>4, <1>5 DEF Step

StagePcs == {"rot_encrypt", "rot_rename", "rot_publish", "rot_retire"}

\* While an instance has a generation staged, no other one writes to the directory.
LEMMA StagedAlone ==
  ASSUME LockInv, OneOwner, NEW i \in Instances, Writes(i),
         NEW j \in Instances, i # j, pc[j] \in StagePcs
  PROVE  FALSE
<1> USE DEF StagePcs, CreatePcs, RotatePcs, HoldSharedPcs, SessionPcs, Goto
<1>1. lock[j] = "exclusive" BY DEF LockInv
<1>2. pc[i] \notin SessionPcs \union {"create_shared"} BY <1>1, SoleRotator
<1>3. pc[i] \notin CreatePcs \ HoldSharedPcs BY Exclusion
<1> QED
  BY <1>2, <1>3 DEF Writes, CreateDirs, CreateKeyState, CreateConfig, CreatePublish,
     BlobPublish, DbBegin, DbEnd, RotateCopy, RotateEncrypt, RotateRename, RotatePublish,
     RotateRetire, RotateFails

\* Every open handle follows the active generation.
LEMMA HandleStep ==
  ASSUME TypeOK, LockInv, OneOwner, FreshInv, VaultInv, HandleInv, StageInv,
         NEW i \in Instances, Step(i)
  PROVE  HandleInv'
<1> USE DEF Root, First, NoPointer, NoKey, CreatePcs, RotatePcs, HoldSharedPcs, SessionPcs
<1>1. ASSUME NEW j \in Instances, i # j PROVE HandleOK(j)'
  <2>0. pc'[j] = pc[j] /\ gen'[j] = gen[j] /\ dek'[j] = dek[j] BY <1>1, Locality
  <2>1. HandleOK(j) BY DEF HandleInv
  <2>2. CASE UNCHANGED data
    BY <2>0, <2>1, <2>2 DEF data, HandleOK, VaultStateExists, ActiveGen
  <2>3. CASE CreateDirs(i) \/ CreateKeyState(i) \/ CreateConfig(i)
    <3>1. pc[i] \in {"create_locked", "create_key", "create_config"} /\ ~config
      BY <2>3 DEF CreateDirs, CreateKeyState, CreateConfig, Goto, HandleInv, HandleOK,
                  VaultStateExists
    <3>2. pc[j] \notin CreatePcs \ HoldSharedPcs BY <1>1, <3>1, Exclusion
    <3>3. pc[j] \notin SessionPcs \union {"create_shared"} BY <2>1, <3>1 DEF HandleOK
    <3> QED BY <2>0, <3>2, <3>3 DEF HandleOK
  <2>4. CASE CreatePublish(i)
    <3>1. pc[i] = "create_publish" /\ ActiveGen = First /\ ActiveGen' = First
          /\ UNCHANGED <<config, wrapped>>
      BY <2>4 DEF CreatePublish, Goto, HandleInv, HandleOK, ActiveGen
    <3>2. pc[j] \notin CreatePcs \ HoldSharedPcs BY <1>1, <3>1, Exclusion
    <3> QED BY <2>0, <2>1, <3>1, <3>2 DEF HandleOK
  <2>5. CASE BlobPublish(i) \/ DbBegin(i) \/ DbEnd(i)
    <3>1. UNCHANGED <<config, pointer, dir, wrapped>>
      BY <2>5 DEF BlobPublish, DbBegin, DbEnd
    <3> QED BY <2>0, <2>1, <3>1 DEF HandleOK, VaultStateExists, ActiveGen
  <2>6. CASE \/ RotateCopy(i) \/ RotateEncrypt(i) \/ RotateRename(i) \/ RotatePublish(i)
             \/ RotateRetire(i) \/ RotateFails(i)
    <3>1. pc[i] \in RotatePcs \ HoldSharedPcs
      BY <2>6 DEF RotateCopy, RotateEncrypt, RotateRename, RotatePublish, RotateRetire,
                  RotateFails, Goto
    <3>2. pc[j] \notin CreatePcs \ HoldSharedPcs BY <1>1, <3>1, Exclusion
    <3>3. lock[i] = "exclusive" BY <3>1 DEF LockInv
    <3>4. pc[j] \notin SessionPcs \union {"create_shared"} BY <1>1, <3>1, <3>3, SoleRotator
    <3> QED BY <2>0, <3>2, <3>4 DEF HandleOK
  <2> QED BY OtherSteps, <2>2, <2>3, <2>4, <2>5, <2>6 DEF Writes
<1>2. HandleOK(i)'
  <2> USE DEF TypeOK, DiskTypeOK, Goto
  <2>0. HandleOK(i) BY DEF HandleInv
  <2>1. CASE Drop(i) BY <2>1 DEF Drop, HandleOK
  <2>2. CASE CreateLock(i) \/ OpenBegin(i) \/ OpenLock(i)
    <3>1. pc'[i] \in {"closed", "create_locked", "open_wait", "open_read"}
      BY <2>2 DEF CreateLock, OpenBegin, OpenLock
    <3> QED BY <3>1 DEF HandleOK
  <2>3. CASE OpenRead(i)
    <3>1. ActiveGen' = ActiveGen BY <2>3 DEF OpenRead, disk, ActiveGen
    <3> QED BY <2>3, <3>1 DEF OpenRead, Openable, disk, HandleOK
  <2>4. CASE \/ BlobBegin(i) \/ BlobPublish(i) \/ BlobFails(i) \/ DbBegin(i) \/ DbEnd(i)
             \/ RotateUnlock(i) \/ RotateTryLock(i) \/ RotateInUse(i)
             \/ DropExclusive(i) \/ HoldShared(i) \/ (HoldSharedFails(i) /\ ~Drop(i))
    <3>1. /\ pc[i] \in SessionPcs \union {"create_shared"}
          /\ pc'[i] \in SessionPcs \union {"create_shared"}
      BY <2>4 DEF BlobBegin, BlobPublish, BlobFails, DbBegin, DbEnd, RotateUnlock, RotateTryLock,
                  RotateInUse, DropExclusive, HoldShared, HoldSharedFails
    <3>2. UNCHANGED <<config, pointer, dir, wrapped, gen, dek>>
      BY <2>4 DEF BlobBegin, BlobPublish, BlobFails, DbBegin, DbEnd, RotateUnlock, RotateTryLock,
                  RotateInUse, DropExclusive, HoldShared, HoldSharedFails, disk, handle
    <3> QED BY <2>0, <3>1, <3>2 DEF HandleOK, ActiveGen
  <2>5. CASE CreateDirs(i)
    BY <2>5 DEF CreateDirs, HandleOK, VaultStateExists, Gens
  <2>6. CASE CreateKeyState(i)
    BY <2>0, <2>6 DEF CreateKeyState, HandleOK, VaultStateExists, Gens
  <2>7. CASE CreateConfig(i)
    BY <2>0, <2>7 DEF CreateConfig, HandleOK, handle
  <2>8. CASE CreatePublish(i)
    BY <2>0, <2>8 DEF CreatePublish, HandleOK, handle, ActiveGen
  <2>9. CASE RotateCopy(i)
    <3>1. ActiveGen # fresh /\ fresh # First
      BY <2>9 DEF ActiveGen, FreshInv
    <3>2. /\ ActiveGen' = ActiveGen /\ wrapped'[ActiveGen] = wrapped[ActiveGen]
      BY ActiveGenType, <2>9, <3>1 DEF RotateCopy, ActiveGen, Gens
    <3> QED BY <2>0, <2>9, <3>2 DEF RotateCopy, HandleOK
  <2>10. CASE RotateEncrypt(i)
    <3>1. other[i] # ActiveGen BY <2>10 DEF RotateEncrypt, StageInv, StageOK
    <3>2. /\ ActiveGen' = ActiveGen /\ wrapped'[ActiveGen] = wrapped[ActiveGen]
      BY ActiveGenType, <2>10, <3>1 DEF RotateEncrypt, ActiveGen
    <3> QED BY <2>0, <2>10, <3>2 DEF RotateEncrypt, handle, HandleOK
  <2>11. CASE RotateRename(i)
    <3>1. other[i] # First BY <2>11 DEF RotateRename, StageInv, StageOK
    <3>2. ActiveGen' = ActiveGen BY <2>11, <3>1 DEF RotateRename, ActiveGen, Gens
    <3> QED BY <2>0, <2>11, <3>2 DEF RotateRename, handle, HandleOK
  <2>12. CASE RotatePublish(i)
    <3>1. other[i] \in 2..(fresh - 1) /\ wrapped[other[i]] = other[i] /\ config
      BY <2>0, <2>12 DEF RotatePublish, StageInv, StageOK, HandleOK
    <3>2. ActiveGen' = other[i] BY <2>12, <3>1 DEF RotatePublish, ActiveGen
    <3> QED BY <2>12, <3>1, <3>2 DEF RotatePublish, HandleOK
  <2>13. CASE RotateRetire(i) \/ RotateFails(i)
    <3>1. UNCHANGED disk \/ (other[i] # ActiveGen /\ RemoveGeneration(other[i]))
      BY <2>13 DEF RotateRetire, RotateFails, StageInv, StageOK
    <3>2. other[i] \in Gens OBVIOUS
    <3>3. ActiveGen' = ActiveGen /\ wrapped'[ActiveGen] = wrapped[ActiveGen]
      BY <3>1, <3>2, RemoveOther DEF disk, ActiveGen
    <3>4. config' = config BY <3>1 DEF disk, RemoveGeneration
    <3>5. UNCHANGED <<gen, dek>> /\ pc[i] \in RotatePcs /\ pc'[i] = "rot_shared"
      BY <2>13 DEF RotateRetire, RotateFails
    <3> QED BY <2>0, <3>3, <3>4, <3>5 DEF HandleOK
  <2> QED
    BY <2>1, <2>2, <2>3, <2>4, <2>5, <2>6, <2>7, <2>8, <2>9, <2>10, <2>11, <2>12, <2>13
    DEF Step, Create, Open, WriteBlob, WriteDb, Rotate, Relock, CreateRefused, CreateFails,
        OpenFails, Close, Crash
<1> QED BY <1>1, <1>2 DEF HandleInv

\* The generation a rotation stages stays as whole as the active one.
LEMMA StageStep ==
  ASSUME TypeOK, LockInv, OneOwner, FreshInv, VaultInv, HandleInv, StageInv,
         NEW i \in Instances, Step(i)
  PROVE  StageInv'
<1> USE DEF Root, First, NoPointer, NoKey, CreatePcs, RotatePcs, HoldSharedPcs, SessionPcs
<1>1. ASSUME NEW j \in Instances, i # j PROVE StageOK(j)'
  <2>0. pc'[j] = pc[j] /\ dek'[j] = dek[j] /\ other'[j] = other[j] BY <1>1, Locality
  <2>1. StageOK(j) BY DEF StageInv
  <2>2. CASE UNCHANGED data
    BY <2>0, <2>1, <2>2 DEF data, StageOK, ActiveGen, Whole, FilesOf, Decrypts
  <2>3. CASE pc[j] \notin StagePcs BY <2>0, <2>3 DEF StageOK, StagePcs
  <2>4. CASE Writes(i) /\ pc[j] \in StagePcs BY <1>1, <2>4, StagedAlone
  <2> QED BY OtherSteps, <2>2, <2>3, <2>4
<1>2. StageOK(i)'
  <2> USE DEF TypeOK, DiskTypeOK, Goto
  <2>0. StageOK(i) BY DEF StageInv
  <2>1. CASE RotateCopy(i)
    <3>1. gen[i] = ActiveGen /\ dek[i] = wrapped[ActiveGen] /\ config
      BY <2>1 DEF RotateCopy, HandleInv, HandleOK
    <3> PICK n \in Gens : n = fresh BY <2>1 DEF RotateCopy, Gens
    <3> PICK g \in Gens : g = gen[i] OBVIOUS
    <3> PICK k \in Keys \union {NoKey} : k = dek[i] OBVIOUS
    <3>2. /\ pc'[i] = "rot_encrypt" /\ other'[i] = n /\ dek'[i] = k /\ fresh' = n + 1
          /\ n >= 2 /\ dir'[n] = "stage" /\ db'[n] = db[g]
          /\ UNCHANGED <<pointer, acked>>
      BY <2>1 DEF RotateCopy, Gens
    <3>3. ActiveGen # n /\ ActiveGen' = ActiveGen
      BY <2>1, <3>2 DEF RotateCopy, FreshInv, ActiveGen, Gens
    <3>4. FilesOf(n) = {} BY DEF FreshInv, FilesOf, Files, Gens
    <3>5. FilesOf(n)' = {[gen |-> n, id |-> f.id, val |-> f.val, key |-> f.key] : f \in FilesOf(g)}
      <4>1. files' = files \union
              {[gen |-> n, id |-> f.id, val |-> f.val, key |-> f.key] : f \in FilesOf(g)}
        BY <2>1 DEF RotateCopy, FilesInto
      <4> QED BY <3>4, <4>1 DEF FilesOf
    <3>6. Whole(g, k) BY <3>1 DEF VaultInv
    <3>7. Whole(n, k)'
      <4>1. \A f \in FilesOf(n)' : Decrypts(f.key, k)
        BY <3>5, <3>6 DEF Whole
      <4>2. \A f, h \in FilesOf(n)' : f.id = h.id => f.val = h.val
        BY <3>5, <3>6 DEF Whole
      <4>3. ASSUME NEW a \in acked PROVE \E f \in FilesOf(n)' : f.id = a.id /\ f.val = a.val
        <5>1. PICK f \in FilesOf(g) : f.id = a.id /\ f.val = a.val BY <3>6 DEF Whole
        <5>2. [gen |-> n, id |-> f.id, val |-> f.val, key |-> f.key] \in FilesOf(n)' BY <3>5
        <5> QED BY <5>1, <5>2
      <4> QED BY <3>2, <3>6, <4>1, <4>2, <4>3 DEF Whole, Decrypts
    <3>8. n \in 2..(fresh' - 1) BY <3>2 DEF Gens
    <3> QED BY <3>2, <3>3, <3>7, <3>8 DEF StageOK
  <2>2. CASE RotateEncrypt(i)
    <3> PICK n \in Keys : n = other[i] BY <2>2 DEF RotateEncrypt
    <3>1. n \in 2..(fresh - 1) /\ dir[n] = "stage" /\ Whole(n, dek[i]) /\ n # ActiveGen
      BY <2>2 DEF RotateEncrypt, StageInv, StageOK
    <3>2. /\ pc'[i] = "rot_rename" /\ other'[i] = n /\ wrapped'[n] = n
          /\ UNCHANGED <<pointer, dir, fresh, acked>>
      BY <2>2 DEF RotateEncrypt, handle, Keys, Gens
    <3>3. ActiveGen' = ActiveGen BY <3>2 DEF ActiveGen
    <3> DEFINE NewKey(key) == IF Encrypted THEN n ELSE key
    <3>4. FilesOf(n)' = {[gen |-> n, id |-> f.id, val |-> f.val, key |-> NewKey(f.key)]
                           : f \in FilesOf(n)}
      <4>1. files' = (files \ FilesOf(n)) \union
              {[gen |-> n, id |-> f.id, val |-> f.val, key |-> NewKey(f.key)] : f \in FilesOf(n)}
        BY <2>2 DEF RotateEncrypt, FilesInto
      <4> QED BY <4>1 DEF FilesOf
    <3>5. /\ db'[n].state = db[n].state
          /\ db[n].state = "whole" => db'[n].key = NewKey(db[n].key)
      BY <2>2 DEF RotateEncrypt, Keys, Gens
    <3>6. Whole(n, n)'
      <4>1. \A f \in FilesOf(n)' : Decrypts(f.key, n)
        BY <3>4 DEF Decrypts
      <4>2. \A f, h \in FilesOf(n)' : f.id = h.id => f.val = h.val
        BY <3>1, <3>4 DEF Whole
      <4>3. ASSUME NEW a \in acked PROVE \E f \in FilesOf(n)' : f.id = a.id /\ f.val = a.val
        <5>1. PICK f \in FilesOf(n) : f.id = a.id /\ f.val = a.val BY <3>1 DEF Whole
        <5>2. [gen |-> n, id |-> f.id, val |-> f.val, key |-> NewKey(f.key)] \in FilesOf(n)'
          BY <3>4
        <5> QED BY <5>1, <5>2
      <4>4. db'[n].state = "whole" => Decrypts(db'[n].key, n)
        BY <3>5 DEF Decrypts
      <4> QED BY <3>2, <4>1, <4>2, <4>3, <4>4 DEF Whole, Decrypts
    <3> QED BY <3>1, <3>2, <3>3, <3>6 DEF StageOK
  <2>3. CASE RotateRename(i)
    <3> PICK n \in Keys : n = other[i] BY <2>3 DEF RotateRename
    <3>1. n \in 2..(fresh - 1) /\ Whole(n, n) /\ wrapped[n] = n /\ n # ActiveGen
      BY <2>3 DEF RotateRename, StageInv, StageOK
    <3>2. /\ pc'[i] = "rot_publish" /\ other'[i] = n /\ dir'[n] = "final"
          /\ UNCHANGED <<pointer, wrapped, files, db, fresh, acked>>
      BY <2>3 DEF RotateRename, handle, Keys, Gens
    <3>3. ActiveGen' = ActiveGen BY <2>3, <3>1 DEF RotateRename, ActiveGen, Gens
    <3>4. Whole(n, n)' BY <3>1, <3>2 DEF Whole, FilesOf, Decrypts
    <3> QED BY <3>1, <3>2, <3>3, <3>4 DEF StageOK
  <2>4. CASE RotatePublish(i)
    <3>1. other[i] \in 2..(fresh - 1) /\ other[i] # ActiveGen /\ gen[i] = ActiveGen
      BY <2>4 DEF RotatePublish, StageInv, StageOK, HandleInv, HandleOK
    <3>2. ActiveGen' = other[i] BY <2>4, <3>1 DEF RotatePublish, ActiveGen
    <3>3. pc'[i] = "rot_retire" /\ other'[i] = gen[i] BY <2>4 DEF RotatePublish
    <3> QED BY <3>1, <3>2, <3>3 DEF StageOK
  <2>5. CASE pc'[i] \notin StagePcs BY <2>5 DEF StageOK, StagePcs
  <2>6. RotateCopy(i) \/ RotateEncrypt(i) \/ RotateRename(i) \/ RotatePublish(i)
        \/ pc'[i] \notin StagePcs
    <3> USE DEF StagePcs, Drop
    <3>1. CASE Create(i)
      BY <3>1 DEF Create, CreateLock, CreateRefused, CreateDirs, CreateKeyState, CreateConfig,
                  CreatePublish, CreateFails
    <3>2. CASE Open(i) BY <3>2 DEF Open, OpenBegin, OpenLock, OpenRead, OpenFails
    <3>3. CASE WriteBlob(i) \/ WriteDb(i)
      BY <3>3 DEF WriteBlob, BlobBegin, BlobPublish, BlobFails, WriteDb, DbBegin, DbEnd
    <3>4. CASE Rotate(i)
      BY <3>4 DEF Rotate, RotateUnlock, RotateTryLock, RotateInUse, RotateRetire, RotateFails
    <3>5. CASE Relock(i) \/ Close(i) \/ Crash(i)
      BY <3>5 DEF Relock, DropExclusive, HoldShared, HoldSharedFails, Close, Crash
    <3> QED BY <3>1, <3>2, <3>3, <3>4, <3>5 DEF Step
  <2> QED BY <2>1, <2>2, <2>3, <2>4, <2>5, <2>6
<1> QED BY <1>1, <1>2 DEF StageInv

----------------------------------------------------------------------------
(***************************************************************************)
(* The invariant and what follows from it.                                 *)
(***************************************************************************)
\* The parts of IInv hold initially.
LEMMA InitIInv ==
  ASSUME Init PROVE LockInv /\ FreshInv /\ VaultInv /\ HandleInv /\ StageInv
<1> USE DEF Init, Gens, Root, First, NoPointer, NoKey, CreatePcs, RotatePcs, HoldSharedPcs,
            SessionPcs
<1>1. LockInv BY DEF LockInv
<1>2. FreshInv BY DEF FreshInv
<1>3. VaultInv BY DEF VaultInv, ActiveGen, Whole, FilesOf, NoDb
<1>4. HandleInv BY DEF HandleInv, HandleOK
<1>5. StageInv BY DEF StageInv, StageOK
<1> QED BY <1>1, <1>2, <1>3, <1>4, <1>5

\* Under one owner every step preserves them.
LEMMA StepIInv ==
  ASSUME OneOwner, IInv, [Next]_vars
  PROVE  (LockInv /\ FreshInv /\ VaultInv /\ HandleInv /\ StageInv)'
<1> USE DEF IInv
<1>1. CASE UNCHANGED vars
  <2> USE <1>1 DEF vars, disk, handle
  <2>1. LockInv' BY DEF LockInv
  <2>2. FreshInv' BY DEF FreshInv
  <2>3. VaultInv' BY DEF VaultInv, ActiveGen, Whole, FilesOf, Decrypts
  <2>4. HandleInv' BY DEF HandleInv, HandleOK, ActiveGen, VaultStateExists
  <2>5. StageInv' BY DEF StageInv, StageOK, ActiveGen, Whole, FilesOf, Decrypts
  <2> QED BY <2>1, <2>2, <2>3, <2>4, <2>5
<1>2. CASE Next
  <2> PICK i \in Instances : Step(i) BY <1>2 DEF Next, Step
  <2> QED BY LockStep, FreshStep, VaultStep, HandleStep, StageStep
<1> QED BY <1>1, <1>2

(* Under one owner IInv holds in every reachable state.                    *)
THEOREM Invariant == ASSUME OneOwner PROVE Spec => []IInv
<1>1. Init => LockInv /\ FreshInv /\ VaultInv /\ HandleInv /\ StageInv
  BY InitIInv
<1>2. TypeOK /\ TypeOK' /\ LockInv /\ FreshInv /\ VaultInv /\ HandleInv /\ StageInv /\ [Next]_vars
        => (LockInv /\ FreshInv /\ VaultInv /\ HandleInv /\ StageInv)'
  BY StepIInv DEF IInv
<1> QED BY <1>1, <1>2, TypeCorrect, PTL DEF Spec, IInv

(* An acknowledged blob stays readable, through the generation and key the *)
(* next open selects, whatever rotations, failures and crashes follow.     *)
THEOREM BlobsSafe == ASSUME OneOwner PROVE Spec => []NoLostBlob
<1>1. IInv => NoLostBlob
  <2> SUFFICES ASSUME IInv, NEW a \in acked
               PROVE  ReadBlob(ActiveGen, wrapped[ActiveGen], a.id) = {a.val}
    BY DEF NoLostBlob
  <2>1. config BY DEF IInv, VaultInv
  <2>2. dir[ActiveGen] = "final" /\ Whole(ActiveGen, wrapped[ActiveGen])
    BY <2>1 DEF IInv, VaultInv
  <2> DEFINE S == {x \in FilesOf(ActiveGen) :
                     x.id = a.id /\ dir[ActiveGen] = "final" /\ Decrypts(x.key, wrapped[ActiveGen])}
  <2>3. PICK f \in FilesOf(ActiveGen) : f.id = a.id /\ f.val = a.val
    BY <2>2 DEF Whole
  <2>4. f \in S BY <2>2, <2>3 DEF Whole
  <2>5. \A x \in S : x.val = a.val BY <2>2, <2>3 DEF Whole
  <2>6. {x.val : x \in S} = {a.val} BY <2>3, <2>4, <2>5
  <2> QED BY <2>6 DEF ReadBlob
<1> QED BY <1>1, Invariant, PTL

(* Every open handle works on the active generation with its key, also     *)
(* while it has given its lock up inside rotate_dek.                       *)
THEOREM HandlesSafe == ASSUME OneOwner PROVE Spec => []HandlesCurrent
<1>1. IInv => HandlesCurrent
  BY DEF IInv, HandleInv, HandleOK, HandlesCurrent, Sessions
<1> QED BY <1>1, Invariant, PTL

(* A rotation that holds the exclusive lock is alone in the directory.     *)
THEOREM RotationAlone == ASSUME OneOwner PROVE Spec => []SoleOpenInstance
<1>1. IInv => SoleOpenInstance
  <2> SUFFICES ASSUME IInv, NEW i \in Instances, pc[i] \in RotatePcs, lock[i] = "exclusive",
                      NEW j \in Instances \ {i}
               PROVE  pc[j] \in {"closed", "create_shared", "open_wait"}
    BY DEF SoleOpenInstance
  <2>1. pc[j] \notin SessionPcs \union {"create_shared"} BY SoleRotator DEF IInv
  <2>2. lock[j] = "none" BY DEF IInv, LockInv
  <2>3. pc[j] \notin (CreatePcs \union RotatePcs) \ HoldSharedPcs /\ pc[j] # "open_read"
    BY <2>2 DEF IInv, LockInv
  <2> QED
    BY <2>1, <2>2, <2>3 DEF IInv, TypeOK, Pcs, CreatePcs, OpenPcs, HoldSharedPcs
<1> QED BY <1>1, Invariant, PTL

(* Once the pointer is published the directory opens, and every byte in    *)
(* its generation decrypts under the key its key state wraps.              *)
THEOREM PublishedWhole == ASSUME OneOwner PROVE Spec => []ActiveGenerationWhole
<1>1. IInv => ActiveGenerationWhole
  BY DEF IInv, VaultInv, ActiveGenerationWhole, Openable, ActiveGen, Whole
<1> QED BY <1>1, Invariant, PTL

(* No step overwrites the key state of a generation in place.              *)
THEOREM KeysKept == ASSUME OneOwner PROVE Spec => KeyStateKept
<1> DEFINE Kept == \A g \in Gens : dir[g] = "final" /\ wrapped[g] # NoKey =>
                     wrapped'[g] = wrapped[g] \/ (dir'[g] = "none" /\ g # ActiveGen')
<1>1. IInv /\ [Next]_vars => [Kept]_vars
  <2> SUFFICES ASSUME IInv, NEW i \in Instances, Step(i) PROVE Kept
    BY DEF Next, Step
  <2> USE DEF IInv, TypeOK, DiskTypeOK, Goto
  <2>1. CASE UNCHANGED wrapped BY <2>1
  <2>2. CASE CreateKeyState(i)
    <3>1. wrapped[First] = NoKey BY <2>2 DEF CreateKeyState, HandleInv, HandleOK, VaultStateExists
    <3> QED BY <2>2, <3>1 DEF CreateKeyState
  <2>3. CASE RotateCopy(i)
    <3>1. dir[fresh] = "none" BY <2>3 DEF RotateCopy, FreshInv, Gens
    <3> QED BY <2>3, <3>1 DEF RotateCopy
  <2>4. CASE RotateEncrypt(i)
    <3>1. dir[other[i]] = "stage" BY <2>4 DEF RotateEncrypt, StageInv, StageOK
    <3> QED BY <2>4, <3>1 DEF RotateEncrypt
  <2>5. CASE RotateRetire(i) \/ RotateFails(i)
    <3>1. UNCHANGED disk \/ (other[i] # ActiveGen /\ RemoveGeneration(other[i]))
      BY <2>5 DEF RotateRetire, RotateFails, StageInv, StageOK
    <3>2. CASE UNCHANGED disk BY <3>2 DEF disk
    <3>3. CASE other[i] # ActiveGen /\ RemoveGeneration(other[i])
      <4>1. ActiveGen' = ActiveGen /\ other[i] \in Gens BY <3>3, RemoveOther
      <4> QED BY <3>3, <4>1 DEF RemoveGeneration
    <3> QED BY <3>1, <3>2, <3>3
  <2>6. \/ UNCHANGED wrapped \/ CreateKeyState(i) \/ RotateCopy(i) \/ RotateEncrypt(i)
        \/ RotateRetire(i) \/ RotateFails(i)
    <3>1. CASE Writes(i)
      BY <3>1 DEF Writes, CreateDirs, CreateConfig, CreatePublish, BlobPublish, DbBegin, DbEnd,
                  RotateRename, RotatePublish
    <3> QED BY <3>1, OtherSteps DEF data
  <2> QED BY <2>1, <2>2, <2>3, <2>4, <2>5, <2>6
<1> QED BY <1>1, Invariant, PTL DEF Spec, KeyStateKept

----------------------------------------------------------------------------
(***************************************************************************)
(* The refinement: under the invariant the stored blobs and what every     *)
(* open handle reads are both the acknowledged blobs.                      *)
(***************************************************************************)
\* No file comes to be that is neither an acknowledged blob nor a copy of one.
LEMMA FilesAckedStep ==
  ASSUME TypeOK, FilesAcked, [Next]_vars
  PROVE  FilesAcked'
<1> USE DEF FilesAcked
<1>1. CASE UNCHANGED <<files, acked>> BY <1>1
<1>2. ASSUME NEW i \in Instances, BlobPublish(i) PROVE FilesAcked'
  <2> PICK a \in arg[i] :
        /\ files' = files \union {[gen |-> gen[i], id |-> a.id, val |-> a.val, key |-> dek[i]]}
        /\ acked' = acked \union {a}
    BY <1>2 DEF BlobPublish
  <2>1. a = [id |-> a.id, val |-> a.val] BY DEF Arg, TypeOK
  <2> SUFFICES ASSUME NEW h \in files' PROVE [id |-> h.id, val |-> h.val] \in acked'
    OBVIOUS
  <2>2. h \in files \/ (h.id = a.id /\ h.val = a.val) OBVIOUS
  <2> QED BY <2>1, <2>2
<1>3. ASSUME UNCHANGED acked,
             \A h \in files' : \E f \in files : f.id = h.id /\ f.val = h.val
      PROVE  FilesAcked'
  <2> SUFFICES ASSUME NEW h \in files' PROVE [id |-> h.id, val |-> h.val] \in acked
    BY <1>3
  <2> PICK f \in files : f.id = h.id /\ f.val = h.val BY <1>3
  <2> QED OBVIOUS
<1>4. ASSUME NEW i \in Instances,
             RotateCopy(i) \/ RotateEncrypt(i) \/ RotateRetire(i) \/ RotateFails(i)
      PROVE  FilesAcked'
  <2>1. CASE RotateCopy(i)
    <3>1. /\ acked' = acked
          /\ files' = files \union {[gen |-> fresh, id |-> f.id, val |-> f.val, key |-> f.key]
                                    : f \in FilesOf(gen[i])}
      BY <2>1 DEF RotateCopy, FilesInto
    <3>2. ASSUME NEW h \in files' PROVE \E f \in files : f.id = h.id /\ f.val = h.val
      BY <3>1 DEF FilesOf
    <3> QED BY <1>3, <3>1, <3>2
  <2>2. CASE RotateEncrypt(i)
    <3> DEFINE n == other[i]
               NewKey(key) == IF Encrypted THEN n ELSE key
    <3>1. /\ acked' = acked
          /\ files' = (files \ FilesOf(n)) \union
               {[gen |-> n, id |-> f.id, val |-> f.val, key |-> NewKey(f.key)] : f \in FilesOf(n)}
      BY <2>2 DEF RotateEncrypt
    <3> HIDE DEF NewKey
    <3>2. ASSUME NEW h \in files' PROVE \E f \in files : f.id = h.id /\ f.val = h.val
      BY <3>1 DEF FilesOf
    <3> QED BY <1>3, <3>1, <3>2
  <2>3. CASE RotateRetire(i) \/ RotateFails(i)
    <3>1. acked' = acked /\ files' \subseteq files
      BY <2>3 DEF RotateRetire, RotateFails, RemoveGeneration, disk
    <3> QED BY <1>3, <3>1
  <2> QED BY <1>4, <2>1, <2>2, <2>3
<1>5. CASE UNCHANGED vars BY <1>1, <1>5 DEF vars, disk
<1>6. ASSUME NEW i \in Instances, Step(i) PROVE FilesAcked'
  <2>1. CASE UNCHANGED data BY <1>1, <2>1 DEF data
  <2>2. CASE Writes(i)
    <3>1. \/ UNCHANGED <<files, acked>>
          \/ BlobPublish(i) \/ RotateCopy(i) \/ RotateEncrypt(i) \/ RotateRetire(i)
          \/ RotateFails(i)
      BY <2>2 DEF Writes, CreateDirs, CreateKeyState, CreateConfig, CreatePublish, DbBegin,
                  DbEnd, RotateRename, RotatePublish
    <3> QED BY <1>1, <1>2, <1>4, <3>1
  <2> QED BY <1>6, <2>1, <2>2, OtherSteps
<1> QED BY <1>5, <1>6 DEF Next, Step

\* The generation the next open selects holds exactly the acknowledged blobs.
LEMMA StoreIsAcked ==
  ASSUME IInv, FilesAcked
  PROVE  BlobsOf(ActiveGen, wrapped[ActiveGen]) = acked
<1> USE DEF IInv, TypeOK, DiskTypeOK
<1> DEFINE g == ActiveGen
           k == wrapped[g]
           S(b) == {x \in FilesOf(g) : x.id = b /\ dir[g] = "final" /\ Decrypts(x.key, k)}
<1>1. \A b : ReadBlob(g, k, b) = {f.val : f \in S(b)} BY DEF ReadBlob
<1>2. ASSUME NEW a \in BlobsOf(g, k) PROVE a \in acked
  <2>1. a \in Arg /\ a.val \in {f.val : f \in S(a.id)} BY <1>1 DEF BlobsOf
  <2>2. PICK f \in S(a.id) : f.val = a.val BY <2>1
  <2>3. f \in files /\ f.id = a.id BY <2>2 DEF FilesOf
  <2>4. a = [id |-> f.id, val |-> f.val] BY <2>1, <2>2, <2>3 DEF Arg
  <2> QED BY <2>3, <2>4 DEF FilesAcked
<1>3. ASSUME NEW a \in acked PROVE a \in BlobsOf(g, k)
  <2>1. dir[g] = "final" /\ Whole(g, k) BY DEF VaultInv
  <2>2. PICK f \in FilesOf(g) : f.id = a.id /\ f.val = a.val BY <2>1 DEF Whole
  <2>3. f \in S(a.id) BY <2>1, <2>2 DEF Whole
  <2>4. a.val \in {x.val : x \in S(a.id)} BY <2>2, <2>3
  <2> QED BY <1>1, <2>4 DEF BlobsOf
<1> QED BY <1>2, <1>3

(* Under one owner the vault implements the write-once store: rotation,    *)
(* crashes and failures are stutters of it, whoever holds which lock, and  *)
(* every open handle reads exactly what a fresh open would.                *)
THEOREM Refinement == ASSUME OneOwner PROVE Spec => ImplementsStore
<1> DEFINE store == BlobsOf(ActiveGen, wrapped[ActiveGen])
           view == [i \in Sessions |-> BlobsOf(gen[i], dek[i])]
           Mapped == store = acked /\ view = [i \in Sessions |-> acked]
<1>1. Init => TypeOK /\ FilesAcked /\ acked = {} /\ Sessions = {}
  BY DEF Init, TypeOK, DiskTypeOK, FilesAcked, Sessions, SessionPcs, RotatePcs, Pcs, Gens, Root,
         First, NoPointer, Keys, NoKey, NoDb, DbStates
<1>2. IInv /\ FilesAcked => Mapped
  BY StoreIsAcked DEF IInv, HandleInv, HandleOK, Sessions
<1>3. IInv' /\ FilesAcked' => Mapped'
  BY <1>2, PTL
<1>4. Init => Store!Init
  <2> SUFFICES ASSUME Init PROVE Store!Init
    OBVIOUS
  <2>1. IInv /\ FilesAcked BY <1>1, InitIInv DEF IInv
  <2> QED BY <1>1, <1>2, <2>1 DEF Store!Init
<1>5. IInv /\ Mapped /\ Mapped' /\ [Next]_vars => [Store!Next]_(Store!vars)
  <2> SUFFICES ASSUME IInv, Mapped, Mapped', [Next]_vars
               PROVE  Store!Next \/ UNCHANGED Store!vars
    OBVIOUS
  <2> HIDE DEF store, view
  <2>0. store' = store /\ view' = view => UNCHANGED Store!vars
    BY DEF Store!vars, store, view
  <2>1. CASE UNCHANGED vars
    <3>1. Sessions' = Sessions /\ acked' = acked BY <2>1 DEF vars, Sessions
    <3> QED BY <2>0, <3>1
  <2>2. CASE Next
    <3> PICK i \in Instances : Step(i) BY <2>2 DEF Next, Step
    <3> USE DEF IInv
    <3>1. Sessions' \in {Sessions, Sessions \union {i}, Sessions \ {i}}
      <4>1. \A j \in Instances : j # i => pc'[j] = pc[j] BY Locality
      <4> QED BY <4>1 DEF Sessions
    <3>2. DOMAIN view = Sessions /\ view' = [j \in Sessions' |-> store'] OBVIOUS
    <3>3. CASE acked' = acked
      <4>1. CASE Sessions' = Sessions BY <2>0, <3>3, <4>1
      <4>2. CASE i \notin Sessions /\ Sessions' = Sessions \union {i}
        <5>1. i \notin DOMAIN view /\ DOMAIN view \union {i} = Sessions' BY <3>2, <4>2
        <5>2. store' = store BY <3>3
        <5>3. Store!Open(i) BY <3>2, <5>1, <5>2 DEF Store!Open, Store!Publish, store, view
        <5> QED BY <5>3 DEF Store!Next
      <4>3. CASE i \in Sessions /\ Sessions' = Sessions \ {i}
        <5>1. Store!Close(i) BY <3>2, <3>3, <4>3 DEF Store!Close, Store!Publish, store, view
        <5> QED BY <5>1 DEF Store!Next
      <4> QED BY <3>1, <4>1, <4>2, <4>3
    <3>4. CASE BlobPublish(i)
      <4>1. PICK a \in arg[i] : /\ \A f \in FilesOf(gen[i]) : f.id # a.id
                               /\ acked' = acked \union {a}
        BY <3>4 DEF BlobPublish
      <4>2. pc[i] = "blob" /\ pc'[i] = "idle" BY <3>4 DEF BlobPublish, Goto, TypeOK
      <4>3. i \in Sessions /\ Sessions' = Sessions
        BY <3>1, <4>2 DEF Sessions, SessionPcs
      <4>4. a \in Store!Stored BY DEF TypeOK, Arg, Store!Stored
      <4>5. ASSUME NEW b \in acked PROVE b.id # a.id
        <5>1. gen[i] = ActiveGen /\ config
          BY <4>2 DEF HandleInv, HandleOK, SessionPcs
        <5>2. PICK f \in FilesOf(gen[i]) : f.id = b.id BY <5>1 DEF VaultInv, Whole
        <5> QED BY <4>1, <5>2
      <4>6. Store!Write(i, a)
        BY <3>2, <4>1, <4>3, <4>5 DEF Store!Write, Store!Publish, store, view
      <4> QED BY <4>4, <4>6 DEF Store!Next
    <3>5. acked' = acked \/ BlobPublish(i)
      BY OtherSteps
      DEF data, Writes, CreateDirs, CreateKeyState, CreateConfig, CreatePublish, DbBegin, DbEnd,
          RotateCopy, RotateEncrypt, RotateRename, RotatePublish, RotateRetire, RotateFails
    <3> QED BY <3>3, <3>4, <3>5
  <2> QED BY <2>1, <2>2
<1>6. TypeOK /\ FilesAcked /\ [Next]_vars => FilesAcked'
  BY FilesAckedStep
<1> QED BY <1>1, <1>2, <1>3, <1>4, <1>5, <1>6, Invariant, PTL DEF Spec, IInv, ImplementsStore, Store!Spec

----------------------------------------------------------------------------
(***************************************************************************)
(* The safety part of OpenReturns.                                         *)
(***************************************************************************)
(* An open never waits for an instance that is at rest, unless its         *)
(* rotate_dek could not retake the shared lock.                            *)
THEOREM NoLockLeftBehind == Spec => []LockReturned
<1> DEFINE Inv == /\ LockReturned
                  /\ \A i \in Instances : pc[i] \in CreatePcs => i \in Creators
                  /\ \A i \in Instances : pc[i] \in RotatePcs \union {"rot_try", "relock"} =>
                       i \in Rotators
<1> USE DEF CreatePcs, RotatePcs, HoldSharedPcs, Goto, SetLock, LockReturned
<1>1. Init => Inv BY DEF Init
<1>2. TypeOK /\ Inv /\ [Next]_vars => Inv'
  <2> SUFFICES ASSUME TypeOK, Inv, [Next]_vars PROVE Inv'
    OBVIOUS
  <2> USE DEF TypeOK
  <2>1. CASE UNCHANGED vars BY <2>1 DEF vars
  <2>2. ASSUME NEW i \in Instances, Drop(i) PROVE Inv' BY <2>2 DEF Drop
  <2>3. ASSUME NEW i \in Instances, Create(i) PROVE Inv'
    <3>1. CASE CreateRefused(i) \/ CreateFails(i) BY <2>2, <3>1 DEF CreateRefused, CreateFails
    <3>2. CASE CreateLock(i) BY <3>2 DEF CreateLock
    <3>3. CASE CreateDirs(i) \/ CreateKeyState(i) \/ CreateConfig(i) \/ CreatePublish(i)
      BY <3>3 DEF CreateDirs, CreateKeyState, CreateConfig, CreatePublish
    <3> QED BY <2>3, <3>1, <3>2, <3>3 DEF Create
  <2>4. ASSUME NEW i \in Instances, Open(i) PROVE Inv'
    <3>1. CASE OpenFails(i) BY <2>2, <3>1 DEF OpenFails
    <3>2. CASE OpenBegin(i) \/ OpenLock(i) \/ OpenRead(i)
      BY <3>2 DEF OpenBegin, OpenLock, OpenRead
    <3> QED BY <2>4, <3>1, <3>2 DEF Open
  <2>5. ASSUME NEW i \in Instances, WriteBlob(i) \/ WriteDb(i) PROVE Inv'
    BY <2>5 DEF WriteBlob, BlobBegin, BlobPublish, BlobFails, WriteDb, DbBegin, DbEnd
  <2>6. ASSUME NEW i \in Instances, Rotate(i) PROVE Inv'
    <3>1. CASE RotateUnlock(i) \/ RotateTryLock(i) \/ RotateInUse(i)
      BY <3>1 DEF RotateUnlock, RotateTryLock, RotateInUse
    <3>2. CASE RotateCopy(i) \/ RotateEncrypt(i) \/ RotateRename(i) \/ RotatePublish(i)
      BY <3>2 DEF RotateCopy, RotateEncrypt, RotateRename, RotatePublish
    <3>3. CASE RotateRetire(i) \/ RotateFails(i) BY <3>3 DEF RotateRetire, RotateFails
    <3> QED BY <2>6, <3>1, <3>2, <3>3 DEF Rotate
  <2>7. ASSUME NEW i \in Instances, Relock(i) PROVE Inv'
    <3>1. CASE DropExclusive(i) \/ HoldShared(i) BY <3>1 DEF DropExclusive, HoldShared
    <3>2. CASE HoldSharedFails(i) BY <2>2, <3>2 DEF HoldSharedFails
    <3> QED BY <2>7, <3>1, <3>2 DEF Relock
  <2>8. ASSUME NEW i \in Instances, Close(i) \/ Crash(i) PROVE Inv'
    BY <2>2, <2>8 DEF Close, Crash
  <2> QED BY <2>1, <2>3, <2>4, <2>5, <2>6, <2>7, <2>8 DEF Next
<1>3. Inv => LockReturned OBVIOUS
<1> QED BY <1>1, <1>2, <1>3, TypeCorrect, PTL DEF Spec
=============================================================================
