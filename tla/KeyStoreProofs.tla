---------------------------- MODULE KeyStoreProofs ----------------------------
(* Type correctness, OneKek and WholeOrGone of KeyStore, for every set of      *)
(* callers and keys.                                                           *)
EXTENDS KeyStore, TLAPS

FileStorage == KeyStorage \ {"MACOS_KEYCHAIN"}

\* Who works on the file was asked for a file, and who works on the keychain
\* for the keychain; a caller has drawn a key before it stores it.
PlacesOK ==
  \A c \in Callers :
    /\ pc[c] \in {"inspect", "read", "open", "reinspect", "write", "sync"} =>
         call[c].storage # "MACOS_KEYCHAIN"
    /\ pc[c] \in {"find", "add"} => call[c].storage = "MACOS_KEYCHAIN"
    /\ pc[c] \in {"open", "write", "sync", "add"} => kek[c] # NoKek

\* The file that is being written is its creator's, and nobody else writes.
WriterOK ==
  /\ \A c \in Callers :
       /\ pc[c] = "write" => file.kind = "partial"
       /\ pc[c] = "sync" => file.kind = "whole" /\ file.kek = kek[c]
            /\ (file.sealed <=> call[c].storage = "WINDOWS_DPAPI")
  /\ \A c, d \in Callers :
       pc[c] \in {"write", "sync"} /\ pc[d] \in {"write", "sync"} => c = d

\* A key that is being stored is its caller's alone, and was never returned.
Storing(c) == pc[c] \in {"open", "write", "sync", "add"}
FreshOK ==
  /\ \A c \in Callers : Storing(c) => kek[c] \in drawn
  /\ \A c, d \in Callers : Storing(c) /\ Storing(d) /\ c # d => kek[c] # kek[d]
  /\ \A s \in KeyStorage : made[s] \subseteq drawn
  /\ \A c \in Callers, s \in KeyStorage : Storing(c) => kek[c] \notin made[s]

\* A file that holds a key its maker returned was synced; its name need not be.
MadeSynced == \A s \in FileStorage : \A k \in made[s] : Holds(s, k) => file.synced

KeyInv == KeyTypeOK /\ PlacesOK /\ WriterOK /\ FreshOK /\ MadeSynced /\ OneKek

----------------------------------------------------------------------------
Files == [kind: FileKinds, sealed: BOOLEAN, kek: Keks \union {NoKek},
          synced: BOOLEAN, entry: BOOLEAN]

\* The records that files are.
LEMMA NotWholeFields ==
  ASSUME NEW kind \in FileKinds, NEW synced \in BOOLEAN
  PROVE  LET f == NotWhole(kind, synced) IN
         /\ f \in Files
         /\ f.kind = kind /\ f.kek = NoKek /\ f.synced = synced
  BY DEF NotWhole, Files

LEMMA WholeFields ==
  ASSUME NEW s \in KeyStorage, NEW k \in Keks
  PROVE  LET f == Whole(s, k) IN
         /\ f \in Files
         /\ f.kind = "whole" /\ f.kek = k
         /\ f.sealed <=> s = "WINDOWS_DPAPI"
  BY DEF Whole, Files, FileKinds

LEMMA SyncedFields ==
  ASSUME NEW f \in Files
  PROVE  /\ LET g == [f EXCEPT !.synced = TRUE] IN
            /\ g \in Files
            /\ g.kind = f.kind /\ g.kek = f.kek /\ g.sealed = f.sealed /\ g.synced
         /\ LET g == [f EXCEPT !.synced = TRUE, !.entry = TRUE] IN
            /\ g \in Files
            /\ g.kind = f.kind /\ g.kek = f.kek /\ g.sealed = f.sealed /\ g.synced
  BY DEF Files

LEMMA KeyInit == Init => KeyInv
<1> SUFFICES ASSUME Init PROVE KeyInv
  OBVIOUS
<1> USE KeksAssumption, MaxCallsAssumption
<1>1. PICK kind \in FileKinds \ {"whole"} : file = NotWhole(kind, TRUE)
  BY DEF Init
<1>2. file \in Files /\ file.kind # "whole" /\ file.kek = NoKek
  BY <1>1, NotWholeFields
<1>3. KeyTypeOK
  <2>1. given \in [KeyStorage -> SUBSET Keks] /\ made \in [KeyStorage -> SUBSET Keks]
    BY DEF Init
  <2>2. call \in [Callers -> [create: BOOLEAN, storage: KeyStorage]]
    BY DEF Init, KeyStorage
  <2>3. calls \in 0..MaxCalls
    BY DEF Init
  <2>4. pc \in [Callers -> Pcs] /\ kek \in [Callers -> Keks \union {NoKek}]
    BY DEF Init, Pcs
  <2> QED BY <1>2, <2>1, <2>2, <2>3, <2>4 DEF Init, KeyTypeOK, Files
<1>4. PlacesOK /\ WriterOK
  BY DEF Init, PlacesOK, WriterOK
<1>5. MadeSynced /\ OneKek
  BY DEF Init, MadeSynced, OneKek, FileStorage, KeyStorage
<1>6. FreshOK
  BY DEF Init, FreshOK, Storing
<1> QED BY <1>3, <1>4, <1>5, <1>6 DEF KeyInv

\* A step that stores, draws and returns nothing new, or only what was stored.
LEMMA FreshStep ==
  ASSUME KeyTypeOK, PlacesOK, FreshOK, [Next]_vars
  PROVE  FreshOK'
<1> USE DEF FreshOK, Storing
<1>1. ASSUME \A c \in Callers : Storing(c)' => Storing(c),
             UNCHANGED <<kek, drawn, made>>
      PROVE  FreshOK'
  BY <1>1
\* A draw: the new key is nobody's yet.
<1>2. ASSUME NEW c \in Callers, NEW k \in Keks \ drawn,
             kek' = [kek EXCEPT ![c] = k], drawn' = drawn \union {k}, made' = made,
             NEW place \in Pcs, pc' = [pc EXCEPT ![c] = place]
      PROVE  FreshOK'
  <2>1. kek'[c] = k /\ \A d \in Callers \ {c} : kek'[d] = kek[d] /\ pc'[d] = pc[d]
    BY <1>2 DEF KeyTypeOK
  <2>2. \A d \in Callers : Storing(d)' => kek'[d] \in drawn'
    BY <1>2, <2>1
  <2>3. \A d, e \in Callers : Storing(d)' /\ Storing(e)' /\ d # e => kek'[d] # kek'[e]
    BY <1>2, <2>1
  <2>4. \A d \in Callers, s \in KeyStorage : Storing(d)' => kek'[d] \notin made'[s]
    BY <1>2, <2>1
  <2> QED BY <1>2, <2>2, <2>3, <2>4
\* A return of the key that was stored: its maker stores nothing any more.
<1>3. ASSUME NEW c \in Callers, Storing(c), ReturnKek(c, kek[c], TRUE),
             UNCHANGED <<kek, drawn>>
      PROVE  FreshOK'
  <2>1. /\ ~Storing(c)'
        /\ \A d \in Callers : Storing(d)' => Storing(d) /\ d # c
    BY <1>3 DEF ReturnKek, Goto, KeyTypeOK
  <2>2. \A s \in KeyStorage : made'[s] \subseteq made[s] \union {kek[c]}
    BY <1>3 DEF ReturnKek, KeyTypeOK
  <2> QED BY <1>3, <2>1, <2>2
<1>4. ASSUME NEW c \in Callers, Call(c) PROVE FreshOK'
  BY <1>1, <1>4 DEF Call, Goto, KeyTypeOK
<1>5. ASSUME NEW c \in Callers, Inspect(c) PROVE FreshOK'
  <2>1. CASE UNCHANGED <<kek, drawn, made>> /\ \A d \in Callers : Storing(d)' => Storing(d)
    BY <1>1, <2>1
  <2>2. ASSUME NEW k \in Keks \ drawn, kek' = [kek EXCEPT ![c] = k],
               drawn' = drawn \union {k}, Goto(c, "open"), made' = made
        PROVE  FreshOK'
    BY <1>2, <2>2 DEF Goto, Pcs
  <2> QED BY <1>5, <2>1, <2>2 DEF Inspect, Err, Goto, KeyTypeOK
<1>6. ASSUME NEW c \in Callers, Read(c) \/ Reinspect(c) \/ Stop(c) PROVE FreshOK'
  <2>1. UNCHANGED <<kek, drawn, made>>
    BY <1>6 DEF Read, Reinspect, Stop, ReturnKek, Err
  <2>2. \E place \in {"idle", "read"} : pc' = [pc EXCEPT ![c] = place]
    BY <1>6 DEF Read, Reinspect, Stop, ReturnKek, Err, Goto
  <2>3. \A d \in Callers : Storing(d)' => Storing(d)
    BY <2>2 DEF KeyTypeOK
  <2> QED BY <1>1, <2>1, <2>3
<1>7. ASSUME NEW c \in Callers, Open(c) \/ Write(c) PROVE FreshOK'
  <2>1. UNCHANGED <<kek, drawn, made>>
    BY <1>7 DEF Open, Write
  <2>2. Storing(c) /\ \E place \in Pcs : pc' = [pc EXCEPT ![c] = place]
    BY <1>7 DEF Open, Write, Goto, Pcs
  <2>3. \A d \in Callers : Storing(d)' => Storing(d)
    BY <2>2 DEF KeyTypeOK
  <2> QED BY <1>1, <2>1, <2>3
<1>8. ASSUME NEW c \in Callers, Sync(c) PROVE FreshOK'
  BY <1>3, <1>8 DEF Sync
<1>9. ASSUME NEW c \in Callers, Find(c) PROVE FreshOK'
  <2>1. CASE UNCHANGED <<kek, drawn, made>> /\ \A d \in Callers : Storing(d)' => Storing(d)
    BY <1>1, <2>1
  <2>2. ASSUME NEW k \in Keks \ drawn, kek' = [kek EXCEPT ![c] = k],
               drawn' = drawn \union {k}, Goto(c, "add"), made' = made
        PROVE  FreshOK'
    BY <1>2, <2>2 DEF Goto, Pcs
  <2> QED BY <1>9, <2>1, <2>2, SMTT(30) DEF Find, Err, ReturnKek, Goto, KeyTypeOK
<1>10. ASSUME NEW c \in Callers, Add(c) PROVE FreshOK'
  <2>1. CASE ReturnKek(c, kek[c], TRUE)
    BY <1>3, <1>10, <2>1 DEF Add
  <2>2. CASE Err(c)
    BY <1>1, <1>10, <2>2 DEF Add, Err, Goto, KeyTypeOK
  <2> QED BY <1>10, <2>1, <2>2 DEF Add
<1>11. CASE PowerLoss
  BY <1>1, <1>11 DEF PowerLoss
<1>12. CASE UNCHANGED vars
  BY <1>1, <1>12 DEF vars
<1> QED
  BY <1>4, <1>5, <1>6, <1>7, <1>8, <1>9, <1>10, <1>11, <1>12 DEF Next

LEMMA KeyNext == KeyInv /\ [Next]_vars => KeyInv'
<1> SUFFICES ASSUME KeyInv, [Next]_vars PROVE KeyInv'
  OBVIOUS
<1> USE KeksAssumption, MaxCallsAssumption
<1>0. /\ KeyTypeOK /\ PlacesOK /\ WriterOK /\ FreshOK /\ MadeSynced /\ OneKek
      /\ FreshOK'
  BY FreshStep DEF KeyInv
\* A step that leaves the stores alone and returns nothing, or a key that is held.
<1>a. ASSUME UNCHANGED <<file, keychain, made, gone, given>>
      PROVE  MadeSynced' /\ OneKek'
  BY <1>0, <1>a DEF MadeSynced, OneKek, Holds, Loadable
<1>b. ASSUME UNCHANGED <<file, keychain, made, gone>>,
             NEW s \in KeyStorage, NEW k \in Keks, Holds(s, k),
             given' = [given EXCEPT ![s] = @ \union {k}]
      PROVE  MadeSynced' /\ OneKek'
  <2>1. \A t, j : Holds(t, j)' <=> Holds(t, j)
    BY <1>b DEF Holds, Loadable
  <2>2. \A t \in KeyStorage : \A j \in given'[t] : j \in given[t] \/ (t = s /\ j = k)
    BY <1>0, <1>b DEF KeyTypeOK
  <2>3. MadeSynced'
    BY <1>0, <1>b, <2>1 DEF MadeSynced
  <2>4. OneKek'
    BY <1>0, <1>b, <2>1, <2>2 DEF OneKek, KeyStorage
  <2> QED BY <2>3, <2>4
\* What is held in the file, and what of it is still there.
<1>c. \A s \in FileStorage : \A k : Holds(s, k) <=> Loadable(s) /\ file.kek = k
  BY DEF Holds, FileStorage
<1>d. file.kind # "whole" => \A s \in FileStorage : given[s] \subseteq gone
  BY <1>0, <1>c DEF OneKek, Loadable, FileStorage
<1>1. ASSUME NEW c \in Callers, Call(c) PROVE KeyInv'
  <2>1. KeyTypeOK' /\ PlacesOK' /\ WriterOK'
    BY <1>0, <1>1, SMTT(30) DEF Call, Goto, KeyTypeOK, PlacesOK, WriterOK, Pcs
  <2>2. MadeSynced' /\ OneKek'
    BY <1>a, <1>1 DEF Call
  <2> QED BY <1>0, <2>1, <2>2 DEF KeyInv
<1>2. ASSUME NEW c \in Callers, Inspect(c) PROVE KeyInv'
  <2>0. \E place \in {"idle", "read", "open"} : pc' = [pc EXCEPT ![c] = place]
    BY <1>2 DEF Inspect, Err, Goto
  <2>1. KeyTypeOK' /\ PlacesOK' /\ WriterOK'
    <3>1. KeyTypeOK'
      BY <1>0, <1>2, <2>0, SMTT(30) DEF Inspect, Err, KeyTypeOK, Pcs
    <3>2. PlacesOK'
      BY <1>0, <1>2, SMTT(30) DEF Inspect, Err, Goto, KeyTypeOK, PlacesOK
    <3>3. WriterOK'
      BY <1>0, <1>2, <2>0, SMTT(30) DEF Inspect, KeyTypeOK, WriterOK
    <3> QED BY <3>1, <3>2, <3>3
  <2>2. MadeSynced' /\ OneKek'
    BY <1>a, <1>2 DEF Inspect, Err
  <2> QED BY <1>0, <2>1, <2>2 DEF KeyInv
<1>3. ASSUME NEW c \in Callers, Read(c) PROVE KeyInv'
  <2>1. KeyTypeOK' /\ PlacesOK' /\ WriterOK'
    BY <1>0, <1>3, SMTT(30)
    DEF Read, Err, ReturnKek, Loadable, Goto, KeyTypeOK, PlacesOK, WriterOK, Pcs
  <2>2. MadeSynced' /\ OneKek'
    <3>1. CASE Loadable(call[c].storage)
      <4>1. call[c].storage \in KeyStorage /\ call[c].storage # "MACOS_KEYCHAIN"
        BY <1>0, <1>3 DEF Read, KeyTypeOK, PlacesOK
      <4>2. file.kek \in Keks /\ Holds(call[c].storage, file.kek)
        BY <1>0, <3>1, <4>1 DEF Holds, Loadable, KeyTypeOK
      <4> QED BY <1>b, <1>3, <3>1, <4>1, <4>2 DEF Read, ReturnKek
    <3>2. CASE ~Loadable(call[c].storage)
      BY <1>a, <1>3, <3>2 DEF Read, Err
    <3> QED BY <3>1, <3>2
  <2> QED BY <1>0, <2>1, <2>2 DEF KeyInv
<1>4. ASSUME NEW c \in Callers, Open(c) PROVE KeyInv'
  <2>0. /\ NotWhole("partial", FALSE) \in Files
        /\ NotWhole("partial", FALSE).kind = "partial"
        /\ NotWhole("partial", FALSE).kek = NoKek
    BY NotWholeFields DEF FileKinds
  <2>1. KeyTypeOK' /\ PlacesOK'
    <3>1. file' \in Files /\ (file'.kind = "whole" <=> file'.kek # NoKek)
      BY <1>0, <1>4, <2>0 DEF Open, KeyTypeOK, Files
    <3>2. pc' \in [Callers -> Pcs]
      BY <1>0, <1>4 DEF Open, Goto, KeyTypeOK, Pcs
    <3>3. KeyTypeOK'
      BY <1>0, <1>4, <3>1, <3>2 DEF Open, KeyTypeOK, Files
    <3>4. PlacesOK'
      BY <1>0, <1>4 DEF Open, Goto, KeyTypeOK, PlacesOK
    <3> QED BY <3>3, <3>4
  <2>2. WriterOK'
    <3>1. CASE file.kind = "absent"
      <4>1. \A d \in Callers : pc[d] \notin {"write", "sync"}
        BY <1>0, <3>1 DEF WriterOK
      <4>2. pc' = [pc EXCEPT ![c] = "write"] /\ file'.kind = "partial"
        BY <1>4, <2>0, <3>1 DEF Open, Goto
      <4> QED BY <1>0, <4>1, <4>2 DEF KeyTypeOK, WriterOK
    <3>2. CASE file.kind # "absent"
      BY <1>0, <1>4, <3>2 DEF Open, Goto, KeyTypeOK, WriterOK
    <3> QED BY <3>1, <3>2
  <2>3. MadeSynced' /\ OneKek'
    <3>1. CASE file.kind = "absent"
      <4>1. file'.kind = "partial" /\ UNCHANGED <<keychain, given, made, gone>>
        BY <1>4, <2>0, <3>1 DEF Open
      <4>2. MadeSynced'
        BY <4>1 DEF MadeSynced, Holds, Loadable, FileStorage
      <4>3. OneKek'
        BY <1>0, <1>d, <3>1, <4>1 DEF OneKek, Holds, FileStorage
      <4> QED BY <4>2, <4>3
    <3>2. CASE file.kind # "absent"
      BY <1>a, <1>4, <3>2 DEF Open
    <3> QED BY <3>1, <3>2
  <2> QED BY <1>0, <2>1, <2>2, <2>3 DEF KeyInv
<1>5. ASSUME NEW c \in Callers, Reinspect(c) PROVE KeyInv'
  <2>1. KeyTypeOK' /\ PlacesOK' /\ WriterOK'
    BY <1>0, <1>5, SMTT(30) DEF Reinspect, Err, Goto, KeyTypeOK, PlacesOK, WriterOK, Pcs
  <2>2. MadeSynced' /\ OneKek'
    BY <1>a, <1>5 DEF Reinspect, Err
  <2> QED BY <1>0, <2>1, <2>2 DEF KeyInv
<1>6. ASSUME NEW c \in Callers, Write(c) PROVE KeyInv'
  <2>0. /\ file' \in Files /\ file'.kind = "whole" /\ file'.kek = kek[c]
        /\ file'.sealed <=> call[c].storage = "WINDOWS_DPAPI"
    BY <1>0, <1>6, WholeFields DEF Write, KeyTypeOK, PlacesOK
  <2>1. KeyTypeOK' /\ PlacesOK'
    <3>1. pc' \in [Callers -> Pcs]
      BY <1>0, <1>6 DEF Write, Goto, KeyTypeOK, Pcs
    <3>2. KeyTypeOK'
      BY <1>0, <1>6, <2>0, <3>1 DEF Write, KeyTypeOK, Files, PlacesOK
    <3>3. PlacesOK'
      BY <1>0, <1>6 DEF Write, Goto, KeyTypeOK, PlacesOK
    <3> QED BY <3>2, <3>3
  <2>2. WriterOK'
    <3>1. \A d \in Callers : d # c => pc[d] \notin {"write", "sync"}
      BY <1>0, <1>6 DEF Write, WriterOK
    <3> QED BY <1>0, <1>6, <2>0, <3>1 DEF Write, Goto, KeyTypeOK, WriterOK
  <2>3. UNCHANGED <<keychain, given, made, gone>> /\ file.kind = "partial"
    BY <1>0, <1>6 DEF Write, WriterOK
  \* What is written now has not been returned.
  <2>4. MadeSynced'
    <3>1. \A s \in FileStorage : kek[c] \notin made[s]
      BY <1>0, <1>6 DEF Write, FreshOK, Storing, FileStorage
    <3> QED BY <2>0, <2>3, <3>1 DEF MadeSynced, Holds, FileStorage
  <2>5. OneKek'
    BY <1>0, <1>d, <2>3 DEF OneKek, Holds, FileStorage
  <2> QED BY <1>0, <2>1, <2>2, <2>4, <2>5 DEF KeyInv
<1>7. ASSUME NEW c \in Callers, Sync(c) PROVE KeyInv'
  <2>0. file' \in Files /\ file'.kind = file.kind /\ file'.kek = file.kek
          /\ file'.sealed = file.sealed /\ file'.synced
    BY <1>0, <1>7, SyncedFields DEF Sync, KeyTypeOK, Files
  <2>1. KeyTypeOK' /\ PlacesOK' /\ WriterOK'
    <3>1. pc' \in [Callers -> Pcs]
      BY <1>0, <1>7 DEF Sync, ReturnKek, Goto, KeyTypeOK, Pcs
    <3>2. /\ given' \in [KeyStorage -> SUBSET Keks]
          /\ made' \in [KeyStorage -> SUBSET Keks]
      BY <1>0, <1>7 DEF Sync, ReturnKek, KeyTypeOK, PlacesOK
    <3>3. KeyTypeOK'
      BY <1>0, <1>7, <2>0, <3>1, <3>2 DEF Sync, KeyTypeOK, Files
    <3>4. PlacesOK'
      BY <1>0, <1>7 DEF Sync, ReturnKek, Goto, KeyTypeOK, PlacesOK
    <3>5. WriterOK'
      BY <1>0, <1>7, <2>0 DEF Sync, ReturnKek, Goto, KeyTypeOK, WriterOK
    <3> QED BY <3>3, <3>4, <3>5
  <2>2. MadeSynced'
    BY <2>0 DEF MadeSynced
  <2>3. \A s, k : Holds(s, k)' <=> Holds(s, k)
    BY <1>7, <2>0 DEF Sync, Holds, Loadable
  <2>4. Holds(call[c].storage, kek[c]) /\ call[c].storage # "MACOS_KEYCHAIN"
    BY <1>0, <1>7 DEF Sync, PlacesOK, WriterOK, Holds, Loadable
  <2>5. OneKek'
    <3>1. \A s \in KeyStorage : \A k \in given'[s] :
            k \in given[s] \/ (s = call[c].storage /\ k = kek[c])
      BY <1>0, <1>7 DEF Sync, ReturnKek, KeyTypeOK
    <3>2. gone' = gone
      BY <1>7 DEF Sync
    <3> QED BY <1>0, <2>3, <2>4, <3>1, <3>2 DEF OneKek, KeyStorage
  <2> QED BY <1>0, <2>1, <2>2, <2>5 DEF KeyInv
<1>8. ASSUME NEW c \in Callers, Find(c) PROVE KeyInv'
  <2>0. pc' \in [Callers -> Pcs] /\ kek' \in [Callers -> Keks \union {NoKek}]
    <3>1. \E place \in {"idle", "add"} : pc' = [pc EXCEPT ![c] = place]
      BY <1>8 DEF Find, Err, ReturnKek, Goto
    <3>2. kek' = kek \/ \E k \in Keks : kek' = [kek EXCEPT ![c] = k]
      BY <1>8 DEF Find
    <3> QED BY <1>0, <3>1, <3>2 DEF KeyTypeOK, Pcs
  <2>1. /\ given' \in [KeyStorage -> SUBSET Keks]
        /\ drawn' \in SUBSET Keks /\ made' = made
    BY <1>0, <1>8 DEF Find, Err, ReturnKek, KeyTypeOK
  <2>2. KeyTypeOK'
    BY <1>0, <1>8, <2>0, <2>1 DEF Find, KeyTypeOK
  <2>3. PlacesOK'
    BY <1>0, <1>8, SMTT(30) DEF Find, Err, ReturnKek, Goto, KeyTypeOK, PlacesOK
  <2>4. WriterOK'
    BY <1>0, <1>8, SMTT(30) DEF Find, Err, ReturnKek, Goto, KeyTypeOK, WriterOK
  <2>5. MadeSynced' /\ OneKek'
    <3>1. CASE keychain # NoKek
      <4>1. call[c].storage = "MACOS_KEYCHAIN" /\ keychain \in Keks
        BY <1>0, <1>8, <3>1 DEF Find, KeyTypeOK, PlacesOK
      <4>2. Holds(call[c].storage, keychain) /\ call[c].storage \in KeyStorage
        BY <4>1 DEF Holds, KeyStorage
      <4> QED BY <1>b, <1>8, <3>1, <4>1, <4>2 DEF Find, ReturnKek
    <3>2. CASE keychain = NoKek
      BY <1>a, <1>8, <3>2 DEF Find, Err
    <3> QED BY <3>1, <3>2
  <2> QED BY <1>0, <2>2, <2>3, <2>4, <2>5 DEF KeyInv
<1>9. ASSUME NEW c \in Callers, Add(c) PROVE KeyInv'
  <2>1. KeyTypeOK' /\ PlacesOK' /\ WriterOK'
    BY <1>0, <1>9, SMTT(30)
    DEF Add, Err, ReturnKek, Goto, KeyTypeOK, PlacesOK, WriterOK, Pcs
  <2>2. MadeSynced' /\ OneKek'
    <3>1. CASE keychain # NoKek
      BY <1>a, <1>9, <3>1 DEF Add, Err
    <3>2. CASE keychain = NoKek
      <4>1. /\ UNCHANGED <<file, gone>> /\ keychain' = kek[c]
            /\ given' = [given EXCEPT !["MACOS_KEYCHAIN"] = @ \union {kek[c]}]
            /\ made' = [made EXCEPT !["MACOS_KEYCHAIN"] = @ \union {kek[c]}]
        BY <1>0, <1>9, <3>2 DEF Add, ReturnKek, PlacesOK
      <4>2. given["MACOS_KEYCHAIN"] = {}
        BY <1>0, <3>2 DEF OneKek, Holds, KeyTypeOK, KeyStorage
      <4>3. given'["MACOS_KEYCHAIN"] = {kek[c]}
              /\ \A s \in FileStorage : given'[s] = given[s] /\ made'[s] = made[s]
        BY <1>0, <4>1, <4>2 DEF KeyTypeOK, KeyStorage, FileStorage
      <4>4. \A s \in FileStorage : \A k : Holds(s, k)' <=> Holds(s, k)
        BY <4>1 DEF Holds, Loadable, FileStorage
      <4>5. MadeSynced'
        BY <1>0, <4>1, <4>3, <4>4 DEF MadeSynced
      <4>6. \A k \in given'["MACOS_KEYCHAIN"] : Holds("MACOS_KEYCHAIN", k)'
        BY <4>1, <4>3 DEF Holds
      <4>7. \A s \in FileStorage : \A k \in given'[s] \ gone' : Holds(s, k)'
        BY <1>0, <4>1, <4>3, <4>4 DEF OneKek, FileStorage
      <4> QED BY <4>5, <4>6, <4>7 DEF OneKek, FileStorage
    <3> QED BY <3>1, <3>2
  <2> QED BY <1>0, <2>1, <2>2 DEF KeyInv
<1>10. ASSUME NEW c \in Callers, Stop(c) PROVE KeyInv'
  <2>1. KeyTypeOK' /\ PlacesOK' /\ WriterOK'
    BY <1>0, <1>10, SMTT(30) DEF Stop, Err, Goto, KeyTypeOK, PlacesOK, WriterOK, Pcs
  <2>2. MadeSynced' /\ OneKek'
    BY <1>a, <1>10 DEF Stop, Err
  <2> QED BY <1>0, <2>1, <2>2 DEF KeyInv
<1>11. ASSUME PowerLoss PROVE KeyInv'
  <2>0. /\ PlacesOK' /\ WriterOK' /\ pc' \in [Callers -> Pcs]
        /\ UNCHANGED <<platform, keychain, call, kek, drawn, calls, given, made>>
    BY <1>11 DEF PowerLoss, PlacesOK, WriterOK, Pcs
  \* The file is as it was.
  <2>1. CASE file' = [file EXCEPT !.synced = TRUE, !.entry = TRUE] /\ gone' = gone
    <3>1. file' \in Files /\ file'.kind = file.kind /\ file'.kek = file.kek
            /\ file'.sealed = file.sealed /\ file'.synced
      BY <1>0, <2>1, SyncedFields DEF KeyTypeOK, Files
    <3>2. KeyTypeOK'
      BY <1>0, <2>0, <2>1, <3>1 DEF KeyTypeOK, Files
    <3>3. \A s, k : Holds(s, k)' <=> Holds(s, k)
      BY <2>0, <3>1 DEF Holds, Loadable
    <3>4. MadeSynced' /\ OneKek'
      BY <1>0, <2>0, <2>1, <3>1, <3>3 DEF MadeSynced, OneKek
    <3> QED BY <1>0, <2>0, <3>2, <3>4 DEF KeyInv
  \* It is short or not there: its key is gone.
  <2>2. CASE /\ file' \in {NotWhole("absent", TRUE), NotWhole("partial", TRUE)}
             /\ gone' = gone \union ({file.kek} \ {NoKek})
    <3>1. file' \in Files /\ file'.kind # "whole" /\ file'.kek = NoKek /\ file'.synced
      BY <2>2, NotWholeFields DEF FileKinds
    <3>2. gone' \in SUBSET Keks
      BY <1>0, <2>2 DEF KeyTypeOK
    <3>3. KeyTypeOK'
      BY <1>0, <2>0, <3>1, <3>2 DEF KeyTypeOK, Files
    <3>4. MadeSynced'
      BY <3>1 DEF MadeSynced
    <3>5. \A s \in FileStorage : given[s] \subseteq gone'
      <4> SUFFICES ASSUME NEW s \in FileStorage, NEW k \in given[s], k \notin gone
                   PROVE  k \in gone'
        BY <2>2
      <4>1. k \in Keks /\ Holds(s, k)
        BY <1>0 DEF OneKek, FileStorage, KeyTypeOK
      <4> QED BY <1>c, <2>2, <4>1
    <3>6. OneKek'
      BY <1>0, <2>0, <3>5 DEF OneKek, Holds, FileStorage
    <3> QED BY <1>0, <2>0, <3>3, <3>4, <3>6 DEF KeyInv
  <2> QED BY <1>11, <2>1, <2>2 DEF PowerLoss
<1>12. CASE UNCHANGED vars
  <2>1. KeyTypeOK' /\ PlacesOK' /\ WriterOK'
    BY <1>0, <1>12 DEF vars, KeyTypeOK, PlacesOK, WriterOK
  <2>2. MadeSynced' /\ OneKek'
    BY <1>a, <1>12 DEF vars
  <2> QED BY <1>0, <2>1, <2>2 DEF KeyInv
<1> QED
  BY <1>1, <1>2, <1>3, <1>4, <1>5, <1>6, <1>7, <1>8, <1>9, <1>10, <1>11, <1>12
  DEF Next

\* The inductive invariant holds of every state.
LEMMA KeyInvariant == Spec => []KeyInv
  BY KeyInit, KeyNext, PTL DEF Spec

\* The variables of KeyStore keep their types; only a whole file holds a key.
THEOREM KeyTypes == Spec => []KeyTypeOK
<1>1. KeyInv => KeyTypeOK
  BY DEF KeyInv
<1> QED BY KeyInvariant, <1>1, PTL

\* However many processes create or load the key at once, wherever they stop and
\* whatever power losses there are: all whose key is not gone were given the one
\* that is stored, by get_or_create_kek and load_kek.
THEOREM KeySafety == Spec => []OneKek
<1>1. KeyInv => OneKek
  BY DEF KeyInv
<1> QED BY KeyInvariant, <1>1, PTL

\* One step of WholeOrGone. A key that its maker returned is in a synced file,
\* which nobody opens for writing; what a loss of power may take is its name.
LEMMA WholeStep ==
  ASSUME KeyInv, [Next]_vars, NEW s \in KeyStorage, NEW k \in made[s], Holds(s, k)
  PROVE  Holds(s, k)' \/ (s # "MACOS_KEYCHAIN" /\ file'.kind = "absent")
<1>0. KeyTypeOK /\ WriterOK /\ MadeSynced /\ k \in Keks
  BY DEF KeyInv, KeyTypeOK
<1>1. CASE s = "MACOS_KEYCHAIN"
  <2>1. keychain = k /\ keychain # NoKek
    BY <1>0, <1>1, KeksAssumption DEF Holds
  <2>2. keychain' = keychain
    BY <2>1 DEF Next, vars, Call, Inspect, Read, Open, Reinspect, Write, Sync, Find, Add,
                Stop, PowerLoss
  <2> QED BY <1>1, <2>1, <2>2 DEF Holds
<1>2. CASE s # "MACOS_KEYCHAIN"
  <2>1. file.kind = "whole" /\ file.synced
    BY <1>0, <1>2 DEF Holds, Loadable, MadeSynced, FileStorage
  <2>2. CASE UNCHANGED file
    BY <1>2, <2>2 DEF Holds, Loadable
  <2>3. ASSUME NEW c \in Callers, Sync(c) PROVE Holds(s, k)'
    <3>1. file'.kind = file.kind /\ file'.kek = file.kek /\ file'.sealed = file.sealed
      BY <1>0, <2>3, SyncedFields DEF Sync, KeyTypeOK, Files
    <3> QED BY <1>2, <3>1 DEF Holds, Loadable
  <2>4. CASE PowerLoss
    <3>1. CASE file' = [file EXCEPT !.synced = TRUE, !.entry = TRUE]
      <4>1. file'.kind = file.kind /\ file'.kek = file.kek /\ file'.sealed = file.sealed
        BY <1>0, <3>1, SyncedFields DEF KeyTypeOK, Files
      <4> QED BY <1>2, <4>1 DEF Holds, Loadable
    <3>2. CASE file' = NotWhole("absent", TRUE)
      BY <1>2, <3>2, NotWholeFields DEF FileKinds
    <3> QED BY <2>1, <2>4, <3>1, <3>2 DEF PowerLoss
  <2>5. ASSUME NEW c \in Callers, Open(c) \/ Write(c) PROVE UNCHANGED file
    BY <1>0, <2>1, <2>5 DEF Open, Write, WriterOK
  <2> QED
    BY <2>2, <2>3, <2>4, <2>5
    DEF Next, vars, Call, Inspect, Read, Reinspect, Find, Add, Stop
<1> QED BY <1>1, <1>2

\* A key file whose maker has returned is lost whole or not at all: sync_all comes
\* before the return, and create_new leaves what is there alone.
THEOREM KeyFileWhole == Spec => WholeOrGone
<1>1. KeyInv /\ [Next]_vars =>
        [\A s \in KeyStorage : \A k \in made[s] :
           Holds(s, k) => Holds(s, k)' \/ (s # "MACOS_KEYCHAIN" /\ file'.kind = "absent")]_vars
  BY WholeStep
<1> QED BY KeyInvariant, <1>1, PTL DEF Spec, WholeOrGone
=============================================================================
