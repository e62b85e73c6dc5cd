------------------------------- MODULE KeyStore -------------------------------
(***************************************************************************)
(* The key encryption key of a vault (core/src/storage/key_management.rs): *)
(* create_kek, get_or_create_kek and load_kek over the file fallback,      *)
(* Windows DPAPI, which keeps a sealed key in a file at the same path, and *)
(* the macOS keychain. Processes call them at the same time; a process may *)
(* fail or end at every step, and the power may be lost.                   *)
(*                                                                         *)
(* What of a file survives a loss of power is two things: its contents,    *)
(* which sync_all of the file makes durable, and its name in the directory,*)
(* which it need not. The code never syncs the directory of a key file (as *)
(* vault.rs does for its own), so a key that was returned may vanish with  *)
(* its file. The keychain is taken to be durable.                          *)
(***************************************************************************)
EXTENDS FiniteSets, Naturals

CONSTANTS
  Callers,
  Keks,      \* what fill_bytes may draw: no key is drawn twice
  NoKek,
  MaxCalls   \* bound on the calls made

ASSUME KeksAssumption == NoKek \notin Keks
ASSUME MaxCallsAssumption == MaxCalls \in Nat

VARIABLES
  platform,   \* the target_os of the build
  file,       \* what is at fallback_path
  keychain,   \* the keychain item of the vault
  pc,         \* where each caller is
  call,       \* what it was asked for
  kek,        \* the key it has drawn
  drawn,      \* history: all keys drawn
  calls,      \* history: how many calls were made
  given,      \* history: the keys returned, by storage
  made,       \* history: those returned by the call that made them
  gone        \* history: the keys whose file a loss of power took

vars == <<platform, file, keychain, pc, call, kek, drawn, calls, given, made,
          gone>>

KeyStorage == {"FILE_FALLBACK", "WINDOWS_DPAPI", "MACOS_KEYCHAIN"}
Platforms == {"linux", "windows", "macos"}
FileKinds == {"absent", "not_regular", "partial", "whole"}

\* A whole file holds a key, raw or sealed by DPAPI. Empty and short files, and
\* those of something else, are partial. What a call creates is on disk in
\* neither contents (synced) nor name (entry), what it finds at first in both.
NotWhole(kind, durable) ==
  [kind |-> kind, sealed |-> FALSE, kek |-> NoKek, synced |-> durable,
   entry |-> durable]
Whole(storage, k) ==
  [kind |-> "whole", sealed |-> storage = "WINDOWS_DPAPI", kek |-> k,
   synced |-> FALSE, entry |-> FALSE]

\* The cfg attributes of create_kek and load_kek.
Available(storage) ==
  \/ storage = "FILE_FALLBACK"
  \/ storage = "WINDOWS_DPAPI" /\ platform = "windows"
  \/ storage = "MACOS_KEYCHAIN" /\ platform = "macos"

\* What a load of the file returns: file_load_kek rejects a length other than
\* 32, dpapi_unprotect what it did not seal.
Loadable(storage) ==
  file.kind = "whole" /\ (file.sealed <=> storage = "WINDOWS_DPAPI")

Holds(storage, k) ==
  IF storage = "MACOS_KEYCHAIN" THEN keychain = k
  ELSE Loadable(storage) /\ file.kek = k

Goto(c, place) == pc' = [pc EXCEPT ![c] = place]

\* Ok(kek), of a key found or made; an error returns nothing.
ReturnKek(c, k, own) ==
  /\ Goto(c, "idle")
  /\ given' = [given EXCEPT ![call[c].storage] = @ \union {k}]
  /\ made' = IF own THEN [made EXCEPT ![call[c].storage] = @ \union {k}] ELSE made
Err(c) == Goto(c, "idle") /\ UNCHANGED <<given, made>>

----------------------------------------------------------------------------
Init ==
  /\ platform \in Platforms
  /\ file \in {NotWhole(kind, TRUE) : kind \in FileKinds \ {"whole"}}
  /\ keychain = NoKek
  /\ pc = [c \in Callers |-> "idle"]
  /\ call = [c \in Callers |-> [create |-> FALSE, storage |-> "FILE_FALLBACK"]]
  /\ kek = [c \in Callers |-> NoKek]
  /\ drawn = {} /\ calls = 0
  /\ given = [s \in KeyStorage |-> {}] /\ made = given
  /\ gone = {}

\* KEY_PROVIDER_UNAVAILABLE where the storage is not of this platform;
\* get_or_create_kek asks for the platform's own.
Call(c) ==
  /\ pc[c] = "idle" /\ calls < MaxCalls
  /\ \E create \in BOOLEAN, s \in KeyStorage :
       /\ Available(s)
       /\ call' = [call EXCEPT ![c] = [create |-> create, storage |-> s]]
       /\ Goto(c, IF s = "MACOS_KEYCHAIN" THEN "find" ELSE "inspect")
  /\ calls' = calls + 1
  /\ UNCHANGED <<platform, file, keychain, kek, drawn, given, made, gone>>

\* symlink_metadata. A create hardens the permissions of what it finds and
\* loads it; where there is nothing, it draws a key, and DPAPI seals it.
Inspect(c) ==
  /\ pc[c] = "inspect"
  /\ UNCHANGED <<platform, file, keychain, call, calls, gone>>
  /\ \/ /\ file.kind = "not_regular" \/ (file.kind = "absent" /\ ~call[c].create)
        /\ Err(c)
        /\ UNCHANGED <<kek, drawn>>
     \/ /\ file.kind \in {"partial", "whole"}
        /\ Goto(c, "read")
        /\ UNCHANGED <<kek, drawn, given, made>>
     \/ /\ file.kind = "absent" /\ call[c].create
        /\ \E k \in Keks \ drawn :
             kek' = [kek EXCEPT ![c] = k] /\ drawn' = drawn \union {k}
        /\ Goto(c, "open")
        /\ UNCHANGED <<given, made>>

\* fs::read and what is made of the bytes.
Read(c) ==
  /\ pc[c] = "read"
  /\ IF Loadable(call[c].storage) THEN ReturnKek(c, file.kek, FALSE) ELSE Err(c)
  /\ UNCHANGED <<platform, file, keychain, call, kek, drawn, calls, gone>>

----------------------------------------------------------------------------
\* Mutants: create instead of create_new, which truncates what is there; the
\* file is given its length before the key; no sync_all.
OpenTruncates(c) ==
  /\ pc[c] = "open"
  /\ file' = NotWhole("partial", FALSE) /\ Goto(c, "write")
  /\ UNCHANGED <<platform, keychain, call, kek, drawn, calls, given, made, gone>>

OpenPreallocates(c) ==
  /\ pc[c] = "open"
  /\ IF file.kind = "absent"
     THEN file' = Whole(call[c].storage, NoKek) /\ Goto(c, "write")
     ELSE Goto(c, "reinspect") /\ UNCHANGED file
  /\ UNCHANGED <<platform, keychain, call, kek, drawn, calls, given, made, gone>>

SyncNot(c) ==
  /\ pc[c] = "sync"
  /\ ReturnKek(c, kek[c], TRUE)
  /\ UNCHANGED <<platform, file, keychain, call, kek, drawn, calls, gone>>

----------------------------------------------------------------------------
\* create_new: whoever comes second loads the file of the first.
Open(c) ==
  /\ pc[c] = "open"
  /\ IF file.kind = "absent" THEN file' = NotWhole("partial", FALSE) /\ Goto(c, "write")
     ELSE Goto(c, "reinspect") /\ UNCHANGED file
  /\ UNCHANGED <<platform, keychain, call, kek, drawn, calls, given, made, gone>>

\* symlink_metadata of file_load_kek and windows_load_kek
Reinspect(c) ==
  /\ pc[c] = "reinspect"
  /\ IF file.kind \in {"partial", "whole"}
     THEN Goto(c, "read") /\ UNCHANGED <<given, made>>
     ELSE Err(c)
  /\ UNCHANGED <<platform, file, keychain, call, kek, drawn, calls, gone>>

\* write_all
Write(c) ==
  /\ pc[c] = "write"
  /\ file' = Whole(call[c].storage, kek[c])
  /\ Goto(c, "sync")
  /\ UNCHANGED <<platform, keychain, call, kek, drawn, calls, given, made, gone>>

\* sync_all of the file; nothing syncs its directory.
Sync(c) ==
  /\ pc[c] = "sync"
  /\ file' = [file EXCEPT !.synced = TRUE]
  /\ ReturnKek(c, kek[c], TRUE)
  /\ UNCHANGED <<platform, keychain, call, kek, drawn, calls, gone>>

----------------------------------------------------------------------------
\* find-generic-password
Find(c) ==
  /\ pc[c] = "find"
  /\ UNCHANGED <<platform, file, keychain, call, calls, gone>>
  /\ \/ /\ keychain # NoKek
        /\ ReturnKek(c, keychain, FALSE)
        /\ UNCHANGED <<kek, drawn>>
     \/ /\ keychain = NoKek /\ ~call[c].create
        /\ Err(c)
        /\ UNCHANGED <<kek, drawn>>
     \/ /\ keychain = NoKek /\ call[c].create
        /\ \E k \in Keks \ drawn :
             kek' = [kek EXCEPT ![c] = k] /\ drawn' = drawn \union {k}
        /\ Goto(c, "add")
        /\ UNCHANGED <<given, made>>

\* add-generic-password without -U, which fails where there is an item.
Add(c) ==
  /\ pc[c] = "add"
  /\ IF keychain = NoKek THEN keychain' = kek[c] /\ ReturnKek(c, kek[c], TRUE)
     ELSE Err(c) /\ UNCHANGED keychain
  /\ UNCHANGED <<platform, file, call, kek, drawn, calls, gone>>

----------------------------------------------------------------------------
\* Any call to the system fails, or the process ends. What was written stays.
Stop(c) ==
  /\ pc[c] # "idle"
  /\ Err(c)
  /\ UNCHANGED <<platform, file, keychain, call, kek, drawn, calls, gone>>

\* All processes end. A file is as it was; or it is short, if its contents were
\* not synced; or it is not there, if its name was not on disk, whether or not
\* its contents were. What is found after the restart is on disk.
PowerLoss ==
  /\ pc' = [c \in Callers |-> "idle"]
  /\ \/ file' = [file EXCEPT !.synced = TRUE, !.entry = TRUE] /\ UNCHANGED gone
     \/ /\ \/ ~file.synced /\ file' = NotWhole("partial", TRUE)
           \/ ~file.entry /\ file' = NotWhole("absent", TRUE)
        /\ gone' = gone \union ({file.kek} \ {NoKek})
  /\ UNCHANGED <<platform, keychain, call, kek, drawn, calls, given, made>>

Next ==
  \/ \E c \in Callers :
       Call(c) \/ Inspect(c) \/ Read(c) \/ Open(c) \/ Reinspect(c) \/ Write(c)
         \/ Sync(c) \/ Find(c) \/ Add(c) \/ Stop(c)
  \/ PowerLoss

Spec == Init /\ [][Next]_vars

----------------------------------------------------------------------------
(***************************************************************************)
(* Properties.                                                             *)
(***************************************************************************)
Pcs == {"idle", "inspect", "read", "open", "reinspect", "write", "sync", "find",
        "add"}

\* The variables have their types; only a whole file holds a key.
KeyTypeOK ==
  /\ platform \in Platforms
  /\ file \in [kind: FileKinds, sealed: BOOLEAN, kek: Keks \union {NoKek},
               synced: BOOLEAN, entry: BOOLEAN]
  /\ file.kind = "whole" <=> file.kek # NoKek
  /\ keychain \in Keks \union {NoKek}
  /\ pc \in [Callers -> Pcs]
  /\ call \in [Callers -> [create: BOOLEAN, storage: KeyStorage]]
  /\ kek \in [Callers -> Keks \union {NoKek}]
  /\ drawn \in SUBSET Keks /\ calls \in 0..MaxCalls
  /\ given \in [KeyStorage -> SUBSET Keks] /\ made \in [KeyStorage -> SUBSET Keks]
  /\ gone \in SUBSET Keks

\* A key that was returned is the one that is stored, and stays it until a loss
\* of power takes its file: however callers interleave, fail or end, and before
\* and after any loss of power, no two are given different keys that are both
\* still there, none is given a short key, and none overwrites what another was
\* given. A key of the keychain stays for good.
OneKek ==
  /\ \A k \in given["MACOS_KEYCHAIN"] : Holds("MACOS_KEYCHAIN", k)
  /\ \A s \in KeyStorage : \A k \in given[s] \ gone : Holds(s, k)

\* sync_all before the return: a file whose maker has returned its key is never
\* cut short, nor replaced while it is there. If it goes, it goes whole, so that
\* the next call that creates draws a key and does not find a file that every
\* call rejects.
WholeOrGone ==
  [][\A s \in KeyStorage : \A k \in made[s] :
       Holds(s, k) => Holds(s, k)' \/ (s # "MACOS_KEYCHAIN" /\ file'.kind = "absent")]_vars
=============================================================================
