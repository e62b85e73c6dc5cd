---------------------------- MODULE ArchiveLimits ----------------------------
(***************************************************************************)
(* How BundleValidator bounds the work an archive may cause                *)
(* (core/src/validator/mod.rs): the size of the file, the limits on what   *)
(* the headers declare, one pass that decompresses every entry, and then   *)
(* the reads of the checks. What an entry really produces is anything at   *)
(* every read, and the headers are free.                                   *)
(***************************************************************************)
EXTENDS Integers, Sequences

CONSTANTS
  MaxU64,      \* u64::MAX
  MaxArchive, MaxEntries, MaxEntry, MaxTotal, MaxRatio,  \* MAX_*
  Small,       \* 1024: the ratio is not looked at up to here
  Archives,    \* the archives: their bytes, and what their headers declare
  MaxActual    \* bound on what an entry may really produce

Headers == [declared: 0..MaxU64, compressed: 0..MaxU64]

ASSUME LimitsAssumption ==
  /\ MaxU64 \in Nat /\ MaxArchive \in Nat /\ MaxEntries \in Nat
  /\ MaxEntry \in Nat /\ MaxTotal \in Nat /\ MaxRatio \in Nat /\ Small \in Nat
  /\ MaxActual \in Nat
  /\ MaxEntry < MaxU64 /\ MaxTotal < MaxU64
ASSUME ArchivesAssumption == Archives \subseteq [bytes: Nat, entries: Seq(Headers)]

VARIABLES
  archive,
  phase,      \* "opened", "listed", "limits", "inflate", "checks" or "rejected"
  index,      \* how many entries the loop has been through
  total,      \* total_uncompressed, and then total_read
  sums,       \* history: total_uncompressed after each entry
  produced,   \* history: the bytes decompressed by verify_actual_decompressed_sizes
  held        \* history: the longest buffer a check has read

vars == <<archive, phase, index, total, sums, produced, held>>

Entries == archive.entries
SaturatingAdd(a, b) == IF a + b > MaxU64 THEN MaxU64 ELSE a + b

\* entry.take(limit): of what there is, no more than the limit is produced.
Take(actual, limit) == IF actual < limit THEN actual ELSE limit

Init ==
  /\ archive \in Archives
  /\ phase = "opened" /\ index = 0 /\ total = 0
  /\ sums = << >> /\ produced = 0 /\ held = 0

Reject == phase' = "rejected"

\* The size of the file, ZipArchive::new and the names of the entries; without
\* the error of the size, they may fail for what the file holds.
Open ==
  /\ phase = "opened"
  /\ Reject \/ (archive.bytes <= MaxArchive /\ phase' = "listed")
  /\ UNCHANGED <<archive, index, total, sums, produced, held>>

\* validate_archive_limits, up to its loop
CheckCount ==
  /\ phase = "listed"
  /\ IF archive.bytes > MaxArchive \/ Len(Entries) > MaxEntries THEN Reject
     ELSE phase' = "limits"
  /\ UNCHANGED <<archive, index, total, sums, produced, held>>

\* What the loop asks of an entry, given the total with it; checked_add fails
\* on a total that has no u64.
WithinLimits(e, sum) ==
  /\ e.declared <= MaxEntry
  /\ sum <= MaxU64 /\ sum <= MaxTotal
  /\ e.declared > Small =>
       e.declared <= (IF e.compressed < 1 THEN 1 ELSE e.compressed) * MaxRatio

CheckEntry ==
  /\ phase = "limits" /\ index < Len(Entries)
  /\ LET sum == total + Entries[index + 1].declared IN
     IF WithinLimits(Entries[index + 1], sum)
     THEN /\ index' = index + 1 /\ total' = sum /\ sums' = Append(sums, sum)
          /\ UNCHANGED phase
     ELSE Reject /\ UNCHANGED <<index, total, sums>>
  /\ UNCHANGED <<archive, produced, held>>

LimitsHold ==
  /\ phase = "limits" /\ index = Len(Entries)
  /\ phase' = "inflate" /\ index' = 0 /\ total' = 0
  /\ UNCHANGED <<archive, sums, produced, held>>

----------------------------------------------------------------------------
\* Mutants: the declared size is compared afterwards, when all of the entry has
\* been produced; the loop runs one entry too far.
InflateWhole ==
  /\ phase = "inflate" /\ index < Len(Entries)
  /\ \E actual \in 0..MaxActual :
       LET declared == Entries[index + 1].declared IN
       /\ produced' = produced + actual
       /\ IF actual > declared THEN Reject /\ UNCHANGED <<index, total>>
          ELSE /\ index' = index + 1 /\ total' = SaturatingAdd(total, actual)
               /\ IF total' > MaxTotal THEN Reject ELSE UNCHANGED phase
  /\ UNCHANGED <<archive, sums, held>>

InflatedEarly ==
  /\ phase = "inflate"
  /\ phase' = "checks" /\ index' = index + 1
  /\ UNCHANGED <<archive, total, sums, produced, held>>
----------------------------------------------------------------------------
\* verify_actual_decompressed_sizes: io::copy fails, perhaps half-way, or reads
\* at most one byte more than declared.
InflateFails ==
  /\ phase = "inflate" /\ index < Len(Entries)
  /\ \E actual \in 0..MaxActual :
       produced' = produced
         + Take(actual, SaturatingAdd(Entries[index + 1].declared, 1))
  /\ Reject
  /\ UNCHANGED <<archive, index, total, sums, held>>

Inflate ==
  /\ phase = "inflate" /\ index < Len(Entries)
  /\ \E actual \in 0..MaxActual :
       LET declared == Entries[index + 1].declared
           read == Take(actual, SaturatingAdd(declared, 1)) IN
       /\ produced' = produced + read
       /\ IF read > declared THEN Reject /\ UNCHANGED <<index, total>>
          ELSE /\ index' = index + 1 /\ total' = SaturatingAdd(total, read)
               /\ IF total' > MaxTotal THEN Reject ELSE UNCHANGED phase
  /\ UNCHANGED <<archive, sums, held>>

Inflated ==
  /\ phase = "inflate" /\ index = Len(Entries)
  /\ phase' = "checks"
  /\ UNCHANGED <<archive, index, total, sums, produced, held>>

\* read_zip_entry_bytes, of any entry by its name, as often as the checks ask;
\* an error fails the check and not the validation.
ReadEntry ==
  /\ phase = "checks"
  /\ \E n \in DOMAIN Entries, actual \in 0..MaxActual :
       LET read == Take(actual, SaturatingAdd(Entries[n].declared, 1)) IN
       /\ Entries[n].declared <= MaxEntry
       /\ held' = IF read > held THEN read ELSE held
  /\ UNCHANGED <<archive, phase, index, total, sums, produced>>

Next == Open \/ CheckCount \/ CheckEntry \/ LimitsHold \/ InflateFails
          \/ Inflate \/ Inflated \/ ReadEntry

Spec == Init /\ [][Next]_vars

----------------------------------------------------------------------------
(***************************************************************************)
(* Properties.                                                             *)
(***************************************************************************)
\* The variables have their types: the totals stay within a u64.
ArchiveTypeOK ==
  /\ archive \in [bytes: Nat, entries: Seq(Headers)]
  /\ phase \in {"opened", "listed", "limits", "inflate", "checks", "rejected"}
  /\ index \in 0..Len(Entries)
  /\ total \in 0..MaxU64
  /\ sums \in Seq(0..MaxTotal)
  /\ produced \in Nat /\ held \in Nat

\* Whatever the headers declare and the entries produce, at most one byte is
\* decompressed beyond the total, and none where the archive goes on to the
\* checks; and no check holds more than one byte beyond the largest entry.
WorkBounded ==
  /\ produced <= MaxTotal + 1
  /\ phase = "checks" => produced <= MaxTotal /\ Len(Entries) <= MaxEntries
  /\ held <= MaxEntry + 1
=============================================================================
