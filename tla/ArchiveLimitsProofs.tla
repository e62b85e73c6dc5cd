------------------------- MODULE ArchiveLimitsProofs -------------------------
(* Type correctness and WorkBounded of ArchiveLimits, for all limits and      *)
(* archives.                                                                  *)
EXTENDS ArchiveLimits, TLAPS

\* total_uncompressed after the first n entries.
After(n) == IF n = 0 THEN 0 ELSE sums[n]

\* The loop over the headers keeps the sums of what they declare.
SumsOK ==
  \A n \in 1..Len(sums) :
    /\ n <= Len(Entries)
    /\ sums[n] = After(n - 1) + Entries[n].declared
    /\ Entries[n].declared <= MaxEntry

\* What each phase has done. An entry that passes has produced no more than it
\* declares, so that the bytes produced never overtake the sums.
PhaseOK ==
  /\ phase \in {"opened", "listed"} =>
       index = 0 /\ total = 0 /\ sums = << >> /\ produced = 0
  /\ phase = "limits" =>
       /\ Len(sums) = index /\ total = After(index) /\ produced = 0
       /\ Len(Entries) <= MaxEntries
  /\ phase \in {"inflate", "checks"} =>
       /\ Len(sums) = Len(Entries) /\ Len(Entries) <= MaxEntries
       /\ total = produced /\ produced <= After(index)

LimitsInv == ArchiveTypeOK /\ SumsOK /\ PhaseOK /\ WorkBounded

----------------------------------------------------------------------------
LEMMA EntryHeader ==
  ASSUME ArchiveTypeOK, NEW n \in DOMAIN Entries
  PROVE  /\ Entries[n] \in Headers
         /\ Entries[n].declared \in 0..MaxU64 /\ Entries[n].compressed \in 0..MaxU64
<1>1. Entries \in Seq(Headers)
  BY DEF ArchiveTypeOK, Entries
<1>2. Entries[n] \in Headers
  BY <1>1
<1> QED BY <1>2 DEF Headers

LEMMA AfterNat ==
  ASSUME ArchiveTypeOK, NEW n \in 0..Len(sums)
  PROVE  After(n) \in 0..MaxTotal
  BY LimitsAssumption DEF ArchiveTypeOK, After

\* Of an entry within the limits, one byte more than it declares is read.
LEMMA TakeBounds ==
  ASSUME NEW declared \in 0..MaxEntry, NEW actual \in 0..MaxActual
  PROVE  /\ Take(actual, SaturatingAdd(declared, 1)) \in Nat
         /\ Take(actual, SaturatingAdd(declared, 1)) <= declared + 1
  BY LimitsAssumption DEF Take, SaturatingAdd

LEMMA LimitsInit == Init => LimitsInv
<1> SUFFICES ASSUME Init PROVE LimitsInv
  OBVIOUS
<1>1. archive \in [bytes: Nat, entries: Seq(Headers)]
  BY ArchivesAssumption DEF Init
<1>2. Len(Entries) \in Nat
  BY <1>1 DEF Entries
<1>3. ArchiveTypeOK
  BY <1>1, <1>2, LimitsAssumption DEF Init, ArchiveTypeOK
<1>4. SumsOK /\ PhaseOK
  BY DEF Init, SumsOK, PhaseOK
<1>5. WorkBounded
  BY LimitsAssumption DEF Init, WorkBounded
<1> QED BY <1>3, <1>4, <1>5 DEF LimitsInv

LEMMA LimitsNext == LimitsInv /\ [Next]_vars => LimitsInv'
<1> SUFFICES ASSUME LimitsInv, [Next]_vars PROVE LimitsInv'
  OBVIOUS
<1> USE LimitsAssumption
<1>0. ArchiveTypeOK /\ SumsOK /\ PhaseOK /\ WorkBounded
  BY DEF LimitsInv
<1>a. Len(Entries) \in Nat /\ DOMAIN Entries = 1..Len(Entries) /\ Len(sums) \in Nat
  BY <1>0 DEF ArchiveTypeOK, Entries
<1>1. CASE Open
  <2>1. ArchiveTypeOK'
    BY <1>0, <1>1 DEF Open, Reject, ArchiveTypeOK, Entries
  <2>2. SumsOK' /\ PhaseOK' /\ WorkBounded'
    BY <1>0, <1>1 DEF Open, Reject, SumsOK, PhaseOK, WorkBounded, Entries, After
  <2> QED BY <2>1, <2>2 DEF LimitsInv
<1>2. CASE CheckCount
  <2>1. ArchiveTypeOK'
    BY <1>0, <1>2 DEF CheckCount, Reject, ArchiveTypeOK, Entries
  <2>2. SumsOK' /\ WorkBounded'
    BY <1>0, <1>2 DEF CheckCount, Reject, SumsOK, WorkBounded, Entries, After
  <2>3. PhaseOK'
    BY <1>0, <1>a, <1>2 DEF CheckCount, Reject, PhaseOK, Entries, After, ArchiveTypeOK
  <2> QED BY <2>1, <2>2, <2>3 DEF LimitsInv
<1>3. CASE CheckEntry
  <2> DEFINE e == Entries[index + 1]
             sum == total + e.declared
  <2>1. CASE WithinLimits(e, sum)
    <3>1. /\ phase' = "limits" /\ index' = index + 1 /\ total' = sum
          /\ sums' = Append(sums, sum)
          /\ UNCHANGED <<archive, produced, held>> /\ index < Len(Entries)
          /\ phase = "limits"
      BY <1>3, <2>1 DEF CheckEntry
    <3>2. e.declared \in 0..MaxEntry /\ sum \in 0..MaxTotal /\ index \in Nat
      <4>1. index \in Nat /\ index + 1 \in DOMAIN Entries
        BY <1>0, <1>a, <3>1 DEF ArchiveTypeOK
      <4>2. e.declared \in 0..MaxU64
        BY <1>0, <4>1, EntryHeader
      <4> QED BY <1>0, <2>1, <4>1, <4>2 DEF WithinLimits, ArchiveTypeOK
    <3>3. sums \in Seq(0..MaxTotal) /\ Len(sums) = index /\ total = After(index)
      BY <1>0, <3>1 DEF ArchiveTypeOK, PhaseOK
    <3>4. /\ sums' \in Seq(0..MaxTotal) /\ Len(sums') = index + 1
          /\ sums'[index + 1] = sum /\ \A n \in 1..index : sums'[n] = sums[n]
      BY <3>1, <3>2, <3>3
    <3>5. ArchiveTypeOK'
      BY <1>0, <1>a, <3>1, <3>2, <3>4 DEF ArchiveTypeOK, Entries
    <3>6. \A n \in 0..index : After(n)' = After(n)
      BY <3>2, <3>4 DEF After
    <3>7. SumsOK'
      <4> SUFFICES ASSUME NEW n \in 1..Len(sums')
                   PROVE  /\ n <= Len(Entries) /\ Entries[n].declared <= MaxEntry
                          /\ sums'[n] = After(n - 1)' + Entries[n].declared
        BY <3>1 DEF SumsOK, Entries
      <4>1. CASE n = index + 1
        BY <1>a, <3>1, <3>2, <3>3, <3>4, <3>6, <4>1
      <4>2. CASE n \in 1..index
        <5>1. n - 1 \in 0..index /\ n \in 1..Len(sums) /\ sums'[n] = sums[n]
          BY <3>2, <3>3, <3>4, <4>2
        <5>2. After(n - 1)' = After(n - 1)
          BY <3>6, <5>1
        <5> QED BY <1>0, <5>1, <5>2 DEF SumsOK
      <4> QED BY <3>2, <3>4, <4>1, <4>2
    <3>8. PhaseOK'
      <4>1. After(index)' = sum
        BY <3>1, <3>2, <3>4 DEF After
      <4> QED BY <1>0, <3>1, <3>4, <4>1 DEF PhaseOK, Entries
    <3>9. WorkBounded'
      BY <1>0, <3>1 DEF WorkBounded
    <3> QED BY <3>5, <3>7, <3>8, <3>9 DEF LimitsInv
  <2>2. CASE ~WithinLimits(e, sum)
    <3>1. phase' = "rejected" /\ UNCHANGED <<archive, index, total, sums, produced, held>>
      BY <1>3, <2>2 DEF CheckEntry, Reject
    <3>2. ArchiveTypeOK'
      BY <1>0, <3>1 DEF ArchiveTypeOK, Entries
    <3>3. SumsOK' /\ PhaseOK' /\ WorkBounded'
      BY <1>0, <3>1 DEF SumsOK, PhaseOK, WorkBounded, Entries, After
    <3> QED BY <3>2, <3>3 DEF LimitsInv
  <2> QED BY <2>1, <2>2
<1>4. CASE LimitsHold
  <2>1. ArchiveTypeOK'
    BY <1>0, <1>a, <1>4 DEF LimitsHold, ArchiveTypeOK, Entries
  <2>2. SumsOK' /\ PhaseOK' /\ WorkBounded'
    BY <1>0, <1>a, <1>4 DEF LimitsHold, SumsOK, PhaseOK, WorkBounded, Entries, After
  <2> QED BY <2>1, <2>2 DEF LimitsInv
<1>b. ASSUME phase = "inflate", index < Len(Entries)
      PROVE  LET e == Entries[index + 1] IN
             /\ index \in Nat /\ index + 1 \in 1..Len(sums)
             /\ e.declared \in 0..MaxEntry
             /\ After(index) \in 0..MaxTotal
             /\ After(index + 1) = After(index) + e.declared
             /\ After(index + 1) \in 0..MaxTotal
  <2>1. index \in Nat /\ index + 1 \in 1..Len(sums) /\ index + 1 \in DOMAIN Entries
    BY <1>0, <1>a, <1>b DEF ArchiveTypeOK, PhaseOK
  <2>2. Entries[index + 1].declared \in 0..MaxEntry
    <3>1. Entries[index + 1].declared \in 0..MaxU64
      BY <1>0, <2>1, EntryHeader
    <3> QED BY <1>0, <2>1, <3>1 DEF SumsOK
  <2>3. After(index) \in 0..MaxTotal /\ After(index + 1) \in 0..MaxTotal
    BY <1>0, <1>a, <2>1, AfterNat
  <2>4. sums[index + 1] = After((index + 1) - 1) + Entries[index + 1].declared
    BY <1>0, <2>1 DEF SumsOK
  <2>5. After(index + 1) = After(index) + Entries[index + 1].declared
    BY <2>1, <2>4 DEF After
  <2> QED BY <2>1, <2>2, <2>3, <2>5
<1>5. CASE InflateFails
  <2> DEFINE e == Entries[index + 1]
  <2>1. PICK actual \in 0..MaxActual :
          produced' = produced + Take(actual, SaturatingAdd(e.declared, 1))
    BY <1>5 DEF InflateFails
  <2>2. phase = "inflate" /\ index < Len(Entries) /\ phase' = "rejected"
          /\ UNCHANGED <<archive, index, total, sums, held>>
    BY <1>5 DEF InflateFails, Reject
  <2>3. produced' \in Nat /\ produced' <= MaxTotal + 1
    <3> HIDE DEF e
    <3>1. e.declared \in 0..MaxEntry /\ After(index) + e.declared <= MaxTotal
            /\ After(index) \in Nat
      BY <1>b, <2>2 DEF e
    <3>2. produced \in Nat /\ produced <= After(index)
      BY <1>0, <2>2 DEF ArchiveTypeOK, PhaseOK
    <3> QED BY <2>1, <3>1, <3>2, TakeBounds
  <2>4. ArchiveTypeOK'
    BY <1>0, <2>2, <2>3 DEF ArchiveTypeOK, Entries
  <2>5. SumsOK' /\ PhaseOK' /\ WorkBounded'
    BY <1>0, <2>2, <2>3 DEF SumsOK, PhaseOK, WorkBounded, Entries, After
  <2> QED BY <2>4, <2>5 DEF LimitsInv
<1>6. CASE Inflate
  <2>1. phase = "inflate" /\ index < Len(Entries)
          /\ UNCHANGED <<archive, sums, held>>
    BY <1>6 DEF Inflate
  <2>2. PICK d \in 0..MaxEntry :
          /\ d = Entries[index + 1].declared
          /\ After(index) \in 0..MaxTotal /\ After(index + 1) \in 0..MaxTotal
          /\ After(index + 1) = After(index) + d
    BY <1>b, <2>1
  <2>3. PICK actual \in 0..MaxActual :
          LET read == Take(actual, SaturatingAdd(d, 1)) IN
          /\ produced' = produced + read
          /\ IF read > d THEN Reject /\ UNCHANGED <<index, total>>
             ELSE /\ index' = index + 1 /\ total' = SaturatingAdd(total, read)
                  /\ IF total' > MaxTotal THEN Reject ELSE UNCHANGED phase
    BY <1>6, <2>2 DEF Inflate
  <2>4. PICK r \in 0..d + 1 : r = Take(actual, SaturatingAdd(d, 1))
    BY TakeBounds
  <2>5. produced \in Nat /\ total = produced /\ produced <= After(index)
    BY <1>0, <2>1 DEF ArchiveTypeOK, PhaseOK
  <2>6. CASE r > d
    <3>1. phase' = "rejected" /\ UNCHANGED <<index, total>> /\ produced' = produced + r
      BY <2>3, <2>4, <2>6 DEF Reject
    <3>2. produced' \in Nat /\ produced' <= MaxTotal + 1
      BY <2>2, <2>5, <3>1
    <3>3. ArchiveTypeOK'
      BY <1>0, <2>1, <3>1, <3>2 DEF ArchiveTypeOK, Entries
    <3>4. SumsOK' /\ PhaseOK' /\ WorkBounded'
      BY <1>0, <2>1, <3>1, <3>2 DEF SumsOK, PhaseOK, WorkBounded, Entries, After
    <3> QED BY <3>3, <3>4 DEF LimitsInv
  <2>7. CASE ~(r > d)
    <3>1. /\ index' = index + 1 /\ total' = SaturatingAdd(total, r)
          /\ produced' = produced + r
          /\ IF total' > MaxTotal THEN Reject ELSE UNCHANGED phase
      BY <2>3, <2>4, <2>7
    <3>2. produced' \in Nat /\ produced' <= After(index + 1) /\ produced' <= MaxTotal
      BY <2>2, <2>5, <2>7, <3>1
    <3>3. total' = produced' /\ phase' = "inflate"
      BY <2>1, <2>5, <3>1, <3>2 DEF SaturatingAdd
    <3>4. ArchiveTypeOK'
      BY <1>0, <1>a, <2>1, <3>1, <3>2, <3>3 DEF ArchiveTypeOK, Entries
    <3>5. SumsOK'
      BY <1>0, <2>1 DEF SumsOK, Entries, After
    <3>6. PhaseOK'
      <4>1. After(index)' = After(index + 1)
        BY <2>1, <3>1 DEF After
      <4> QED BY <1>0, <2>1, <3>2, <3>3, <4>1 DEF PhaseOK, Entries
    <3>7. WorkBounded'
      BY <1>0, <2>1, <3>2, <3>3 DEF WorkBounded
    <3> QED BY <3>4, <3>5, <3>6, <3>7 DEF LimitsInv
  <2> QED BY <2>4, <2>6, <2>7
<1>7. CASE Inflated
  <2>1. ArchiveTypeOK' /\ SumsOK' /\ PhaseOK'
    BY <1>0, <1>7 DEF Inflated, ArchiveTypeOK, SumsOK, PhaseOK, Entries, After
  <2>2. After(index) \in 0..MaxTotal
    BY <1>0, <1>a, <1>7, AfterNat DEF Inflated, PhaseOK
  <2>3. WorkBounded'
    BY <1>0, <1>7, <2>2
    DEF Inflated, WorkBounded, PhaseOK, Entries, ArchiveTypeOK
  <2> QED BY <2>1, <2>3 DEF LimitsInv
<1>8. CASE ReadEntry
  <2>1. UNCHANGED <<archive, phase, index, total, sums, produced>>
    BY <1>8 DEF ReadEntry
  <2>2. held' \in Nat /\ held' <= MaxEntry + 1
    <3>1. PICK n \in DOMAIN Entries, actual \in 0..MaxActual :
            LET read == Take(actual, SaturatingAdd(Entries[n].declared, 1)) IN
            Entries[n].declared <= MaxEntry
              /\ held' = (IF read > held THEN read ELSE held)
      BY <1>8 DEF ReadEntry
    <3>2. PICK d \in 0..MaxEntry : d = Entries[n].declared
      BY <1>0, <3>1, EntryHeader
    <3>3. PICK r \in 0..MaxEntry + 1 : r = Take(actual, SaturatingAdd(d, 1))
      BY TakeBounds
    <3>4. held' = IF r > held THEN r ELSE held
      BY <3>1, <3>2, <3>3
    <3> QED BY <1>0, <3>4 DEF ArchiveTypeOK, WorkBounded
  <2>3. ArchiveTypeOK' /\ SumsOK' /\ PhaseOK' /\ WorkBounded'
    BY <1>0, <2>1, <2>2
    DEF ArchiveTypeOK, SumsOK, PhaseOK, WorkBounded, Entries, After
  <2> QED BY <2>3 DEF LimitsInv
<1>9. CASE UNCHANGED vars
  BY <1>0, <1>9
  DEF vars, LimitsInv, ArchiveTypeOK, SumsOK, PhaseOK, WorkBounded, Entries, After
<1> QED
  BY <1>1, <1>2, <1>3, <1>4, <1>5, <1>6, <1>7, <1>8, <1>9 DEF Next

LEMMA LimitsInvariant == Spec => []LimitsInv
  BY LimitsInit, LimitsNext, PTL DEF Spec

\* The variables of ArchiveLimits keep their types, the totals within a u64.
THEOREM ArchiveTypes == Spec => []ArchiveTypeOK
<1>1. LimitsInv => ArchiveTypeOK
  BY DEF LimitsInv
<1> QED BY LimitsInvariant, <1>1, PTL

\* Whatever the headers of an archive say, verify_actual_decompressed_sizes
\* produces at most one byte beyond MAX_TOTAL_UNCOMPRESSED_BYTES.
THEOREM ArchiveWorkBounded == Spec => []WorkBounded
<1>1. LimitsInv => WorkBounded
  BY DEF LimitsInv
<1> QED BY LimitsInvariant, <1>1, PTL
=============================================================================
