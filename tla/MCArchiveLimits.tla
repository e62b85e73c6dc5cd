--------------------------- MODULE MCArchiveLimits ---------------------------
(* A small instance of ArchiveLimits. *)
EXTENDS ArchiveLimits

\* Archives of up to four entries, one more than is allowed; entries that are
\* too long, too long together, or too well compressed. A byte is at its limit
\* or beyond.
MCArchives ==
  LET headers == {[declared |-> d, compressed |-> c] : d \in 0..4, c \in 0..1}
                   \union {[declared |-> MaxU64, compressed |-> 2]} IN
  [bytes: {MaxArchive, MaxArchive + 1},
   entries: UNION {[1..n -> headers] : n \in 0..2}
     \union [1..3 -> {[declared |-> d, compressed |-> 1] : d \in 1..3}]
     \union {[n \in 1..4 |-> [declared |-> 1, compressed |-> 1]]}]
=============================================================================
