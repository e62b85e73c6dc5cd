----------------------------- MODULE AuditTrail -----------------------------
(***************************************************************************)
(* What the audit log promises, with no records, hashes, locks or bytes:   *)
(* one chain of events that grows at its end, and of which only what was   *)
(* never promised can be lost.                                             *)
(***************************************************************************)
EXTENDS Naturals, Sequences

CONSTANT Events

VARIABLES
  chain,     \* the events recorded
  promised   \* the chains whose last append was reported as done

vars == <<chain, promised>>

Init == chain = << >> /\ promised = {}

Extend(e) ==
  /\ chain' = Append(chain, e)
  /\ UNCHANGED promised

\* The append of the last event is reported as done.
Promise ==
  /\ promised' = promised \union {chain}
  /\ UNCHANGED chain

\* Power is lost: events at the end that were not promised may go.
Lose ==
  /\ \E n \in 0..Len(chain) :
       /\ chain' = SubSeq(chain, 1, n)
       /\ \A p \in promised : Len(p) <= n /\ p = SubSeq(chain', 1, Len(p))
  /\ UNCHANGED promised

Next == (\E e \in Events : Extend(e)) \/ Promise \/ Lose

Spec == Init /\ [][Next]_vars
=============================================================================
