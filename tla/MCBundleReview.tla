--------------------------- MODULE MCBundleReview ---------------------------
(* A small instance of BundleReview. *)
EXTENDS BundleReview

\* What a user may type in: nothing; a sensitive tag; a marker in the text that
\* is nobody's claim; a capability there is none of.
MCOrders ==
  LET blank == [capabilities |-> {}, families |-> {}, tags |-> {}, title |-> {},
                claim |-> {}] IN
  {blank, [blank EXCEPT !.tags = {"PII"}], [blank EXCEPT !.claim = {"C0002"}],
   [blank EXCEPT !.capabilities = {"Astrology"}]}
=============================================================================
