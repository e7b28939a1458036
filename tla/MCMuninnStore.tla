--------------------------- MODULE MCMuninnStore ---------------------------
(***************************************************************************)
(* Small sessions for MuninnStore.  e1 and e2 are two calls of one         *)
(* tool-use chain: one concept, different bodies.  e3 asks something else, *)
(* e4 repeats e1 word for word, e5 is noise.                               *)
(***************************************************************************)
EXTENDS MuninnStore, TLC

CONSTANTS e1, e2, e3, e4, e5, p, q, d1, d2

Of(f) == [e \in Exchanges |-> f[e]]

MCConcept == Of((e1 :> p) @@ (e2 :> p) @@ (e3 :> q) @@ (e4 :> p) @@ (e5 :> NoConcept))
MCContent == Of((e1 :> "a") @@ (e2 :> "b") @@ (e3 :> "c") @@ (e4 :> "a") @@ (e5 :> "d"))
MCSize    == Of((e1 :> 1) @@ (e2 :> 2) @@ (e3 :> 1) @@ (e4 :> 1) @@ (e5 :> 0))
=============================================================================
