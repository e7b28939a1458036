------------------------------ MODULE Delivery ------------------------------
(***************************************************************************)
(* What the capture store promises the proxy and msc, with no queue, lock, *)
(* batch, ring or retry in sight: every exchange offered to it meets       *)
(* exactly one fate, a repeat is only suppressed while another exchange of *)
(* its concept is accepted or saved, writes carry distinct concepts and at *)
(* most MaxBatch of them, and the store shuts only when it owes nothing.   *)
(***************************************************************************)
EXTENDS Integers, FiniteSets

CONSTANTS Exchanges, Concept, NoConcept, MaxBatch

VARIABLES
    fate,   \* what is known of each exchange
    shut    \* a Drain call has returned

vars == <<fate, shut>>

Terminal == {"dropped", "skipped", "deduped", "saved", "failed"}

TypeOK ==
    /\ fate \in [Exchanges -> {"unseen", "offered", "accepted"} \cup Terminal]
    /\ shut \in BOOLEAN

Init ==
    /\ fate = [e \in Exchanges |-> "unseen"]
    /\ shut = FALSE

Become(S, from, to) ==
    /\ \A e \in S : fate[e] = from
    /\ fate' = [e \in Exchanges |-> IF e \in S THEN to ELSE fate[e]]

\* The proxy calls Store.
Offer(e) == Become({e}, "unseen", "offered") /\ UNCHANGED shut

\* Over the byte budget, the queue full, or too late.
Refuse(e) == Become({e}, "offered", "dropped") /\ UNCHANGED shut

Accept(e) == ~shut /\ Become({e}, "offered", "accepted") /\ UNCHANGED shut

\* Noise, or nothing to remember.
Skip(e) ==
    /\ Concept[e] = NoConcept
    /\ Become({e}, "accepted", "skipped")
    /\ UNCHANGED shut

Collapse(e) ==
    /\ \E f \in Exchanges \ {e} :
          Concept[f] = Concept[e] /\ fate[f] \in {"accepted", "saved"}
    /\ Become({e}, "accepted", "deduped")
    /\ UNCHANGED shut

\* The sets of exchanges one write may carry.
Writable(S) ==
    /\ S \subseteq Exchanges
    /\ S # {}
    /\ Cardinality(S) <= MaxBatch
    /\ \A e, f \in S : Concept[e] = Concept[f] => e = f
    /\ \A e \in S : Concept[e] # NoConcept

Deliver(S) == Writable(S) /\ Become(S, "accepted", "saved") /\ UNCHANGED shut

Lose(S) == Writable(S) /\ Become(S, "accepted", "failed") /\ UNCHANGED shut

Shut ==
    /\ \A e \in Exchanges : fate[e] # "accepted"
    /\ shut' = TRUE
    /\ UNCHANGED fate

Next ==
    \/ \E e \in Exchanges : Offer(e) \/ Refuse(e) \/ Accept(e) \/ Skip(e) \/ Collapse(e)
    \/ \E S \in SUBSET Exchanges : Deliver(S) \/ Lose(S)
    \/ Shut

Spec == Init /\ [][Next]_vars
=============================================================================
