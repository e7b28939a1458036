----------------------------- MODULE MCInjector -----------------------------
(***************************************************************************)
(* Instances of Injector for TLC: two intents and two memories.  Memory 2  *)
(* answers intent "a" and is noise for intent "b"; memory 1 is relevant to *)
(* both.  A tick is five seconds.                                          *)
(***************************************************************************)
EXTENDS Injector, TLC

MCQueries == {"a", "b"}

MCMemories == {1, 2}
MCOneMemory == {1}

\* In hundredths.  At a floor of 50, 72 outlasts one turn that does not recall
\* it (50.4); 65 and 40 do not.
MCCosine == [q \in MCQueries |->
    [m \in MCMemories |-> IF m = 1 THEN 72 ELSE IF q = "a" THEN 65 ELSE 40]]
MCCosineOne == [q \in MCQueries |-> [m \in MCOneMemory |-> 65]]

MCExact == {}

\* The default is one of the gates: a unimodal sample is given it.
MCGates == {60, 70}
MCDefaultGateOnly == {60}

MCSymmetry == Permutations(Turns)
=============================================================================
