------------------------------ MODULE TurnLife -------------------------------
(***************************************************************************)
(* What a session may rely on of its turns: a turn begins, hands over at   *)
(* most one exchange while it is in flight, and ends; a turn whose         *)
(* connection was hijacked is no longer known to the server that           *)
(* Shutdown waits for.  The store, once it drains, drops what it is given. *)
(* ProxyTurn implements this; Session is built on it.                      *)
(***************************************************************************)
CONSTANT Turns

VARIABLES
    life,       \* none, flying or over
    hijacked,   \* turns whose connection left the server
    exchange,   \* what became of the exchange: none, stored or dropped
    storeOpen   \* Drain has not begun

lifeVars == <<life, hijacked, exchange, storeOpen>>

LifeInit ==
    /\ life = [t \in Turns |-> "none"]
    /\ hijacked = {}
    /\ exchange = [t \in Turns |-> "none"]
    /\ storeOpen = TRUE

Begin(t) ==
    /\ life[t] = "none"
    /\ life' = [life EXCEPT ![t] = "flying"]
    /\ UNCHANGED <<hijacked, exchange, storeOpen>>

\* A protocol switch takes the connection out of the server's hands.
Hijack(t) ==
    /\ life[t] = "flying" /\ exchange[t] = "none"
    /\ hijacked' = hijacked \cup {t}
    /\ UNCHANGED <<life, exchange, storeOpen>>

HandOver(t) ==
    /\ life[t] = "flying" /\ exchange[t] = "none"
    /\ exchange' = [exchange EXCEPT ![t] = IF storeOpen THEN "stored" ELSE "dropped"]
    /\ UNCHANGED <<life, hijacked, storeOpen>>

End(t) ==
    /\ life[t] = "flying"
    /\ life' = [life EXCEPT ![t] = "over"]
    /\ UNCHANGED <<hijacked, exchange, storeOpen>>

Fly(t) == Hijack(t) \/ HandOver(t) \/ End(t)

DrainStore ==
    /\ storeOpen' = FALSE
    /\ UNCHANGED <<life, hijacked, exchange>>

LifeNext == DrainStore \/ \E t \in Turns : Begin(t) \/ Fly(t)

LifeSpec == LifeInit /\ [][LifeNext]_lifeVars
=============================================================================
