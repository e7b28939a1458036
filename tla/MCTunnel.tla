------------------------------ MODULE MCTunnel -------------------------------
(***************************************************************************)
(* Two tunnels and one turn, plain or carried, over three spellings of two *)
(* hosts and a cache of one leaf.                                          *)
(***************************************************************************)
EXTENDS Tunnel

CONSTANTS t1, c1, c2, api, apiDot, other

Asks(words, body, upgrade) == [words |-> words, body |-> body, upgrade |-> upgrade]
Answers(kind, status_) == [kind |-> kind, status |-> status_]

MCRequests == (t1 :> {Asks({"chat"}, "whole", FALSE), Asks({"chat"}, "tooLarge", FALSE),
                      Asks({"chat"}, "none", TRUE), Asks({"health"}, "none", FALSE)})
MCReplies == (t1 :> {Answers("upgrade", 101), Answers("stream", 200), Answers("whole", 400), Answers("cutOff", 200)})
MCCanon == (api :> 1 @@ apiDot :> 1 @@ other :> 2)
=============================================================================
