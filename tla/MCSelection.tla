---------------------------- MODULE MCSelection ----------------------------
(***************************************************************************)
(* A vault in which every rule of the selection meets every other: old,    *)
(* new and again are three statements of concept db; note, without a       *)
(* concept, restates new nearly word for word; cloud is stale; dead is     *)
(* archived; onprem has no parseable created_at and no words.  The textual *)
(* order of the timestamps disagrees with their instants, as it does under *)
(* fractional seconds and offsets.  old, note and onprem contradict each   *)
(* other in a circle in which each is superseded by the next.              *)
(***************************************************************************)
EXTENDS Selection, TLC

CONSTANTS old, new, again, note, cloud, onprem, dead

MCConcept == (old :> "db") @@ (new :> "db") @@ (again :> "db") @@ (note :> NoConcept)
                @@ (cloud :> "host") @@ (onprem :> "place") @@ (dead :> "host")

MCWords == (old :> 1 .. 3) @@ (new :> 4 .. 8) @@ (again :> {1, 9}) @@ (note :> 4 .. 7)
              @@ (cloud :> {10}) @@ (onprem :> {}) @@ (dead :> {11, 12})

MCInstant == (old :> 1) @@ (new :> 3) @@ (again :> 4) @@ (note :> 2)
                @@ (cloud :> 5) @@ (onprem :> NoInstant) @@ (dead :> 6)

MCLexical == (old :> 4) @@ (new :> 5) @@ (again :> 1) @@ (note :> 2)
                @@ (cloud :> 6) @@ (onprem :> 3) @@ (dead :> 7)

MCState == [m \in Memories |-> IF m = dead THEN "archived" ELSE "active"]
MCTrust == [m \in Memories |-> IF m = cloud THEN "external" ELSE "verified"]

MCConflicts == (old :> {cloud, note}) @@ (new :> {}) @@ (again :> {}) @@ (note :> {onprem})
                  @@ (cloud :> {onprem}) @@ (onprem :> {old}) @@ (dead :> {})
=============================================================================
