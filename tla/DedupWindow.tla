---------------------------- MODULE DedupWindow ----------------------------
(***************************************************************************)
(* dedupWindow of internal/store/muninn.go: the sliding ledger of concept  *)
(* hashes the worker believes to be in the vault.  A window is a value     *)
(* owned by the worker goroutine, so this module holds operators on        *)
(* windows and no state of its own.                                        *)
(***************************************************************************)
EXTENDS Integers

CONSTANTS
    Concepts,   \* the concept hashes that can occur
    RingSize    \* dedupRingSize: slots of the ring

ASSUME RingSizeAssumption == RingSize \in Nat \ {0}

Slots == 0 .. RingSize - 1

\* A window: one set of hashes per slot (nil is the empty set) and the slot
\* that is open for recording.
Window == [slots : [Slots -> SUBSET Concepts], next : Slots]

EmptyWindow == [slots |-> [i \in Slots |-> {}], next |-> 0]

\* seen reports whether hash h is in any slot.
Seen(w, h) == \E i \in Slots : h \in w.slots[i]

\* record adds the hashes of a delivered batch to the open slot.
Record(w, hs) == [w EXCEPT !.slots[w.next] = @ \cup hs]

\* The slot after i, modulo the ring size.
NextSlot(i) == (i + 1) % RingSize

\* roll opens the next slot, clearing what it held.
Roll(w) == [slots |-> [w.slots EXCEPT ![NextSlot(w.next)] = {}],
            next  |-> NextSlot(w.next)]

\* How many rolls ago slot i was the open one.
SlotAge(w, i) == IF i <= w.next THEN w.next - i ELSE w.next + RingSize - i
=============================================================================
