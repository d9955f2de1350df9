------------------------------ MODULE Allocator ------------------------------
(***************************************************************************)
(* What the Lua VM is promised by the function it allocates with: the      *)
(* contract of frealloc in lua/lmem.c, said without runs, tags or blocks.  *)
(* An allocation is a set of cells of memory that nothing else holds, with *)
(* room for the bytes that were asked for.  A refused call changes         *)
(* nothing.                                                                *)
(***************************************************************************)
EXTENDS Integers, FiniteSets

CONSTANTS
  Slot,           \* who allocates: one allocation each
  Nothing,        \* the slot holds no allocation
  Sizes,          \* the sizes asked for, in bytes
  Room(_)         \* the bytes that fit in a set of cells

VARIABLE held     \* each slot: Nothing, or its cells and the bytes asked for

Holding == {s \in Slot : held[s] # Nothing}

\* Given to s, these cells have the room and are nobody else's.
Grants(s, cells, bytes) ==
  /\ Room(cells) >= bytes
  /\ \A t \in Holding \ {s} : held[t].cells \cap cells = {}

OthersKeep(s) == \A t \in Slot \ {s} : held'[t] = held[t]

\* frealloc(ud, NULL, x, n), and frealloc(ud, p, x, n) with n > 0.
Allocate(s) ==
  /\ held'[s] # Nothing
  /\ held'[s].bytes \in Sizes
  /\ Grants(s, held'[s].cells, held'[s].bytes)
  /\ OthersKeep(s)

\* frealloc(ud, p, x, 0).
Release(s) == s \in Holding /\ held'[s] = Nothing /\ OthersKeep(s)

Init == held = [s \in Slot |-> Nothing]
Next == \E s \in Slot : Allocate(s) \/ Release(s)
Spec == Init /\ [][Next]_held
=============================================================================
