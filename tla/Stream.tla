-------------------------------- MODULE Stream --------------------------------
(***************************************************************************)
(* What the messages of one side of a connection are handed over as: in    *)
(* the order they were sent and without a gap, each at least once.  A      *)
(* message may be handed over again, together with the ones behind it.     *)
(***************************************************************************)
EXTENDS Integers, Sequences

VARIABLES delivered,   \* the numbers of the messages, in the order of delivery
          reached      \* the highest of them

\* The messages i+1 .. j, once the first i have been handed over.
HandOver(i, j) ==
  /\ i <= reached /\ i <= j
  /\ delivered' = delivered \o [k \in 1 .. (j - i) |-> i + k]
  /\ reached' = IF j > reached THEN j ELSE reached

Init == delivered = <<>> /\ reached = 0
Next == \E i \in 0 .. reached : \E n \in 1 .. (Len(delivered') - Len(delivered)) :
          HandOver(i, i + n)
Spec == Init /\ [][Next]_<<delivered, reached>>
===============================================================================
