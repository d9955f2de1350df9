------------------------------ MODULE MCGlobals -------------------------------
\* Two pages' VMs and an isolate's on two addresses.
EXTENDS Globals, TLC
CONSTANTS page1, page2, isolate
Symmetry == Permutations(Pages) \cup Permutations(Address)
===============================================================================
