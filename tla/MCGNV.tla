------------------------------- MODULE MCGNV --------------------------------
\* Instances of GNV: two handles on one or two addresses.  No symmetry, which
\* would be unsound for the liveness property.
EXTENDS GNV
=============================================================================
