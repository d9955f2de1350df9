-------------------------------- MODULE MCPage --------------------------------
\* A page with two background tasks.
EXTENDS Page
CONSTANTS t1, t2
===============================================================================
