----------------------------- MODULE MCTransport ------------------------------
\* An ordinary command, a ping without a header to read, and a command of a
\* type the factory rejects, with a header of two bytes instead of nine.
EXTENDS Transport
CONSTANTS update, ping, coverage
MCSize == [k \in Kinds |-> IF k = ping THEN 2 ELSE IF k = update THEN 4 ELSE 3]
===============================================================================
