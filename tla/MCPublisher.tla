---------------------------- MODULE MCPublisher ----------------------------
\* Two publishers over one section and one evidence record.
EXTENDS Publisher

CONSTANTS p1, p2

MCDailyAndExport == [p \in Publishers |-> IF p = p1 THEN "daily" ELSE "export"]

MCFaults == [clean |-> 1, torn |-> 1, missed |-> 1, unlisted |-> 1, cut |-> 1, any |-> 2]
=============================================================================
