--------------------------- MODULE MCRunLifecycle ---------------------------
EXTENDS RunLifecycle

CONSTANTS i1, i2, p1, p2, b1, b2, f1, f2

OneProject == [i \in Issues |-> p1]
FiringsApart == [f \in Firings |-> IF f = f1 THEN p1 ELSE p2]
Cap1 == [p \in Projects |-> 1]
Cap2 == [p \in Projects |-> 2]
=============================================================================
