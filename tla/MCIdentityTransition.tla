------------------------ MODULE MCIdentityTransition ------------------------
(* Small instances of IdentityTransition for TLC.                           *)
EXTENDS IdentityTransition, TLC

CONSTANTS p1, p2, d1, d2, o1, o2

OneProc == {p1}
TwoProcs == {p1, p2}
TwoDids == {d1, d2}
OneOp == {o1}
TwoOps == {o1, o2}

OneWay == {<<d1, d2>>}
BothWays == {<<d1, d2>>, <<d2, d1>>}

\* One host goes on with uncertain publications; the other one prepares,
\* publishes and answers beside it.  The operations are used in order.
InScope ==
    /\ journals[o2] # None => journals[o1] # None
    /\ \A p \in Procs \ {p1}, d \in Dids : resuming[p] = None /\ observed[p][d] = None

BesideSpec == Init /\ [][Next /\ InScope']_vars /\ GoesOn(p1)

Interchangeable == Permutations(Procs) \cup Permutations(Ops)
Symmetric == Permutations(Procs) \cup Permutations(Dids) \cup Permutations(Ops)
=============================================================================
