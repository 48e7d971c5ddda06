--------------------------- MODULE MCIdentityStore ---------------------------
(* Small instances of IdentityStore for TLC.                                *)
EXTENDS IdentityStore, TLC

CONSTANTS p1, p2, d1, d2, i1, rk, dev, s1, s2

OneProc == {p1}
TwoProcs == {p1, p2}
OneDid == {d1}
TwoDids == {d1, d2}
OneId == {i1}
OneDevice == {dev}
OneSigningKid == {s1}
TwoSigningKids == {s1, s2}
SigningKeySet == {{s1}}

ProcSymmetry == Permutations(Procs)
=============================================================================
