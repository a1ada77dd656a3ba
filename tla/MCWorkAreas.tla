---------------------------- MODULE MCWorkAreas ----------------------------
(* Instances of WorkAreaSafety for TLC.                                     *)
EXTENDS WorkAreaSafety, TLC
CONSTANTS u1, u2, r, m1, m2

\* Two users of one digital employee.
TwoUsers == {[user |-> u1, role |-> r], [user |-> u2, role |-> r]}
OneShape == {{m1}}

TwoShapes == {{m1}, {m1, m2}}
Symmetry == Permutations(Areas) \union Permutations(Instances) \union Permutations(Calls)
            \union Permutations({u1, u2})
=============================================================================
