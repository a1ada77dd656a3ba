------------------------------- MODULE MCHub --------------------------------
(* Instances of HubSafety for TLC.                                          *)
EXTENDS HubSafety, TLC

\* Ids are compared and stored, never ordered.
Symmetry == Permutations(Containers) \union Permutations(Sandboxes)
            \union Permutations(Requests) \union Permutations(Keys)
=============================================================================
