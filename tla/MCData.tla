------------------------------- MODULE MCData -------------------------------
(* Three parts of the Hub that share nothing: the origins of one work area's *)
(* jobs, the cache of input files, the network of one sandbox.  A behaviour  *)
(* is a behaviour of one of them, so that their product is not enumerated.   *)
EXTENDS JobLedger, InputsCache, NetworkPolicy, TLC

CONSTANTS p, q, b1, b2, v1, v2

VARIABLE part   \* the part that runs; the others rest in their initial state

dataVars == <<ledgerVars, inputsVars, netVars, part>>

\* Two paths, two blobs: a grant that drops a path and moves a blob.
TwoGrants == {(p :> b1), (p :> b2 @@ q :> b1)}

\* Jobs, instances and observers are interchangeable; no other part names one.
Symmetry == Permutations(Jobs) \union Permutations(Sandboxes) \union Permutations(Observers)

DataInit ==
    /\ LedgerInit /\ InputsInit /\ NetworkInit
    /\ part \in {"ledger", "inputs", "network"}
    /\ part # "network" => kind = "v2" /\ mode = CHOOSE n \in Networks : TRUE

DataNext ==
    /\ \/ part = "ledger" /\ LedgerNext /\ UNCHANGED <<inputsVars, netVars>>
       \/ part = "inputs" /\ InputsNext /\ UNCHANGED <<ledgerVars, netVars>>
       \/ part = "network" /\ NetworkNext /\ UNCHANGED <<ledgerVars, inputsVars>>
    /\ UNCHANGED part

DataSpec == DataInit /\ [][DataNext]_dataVars
=============================================================================
