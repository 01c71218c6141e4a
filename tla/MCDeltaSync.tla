----------------------------- MODULE MCDeltaSync -----------------------------
(* Small instances of DeltaSync: three messages, one after the other.      *)
EXTENDS DeltaSync, TLC

CONSTANTS first, second, third

MCTsAll == (first :> 1) @@ (second :> 2) @@ (third :> 3)
MCTs    == [m \in Msgs |-> MCTsAll[m]]
=============================================================================
