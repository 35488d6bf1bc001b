----------------------------- MODULE MCDelivery -----------------------------
(* Instances of Delivery for TLC. *)
EXTENDS Delivery, FiniteSets, TLC

CONSTANT i1

MCIds == {i1}

(* Deliveries racing for the same candidate, with nothing else to do. *)
Bare == {[id |-> i1, budget |-> FALSE, runs |-> 0]}

(* Every shape of contract, for a delivery alone with the other users. *)
AllShapes == [id : {i1}, budget : BOOLEAN, runs : 0..3]

(* Bounds of the race: at most one delivery is signalled or killed; what a *)
(* command does to HEAD, stray descendants and a lost forward stream, which*)
(* publication does not depend on, are left to the solo run.               *)
RaceBounds ==
  /\ Cardinality({d \in Deliveries : sigterm[d] \/ pc[d] = "killed"}) <= 1
  /\ \A d \in Deliveries :
       status[d] # "lost" /\ cmd[d] # "orphans" /\ ~pending[d].moved

Symmetry == Permutations(Deliveries)
=============================================================================
