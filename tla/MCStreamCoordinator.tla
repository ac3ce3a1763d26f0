------------------------ MODULE MCStreamCoordinator ------------------------
(***************************************************************************)
(* Instances of StreamCoordinator for TLC.                                 *)
(***************************************************************************)
EXTENDS StreamCoordinator, TLC

\* Every consumer asks for the entrypoint that rings.
SameDoor == [c \in Consumers |-> Door]

\* Consumers and calls are interchangeable.
Symmetry == Permutations(Consumers \ Plain) \cup Permutations(Dialogs)
=============================================================================
