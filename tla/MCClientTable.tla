--------------------------- MODULE MCClientTable ---------------------------
(* Two workstations, one member and a short clock for ClientTable. *)
EXTENDS ClientTable, TLC

\* -1 is what the minutes dialog of the main window lets through.
SomeTimeouts == {-1, 1}

Workstations == Permutations(Clients)
=============================================================================
