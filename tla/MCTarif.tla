------------------------------- MODULE MCTarif -------------------------------
(* Two tariffs, three parts and two prices in a week of two short days. *)
EXTENDS Tarif

TwoDays == {0, 1}
SomeStarts == {0, 2}
APrice == {{}, {[mins |-> 1, price |-> 7]}}
=============================================================================
