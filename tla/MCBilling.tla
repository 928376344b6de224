----------------------------- MODULE MCBilling -----------------------------
(* The café of Billing with one or two workstations and one account. *)
EXTENDS Billing, TLC

\* A deposit and a refund
SomeDeposits == {3, -1}

\* One deposit
OneDeposit == {1}

Workstations == Permutations(Clients)
=============================================================================
