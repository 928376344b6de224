------------------------------- MODULE Accounts -------------------------------
(***************************************************************************)
(* What the café promises its members and the buyers of its tickets: what  *)
(* is paid into an account is there, nobody is paid back more than he has, *)
(* and credit goes only to pay for a session, which is put on record with  *)
(* its price.  A session is charged to an account that is not overdrawn,   *)
(* so that one is never in debt for more than the session it just paid.    *)
(***************************************************************************)
EXTENDS Integers

CONSTANTS Members,  \* the accounts
          Amounts,  \* what is paid in, or paid back when negative
          Prices    \* what a session may cost

VARIABLES credit,    \* what is left of each account
          deposited, \* what was paid into it
          charged    \* what its sessions cost that are on record

vars == <<credit, deposited, charged>>

Init ==
  /\ credit = [m \in Members |-> 0]
  /\ deposited = [m \in Members |-> 0]
  /\ charged = [m \in Members |-> 0]

Pay(m, amount) ==
  /\ credit[m] + amount >= 0
  /\ credit' = [credit EXCEPT ![m] = @ + amount]
  /\ deposited' = [deposited EXCEPT ![m] = @ + amount]
  /\ UNCHANGED charged

Charge(m, price) ==
  /\ credit[m] >= 0
  /\ credit' = [credit EXCEPT ![m] = @ - price]
  /\ charged' = [charged EXCEPT ![m] = @ + price]
  /\ UNCHANGED deposited

Next ==
  \E m \in Members :
    \/ \E amount \in Amounts : Pay(m, amount)
    \/ \E price \in Prices : Charge(m, price)

Spec == Init /\ [][Next]_vars
=============================================================================
