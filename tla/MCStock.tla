------------------------------ MODULE MCStock ------------------------------
EXTENDS Stock

\* Product 1 is sold at the counter, product 2 is a page of the printer.
Prices == [p \in Products |-> p]
=============================================================================
