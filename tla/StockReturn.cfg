\* Counterexample: a product is returned within a sale, whose price stays in the
\* array the cashing frame reads again.
SPECIFICATION Spec
CONSTANTS
  Clients = {1}
  Products = {1, 2}
  Printers = {2}
  UnitPrice <- Prices
  Quantities = {1}
  Mishaps = {"return"}
  MaxTime = 1
  MaxSessions = 1
  MaxRows = 1
  MaxSales = 1
  MaxAmount = 1
  MaxSupply = 1
  MaxLines = 1
INVARIANTS ShownIsSold
