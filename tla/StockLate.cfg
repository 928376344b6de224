\* Counterexample: a page is printed while the employee enters what was
\* delivered, and the stock is set to what was read before.
SPECIFICATION Spec
CONSTANTS
  Clients = {1}
  Products = {1, 2}
  Printers = {2}
  UnitPrice <- Prices
  Quantities = {1}
  Mishaps = {"late"}
  MaxTime = 1
  MaxSessions = 1
  MaxRows = 1
  MaxSales = 1
  MaxAmount = 1
  MaxSupply = 1
  MaxLines = 1
INVARIANTS StockAddsUp
