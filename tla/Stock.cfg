\* Two workstations and a print server: sessions that are paused, stopped, undone,
\* moved and printed for, deliveries and a sale.
SPECIFICATION Spec
CONSTANTS
  Clients = {1, 2}
  Products = {1}
  Printers = {1}
  UnitPrice <- Prices
  Quantities = {1}
  Mishaps = {}
  MaxTime = 2
  MaxSessions = 2
  MaxRows = 2
  MaxSales = 1
  MaxAmount = 1
  MaxSupply = 1
  MaxLines = 1
INVARIANTS TypeOK StockAddsUp LoggedOnce ProductsOfSession
