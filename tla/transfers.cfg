SPECIFICATION TransferSpec
CONSTANTS
  demo = demo
  other = other
  checking = checking
  savings = savings
  external = external
  UnknownAccount = UnknownAccount
  Clients = {demo, other}
  Accounts = {checking, savings, external}
  OwnerOf <- DemoOwners
  OpeningBalance <- DemoBalances
  Amounts = {1, 2}
  Workers = {w1, w2, w3}
SYMMETRY WorkerSymmetry
INVARIANTS
  TotalConserved
  OverdraftBounded
PROPERTY OnlyOwnersSpend
