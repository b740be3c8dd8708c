SPECIFICATION Spec
CONSTANTS
  Outpoints = {o1, o2}
  Coins = {c1, c2}
  Spent = Spent
  Hashes = {h1, h2}
  NULL = NULL
  NoEntry = NoEntry
INVARIANTS
  TypeOK
  FlagsSound
  FreshIsUnspent
PROPERTIES
  ImplementsView
