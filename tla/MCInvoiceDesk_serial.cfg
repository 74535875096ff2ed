\* One request at a time, two documents typed in, everything they can say.
SPECIFICATION Spec
CONSTANTS
  None = None
  Acme = Acme
  Bolt = Bolt
  Invoices = {i1, i2}
  Calls = {c1}
  Contents <- Three
  Kinds <- Both
  Threshold <- Limit
  Amounts = {5}
  FromText = {}
  Keyed = {i1, i2}
SYMMETRY Symmetry
INVARIANTS
  DeskTypeOK
  PassedIsJustified
  DuplicatesSignedOff
