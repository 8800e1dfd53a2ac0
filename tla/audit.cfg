SPECIFICATION TrailSpec
CONSTANTS
  Events = {issuance, decision, revocation}
  MaxEntries = 4
  MaxTime = 1
INVARIANTS
  TrailInvariant
  GapsAreFound
  EditIsFound
  RehashedEditIsFound
  RemovalIsFound
