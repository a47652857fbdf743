\* Two keys, two voters, two elections with two candidates, three block times.
CONSTANTS
  Accounts = {a1, a2}
  ZeroAddress = zeroAddress
  Nullifiers = {n1, n2}
  Hashes = {root}
  Zero = zero
  MAX_CANDIDATES = 2
  MaxElections = 2
  MaxTime = 2
SPECIFICATION Spec
SYMMETRY Symmetry
INVARIANTS TallyMatchesLog
PROPERTIES ElectionsAreBallotBoxes
