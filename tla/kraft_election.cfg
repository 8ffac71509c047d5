SPECIFICATION Spec
CHECK_DEADLOCK FALSE
CONSTANTS
  Nodes = {n1, n2, n3}
  Nobody = Nobody
  MaxTerm = 3
INVARIANTS
  OneLeaderPerTerm
  LeaderIdTrue
SYMMETRY Symmetry
