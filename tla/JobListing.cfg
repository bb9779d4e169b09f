SPECIFICATION Spec
CONSTANTS
  j1 = j1
  j2 = j2
  j3 = j3
  ada = ada
  None = None
  Jobs <- ThreeJobs
  Owners <- OneOwner
  Statuses = {"queued", "running"}
  PageSize = 1
  MaxMoves = 2
SYMMETRY JobSymmetry
INVARIANTS
  MissedForCause
  RepeatedForCause
  ListedCanBeRead
