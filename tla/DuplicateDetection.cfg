SPECIFICATION Spec
CONSTANTS
  p1 = p1
  p2 = p2
  p3 = p3
  r1 = r1
  r2 = r2
  r3 = r3
  v1 = v1
  v2 = v2
  plain = plain
  dotted = dotted
  chinese = chinese
  Blank = Blank
  None = None
  Papers <- ThreePapers
  Requests <- ThreeRequests
  Reviewers <- TwoReviewers
  Titles <- AllTitles
  Normal <- Normalised
  Score <- Ratios
  Threshold = 92
  MaxDeaths = 1
SYMMETRY Symmetry
INVARIANTS
  EarlierIsCompared
  CandidatesStayTrue
  ReviewStands
