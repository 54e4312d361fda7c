\* Two launches at the same time: the temporary file of the registry is shared.
SPECIFICATION SpawnSpec
CONSTANTS
  Proc = {r1, r2}
  File <- SpawnFiles
  Text <- SpawnTexts
  Nil = Nil
  Empty = Empty
  Torn <- SpawnTorn
  Mixed <- SpawnMixed
  UniqueFile = {}
  IoFaults = {}
  Fp = {1, 2}
  Stray = {}
  Family <- OneFamily
  Candidate <- DistinctCandidates
  NoId = NoId
  LayoutText = LayoutText
  RefText = RefText
  MaxAttempts = 2
  MaxConcurrent = 2
SYMMETRY Symmetry
INVARIANT LaunchResolves
