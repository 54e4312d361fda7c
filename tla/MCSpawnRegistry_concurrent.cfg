\* Two launches at the same time; ids that collide and run out, a registry that is torn.
SPECIFICATION SpawnSpec
CONSTANTS
  Proc = {r1, r2}
  File <- SpawnFiles
  Text <- SpawnTexts
  Nil = Nil
  Empty = Empty
  Torn <- SpawnTorn
  Mixed <- SpawnMixed
  UniqueFile = {}
  IoFaults = {}
  Fp = {1, 2, 3}
  Stray = {2}
  Family <- OneFamily
  Candidate <- TornCandidates
  NoId = NoId
  LayoutText = LayoutText
  RefText = RefText
  MaxAttempts = 2
  MaxConcurrent = 2
INVARIANTS AttemptsExclusive RegistryReadable
PROPERTY LaunchesEnd
