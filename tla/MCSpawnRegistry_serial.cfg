\* Launches one after the other, with crashes and colliding and exhausted id candidates.
SPECIFICATION SpawnSpec
CONSTANTS
  Proc = {r1, r2, r3}
  File <- SpawnFiles
  Text <- SpawnTexts
  Nil = Nil
  Empty = Empty
  Torn <- SpawnTorn
  Mixed <- SpawnMixed
  UniqueFile = {}
  IoFaults = {}
  Fp = {1, 2, 3, 4}
  Stray = {}
  Family <- TwoFamilies
  Candidate <- CollidingCandidates
  NoId = NoId
  LayoutText = LayoutText
  RefText = RefText
  MaxAttempts = 2
  MaxConcurrent = 1
SYMMETRY Symmetry
INVARIANTS SpawnTypeOK LaunchResolves IdsUnambiguous FiledUnderItsId
PROPERTY SpawnsNeverForgotten
