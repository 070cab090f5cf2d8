SPECIFICATION Spec
CONSTANTS
  j1 = j1  j2 = j2  j3 = j3  j4 = j4  r1 = r1  r2 = r2  r3 = r3  p1 = p1  p2 = p2  w1 = w1  w2 = w2
  Jobs = {j1, j2}
  Runners = {r1, r2}
  Profiles = {p1}
  Workers = {w1, w2}
  RunnerCount = 2
  MaxProvisionAttempts = 2
  NoJob = NoJob  NoRunner = NoRunner  NoPool = NoPool  Closed = Closed
  Matching <- OneProfile
  MaxReceive <- QueuedTwice
  Faults = {"crash", "launch", "duplicate"}
SYMMETRY Symmetry
INVARIANTS TypeOK ProvisioningLock SlotBinding RecordedInstance
PROPERTIES NoRevival Dispatches
