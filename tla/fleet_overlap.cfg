SPECIFICATION FleetSpec
CONSTANTS
  j1 = j1  j2 = j2  r1 = r1  r2 = r2  p1 = p1  w1 = w1  w2 = w2  c1 = c1  c2 = c2
  Jobs = {j1}
  Runners = {r1}
  Profiles = {p1}
  Workers = {w1}
  Reapers = {c1, c2}
  RunnerCount = 1
  MaxProvisionAttempts = 2
  NoJob = NoJob  NoRunner = NoRunner  NoPool = NoPool  Closed = Closed
  Matching <- OneProfile
  MaxReceive <- EachOnce
  Faults = {"crash"}
  SweepFaults = {"spot", "abandon"}
SYMMETRY Symmetry
INVARIANTS FleetTypeOK TerminatedIsGone RunningSpared UntrackedIsDead
PROPERTIES Lives
