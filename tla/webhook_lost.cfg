SPECIFICATION Spec
CONSTANTS
  Deliveries = {d1, d2}
  Requests = {q1, q2, q3}
  MaxSends = 3
  NoDelivery = NoDelivery
  Faults = {"queue"}
SYMMETRY Symmetry
INVARIANTS AcceptedIsQueued
