SPECIFICATION PartsSpec
CONSTANTS
  Deliveries = {d1, d2}
  Requests = {q1, q2, q3}
  MaxSends = 3
  NoDelivery = NoDelivery
  Faults = {"table", "queue", "crash"}
  Names = {"amd", "arm"}
  Labels = {"amd", "arm", "gpu"}
  RawConfigs <- MCRawConfigs
  Environments = {e1, e2}
  InstallationID = 0
  MaxInstallations = 3
  AMICacheTTL = 1
  Wanted <- MCWanted
  Changing <- MCChanging
  LastDate = 2
  MaxTime = 3
  Ids <- MCIds
  SendCommandBatch = 2
  SlotCount = 2
  IdleTimeout = 1
  AutoTerminatingTime = 2
  BootTimeout = 2
  StaleBusyAfter = 2
  ProcessBusyCeiling = 3
  SweepPeriod = 1
  MaxAge = 7
INVARIANTS TypeOK EnqueuedOnce PartsTypeOK VerdictIsRule LabelsDiagnosed LabelUnambiguous ImageRecent ImageFits ResultWasSo AskedOnce LifeCapped IdleReaped BootReaped
PROPERTIES SelfHeals CheckEnds
CHECK_DEADLOCK FALSE
