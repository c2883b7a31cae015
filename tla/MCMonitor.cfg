SPECIFICATION Spec
CONSTANTS
    a1 = a1  a2 = a2  b1 = b1  b2 = b2  b3 = b3  c1 = c1  c2 = c2
    none = none  seal = seal  root = root  absent = absent  host1 = host1  t1 = t1  t2 = t2  t3 = t3
SYMMETRY Symmetric
CHECK_DEADLOCK FALSE
INVARIANTS
    Fenced NoAuditOverclaimed NeverStale AccountKept RollbackPoint RunsOnPair
    LiveSessionKept ClosureCoversAcks BillsAgree PendingKeepsPayload
    CountedOnce Recoverable SidesAgree FencedNeverRefused ReportsServed
PROPERTIES CancelledStays CooldownKept DeliverySpec ReissuedOnlyByHolder
