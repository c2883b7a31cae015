\* Two plans after the stores of an older image; starts may end anywhere.
SPECIFICATION Spec
CONSTANTS
    MaxPlan = 2
    MaxSnapshots = 4
    MaxWrites = 1
    Retention = 1
INVARIANTS UpgradeKeepsAlerts
CHECK_DEADLOCK FALSE
