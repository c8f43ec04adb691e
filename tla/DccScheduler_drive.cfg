\* Locos come and go while the power is switched on and off.
CONSTANTS
    Addresses = {3, 4, 5}
    Capacity = 16
    MaxPriority = 4
    MaxDrains = 2
    Inputs = {"put", "delete", "powerCycle"}
SPECIFICATION FairScheduler
INVARIANTS
    SchedulerInv
PROPERTIES
    OnlyStuckHangs
    EveryLocoRefreshed
