\* An admin's runs and two nightly ones, with orders placed meanwhile.
SPECIFICATION FairSpec
CONSTANTS
    Customers = {c1}
    Admins = {a1}
    Scheduler = scheduler
    MaxOrders = 2
    MaxDays = 2
    MaxCrashes = 1
INVARIANTS BackupInv DumpIsConsistent OnceADay
PROPERTIES EveryNight RunEnds
