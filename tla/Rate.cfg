\* Two clients, uneven amounts, time for sweeps.
SPECIFICATION Spec
CONSTANTS
    Clients = {c1, c2}
    Token = 3
    Full = 6
    Refill = 2
    TicksPerSecond = 1
    Forget = 3
    MaxNow = 8
INVARIANTS SustainedRate RetryWorks
PROPERTIES BucketSpec
