SPECIFICATION Spec
CONSTANTS
    Threads = {t1, t2, t3}
    NoThread = NoThread
    Counter = 2
    Primes <- OnePrime
    MaxOps = 4
    MaxFailures = 1
SYMMETRY ThreadSymmetry
INVARIANTS
    LocksAreGivenBack
    ResultsAreRight
    NoFactorTwice
    ContextsOutliveUsers
CHECK_DEADLOCK FALSE
