CONSTANTS
    Main = Main
    Nil = Nil
    Worker = {w1, w2}
    Caller = {Main, c1}
    Destroyer = {Main, c1}
    Task = {t1, t2}
SPECIFICATION Spec
INVARIANTS
    NoSleepAfterShutdown
    Exclusion
    ListCounted
PROPERTIES
    DestroyReturns
CHECK_DEADLOCK FALSE
