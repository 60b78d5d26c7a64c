SPECIFICATION FairSpec
CONSTANTS
    Thread = {t1, t2}
    Producer = {p1, p2}
    InGroup = {p1}
    MaySync = {p2}
    Main = main
    Delta = 1
    MaxCallbacks = 3
INVARIANTS TypeOK NeverForgotten ThreadsCounted DrainRunsAll
PROPERTIES OnTime ImplementsCallbackQueue CallbacksRun ShutdownEnds
