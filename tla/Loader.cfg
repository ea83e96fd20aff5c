SPECIFICATION FairSpec
CONSTANTS
    Threads = {t1, t2, t3}
    SystemProps <- AllSystemProps
    FileProps <- AllFileProps
    Bundled = {TRUE, FALSE}
    Preinstalled = {TRUE, FALSE}
    MaxCleanUps = 2
    NULL = NULL
INVARIANTS LoadedOnce ImplReady
PROPERTY CallsEnd
\* The system is idle once both classes are initialized and MaxCleanUps is reached.
CHECK_DEADLOCK FALSE
