\* Option strings of up to six characters and a path buffer scaled from 32
\* bytes to 4, so that paths of sizeof - 1 characters (the longest that
\* fit) and longer ones (truncated) both occur; a pthread_create that may
\* fail; every ioc_init path for every parsed reason.
CONSTANTS
    MaxLen = 6 PathSize = 4
    pmt = pmt lfcc = lfcc sig = sig raw0 = raw0 uart = uart
    Table <- MCTable On <- MCOn Critical <- MCCritical Uart = uart
    CreateMayFail = TRUE
SPECIFICATION Spec
INVARIANT ParsesWellFormed InitOutcome TeardownReleasesAll
\* The device model stops after ioc_deinit, or dies in ioc_parse.
CHECK_DEADLOCK FALSE
