\* The work_err path: thread creation fails.
CONSTANTS
    pmt = pmt lfcc = lfcc sig = sig raw0 = raw0 uart = uart
    Table <- MCTable On <- MCOn Critical <- MCCritical Uart = uart
    CreateMayFail = TRUE
SPECIFICATION Spec
INVARIANT InitUnwinds
\* ioc_deinit is the last thing the mediator does: nothing follows it.
CHECK_DEADLOCK FALSE
