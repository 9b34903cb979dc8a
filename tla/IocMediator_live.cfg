\* Progress in steady state: one request shared by the lifecycle channel
\* and the guest; shutdown may start at any time.
CONSTANTS
    r1 = r1  r2 = r2  r3 = r3  lfcc = lfcc  sig = sig
    Req <- MCReq1
    NativeCh <- MCNative1
    Uart = Uart
    NoReq = NoReq
    NoCh = NoCh
    FrameBytes = 2
    MaxIngress = 2
    MaxForward = 1
    FdZeroFree = FALSE
    CtlMayFail = FALSE
SPECIFICATION Spec
PROPERTY RequestsReturn NativeDataRead
\* The mediator stops for good once ioc_deinit has joined every thread.
CHECK_DEADLOCK FALSE
