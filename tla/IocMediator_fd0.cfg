\* The DM runs with fd 0 closed, so the first channel opened gets fd 0.
CONSTANTS
    r1 = r1  r2 = r2  r3 = r3  lfcc = lfcc  sig = sig
    Req <- MCReq1
    NativeCh <- MCNative1
    Uart = Uart
    NoReq = NoReq
    NoCh = NoCh
    FrameBytes = 1
    MaxIngress = 2
    MaxForward = 1
    FdZeroFree = TRUE
    CtlMayFail = FALSE
SPECIFICATION Spec
PROPERTY NativeDataRead
CHECK_DEADLOCK FALSE
