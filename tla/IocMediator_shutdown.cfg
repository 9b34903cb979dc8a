\* ioc_kill_workers closes ioc->epfd and joins the core thread, then signals
\* each worker once and joins it.
CONSTANTS
    r1 = r1  r2 = r2  r3 = r3  lfcc = lfcc  sig = sig
    Req <- MCReq1
    NativeCh <- MCNative1
    Uart = Uart
    NoReq = NoReq
    NoCh = NoCh
    FrameBytes = 1
    MaxIngress = 2
    MaxForward = 1
    FdZeroFree = FALSE
    CtlMayFail = FALSE
SPECIFICATION Spec
PROPERTY JoinsReturn
CHECK_DEADLOCK FALSE
