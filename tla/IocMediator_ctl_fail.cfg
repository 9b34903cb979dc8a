\* epoll_ctl(EPOLL_CTL_ADD) may fail for a channel (ENOMEM, or the
\* max_user_watches limit); fd 0 is not free.
CONSTANTS
    r1 = r1  r2 = r2  r3 = r3  lfcc = lfcc  sig = sig
    Req <- MCReq1
    NativeCh <- MCNative1
    Uart = Uart
    NoReq = NoReq
    NoCh = NoCh
    FrameBytes = 1
    MaxIngress = 2
    MaxForward = 1
    FdZeroFree = FALSE
    CtlMayFail = TRUE
SPECIFICATION Spec
PROPERTY NativeDataRead
CHECK_DEADLOCK FALSE
