\* Order of one channel's requests at every worker, forwarded ones included.
CONSTANTS
    r1 = r1  r2 = r2  r3 = r3  lfcc = lfcc  sig = sig
    Req <- MCReq2
    NativeCh <- MCNative1
    Uart = Uart
    NoReq = NoReq
    NoCh = NoCh
    FrameBytes = 1
    MaxIngress = 2
    MaxForward = 1
    FdZeroFree = FALSE
    CtlMayFail = FALSE
SPECIFICATION Spec
PROPERTY ChannelFifo
CHECK_DEADLOCK FALSE
