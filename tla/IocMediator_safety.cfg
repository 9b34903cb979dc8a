\* Pool conservation, per-channel order and the refinement of IocPool:
\* three requests, the lifecycle channel and the guest, shutdown included.
CONSTANTS
    r1 = r1  r2 = r2  r3 = r3  lfcc = lfcc  sig = sig
    Req <- MCReq3
    NativeCh <- MCNative1
    Uart = Uart
    NoReq = NoReq
    NoCh = NoCh
    FrameBytes = 2
    MaxIngress = 2
    MaxForward = 1
    FdZeroFree = FALSE
    CtlMayFail = FALSE
SPECIFICATION Spec
SYMMETRY ReqSymmetry
INVARIANT TypeOK RequestOwnership
PROPERTY DirectFifo PoolRefinement
\* The mediator stops for good once ioc_deinit has joined every thread.
CHECK_DEADLOCK FALSE
