---------------------------- MODULE IocMediator ----------------------------
(***************************************************************************)
(* The concurrency core of the IOC mediator (src/hw/platform/ioc.c): the   *)
(* core thread that waits in epoll_wait and reads the native CBC devices   *)
(* and the virtual UART, the rx and tx worker threads that take requests   *)
(* from their queues under a mutex and condition variable, the pool of    *)
(* requests moving between the free, rx and tx queues, and the shutdown    *)
(* sequence of ioc_kill_workers.                                           *)
(*                                                                         *)
(* The model starts where ioc_init returns a device: every channel is      *)
(* open, all requests are on the free queue and the three threads run.     *)
(* The CBC handlers cbc_rx_handler/cbc_tx_handler and the link-frame       *)
(* codec live outside src/ and are modelled by their contract: a handler   *)
(* either recycles the request or forwards it to the other worker.         *)
(***************************************************************************)
EXTENDS Naturals, Sequences, FiniteSets, SequencesExt

CONSTANTS
    Req,          \* the request pool ioc->pool (IOC_MAX_REQUESTS entries)
    NativeCh,     \* the open native CBC channels (lifecycle, signal, raw..)
    Uart,         \* the channel IOC_VIRTUAL_UART
    NoReq,        \* no request held
    NoCh,         \* request not stamped with a channel
    FrameBytes,   \* bytes of one CBC link frame sent by the guest
    MaxIngress,   \* bound: frames each device and the guest send
    MaxForward,   \* bound: forwards of one request between the workers
    FdZeroFree,   \* the DM runs with fd 0 closed, so a channel may get fd 0
    CtlMayFail    \* epoll_ctl(EPOLL_CTL_ADD) may fail for a channel

ASSUME /\ Req # {} /\ NativeCh # {} /\ Uart \notin NativeCh
       /\ NoReq \notin Req /\ NoCh \notin NativeCh \cup {Uart}
       /\ FrameBytes \in Nat \ {0} /\ MaxIngress \in Nat /\ MaxForward \in Nat
       /\ FdZeroFree \in BOOLEAN /\ CtlMayFail \in BOOLEAN

Chan == NativeCh \cup {Uart}
Worker == {"rx", "tx"}
Opposite(w) == IF w = "rx" THEN "tx" ELSE "rx"

VARIABLES
    q,           \* [free, rx, tx |-> Seq(Req)]: free_qhead, rx_qhead, tx_qhead
    meta,        \* per request: channel id, ingress sequence number, forwards
    registered,  \* channels added to the epoll set (chl->fd > 0)
    corePc,      \* core thread: "loop", "wait" (in epoll_wait), "dispatch", "exit"
    events,      \* channels of the eventlist returned by epoll_wait
    pc,          \* worker thread: "lock", "wait", "woken", "proc", "exit"
    held,        \* the request a worker has dequeued
    closing,     \* ioc->closing
    epfdOpen,    \* ioc->epfd not yet closed
    mainPc,      \* the DM thread: "run" or the step of ioc_kill_workers
    devSent,     \* service frames each native device has made readable
    nRead,       \* service frames the core has read from each native device
    uartSent,    \* link frames the guest has written to the virtual UART
    uartRead,    \* bytes the core has read from the virtual UART
    lastSeen,    \* history: per worker and channel, last sequence handled
    lastDirect   \* history: per channel, last sequence handled unforwarded

vars == <<q, meta, registered, corePc, events, pc, held, closing, epfdOpen,
          mainPc, devSent, nRead, uartSent, uartRead, lastSeen, lastDirect>>
envVars == <<devSent, uartSent>>
histVars == <<lastSeen, lastDirect>>

-----------------------------------------------------------------------------
(* Helpers *)

\* pthread_cond_signal on the condition variable of worker w's queue:
\* wakes w if it waits, and is lost otherwise.
Signalled(pcf, w) == IF pcf[w] = "wait" THEN [pcf EXCEPT ![w] = "woken"] ELSE pcf

\* cbc_request_enqueue: SIMPLEQ_INSERT_HEAD or SIMPLEQ_INSERT_TAIL of r on
\* the queue of qtype under its mutex (the signal of the rx or tx
\* condition variable is Signalled).
CbcRequestEnqueue(qs, r, qtype, toHead) ==
    [qs EXCEPT ![qtype] = IF toHead THEN <<r>> \o @ ELSE Append(@, r)]

\* cbc_request_dequeue(CBC_QUEUE_T_FREE) of a non-empty free queue: the
\* head is removed (and returned; callers take Head(q.free)).
CbcRequestDequeueFree(qs) == [qs EXCEPT !.free = Tail(@)]

\* Level-triggered readiness of a channel.
Ready(c) == IF c = Uart THEN uartRead < uartSent * FrameBytes
                        ELSE nRead[c] < devSent[c]

\* Steps of ioc_kill_workers after which w's mutex has been locked and
\* unlocked by the DM thread, so w reads the new value of ioc->closing.
SyncedPcs(w) == IF w = "rx" THEN {"join_rx", "signal_tx", "join_tx", "done"}
                            ELSE {"join_tx", "done"}

\* Values a read of ioc->closing by worker w can return: the flag is
\* written without a lock, so before synchronising through w's mutex the
\* read may still return the old value.
ClosingSeen(w) == IF closing /\ mainPc \notin SyncedPcs(w)
                  THEN {TRUE, FALSE} ELSE {closing}

-----------------------------------------------------------------------------
\* The sets of channels ioc_core_thread's loop can leave registered: a
\* channel is added only if chl->fd > 0 (with fd 0 free, the first channel
\* opened, a native one, gets fd 0), and a failed epoll_ctl is only logged.
CoreRegister ==
    LET byFd == {Chan} \cup
                (IF FdZeroFree THEN {Chan \ {c} : c \in NativeCh} ELSE {})
    IN IF CtlMayFail THEN {s \ f : s \in byFd, f \in SUBSET Chan} ELSE byFd

Init ==
    /\ q = [free |-> SetToSeq(Req), rx |-> <<>>, tx |-> <<>>]
    /\ meta = [r \in Req |-> [ch |-> NoCh, seq |-> 0, hops |-> 0]]
    /\ registered \in CoreRegister
    /\ corePc = "loop" /\ events = {}
    /\ pc = [w \in Worker |-> "lock"] /\ held = [w \in Worker |-> NoReq]
    /\ closing = FALSE /\ epfdOpen = TRUE /\ mainPc = "run"
    /\ devSent = [c \in NativeCh |-> 0] /\ nRead = [c \in NativeCh |-> 0]
    /\ uartSent = 0 /\ uartRead = 0
    /\ lastSeen = [w \in Worker |-> [c \in Chan |-> 0]]
    /\ lastDirect = [c \in Chan |-> 0]

-----------------------------------------------------------------------------
(* Environment: a native device or the guest makes data readable. *)

DeviceWrite(c) ==
    /\ devSent[c] < MaxIngress
    /\ devSent' = [devSent EXCEPT ![c] = @ + 1]
    /\ UNCHANGED <<q, meta, registered, corePc, events, pc, held, closing,
                   epfdOpen, mainPc, nRead, uartSent, uartRead, histVars>>

GuestWrite ==
    /\ uartSent < MaxIngress
    /\ uartSent' = uartSent + 1
    /\ UNCHANGED <<q, meta, registered, corePc, events, pc, held, closing,
                   epfdOpen, mainPc, devSent, nRead, uartRead, histVars>>

-----------------------------------------------------------------------------
(* ioc_core_thread *)

\* Top of the for(;;) loop: epoll_wait on a closed ioc->epfd fails with
\* EBADF and the thread exits; otherwise it blocks.
CoreLoop ==
    /\ corePc = "loop"
    /\ corePc' = IF epfdOpen THEN "wait" ELSE "exit"
    /\ UNCHANGED <<q, meta, registered, events, pc, held, closing, epfdOpen,
                   mainPc, envVars, nRead, uartRead, histVars>>

\* epoll_wait returns every ready registered channel (level triggered).
\* A thread already blocked here is not woken by close(ioc->epfd).
CoreEpollWait ==
    /\ corePc = "wait"
    /\ \E c \in registered : Ready(c)
    /\ events' = {c \in registered : Ready(c)}
    /\ corePc' = "dispatch"
    /\ UNCHANGED <<q, meta, registered, pc, held, closing, epfdOpen, mainPc,
                   envVars, nRead, uartRead, histVars>>

\* Mutant: any failure of epoll_wait ends the thread (errno not checked).
CoreEintrExits ==
    /\ corePc = "wait"
    /\ corePc' = "exit"
    /\ UNCHANGED <<q, meta, registered, events, pc, held, closing, epfdOpen,
                   mainPc, envVars, nRead, uartRead, histVars>>

\* epoll_wait fails with EINTR: n < 0, nothing dispatched, loop again.
CoreEintr ==
    /\ corePc = "wait"
    /\ corePc' = "loop"
    /\ UNCHANGED <<q, meta, registered, events, pc, held, closing, epfdOpen,
                   mainPc, envVars, nRead, uartRead, histVars>>

CoreDispatchDone ==
    /\ corePc = "dispatch" /\ events = {}
    /\ corePc' = "loop"
    /\ UNCHANGED <<q, meta, registered, events, pc, held, closing, epfdOpen,
                   mainPc, envVars, nRead, uartRead, histVars>>

\* Mutant: the request is appended at the tx queue head.
IocProcessTxToHead(c) ==
    /\ corePc = "dispatch" /\ c \in events /\ c \in NativeCh
    /\ events' = events \ {c}
    /\ IF q.free = <<>>
       THEN UNCHANGED <<q, meta, pc, nRead>>
       ELSE LET r == Head(q.free) IN
            /\ q' = [q EXCEPT !.free = Tail(@), !.tx = <<r>> \o @]
            /\ meta' = [meta EXCEPT ![r] = [ch |-> c, seq |-> nRead[c] + 1,
                                             hops |-> 0]]
            /\ nRead' = [nRead EXCEPT ![c] = @ + 1]
            /\ pc' = Signalled(pc, "tx")
    /\ UNCHANGED <<registered, corePc, held, closing, epfdOpen, mainPc,
                   envVars, uartRead, histVars>>

\* ioc_dispatch -> ioc_process_tx for a native channel: take a free request,
\* read one service frame into it and append it to the tx queue.  With the
\* free queue empty nothing is read and the data stays readable.
IocProcessTx(c) ==
    /\ corePc = "dispatch" /\ c \in events /\ c \in NativeCh
    /\ events' = events \ {c}
    /\ IF q.free = <<>>
       THEN UNCHANGED <<q, meta, pc, nRead>>
       ELSE LET r == Head(q.free) IN
            /\ q' = CbcRequestEnqueue(CbcRequestDequeueFree(q), r, "tx", FALSE)
            /\ meta' = [meta EXCEPT ![r] = [ch |-> c, seq |-> nRead[c] + 1,
                                             hops |-> 0]]
            /\ nRead' = [nRead EXCEPT ![c] = @ + 1]
            /\ pc' = Signalled(pc, "tx")
    /\ UNCHANGED <<registered, corePc, held, closing, epfdOpen, mainPc,
                   envVars, uartRead, histVars>>

\* Mutant: the error path does not give the request back.
IocProcessTxRecvErrorLeak(c) ==
    /\ corePc = "dispatch" /\ c \in events /\ c \in NativeCh
    /\ q.free # <<>>
    /\ events' = events \ {c}
    /\ q' = [q EXCEPT !.free = Tail(@)]
    /\ UNCHANGED <<meta, registered, corePc, pc, held, closing, epfdOpen,
                   mainPc, envVars, nRead, uartRead, histVars>>

\* ioc_process_tx when ioc_ch_recv fails: the request goes back to the
\* free queue tail and the data stays readable.
IocProcessTxRecvError(c) ==
    /\ corePc = "dispatch" /\ c \in events /\ c \in NativeCh
    /\ q.free # <<>>
    /\ events' = events \ {c}
    /\ q' = CbcRequestEnqueue(CbcRequestDequeueFree(q), Head(q.free), "free", FALSE)
    /\ UNCHANGED <<meta, registered, corePc, pc, held, closing, epfdOpen,
                   mainPc, envVars, nRead, uartRead, histVars>>

\* ioc_dispatch -> ioc_process_rx: read one byte of the virtual UART into
\* the ring; when it completes a link frame, cbc_unpack_link calls
\* ioc_build_request, which appends a free request to the rx queue, or
\* drops the frame when the free queue is empty.
IocProcessRx ==
    /\ corePc = "dispatch" /\ Uart \in events
    /\ events' = events \ {Uart}
    /\ uartRead' = uartRead + 1
    /\ IF (uartRead + 1) % FrameBytes = 0 /\ q.free # <<>>
       THEN LET r == Head(q.free) IN
            /\ q' = CbcRequestEnqueue(CbcRequestDequeueFree(q), r, "rx", FALSE)
            /\ meta' = [meta EXCEPT ![r] =
                          [ch |-> Uart, seq |-> (uartRead + 1) \div FrameBytes,
                           hops |-> 0]]
            /\ pc' = Signalled(pc, "rx")
       ELSE UNCHANGED <<q, meta, pc>>
    /\ UNCHANGED <<registered, corePc, held, closing, epfdOpen, mainPc,
                   envVars, nRead, histVars>>

\* ioc_process_rx when ioc_ch_recv of the virtual UART fails: it returns
\* -1 with nothing read, and the byte stays readable.
IocProcessRxRecvError ==
    /\ corePc = "dispatch" /\ Uart \in events
    /\ events' = events \ {Uart}
    /\ UNCHANGED <<q, meta, registered, corePc, pc, held, closing, epfdOpen,
                   mainPc, envVars, nRead, uartRead, histVars>>

-----------------------------------------------------------------------------
(* ioc_rx_thread and ioc_tx_thread *)

\* Dequeue the head of w's queue and release the mutex.
Dequeue(w) ==
    /\ q' = [q EXCEPT ![w] = Tail(@)]
    /\ held' = [held EXCEPT ![w] = Head(q[w])]
    /\ pc' = [pc EXCEPT ![w] = "proc"]

Exit(w) == pc' = [pc EXCEPT ![w] = "exit"] /\ UNCHANGED <<q, held>>

\* Lock the queue mutex; while the queue is empty, wait on the condition
\* variable (ioc->closing is not read before waiting); then, if closing,
\* exit, else dequeue.
WorkerLock(w) ==
    /\ pc[w] = "lock"
    /\ IF q[w] = <<>>
       THEN pc' = [pc EXCEPT ![w] = "wait"] /\ UNCHANGED <<q, held>>
       ELSE \E seen \in ClosingSeen(w) : IF seen THEN Exit(w) ELSE Dequeue(w)
    /\ UNCHANGED <<meta, registered, corePc, events, closing, epfdOpen,
                   mainPc, envVars, nRead, uartRead, histVars>>

\* Mutant: `if` instead of `while` around pthread_cond_wait: a wake-up
\* with the queue still empty goes on to process SIMPLEQ_FIRST, NULL.
WorkerWakeIf(w) ==
    /\ pc[w] = "woken"
    /\ \E seen \in ClosingSeen(w) :
          IF seen THEN Exit(w)
          ELSE IF q[w] = <<>> THEN pc' = [pc EXCEPT ![w] = "proc"]
                                   /\ UNCHANGED <<q, held>>
               ELSE Dequeue(w)
    /\ UNCHANGED <<meta, registered, corePc, events, closing, epfdOpen,
                   mainPc, envVars, nRead, uartRead, histVars>>

\* pthread_cond_wait returns: exit if closing, wait again if the queue is
\* still empty, else leave the loop and dequeue.
WorkerWake(w) ==
    /\ pc[w] = "woken"
    /\ \E seen \in ClosingSeen(w) :
          IF seen THEN Exit(w)
          ELSE IF q[w] = <<>> THEN pc' = [pc EXCEPT ![w] = "wait"]
                                   /\ UNCHANGED <<q, held>>
               ELSE Dequeue(w)
    /\ UNCHANGED <<meta, registered, corePc, events, closing, epfdOpen,
                   mainPc, envVars, nRead, uartRead, histVars>>

\* pthread_cond_wait may return without a signal.
WorkerSpuriousWake(w) ==
    /\ pc[w] = "wait"
    /\ pc' = [pc EXCEPT ![w] = "woken"]
    /\ UNCHANGED <<q, meta, registered, corePc, events, held, closing,
                   epfdOpen, mainPc, envVars, nRead, uartRead, histVars>>

\* History of the handling of request r by worker w.
Handled(w, r) ==
    /\ lastSeen' = [lastSeen EXCEPT ![w][meta[r].ch] = meta[r].seq]
    /\ lastDirect' = IF meta[r].hops = 0
                     THEN [lastDirect EXCEPT ![meta[r].ch] = meta[r].seq]
                     ELSE lastDirect

\* packet.qtype = CBC_QUEUE_T_FREE, the handler (ioc_dev_rx/ioc_dev_tx)
\* runs and leaves it: the request goes to the free queue tail.
WorkerRecycle(w) ==
    /\ pc[w] = "proc"
    /\ LET r == held[w] IN
       /\ q' = CbcRequestEnqueue(q, r, "free", FALSE)
       /\ Handled(w, r)
    /\ held' = [held EXCEPT ![w] = NoReq]
    /\ pc' = [pc EXCEPT ![w] = "lock"]
    /\ UNCHANGED <<meta, registered, corePc, events, closing, epfdOpen,
                   mainPc, envVars, nRead, uartRead>>

\* Mutant: the request is inserted without signalling the condition variable.
WorkerForwardNoSignal(w) ==
    /\ pc[w] = "proc"
    /\ LET r == held[w]
           o == Opposite(w) IN
       /\ meta[r].hops < MaxForward
       /\ q' = [q EXCEPT ![o] = <<r>> \o @]
       /\ meta' = [meta EXCEPT ![r].hops = @ + 1]
       /\ Handled(w, r)
       /\ pc' = [pc EXCEPT ![w] = "lock"]
    /\ held' = [held EXCEPT ![w] = NoReq]
    /\ UNCHANGED <<registered, corePc, events, closing, epfdOpen, mainPc,
                   envVars, nRead, uartRead>>

\* Mutant: the request is put back on the worker's own queue.
WorkerForwardOwnQueue(w) ==
    /\ pc[w] = "proc"
    /\ LET r == held[w]
           o == Opposite(w) IN
       /\ meta[r].hops < MaxForward
       /\ q' = [q EXCEPT ![w] = <<r>> \o @]
       /\ meta' = [meta EXCEPT ![r].hops = @ + 1]
       /\ Handled(w, r)
       /\ pc' = Signalled([pc EXCEPT ![w] = "lock"], o)
    /\ held' = [held EXCEPT ![w] = NoReq]
    /\ UNCHANGED <<registered, corePc, events, closing, epfdOpen, mainPc,
                   envVars, nRead, uartRead>>

\* The handler sets packet.qtype to the other worker's queue: the request
\* is inserted at that queue's head and its condition variable signalled.
WorkerForward(w) ==
    /\ pc[w] = "proc"
    /\ LET r == held[w]
           o == Opposite(w) IN
       /\ meta[r].hops < MaxForward
       /\ q' = CbcRequestEnqueue(q, r, o, TRUE)
       /\ meta' = [meta EXCEPT ![r].hops = @ + 1]
       /\ Handled(w, r)
       /\ pc' = Signalled([pc EXCEPT ![w] = "lock"], o)
    /\ held' = [held EXCEPT ![w] = NoReq]
    /\ UNCHANGED <<registered, corePc, events, closing, epfdOpen, mainPc,
                   envVars, nRead, uartRead>>

-----------------------------------------------------------------------------
(* ioc_deinit -> ioc_kill_workers, run by the DM thread *)

SignalPc(w) == IF w = "rx" THEN "signal_rx" ELSE "signal_tx"
JoinPc(w) == IF w = "rx" THEN "join_rx" ELSE "join_tx"
AfterJoin(w) == IF w = "rx" THEN "signal_tx" ELSE "done"

IocDeinit ==
    /\ mainPc = "run"
    /\ closing' = TRUE
    /\ mainPc' = "close_epfd"
    /\ UNCHANGED <<q, meta, registered, corePc, events, pc, held, epfdOpen,
                   envVars, nRead, uartRead, histVars>>

KillCloseEpfd ==
    /\ mainPc = "close_epfd"
    /\ epfdOpen' = FALSE
    /\ mainPc' = "join_core"
    /\ UNCHANGED <<q, meta, registered, corePc, events, pc, held, closing,
                   envVars, nRead, uartRead, histVars>>

KillJoinCore ==
    /\ mainPc = "join_core" /\ corePc = "exit"
    /\ mainPc' = "signal_rx"
    /\ UNCHANGED <<q, meta, registered, corePc, events, pc, held, closing,
                   epfdOpen, envVars, nRead, uartRead, histVars>>

\* Lock w's mutex, signal its condition variable, unlock.
KillSignal(w) ==
    /\ mainPc = SignalPc(w)
    /\ pc' = Signalled(pc, w)
    /\ mainPc' = JoinPc(w)
    /\ UNCHANGED <<q, meta, registered, corePc, events, held, closing,
                   epfdOpen, envVars, nRead, uartRead, histVars>>

\* pthread_join(w); after the tx join the rest of ioc_deinit (destroying
\* the mutexes, ioc_ch_deinit, freeing the pool) runs with no thread left.
KillJoin(w) ==
    /\ mainPc = JoinPc(w) /\ pc[w] = "exit"
    /\ mainPc' = AfterJoin(w)
    /\ UNCHANGED <<q, meta, registered, corePc, events, pc, held, closing,
                   epfdOpen, envVars, nRead, uartRead, histVars>>

-----------------------------------------------------------------------------
Core == CoreLoop \/ CoreEpollWait \/ CoreDispatchDone \/ IocProcessRx
        \/ \E c \in NativeCh : IocProcessTx(c)

WorkerStep(w) == WorkerLock(w) \/ WorkerWake(w) \/ WorkerRecycle(w)
                 \/ WorkerForward(w)

Kill == KillCloseEpfd \/ KillJoinCore \/ \E w \in Worker : KillSignal(w) \/ KillJoin(w)

Next ==
    \/ \E c \in NativeCh : DeviceWrite(c) \/ IocProcessTxRecvError(c)
    \/ GuestWrite \/ CoreEintr \/ IocProcessRxRecvError \/ IocDeinit
    \/ \E w \in Worker : WorkerSpuriousWake(w)
    \/ Core
    \/ \E w \in Worker : WorkerStep(w)
    \/ Kill

\* Threads are scheduled by the OS: a runnable thread eventually runs.
\* Strong fairness where an environment step can take the step away again:
\* an epoll_wait with data ready is not interrupted by EINTR forever, and a
\* read of a ready device does not fail forever.  Devices, the guest,
\* interrupts, spurious wake-ups and the call of ioc_deinit get none.
Fairness ==
    /\ WF_vars(CoreLoop) /\ SF_vars(CoreEpollWait) /\ WF_vars(CoreDispatchDone)
    /\ SF_vars(IocProcessRx)
    /\ \A c \in NativeCh : SF_vars(IocProcessTx(c))
    /\ \A w \in Worker : WF_vars(WorkerStep(w))
    /\ WF_vars(Kill)

Spec == Init /\ [][Next]_vars /\ Fairness

-----------------------------------------------------------------------------
(* Properties *)

\* Every variable has its type, and a worker is in its handler exactly when
\* it holds a request: the while loop around pthread_cond_wait (ioc_rx_thread,
\* ioc_tx_thread) only lets it leave with a non-empty queue.
TypeOK ==
    /\ \A k \in {"free", "rx", "tx"} : q[k] \in Seq(Req)
    /\ meta \in [Req -> [ch : Chan \cup {NoCh}, seq : 0..MaxIngress,
                         hops : 0..MaxForward]]
    /\ registered \subseteq Chan /\ events \subseteq registered
    /\ corePc \in {"loop", "wait", "dispatch", "exit"}
    /\ pc \in [Worker -> {"lock", "wait", "woken", "proc", "exit"}]
    /\ held \in [Worker -> Req \cup {NoReq}]
    /\ \A w \in Worker : (pc[w] = "proc") = (held[w] /= NoReq)
    /\ closing \in BOOLEAN /\ epfdOpen \in BOOLEAN
    /\ mainPc \in {"run", "close_epfd", "join_core", "signal_rx", "join_rx",
                   "signal_tx", "join_tx", "done"}
    /\ nRead \in [NativeCh -> 0..MaxIngress]
    /\ uartRead \in 0..(MaxIngress * FrameBytes)

\* Occurrences of request r on the queues and in the workers' hands.
Count(s, r) == Cardinality({i \in DOMAIN s : s[i] = r})
Occurrences(r) == Count(q.free, r) + Count(q.rx, r) + Count(q.tx, r)
                  + Cardinality({w \in Worker : held[w] = r})

\* Pool conservation and no double free: every request of ioc->pool is,
\* at every instant, on exactly one of the free, rx and tx queues or held
\* by exactly one worker, across the core's error paths, the workers'
\* routing to the head or tail of the other queues and shutdown.
RequestOwnership == \A r \in Req : Occurrences(r) = 1

\* Order within a channel: the requests a channel produced (service frames
\* read by ioc_process_tx, link frames built by ioc_build_request) are
\* handled by their worker in the order they were read, whatever requests
\* the other worker inserts at the head of the queue meanwhile.
DirectFifo == [][\A c \in Chan : lastDirect'[c] >= lastDirect[c]]_vars

\* The same order at every worker, forwarded requests included: what the
\* spec promises end-to-end for one channel.
ChannelFifo ==
    [][\A w \in Worker, c \in Chan : lastSeen'[w][c] >= lastSeen[w][c]]_vars

\* Every request taken off the free queue returns to it unless the
\* mediator shuts down: no wake-up of a worker is lost while a request
\* waits on its queue.
RequestsReturn ==
    \A r \in Req : ~(r \in ToSet(q.free)) ~> (r \in ToSet(q.free) \/ closing)

\* Responsiveness after pool exhaustion: every service frame a native
\* device makes readable is eventually read by the core thread, unless the
\* mediator shuts down.
NativeDataRead ==
    \A c \in NativeCh, k \in 1..MaxIngress :
        devSent[c] >= k ~> (nRead[c] >= k \/ closing)

\* Refinement mapping: where the pool specification sees each request.
PoolLoc == [r \in Req |->
              CASE held.rx = r -> "rxw"
                [] held.tx = r -> "txw"
                [] r \in ToSet(q.rx) -> "rx"
                [] r \in ToSet(q.tx) -> "tx"
                [] OTHER -> "free"]

Pool == INSTANCE IocPool WITH loc <- PoolLoc

\* The queues and threads implement the pool's life cycle: the core thread
\* fills only free requests and puts them on the rx or tx queue, a worker
\* dequeues only from its own queue and holds one request at a time, and
\* routes it only back to the free queue or on to the other worker.
PoolRefinement == Pool!Spec

\* Shutdown: after close(ioc->epfd), pthread_join of the core thread
\* returns.
CoreExitOnClose == (mainPc = "join_core") ~> (corePc = "exit")

\* Shutdown: after ioc_kill_workers signals a worker's condition variable,
\* pthread_join of that worker returns.
WorkerExitOnSignal == \A w \in Worker : (mainPc = JoinPc(w)) ~> (pc[w] = "exit")

\* Shutdown: every pthread_join of ioc_kill_workers returns, the core
\* thread's after close(ioc->epfd) and each worker's after its signal.
JoinsReturn == CoreExitOnClose /\ WorkerExitOnSignal

=============================================================================
