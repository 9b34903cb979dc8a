---------------------------- MODULE IocLifecycle ----------------------------
(***************************************************************************)
(* Start-up and teardown of the IOC mediator (src/hw/platform/ioc.c):      *)
(* ioc_init with its goto unwinding (work_err, chl_err, alloc_err,         *)
(* ioc_err), ioc_ch_init over the channel table, ioc_open_native_ch,       *)
(* ioc_open_virtual_uart with its own unwinding, ioc_create_thread,        *)
(* ioc_kill_workers, ioc_ch_deinit and ioc_deinit.  Every system call that *)
(* can fail is a nondeterministic choice of success or failure.            *)
(*                                                                         *)
(* What the threads do once created is IocMediator; here a created thread  *)
(* is "running" and uses the queue mutexes and condition variables until   *)
(* it is joined.  Joining a running thread returns (IocMediator shows the  *)
(* cases where it does not).  A pthread call on a mutex or condition       *)
(* variable that is not initialised, or destroying one a live thread uses, *)
(* or joining a thread never created, is undefined behaviour: it is        *)
(* recorded in `misuse` and the program carries on, one of the outcomes    *)
(* the build can produce.                                                  *)
(***************************************************************************)
EXTENDS Naturals, Sequences, FiniteSets

CONSTANTS
    Table,          \* ioc_ch_tbl: the channel ids in table order
    On,             \* channels whose stat is IOC_CH_ON
    Critical,       \* IOC_NATIVE_LFCC and IOC_VIRTUAL_UART
    Uart,           \* IOC_VIRTUAL_UART, opened by ioc_open_virtual_uart
    CreateMayFail   \* whether pthread_create may fail

Ch == {Table[i] : i \in 1..Len(Table)}
Thr == {"rx", "tx", "core"}
CreateOrder == <<"rx", "tx", "core">>      \* ioc_init creates rx, tx, core
JoinOrder == <<"core", "rx", "tx">>        \* ioc_kill_workers joins core, rx, tx
Sync == {"free_mtx", "rx_mtx", "rx_cond", "tx_mtx", "tx_cond"}
WorkerSync == {"rx_mtx", "rx_cond", "tx_mtx", "tx_cond"}
\* The steps of ioc_open_virtual_uart, each of which may fail.
UartSteps == <<"open", "grantpt", "unlockpt", "ptsname", "unlink",
               "symlink", "chmod", "tcgetattr", "tcsetattr">>

VARIABLES
    pc,          \* where ioc_init / ioc_deinit is
    bootReason,  \* ioc_boot_reason, set by ioc_parse
    chIdx,       \* i of the ioc_ch_init loop
    uartStep,    \* the step of ioc_open_virtual_uart
    fdOpen,      \* channels whose ioc_ch_tbl[i].fd is an open fd
    ptyOpen,     \* the ptmx fd held by ioc_open_virtual_uart
    link,        \* the virtual UART path: "none", "stale" or "ours"
    mem,         \* allocated: "ioc", "pool", "evts"
    epfd,        \* the epoll instance: "none", "open", "closed"
    sync,        \* state of each mutex and condition variable
    thread,      \* state of each thread
    kwRet,       \* where ioc_kill_workers returns to
    result,      \* what ioc_init returned: "none", "ioc", "null"
    misuse       \* undefined-behaviour calls made so far

vars == <<pc, bootReason, chIdx, uartStep, fdOpen, ptyOpen, link, mem, epfd,
          sync, thread, kwRet, result, misuse>>

Init ==
    /\ pc = "platform" /\ bootReason \in {0, 1}
    /\ chIdx = 1 /\ uartStep = 1
    /\ fdOpen = {} /\ ptyOpen = FALSE /\ link \in {"none", "stale"}
    /\ mem = {} /\ epfd = "none"
    /\ sync = [o \in Sync |-> "uninit"]
    /\ thread = [t \in Thr |-> "none"]
    /\ kwRet = "none" /\ result = "none" /\ misuse = {}

Running == {t \in Thr : thread[t] = "running"}

\* A pthread_mutex/cond call on `o`; the misuse it makes, if any.
UseOf(o) == IF sync[o] = "init" THEN {} ELSE {<<"use", o>>}
\* pthread_*_destroy of each object of `os`.
DestroyAll(os) ==
    /\ sync' = [o \in Sync |-> IF o \in os THEN "destroyed" ELSE sync[o]]
    /\ misuse' = misuse \cup
         {<<"destroy", o>> : o \in {x \in os : sync[x] /= "init" \/ Running /= {}}}

Goto(l) == pc' = l

\* ioc_ch_deinit: every channel with fd >= 0 is closed, its fd reset.
ChDeinit == fdOpen' = {}

-----------------------------------------------------------------------------
(* ioc_init *)

IocIsPlatformSupported ==
    /\ pc = "platform"
    /\ \/ Goto("boot")
       \/ Goto("ioc_err")                   \* stat(IOC_NP_ESIG) fails
    /\ UNCHANGED <<bootReason, chIdx, uartStep, fdOpen, ptyOpen, link, mem,
                   epfd, sync, thread, kwRet, result, misuse>>

CheckBootReason ==
    /\ pc = "boot"
    /\ Goto(IF bootReason = 0 THEN "ioc_err" ELSE "calloc")
    /\ UNCHANGED <<bootReason, chIdx, uartStep, fdOpen, ptyOpen, link, mem,
                   epfd, sync, thread, kwRet, result, misuse>>

\* calloc of the ioc_dev, then of the pool and the event list.
CallocIoc ==
    /\ pc = "calloc"
    /\ \/ mem' = {"ioc"} /\ Goto("calloc_bufs")
       \/ UNCHANGED mem /\ Goto("ioc_err")
    /\ UNCHANGED <<bootReason, chIdx, uartStep, fdOpen, ptyOpen, link, epfd,
                   sync, thread, kwRet, result, misuse>>

CallocBufs ==
    /\ pc = "calloc_bufs"
    /\ \E got \in SUBSET {"pool", "evts"} :
          /\ mem' = mem \cup got
          /\ Goto(IF got = {"pool", "evts"} THEN "epoll" ELSE "alloc_err")
    /\ UNCHANGED <<bootReason, chIdx, uartStep, fdOpen, ptyOpen, link, epfd,
                   sync, thread, kwRet, result, misuse>>

\* epoll_create1; on success the free queue and free_mtx are set up.
EpollCreate ==
    /\ pc = "epoll"
    /\ \/ /\ epfd' = "open" /\ Goto("ch_init")
          /\ sync' = [sync EXCEPT !["free_mtx"] = "init"]
       \/ UNCHANGED <<epfd, sync>> /\ Goto("alloc_err")
    /\ UNCHANGED <<bootReason, chIdx, uartStep, fdOpen, ptyOpen, link, mem,
                   thread, kwRet, result, misuse>>

(* ioc_ch_init: one iteration per table entry *)

\* Mutant: the critical-channel test dropped.
ChStoreNoCriticalCheck(ch, ok) ==
    /\ fdOpen' = IF ok THEN fdOpen \cup {ch} ELSE fdOpen
    /\ chIdx' = chIdx + 1 /\ Goto("ch_init")

\* The end of an iteration with the opened fd (ok) or -1: a critical
\* channel that failed returns -1 from ioc_ch_init, else chl->fd = fd.
ChStore(ch, ok) ==
    IF ~ok /\ ch \in Critical
    THEN Goto("chl_err") /\ UNCHANGED <<fdOpen, chIdx>>
    ELSE /\ fdOpen' = IF ok THEN fdOpen \cup {ch} ELSE fdOpen
         /\ chIdx' = chIdx + 1 /\ Goto("ch_init")

ChInitOff ==
    /\ pc = "ch_init" /\ chIdx <= Len(Table) /\ Table[chIdx] \notin On
    /\ chIdx' = chIdx + 1
    /\ UNCHANGED <<pc, bootReason, uartStep, fdOpen, ptyOpen, link, mem, epfd,
                   sync, thread, kwRet, result, misuse>>

\* ioc_open_native_ch: open() succeeds or fails.
ChInitNative ==
    /\ pc = "ch_init" /\ chIdx <= Len(Table)
    /\ Table[chIdx] \in On \ {Uart}
    /\ \E ok \in BOOLEAN : ChStore(Table[chIdx], ok)
    /\ UNCHANGED <<bootReason, uartStep, ptyOpen, link, mem, epfd, sync, thread,
                   kwRet, result, misuse>>

ChInitUart ==
    /\ pc = "ch_init" /\ chIdx <= Len(Table) /\ Table[chIdx] = Uart
    /\ Table[chIdx] \in On
    /\ Goto("uart") /\ uartStep' = 1
    /\ UNCHANGED <<bootReason, chIdx, fdOpen, ptyOpen, link, mem, epfd, sync,
                   thread, kwRet, result, misuse>>

\* A step of ioc_open_virtual_uart that succeeds: open gives the ptmx fd,
\* unlink removes a stale path (ENOENT counts as success), symlink makes
\* the path ours; the last step returns the fd, which becomes the
\* channel's fd.
UartStep ==
    /\ pc = "uart"
    /\ ptyOpen' = (uartStep < Len(UartSteps)
                   /\ (UartSteps[uartStep] = "open" \/ ptyOpen))
    /\ link' = CASE UartSteps[uartStep] = "unlink"  -> "none"
               []   UartSteps[uartStep] = "symlink" -> "ours"
               []   OTHER                           -> link
    /\ IF uartStep < Len(UartSteps)
       THEN uartStep' = uartStep + 1 /\ UNCHANGED <<chIdx, fdOpen, pc>>
       ELSE ChStore(Uart, TRUE) /\ UNCHANGED uartStep
    /\ UNCHANGED <<bootReason, mem, epfd, sync, thread, kwRet, result, misuse>>

\* A step fails: open_err returns; pty_err (grantpt .. symlink) closes the
\* ptmx fd; attr_err (chmod .. tcsetattr) also unlinks the path.  unlink
\* fails only when the path exists.
UartFails ==
    /\ pc = "uart"
    /\ UartSteps[uartStep] = "unlink" => link /= "none"
    /\ ptyOpen' = FALSE
    /\ link' = IF uartStep >= 7 THEN "none" ELSE link
    /\ ChStore(Uart, FALSE)
    /\ UNCHANGED <<bootReason, uartStep, mem, epfd, sync, thread, kwRet, result,
                   misuse>>

ChInitDone ==
    /\ pc = "ch_init" /\ chIdx > Len(Table)
    /\ Goto("setup")
    /\ UNCHANGED <<bootReason, chIdx, uartStep, fdOpen, ptyOpen, link, mem,
                   epfd, sync, thread, kwRet, result, misuse>>

\* Whitelists and rx/tx members: the rx and tx mutexes and condition
\* variables are initialised.
SetupWorkers ==
    /\ pc = "setup"
    /\ sync' = [o \in Sync |-> IF o \in WorkerSync THEN "init" ELSE sync[o]]
    /\ Goto("create")
    /\ UNCHANGED <<bootReason, chIdx, uartStep, fdOpen, ptyOpen, link, mem,
                   epfd, thread, kwRet, result, misuse>>

\* ioc_create_thread: what pthread_create leaves the thread as; a failure
\* makes ioc_create_thread return -1.
CreateOutcomes == {"running"} \cup (IF CreateMayFail THEN {"failed"} ELSE {})

\* ioc_create_thread for the next of rx, tx, core; after the last,
\* ioc_init returns the ioc.
IocCreateThread ==
    /\ pc = "create"
    /\ LET n == Cardinality({t \in Thr : thread[t] /= "none"}) + 1
           t == CreateOrder[n]
       IN \E o \in CreateOutcomes :
             /\ thread' = [thread EXCEPT ![t] = o]
             /\ IF o = "failed" THEN Goto("work_err") /\ UNCHANGED result
                ELSE IF n = 3 THEN Goto("returned") /\ result' = "ioc"
                ELSE UNCHANGED <<pc, result>>
    /\ UNCHANGED <<bootReason, chIdx, uartStep, fdOpen, ptyOpen, link, mem,
                   epfd, sync, kwRet, misuse>>

(* the unwinding of ioc_init *)

\* work_err: the rx/tx mutexes and condition variables are destroyed, then
\* ioc_kill_workers runs and returns to chl_err.
WorkErr ==
    /\ pc = "work_err"
    /\ DestroyAll(WorkerSync)
    /\ Goto("kw_close") /\ kwRet' = "chl_err"
    /\ UNCHANGED <<bootReason, chIdx, uartStep, fdOpen, ptyOpen, link, mem,
                   epfd, thread, result>>

\* chl_err: ioc_ch_deinit, free_mtx destroyed, epfd closed.
ChlErr ==
    /\ pc = "chl_err"
    /\ ChDeinit
    /\ DestroyAll({"free_mtx"})
    /\ epfd' = "closed"
    /\ Goto("alloc_err")
    /\ UNCHANGED <<bootReason, chIdx, uartStep, ptyOpen, link, mem, thread,
                   kwRet, result>>

\* alloc_err: the event list, the pool and the ioc are freed (free(NULL)
\* for the ones whose calloc failed).
AllocErr ==
    /\ pc = "alloc_err"
    /\ mem' = {} /\ Goto("ioc_err")
    /\ UNCHANGED <<bootReason, chIdx, uartStep, fdOpen, ptyOpen, link, epfd,
                   sync, thread, kwRet, result, misuse>>

IocErr ==
    /\ pc = "ioc_err"
    /\ result' = "null" /\ Goto("returned")
    /\ UNCHANGED <<bootReason, chIdx, uartStep, fdOpen, ptyOpen, link, mem,
                   epfd, sync, thread, kwRet, misuse>>

(* ioc_kill_workers *)

\* closing = 1; close(ioc->epfd); ioc->epfd = IOC_INIT_FD.
KwCloseEpfd ==
    /\ pc = "kw_close"
    /\ epfd' = "closed" /\ Goto("kw_join")
    /\ UNCHANGED <<bootReason, chIdx, uartStep, fdOpen, ptyOpen, link, mem,
                   sync, thread, kwRet, result, misuse>>

\* pthread_join of core, then lock, signal, unlock and join of rx, then of
\* tx; chIdx-like progress is the number of threads already joined.
KwJoin ==
    /\ pc = "kw_join"
    /\ \E k \in 1..3 :
          /\ k = Cardinality({t \in Thr : thread[t] \in {"joined", "gone"}}) + 1
          /\ LET t == JoinOrder[k]
                 sig == IF t = "core" THEN {}
                        ELSE UseOf(t \o "_mtx") \cup UseOf(t \o "_cond")
                 bad == IF thread[t] = "running" THEN {} ELSE {<<"join", t>>}
             IN /\ thread' = [thread EXCEPT ![t] =
                                 IF @ = "running" THEN "joined" ELSE "gone"]
                /\ misuse' = misuse \cup sig \cup bad
    /\ UNCHANGED <<pc, bootReason, chIdx, uartStep, fdOpen, ptyOpen, link, mem,
                   epfd, sync, kwRet, result>>

\* The five mutexes and condition variables are destroyed.
KwDestroy ==
    /\ pc = "kw_join"
    /\ \A t \in Thr : thread[t] \in {"joined", "gone"}
    /\ DestroyAll(Sync)
    /\ Goto(kwRet)
    /\ UNCHANGED <<bootReason, chIdx, uartStep, fdOpen, ptyOpen, link, mem,
                   epfd, thread, kwRet, result>>

(* ioc_deinit, called by the DM with what ioc_init returned *)

IocDeinit ==
    /\ pc = "returned"
    /\ IF result = "null"
       THEN Goto("done") /\ UNCHANGED kwRet
       ELSE Goto("kw_close") /\ kwRet' = "deinit_ch"
    /\ UNCHANGED <<bootReason, chIdx, uartStep, fdOpen, ptyOpen, link, mem,
                   epfd, sync, thread, result, misuse>>

\* Mutant: ioc_deinit without ioc_ch_deinit.
DeinitReleaseNoChDeinit ==
    /\ pc = "deinit_ch"
    /\ mem' = {}
    /\ Goto("done")
    /\ UNCHANGED <<bootReason, chIdx, uartStep, fdOpen, ptyOpen, link, epfd,
                   sync, thread, kwRet, result, misuse>>

\* After ioc_kill_workers: ioc_ch_deinit, close(ioc->epfd) (now -1), and
\* the frees.
DeinitRelease ==
    /\ pc = "deinit_ch"
    /\ ChDeinit /\ mem' = {}
    /\ Goto("done")
    /\ UNCHANGED <<bootReason, chIdx, uartStep, ptyOpen, link, epfd, sync,
                   thread, kwRet, result, misuse>>

Next ==
    \/ IocIsPlatformSupported \/ CheckBootReason \/ CallocIoc \/ CallocBufs
    \/ EpollCreate \/ ChInitOff \/ ChInitNative \/ ChInitUart \/ UartStep
    \/ UartFails \/ ChInitDone \/ SetupWorkers \/ IocCreateThread
    \/ WorkErr \/ ChlErr \/ AllocErr \/ IocErr
    \/ KwCloseEpfd \/ KwJoin \/ KwDestroy \/ IocDeinit \/ DeinitRelease

\* One thread runs ioc_init and then ioc_deinit.  Only invariants are
\* checked, so no fairness is assumed.
Spec == Init /\ [][Next]_vars

-----------------------------------------------------------------------------
\* Nothing the mediator acquired is still held: no channel fd, no ptmx fd,
\* no epoll fd, no memory, no live thread.
Released ==
    /\ fdOpen = {} /\ ~ptyOpen /\ epfd /= "open" /\ mem = {}
    /\ Running = {}

\* What ioc_init returns is right: an ioc has both critical channels open,
\* the epoll instance and all three threads; NULL (whichever step failed,
\* through whichever goto label) leaves nothing acquired behind.
InitOutcome ==
    pc = "returned" =>
        /\ result = "ioc" => /\ Critical \cap On \subseteq fdOpen
                             /\ epfd = "open" /\ Running = Thr
        /\ result = "null" => Released

\* After ioc_deinit of what ioc_init returned, everything is released.
TeardownReleasesAll == pc = "done" => Released

\* No pthread call is made on a mutex or condition variable that is not
\* initialised or that a live thread may use, and no thread that was not
\* created is joined (spec section 7: reverse-order teardown).
NoMisuse == misuse = {}

\* A NULL return from ioc_init leaves no virtual UART path of its own
\* behind: the symlink ioc_open_virtual_uart made is undone with the rest
\* (spec section 7: any failure during init tears down in reverse).
NullLeavesNoLink == (pc = "returned" /\ result = "null") => link /= "ours"

\* The unwinding after a failed pthread_create undoes what ioc_init did, in
\* reverse: no pthread misuse, and no symlink left behind.
InitUnwinds == NoMisuse /\ NullLeavesNoLink
=============================================================================
