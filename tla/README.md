# TLA+ models of the IOC mediator

This directory holds TLA+ specifications of the automotive IOC mediator in
`src/hw/platform/ioc.c`, the TLC configurations that check them, and
`PROJECT.json`, which maps each definition to the lines of C it models.
The mediator relays CBC traffic between the guest's virtual UART and the
host's native CBC character devices.

## 1. Inventory of the system

`ioc.c` is one file of about 1200 lines. Roughly 300 of them are static
tables. The rest is the following components.

| Component | Code | State it keeps | Operations |
|---|---|---|---|
| Channel table and I/O | `ioc_ch_tbl`, `ioc_ch_recv`, `ioc_ch_xmit`, `ioc_open_native_ch`, `ioc_open_virtual_uart`, `ioc_ch_init`, `ioc_ch_deinit` | per channel: fd, on/off | open (native; pty + symlink for the UART), read, write loop, close |
| Request pool and queues | `cbc_request_enqueue`, `cbc_request_dequeue`, `ioc_build_request` | `ioc->pool`, the free/rx/tx `SIMPLEQ`s, `free_mtx`, `rx_mtx`/`rx_cond`, `tx_mtx`/`tx_cond` | enqueue at head or tail (and signal), dequeue from free, build a request from the ring |
| Core thread | `ioc_core_thread`, `ioc_dispatch`, `ioc_process_tx`, `ioc_process_rx` | `ioc->epfd`, the epoll set, the ring (through the codec) | register the channels, `epoll_wait`, read a native frame into a request for tx, read one UART byte into the ring |
| Rx and tx workers | `ioc_rx_thread`, `ioc_tx_thread` | the request in hand, the packet context | wait for a request, run `cbc_rx_handler`/`cbc_tx_handler`, route to free or to the other queue |
| Shutdown | `ioc_kill_workers`, `ioc_deinit` | `ioc->closing` | set closing, close epfd, join core, signal and join rx, then tx; close channels, free |
| Initialisation | `ioc_init`, `ioc_parse`, `ioc_is_platform_supported`, `ioc_create_thread` | `virtual_uart_path`, `ioc_boot_reason` | parse options, check platform and boot reason, allocate, open channels, set up whitelists, start threads, unwind on error |
| CBC codec and whitelist | `cbc_copy_to_ring`, `cbc_unpack_link`, `cbc_rx_handler`, `cbc_tx_handler`, `wlist_init_*` (outside `src/`) | ring buffer, whitelist tables | frame bytes, decode, filter, encode |

How the components interact:
- The core thread is the only reader of devices and of the UART.
- It hands data to the workers through the rx and tx queues. Each queue is
  guarded by its own mutex, and the worker is woken by a condition variable.
- A worker runs its handler outside the mutex. The handler sets
  `packet.qtype`. The worker then either appends the request to the free
  queue or inserts it at the head of the other worker's queue and signals
  that worker.
- Requests are never allocated after init. When the free queue is empty:
  - `ioc_build_request` drops a UART frame;
  - `ioc_process_tx` returns without reading, so the level-triggered
    event fires again.
- Shutdown runs on the DM thread. Coordination is only the `closing` flag,
  the close of `epfd`, and one condition signal per worker.

What makes the code hard to test:
- three threads sharing three queues;
- wake-ups that can be lost;
- a flag written without a lock;
- head insertion racing tail insertion;
- a pool that runs empty;
- read errors and EINTR;
- a shutdown sequence whose termination depends on what each thread is
  doing when it starts;
- error unwinding in `ioc_init`.

The `hazards` list in `PROJECT.json` names each hazard at its line.

What makes each component correct:
- **Pool and queues:** every request is in exactly one place (no loss, no
  double free), and it moves only along its life cycle.
- **Workers and core:** each channel's requests are handled in read order.
  No wake-up is lost, so every request returns to the pool, and readable
  data is eventually read even after the pool ran empty.
- **Shutdown:** every join returns.
- **Channels and init:**
  - critical channels failing aborts init;
  - init unwinds exactly what it set up;
  - `xmit` writes everything or reports a hard error.

## 2. Modules

### IocMediator (core; modelled)

IocMediator models the three threads, the queues and the shutdown sequence.
It starts in the state `ioc_init` returns: every channel open, all requests
on the free queue, threads at the top of their loops.

| Variable | Code |
|---|---|
| `q.free`, `q.rx`, `q.tx` | `free_qhead`, `rx_qhead`, `tx_qhead` (sequences of requests) |
| `meta[r]` | `req->id`, plus an ingress sequence number and a forward count (model data) |
| `registered` | channels added to the epoll set by `ioc_core_thread`: `CoreRegister` is its loop (lines 841-850), which skips a channel on fd 0 (`FdZeroFree`) and one whose `epoll_ctl` fails (`CtlMayFail`, only logged) |
| `corePc`, `events` | where the core thread is; the `eventlist` returned by `epoll_wait` |
| `pc[w]`, `held[w]` | where worker `w` is; the request it has dequeued |
| `closing`, `epfdOpen`, `mainPc` | `ioc->closing`, `ioc->epfd`, the step of `ioc_kill_workers` |
| `devSent`, `nRead`, `uartSent`, `uartRead` | data made readable by devices and the guest, and what the core has read |
| `lastSeen`, `lastDirect` | history variables for the ordering properties |

One action per step of the code:
- **Core thread:** `CoreLoop` (top of the loop; EBADF on a closed epfd
  ends the thread), `CoreEpollWait`, `CoreEintr`, `CoreDispatchDone`,
  `IocProcessTx` and `IocProcessTxRecvError` (`ioc_process_tx`), and
  `IocProcessRx` (`ioc_process_rx`, including `ioc_build_request`) and
  `IocProcessRxRecvError` (`ioc_ch_recv` of the UART failing: nothing is
  read and the byte stays readable).
- **Each worker:** `WorkerLock` (lock, empty test, wait or closing test and
  dequeue), `WorkerWake` (after `pthread_cond_wait`), `WorkerSpuriousWake`,
  `WorkerRecycle` (handler keeps `CBC_QUEUE_T_FREE`) and `WorkerForward`
  (handler picks the other queue).
- **DM thread:** `IocDeinit`, `KillCloseEpfd`, `KillJoinCore`,
  `KillSignal(w)` and `KillJoin(w)`.
- **Environment:** `DeviceWrite` and `GuestWrite`.

Mutex sections are atomic steps, because no thread blocks inside one except
in `pthread_cond_wait`, which is split into wait and wake.

`pthread_cond_signal` is `Signalled`: it wakes the worker only if the
worker is waiting, and is lost otherwise. `CbcRequestEnqueue` is
`cbc_request_enqueue` (insert at the head or the tail of a queue) and
`CbcRequestDequeueFree` is `cbc_request_dequeue` of the free queue; every
action that moves a request between queues goes through them, as the code
does.

`ioc->closing` is written without a lock. `ClosingSeen` lets a worker read
the old value until the DM thread has passed through that worker's mutex.
This is the data race resolved as a nondeterministic choice.

The CBC handlers and the codec are not in `src/`, so they are modelled by
their contract:
- A handler either recycles the request or forwards it.
- Forwarding is bounded by `MaxForward` per request.
- A link frame is `FrameBytes` bytes long.

### IocPool (abstract specification; modelled)

IocPool is the life cycle of one request: free, on to the rx or tx queue,
taken by that worker, then back to free or on to the other worker's queue.
A worker holds one request at a time. IocMediator refines it:
- `PoolLoc` maps queues and hands to places;
- `PoolRefinement == Pool!Spec` is checked as a PROPERTY.

### IocXmit (channel write loop; modelled)

IocXmit is `ioc_ch_xmit`, the loop that every handler that sends to a
channel goes through.
- State: the fd check (`fdValid`), the buffer, `count`, the bytes the fd
  has received (`out`), the errno of a failed write, where the call is,
  and the return value.
- Actions:
  - `XmitStart`: the argument check, which returns -1;
  - `XmitWrite`: a write of any 1..size-count bytes from `buf + count`;
  - `XmitWriteFails`: a write failing with EAGAIN or a hard error, which
    breaks the loop;
  - `XmitReturn`: the loop ends with `count == size`.
- The buffer's bytes are 1..size, so `out` shows exactly which bytes were
  written and in what order.

### IocLifecycle (start-up and teardown; modelled)

IocLifecycle is `ioc_init` and `ioc_deinit` as the DM runs them, with
every call that can fail as a choice of success or failure.

| Variable | Code |
|---|---|
| `pc`, `kwRet` | the step of `ioc_init`/`ioc_deinit`; where `ioc_kill_workers` returns to (work_err or `ioc_deinit`) |
| `bootReason` | `ioc_boot_reason` as `ioc_parse` left it (0 or not) |
| `chIdx`, `uartStep` | `i` of the `ioc_ch_init` loop; the step of `ioc_open_virtual_uart` |
| `fdOpen`, `ptyOpen`, `link` | channels with `ioc_ch_tbl[i].fd >= 0`; the ptmx fd while it is local; the virtual UART path |
| `mem`, `epfd` | the `calloc`s; the epoll instance |
| `sync`, `thread` | each mutex and condition variable (uninit, init, destroyed); each thread (none, failed, running, joined) |
| `result`, `misuse` | what `ioc_init` returned; the undefined-behaviour pthread calls made so far |

Actions, in the code's order:
- **`ioc_init`:** `IocIsPlatformSupported`, `CheckBootReason`,
  `CallocIoc`, `CallocBufs`, `EpollCreate` (with the free queue and
  `free_mtx`), `SetupWorkers`, `IocCreateThread` (with `CreateOutcomes`,
  what `ioc_create_thread`'s `pthread_create` can leave).
- **`ioc_ch_init`:** `ChInitOff`, `ChInitNative`, `ChInitUart`,
  `ChInitDone`, with `ChStore` as the critical-channel test and
  `chl->fd = fd`.
- **`ioc_open_virtual_uart`:** `UartStep` for each of its nine calls, and
  `UartFails` with the cleanup of its goto label.
- **Unwinding:** `WorkErr`, `ChlErr`, `AllocErr`, `IocErr`.
- **`ioc_kill_workers`:** `KwCloseEpfd`, `KwJoin` (core, then rx and tx
  each after its lock and signal), `KwDestroy`.
- **`ioc_deinit`:** `IocDeinit`, `DeinitRelease`.

What a thread does once created is IocMediator's business. Here a created
thread is running and uses the queue mutexes and condition variables
until it is joined. A join of a running thread returns; the shutdown run
of IocMediator shows when it does not.

A pthread call on an object that is not initialised, or destroying one a
live thread uses, or joining a thread that was never created, is
undefined behaviour. It is recorded in `misuse`, and the model carries on
as the program does when the call happens to return.

### IocParse (option parsing; modelled)

IocParse is `ioc_parse` over every option string of up to `MaxLen`
characters drawn from `p` (a path character), `,`, `0` and `1`. The
32-byte `virtual_uart_path` is the constant `PathSize`: `CopyPath` keeps
at most `PathSize - 1` characters, as `snprintf` does.
- glibc's `strtok` is the operator `StrtokFrom`: skip delimiters, return
  NULL at the end of the string, or write a NUL at the token's delimiter
  and save the position after it.
- `CStr` reads a C string up to its NUL.
- `StrtoulValue` is `strtoul` with base 0: a leading `0` selects octal.
- The actions are `StrtokPath`, `CopyPath` (`snprintf` of `param`),
  `StrtokReason`, then `Strtoul` (or `StrtoulNull` when the token is
  NULL), and `Free`.

### IocStartup (composition of IocParse and IocLifecycle; modelled)

The device model calls `ioc_parse` on the `-i` option and later
`ioc_init`, which reads the `ioc_boot_reason` that `ioc_parse` wrote.
IocStartup composes the two modules the way the code connects them:
- `P == INSTANCE IocParse WITH pc <- ppc` and `L == INSTANCE IocLifecycle`
  share the variable `bootReason`, and nothing else;
- `ioc_init` runs only after `ioc_parse` has returned; a SIGSEGV in
  `ioc_parse` (`StrtoulNull`) ends the device model there;
- the properties are those of the two modules, now checked for the boot
  reason each option string really gives (0, 1, 8, 9, 10, 11, ...).

### MCIocMediator, MCIocLifecycle and MCIocStartup

MCIocMediator is the model-checking module of IocMediator:
- requests and channels are model values;
- pools have one, two or three requests;
- it defines the symmetry set for the requests.

MCIocLifecycle gives IocLifecycle a channel table with the first entries
of `ioc_ch_tbl` and the virtual UART last: PMT (off), LFCC, SIGNAL, RAW0.
The other RAW channels behave like RAW0. MCIocStartup gives IocStartup
the same table.

### Further work

- **Larger instances** of the safety run, such as two native channels,
  if a faster machine or symmetry over channels allows.
- **The link-frame codec** (`cbc_unpack_link`, outside `src/`), if its
  source becomes part of the tree: a module of the framer's search for a
  frame and its recovery from a malformed one, with the link lengths it
  hands `ioc_build_request`.

## 3. Runs

The IocMediator runs use `MCIocMediator`. Its pass runs set `CHECK_DEADLOCK FALSE` because
the mediator really stops: once `ioc_deinit` has joined every thread, no
thread is left. Before that, `IocDeinit` is always enabled, so no other
state can be a deadlock. The other modules model one call that returns;
they set `CHECK_DEADLOCK FALSE` for the state after the return.

| Run | Config | Expect | Properties | What it shows |
|---|---|---|---|---|
| safety | `IocMediator_safety.cfg` | pass | `TypeOK`, `RequestOwnership`, `DirectFifo`, `PoolRefinement` | No request is lost or in two places. Each channel's requests are handled in read order, through pool exhaustion, read errors, forwarding and shutdown. Requests move only along the abstract life cycle. |
| progress | `IocMediator_live.cfg` | pass | `RequestsReturn`, `NativeDataRead` | No lost wake-up in steady state. Native data is read after the pool ran empty. |
| shutdown | `IocMediator_shutdown.cfg` | violation | `JoinsReturn` | Shutdown can hang joining the core thread or a worker. |
| fd_zero | `IocMediator_fd0.cfg` | violation | `NativeDataRead` | A channel on fd 0 is never read. |
| channel_fifo | `IocMediator_channel_fifo.cfg` | violation | `ChannelFifo` | Forwarded requests of one channel are handled in reverse. |
| xmit | `IocXmit.cfg` | pass | `XmitWritesPrefix`, `XmitTerminates` | Whatever the short writes and failures, the fd gets a prefix of the buffer, in order and once; the return value is its length; the call returns. |
| xmit_complete | `IocXmit_complete.cfg` | violation | `XmitComplete` | EAGAIN is not retried: the call returns a short count. |
| startup | `IocStartup.cfg` (`MCIocStartup`) | pass | `ParsesWellFormed`, `InitOutcome`, `TeardownReleasesAll` | `ioc_parse` then `ioc_init` and `ioc_deinit`, for every option string of up to 6 characters, with the path buffer scaled to 4 bytes. Every well-formed option whose path fits the buffer gives the whole path before the comma and the boot reason after it, octal or decimal. Whatever step of `ioc_init` fails, NULL leaves no fd, memory, epoll instance or thread behind. A returned ioc has its critical channels, epoll and three threads. `ioc_deinit` then releases everything. |
| lifecycle_work_err | `IocLifecycle_work_err.cfg` | violation | `InitUnwinds` | After a failed `pthread_create`, work_err destroys objects a live worker uses and joins a thread never created, and the NULL return leaves the virtual UART symlink behind. |
| epoll_ctl_fail | `IocMediator_ctl_fail.cfg` | violation | `NativeDataRead` | A channel whose `epoll_ctl` failed is never read, though `ioc_init` returned success. |
| parse_null | `IocParse_null.cfg` | violation | `StrtoulNeverNull` | An option with no boot reason makes `ioc_parse` call `strtoul(NULL)`. |

`JoinsReturn` is the conjunction of `CoreExitOnClose` and
`WorkerExitOnSignal`. TLC reports the core-thread hang first. Checking
`WorkerExitOnSignal` alone, with the same configuration, gives the worker
hang. `InitUnwinds` is the conjunction of `NoMisuse` and
`NullLeavesNoLink`; TLC reports the pthread misuse first, and
`NullLeavesNoLink` alone, with the same configuration, is violated too.

Each property of a pass run has a mutant in `PROJECT.json` that TLC
refutes:
- `if` instead of `while` around `pthread_cond_wait`, so a spurious
  wake-up with an empty queue goes on to process a NULL request, breaks
  `TypeOK`;
- the read-error path not returning the request breaks `RequestOwnership`;
- the core appending at the tx head breaks `DirectFifo`;
- a worker forwarding to its own queue breaks `PoolRefinement`;
- forwarding without `pthread_cond_signal` breaks `RequestsReturn`;
- `epoll_wait` errors ending the thread without the EINTR test breaks
  `NativeDataRead`;
- a write from `buf` instead of `buf + count` breaks `XmitWritesPrefix`;
- a loop that runs while `count <= size` breaks `XmitTerminates`;
- `ioc_ch_init` without the critical-channel test breaks `InitOutcome`;
- `ioc_deinit` without `ioc_ch_deinit` breaks `TeardownReleasesAll`;
- a `strtok` that does not end the token with a NUL breaks
  `ParsesWellFormed`;
- a `snprintf` that keeps one character less than `sizeof - 1` cuts a
  path that fits and breaks `ParsesWellFormed`.

### Bounds

| Run | Requests | Native channels | Frames per source | Frame length | Forwards per request |
|---|---|---|---|---|---|
| safety | 3 | 1 | 2 | 2 bytes | 1 |
| progress and the violation runs | 1 | 1 | 2 | 1 byte | 1 |

`channel_fifo` uses 2 requests. The IocXmit runs use every buffer of up to
7 bytes, every split of it into short writes, and a failure at every
point of the loop.

The other modules enumerate their inputs completely:
- **IocLifecycle:** every success or failure of every call, with
  `ioc_boot_reason` zero or not and a stale path present or not. A second
  RAW channel would only repeat RAW0.
- **IocParse** (in the startup run): all 5461 strings of up to 6
  characters. This includes `p,10` (decimal 10) against `p,010` (octal
  8), `,0`, `p` and `p,`. `PathSize` is 4 instead of 32, so paths of
  exactly `sizeof - 1` characters (`ppp,1`) and longer ones (`pppp,1`,
  truncated) both occur; `snprintf` treats the size only as a bound, so
  the cases at 4 bytes are those at 32. Each string that parses goes on
  through every path of `ioc_init`. `IocParse_null.cfg` keeps the real
  32 bytes.

These bounds are enough for the behaviours that matter:
- Two sources with two frames each exhaust a pool of three requests (one
  request in the progress run).
- A request can be forwarded and another enqueued behind or before it.
- Two requests of one channel can be in flight at once.
- A UART frame is split over two reads in the safety run.
- Shutdown can start in every state.

Symmetry over the requests is used only by the safety runs; temporal
properties are checked without it.

### Fairness

- **Weak fairness** for every thread's steps: the OS scheduler runs
  runnable threads.
- **Strong fairness** where an environment step can take the enabled step
  away:
  - `epoll_wait` with data ready is not interrupted by EINTR forever;
  - a read of a ready device does not fail forever.
- **IocXmit** has weak fairness on its one thread: each `write()`
  returns. A write that returns 0 for a non-empty buffer is not modelled;
  a character device does not do that, and the loop would spin on it.
- **IocLifecycle, IocParse, IocStartup** assume no fairness: their runs
  check only invariants. Termination of `ioc_init` and `ioc_deinit` is not
  stated, because it rests on joins returning, which IocLifecycle assumes
  and the shutdown run shows to be false.
- **No fairness** for the devices, the guest, EINTR, spurious wake-ups or
  the call of `ioc_deinit`. Nothing in the code forces them.

## 4. Findings

The runs show nine places where the code disagrees with the spec or
with itself. Each is listed in `PROJECT.json` with its line.

1. **Shutdown can hang on the core thread** (`ioc.c:981`).
   - Closing `ioc->epfd` does not wake a thread already blocked in
     `epoll_wait` on it.
   - The core thread returns only on the next device or UART data, or on a
     signal. Until then `pthread_join` blocks.
2. **Shutdown can hang on a worker** (`ioc.c:885`).
   - A worker with an empty queue waits without reading `closing`.
   - `ioc_kill_workers` signals once. If the worker was handling a request,
     or had not yet locked its mutex, the signal is lost and the worker
     never wakes.
   - The spec's design note asks for a closing check before waiting as well
     as after.
3. **A channel on fd 0 is never read** (`ioc.c:842`).
   - Registration tests `fd > 0`; every other test in the file accepts
     fd 0.
4. **Forwarded requests are handled in reverse order** (`ioc.c:911`,
   `ioc.c:963`).
   - Head insertion on forward reverses a channel's forwarded requests.
     This breaks the spec's per-channel FIFO promise.
   - Requests that are not forwarded do keep their order (`DirectFifo`
     passes).

5. **EAGAIN is not retried** (`ioc.c:489`).
   - The fds are non-blocking. `ioc_ch_xmit` breaks out of its loop on any
     failed write, EAGAIN included, and returns the short count.
   - No caller writes the rest, so a partial frame reaches the device.
   - The spec (sections 5 and 7) says EAGAIN is treated like a short write
     and retried.

6. **Thread creation failure corrupts the teardown** (`ioc.c:1166`).
   - If `pthread_create` fails for tx or core, work_err destroys the rx
     and tx mutexes and condition variables. The rx thread already
     created waits on them.
   - `ioc_kill_workers` then joins the core thread, which was never
     created; `tid` is 0 from `calloc`.
   - It also locks and signals the destroyed objects and destroys them a
     second time. chl_err then destroys `free_mtx` a second time.
   - The spec (section 7) asks for a reverse-order teardown and a NULL
     return.
7. **`ioc_parse` passes NULL to `strtoul`** (`ioc.c:1045`).
   - With no boot reason (`p`, `p,`), the second `strtok` returns NULL,
     and `strtoul(NULL)` crashes the DM.
   - The same happens with an empty path (`,0`): `strtok` skips the
     leading comma, so `0` becomes the first token.
   - The spec's scenario S4 runs init with `,0` and expects NULL back.
8. **A failed init leaves the virtual UART symlink behind** (`ioc.c:633`,
   `ioc.c:1171`).
   - After a failed `pthread_create`, chl_err calls `ioc_ch_deinit`, which
     closes the pty master but never unlinks the path
     `ioc_open_virtual_uart` made.
   - `ioc_init` returns NULL with the path pointing at a closed pty. The
     spec (section 7) says a failed init tears down in reverse.
   - `NullLeavesNoLink` states it; the run checks it with `NoMisuse` as
     `InitUnwinds`.
9. **A channel whose `epoll_ctl` failed is never read** (`ioc.c:845`).
   - `ioc_core_thread` only logs a failed `EPOLL_CTL_ADD` and goes on; the
     channel stays out of the epoll set for good, though `ioc_init` has
     already returned success.
   - The spec's error model (section 7) does not cover a registration
     failure (a spec gap); its delivery promise fails for that channel.
     `IocMediator_ctl_fail.cfg` lets `epoll_ctl` fail; the other
     IocMediator runs assume it succeeds for a freshly opened fd.

A further disagreement is recorded but has no run. When the pool is
empty, `ioc_process_tx` leaves native data unread; it does not drop it, as
spec 4.2 says. The model follows the code, and `NativeDataRead` shows the
data is read later.

## 5. Not modelled, and why

- **Debug logging.** Output only.
- **The whitelist filter.** `ioc.c` holds only its static tables and the
  four `wlist_init_*` calls `ioc_init` makes before any thread starts. The
  association, the lookup and the rx/tx handlers that filter frames are in
  `ioc_cbc.c`, outside `src/`. A model of them would check the spec's rule
  against itself, not this code.
- **The masked copy out of the ring** (`ioc_build_request`, line 721). For
  the power-of-two `CBC_RING_BUFFER_SIZE` it is the modular copy, an
  arithmetic identity; what could go wrong is a `link_len` larger than the
  ring or the request buffer, and the length comes from `cbc_unpack_link`,
  outside `src/`. `IocProcessRx` keeps the rest of `ioc_build_request`:
  take a free request or drop the frame, and append it to the rx queue.
- **What the pty, symlink and termios calls do to the file system.**
  IocLifecycle keeps only whether each call succeeds, the fd it holds and
  whether the path is ours. The symlink left after a failed init is
  finding 8; the one left after `ioc_deinit` is replaced by the next
  start (`ioc_open_virtual_uart` unlinks first), and the spec says
  nothing of the path after a successful deinit.
- **`ioc_boot_reason` truncated to 32 bits.** It needs reasons of 2^32
  and more: 10 digits, beyond enumeration and beyond TLC's 32-bit
  integers. Scaling the width down, as the path buffer is, would change
  which strings overflow rather than model this code. It is a hazard
  without a property in `PROJECT.json`.
- **IocLifecycle composed with IocMediator.** The mediator starts from the
  state a successful `ioc_init` returns: its channels are the ones opened,
  and a channel whose open failed is never registered, as `ioc_core_thread`
  tests the fd. Composing the two would multiply the mediator's state
  space by every failure path of init, which `InitOutcome` already checks,
  and add no interleaving, since `ioc_init` runs before any thread.
- **`IOC_DUMMY` channels.** They are compiled out in the default build.
- **Malformed link frames.** The codec is outside `src/`. A malformed
  frame yields no request and would add nothing beyond a dropped frame.
