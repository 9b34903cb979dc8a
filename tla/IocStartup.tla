----------------------------- MODULE IocStartup -----------------------------
(***************************************************************************)
(* The mediator's start as the device model runs it: ioc_parse reads the   *)
(* "-i" option into ioc_boot_reason, then ioc_init reads ioc_boot_reason   *)
(* and either returns an ioc, which ioc_deinit later tears down, or NULL.  *)
(* IocParse and IocLifecycle share the one variable they share in the      *)
(* code, ioc_boot_reason; each keeps its own program counter.  A SIGSEGV   *)
(* in ioc_parse ends the device model before ioc_init.                     *)
(***************************************************************************)
EXTENDS Naturals, Sequences

CONSTANTS MaxLen, PathSize, Table, On, Critical, Uart, CreateMayFail

VARIABLES
    opts, param, save, tmp, path, ppc,        \* ioc_parse; ppc is its pc
    bootReason,                               \* ioc_boot_reason
    pc, chIdx, uartStep, fdOpen, ptyOpen, link, mem, epfd, sync, thread,
    kwRet, result, misuse                     \* ioc_init and ioc_deinit

parseVars == <<opts, param, save, tmp, path, ppc>>
initVars == <<pc, chIdx, uartStep, fdOpen, ptyOpen, link, mem, epfd, sync,
              thread, kwRet, result, misuse>>
vars == <<parseVars, bootReason, initVars>>

P == INSTANCE IocParse WITH pc <- ppc
L == INSTANCE IocLifecycle

\* ioc_boot_reason starts at 0, which ioc_init's Init allows.
Init == P!Init /\ L!Init

\* ioc_init runs once ioc_parse has returned.
Next ==
    \/ P!Next /\ UNCHANGED initVars
    \/ ppc = "done" /\ L!Next /\ UNCHANGED parseVars

\* One thread, the device model's main thread, runs both.  Only invariants
\* are checked, so no fairness is assumed.
Spec == Init /\ [][Next]_vars

-----------------------------------------------------------------------------
\* A well-formed option string is parsed into its path and boot reason.
ParsesWellFormed == P!ParsesWellFormed

\* ioc_init's result is right for the boot reason the option gave.
InitOutcome == L!InitOutcome

\* After ioc_deinit everything ioc_init acquired is released.
TeardownReleasesAll == L!TeardownReleasesAll
=============================================================================
