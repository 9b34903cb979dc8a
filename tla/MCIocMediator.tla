--------------------------- MODULE MCIocMediator ---------------------------
(* Instantiates IocMediator for TLC: requests and channels are model values. *)
EXTENDS IocMediator, TLC

CONSTANTS r1, r2, r3, lfcc, sig

\* A pool of two requests: one fewer than two channels can fill, so the
\* free queue runs empty and frames wait or are dropped.
MCReq2 == {r1, r2}
\* A single request: the free queue is empty whenever it is in use.
MCReq1 == {r1}
\* A pool of three requests for the safety runs.
MCReq3 == {r1, r2, r3}
\* The lifecycle channel alone, or with the signal channel.
MCNative1 == {lfcc}
MCNative2 == {lfcc, sig}

\* Requests are interchangeable: sound for the invariants and the action
\* property of the safety run, which never name a request.
ReqSymmetry == Permutations(Req)
=============================================================================
