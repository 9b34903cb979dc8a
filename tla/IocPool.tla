------------------------------ MODULE IocPool ------------------------------
(***************************************************************************)
(* What the request pool of the IOC mediator promises, independent of the  *)
(* threads and queues that implement it: each request is at one place at  *)
(* a time, and moves only along the edges of its life cycle               *)
(*   free -> rx | tx            (the core thread fills a free request)    *)
(*   rx -> rx worker, tx -> tx worker          (a worker dequeues it)     *)
(*   worker -> free | the other worker's queue          (it routes it)    *)
(* with each worker holding at most one request.                          *)
(***************************************************************************)
CONSTANT Req

VARIABLE loc

Worker == {"rx", "tx"}
Holding(w) == IF w = "rx" THEN "rxw" ELSE "txw"
Other(w) == IF w = "rx" THEN "tx" ELSE "rx"
Place == {"free", "rx", "tx", "rxw", "txw"}

Init == loc = [r \in Req |-> "free"]

Fill(r, k) ==
    /\ loc[r] = "free" /\ k \in Worker
    /\ loc' = [loc EXCEPT ![r] = k]

Take(w, r) ==
    /\ loc[r] = w
    /\ \A s \in Req : loc[s] # Holding(w)
    /\ loc' = [loc EXCEPT ![r] = Holding(w)]

Route(w, r) ==
    /\ loc[r] = Holding(w)
    /\ \E p \in {"free", Other(w)} : loc' = [loc EXCEPT ![r] = p]

Next == \E r \in Req : \E w \in Worker : Fill(r, w) \/ Take(w, r) \/ Route(w, r)

Spec == Init /\ [][Next]_loc

TypeOK == loc \in [Req -> Place]
=============================================================================
