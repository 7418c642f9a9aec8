----------------------------- MODULE MCSemaphore -----------------------------
(***************************************************************************)
(* Semaphore with a handful of requests and limits that are raised,        *)
(* lowered and removed while permits are out.                              *)
(***************************************************************************)
EXTENDS Semaphore

CONSTANTS r1, r2, r3, r4

Four == {r1, r2, r3, r4}
Three == {r1, r2, r3}
LimitsDef == {1, 2, NoMax}
One == {1}

=============================================================================
