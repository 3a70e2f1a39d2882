----------------------------- MODULE GPUInvoke_MC -----------------------------
(* Instances of GPUInvoke for TLC: three dispatched invocations, or two    *)
(* and a restart, with one short id or with different ones; or five of a   *)
(* function that is not built, two to a window, a clock and a restart.     *)
EXTENDS GPUInvoke

Alone == [i \in Invocations |-> i]
Together == [i \in Invocations |-> 1]
Dispatched == [invocations |-> {1, 2, 3}, limit |-> 3, shorts |-> {Alone, Together},
               ticks |-> FALSE, restarts |-> FALSE, built |-> TRUE]
Restarted == [Dispatched EXCEPT !.invocations = {1, 2}, !.restarts = TRUE]
Hurried == [invocations |-> Invocations, limit |-> 2, shorts |-> {Alone},
            ticks |-> TRUE, restarts |-> TRUE, built |-> FALSE]
AllUsages == {Dispatched, Restarted, Hurried}
=============================================================================
