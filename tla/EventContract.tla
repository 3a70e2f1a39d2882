----------------------------- MODULE EventContract -----------------------------
(***************************************************************************)
(* What event delivery promises for each event of a project's stream and   *)
(* one function.  An event that the function's consumer has to deliver is  *)
(* due until the function has answered it with success, or until it was    *)
(* tried for the last time, or the consumer is removed; the function may   *)
(* be called again for an event that is no longer due, but in all no more  *)
(* than Limit times.                                                       *)
(***************************************************************************)
EXTENDS Naturals

CONSTANTS Events, Limit
VARIABLES fate,      \* what has become of each event
          tries,     \* calls of the function for it
          answered   \* the events that a call has succeeded for

vars == <<fate, tries, answered>>
Fates == {"none", "stored", "due", "done", "given up", "passed"}

Init == /\ fate = [e \in Events |-> "none"]
        /\ tries = [e \in Events |-> 0]
        /\ answered = {}

Become(S, new) == fate' = [e \in Events |-> IF e \in S THEN new ELSE fate[e]]
With(f) == {e \in Events : fate[e] = f}

(* An event that arrives while there is no consumer is only stored.        *)
Publish(e) == /\ fate[e] = "none"
              /\ Become({e}, "due") \/ Become({e}, "stored")
              /\ UNCHANGED <<tries, answered>>
(* The consumer is created, and passes over what was stored before; it is  *)
(* removed, with all that it had to deliver; it skips what the function    *)
(* does not ask for.                                                       *)
Created == Become(With("stored"), "passed") /\ UNCHANGED <<tries, answered>>
Removed == Become(With("due"), "passed") /\ UNCHANGED <<tries, answered>>
Skip(e) == fate[e] = "due" /\ tries[e] = 0 /\ Become({e}, "passed")
           /\ UNCHANGED <<tries, answered>>

Call(e) == /\ fate[e] \notin {"none", "stored"}
           /\ tries[e] < Limit
           /\ tries' = [tries EXCEPT ![e] = @ + 1]
           /\ answered' \in {answered, answered \cup {e}}
           /\ UNCHANGED fate
Settle(e) == /\ fate[e] = "due" /\ e \in answered
             /\ Become({e}, "done")
             /\ UNCHANGED <<tries, answered>>
GiveUp(e) == fate[e] = "due" /\ Become({e}, "given up") /\ UNCHANGED <<tries, answered>>

Next == \/ Created \/ Removed
        \/ \E e \in Events : Publish(e) \/ Skip(e) \/ Call(e) \/ Settle(e) \/ GiveUp(e)
Spec == Init /\ [][Next]_vars
=============================================================================
