----------------------------- MODULE EventDelivery -----------------------------
(***************************************************************************)
(* Delivery of the events of a project's stream to one function: the       *)
(* durable JetStream consumer that the operator creates and deletes, and   *)
(* the NATS sidecars in the function's pods, which pull from it, call the  *)
(* function and acknowledge.  The consumer redelivers what is not          *)
(* acknowledged in time, to any sidecar, so several may hold one event.    *)
(* Code: services/nats-sidecar, operator/internal/natsadmin and            *)
(* reconcileNATSConsumer of the Function controller.                       *)
(***************************************************************************)
EXTENDS Naturals, FiniteSets

CONSTANTS MaxEvents,   \* bound: events in the stream
          Subjects,    \* their subjects
          Sidecars,    \* the pods of the function
          maxRetries,  \* SIDECAR_MAX_RETRIES
          MaxDeliver,  \* of the consumer
          Usages       \* bounds: pods, subjects, and reconciles that change
                       \* the consumer

Events == 1..MaxEvents
ASSUME DeliveryAssumption ==
    /\ IsFiniteSet(Sidecars)
    /\ MaxEvents \in Nat /\ maxRetries \in Nat /\ MaxDeliver \in Nat \ {0}
    /\ \A u \in Usages : u.pods \subseteq Sidecars /\ u.subjects \subseteq Subjects /\ u.updates \in Nat

VARIABLES subject,     \* of each event in the stream, "" for one to come
          filter,      \* the consumer's filter subjects, {} when there is none
          msg,         \* the consumer's view of each event
          side,        \* each sidecar: what it does, with which event
          usage, updates,
          tries, answered   \* history: calls of the function, and successes

vars == <<subject, filter, msg, side, usage, updates, tries, answered>>
server == <<subject, filter, msg, usage, updates>>

MsgStates == {"new", "pending", "again", "acked", "exceeded", "passed"}
PCs == {"down", "fetch", "post", "ack", "nak"}
SideRecs == [pc : PCs, ev : 0..MaxEvents, attempt : 0..maxRetries]
Down == [pc |-> "down", ev |-> 0, attempt |-> 0]
Fetching == [Down EXCEPT !.pc = "fetch"]

Init == /\ subject = [e \in Events |-> ""]
        /\ filter = {}
        /\ msg = [e \in Events |-> [st |-> "new", count |-> 0]]
        /\ side = [s \in Sidecars |-> Down]
        /\ usage \in Usages /\ updates = 0
        /\ tries = [e \in Events |-> 0]
        /\ answered = {}

Bound == filter # {}
Stored(e) == subject[e] # ""
Mark(e, st) == msg' = [msg EXCEPT ![e].st = st]
Become(s, new) == side' = [side EXCEPT ![s] = new]

-----------------------------------------------------------------------------
(* CDC pods and Storage MS publish.                                        *)
Publish(e, subj) ==
    /\ subj \in usage.subjects
    /\ ~Stored(e) /\ \A d \in Events : d < e => Stored(d)
    /\ subject' = [subject EXCEPT ![e] = subj]
    /\ UNCHANGED <<filter, msg, side, usage, updates, tries, answered>>

(* EnsureConsumer: a new consumer delivers what comes after it             *)
(* (DeliverNew); an update changes the filter only.  Triggers that name no *)
(* subject leave the consumer as it is.                                    *)
EnsureConsumer(filterSubjects) ==
    /\ updates < usage.updates
    /\ updates' = updates + 1
    /\ filterSubjects \subseteq usage.subjects /\ filterSubjects \notin {{}, filter}
    /\ filter' = filterSubjects
    /\ msg' = [e \in Events |-> IF ~Bound /\ Stored(e) /\ msg[e].st = "new"
                                THEN [msg[e] EXCEPT !.st = "passed"] ELSE msg[e]]
    /\ UNCHANGED <<subject, side, usage, tries, answered>>

(* DeleteConsumer, when the function has no such trigger or is deleted:    *)
(* what was not acknowledged is not delivered again.                       *)
DeleteConsumer ==
    /\ updates < usage.updates
    /\ updates' = updates + 1
    /\ Bound /\ filter' = {}
    /\ msg' = [e \in Events |-> IF Stored(e) /\ msg[e].st \in {"new", "pending", "again"}
                                THEN [msg[e] EXCEPT !.st = "passed"] ELSE msg[e]]
    /\ UNCHANGED <<subject, side, usage, tries, answered>>

-----------------------------------------------------------------------------
(* The JetStream server.                                                   *)

(* New events in the order of the stream; those to redeliver come first.   *)
FirstNew(e) == /\ Stored(e) /\ msg[e].st = "new"
               /\ \A d \in Events : Stored(d) /\ msg[d].st = "new" => e <= d
               /\ \A d \in Events : msg[d].st # "again"
Skip(e) ==
    /\ Bound /\ FirstNew(e) /\ subject[e] \notin filter
    /\ Mark(e, "passed")
    /\ UNCHANGED <<subject, filter, side, usage, updates, tries, answered>>

Deliverable(e) == /\ Bound
                  /\ \/ FirstNew(e) /\ subject[e] \in filter
                     \/ msg[e].st = "again" /\ msg[e].count < MaxDeliver
Send(e) == msg' = [msg EXCEPT ![e] = [st |-> "pending", count |-> @.count + 1]]

Deliver(s, e) ==
    /\ side[s].pc = "fetch" /\ Deliverable(e)
    /\ Send(e)
    /\ Become(s, [pc |-> "post", ev |-> e, attempt |-> 0])
    /\ UNCHANGED <<subject, filter, usage, updates, tries, answered>>

(* Fetch gave up, or its sidecar stopped, when the event was on its way.   *)
DeliverToNobody(e) ==
    /\ Deliverable(e)
    /\ Send(e)
    /\ UNCHANGED <<subject, filter, side, usage, updates, tries, answered>>

(* The wait of BackOff is over, 5 s for the first delivery, whatever the   *)
(* sidecar that has the event is doing.                                    *)
AckWait(e) ==
    /\ msg[e].st = "pending"
    /\ Mark(e, "again")
    /\ UNCHANGED <<subject, filter, side, usage, updates, tries, answered>>
Exceeded(e) ==
    /\ msg[e].st = "again" /\ msg[e].count >= MaxDeliver
    /\ Mark(e, "exceeded")
    /\ UNCHANGED <<subject, filter, side, usage, updates, tries, answered>>

-----------------------------------------------------------------------------
(* A sidecar.                                                              *)

(* main binds to the consumer, and exits if there is none.                 *)
Start(s) ==
    /\ side[s].pc = "down" /\ s \in usage.pods /\ Bound
    /\ Become(s, Fetching)
    /\ UNCHANGED <<server, tries, answered>>
(* Fetch returns an error other than the end of its wait.                  *)
FetchFails(s) ==
    /\ side[s].pc = "fetch" /\ ~Bound
    /\ Become(s, Down)
    /\ UNCHANGED <<server, tries, answered>>
(* The context is cancelled, or the pod is gone: no acknowledgement.       *)
Stop(s) ==
    /\ side[s].pc # "down"
    /\ Become(s, Down)
    /\ UNCHANGED <<server, tries, answered>>

(* Outcomes of a POST: the answer, or none within 30 seconds.              *)
Answers == {"2xx", "other", "none"}
(* Mutants: any answer is a success; the attempts end one late.            *)
AnyAnswer(answer) == answer # "none"
Success(answer) == answer = "2xx"
NextAttemptOffByOne(m) == IF m.attempt <= maxRetries THEN [m EXCEPT !.attempt = @ + 1]
                          ELSE [m EXCEPT !.pc = "nak"]
NextAttempt(m) == IF m.attempt < maxRetries THEN [m EXCEPT !.attempt = @ + 1]
                  ELSE [m EXCEPT !.pc = "nak"]

processMessage(s, answer) ==
    LET m == side[s] IN
    /\ m.pc = "post"
    /\ tries' = [tries EXCEPT ![m.ev] = @ + 1]
    /\ answered' = IF answer = "2xx" THEN answered \cup {m.ev} ELSE answered
    /\ Become(s, IF Success(answer) THEN [m EXCEPT !.pc = "ack"] ELSE NextAttempt(m))
    /\ UNCHANGED server

(* An error of AckSync is logged; the server may have it all the same.  An *)
(* event it no longer waits for stays as it is.                            *)
AckSync(s) ==
    LET e == side[s].ev IN
    /\ side[s].pc = "ack"
    /\ \/ IF Bound /\ msg[e].st \in {"pending", "again"} THEN Mark(e, "acked") ELSE UNCHANGED msg
       \/ UNCHANGED msg
    /\ Become(s, Fetching)
    /\ UNCHANGED <<subject, filter, usage, updates, tries, answered>>

(* A Nak asks for redelivery at once, whether this delivery is the last    *)
(* one or an earlier one.  Mutant: the sidecar waits until it is taken.    *)
NakUntilTaken(s) ==
    LET e == side[s].ev IN
    /\ side[s].pc = "nak" /\ Bound /\ msg[e].st = "pending"
    /\ Mark(e, "again")
    /\ Become(s, Fetching)
    /\ UNCHANGED <<subject, filter, usage, updates, tries, answered>>
Nak(s) ==
    LET e == side[s].ev IN
    /\ side[s].pc = "nak"
    /\ \/ IF Bound /\ msg[e].st = "pending" THEN Mark(e, "again") ELSE UNCHANGED msg
       \/ UNCHANGED msg
    /\ Become(s, Fetching)
    /\ UNCHANGED <<subject, filter, usage, updates, tries, answered>>

Work(s) == (\E answer \in Answers : processMessage(s, answer)) \/ AckSync(s) \/ Nak(s)

Server(e) == Skip(e) \/ AckWait(e) \/ Exceeded(e)
Next == \/ \E subj \in Subjects, e \in Events : Publish(e, subj)
        \/ \E f \in SUBSET Subjects : EnsureConsumer(f)
        \/ DeleteConsumer
        \/ \E e \in Events : Server(e) \/ DeliverToNobody(e)
        \/ \E s \in Sidecars, e \in Events : Deliver(s, e)
        \/ \E s \in Sidecars : Start(s) \/ FetchFails(s) \/ Stop(s) \/ Work(s)
Spec == Init /\ [][Next]_vars

(* The server keeps serving pulls, pods are restarted, and a sidecar that  *)
(* runs goes on; nothing is assumed of the function's answers, and pods    *)
(* may stop for ever again.                                                *)
FairSpec == /\ Spec
            /\ \A e \in Events : WF_vars(Server(e))
            /\ \A e \in Events : SF_vars(\E s \in Sidecars : Deliver(s, e))
            /\ \A s \in Sidecars : WF_vars(Start(s)) /\ WF_vars(Work(s)) /\ WF_vars(FetchFails(s))

-----------------------------------------------------------------------------
TypeOK == /\ subject \in [Events -> Subjects \cup {""}]
          /\ filter \subseteq Subjects
          /\ msg \in [Events -> [st : MsgStates, count : 0..MaxDeliver]]
          /\ side \in [Sidecars -> SideRecs]
          /\ usage \in Usages /\ updates \in 0..usage.updates
          /\ tries \in [Events -> Nat]
          /\ answered \subseteq Events

fate == [e \in Events |->
           CASE ~Stored(e) -> "none"
             [] Stored(e) /\ msg[e].st = "new" /\ ~Bound -> "stored"
             [] msg[e].st = "acked" -> "done"
             [] msg[e].st = "exceeded" -> "given up"
             [] msg[e].st = "passed" -> "passed"
             [] OTHER -> "due"]
Contract == INSTANCE EventContract WITH Limit <- MaxDeliver * (maxRetries + 1)
(* However deliveries, retries, waits, restarts and lost acknowledgements  *)
(* interleave, and with several sidecars calling for one event: it is      *)
(* acknowledged only after a call that succeeded, never comes back then,   *)
(* and the function is called a bounded number of times for it.            *)
ImplementsContract == Contract!Spec

Outstanding(e) == Bound /\ Stored(e) /\ msg[e].st \in {"new", "pending", "again"}
(* No event waits for ever, also behind one that the function never        *)
(* answers with success: it is acknowledged or given up.                   *)
EverySettled == \A e \in Events : Outstanding(e) ~> ~Outstanding(e)

(* "Nak so NATS will redeliver later" (consumer.go:119).  False of the     *)
(* code: the last delivery that fails is the end of the event.             *)
NothingGivenUp == \A e \in Events : msg[e].st # "exceeded"
(* One call at a time for an event, as AckWait of a minute suggests.       *)
(* False of the code: BackOff replaces it, and starts at 5 seconds.        *)
OneAtATime == \A s, t \in Sidecars :
    side[s].pc = "post" /\ side[t].pc = "post" /\ s # t => side[s].ev # side[t].ev
=============================================================================
