------------------------------- MODULE GPUInvoke -------------------------------
(***************************************************************************)
(* Invocations of a GPU function: Function MS admits one (rate limit),     *)
(* creates a Kubernetes Job, watches it for at most 300 s and answers with *)
(* what the Job left in a ConfigMap; the Job's pod, the dispatcher,        *)
(* submits the work to the GPU provider, polls it and writes the result.   *)
(* Job and ConfigMap are named after the first 8 characters of the         *)
(* invocation's id.  Code: services/function/internal/gpuinvoke,           *)
(* operator/cmd/dispatcher, operator/internal/provider/gpu.                *)
(***************************************************************************)
EXTENDS Naturals, FiniteSets

CONSTANTS MaxInvocations,        \* bound: invocations of the function
          maxConsecutiveErrors,  \* status checks that may fail in a row
          Interval,              \* of the rate limiter, in ticks
          MaxTime,               \* bound: ticks of the clock
          Usages                 \* bounds: invocations, limit, short ids,
                                 \* ticks, restarts; whether the image is built

Invocations == 1..MaxInvocations

ASSUME GPUAssumption ==
    /\ MaxInvocations \in Nat /\ maxConsecutiveErrors \in Nat \ {0}
    /\ Interval \in Nat \ {0} /\ MaxTime \in Nat
    /\ \A u \in Usages : /\ u.invocations \subseteq Invocations /\ u.limit \in Nat \ {0}
                         /\ u.shorts \subseteq [Invocations -> Invocations]

VARIABLES now, window,   \* the clock; the project's window in Function MS
          inv,           \* the handler of each invocation
          code, out,     \* its answer: HTTP status, the result it carries
          job,           \* its Job, with the dispatcher's progress
          work,          \* its job at the provider
          cm,            \* the result ConfigMaps, by short id
          short, usage, restarted,
          submits, admitted   \* history: submissions, times of admission

frontend == <<now, window, inv, code, out, restarted, admitted>>
backend == <<job, work, cm, submits>>
vars == <<frontend, backend, short, usage>>

NoWindow == [count |-> 0, resetAt |-> 0, is |-> FALSE]
NoResult == [of |-> 0, state |-> "none"]
NoJob == [st |-> "none", errs |-> 0, pods |-> 0]
Never == MaxTime + 1
Terminal == {"COMPLETED", "FAILED", "CANCELLED"}
(* 400 stands for 400, 404 and 503, which no caller's property tells apart.*)
Codes == {0, 200, 400, 429, 500, 502}
JobStates == {"none", "submit", "poll", "write", "succeeded", "failed", "expired"}

Init == /\ usage \in Usages /\ short \in usage.shorts
        /\ now = 0 /\ window = NoWindow /\ restarted = FALSE
        /\ inv = [i \in Invocations |-> "new"]
        /\ code = [i \in Invocations |-> 0]
        /\ out = [i \in Invocations |-> NoResult]
        /\ job = [i \in Invocations |-> NoJob]
        /\ work = [i \in Invocations |-> "none"]
        /\ cm = [s \in Invocations |-> NoResult]
        /\ submits = [i \in Invocations |-> 0]
        /\ admitted = [i \in Invocations |-> Never]

Become(i, pc) == inv' = [inv EXCEPT ![i] = pc]
Answer(i, status, result) ==
    /\ Become(i, "done")
    /\ code' = [code EXCEPT ![i] = status] /\ out' = [out EXCEPT ![i] = result]
SetJob(i, st) == job' = [job EXCEPT ![i].st = st, ![i].errs = 0]

-----------------------------------------------------------------------------
(* The rate limiter: a window of Interval ticks that begins with its first *)
(* invocation; the next begins with the first one after its end.           *)
(* Mutant: a new window counts from zero.                                  *)
FromZero == [count |-> 0, resetAt |-> now + Interval, is |-> TRUE]
NewWindow == [count |-> 1, resetAt |-> now + Interval, is |-> TRUE]
Expired == ~window.is \/ now > window.resetAt
HasRoom == Expired \/ window.count < usage.limit
Admit(i) ==
    /\ window' = (IF Expired THEN NewWindow ELSE [window EXCEPT !.count = @ + 1])
    /\ admitted' = [admitted EXCEPT ![i] = now]

Arrives(i) == inv[i] = "new" /\ i \in usage.invocations /\ \A j \in 1..i - 1 : inv[j] # "new"

(* getFunctionSpec finds a GPU function with an image.                     *)
Invocable == usage.built

(* Its Job is created.                                                     *)
Accept(i) ==
    /\ Arrives(i) /\ HasRoom /\ Invocable
    /\ Admit(i) /\ Become(i, "create")
    /\ UNCHANGED <<now, code, out, restarted, backend, short, usage>>

(* The body or the resource cannot be read, or the function is missing,    *)
(* not a GPU function or not built: admitted all the same.                 *)
Refuse(i) ==
    /\ Arrives(i) /\ HasRoom
    /\ Admit(i) /\ Answer(i, 400, NoResult)
    /\ UNCHANGED <<now, restarted, backend, short, usage>>

TooMany(i) ==
    /\ Arrives(i) /\ ~HasRoom
    /\ Answer(i, 429, NoResult)
    /\ UNCHANGED <<now, window, restarted, admitted, backend, short, usage>>

Tick == /\ now < MaxTime /\ usage.ticks
        /\ now' = now + 1
        /\ UNCHANGED <<window, inv, code, out, restarted, admitted, backend, short, usage>>

-----------------------------------------------------------------------------
(* createDispatcherJob: the name is taken while the Job of an invocation   *)
(* with the same short id exists; the answer may be lost.                  *)
NameTaken(i) == \E j \in Invocations \ {i} : short[j] = short[i] /\ job[j].st \notin {"none", "expired"}
Pod == [st |-> "submit", errs |-> 0, pods |-> 1]

createDispatcherJob(i) ==
    /\ inv[i] = "create" /\ ~NameTaken(i)
    /\ job' = [job EXCEPT ![i] = Pod]
    /\ \/ Become(i, "wait") /\ UNCHANGED <<code, out>>
       \/ Answer(i, 500, NoResult)
    /\ UNCHANGED <<now, window, restarted, admitted, work, cm, submits, short, usage>>

CreateFails(i) ==
    /\ inv[i] = "create"
    /\ Answer(i, 500, NoResult)
    /\ UNCHANGED <<now, window, restarted, admitted, backend, short, usage>>

(* waitForJobCompletion: a watch begins with the Job as it is; it fails,   *)
(* is closed, or ends after 300 s or with the client's connection.         *)
JobSucceeded(i) ==
    /\ inv[i] = "wait" /\ job[i].st = "succeeded"
    /\ Become(i, "read")
    /\ UNCHANGED <<now, window, code, out, restarted, admitted, backend, short, usage>>

FailedOrTimedOut(i) ==
    /\ inv[i] = "wait"
    /\ Answer(i, 502, NoResult)
    /\ UNCHANGED <<now, window, restarted, admitted, backend, short, usage>>

(* readAndCleanupResult: the ConfigMap is answered as it is, and deleted   *)
(* if that succeeds.                                                       *)
readAndCleanupResult(i) ==
    /\ inv[i] = "read" /\ cm[short[i]] # NoResult
    /\ Answer(i, IF cm[short[i]].state = "FAILED" THEN 502 ELSE 200, cm[short[i]])
    /\ cm' \in {cm, [cm EXCEPT ![short[i]] = NoResult]}
    /\ UNCHANGED <<now, window, restarted, admitted, job, work, submits, short, usage>>

NoResultToRead(i) ==
    /\ inv[i] = "read"
    /\ Answer(i, 500, NoResult)
    /\ UNCHANGED <<now, window, restarted, admitted, backend, short, usage>>

(* Function MS restarts: its window and the open requests are gone.        *)
Restart ==
    /\ usage.restarts /\ ~restarted /\ restarted' = TRUE
    /\ window' = NoWindow
    /\ admitted' = [i \in Invocations |-> Never]
    /\ inv' = [i \in Invocations |-> IF inv[i] = "new" THEN "new" ELSE "done"]
    /\ UNCHANGED <<now, code, out, backend, short, usage>>

-----------------------------------------------------------------------------
(* The dispatcher.  The Job does not replace a pod that failed: "Submit to *)
(* external providers is non-idempotent."  Mutant: one retry.              *)
OneRetry == 1
BackoffLimit == 0
PodFails(i) == job' = [job EXCEPT ![i] = IF job[i].pods <= BackoffLimit
                                         THEN [Pod EXCEPT !.pods = job[i].pods + 1]
                                         ELSE [st |-> "failed", errs |-> 0, pods |-> job[i].pods]]

Submit(i) ==
    /\ job[i].st = "submit"
    /\ SetJob(i, "poll")
    /\ work' = [work EXCEPT ![i] = "active"] /\ submits' = [submits EXCEPT ![i] = @ + 1]
    /\ UNCHANGED <<frontend, cm, short, usage>>

(* The environment is incomplete, or the provider refuses; or it accepts   *)
(* and the answer is lost, and nobody polls what it runs.                  *)
SubmitFails(i) ==
    /\ job[i].st = "submit"
    /\ PodFails(i)
    /\ \/ UNCHANGED <<work, submits>>
       \/ work' = [work EXCEPT ![i] = "active"] /\ submits' = [submits EXCEPT ![i] = @ + 1]
    /\ UNCHANGED <<frontend, cm, short, usage>>

(* The provider; states it does not know of are taken for "queued".        *)
Provider(i, state) ==
    /\ work[i] = "active" /\ state \in Terminal
    /\ work' = [work EXCEPT ![i] = state]
    /\ UNCHANGED <<frontend, job, cm, submits, short, usage>>

StatusOf(i) ==
    /\ job[i].st = "poll" /\ SetJob(i, IF work[i] \in Terminal THEN "write" ELSE "poll")
    /\ UNCHANGED <<frontend, work, cm, submits, short, usage>>

(* Mutant: gives up one error late.                                        *)
GiveUpLate(errs) == errs > maxConsecutiveErrors
GiveUp(errs) == errs >= maxConsecutiveErrors
StatusFails(i) ==
    /\ job[i].st = "poll"
    /\ IF GiveUp(job[i].errs + 1) THEN PodFails(i) ELSE job' = [job EXCEPT ![i].errs = @ + 1]
    /\ UNCHANGED <<frontend, work, cm, submits, short, usage>>

(* The Job's deadline of 1800 s or an eviction: the provider's job is      *)
(* cancelled if that call succeeds.                                        *)
Terminate(i) ==
    /\ job[i].st \in {"poll", "write"} /\ PodFails(i)
    /\ work' \in {work, [work EXCEPT ![i] = IF job[i].st = "poll" /\ @ = "active" THEN "CANCELLED" ELSE @]}
    /\ UNCHANGED <<frontend, cm, submits, short, usage>>

(* writeResultConfigMap: an error, a ConfigMap of that name included, is   *)
(* only logged.  The exit code tells whether the work was completed,       *)
(* unless the pod is killed between the two.                               *)
(* Mutant: a cancelled job is taken for a completed one.                   *)
NotFailed(i) == work[i] # "FAILED"
Succeeded(i) == work[i] = "COMPLETED"
writeResultConfigMap(i) ==
    /\ job[i].st = "write"
    /\ \/ cm[short[i]] = NoResult /\ cm' = [cm EXCEPT ![short[i]] = [of |-> i, state |-> work[i]]]
       \/ UNCHANGED cm
    /\ \/ Succeeded(i) /\ SetJob(i, "succeeded")
       \/ PodFails(i)
    /\ UNCHANGED <<frontend, work, submits, short, usage>>

(* ttlSecondsAfterFinished: 600 s, and no handler waits longer than 300 s. *)
JobExpires(i) ==
    /\ job[i].st \in {"succeeded", "failed"} /\ inv[i] # "wait"
    /\ SetJob(i, "expired")
    /\ UNCHANGED <<frontend, work, cm, submits, short, usage>>

-----------------------------------------------------------------------------
Handler(i) == \/ Accept(i) \/ Refuse(i) \/ TooMany(i)
              \/ createDispatcherJob(i) \/ CreateFails(i)
              \/ JobSucceeded(i) \/ FailedOrTimedOut(i) \/ readAndCleanupResult(i) \/ NoResultToRead(i)

Dispatcher(i) == \/ Submit(i) \/ SubmitFails(i) \/ StatusOf(i) \/ StatusFails(i)
                 \/ Terminate(i) \/ writeResultConfigMap(i) \/ JobExpires(i)

Next == \/ \E i \in Invocations : \/ Handler(i) \/ Dispatcher(i)
                                  \/ \E state \in Terminal : Provider(i, state)
        \/ Tick \/ Restart

Spec == Init /\ [][Next]_vars

-----------------------------------------------------------------------------
TypeOK ==
    /\ now \in 0..MaxTime
    /\ window \in [count : 0..MaxInvocations, resetAt : 0..MaxTime + Interval, is : BOOLEAN]
    /\ inv \in [Invocations -> {"new", "create", "wait", "read", "done"}]
    /\ code \in [Invocations -> Codes]
    /\ out \in [Invocations -> [of : 0..MaxInvocations, state : Terminal \cup {"none"}]]
    /\ job \in [Invocations -> [st : JobStates, errs : 0..maxConsecutiveErrors - 1, pods : 0..1 + BackoffLimit]]
    /\ work \in [Invocations -> Terminal \cup {"none", "active"}]
    /\ cm \in [Invocations -> [of : 0..MaxInvocations, state : Terminal \cup {"none"}]]
    /\ short \in usage.shorts /\ usage \in Usages /\ restarted \in BOOLEAN
    /\ submits \in [Invocations -> 0..1 + BackoffLimit] /\ admitted \in [Invocations -> 0..Never]

(* An invocation is submitted to the provider, and billed, at most once,   *)
(* whatever fails or times out on the way; and it is answered with success *)
(* only if the provider completed it, with its own output - or with a      *)
(* result another invocation of the same short id left behind.             *)
BilledOnceAnsweredTruly ==
    \A i \in Invocations :
        /\ submits[i] <= 1
        /\ code[i] = 200 => /\ work[i] = "COMPLETED" /\ short[out[i].of] = short[i]
                            /\ out[i].of = i => out[i].state = "COMPLETED"

(* The limiter of one process lets less than twice the limit through in    *)
(* any stretch as long as its interval: two windows may meet in it, but    *)
(* not three, nor the first invocation of one and any of the next.  (It is *)
(* called a sliding window; one would keep to the limit.)                  *)
RateKept ==
    \A s \in 0..MaxTime : Cardinality({i \in Invocations : admitted[i] \in s..(s + Interval) \ {Never}})
                          < 2 * usage.limit
=============================================================================
