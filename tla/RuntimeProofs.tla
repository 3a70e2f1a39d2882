---------------------------- MODULE RuntimeProofs ----------------------------
(***************************************************************************)
(* Theorems about what runs a built function.                              *)
(*                                                                         *)
(* GPUInvoke, for every number of invocations, short ids, limits,          *)
(* intervals and lengths of time: its types, that an invocation is billed  *)
(* once and answered truly, and that the rate is kept.                     *)
(*                                                                         *)
(* FunctionWorkload, for every set of kinds and every number of changes:   *)
(* its types, that a function reported Ready has the objects its spec      *)
(* needs and no others unaccounted for, and that a reconcile of the        *)
(* current spec interrupts no function in the cluster.                     *)
(***************************************************************************)
EXTENDS GPUInvoke, FunctionWorkload, FiniteSetTheorems, TLAPS

(* A Job has one pod, and the provider has the work of a Job that          *)
(* submitted it: a Job about to submit did not do so before, one that      *)
(* writes its result knows how the work ended, and one that succeeded      *)
(* completed it.                                                           *)
JobInv ==
    \A i \in Invocations :
        /\ inv[i] \in {"new", "create"} => job[i].st = "none"
        /\ job[i].st \in {"none", "submit"} => work[i] = "none" /\ submits[i] = 0
        /\ job[i].st # "none" => job[i].pods = 1
        /\ job[i].st = "write" => work[i] \in Terminal
        /\ job[i].st = "succeeded" => work[i] = "COMPLETED"

(* A ConfigMap holds how the work of an invocation with its short id ended.*)
ResultInv ==
    \A s \in Invocations :
        cm[s] # NoResult => /\ cm[s].of \in Invocations /\ short[cm[s].of] = s
                            /\ cm[s].state = work[cm[s].of] /\ work[cm[s].of] \in Terminal

(* A handler reads a result once the work is completed.                    *)
AnswerInv ==
    \A i \in Invocations :
        /\ inv[i] = "read" => work[i] = "COMPLETED"
        /\ code[i] = 200 => /\ out[i].of \in Invocations /\ work[i] = "COMPLETED"
                            /\ short[out[i].of] = short[i]
                            /\ out[i].state = work[out[i].of] /\ out[i].state \in Terminal

(* The invocations admitted in the current window, and those of the        *)
(* windows before it that were admitted at s or later.                     *)
InWindow == {i \in Invocations : admitted[i] # Never /\ window.resetAt <= admitted[i] + Interval}
Earlier(s) == {i \in Invocations : /\ admitted[i] # Never /\ s <= admitted[i]
                                   /\ admitted[i] + Interval < window.resetAt}
InStretch(s) == {i \in Invocations : admitted[i] \in s..(s + Interval) \ {Never}}

(* The window counts what was admitted in it, beginning with its first;    *)
(* and a stretch that reaches it reaches back to one earlier window at     *)
(* most, but not to the first of that.                                     *)
WindowInv ==
    /\ window.resetAt <= now + Interval
    /\ \E f \in Invocations : admitted[f] # Never /\ admitted[f] + Interval = window.resetAt
    /\ window.count = Cardinality(InWindow) /\ window.count <= usage.limit
    /\ \A s \in 0..MaxTime :
         window.resetAt <= s + Interval + Interval => Cardinality(Earlier(s)) < usage.limit

RateInv ==
    /\ \A i \in Invocations : /\ inv[i] = "new" => admitted[i] = Never
                              /\ admitted[i] # Never => /\ admitted[i] <= now /\ window.is
                                                        /\ admitted[i] <= window.resetAt
    /\ window.is => WindowInv
    /\ RateKept

IInv == TypeOK /\ JobInv /\ ResultInv /\ AnswerInv /\ RateInv
-----------------------------------------------------------------------------
(* The work and its answer.                                                *)

Results == [of : 0..MaxInvocations, state : Terminal \cup {"none"}]
Jobs == [st : JobStates, errs : 0..maxConsecutiveErrors - 1, pods : 0..1 + BackoffLimit]

(* The types of all but the clock and the window.                          *)
WorkTypes ==
    /\ inv \in [Invocations -> {"new", "create", "wait", "read", "done"}]
    /\ code \in [Invocations -> Codes] /\ out \in [Invocations -> Results]
    /\ job \in [Invocations -> Jobs]
    /\ work \in [Invocations -> Terminal \cup {"none", "active"}]
    /\ cm \in [Invocations -> Results]
    /\ short \in usage.shorts /\ usage \in Usages /\ restarted \in BOOLEAN
    /\ submits \in [Invocations -> 0..1 + BackoffLimit]

WorkInv == WorkTypes /\ JobInv /\ ResultInv /\ AnswerInv

RateTypes ==
    /\ now \in 0..MaxTime
    /\ window \in [count : 0..MaxInvocations, resetAt : 0..MaxTime + Interval, is : BOOLEAN]
    /\ admitted \in [Invocations -> 0..Never]

(* The types are those of the two parts of the invariant.                  *)
LEMMA TypesSplit == TypeOK <=> WorkTypes /\ RateTypes
BY DEF TypeOK, WorkTypes, RateTypes, Results, Jobs

(* The numbers used below.                                                 *)
LEMMA Numbers ==
    /\ MaxInvocations \in Nat /\ Interval \in Nat \ {0} /\ MaxTime \in Nat
    /\ 0 \in 0..MaxInvocations /\ 0 \notin Invocations /\ Invocations \subseteq 0..MaxInvocations
    /\ 0 \in 0..maxConsecutiveErrors - 1
    /\ {0, 1} \subseteq 0..1 + BackoffLimit
<1>1. /\ MaxInvocations \in Nat /\ maxConsecutiveErrors \in Nat \ {0}
      /\ Interval \in Nat \ {0} /\ MaxTime \in Nat
  BY GPUAssumption DEF GPUAssumption
<1> QED BY <1>1 DEF Invocations, BackoffLimit

(* A pod is a Job in order, and so are the values that nothing set yet.    *)
LEMMA InitialValues ==
    /\ NoResult \in Results /\ NoJob \in Jobs /\ Pod \in Jobs
    /\ NoJob.st = "none" /\ Pod.st = "submit" /\ Pod.pods = 1 /\ NoResult.of = 0
BY Numbers DEF NoResult, Results, NoJob, Pod, Jobs, JobStates

(* What an invocation is allowed, and its short id, which is a number too. *)
LEMMA UsageType ==
    ASSUME WorkTypes
    PROVE  /\ usage.invocations \subseteq Invocations /\ usage.limit \in Nat \ {0}
           /\ short \in [Invocations -> Invocations]
<1>1. usage \in Usages /\ short \in usage.shorts
  BY DEF WorkTypes
<1>2. /\ usage.invocations \subseteq Invocations /\ usage.limit \in Nat \ {0}
      /\ usage.shorts \subseteq [Invocations -> Invocations]
  BY <1>1, GPUAssumption DEF GPUAssumption
<1> QED BY <1>1, <1>2, Zenon

(* The part about the work and its answer holds initially ...              *)
LEMMA InitWork == Init => WorkInv
<1> SUFFICES ASSUME Init PROVE WorkInv
  OBVIOUS
<1>1. WorkTypes
  BY InitialValues, Numbers DEF Init, WorkTypes, Codes
<1> QED BY <1>1, InitialValues DEF Init, WorkInv, JobInv, ResultInv, AnswerInv

(* A handler that goes on without having read a result.                    *)
LEMMA HandlerGoesOn ==
    ASSUME WorkInv, NEW i \in Invocations, NEW pc \in {"create", "read"},
           Become(i, pc), UNCHANGED <<code, out, backend, short, usage, restarted>>,
           pc = "read" => work[i] = "COMPLETED",
           pc = "create" => inv[i] = "new"
    PROVE  WorkInv'
<1>1. WorkTypes'
  BY DEF WorkInv, WorkTypes, backend, Become
<1>2. JobInv' /\ ResultInv' /\ AnswerInv'
  BY DEF WorkInv, WorkTypes, JobInv, ResultInv, AnswerInv, backend, Become
<1> QED BY <1>1, <1>2 DEF WorkInv

(* One that refuses or fails carries no result.                            *)
LEMMA HandlerFails ==
    ASSUME WorkInv, NEW i \in Invocations, NEW c \in Codes \ {200},
           Answer(i, c, NoResult), UNCHANGED <<backend, short, usage, restarted>>
    PROVE  WorkInv'
<1>1. WorkTypes'
  BY InitialValues DEF WorkInv, WorkTypes, backend, Answer, Become
<1>2. JobInv' /\ ResultInv'
  BY DEF WorkInv, WorkTypes, JobInv, ResultInv, backend, Answer, Become
<1>3. AnswerInv'
  BY DEF WorkInv, WorkTypes, AnswerInv, backend, Answer, Become
<1> QED BY <1>1, <1>2, <1>3 DEF WorkInv

(* Restart ends the requests that are open.                                *)
LEMMA RestartWork == WorkInv /\ Restart => WorkInv'
<1> SUFFICES ASSUME WorkInv, Restart PROVE WorkInv'
  OBVIOUS
<1>1. WorkTypes'
  BY DEF Restart, WorkInv, WorkTypes, backend
<1>2. JobInv' /\ ResultInv' /\ AnswerInv'
  BY DEF Restart, WorkInv, WorkTypes, JobInv, ResultInv, AnswerInv, backend
<1> QED BY <1>1, <1>2 DEF WorkInv

(* ... and every step of a handler keeps it.                               *)
LEMMA HandlerWork ==
    ASSUME WorkInv, NEW i \in Invocations, Handler(i)
    PROVE  WorkInv'
<1>0. {400, 429, 500, 502} \subseteq Codes \ {200}
  BY DEF Codes
<1>1. CASE Accept(i)
  BY <1>1, HandlerGoesOn DEF Accept, Arrives
<1>2. CASE Refuse(i)
  BY <1>0, <1>2, HandlerFails DEF Refuse
<1>3. CASE TooMany(i)
  BY <1>0, <1>3, HandlerFails DEF TooMany
<1>4. CASE createDispatcherJob(i)
  <2>1. /\ inv[i] = "create" /\ job' = [job EXCEPT ![i] = Pod]
        /\ UNCHANGED <<work, cm, submits, short, usage, restarted>>
        /\ \/ inv' = [inv EXCEPT ![i] = "wait"] /\ UNCHANGED <<code, out>>
           \/ /\ inv' = [inv EXCEPT ![i] = "done"]
              /\ code' = [code EXCEPT ![i] = 500] /\ out' = [out EXCEPT ![i] = NoResult]
    BY <1>4 DEF createDispatcherJob, Become, Answer
  <2>2. WorkTypes'
    BY <2>1, InitialValues DEF WorkInv, WorkTypes, Codes
  <2>3. JobInv'
    BY <2>1, InitialValues DEF WorkInv, WorkTypes, JobInv
  <2>4. ResultInv' /\ AnswerInv'
    BY <2>1 DEF WorkInv, WorkTypes, ResultInv, AnswerInv
  <2> QED BY <2>2, <2>3, <2>4 DEF WorkInv
<1>5. CASE CreateFails(i)
  BY <1>0, <1>5, HandlerFails DEF CreateFails
<1>6. CASE JobSucceeded(i)
  BY <1>6, HandlerGoesOn DEF JobSucceeded, WorkInv, JobInv
<1>7. CASE FailedOrTimedOut(i)
  BY <1>0, <1>7, HandlerFails DEF FailedOrTimedOut
<1>8. CASE readAndCleanupResult(i)
  <2> DEFINE r == cm[short[i]]
             c == IF r.state = "FAILED" THEN 502 ELSE 200
  <2>1. /\ inv[i] = "read" /\ r # NoResult
        /\ inv' = [inv EXCEPT ![i] = "done"]
        /\ code' = [code EXCEPT ![i] = c] /\ out' = [out EXCEPT ![i] = r]
        /\ cm' = cm \/ cm' = [cm EXCEPT ![short[i]] = NoResult]
        /\ UNCHANGED <<job, work, submits, short, usage, restarted>>
    BY <1>8 DEF readAndCleanupResult, Become, Answer
  <2>2. short[i] \in Invocations
    BY UsageType DEF WorkInv
  <2>3. /\ r \in Results /\ r.of \in Invocations /\ short[r.of] = short[i]
        /\ r.state = work[r.of] /\ r.state \in Terminal /\ work[i] = "COMPLETED"
    BY <2>1, <2>2 DEF WorkInv, WorkTypes, ResultInv, AnswerInv
  <2>4. c \in Codes
    BY DEF Codes
  <2> HIDE DEF r, c
  <2>5. WorkTypes'
    BY <2>1, <2>2, <2>3, <2>4, InitialValues DEF WorkInv, WorkTypes
  <2>6. JobInv' /\ ResultInv'
    BY <2>1 DEF WorkInv, WorkTypes, JobInv, ResultInv
  <2>7. AnswerInv'
    BY <2>1, <2>3 DEF WorkInv, WorkTypes, AnswerInv
  <2> QED BY <2>5, <2>6, <2>7 DEF WorkInv
<1>9. CASE NoResultToRead(i)
  BY <1>0, <1>9, HandlerFails DEF NoResultToRead
<1> QED BY <1>1, <1>2, <1>3, <1>4, <1>5, <1>6, <1>7, <1>8, <1>9 DEF Handler

(* A pod that fails is the Job's last one.                                 *)
LEMMA OnePod ==
    ASSUME WorkInv, NEW i \in Invocations, job[i].st # "none", PodFails(i)
    PROVE  \E q \in Jobs : /\ q.st = "failed" /\ q.pods = 1
                           /\ job' = [job EXCEPT ![i] = q]
<1> DEFINE q == [st |-> "failed", errs |-> 0, pods |-> 1]
<1>1. job[i].pods = 1 /\ ~(1 <= BackoffLimit)
  BY DEF WorkInv, JobInv, BackoffLimit
<1>2. job' = [job EXCEPT ![i] = q]
  BY <1>1 DEF PodFails
<1>3. q \in Jobs
  BY Numbers DEF Jobs, JobStates
<1> QED BY <1>2, <1>3

(* A Job that goes on without new pods.                                    *)
LEMMA SetJobFacts ==
    ASSUME WorkInv, NEW i \in Invocations, NEW st \in JobStates, SetJob(i, st)
    PROVE  \E q \in Jobs : /\ q.st = st /\ q.pods = job[i].pods
                           /\ job' = [job EXCEPT ![i] = q]
<1> DEFINE q == [job[i] EXCEPT !.st = st, !.errs = 0]
<1>1. job[i] \in Jobs /\ job \in [Invocations -> Jobs]
  BY DEF WorkInv, WorkTypes
<1>2. q \in Jobs /\ q.st = st /\ q.pods = job[i].pods
  BY <1>1, Numbers DEF Jobs
<1>3. job' = [job EXCEPT ![i] = q]
  BY <1>1 DEF SetJob
<1> QED BY <1>2, <1>3

(* What a Job that exists goes by.                                         *)
LEMMA JobFacts ==
    ASSUME WorkInv, NEW i \in Invocations, job[i].st # "none"
    PROVE  /\ inv[i] \notin {"new", "create"} /\ job[i].pods = 1 /\ job[i] \in Jobs
           /\ work[i] \in Terminal \cup {"none", "active"} /\ submits[i] \in {0, 1}
           /\ job[i].st = "submit" => work[i] = "none" /\ submits[i] = 0
           /\ work = [work EXCEPT ![i] = work[i]] /\ submits = [submits EXCEPT ![i] = submits[i]]
           /\ job = [job EXCEPT ![i] = job[i]]
<1>1. submits[i] \in {0, 1}
  <2>1. submits[i] \in 0..1 + BackoffLimit
    BY DEF WorkInv, WorkTypes
  <2> QED BY <2>1 DEF BackoffLimit
<1> QED BY <1>1 DEF WorkInv, WorkTypes, JobInv

(* A step of the dispatcher or the provider: the Job of one invocation is  *)
(* in a state that fits its work, and work that ended stays as it is.      *)
LEMMA WorkMoves ==
    ASSUME WorkInv, NEW i \in Invocations, job[i].st # "none",
           NEW q \in Jobs, q.st \notin {"none", "submit"}, q.pods = 1,
           job' = [job EXCEPT ![i] = q],
           NEW w \in Terminal \cup {"none", "active"}, work' = [work EXCEPT ![i] = w],
           NEW n \in {0, 1}, submits' = [submits EXCEPT ![i] = n],
           work[i] \in Terminal => w = work[i],
           q.st = "write" => w \in Terminal,
           q.st = "succeeded" => w = "COMPLETED",
           UNCHANGED <<inv, code, out, restarted, cm, short, usage>>
    PROVE  WorkInv'
<1>1. WorkTypes'
  BY Numbers DEF WorkInv, WorkTypes
<1>2. JobInv'
  BY DEF WorkInv, WorkTypes, JobInv
<1>3. ResultInv' /\ AnswerInv'
  BY DEF WorkInv, WorkTypes, ResultInv, AnswerInv, Terminal
<1> QED BY <1>1, <1>2, <1>3 DEF WorkInv

(* A step of a dispatcher that leaves the ConfigMaps alone keeps it.       *)
LEMMA JobMoves ==
    ASSUME WorkInv, NEW i \in Invocations, job[i].st # "none",
           NEW q \in Jobs, q.st \notin {"none", "submit"}, q.pods = 1,
           job' = [job EXCEPT ![i] = q], UNCHANGED <<work, submits>>,
           q.st = "write" => work[i] \in Terminal,
           q.st = "succeeded" => work[i] = "COMPLETED",
           UNCHANGED <<inv, code, out, restarted, cm, short, usage>>
    PROVE  WorkInv'
<1>1. /\ work' = [work EXCEPT ![i] = work[i]] /\ work[i] \in Terminal \cup {"none", "active"}
      /\ submits' = [submits EXCEPT ![i] = submits[i]] /\ submits[i] \in {0, 1}
  BY JobFacts
<1>2. UNCHANGED <<inv, code, out, restarted, cm, short, usage>>
  OBVIOUS
<1> QED BY <1>1, <1>2, WorkMoves

(* The work goes on as it is, or was submitted now.                        *)
LEMMA DispatcherWork ==
    ASSUME WorkInv, NEW i \in Invocations, Dispatcher(i)
    PROVE  WorkInv'
<1>1. /\ job[i].st # "none"
      /\ UNCHANGED <<inv, code, out, restarted, short, usage>>
  BY DEF Dispatcher, Submit, SubmitFails, StatusOf, StatusFails, Terminate,
         writeResultConfigMap, JobExpires, frontend
<1>2. /\ {"submit", "poll", "write", "succeeded", "failed", "expired"} \subseteq JobStates
      /\ Terminal \subseteq Terminal \cup {"none", "active"}
      /\ "active" \in Terminal \cup {"none", "active"} /\ "active" \notin Terminal
      /\ "none" \notin Terminal /\ "CANCELLED" \in Terminal
  BY DEF JobStates, Terminal
<1>3. CASE Submit(i)
  <2>1. PICK q \in Jobs : q.st = "poll" /\ q.pods = 1 /\ job' = [job EXCEPT ![i] = q]
    BY <1>1, <1>2, <1>3, SetJobFacts, JobFacts DEF Submit
  <2>2. work[i] = "none" /\ submits[i] = 0
    BY <1>1, <1>3, JobFacts DEF Submit
  <2>3. /\ work' = [work EXCEPT ![i] = "active"] /\ submits' = [submits EXCEPT ![i] = 1]
        /\ UNCHANGED cm
    BY <1>3, <2>2 DEF Submit
  <2> QED BY <1>1, <1>2, <2>1, <2>2, <2>3, WorkMoves
<1>4. CASE SubmitFails(i)
  <2>1. PICK q \in Jobs : q.st = "failed" /\ q.pods = 1 /\ job' = [job EXCEPT ![i] = q]
    BY <1>1, <1>4, OnePod DEF SubmitFails
  <2>2. PICK w \in {"none", "active"}, n \in {0, 1} :
          work' = [work EXCEPT ![i] = w] /\ submits' = [submits EXCEPT ![i] = n]
    BY <1>1, <1>4, JobFacts DEF SubmitFails
  <2>3. work[i] = "none" /\ UNCHANGED cm
    BY <1>1, <1>4, JobFacts DEF SubmitFails
  <2> QED BY <1>1, <1>2, <2>1, <2>2, <2>3, WorkMoves
<1>5. CASE StatusOf(i)
  <2> DEFINE st == IF work[i] \in Terminal THEN "write" ELSE "poll"
  <2>1. SetJob(i, st) /\ UNCHANGED <<work, cm, submits>>
    BY <1>5 DEF StatusOf
  <2>2. PICK q \in Jobs : q.st = st /\ q.pods = 1 /\ job' = [job EXCEPT ![i] = q]
    BY <1>1, <1>2, <2>1, SetJobFacts, JobFacts
  <2> QED BY <1>1, <2>1, <2>2, JobMoves
<1>6. CASE StatusFails(i)
  <2>1. UNCHANGED <<work, cm, submits>> /\ job[i].st = "poll"
    BY <1>6 DEF StatusFails
  <2>2. CASE GiveUp(job[i].errs + 1)
    <3>1. PICK q \in Jobs : q.st = "failed" /\ q.pods = 1 /\ job' = [job EXCEPT ![i] = q]
      BY <1>1, <1>6, <2>2, OnePod DEF StatusFails
    <3> QED BY <1>1, <2>1, <3>1, JobMoves
  <2>3. CASE ~GiveUp(job[i].errs + 1)
    <3> DEFINE q == [job[i] EXCEPT !.errs = @ + 1]
    <3>1. q \in Jobs
      BY <1>1, <2>3, JobFacts, GPUAssumption DEF GPUAssumption, GiveUp, Jobs
    <3>2. q.st = "poll" /\ q.pods = 1
      BY <1>1, <2>1, JobFacts DEF Jobs
    <3>3. job' = [job EXCEPT ![i] = q]
      BY <1>6, <2>3 DEF StatusFails, WorkInv, WorkTypes
    <3> HIDE DEF q
    <3> QED BY <1>1, <2>1, <3>1, <3>2, <3>3, JobMoves
  <2> QED BY <2>2, <2>3
<1>7. CASE Terminate(i)
  <2>1. PICK q \in Jobs : q.st = "failed" /\ q.pods = 1 /\ job' = [job EXCEPT ![i] = q]
    BY <1>1, <1>7, OnePod DEF Terminate
  <2>2. PICK w \in Terminal \cup {"none", "active"} :
          /\ work' = [work EXCEPT ![i] = w]
          /\ work[i] \in Terminal => w = work[i]
    BY <1>1, <1>2, <1>7, JobFacts DEF Terminate
  <2>3. /\ UNCHANGED cm
        /\ submits' = [submits EXCEPT ![i] = submits[i]] /\ submits[i] \in {0, 1}
    BY <1>1, <1>7, JobFacts DEF Terminate
  <2> QED BY <1>1, <1>2, <2>1, <2>2, <2>3, WorkMoves
<1>8. CASE writeResultConfigMap(i)
  <2>1. work[i] \in Terminal /\ short[i] \in Invocations /\ UNCHANGED <<work, submits>>
    BY <1>8, UsageType DEF writeResultConfigMap, WorkInv, JobInv
  <2>2. PICK q \in Jobs : /\ q.st \in {"succeeded", "failed"} /\ q.pods = 1
                          /\ q.st = "succeeded" => work[i] = "COMPLETED"
                          /\ job' = [job EXCEPT ![i] = q]
    <3>1. CASE Succeeded(i) /\ SetJob(i, "succeeded")
      BY <1>1, <1>2, <1>8, <3>1, SetJobFacts, JobFacts DEF writeResultConfigMap, Succeeded
    <3>2. CASE PodFails(i)
      BY <1>1, <1>8, <3>2, OnePod DEF writeResultConfigMap
    <3> QED BY <1>8, <3>1, <3>2 DEF writeResultConfigMap
  <2>3. CASE UNCHANGED cm
    BY <1>1, <2>1, <2>2, <2>3, JobMoves
  <2>4. CASE cm' = [cm EXCEPT ![short[i]] = [of |-> i, state |-> work[i]]]
    <3>1. [of |-> i, state |-> work[i]] \in Results
      BY <2>1, Numbers DEF Results
    <3>2. WorkTypes'
      BY <1>1, <2>1, <2>2, <2>4, <3>1 DEF WorkInv, WorkTypes
    <3>3. JobInv'
      BY <1>1, <2>1, <2>2, JobFacts DEF WorkInv, WorkTypes, JobInv
    <3>4. ResultInv' /\ AnswerInv'
      BY <1>1, <2>1, <2>4 DEF WorkInv, WorkTypes, ResultInv, AnswerInv
    <3> QED BY <3>2, <3>3, <3>4 DEF WorkInv
  <2> QED BY <1>8, <2>3, <2>4 DEF writeResultConfigMap
<1>9. CASE JobExpires(i)
  <2>1. PICK q \in Jobs : q.st = "expired" /\ q.pods = 1 /\ job' = [job EXCEPT ![i] = q]
    BY <1>1, <1>2, <1>9, SetJobFacts, JobFacts DEF JobExpires
  <2>2. UNCHANGED <<work, cm, submits>>
    BY <1>9 DEF JobExpires
  <2> QED BY <1>1, <2>1, <2>2, JobMoves
<1> QED BY <1>3, <1>4, <1>5, <1>6, <1>7, <1>8, <1>9 DEF Dispatcher

(* The provider ends work that is active.                                  *)
LEMMA ProviderWork ==
    ASSUME WorkInv, NEW i \in Invocations, NEW state \in Terminal, Provider(i, state)
    PROVE  WorkInv'
<1>1. /\ work[i] = "active" /\ work[i] \notin Terminal
      /\ work' = [work EXCEPT ![i] = state]
      /\ UNCHANGED <<inv, code, out, restarted, job, cm, submits, short, usage>>
  BY DEF Provider, frontend, Terminal
<1>2. job[i].st # "none"
  BY <1>1 DEF WorkInv, JobInv
<1>3. /\ job' = [job EXCEPT ![i] = job[i]] /\ job[i] \in Jobs /\ job[i].pods = 1
      /\ submits' = [submits EXCEPT ![i] = submits[i]] /\ submits[i] \in {0, 1}
  BY <1>1, <1>2, JobFacts
<1>4. job[i].st \notin {"none", "submit", "succeeded"} /\ state \in Terminal \cup {"none", "active"}
  BY <1>1 DEF WorkInv, JobInv
<1> QED BY <1>1, <1>2, <1>3, <1>4, WorkMoves
-----------------------------------------------------------------------------
(* The rate.                                                               *)

RateOK == RateTypes /\ RateInv

(* The invocations are finitely many, and so is any set of them.           *)
LEMMA Counting ==
    ASSUME NEW S \in SUBSET Invocations
    PROVE  /\ IsFiniteSet(S) /\ Cardinality(S) \in Nat /\ Cardinality(S) <= MaxInvocations
           /\ \A T \in SUBSET S : Cardinality(T) <= Cardinality(S)
<1>1. IsFiniteSet(Invocations) /\ Cardinality(Invocations) = MaxInvocations
  BY Numbers, FS_Interval DEF Invocations
<1>2. IsFiniteSet(S) /\ Cardinality(S) <= MaxInvocations
  BY <1>1, FS_Subset
<1> QED BY <1>2, FS_CardinalityType, FS_Subset

(* No more are in two sets together than in each.                          *)
LEMMA TwoSets ==
    ASSUME NEW S \in SUBSET Invocations, NEW T \in SUBSET Invocations, NEW n \in Nat,
           Cardinality(S) < n, Cardinality(T) <= n
    PROVE  Cardinality(S \cup T) < 2 * n
<1>1. /\ IsFiniteSet(S) /\ IsFiniteSet(T) /\ Cardinality(S) \in Nat
      /\ Cardinality(T) \in Nat /\ Cardinality(S \cap T) \in Nat
  BY Counting
<1>2. Cardinality(S \cup T) = Cardinality(S) + Cardinality(T) - Cardinality(S \cap T)
  BY <1>1, FS_Union
<1> QED BY <1>1, <1>2

(* What the clock, the window and the times of admission can be.           *)
LEMMA RateNumbers ==
    ASSUME RateTypes
    PROVE  /\ now \in Nat /\ now <= MaxTime /\ now # Never /\ now \in 0..Never
           /\ window.resetAt \in Nat /\ window.count \in Nat /\ window.is \in BOOLEAN
           /\ \A i \in Invocations : /\ admitted[i] \in Nat
                                     /\ admitted[i] # Never => admitted[i] <= MaxTime
           /\ Never = MaxTime + 1
BY Numbers DEF RateTypes, Never

(* A stretch that reaches the current window holds invocations of that     *)
(* window and earlier ones.                                                *)
LEMMA StretchOfWindow ==
    RateTypes /\ WindowInv /\ usage.limit \in Nat =>
      \A t \in 0..MaxTime : window.resetAt <= t + Interval + Interval
                              => Cardinality(InStretch(t)) < 2 * usage.limit
<1> SUFFICES ASSUME RateTypes, WindowInv, usage.limit \in Nat, NEW s \in 0..MaxTime,
                    window.resetAt <= s + Interval + Interval
             PROVE  Cardinality(InStretch(s)) < 2 * usage.limit
  OBVIOUS
<1>1. InStretch(s) \subseteq Earlier(s) \cup InWindow
  BY Numbers, RateNumbers DEF InStretch, Earlier, InWindow
<1>2. Cardinality(Earlier(s)) < usage.limit /\ Cardinality(InWindow) <= usage.limit
  BY DEF WindowInv
<1>3. /\ Earlier(s) \in SUBSET Invocations /\ InWindow \in SUBSET Invocations
      /\ Earlier(s) \cup InWindow \in SUBSET Invocations
  BY DEF Earlier, InWindow
<1>4. Cardinality(Earlier(s) \cup InWindow) < 2 * usage.limit
  BY <1>2, <1>3, TwoSets
<1>5. /\ Cardinality(InStretch(s)) <= Cardinality(Earlier(s) \cup InWindow)
      /\ Cardinality(InStretch(s)) \in Nat /\ Cardinality(Earlier(s) \cup InWindow) \in Nat
  BY <1>1, <1>3, Counting
<1> QED BY <1>4, <1>5

(* The part about the rate holds initially.                                *)
LEMMA InitRate == Init => RateOK
<1> SUFFICES ASSUME Init PROVE RateOK
  OBVIOUS
<1>1. usage \in Usages
  BY DEF Init
<1>2. usage.limit \in Nat \ {0}
  BY <1>1, GPUAssumption DEF GPUAssumption
<1>3. RateTypes
  BY Numbers DEF Init, RateTypes, NoWindow, Never
<1>4. ASSUME NEW s \in 0..MaxTime PROVE Cardinality(InStretch(s)) < 2 * usage.limit
  <2>1. InStretch(s) = {}
    BY DEF Init, InStretch
  <2> QED BY <2>1, <1>2, FS_EmptySet
<1> QED BY <1>3, <1>4 DEF Init, RateOK, RateInv, RateKept, InStretch, NoWindow

(* The limiter does not notice a step that leaves its state alone and      *)
(* begins no invocation anew.                                              *)
LEMMA RateUnmoved ==
    ASSUME RateOK, UNCHANGED <<now, window, admitted, usage>>,
           \A i \in Invocations : inv'[i] = "new" => inv[i] = "new"
    PROVE  RateOK'
<1>1. RateTypes' /\ RateKept'
  BY DEF RateOK, RateTypes, RateInv, RateKept
<1>2. window.is => WindowInv'
  BY DEF RateOK, RateInv, WindowInv, InWindow, Earlier
<1> QED BY <1>1, <1>2 DEF RateOK, RateInv

(* The clock admits nothing.                                               *)
LEMMA TickRate == RateOK /\ Tick => RateOK'
<1> SUFFICES ASSUME RateOK, Tick PROVE RateOK'
  OBVIOUS
<1>1. now' = now + 1 /\ now < MaxTime /\ UNCHANGED <<window, admitted, usage, inv>>
  BY DEF Tick
<1>2. RateTypes' /\ RateKept'
  BY <1>1, RateNumbers, Numbers DEF RateOK, RateTypes, RateInv, RateKept
<1>3. window.is => WindowInv'
  BY <1>1, RateNumbers, Numbers DEF RateOK, RateInv, WindowInv, InWindow, Earlier
<1> QED BY <1>1, <1>2, <1>3, RateNumbers DEF RateOK, RateInv

(* A restart forgets the window and what it admitted.                      *)
LEMMA RestartRate == RateOK /\ usage.limit \in Nat \ {0} /\ Restart => RateOK'
<1> SUFFICES ASSUME RateOK, usage.limit \in Nat \ {0}, Restart PROVE RateOK'
  OBVIOUS
<1>1. /\ window' = NoWindow /\ admitted' = [i \in Invocations |-> Never]
      /\ UNCHANGED <<now, usage>>
  BY DEF Restart
<1>2. RateTypes'
  BY <1>1, Numbers DEF RateOK, RateTypes, NoWindow, Never
<1>3. ASSUME NEW s \in 0..MaxTime
      PROVE Cardinality({i \in Invocations : admitted'[i] \in s..(s + Interval) \ {Never}})
              < 2 * usage.limit
  <2>1. {i \in Invocations : admitted'[i] \in s..(s + Interval) \ {Never}} = {}
    BY <1>1
  <2>2. Cardinality({}) = 0 /\ 0 < 2 * usage.limit
    BY FS_EmptySet
  <2> QED BY <2>1, <2>2
<1> QED BY <1>1, <1>2, <1>3 DEF RateOK, RateInv, RateKept, NoWindow
(* An invocation that is let through in the current window is one more of  *)
(* that window.                                                            *)
LEMMA AdmitInWindow ==
    ASSUME RateOK, usage.limit \in Nat, NEW i \in Invocations,
           admitted[i] = Never, ~Expired, HasRoom, Admit(i), UNCHANGED <<now, usage>>
    PROVE  RateTypes' /\ WindowInv' /\ window'.is
<1>1. /\ window.is /\ now <= window.resetAt /\ window.count < usage.limit
      /\ window' = [window EXCEPT !.count = @ + 1]
      /\ admitted' = [admitted EXCEPT ![i] = now]
  BY RateNumbers DEF RateOK, Expired, HasRoom, Admit
<1>2. /\ window'.is /\ window'.resetAt = window.resetAt /\ window'.count = window.count + 1
      /\ admitted'[i] = now /\ \A j \in Invocations \ {i} : admitted'[j] = admitted[j]
      /\ now # Never
  <2>1. /\ window \in [count : 0..MaxInvocations, resetAt : 0..MaxTime + Interval, is : BOOLEAN]
        /\ admitted \in [Invocations -> 0..Never]
    BY DEF RateOK, RateTypes
  <2>2. now # Never
    BY RateNumbers DEF RateOK
  <2> QED BY <1>1, <2>1, <2>2
<1>3. WindowInv
  BY <1>1 DEF RateOK, RateInv
<1>4. InWindow' = InWindow \cup {i} /\ i \notin InWindow
  <2>1. window.resetAt <= now + Interval
    BY <1>3 DEF WindowInv
  <2>2. i \in InWindow' /\ i \notin InWindow
    BY <1>2, <2>1 DEF InWindow
  <2>3. \A j \in Invocations \ {i} : j \in InWindow' <=> j \in InWindow
    BY <1>2 DEF InWindow
  <2> QED BY <2>2, <2>3 DEF InWindow
<1>5. \A s \in 0..MaxTime : Earlier(s)' = Earlier(s)
  <2> SUFFICES ASSUME NEW s \in 0..MaxTime PROVE Earlier(s)' = Earlier(s)
    OBVIOUS
  <2>1. i \notin Earlier(s) /\ i \notin Earlier(s)'
    <3>1. window.resetAt <= now + Interval
      BY <1>3 DEF WindowInv
    <3>2. ~(now + Interval < window.resetAt)
      BY <3>1, RateNumbers, Numbers DEF RateOK
    <3> QED BY <3>2, <1>2 DEF Earlier
  <2> QED BY <2>1, <1>2 DEF Earlier
<1>6. Cardinality(InWindow') = Cardinality(InWindow) + 1 /\ Cardinality(InWindow') <= MaxInvocations
  <2>1. InWindow \in SUBSET Invocations /\ InWindow' \in SUBSET Invocations
    BY <1>4 DEF InWindow
  <2> QED BY <1>4, <2>1, Counting, FS_AddElement
<1>7. window'.count = Cardinality(InWindow') /\ window'.count <= usage.limit
  BY <1>1, <1>2, <1>3, <1>6, RateNumbers DEF RateOK, WindowInv
<1>8. WindowInv'
  <2>1. UNCHANGED <<now, usage>>
    OBVIOUS
  <2>2. \A s \in 0..MaxTime : window'.resetAt <= s + Interval + Interval
                                => Cardinality(Earlier(s)') < usage'.limit
    BY <1>2, <1>3, <1>5, <2>1 DEF WindowInv
  <2>3. \E f \in Invocations : admitted'[f] # Never /\ admitted'[f] + Interval = window'.resetAt
    <3>1. PICK f \in Invocations : admitted[f] # Never /\ admitted[f] + Interval = window.resetAt
      BY <1>3 DEF WindowInv
    <3>2. f # i
      BY <3>1
    <3> QED BY <1>2, <3>1, <3>2
  <2> QED BY <1>2, <1>3, <1>7, <2>1, <2>2, <2>3 DEF WindowInv
<1>9. RateTypes'
  <2>1. window'.count \in 0..MaxInvocations
    BY <1>1, <1>2, <1>6, <1>7, RateNumbers, Numbers DEF RateOK
  <2>2. window' \in [count : 0..MaxInvocations, resetAt : 0..MaxTime + Interval, is : BOOLEAN]
    BY <1>1, <1>2, <2>1 DEF RateOK, RateTypes
  <2>3. now \in 0..Never
    BY RateNumbers DEF RateOK
  <2> QED BY <1>1, <2>2, <2>3 DEF RateOK, RateTypes
<1> QED BY <1>2, <1>8, <1>9

(* One that finds the window over, or none, begins the next; what a        *)
(* stretch that reaches it holds of earlier windows was let through in the *)
(* last of them.                                                           *)
LEMMA AdmitNewWindow ==
    ASSUME RateOK, usage.limit \in Nat \ {0}, NEW i \in Invocations,
           admitted[i] = Never, Expired, Admit(i), UNCHANGED <<now, usage>>
    PROVE  RateTypes' /\ WindowInv' /\ window'.is
<1>1. /\ window' = NewWindow /\ admitted' = [admitted EXCEPT ![i] = now]
      /\ ~window.is \/ now > window.resetAt
  BY DEF Expired, Admit
<1>2. /\ window'.is /\ window'.resetAt = now + Interval /\ window'.count = 1
      /\ admitted'[i] = now /\ \A j \in Invocations \ {i} : admitted'[j] = admitted[j]
      /\ now # Never
  <2>1. admitted \in [Invocations -> 0..Never]
    BY DEF RateOK, RateTypes
  <2>2. now # Never
    BY RateNumbers DEF RateOK
  <2> QED BY <1>1, <2>1, <2>2 DEF NewWindow
<1>3. ASSUME NEW j \in Invocations, admitted[j] # Never
      PROVE  /\ j # i /\ admitted[j] < now /\ window.is /\ admitted[j] \in Nat
             /\ now > window.resetAt
  BY <1>1, <1>3, RateNumbers DEF RateOK, RateInv
<1>4. InWindow' = {i}
  <2>1. i \in InWindow'
    BY <1>2, RateNumbers, Numbers DEF RateOK, InWindow
  <2>2. ASSUME NEW j \in Invocations \ {i} PROVE j \notin InWindow'
    <3>1. admitted[j] # Never => ~(now + Interval <= admitted[j] + Interval)
      BY <1>3, RateNumbers, Numbers DEF RateOK
    <3> QED BY <3>1, <1>2 DEF InWindow
  <2> QED BY <2>1, <2>2 DEF InWindow
<1>5. ASSUME NEW s \in 0..MaxTime, window'.resetAt <= s + Interval + Interval
      PROVE  Cardinality(Earlier(s)') < usage.limit
  <2>1. CASE ~window.is
    <3>1. Earlier(s)' = {}
      <4>1. ASSUME NEW j \in Invocations PROVE j \notin Earlier(s)'
        <5>1. j # i => admitted'[j] = Never
          BY <1>2, <1>3, <2>1
        <5>2. ~(now + Interval < now + Interval)
          BY RateNumbers, Numbers DEF RateOK
        <5> QED BY <5>1, <5>2, <1>2 DEF Earlier
      <4> QED BY <4>1 DEF Earlier
    <3> QED BY <3>1, FS_EmptySet
  <2>2. CASE window.is
    <3>1. WindowInv
      BY <2>2 DEF RateOK, RateInv
    <3> DEFINE First(f) == f \in Invocations /\ admitted[f] # Never /\ admitted[f] + Interval = window.resetAt
    <3>0. PICK f : First(f)
      BY <3>1 DEF WindowInv
    <3>2. Earlier(s)' \subseteq InWindow \ {f}
      <4> SUFFICES ASSUME NEW j \in Earlier(s)' PROVE j \in InWindow \ {f}
        OBVIOUS
      <4>1. j \in Invocations /\ admitted'[j] # Never /\ s <= admitted'[j]
        BY DEF Earlier
      <4>2. j # i
        <5>1. admitted'[j] + Interval < now + Interval
          BY <1>2 DEF Earlier
        <5> QED BY <5>1, <1>2, RateNumbers, Numbers DEF RateOK
      <4>3. admitted[j] # Never /\ s <= admitted[j]
        BY <4>1, <4>2, <1>2
      <4>4. now + Interval <= s + Interval + Interval
        BY <1>2, <1>5
      <4>5. window.resetAt <= admitted[j] + Interval
        BY <1>3, <4>1, <4>3, <4>4, RateNumbers, Numbers DEF RateOK
      <4>6. admitted[f] < s
        BY <1>3, <3>0, <4>4, RateNumbers, Numbers DEF RateOK
      <4>7. j # f
        BY <3>0, <4>3, <4>6, RateNumbers, Numbers DEF RateOK
      <4> QED BY <4>1, <4>3, <4>5, <4>7 DEF InWindow
    <3>3. Cardinality(InWindow) <= usage.limit
      BY <3>1 DEF WindowInv
    <3>4. f \in InWindow
      BY <3>0, RateNumbers, Numbers DEF InWindow, RateOK
    <3>5. /\ InWindow \ {f} \in SUBSET Invocations /\ InWindow \in SUBSET Invocations
          /\ Earlier(s)' \in SUBSET Invocations
      BY DEF Earlier, InWindow
    <3>6. /\ Cardinality(InWindow \ {f}) = Cardinality(InWindow) - 1
          /\ Cardinality(InWindow) \in Nat
      BY <3>4, <3>5, Counting, FS_RemoveElement
    <3>7. /\ Cardinality(Earlier(s)') <= Cardinality(InWindow \ {f})
          /\ Cardinality(Earlier(s)') \in Nat /\ Cardinality(InWindow \ {f}) \in Nat
      BY <3>2, <3>5, Counting
    <3> QED BY <3>3, <3>6, <3>7
  <2> QED BY <2>1, <2>2
<1>6. WindowInv'
  <2>1. UNCHANGED <<now, usage>>
    OBVIOUS
  <2>2. Cardinality(InWindow') = 1
    BY <1>4, FS_Singleton
  <2>3. window'.resetAt <= now' + Interval
    BY <1>2, <2>1, RateNumbers, Numbers DEF RateOK
  <2>4. \E f \in Invocations : admitted'[f] # Never /\ admitted'[f] + Interval = window'.resetAt
    BY <1>2
  <2>5. \A s \in 0..MaxTime : window'.resetAt <= s + Interval + Interval
                                => Cardinality(Earlier(s)') < usage'.limit
    BY <1>5, <2>1
  <2>6. window'.count = Cardinality(InWindow') /\ window'.count <= usage'.limit
    BY <1>2, <2>1, <2>2
  <2> QED BY <2>3, <2>4, <2>5, <2>6 DEF WindowInv
<1>7. RateTypes'
  <2>1. 1 \in 0..MaxInvocations /\ now + Interval \in 0..MaxTime + Interval /\ now \in 0..Never
    BY RateNumbers, Numbers DEF RateOK, Invocations
  <2> QED BY <1>1, <2>1 DEF RateOK, RateTypes, NewWindow
<1> QED BY <1>2, <1>6, <1>7

(* However it is let through, the rate stays within bounds.                *)
LEMMA AdmitRate ==
    ASSUME RateOK, usage.limit \in Nat \ {0}, NEW i \in Invocations,
           inv[i] = "new", HasRoom, Admit(i), UNCHANGED <<now, usage>>,
           inv'[i] # "new", \A j \in Invocations \ {i} : inv'[j] = inv[j]
    PROVE  RateOK'
<1>1. admitted[i] = Never
  BY DEF RateOK, RateInv
<1>2. RateTypes' /\ WindowInv' /\ window'.is
  <2>1. UNCHANGED <<now, usage>>
    OBVIOUS
  <2> QED BY <1>1, <2>1, AdmitInWindow, AdmitNewWindow
<1>3. /\ admitted' = [admitted EXCEPT ![i] = now] /\ now # Never
      /\ admitted'[i] = now /\ \A j \in Invocations \ {i} : admitted'[j] = admitted[j]
  <2>1. admitted \in [Invocations -> 0..Never]
    BY DEF RateOK, RateTypes
  <2>2. now # Never
    BY RateNumbers DEF RateOK
  <2> QED BY <2>1, <2>2 DEF Admit
<1>4. /\ now <= window'.resetAt
      /\ window.is => window.resetAt <= window'.resetAt
  BY RateNumbers, Numbers DEF Admit, Expired, NewWindow, RateOK, RateInv, WindowInv, RateTypes
<1>5. \A j \in Invocations : /\ inv'[j] = "new" => admitted'[j] = Never
                             /\ admitted'[j] # Never => /\ admitted'[j] <= now'
                                                        /\ window'.is /\ admitted'[j] <= window'.resetAt
  BY <1>2, <1>3, <1>4, RateNumbers DEF RateOK, RateInv, RateTypes
<1>6. ASSUME NEW s \in 0..MaxTime PROVE Cardinality(InStretch(s)') < 2 * usage'.limit
  <2>1. usage' = usage /\ now' = now
    OBVIOUS
  <2>2. CASE window'.resetAt <= s + Interval + Interval
    <3>1. (RateTypes /\ WindowInv /\ usage.limit \in Nat =>
             \A t \in 0..MaxTime : window.resetAt <= t + Interval + Interval
                                     => Cardinality(InStretch(t)) < 2 * usage.limit)'
      BY StretchOfWindow, PTL
    <3> QED BY <1>2, <2>1, <2>2, <3>1
  <2>3. CASE ~(window'.resetAt <= s + Interval + Interval)
    <3>1. window'.resetAt <= now + Interval /\ window'.resetAt \in Nat
      BY <1>2, <2>1, Numbers DEF WindowInv, RateTypes
    <3>2. ~(now <= s + Interval)
      BY <2>3, <3>1, RateNumbers, Numbers DEF RateOK
    <3>3. now \notin s..(s + Interval)
      BY <3>2
    <3>4. InStretch(s)' = InStretch(s)
      BY <1>1, <1>3, <3>3 DEF InStretch
    <3> QED BY <3>4, <2>1 DEF RateOK, RateInv, RateKept, InStretch
  <2> QED BY <2>2, <2>3
<1>7. RateKept'
  BY <1>6 DEF RateKept, InStretch
<1> QED BY <1>2, <1>5, <1>7 DEF RateOK, RateInv
-----------------------------------------------------------------------------
(* The theorems.                                                           *)

(* What a step means to the limiter: an invocation is let through, or its  *)
(* state is left alone, or time passes or Function MS restarts.            *)
LEMMA StepRate ==
    ASSUME WorkInv, RateOK, [Next]_vars
    PROVE  RateOK'
<1>1. usage.limit \in Nat \ {0} /\ usage.limit \in Nat
  BY UsageType DEF WorkInv
<1>2. ASSUME NEW i \in Invocations, NEW pc \in {"create", "done"},
             inv[i] = "new", HasRoom, Admit(i), Become(i, pc), UNCHANGED <<now, usage>>
      PROVE  RateOK'
  <2>1. inv'[i] # "new" /\ \A j \in Invocations \ {i} : inv'[j] = inv[j]
    BY <1>2 DEF Become, WorkInv, WorkTypes
  <2> QED BY <1>1, <1>2, <2>1, AdmitRate
<1>3. ASSUME NEW i \in Invocations, NEW pc \in {"wait", "read", "done"}, Become(i, pc),
             UNCHANGED <<now, window, admitted, usage>>
      PROVE  RateOK'
  <2>1. \A j \in Invocations : inv'[j] = "new" => inv[j] = "new"
    BY <1>3 DEF Become, WorkInv, WorkTypes
  <2> QED BY <1>3, <2>1, RateUnmoved
<1>4. ASSUME UNCHANGED <<now, window, admitted, usage, inv>> PROVE RateOK'
  BY <1>4, RateUnmoved
<1>5. ASSUME NEW i \in Invocations, Handler(i) PROVE RateOK'
  <2>1. CASE Accept(i)
    BY <1>2, <2>1 DEF Accept, Arrives
  <2>2. CASE Refuse(i)
    BY <1>2, <2>2 DEF Refuse, Arrives, Answer
  <2>3. CASE TooMany(i) \/ CreateFails(i) \/ FailedOrTimedOut(i) \/ NoResultToRead(i)
    BY <1>3, <2>3 DEF TooMany, CreateFails, FailedOrTimedOut, NoResultToRead, Answer
  <2>4. CASE createDispatcherJob(i)
    BY <1>3, <2>4 DEF createDispatcherJob, Answer
  <2>5. CASE JobSucceeded(i)
    BY <1>3, <2>5 DEF JobSucceeded
  <2>6. CASE readAndCleanupResult(i)
    BY <1>3, <2>6 DEF readAndCleanupResult, Answer
  <2> QED BY <1>5, <2>1, <2>2, <2>3, <2>4, <2>5, <2>6 DEF Handler
<1>6. ASSUME NEW i \in Invocations, Dispatcher(i) PROVE RateOK'
  BY <1>4, <1>6 DEF Dispatcher, Submit, SubmitFails, StatusOf, StatusFails, Terminate,
                    writeResultConfigMap, JobExpires, frontend
<1>7. ASSUME NEW i \in Invocations, NEW state \in Terminal, Provider(i, state) PROVE RateOK'
  BY <1>4, <1>7 DEF Provider, frontend
<1>8. CASE UNCHANGED vars
  BY <1>4, <1>8 DEF vars, frontend
<1> QED BY <1>1, <1>5, <1>6, <1>7, <1>8, TickRate, RestartRate DEF Next

(* Every step keeps what is known of the work.                             *)
LEMMA StepWork == WorkInv /\ [Next]_vars => WorkInv'
<1> SUFFICES ASSUME WorkInv, [Next]_vars PROVE WorkInv'
  OBVIOUS
<1>1. CASE UNCHANGED vars \/ Tick
  <2>1. UNCHANGED <<inv, code, out, restarted, job, work, cm, submits, short, usage>>
    BY <1>1 DEF vars, frontend, backend, Tick
  <2> QED BY <2>1 DEF WorkInv, WorkTypes, JobInv, ResultInv, AnswerInv
<1> QED BY <1>1, HandlerWork, DispatcherWork, ProviderWork, RestartWork DEF Next

(* The two parts make up the inductive invariant.                          *)
LEMMA Parts == IInv <=> WorkInv /\ RateOK
BY TypesSplit DEF IInv, WorkInv, RateOK

(* Every reachable state satisfies the inductive invariant.                *)
THEOREM Invariance == Spec => []IInv
<1>1. Init => IInv
  BY InitWork, InitRate, Parts
<1>2. IInv /\ [Next]_vars => IInv'
  <2>1. (IInv <=> WorkInv /\ RateOK)'
    BY Parts, PTL
  <2> QED BY Parts, StepWork, StepRate, <2>1
<1> QED BY <1>1, <1>2, PTL DEF Spec

(* Every variable keeps its type: no Job has a second pod and the window   *)
(* never counts more than there are invocations.                           *)
THEOREM TypeCorrect == Spec => []TypeOK
<1>1. IInv => TypeOK
  BY DEF IInv
<1> QED BY <1>1, Invariance, PTL

(* However submissions, status checks, ConfigMap writes, timeouts,         *)
(* evictions and restarts interleave, and however many invocations share a *)
(* short id: each is billed at most once, and answered with success only   *)
(* if the provider completed it.                                           *)
THEOREM BilledOnce == Spec => []BilledOnceAnsweredTruly
<1>1. IInv => BilledOnceAnsweredTruly
  <2> SUFFICES ASSUME IInv, NEW i \in Invocations
               PROVE  /\ submits[i] <= 1
                      /\ code[i] = 200 => /\ work[i] = "COMPLETED" /\ short[out[i].of] = short[i]
                                          /\ out[i].of = i => out[i].state = "COMPLETED"
    BY DEF BilledOnceAnsweredTruly
  <2>1. submits \in [Invocations -> 0..1 + BackoffLimit]
    BY DEF IInv, TypeOK
  <2>2. submits[i] <= 1
    BY <2>1 DEF BackoffLimit
  <2> QED BY <2>2 DEF IInv, AnswerInv
<1> QED BY <1>1, Invariance, PTL

(* A result is mistaken for another's only within one short id: where no   *)
(* other invocation has it, an answer with success is the invocation's own *)
(* completed output.                                                       *)
OwnResult ==
    \A i \in Invocations :
        (code[i] = 200 /\ \A j \in Invocations \ {i} : short[j] # short[i])
            => out[i] = [of |-> i, state |-> "COMPLETED"]

(* Such an answer never carries the output of another invocation.          *)
THEOREM AnsweredWithOwnResult == Spec => []OwnResult
<1>1. IInv => OwnResult
  <2> SUFFICES ASSUME IInv, NEW i \in Invocations, code[i] = 200,
                      \A j \in Invocations \ {i} : short[j] # short[i]
               PROVE  out[i] = [of |-> i, state |-> "COMPLETED"]
    BY DEF OwnResult
  <2>1. out[i].of = i /\ out[i].state = "COMPLETED"
    BY DEF IInv, AnswerInv
  <2>2. out[i] \in Results
    BY DEF IInv, TypeOK, Results
  <2> QED BY <2>1, <2>2 DEF Results
<1> QED BY <1>1, Invariance, PTL

(* Every stretch of the limiter's interval sees less than twice its limit. *)
THEOREM RateIsKept == Spec => []RateKept
<1>1. IInv => RateKept
  BY DEF IInv, RateInv
<1> QED BY <1>1, Invariance, PTL

-----------------------------------------------------------------------------
(* The cluster objects of a built function.                                *)
GPUSteps == {"gpuRoute", "gpuGrant", "gpuTimeout"}
ClusterSteps == {"service", "consumer", "autoscaling", "route"}

(* The objects whose turn is yet to come in a reconcile of spec s that is  *)
(* about to do step pc.                                                    *)
Ahead(pc, s) ==
    CASE pc \in {"build", "workload"} -> Objects
      [] pc = "gpuRoute" -> {"gpuRoute", "gpuGrant", "gpuTimeout"}
      [] pc = "gpuGrant" -> {"gpuGrant", "gpuTimeout"}
      [] pc = "gpuTimeout" -> {"gpuTimeout"}
      [] pc = "service" -> Objects \ {"deployment"}
      [] pc = "consumer" -> Objects \ {"deployment", "service"}
      [] pc = "autoscaling" -> Autoscalers \cup Routes
      [] pc = "route" -> Routes
      [] OTHER -> {}

(* The worker's copy is the function as it is or was, and a reconcile      *)
(* takes the path of its spec.                                             *)
CopyInv ==
    /\ op.fn.gen <= fn.gen
    /\ op.fn.gen = fn.gen => op.fn = fn
    /\ op.pc \in GPUSteps => op.fn.spec.gpu
    /\ op.pc \in ClusterSteps => ~op.fn.spec.gpu

(* What its spec needs is there, and nothing that is not accounted for,    *)
(* but for the objects ahead.                                              *)
StepsInv ==
    op.pc # "idle" =>
      LET s == op.fn.spec
      IN  /\ Needs(s) \subseteq objs \cup Ahead(op.pc, s)
          /\ objs \subseteq Needs(s) \cup LeftBehind(s)
                              \cup missed \cup Ahead(op.pc, s)

(* Only the current function is reported Ready, and then the worker        *)
(* repeats what it did, and does not build.                                *)
ReadyInv ==
    /\ status.ready <= fn.gen
    /\ ReportedReady => op.fn = fn
    /\ op.pc = "build" /\ op.fn = fn => NeedsBuild
    /\ ReadyIsComplete /\ LeftoversAccounted

WorkloadInv == WorkloadTypeOK /\ CopyInv /\ StepsInv /\ ReadyInv

(* A step of the worker: it deletes what is stale, but for what a delete   *)
(* leaves behind unnoticed, provides what is new, and goes on to step pc.  *)
Does(stale, new, pc) ==
    /\ \E left \in SUBSET (objs \cap stale) :
         /\ objs' = (objs \ stale) \cup left \cup new
         /\ missed' = (missed \ (stale \cup new)) \cup left
    /\ op' = [op EXCEPT !.pc = pc]
    /\ UNCHANGED <<fn, status>>

(* It provides only what its spec s needs; what is needed is neither       *)
(* deleted nor passed over, except that it may be ahead; and what is       *)
(* passed over and not needed is deleted, or is left behind on purpose.    *)
Fits(stale, new, pc, s) ==
    LET N == Needs(s)
    IN  /\ new \subseteq N
        /\ N \cap (stale \cup Ahead(op.pc, s)) \subseteq new \cup Ahead(pc, s)
        /\ Ahead(op.pc, s) \subseteq N \cup LeftBehind(s) \cup stale \cup Ahead(pc, s)
        /\ N \cap stale \subseteq new \cup {"gpuRoute"}
        /\ pc \in GPUSteps => s.gpu
        /\ pc \in ClusterSteps => ~s.gpu
        /\ pc # "build"

(* What such a step does to the objects, those ahead before it being A and *)
(* those ahead after it B.                                                 *)
LEMMA ObjectsStep ==
    ASSUME NEW N, NEW L, NEW A, NEW B, NEW stale, NEW new, NEW left \in SUBSET (objs \cap stale),
           objs' = (objs \ stale) \cup left \cup new,
           missed' = (missed \ (stale \cup new)) \cup left,
           N \subseteq objs \cup A, objs \subseteq N \cup L \cup missed \cup A,
           new \subseteq N, N \cap (stale \cup A) \subseteq new \cup B,
           A \subseteq N \cup L \cup stale \cup B
    PROVE  N \subseteq objs' \cup B /\ objs' \subseteq N \cup L \cup missed' \cup B
<1>1. N \subseteq objs' \cup B
  OBVIOUS
<1>2. ASSUME NEW x \in objs' PROVE x \in N \cup L \cup missed' \cup B
  OBVIOUS
<1> QED BY <1>1, <1>2

(* The values the definitions take for each spec.                          *)
LEMMA NeedsFacts ==
    ASSUME NEW s \in Specs
    PROVE  /\ s.event \in {"none", "silent", "subjects"}
           /\ s.gpu => /\ Needs(s) = {"gpuRoute", "gpuGrant", "gpuTimeout"}
                       /\ LeftBehind(s) = Autoscalers \cup {"consumer"}
           /\ ~s.gpu => /\ \A x : x \in Needs(s) <=>
                                    \/ x \in {"deployment", "service", "podRoute"} /\ s.kind # "heavy-job"
                                    \/ x = "consumer" /\ s.event = "subjects"
                                    \/ x \in Autoscaler(s)
                        /\ LeftBehind(s) = {"gpuGrant", "gpuTimeout"}
                             \cup (IF s.event = "silent" THEN {"consumer"} ELSE {})
           /\ Autoscaler(s) \subseteq Autoscalers
<1>1. s.event \in {"none", "silent", "subjects"}
  BY DEF Specs
<1>2. Autoscaler(s) \subseteq Autoscalers
  BY <1>1 DEF Autoscaler, Autoscalers
<1>3. CASE s.gpu
  BY <1>1, <1>2, <1>3 DEF Needs, LeftBehind
<1>4. CASE ~s.gpu
  <2>1. LeftBehind(s) = {"gpuGrant", "gpuTimeout"}
                          \cup (IF s.event = "silent" THEN {"consumer"} ELSE {})
    BY <1>4 DEF LeftBehind
  <2>2. ASSUME NEW x
        PROVE  x \in Needs(s) <=>
                 \/ x \in {"deployment", "service", "podRoute"} /\ s.kind # "heavy-job"
                 \/ x = "consumer" /\ s.event = "subjects"
                 \/ x \in Autoscaler(s)
    BY <1>4 DEF Needs, HasDeployment, HasHTTP
  <2> QED BY <1>1, <1>2, <1>4, <2>1, <2>2
<1> QED BY <1>3, <1>4

(* Every step of the worker on the objects is of this form.                *)
LEMMA StepFits ==
    ASSUME WorkloadInv, ObjectStep
    PROVE  \E stale, new \in SUBSET Objects, pc \in PCs :
             Does(stale, new, pc) /\ Fits(stale, new, pc, op.fn.spec)
<1> DEFINE s == op.fn.spec
<1>1. /\ s \in Specs /\ missed \subseteq objs
  BY NeedsFacts DEF WorkloadInv, WorkloadTypeOK, Fns
<1>2. ASSUME NEW stale \in SUBSET Objects, NEW new \in SUBSET Objects,
             NEW pc \in PCs, Fits(stale, new, pc, s),
             DropStale(stale, new) \/ Provide(new, stale),
             Goto(pc), UNCHANGED <<fn, status>>
      PROVE  \E stale2, new2 \in SUBSET Objects, pc2 \in PCs :
               Does(stale2, new2, pc2) /\ Fits(stale2, new2, pc2, s)
  <2>1. \E left \in SUBSET (objs \cap stale) :
          /\ objs' = (objs \ stale) \cup left \cup new
          /\ missed' = (missed \ (stale \cup new)) \cup left
    <3>1. CASE DropStale(stale, new)
      BY <3>1 DEF DropStale
    <3>2. CASE Provide(new, stale)
      <4>1. /\ {} \in SUBSET (objs \cap stale)
            /\ objs' = (objs \ stale) \cup {} \cup new
            /\ missed' = (missed \ (stale \cup new)) \cup {}
        BY <3>2 DEF Provide
      <4> QED BY <4>1
    <3> QED BY <1>2, <3>1, <3>2
  <2>2. Does(stale, new, pc)
    BY <1>2, <2>1 DEF Does, Goto
  <2>3. Fits(stale, new, pc, s)
    BY <1>2
  <2> WITNESS stale \in SUBSET Objects, new \in SUBSET Objects, pc \in PCs
  <2> QED BY <2>2, <2>3
<1> USE DEF Wanted, At
<1>3. /\ {"deployment"} \in SUBSET Objects /\ {"service"} \in SUBSET Objects
      /\ {"consumer"} \in SUBSET Objects /\ {} \in SUBSET Objects
      /\ {"gpuGrant"} \in SUBSET Objects /\ {"gpuTimeout"} \in SUBSET Objects
      /\ {"podRoute"} \in SUBSET Objects /\ {"gpuRoute"} \in SUBSET Objects
      /\ Routes \in SUBSET Objects
      /\ {"deployment", "service"} \cup Routes \in SUBSET Objects
      /\ Autoscaler(s) \in SUBSET Objects
      /\ Autoscalers \ Autoscaler(s) \in SUBSET Objects
      /\ GPUSteps \cup ClusterSteps \cup {"ready"} \subseteq PCs
  BY <1>1, NeedsFacts DEF Objects, Routes, GPUSteps, ClusterSteps, PCs
<1>4. CASE reconcileWorkload
  <2> DEFINE next == IF s.gpu THEN "gpuRoute" ELSE "service"
  <2>1. /\ op.pc = "workload" /\ Goto(next) /\ UNCHANGED <<fn, status>>
        /\ next \in PCs
    BY <1>3, <1>4 DEF reconcileWorkload, GPUSteps, ClusterSteps
  <2>2. CASE HasDeployment(s)
    <3>1. Fits({}, {"deployment"}, next, s)
      <4>1. ~s.gpu /\ s.kind # "heavy-job"
        BY <2>2 DEF HasDeployment
      <4> QED BY <1>1, <2>1, <4>1, NeedsFacts
              DEF Fits, Ahead, Objects, Routes, GPUSteps, ClusterSteps
    <3>2. Provide({"deployment"}, {})
      BY <1>4, <2>2 DEF reconcileWorkload
    <3> QED BY <1>2, <1>3, <2>1, <3>1, <3>2
  <2>3. CASE ~HasDeployment(s)
    <3>1. Fits({"deployment", "service"} \cup Routes, {}, next, s)
      <4>1. CASE s.gpu
        BY <1>1, <2>1, <4>1, NeedsFacts
           DEF Fits, Ahead, Objects, Routes, GPUSteps, ClusterSteps
      <4>2. CASE ~s.gpu
        <5>1. s.kind = "heavy-job"
          BY <2>3, <4>2 DEF HasDeployment
        <5> QED BY <1>1, <2>1, <4>2, <5>1, NeedsFacts
                DEF Fits, Ahead, Objects, Routes, Autoscalers,
                    GPUSteps, ClusterSteps
      <4> QED BY <4>1, <4>2
    <3>2. DropStale({"deployment", "service"} \cup Routes, {})
      BY <1>4, <2>3 DEF reconcileWorkload
    <3> QED BY <1>2, <1>3, <2>1, <3>1, <3>2
  <2> QED BY <2>2, <2>3
<1>5. CASE reconcileGPUHTTPRoute
  <2>1. /\ op.pc = "gpuRoute" /\ Goto("gpuGrant") /\ UNCHANGED <<fn, status>>
        /\ Provide({"gpuRoute"}, Routes)
    BY <1>5 DEF reconcileGPUHTTPRoute
  <2>2. Fits(Routes, {"gpuRoute"}, "gpuGrant", s)
    <3>1. s.gpu
      BY <2>1 DEF WorkloadInv, CopyInv, GPUSteps
    <3> QED BY <1>1, <2>1, <3>1, NeedsFacts
            DEF Fits, Ahead, Routes, GPUSteps, ClusterSteps
  <2> QED BY <1>2, <1>3, <2>1, <2>2 DEF GPUSteps
<1>6. CASE reconcileGPUReferenceGrant
  <2>1. /\ op.pc = "gpuGrant" /\ Goto("gpuTimeout") /\ UNCHANGED <<fn, status>>
        /\ Provide({"gpuGrant"}, {})
    BY <1>6 DEF reconcileGPUReferenceGrant
  <2>2. Fits({}, {"gpuGrant"}, "gpuTimeout", s)
    <3>1. s.gpu
      BY <2>1 DEF WorkloadInv, CopyInv, GPUSteps
    <3> QED BY <1>1, <2>1, <3>1, NeedsFacts DEF Fits, Ahead, GPUSteps, ClusterSteps
  <2> QED BY <1>2, <1>3, <2>1, <2>2 DEF GPUSteps
<1>7. CASE reconcileGPUBackendTrafficPolicy
  <2>1. /\ op.pc = "gpuTimeout" /\ Goto("ready") /\ UNCHANGED <<fn, status>>
        /\ Provide({"gpuTimeout"}, {})
    BY <1>7 DEF reconcileGPUBackendTrafficPolicy
  <2>2. Fits({}, {"gpuTimeout"}, "ready", s)
    <3>1. s.gpu
      BY <2>1 DEF WorkloadInv, CopyInv, GPUSteps
    <3> QED BY <1>1, <2>1, <3>1, NeedsFacts DEF Fits, Ahead, GPUSteps, ClusterSteps
  <2> QED BY <1>2, <1>3, <2>1, <2>2
<1>8. CASE reconcileFunctionService
  <2>1. /\ op.pc = "service" /\ Goto("consumer") /\ UNCHANGED <<fn, status>>
        /\ IF s.kind # "heavy-job" THEN Provide({"service"}, {})
                                   ELSE DropStale({"service"}, {})
    BY <1>8 DEF reconcileFunctionService, HasHTTP
  <2>2. ~s.gpu
    BY <2>1 DEF WorkloadInv, CopyInv, ClusterSteps
  <2>3. s.kind # "heavy-job" => Fits({}, {"service"}, "consumer", s)
    BY <1>1, <2>1, <2>2, NeedsFacts DEF Fits, Ahead, GPUSteps, ClusterSteps
  <2>4. s.kind = "heavy-job" => Fits({"service"}, {}, "consumer", s)
    BY <1>1, <2>1, <2>2, NeedsFacts
       DEF Fits, Ahead, Autoscalers, GPUSteps, ClusterSteps
  <2> QED BY <1>2, <1>3, <2>1, <2>3, <2>4 DEF ClusterSteps
<1>9. CASE reconcileNATSConsumer
  <2>1. /\ op.pc = "consumer" /\ Goto("autoscaling") /\ UNCHANGED <<fn, status>>
        /\ CASE s.event = "none" -> Provide({}, {"consumer"})
             [] s.event = "silent" -> UNCHANGED <<objs, missed>>
             [] s.event = "subjects" -> Provide({"consumer"}, {})
    BY <1>9 DEF reconcileNATSConsumer
  <2>2. ~s.gpu
    BY <2>1 DEF WorkloadInv, CopyInv, ClusterSteps
  <2>3. s.event = "subjects" => Fits({}, {"consumer"}, "autoscaling", s)
    BY <1>1, <2>1, <2>2, NeedsFacts
       DEF Fits, Ahead, Objects, Autoscalers, Routes, GPUSteps, ClusterSteps
  <2>4. s.event = "none" => Fits({"consumer"}, {}, "autoscaling", s)
    BY <1>1, <2>1, <2>2, NeedsFacts
       DEF Fits, Ahead, Objects, Autoscalers, Routes, GPUSteps, ClusterSteps
  <2>5. s.event = "silent" => Fits({}, {}, "autoscaling", s)
    BY <1>1, <2>1, <2>2, NeedsFacts
       DEF Fits, Ahead, Objects, Autoscalers, Routes, GPUSteps, ClusterSteps
  <2>6. s.event = "silent" => Provide({}, {})
    BY <2>1 DEF Provide
  <2>7. s.event \in {"none", "silent", "subjects"} /\ "autoscaling" \in PCs
    BY <1>1, NeedsFacts DEF PCs
  <2> DEFINE Done == \E stale, new \in SUBSET Objects, pc \in PCs :
                       Does(stale, new, pc) /\ Fits(stale, new, pc, s)
  <2>8. s.event = "subjects" => Done
    <3>1. s.event = "subjects" => Provide({"consumer"}, {})
      BY <2>1
    <3> QED BY <1>2, <1>3, <2>1, <2>3, <2>7, <3>1
  <2>9. s.event = "none" => Done
    <3>1. s.event = "none" => Provide({}, {"consumer"})
      BY <2>1
    <3> QED BY <1>2, <1>3, <2>1, <2>4, <2>7, <3>1
  <2>10. s.event = "silent" => Done
    BY <1>2, <1>3, <2>1, <2>5, <2>6, <2>7
  <2> QED BY <2>7, <2>8, <2>9, <2>10
<1>10. CASE reconcileAutoscaling
  <2>1. /\ op.pc = "autoscaling" /\ Goto("route") /\ UNCHANGED <<fn, status>>
        /\ DropStale(Autoscalers \ Autoscaler(s), Autoscaler(s))
    BY <1>10 DEF reconcileAutoscaling
  <2>2. ~s.gpu
    BY <2>1 DEF WorkloadInv, CopyInv, ClusterSteps
  <2>3. Fits(Autoscalers \ Autoscaler(s), Autoscaler(s), "route", s)
    BY <1>1, <2>1, <2>2, NeedsFacts
       DEF Fits, Ahead, Autoscalers, Routes, GPUSteps, ClusterSteps
  <2> QED BY <1>2, <1>3, <2>1, <2>3 DEF ClusterSteps
<1>11. CASE reconcileFunctionHTTPRoute
  <2>1. /\ op.pc = "route" /\ Goto("ready") /\ UNCHANGED <<fn, status>>
        /\ IF s.kind # "heavy-job" THEN Provide({"podRoute"}, Routes)
                                   ELSE DropStale(Routes, {})
    BY <1>11 DEF reconcileFunctionHTTPRoute, HasHTTP
  <2>2. ~s.gpu
    BY <2>1 DEF WorkloadInv, CopyInv, ClusterSteps
  <2>3. s.kind # "heavy-job" => Fits(Routes, {"podRoute"}, "ready", s)
    BY <1>1, <2>1, <2>2, NeedsFacts
       DEF Fits, Ahead, Autoscalers, Routes, GPUSteps, ClusterSteps
  <2>4. s.kind = "heavy-job" => Fits(Routes, {}, "ready", s)
    BY <1>1, <2>1, <2>2, NeedsFacts
       DEF Fits, Ahead, Autoscalers, Routes, GPUSteps, ClusterSteps
  <2> QED BY <1>2, <1>3, <2>1, <2>3, <2>4
<1> QED BY <1>4, <1>5, <1>6, <1>7, <1>8, <1>9, <1>10, <1>11 DEF ObjectStep

(* Such a step keeps the invariant, and what its spec needs but for the    *)
(* route of an external GPU function.                                      *)
LEMMA DoesKeeps ==
    ASSUME WorkloadInv, op.pc # "idle", NEW stale \in SUBSET Objects,
           NEW new \in SUBSET Objects, NEW pc \in PCs,
           Does(stale, new, pc), Fits(stale, new, pc, op.fn.spec)
    PROVE  /\ WorkloadInv'
           /\ Needs(op.fn.spec) \cap objs \subseteq objs' \cup {"gpuRoute"}
<1> DEFINE s == op.fn.spec
           N == Needs(s)
           L == LeftBehind(s)
<1>1. PICK left \in SUBSET (objs \cap stale) :
        /\ objs' = (objs \ stale) \cup left \cup new
        /\ missed' = (missed \ (stale \cup new)) \cup left
  BY DEF Does
<1>2. /\ op \in [pc : PCs, fn : Fns] /\ op' = [op EXCEPT !.pc = pc]
      /\ fn' = fn /\ status' = status
  BY DEF Does, WorkloadInv, WorkloadTypeOK
<1>3. op'.pc = pc /\ op'.fn = op.fn /\ op' \in [pc : PCs, fn : Fns]
  BY <1>2
<1>4. /\ new \subseteq N /\ N \cap stale \subseteq new \cup {"gpuRoute"}
      /\ N \cap (stale \cup Ahead(op.pc, s)) \subseteq new \cup Ahead(pc, s)
      /\ Ahead(op.pc, s) \subseteq N \cup L \cup stale \cup Ahead(pc, s)
      /\ pc \in GPUSteps => s.gpu
      /\ pc \in ClusterSteps => ~s.gpu
  BY DEF Fits
<1>5. WorkloadTypeOK'
  <2>1. objs' \subseteq Objects /\ missed' \subseteq objs'
    BY <1>1 DEF WorkloadInv, WorkloadTypeOK
  <2> QED BY <1>2, <1>3, <2>1 DEF WorkloadInv, WorkloadTypeOK
<1>6. CopyInv'
  BY <1>2, <1>3, <1>4 DEF WorkloadInv, CopyInv
<1>7. StepsInv'
  <2>1. N \subseteq objs \cup Ahead(op.pc, s) /\ objs \subseteq N \cup L \cup missed \cup Ahead(op.pc, s)
    BY DEF WorkloadInv, StepsInv
  <2>2. N \subseteq objs' \cup Ahead(pc, s) /\ objs' \subseteq N \cup L \cup missed' \cup Ahead(pc, s)
    <3> HIDE DEF N, L
    <3> QED BY <1>1, <1>4, <2>1, ObjectsStep
  <2>3. op'.fn.spec = s
    BY <1>3
  <2>4. /\ Needs(op'.fn.spec) = N /\ LeftBehind(op'.fn.spec) = L
        /\ Ahead(op'.pc, op'.fn.spec) = Ahead(pc, s)
    BY <1>3, <2>3
  <2> QED BY <2>2, <2>4 DEF StepsInv
<1>8. ReadyInv'
  <2>1. /\ status.ready <= fn.gen /\ (ReportedReady => op.fn = fn)
        /\ pc # "build" /\ (ReportedReady' <=> ReportedReady)
    BY <1>2 DEF WorkloadInv, ReadyInv, Fits, ReportedReady
  <2>2. CASE ~ReportedReady
    BY <1>2, <1>3, <2>1, <2>2 DEF ReadyInv, ReadyIsComplete, LeftoversAccounted
  <2>3. CASE ReportedReady
    <3> DEFINE R == {"gpuRoute"}
    <3>1. s = fn.spec
      BY <2>1, <2>3
    <3>2. N \ R \subseteq objs /\ objs \subseteq N \cup L \cup missed
      BY <2>3, <3>1 DEF WorkloadInv, ReadyInv, ReadyIsComplete, LeftoversAccounted
    <3>3. N \ R \subseteq objs'
      <4> HIDE DEF N
      <4> QED BY <1>1, <1>4, <3>2
    <3>4. objs' \subseteq N \cup L \cup missed'
      <4> HIDE DEF N, L
      <4>1. ASSUME NEW x \in objs' PROVE x \in N \cup L \cup missed'
        BY <1>1, <1>4, <3>2
      <4> QED BY <4>1
    <3>5. Needs(fn'.spec) = N /\ LeftBehind(fn'.spec) = L
      BY <1>2, <3>1
    <3>6. ReadyIsComplete' /\ LeftoversAccounted'
      <4> HIDE DEF N, L
      <4>1. status'.phase = "Ready" /\ status'.obs = fn'.gen
        BY <1>2, <2>3 DEF WorkloadInv, ReadyInv, ReadyIsComplete
      <4> QED BY <3>3, <3>4, <3>5, <4>1 DEF ReadyIsComplete, LeftoversAccounted
    <3> QED BY <1>2, <1>3, <2>1, <3>6 DEF ReadyInv
  <2> QED BY <2>2, <2>3
<1>9. N \cap objs \subseteq objs' \cup {"gpuRoute"}
  <2> HIDE DEF N
  <2> QED BY <1>1, <1>4
<1> QED BY <1>5, <1>6, <1>7, <1>8, <1>9 DEF WorkloadInv

(* A generation is a positive number.                                      *)
LEMMA GenFacts ==
    ASSUME WorkloadTypeOK
    PROVE  /\ fn.gen \in 1..MaxGen /\ op.fn.gen \in 1..MaxGen
           /\ fn.spec \in Specs /\ op.fn.spec \in Specs
           /\ fn \in Fns /\ op \in [pc : PCs, fn : Fns]
           /\ status.ready \in Nat /\ status.obs \in Nat
           /\ fn.gen \in Nat /\ op.fn.gen \in Nat /\ 0 < fn.gen
           /\ 0 \in 0..MaxGen /\ fn.gen \in 0..MaxGen
           /\ \A s \in Specs : Needs(s) \subseteq Objects
<1>1. ASSUME NEW s \in Specs PROVE Needs(s) \subseteq Objects
  <2>1. Autoscaler(s) \subseteq Objects
    BY NeedsFacts DEF Objects
  <2>2. CASE s.gpu
    BY <2>2, NeedsFacts DEF Objects, Routes
  <2>3. CASE ~s.gpu
    BY <2>1, <2>3, NeedsFacts DEF Objects, Routes
  <2> QED BY <2>2, <2>3
<1>2. /\ fn \in Fns /\ op \in [pc : PCs, fn : Fns]
      /\ status.ready \in 0..MaxGen /\ status.obs \in 0..MaxGen
  BY DEF WorkloadTypeOK, Statuses
<1>3. /\ fn.gen \in 1..MaxGen /\ op.fn.gen \in 1..MaxGen
      /\ fn.spec \in Specs /\ op.fn.spec \in Specs
  BY <1>2 DEF Fns
<1> QED BY <1>1, <1>2, <1>3, ParametersAssumption DEF ParametersAssumption

(* The invariant holds initially ...                                       *)
LEMMA WorkloadInitInv == WorkloadInit => WorkloadInv
<1> SUFFICES ASSUME WorkloadInit PROVE WorkloadInv
  OBVIOUS
<1>1. /\ fn \in [gen : {1}, spec : Specs]
      /\ status = [phase |-> "", obs |-> 0, image |-> FALSE, ready |-> 0]
      /\ op = [pc |-> "idle", fn |-> fn] /\ objs = {} /\ missed = {}
  BY DEF WorkloadInit
<1>2. fn \in Fns /\ fn.gen = 1 /\ status \in Statuses /\ status.ready = 0
  <2>1. 0 \in 0..MaxGen /\ 1 \in 1..MaxGen
    BY ParametersAssumption DEF ParametersAssumption
  <2>2. fn \in Fns /\ fn.gen = 1
    BY <1>1, <2>1 DEF Fns
  <2> QED BY <1>1, <2>1, <2>2 DEF Statuses
<1>3. op.pc = "idle" /\ op.fn = fn /\ op \in [pc : PCs, fn : Fns]
  BY <1>1, <1>2 DEF PCs
<1>4. WorkloadTypeOK
  BY <1>1, <1>2, <1>3 DEF WorkloadTypeOK
<1>5. CopyInv
  BY <1>2, <1>3 DEF CopyInv, GPUSteps, ClusterSteps
<1>6. StepsInv
  BY <1>3 DEF StepsInv
<1>7. ReadyInv
  BY <1>2, <1>3 DEF ReadyInv, ReadyIsComplete, LeftoversAccounted, ReportedReady
<1> QED BY <1>4, <1>5, <1>6, <1>7 DEF WorkloadInv

(* The steps that touch no object.                                         *)
LEMMA StartKeeps == WorkloadInv /\ Start => WorkloadInv'
<1> SUFFICES ASSUME WorkloadInv, Start PROVE WorkloadInv'
  OBVIOUS
<1>1. PICK pc \in {"build", "workload", "idle"} :
        /\ op' = [fn |-> fn, pc |-> pc]
        /\ pc = "build" => NeedsBuild
  BY DEF Start
<1>2. /\ fn' = fn /\ status' = status /\ objs' = objs /\ missed' = missed
      /\ op'.pc = pc /\ op'.fn = fn
  BY <1>1 DEF Start
<1>3. WorkloadTypeOK
  BY DEF WorkloadInv
<1>4. WorkloadTypeOK'
  BY <1>1, <1>2, <1>3, GenFacts DEF WorkloadTypeOK, PCs
<1>5. CopyInv'
  BY <1>2, <1>3, GenFacts DEF CopyInv, GPUSteps, ClusterSteps
<1>6. StepsInv'
  <2>1. Ahead("workload", fn.spec) = Objects /\ Ahead("build", fn.spec) = Objects
    BY DEF Ahead
  <2>2. Needs(fn.spec) \subseteq Objects /\ objs \subseteq Objects
    BY <1>3, GenFacts DEF WorkloadTypeOK
  <2>3. op'.fn.spec = fn.spec
    BY <1>2
  <2> QED BY <1>2, <2>1, <2>2, <2>3 DEF StepsInv
<1>7. ReadyInv'
  <2>1. ReadyIsComplete' /\ LeftoversAccounted'
    BY <1>2 DEF WorkloadInv, ReadyInv, ReadyIsComplete, LeftoversAccounted, ReportedReady
  <2> QED BY <1>1, <1>2, <2>1 DEF WorkloadInv, ReadyInv, NeedsBuild
<1> QED BY <1>4, <1>5, <1>6, <1>7 DEF WorkloadInv

(* What the status may become: as it was; not Ready; or Ready of the       *)
(* generation whose reconcile has nothing ahead.                           *)
LEMMA StatusStepWrites ==
    ASSUME WorkloadInv, StatusStep \/ Abandon
    PROVE  /\ op' = [op EXCEPT !.pc = "idle"]
           /\ fn' = fn /\ objs' = objs /\ missed' = missed
           /\ status' \in Statuses
           /\ \/ status' = status
              \/ status'.ready \in {status.ready, 0} /\ status'.ready # fn.gen
              \/ /\ op.pc = "ready" /\ op.fn = fn /\ status'.ready = fn.gen
                 /\ status'.phase = "Ready" /\ status'.obs = fn.gen
<1>1. /\ status \in Statuses /\ fn.gen \in 0..MaxGen /\ 0 \in 0..MaxGen /\ fn.gen # 0
  BY GenFacts DEF WorkloadInv, WorkloadTypeOK
<1>2. CASE reconcileBuild
  <2>1. op.fn = fn => ~ReportedReady
    <3>1. op.fn = fn => NeedsBuild
      BY <1>2 DEF reconcileBuild, At, WorkloadInv, ReadyInv
    <3>2. ReportedReady => status.phase = "Ready" /\ status.obs = fn.gen
      BY DEF WorkloadInv, ReadyInv, ReadyIsComplete
    <3>3. ~(fn.gen < fn.gen)
      BY GenFacts DEF WorkloadInv
    <3> QED BY <3>1, <3>2, <3>3 DEF NeedsBuild
  <2>2. CASE op.fn # fn
    BY <1>1, <1>2, <2>2 DEF reconcileBuild, WriteStatus, Goto
  <2>3. CASE op.fn = fn
    <3>1. status'.ready = status.ready /\ status' \in Statuses
      BY <1>1, <1>2, <2>3 DEF reconcileBuild, WriteStatus, Statuses
    <3> QED BY <1>2, <2>1, <2>3, <3>1 DEF reconcileBuild, Goto, ReportedReady
  <2> QED BY <2>2, <2>3
<1>3. CASE updateFunctionStatus
  BY <1>1, <1>3 DEF updateFunctionStatus, WriteStatus, Goto, At, Statuses
<1>4. CASE setFunctionFailed
  BY <1>1, <1>4 DEF setFunctionFailed, WriteStatus, Goto, Statuses
<1>5. CASE Abandon
  BY <1>1, <1>5 DEF Abandon, Goto
<1> QED BY <1>2, <1>3, <1>4, <1>5 DEF StatusStep

(* A reconcile ends: what it reports Ready is complete.                    *)
LEMMA EndKeeps ==
    ASSUME WorkloadInv, StatusStep \/ Abandon
    PROVE  WorkloadInv'
<1>1. /\ op' = [op EXCEPT !.pc = "idle"]
      /\ fn' = fn /\ objs' = objs /\ missed' = missed
      /\ status' \in Statuses
  BY StatusStepWrites
<1>2. WorkloadTypeOK
  BY DEF WorkloadInv
<1>3. op'.pc = "idle" /\ op'.fn = op.fn /\ op' \in [pc : PCs, fn : Fns]
  BY <1>1, <1>2, GenFacts DEF PCs
<1>4. WorkloadTypeOK'
  BY <1>1, <1>2, <1>3 DEF WorkloadTypeOK
<1>5. CopyInv'
  BY <1>1, <1>3 DEF WorkloadInv, CopyInv, GPUSteps, ClusterSteps
<1>6. StepsInv'
  BY <1>3 DEF StepsInv
<1>7. ReadyInv'
  <2>1. CASE status' = status
    BY <1>1, <1>3, <2>1
       DEF WorkloadInv, ReadyInv, ReadyIsComplete, LeftoversAccounted, ReportedReady
  <2>2. CASE status'.ready \in {status.ready, 0} /\ status'.ready # fn.gen
    <3>1. status'.ready <= fn.gen
      BY <1>2, <2>2, GenFacts DEF WorkloadInv, ReadyInv
    <3> QED BY <1>1, <1>3, <2>2, <3>1
            DEF ReadyInv, ReadyIsComplete, LeftoversAccounted, ReportedReady
  <2>3. CASE /\ op.pc = "ready" /\ op.fn = fn /\ status'.ready = fn.gen
             /\ status'.phase = "Ready" /\ status'.obs = fn.gen
    <3>1. Ahead(op.pc, op.fn.spec) = {}
      BY <2>3 DEF Ahead
    <3>2. /\ Needs(fn.spec) \subseteq objs
          /\ objs \subseteq Needs(fn.spec) \cup LeftBehind(fn.spec) \cup missed
      BY <2>3, <3>1 DEF WorkloadInv, StepsInv
    <3>3. status'.ready <= fn'.gen
      BY <1>1, <1>2, <2>3, GenFacts
    <3> QED BY <1>1, <1>3, <2>3, <3>2, <3>3
            DEF ReadyInv, ReadyIsComplete, LeftoversAccounted, ReportedReady
  <2> QED BY <2>1, <2>2, <2>3, StatusStepWrites
<1> QED BY <1>4, <1>5, <1>6, <1>7 DEF WorkloadInv

(* A new spec has a generation of its own, which nothing has seen.         *)
LEMMA ChangeKeeps == WorkloadInv /\ ChangeSpec => WorkloadInv'
<1> SUFFICES ASSUME WorkloadInv, ChangeSpec PROVE WorkloadInv'
  OBVIOUS
<1>1. PICK s \in Specs : fn' = [gen |-> fn.gen + 1, spec |-> s]
  BY DEF ChangeSpec
<1>2. /\ fn.gen < MaxGen
      /\ status' = status /\ op' = op /\ objs' = objs /\ missed' = missed
  BY DEF ChangeSpec
<1>3. WorkloadTypeOK
  BY DEF WorkloadInv
<1>4. fn'.gen = fn.gen + 1
  BY <1>1
<1>5. fn.gen + 1 \in 1..MaxGen
  BY <1>2, <1>3, GenFacts, ParametersAssumption DEF ParametersAssumption
<1>6. WorkloadTypeOK'
  <2>1. fn' \in Fns
    BY <1>1, <1>5 DEF Fns
  <2> QED BY <1>2, <1>3, <2>1 DEF WorkloadTypeOK
<1>7. op.fn.gen <= fn.gen /\ status.ready <= fn.gen
  BY DEF WorkloadInv, CopyInv, ReadyInv
<1>8. /\ op'.fn.gen <= fn'.gen /\ op'.fn.gen # fn'.gen
      /\ status'.ready <= fn'.gen /\ status'.ready # fn'.gen
  BY <1>2, <1>3, <1>4, <1>7, GenFacts
<1>9. CopyInv'
  BY <1>2, <1>8 DEF WorkloadInv, CopyInv
<1>10. StepsInv'
  BY <1>2 DEF WorkloadInv, StepsInv
<1>11. ReadyInv'
  BY <1>8 DEF ReadyInv, ReadyIsComplete, LeftoversAccounted, ReportedReady
<1> QED BY <1>6, <1>9, <1>10, <1>11 DEF WorkloadInv

(* A step of the worker on the objects.                                    *)
LEMMA WorkKeeps ==
    ASSUME WorkloadInv, ObjectStep
    PROVE  /\ WorkloadInv'
           /\ Needs(op.fn.spec) \cap objs \subseteq objs' \cup {"gpuRoute"}
<1>1. op.pc # "idle"
  BY DEF ObjectStep, reconcileWorkload, reconcileGPUHTTPRoute,
         reconcileGPUReferenceGrant, reconcileGPUBackendTrafficPolicy,
         reconcileFunctionService, reconcileNATSConsumer,
         reconcileAutoscaling, reconcileFunctionHTTPRoute, At
<1>2. PICK stale \in SUBSET Objects, new \in SUBSET Objects, pc \in PCs :
        Does(stale, new, pc) /\ Fits(stale, new, pc, op.fn.spec)
  BY StepFits
<1> QED BY <1>1, <1>2, DoesKeeps

(* ... and every step keeps it.                                            *)
LEMMA WorkloadNextInv == WorkloadInv /\ [WorkloadNext]_workloadVars => WorkloadInv'
<1> SUFFICES ASSUME WorkloadInv, [WorkloadNext]_workloadVars PROVE WorkloadInv'
  OBVIOUS
<1>1. CASE ObjectStep
  BY <1>1, WorkKeeps
<1>2. CASE Start
  BY <1>2, StartKeeps
<1>3. CASE StatusStep \/ Abandon
  BY <1>3, EndKeeps
<1>4. CASE ChangeSpec
  BY <1>4, ChangeKeeps
<1>5. CASE UNCHANGED workloadVars
  BY <1>5 DEF workloadVars, WorkloadInv, WorkloadTypeOK, CopyInv, StepsInv, ReadyInv,
              ReadyIsComplete, LeftoversAccounted, ReportedReady, NeedsBuild
<1> QED BY <1>1, <1>2, <1>3, <1>4, <1>5 DEF WorkloadNext

(* Every reachable state satisfies the inductive invariant.                *)
THEOREM WorkloadInvariance == WorkloadSpec => []WorkloadInv
BY WorkloadInitInv, WorkloadNextInv, PTL DEF WorkloadSpec

(* The types of the controller's view of a built function's objects.       *)
THEOREM WorkloadTypeCorrect == WorkloadSpec => []WorkloadTypeOK
<1>1. WorkloadInv => WorkloadTypeOK
  BY DEF WorkloadInv
<1> QED BY <1>1, WorkloadInvariance, PTL

(* While the controller's condition Ready is True of the current           *)
(* generation, the objects its spec needs exist.                           *)
THEOREM ReadyComplete == WorkloadSpec => []ReadyIsComplete
<1>1. WorkloadInv => ReadyIsComplete
  BY DEF WorkloadInv, ReadyInv
<1> QED BY <1>1, WorkloadInvariance, PTL

(* ... and no other object does, but for those its steps leave behind.     *)
THEOREM Leftovers == WorkloadSpec => []LeftoversAccounted
<1>1. WorkloadInv => LeftoversAccounted
  BY DEF WorkloadInv, ReadyInv
<1> QED BY <1>1, WorkloadInvariance, PTL

(* A reconcile of the current spec removes nothing that a function in the  *)
(* cluster needs.                                                          *)
THEOREM KeepsServing == WorkloadSpec => InClusterKeepsServing
<1>1. WorkloadInv /\ [WorkloadNext]_workloadVars =>
        [op.fn = fn /\ fn' = fn /\ ~fn.spec.gpu
           => Needs(fn.spec) \cap objs \subseteq objs']_workloadVars
  <2> SUFFICES ASSUME WorkloadInv, WorkloadNext, op.fn = fn, ~fn.spec.gpu
               PROVE  Needs(fn.spec) \cap objs \subseteq objs'
    OBVIOUS
  <2>1. CASE ObjectStep
    <3>1. fn.spec \in Specs
      BY GenFacts DEF WorkloadInv
    <3>2. "gpuRoute" \notin Needs(fn.spec)
      BY <3>1, NeedsFacts DEF Autoscalers
    <3> QED BY <2>1, <3>2, WorkKeeps
  <2>2. CASE ~ObjectStep
    BY <2>2 DEF WorkloadNext, StatusStep, Start, reconcileBuild,
                updateFunctionStatus, setFunctionFailed, Abandon, ChangeSpec
  <2> QED BY <2>1, <2>2
<1> QED BY <1>1, WorkloadInvariance, PTL DEF WorkloadSpec, InClusterKeepsServing

(* Whatever runs a function, the one object of its spec a reconcile of     *)
(* that spec may remove is the route of an external GPU function.          *)
OnlyRouteInterrupted ==
    [][op.fn = fn /\ fn' = fn
         => Needs(fn.spec) \cap objs \subseteq objs' \cup {"gpuRoute"}]_workloadVars

(* This is as much of DeletesOnlyStale as holds of the code.               *)
THEOREM RemovesRouteAtMost == WorkloadSpec => OnlyRouteInterrupted
<1>1. WorkloadInv /\ [WorkloadNext]_workloadVars =>
        [op.fn = fn /\ fn' = fn
           => Needs(fn.spec) \cap objs \subseteq objs' \cup {"gpuRoute"}]_workloadVars
  <2> SUFFICES ASSUME WorkloadInv, WorkloadNext, op.fn = fn
               PROVE  Needs(fn.spec) \cap objs \subseteq objs' \cup {"gpuRoute"}
    OBVIOUS
  <2>1. CASE ObjectStep
    BY <2>1, WorkKeeps
  <2>2. CASE ~ObjectStep
    BY <2>2 DEF WorkloadNext, StatusStep, Start, reconcileBuild,
                updateFunctionStatus, setFunctionFailed, Abandon, ChangeSpec
  <2> QED BY <2>1, <2>2
<1> QED BY <1>1, WorkloadInvariance, PTL DEF WorkloadSpec, OnlyRouteInterrupted
=============================================================================
