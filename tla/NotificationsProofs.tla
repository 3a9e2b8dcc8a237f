-------------------------- MODULE NotificationsProofs --------------------------
(***************************************************************************)
(* Proofs about Notifications, for any calls, processes, slots, number of  *)
(* attempts, archive sizes and failures.                                   *)
(***************************************************************************)
EXTENDS Notifications, FiniteSetTheorems, TLAPS

(* A busy worker has a job; one that has not ended has an attempt left.    *)
Busy == \A w \in Workers : at[w] # "idle" => running[w] \in JobIds

AttemptsLeft ==
    \A id \in JobIds :
        /\ jobs[id].state \notin Outcomes =>
              jobs[id].attempts < MaxAttempts /\ jobs[id].stalls < 2
        /\ jobs[id].holder # "none" <=> jobs[id].state = "active"

(* Nobody has asked for an account while there is no transporter.          *)
AskedOnce ==
    \A p \in Processes :
        accounts[p] <= 1 /\ (transporter[p] = "none" => accounts[p] = 0)

NotificationsInv == NotificationsTypeOK /\ Busy /\ AttemptsLeft /\ AskedOnce

Job == [state : {"none", "waiting", "delayed", "active"} \cup Outcomes,
        attempts : 0 .. MaxAttempts, stalls : 0 .. 2, holder : Workers \cup {"none"}]

-----------------------------------------------------------------------------
LEMMA InitInv == Init => NotificationsInv
  <1> SUFFICES ASSUME Init PROVE NotificationsInv
    OBVIOUS
  <1> USE NotificationsAssumption DEF Init
  <1>1. NoJob \in Job
    BY DEF NoJob, Job
  <1>2. jobs \in [JobIds -> Job]
    BY <1>1
  <1>3. /\ ended \in [Outcomes -> Seq(JobIds)]
        /\ \A outcome \in Outcomes : Len(ended[outcome]) <= Keep[outcome]
    OBVIOUS
  <1>4. NotificationsTypeOK
    BY <1>2, <1>3 DEF NotificationsTypeOK, Labels, Job
  <1> QED BY <1>4 DEF NotificationsInv, Busy, AttemptsLeft, AskedOnce, NoJob, Outcomes

(* Archiving a job: what it does to the records and the archives.          *)
LEMMA ArchiveTypes ==
    ASSUME NotificationsInv, NEW id \in JobIds, NEW outcome \in Outcomes,
           NEW attempts \in 0 .. MaxAttempts, NEW stalls \in 0 .. 2,
           Archive(id, outcome, attempts, stalls)
    PROVE  /\ jobs' \in [JobIds -> Job]
           /\ ended' \in [Outcomes -> Seq(JobIds)]
           /\ \A o \in Outcomes : Len(ended'[o]) <= Keep[o]
           /\ AttemptsLeft'
  <1> USE NotificationsAssumption
  <1> DEFINE longer == <<id>> \o ended[outcome]
             room == Keep[outcome]
             kept == IF Len(longer) <= room THEN longer ELSE SubSeq(longer, 1, room)
             record == [state |-> outcome, attempts |-> attempts, stalls |-> stalls,
                        holder |-> "none"]
  <1>1. longer \in Seq(JobIds) /\ room \in Nat \ {0}
    BY DEF NotificationsInv, NotificationsTypeOK
  <1>2. ended' = [ended EXCEPT ![outcome] = kept]
    BY DEF Archive
  <1>3. \A i \in JobIds : jobs'[i] \in {record, NoJob, jobs[i]}
    BY DEF Archive
  <1>4. DOMAIN jobs' = JobIds /\ jobs' = [i \in JobIds |-> jobs'[i]]
    BY DEF Archive
  <1>5. record \in Job /\ NoJob \in Job
    BY DEF Job, NoJob
  <1>6. \A i \in JobIds : jobs[i] \in Job
    BY DEF NotificationsInv, NotificationsTypeOK, Job
  <1>7. jobs' \in [JobIds -> Job]
    <2> HIDE DEF record
    <2> QED BY <1>3, <1>4, <1>5, <1>6
  <1>8. kept \in Seq(JobIds) /\ Len(kept) <= room
    <2> HIDE DEF longer, room
    <2> QED BY <1>1
  <1>9. /\ ended' \in [Outcomes -> Seq(JobIds)]
        /\ \A o \in Outcomes : Len(ended'[o]) <= Keep[o]
    <2> HIDE DEF kept
    <2> QED BY <1>2, <1>8 DEF NotificationsInv, NotificationsTypeOK
  <1>10. AttemptsLeft'
    BY <1>3 DEF AttemptsLeft, NotificationsInv, NoJob, Outcomes
  <1> QED BY <1>7, <1>9, <1>10

-----------------------------------------------------------------------------
(* The steps of the queue.                                                 *)

LEMMA QueueStep ==
    ASSUME NotificationsInv, NEW id \in JobIds,
           UNCHANGED <<made, added, workerVars, mailerVars, log>>,
           excused' \in [JobIds -> Nat], faults' \in 0 .. MaxFaults,
           jobs' \in [JobIds -> Job], ended' \in [Outcomes -> Seq(JobIds)],
           \A o \in Outcomes : Len(ended'[o]) <= Keep[o],
           AttemptsLeft'
    PROVE  NotificationsInv'
  <1>1. NotificationsTypeOK'
    BY DEF NotificationsInv, NotificationsTypeOK, Job, workerVars, mailerVars
  <1> QED BY <1>1 DEF NotificationsInv, Busy, AskedOnce, workerVars, mailerVars

LEMMA RequeueStep ==
    ASSUME NotificationsInv, NEW id \in JobIds, jobs[id].state = "active",
           Requeue(id), faults' \in 0 .. MaxFaults
    PROVE  NotificationsInv'
  <1> USE DEF NotificationsInv
  <1>1. /\ UNCHANGED <<made, added, workerVars, mailerVars, log>>
        /\ excused' \in [JobIds -> Nat]
    BY DEF Requeue, NotificationsTypeOK
  <1>2. CASE jobs[id].stalls = 0
    <2>1. /\ ended' = ended
          /\ jobs' = [jobs EXCEPT ![id].state = "waiting",
                         ![id].stalls = 1, ![id].holder = "none"]
      BY <1>2 DEF Requeue
    <2>2. jobs' \in [JobIds -> Job] /\ AttemptsLeft'
      BY <2>1 DEF NotificationsTypeOK, Job, AttemptsLeft, Outcomes
    <2> QED BY <1>1, <2>1, <2>2, QueueStep DEF NotificationsTypeOK
  <1>3. CASE jobs[id].stalls # 0
    <2>1. Archive(id, "failed", jobs[id].attempts, 2)
      BY <1>3 DEF Requeue
    <2>2. jobs[id].attempts \in 0 .. MaxAttempts
      BY DEF NotificationsTypeOK
    <2>3. "failed" \in Outcomes /\ 2 \in 0 .. 2
      BY DEF Outcomes
    <2>4. /\ jobs' \in [JobIds -> Job] /\ ended' \in [Outcomes -> Seq(JobIds)]
          /\ \A o \in Outcomes : Len(ended'[o]) <= Keep[o]
          /\ AttemptsLeft'
      BY <2>1, <2>2, <2>3, ArchiveTypes
    <2> QED BY <1>1, <2>4, QueueStep
  <1> QED BY <1>2, <1>3

LEMMA EnqueueStep == ASSUME NotificationsInv, NEW c \in Calls, Enqueue(c) PROVE NotificationsInv'
  <1> USE DEF NotificationsInv
  <1>1. JobId(c) \in JobIds
    BY DEF JobIds
  <1>2. /\ UNCHANGED <<ended, workerVars, mailerVars, log, historyVars>>
        /\ made' = made \cup {c}
        /\ \/ UNCHANGED <<jobs, added>>
           \/ /\ jobs' = [jobs EXCEPT ![JobId(c)] = [NoJob EXCEPT !.state = "waiting"]]
              /\ added' = [added EXCEPT ![JobId(c)] = @ + 1]
    BY DEF Enqueue
  <1> DEFINE new == [state |-> "waiting", attempts |-> 0, stalls |-> 0, holder |-> "none"]
  <1>3. /\ new = [NoJob EXCEPT !.state = "waiting"]
        /\ new \in Job /\ new.state = "waiting" /\ new.holder = "none"
        /\ new.attempts < MaxAttempts /\ new.stalls < 2
    BY NotificationsAssumption DEF NoJob, Job
  <1> HIDE DEF new
  <1>4. /\ jobs' \in [JobIds -> Job] /\ added' \in [JobIds -> Nat]
        /\ AttemptsLeft'
    <2>1. jobs \in [JobIds -> Job] /\ added \in [JobIds -> Nat]
      BY DEF NotificationsTypeOK, Job
    <2>2. CASE UNCHANGED <<jobs, added>>
      BY <2>1, <2>2 DEF AttemptsLeft
    <2>3. CASE /\ jobs' = [jobs EXCEPT ![JobId(c)] = new]
               /\ added' = [added EXCEPT ![JobId(c)] = @ + 1]
      BY <1>1, <1>3, <2>1, <2>3 DEF AttemptsLeft
    <2> QED BY <1>2, <1>3, <2>2, <2>3
  <1>5. NotificationsTypeOK'
    BY <1>2, <1>4 DEF NotificationsTypeOK, Job, workerVars, mailerVars, historyVars
  <1> QED BY <1>2, <1>4, <1>5 DEF Busy, AskedOnce, workerVars, mailerVars

LEMMA TakeJobStep ==
    ASSUME NotificationsInv, NEW w \in Workers, NEW id \in JobIds, TakeJob(w, id)
    PROVE  NotificationsInv'
  <1> USE DEF NotificationsInv
  <1>1. /\ UNCHANGED <<made, ended, added, mailerVars, log, historyVars>>
        /\ jobs[id].state = "waiting"
        /\ jobs' = [jobs EXCEPT ![id].state = "active", ![id].holder = w]
        /\ running' = [running EXCEPT ![w] = id]
        /\ at' = [at EXCEPT ![w] = FirstStep(id)]
    BY DEF TakeJob, Waiting
  <1>2. FirstStep(id) \in Labels /\ FirstStep(id) # "idle" /\ w # "none"
    BY NotificationsAssumption DEF FirstStep, Labels
  <1>3. jobs' \in [JobIds -> Job] /\ AttemptsLeft'
    BY ZenonT(30), <1>1, <1>2 DEF NotificationsTypeOK, Job, AttemptsLeft, Outcomes
  <1>4. NotificationsTypeOK'
    BY <1>1, <1>2, <1>3 DEF NotificationsTypeOK, Job, mailerVars, historyVars
  <1>5. Busy'
    BY <1>1 DEF Busy, NotificationsTypeOK
  <1> QED BY <1>1, <1>3, <1>4, <1>5 DEF AskedOnce, mailerVars

LEMMA BackoffStep ==
    ASSUME NotificationsInv, NEW id \in JobIds, BackoffEnds(id)
    PROVE  NotificationsInv'
  <1> USE DEF NotificationsInv
  <1>1. jobs' = [jobs EXCEPT ![id].state = "waiting"] /\ jobs[id].state = "delayed"
    BY DEF BackoffEnds
  <1>2. jobs' \in [JobIds -> Job] /\ AttemptsLeft'
    BY Zenon, <1>1 DEF NotificationsTypeOK, Job, AttemptsLeft, Outcomes
  <1> QED BY <1>2, QueueStep DEF BackoffEnds, NotificationsTypeOK, historyVars

-----------------------------------------------------------------------------
(* The end of a run.                                                       *)

LEMMA EndStep ==
    ASSUME NotificationsInv, NEW w \in Workers, GoIdle(w),
           UNCHANGED <<made, added, mailerVars, log, historyVars>>,
           jobs' \in [JobIds -> Job], ended' \in [Outcomes -> Seq(JobIds)],
           \A o \in Outcomes : Len(ended'[o]) <= Keep[o],
           AttemptsLeft'
    PROVE  NotificationsInv'
  <1> USE DEF NotificationsInv
  <1>1. at' = [at EXCEPT ![w] = "idle"] /\ running' = [running EXCEPT ![w] = NoId]
    BY DEF GoIdle
  <1>2. NotificationsTypeOK'
    BY <1>1 DEF NotificationsTypeOK, Job, Labels, mailerVars, historyVars
  <1>3. Busy'
    BY <1>1 DEF Busy, NotificationsTypeOK
  <1> QED BY <1>2, <1>3 DEF AskedOnce, mailerVars

LEMMA CompleteJobStep ==
    ASSUME NotificationsInv, NEW w \in Workers, CompleteJob(w)
    PROVE  NotificationsInv'
  <1> USE DEF NotificationsInv
  <1> DEFINE id == running[w]
  <1>1. id \in JobIds
    BY DEF CompleteJob, Busy
  <1>2. GoIdle(w) /\ UNCHANGED <<made, added, mailerVars, log, historyVars>>
    BY DEF CompleteJob
  <1>3. CASE HasLock(w)
    <2>1. Archive(id, "completed", jobs[id].attempts, jobs[id].stalls)
      BY <1>3 DEF CompleteJob
    <2>2. /\ jobs[id].attempts \in 0 .. MaxAttempts /\ jobs[id].stalls \in 0 .. 2
          /\ "completed" \in Outcomes
      BY <1>1 DEF NotificationsTypeOK, Outcomes
    <2> HIDE DEF id
    <2> QED BY <1>1, <1>2, <2>1, <2>2, ArchiveTypes, EndStep
  <1>4. CASE ~HasLock(w)
    BY <1>2, <1>4, EndStep DEF CompleteJob, NotificationsTypeOK, Job, AttemptsLeft
  <1> QED BY <1>3, <1>4

LEMMA FailJobStep ==
    ASSUME NotificationsInv, NEW w \in Workers, FailJob(w)
    PROVE  NotificationsInv'
  <1> USE DEF NotificationsInv
  <1> DEFINE id == running[w]
             spent == jobs[id].attempts + 1
  <1>1. id \in JobIds
    BY DEF FailJob, Busy
  <1>2. GoIdle(w) /\ UNCHANGED <<made, added, mailerVars, log, historyVars>>
    BY DEF FailJob
  <1>3. CASE ~HasLock(w)
    BY <1>2, <1>3, EndStep DEF FailJob, NotificationsTypeOK, Job, AttemptsLeft
  <1>4. CASE HasLock(w)
    <2>1. /\ spent \in 0 .. MaxAttempts /\ jobs[id].stalls \in 0 .. 2
          /\ jobs[id].stalls < 2 /\ "failed" \in Outcomes
      <3>1. jobs[id].state = "active"
        BY <1>1, <1>4, NotificationsAssumption DEF HasLock, AttemptsLeft
      <3>2. jobs[id].attempts < MaxAttempts /\ jobs[id].stalls < 2
        BY <1>1, <3>1 DEF AttemptsLeft, Outcomes
      <3>3. jobs[id].attempts \in 0 .. MaxAttempts /\ jobs[id].stalls \in 0 .. 2
        BY <1>1 DEF NotificationsTypeOK
      <3> QED BY <3>2, <3>3, NotificationsAssumption DEF Outcomes
    <2>2. CASE spent < MaxAttempts
      <3>1. /\ ended' = ended
            /\ jobs' = [jobs EXCEPT ![id].state = "delayed",
                           ![id].attempts = spent, ![id].holder = "none"]
        BY <1>4, <2>2 DEF FailJob
      <3>2. jobs' \in [JobIds -> Job] /\ AttemptsLeft'
        <4> HIDE DEF id, spent
        <4>1. jobs \in [JobIds -> Job]
          BY DEF NotificationsTypeOK, Job
        <4>2. /\ jobs'[id].state = "delayed" /\ jobs'[id].attempts = spent
              /\ jobs'[id].stalls = jobs[id].stalls /\ jobs'[id].holder = "none"
              /\ jobs'[id] \in Job
          BY <1>1, <2>1, <3>1, <4>1 DEF Job
        <4>3. \A i \in JobIds \ {id} : jobs'[i] = jobs[i]
          BY <3>1, <4>1
        <4>4. jobs' \in [JobIds -> Job]
          BY ZenonT(30), <1>1, <2>1, <3>1, <4>1 DEF Job
        <4>5. AttemptsLeft'
          BY <2>1, <2>2, <4>2, <4>3 DEF AttemptsLeft
        <4> QED BY <4>4, <4>5
      <3> QED BY <1>2, <3>1, <3>2, EndStep DEF NotificationsTypeOK
    <2>3. CASE ~(spent < MaxAttempts)
      <3>1. Archive(id, "failed", spent, jobs[id].stalls)
        BY <1>4, <2>3 DEF FailJob
      <3> HIDE DEF id, spent
      <3>2. /\ jobs' \in [JobIds -> Job] /\ ended' \in [Outcomes -> Seq(JobIds)]
            /\ \A o \in Outcomes : Len(ended'[o]) <= Keep[o]
            /\ AttemptsLeft'
        BY <1>1, <2>1, <3>1, ArchiveTypes
      <3> QED BY <1>2, <3>2, EndStep
    <2> QED BY <2>2, <2>3
  <1> QED BY <1>3, <1>4

-----------------------------------------------------------------------------
(* The steps of the handlers and of the processes, which leave the queue   *)
(* alone.                                                                  *)

LEMMA HandlerStep ==
    ASSUME NotificationsInv, NEW w \in Workers, NEW label \in Labels,
           at[w] # "idle", Goes(w, label),
           UNCHANGED queueVars, AskedOnce',
           transporter' \in [Processes -> {"none", "creating", "ready", "rejected"}],
           accounts' \in [Processes -> Nat],
           mails' \in [JobIds -> Nat],
           log' \in [JobIds -> [sent : Nat, failed : Nat, silent : Nat]],
           excused' \in [JobIds -> Nat],
           faults' \in 0 .. MaxFaults
    PROVE  NotificationsInv'
  <1> USE DEF NotificationsInv
  <1>1. at' = [at EXCEPT ![w] = label] /\ running' = running
    BY DEF Goes
  <1>2. NotificationsTypeOK'
    BY <1>1 DEF NotificationsTypeOK, queueVars
  <1>3. Busy'
    BY <1>1 DEF Busy, NotificationsTypeOK
  <1> QED BY <1>2, <1>3 DEF AttemptsLeft, queueVars

LEMMA FaultType == ASSUME NotificationsInv, Fault PROVE faults' \in 0 .. MaxFaults
  BY NotificationsAssumption DEF NotificationsInv, NotificationsTypeOK, Fault

LEMMA ConnectStep ==
    ASSUME NotificationsInv, NEW w \in Workers, Connect(w)
    PROVE  NotificationsInv'
  <1> USE DEF NotificationsInv
  <1> DEFINE p == ProcessOf[w]
  <1>1. /\ UNCHANGED <<queueVars, mails, log, historyVars>>
        /\ at[w] # "idle"
    BY DEF Connect
  <1>5. PICK label \in Labels : Goes(w, label)
    BY DEF Connect, Labels
  <1>2. p \in Processes
    BY NotificationsAssumption
  <1>3. /\ transporter' \in [Processes -> {"none", "creating", "ready", "rejected"}]
        /\ accounts' \in [Processes -> Nat]
        /\ AskedOnce'
    <2>1. CASE UNCHANGED <<transporter, accounts>>
      BY <2>1 DEF NotificationsTypeOK, AskedOnce
    <2>2. CASE /\ transporter[p] = "none"
               /\ transporter' = [transporter EXCEPT ![p] = "ready"]
               /\ accounts' = [accounts EXCEPT ![p] = @]
      BY <1>2, <2>2 DEF NotificationsTypeOK, AskedOnce
    <2>3. CASE /\ transporter[p] = "none"
               /\ transporter' = [transporter EXCEPT ![p] = "creating"]
               /\ accounts' = [accounts EXCEPT ![p] = @ + 1]
      BY <1>2, <2>3 DEF NotificationsTypeOK, AskedOnce
    <2>4. CASE Simulated(running[w])
      BY <2>1, <2>4 DEF Connect
    <2>5. CASE ~Simulated(running[w]) /\ SmtpConfigured
      BY <2>1, <2>2, <2>5 DEF Connect, NeedsTransporter
    <2>6. CASE ~Simulated(running[w]) /\ ~SmtpConfigured
      BY <2>1, <2>3, <2>6 DEF Connect, NeedsTransporter
    <2> QED BY <2>4, <2>5, <2>6
  <1> QED BY <1>1, <1>3, <1>5, HandlerStep DEF NotificationsTypeOK, historyVars

LEMMA HandleStep ==
    ASSUME NotificationsInv, NEW w \in Workers,
           ReadPortfolio(w) \/ Connected(w) \/ SendMail(w) \/ LogMail(w)
    PROVE  NotificationsInv'
  <1> USE DEF NotificationsInv
  <1>1. /\ UNCHANGED <<queueVars, transporter, accounts>>
        /\ at[w] # "idle" /\ running[w] \in JobIds
        /\ \E label \in Labels : Goes(w, label)
    BY DEF ReadPortfolio, Connected, SendMail, LogMail, Labels, Busy, mailerVars
  <1>2. mails' \in [JobIds -> Nat]
    BY SMTT(20), <1>1 DEF ReadPortfolio, Connected, SendMail, LogMail, Accepted, mailerVars,
                NotificationsTypeOK
  <1>3. log' \in [JobIds -> [sent : Nat, failed : Nat, silent : Nat]]
    <2>1. CASE UNCHANGED log
      BY <2>1 DEF NotificationsTypeOK
    <2>2. ASSUME NEW field \in {"sent", "failed", "silent"},
                 log' = [log EXCEPT ![running[w]][field] = @ + 1]
          PROVE  log' \in [JobIds -> [sent : Nat, failed : Nat, silent : Nat]]
      <3> DEFINE Counts == [sent : Nat, failed : Nat, silent : Nat]
                 counts == [log[running[w]] EXCEPT ![field] = @ + 1]
      <3>1. log \in [JobIds -> Counts] /\ log[running[w]] \in Counts
        BY <1>1 DEF NotificationsTypeOK
      <3>2. CASE field = "sent"
        BY <3>1, <3>2, <2>2, <1>1
      <3>3. CASE field = "failed"
        BY <3>1, <3>3, <2>2, <1>1
      <3>4. CASE field = "silent"
        BY <3>1, <3>4, <2>2, <1>1
      <3> QED BY <3>2, <3>3, <3>4, <2>2
    <2>3. CASE LogMail(w)
      <3>1. PICK field \in {"sent", "failed", "silent"} :
               log' = [log EXCEPT ![running[w]][field] = @ + 1]
        BY <2>3 DEF LogMail
      <3> QED BY <2>2, <3>1
    <2>4. CASE ReadPortfolio(w)
      BY <2>1, <2>2, <2>4 DEF ReadPortfolio
    <2> QED BY <2>1, <2>3, <2>4 DEF Connected, SendMail
  <1>4. excused' \in [JobIds -> Nat] /\ faults' \in 0 .. MaxFaults
    <2>1. \/ UNCHANGED excused
          \/ excused' = [excused EXCEPT ![running[w]] = @ + 1]
      BY DEF ReadPortfolio, Connected, SendMail, LogMail, historyVars
    <2>2. UNCHANGED faults \/ Fault
      BY DEF ReadPortfolio, Connected, SendMail, LogMail, historyVars
    <2>3. faults' \in 0 .. MaxFaults
      BY <2>2, FaultType DEF NotificationsTypeOK
    <2>4. excused \in [JobIds -> Nat]
      BY DEF NotificationsTypeOK
    <2>5. excused' \in [JobIds -> Nat]
      BY <1>1, <2>1, <2>4
    <2> QED BY <2>3, <2>5
  <1> QED BY <1>1, <1>2, <1>3, <1>4, HandlerStep DEF NotificationsTypeOK, AskedOnce

LEMMA AccountStep ==
    ASSUME NotificationsInv, NEW p \in Processes, AccountAnswers(p)
    PROVE  NotificationsInv'
  <1> USE DEF NotificationsInv
  <1>1. /\ UNCHANGED <<queueVars, workerVars, accounts, mails, log, excused>>
        /\ transporter[p] = "creating"
        /\ \/ transporter' = [transporter EXCEPT ![p] = "ready"]
           \/ transporter' = [transporter EXCEPT ![p] = "rejected"]
    BY DEF AccountAnswers
  <1>2. faults' \in 0 .. MaxFaults
    BY FaultType DEF AccountAnswers, NotificationsTypeOK
  <1>3. NotificationsTypeOK'
    BY <1>1, <1>2 DEF NotificationsTypeOK, queueVars, workerVars
  <1> QED BY <1>1, <1>3
          DEF Busy, AttemptsLeft, AskedOnce, NotificationsTypeOK, queueVars, workerVars

LEMMA ForgetStep ==
    ASSUME NotificationsInv, NEW p \in Processes, Crash(p) \/ Restart(p)
    PROVE  NotificationsInv'
  <1> USE DEF NotificationsInv
  <1>1. /\ UNCHANGED <<queueVars, mails, log, excused>>
        /\ transporter' = [transporter EXCEPT ![p] = "none"]
        /\ accounts' = [accounts EXCEPT ![p] = 0]
    BY DEF Crash, Restart, Forgets, historyVars
  <1>2. faults' \in 0 .. MaxFaults
    BY FaultType DEF Crash, Restart, NotificationsTypeOK, historyVars
  <1>3. at' \in [Workers -> Labels] /\ running' \in [Workers -> JobIds \cup {NoId}]
    BY DEF Crash, Restart, workerVars, NotificationsTypeOK, Labels
  <1>4. NotificationsTypeOK'
    BY <1>1, <1>2, <1>3 DEF NotificationsTypeOK, queueVars
  <1>5. Busy'
    BY DEF Crash, Restart, workerVars, Busy
  <1> QED BY <1>1, <1>4, <1>5 DEF AttemptsLeft, AskedOnce, NotificationsTypeOK, queueVars

-----------------------------------------------------------------------------
LEMMA NextInv == NotificationsInv /\ [Next]_vars => NotificationsInv'
  <1> SUFFICES ASSUME NotificationsInv, [Next]_vars
               PROVE  NotificationsInv'
    OBVIOUS
  <1>1. ASSUME NEW c \in Calls, Enqueue(c)
        PROVE  NotificationsInv'
    BY <1>1, EnqueueStep
  <1>2. ASSUME NEW w \in Workers, Handle(w)
        PROVE  NotificationsInv'
    BY <1>2, HandleStep, ConnectStep, CompleteJobStep, FailJobStep DEF Handle
  <1>3. ASSUME NEW w \in Workers, NEW id \in JobIds, TakeJob(w, id)
        PROVE  NotificationsInv'
    BY <1>3, TakeJobStep
  <1>4. ASSUME NEW id \in JobIds, BackoffEnds(id) \/ RecoverStalled(id) \/ LoseLock(id)
        PROVE  NotificationsInv'
    <2>1. CASE BackoffEnds(id)
      BY <2>1, BackoffStep
    <2>2. CASE RecoverStalled(id)
      BY <2>2, RequeueStep DEF RecoverStalled, NotificationsInv, NotificationsTypeOK
    <2>3. CASE LoseLock(id)
      BY <2>3, RequeueStep, FaultType DEF LoseLock
    <2> QED BY <1>4, <2>1, <2>2, <2>3
  <1>5. ASSUME NEW p \in Processes, AccountAnswers(p) \/ Crash(p) \/ Restart(p)
        PROVE  NotificationsInv'
    BY <1>5, AccountStep, ForgetStep
  <1>6. CASE UNCHANGED vars
    BY <1>6 DEF vars, queueVars, workerVars, mailerVars, historyVars, NotificationsInv,
               NotificationsTypeOK, Busy, AttemptsLeft, AskedOnce
  <1> QED BY <1>1, <1>2, <1>3, <1>4, <1>5, <1>6 DEF Next

(* The queue's records, the archives, the workers and the mailer have their*)
(* types; no archive outgrows its limit, no job its attempts.              *)
THEOREM NotificationsTypeCorrect == Spec => []NotificationsTypeOK
  <1>1. NotificationsInv => NotificationsTypeOK
    BY DEF NotificationsInv
  <1> QED BY <1>1, InitInv, NextInv, PTL DEF Spec

(* getTransporter: a process asks for one test account, whatever the number*)
(* of jobs that need it and however they interleave.                       *)
THEOREM OneAccount == Spec => []OneAccountPerStart
  <1>1. NotificationsInv => OneAccountPerStart
    BY DEF NotificationsInv, AskedOnce, OneAccountPerStart
  <1> QED BY <1>1, InitInv, NextInv, PTL DEF Spec

LEMMA NotificationsAlways == Spec => []NotificationsInv
  BY InitInv, NextInv, PTL DEF Spec

-----------------------------------------------------------------------------
(* Counting the workers at some point of a job, when one comes or goes.    *)

LEMMA CountSubset ==
    ASSUME NEW S, NEW T \in SUBSET S, IsFiniteSet(S)
    PROVE  /\ IsFiniteSet(T) /\ Cardinality(T) \in Nat /\ Cardinality(S) \in Nat
           /\ Cardinality(T) <= Cardinality(S)
  BY FS_Subset, FS_CardinalityType

LEMMA CountMore ==
    ASSUME NEW S, NEW w, NEW T \in SUBSET (S \cup {w}), IsFiniteSet(S)
    PROVE  /\ IsFiniteSet(T) /\ Cardinality(T) \in Nat /\ Cardinality(S) \in Nat
           /\ Cardinality(T) <= Cardinality(S) + 1
  <1>1. /\ IsFiniteSet(S \cup {w}) /\ Cardinality(S) \in Nat
        /\ Cardinality(S \cup {w}) <= Cardinality(S) + 1
    BY FS_AddElement, FS_CardinalityType
  <1>2. /\ IsFiniteSet(T) /\ Cardinality(T) \in Nat /\ Cardinality(S \cup {w}) \in Nat
        /\ Cardinality(T) <= Cardinality(S \cup {w})
    BY <1>1, CountSubset
  <1> QED BY <1>1, <1>2

LEMMA CountFewer ==
    ASSUME NEW S, NEW w \in S, NEW T \in SUBSET (S \ {w}), IsFiniteSet(S)
    PROVE  /\ IsFiniteSet(T) /\ Cardinality(T) \in Nat /\ Cardinality(S) \in Nat
           /\ Cardinality(T) + 1 <= Cardinality(S)
  <1>1. /\ IsFiniteSet(S \ {w}) /\ Cardinality(S) \in Nat
        /\ Cardinality(S \ {w}) = Cardinality(S) - 1
    BY FS_RemoveElement, FS_CardinalityType
  <1>2. /\ IsFiniteSet(T) /\ Cardinality(T) \in Nat /\ Cardinality(S \ {w}) \in Nat
        /\ Cardinality(T) <= Cardinality(S \ {w})
    BY <1>1, CountSubset
  <1> QED BY <1>1, <1>2

(* A set no larger than its margin stays so when it shrinks, or when its   *)
(* margin grows by as much as it does.                                     *)
LEMMA CountKept ==
    ASSUME NEW S, NEW T, NEW w, NEW m \in Int, NEW n \in Int,
           IsFiniteSet(S), Cardinality(S) <= m,
           \/ T \subseteq S /\ m <= n
           \/ w \in S /\ T \subseteq S \ {w} /\ m <= n + 1
           \/ T \subseteq S \cup {w} /\ m + 1 <= n
    PROVE  IsFiniteSet(T) /\ Cardinality(T) <= n
  <1>1. CASE T \subseteq S /\ m <= n
    BY <1>1, CountSubset
  <1>2. CASE w \in S /\ T \subseteq S \ {w} /\ m <= n + 1
    BY <1>2, CountFewer
  <1>3. CASE T \subseteq S \cup {w} /\ m + 1 <= n
    BY <1>3, CountMore
  <1> QED BY <1>1, <1>2, <1>3

-----------------------------------------------------------------------------
(* Mails and what entitles to them.  A job that is due, and a run that has *)
(* not sent yet, may each still send one; the job's creation, or a run     *)
(* that was excused, stands for it.                                        *)

Unsent(id) ==
    {w \in Workers : running[w] = id /\ at[w] \notin {"idle", "log-sent", "complete"}}
Due(id) == IF jobs[id].state \in {"waiting", "delayed"} THEN 1 ELSE 0
Entitled(id) == (added[id] + excused[id]) - (mails[id] + Due(id))

MailsBacked ==
    \A id \in JobIds : IsFiniteSet(Unsent(id)) /\ Cardinality(Unsent(id)) <= Entitled(id)

LEMMA EntitledType ==
    ASSUME NotificationsInv, NEW id \in JobIds
    PROVE  Entitled(id) \in Int /\ Due(id) \in {0, 1} /\ added[id] \in Nat
           /\ excused[id] \in Nat /\ mails[id] \in Nat
  BY DEF NotificationsInv, NotificationsTypeOK, Entitled, Due

LEMMA EntitledNext ==
    ASSUME NotificationsInv', NEW id \in JobIds
    PROVE  Entitled(id)' \in Int
  <1>1. added'[id] \in Nat /\ excused'[id] \in Nat /\ mails'[id] \in Nat
    BY DEF NotificationsInv, NotificationsTypeOK
  <1>2. Due(id)' \in {0, 1}
    BY DEF Due
  <1> QED BY <1>1, <1>2 DEF Entitled

(* An archive drops records, and none becomes due.                         *)
LEMMA ArchiveDue ==
    ASSUME NEW id \in JobIds, NEW outcome \in Outcomes, NEW attempts, NEW stalls,
           Archive(id, outcome, attempts, stalls)
    PROVE  \A i \in JobIds : Due(i)' \in {0, Due(i)} /\ Due(id)' = 0
  BY DEF Archive, Due, Outcomes, NoJob

(* A step of one worker at most.                                           *)
LEMMA BackedKept ==
    ASSUME NotificationsInv, NotificationsInv', MailsBacked, NEW w,
           \A i \in JobIds :
              \/ Unsent(i)' \subseteq Unsent(i) /\ Entitled(i) <= Entitled(i)'
              \/ /\ w \in Unsent(i) /\ Unsent(i)' \subseteq Unsent(i) \ {w}
                 /\ Entitled(i) <= Entitled(i)' + 1
              \/ Unsent(i)' \subseteq Unsent(i) \cup {w} /\ Entitled(i) + 1 <= Entitled(i)'
    PROVE  MailsBacked'
  <1> SUFFICES ASSUME NEW i \in JobIds
               PROVE  IsFiniteSet(Unsent(i)') /\ Cardinality(Unsent(i)') <= Entitled(i)'
    BY DEF MailsBacked
  <1>1. IsFiniteSet(Unsent(i)) /\ Cardinality(Unsent(i)) <= Entitled(i)
    BY DEF MailsBacked
  <1>2. Entitled(i) \in Int
    BY EntitledType
  <1>3. Entitled(i)' \in Int
    BY EntitledNext
  <1> QED BY <1>1, <1>2, <1>3, CountKept

(* A step that changes no worker.                                          *)
LEMMA QueueKeepsBacked ==
    ASSUME NotificationsInv, NotificationsInv', MailsBacked, UNCHANGED workerVars,
           \A i \in JobIds : Entitled(i) <= Entitled(i)'
    PROVE  MailsBacked'
  <1>1. \A i \in JobIds : Unsent(i)' = Unsent(i)
    BY DEF Unsent, workerVars
  <1> QED BY <1>1, BackedKept

LEMMA EnqueueBacked ==
    ASSUME NotificationsInv, NotificationsInv', MailsBacked, NEW c \in Calls, Enqueue(c)
    PROVE  MailsBacked'
  <1> DEFINE id == JobId(c)
  <1>1. id \in JobIds
    BY DEF JobIds
  <1>2. UNCHANGED <<workerVars, mails, excused>>
    BY DEF Enqueue, mailerVars, historyVars
  <1>3. CASE UNCHANGED <<jobs, added>>
    BY <1>2, <1>3, EntitledType, QueueKeepsBacked DEF Entitled, Due
  <1>4. CASE /\ jobs[id].state = "none"
             /\ jobs' = [jobs EXCEPT ![id] = [NoJob EXCEPT !.state = "waiting"]]
             /\ added' = [added EXCEPT ![id] = @ + 1]
    <2> HIDE DEF id
    <2>1. jobs \in [JobIds -> Job] /\ added \in [JobIds -> Nat]
      BY DEF NotificationsInv, NotificationsTypeOK, Job
    <2>2. /\ \A i \in JobIds \ {id} : jobs'[i] = jobs[i] /\ added'[i] = added[i]
          /\ added'[id] = added[id] + 1
      BY <1>1, <1>4, <2>1
    <2>3. Due(id) = 0 /\ Due(id)' \in {0, 1}
      BY <1>4 DEF Due
    <2>4. \A i \in JobIds \ {id} : Entitled(i)' = Entitled(i)
      BY <1>2, <2>2 DEF Entitled, Due
    <2>5. Entitled(id) <= Entitled(id)'
      BY <1>1, <1>2, <2>2, <2>3, EntitledType DEF Entitled
    <2>6. \A i \in JobIds : Entitled(i) <= Entitled(i)'
      BY <2>4, <2>5, EntitledType
    <2> QED BY <1>2, <2>6, QueueKeepsBacked
  <1> QED BY <1>3, <1>4 DEF Enqueue

LEMMA TakeJobBacked ==
    ASSUME NotificationsInv, NotificationsInv', MailsBacked,
           NEW w \in Workers, NEW id \in JobIds, TakeJob(w, id)
    PROVE  MailsBacked'
  <1>1. /\ UNCHANGED <<added, mails, excused>> /\ at[w] = "idle"
        /\ jobs[id].state = "waiting"
        /\ jobs' = [jobs EXCEPT ![id].state = "active", ![id].holder = w]
        /\ running' = [running EXCEPT ![w] = id]
        /\ at' = [at EXCEPT ![w] = FirstStep(id)]
    BY DEF TakeJob, Waiting, mailerVars, historyVars
  <1>2. /\ jobs \in [JobIds -> Job] /\ at \in [Workers -> Labels]
        /\ running \in [Workers -> JobIds \cup {NoId}]
    BY DEF NotificationsInv, NotificationsTypeOK, Job
  <1>3. Due(id) = 1 /\ Due(id)' = 0 /\ \A i \in JobIds \ {id} : Due(i)' = Due(i)
    BY <1>1, <1>2 DEF Due
  <1>4. /\ \A i \in JobIds \ {id} : Entitled(i)' = Entitled(i)
        /\ Entitled(id) + 1 <= Entitled(id)'
    BY <1>1, <1>3, EntitledType DEF Entitled
  <1>5. \A i \in JobIds : Unsent(i)' \subseteq IF i = id THEN Unsent(i) \cup {w} ELSE Unsent(i)
    BY <1>1, <1>2 DEF Unsent
  <1>6. \A i \in JobIds \ {id} : Unsent(i)' \subseteq Unsent(i) /\ Entitled(i) <= Entitled(i)'
    BY <1>4, <1>5, EntitledType
  <1>7. Unsent(id)' \subseteq Unsent(id) \cup {w}
    BY <1>5
  <1> QED BY <1>4, <1>6, <1>7, BackedKept

LEMMA RequeueBacked ==
    ASSUME NotificationsInv, NotificationsInv', MailsBacked,
           NEW id \in JobIds, jobs[id].state = "active", Requeue(id)
    PROVE  MailsBacked'
  <1>1. /\ UNCHANGED <<added, mails, workerVars>>
        /\ excused' = [excused EXCEPT ![id] = @ + 1]
    BY DEF Requeue, mailerVars
  <1>2. jobs \in [JobIds -> Job] /\ excused \in [JobIds -> Nat]
    BY DEF NotificationsInv, NotificationsTypeOK, Job
  <1>3. Due(id) = 0 /\ Due(id)' \in {0, 1}
    BY DEF Due
  <1>4. \A i \in JobIds \ {id} : Due(i)' \in {0, Due(i)}
    <2>1. CASE jobs[id].stalls = 0
      BY <1>2, <2>1 DEF Requeue, Due
    <2>2. CASE jobs[id].stalls # 0
      BY <2>2, ArchiveDue DEF Requeue, Outcomes
    <2> QED BY <2>1, <2>2
  <1>5. \A i \in JobIds \ {id} : Entitled(i) <= Entitled(i)'
    BY <1>1, <1>2, <1>4, EntitledType DEF Entitled
  <1>6. Entitled(id) <= Entitled(id)'
    BY <1>1, <1>2, <1>3, EntitledType DEF Entitled
  <1> QED BY <1>1, <1>5, <1>6, QueueKeepsBacked

(* The run ends with its job archived, delayed, or lost to another.        *)
LEMMA EndBacked ==
    ASSUME NotificationsInv, NotificationsInv', MailsBacked,
           NEW w \in Workers, NEW id \in JobIds, id = running[w],
           CompleteJob(w) \/ FailJob(w)
    PROVE  MailsBacked'
  <1>1. /\ GoIdle(w) /\ UNCHANGED <<added, mails, excused>>
    BY DEF CompleteJob, FailJob, NotificationsInv, Busy, mailerVars, historyVars
  <1>2. /\ jobs \in [JobIds -> Job] /\ at \in [Workers -> Labels]
        /\ running \in [Workers -> JobIds \cup {NoId}]
    BY DEF NotificationsInv, NotificationsTypeOK, Job
  <1>3. at' = [at EXCEPT ![w] = "idle"] /\ running' = [running EXCEPT ![w] = NoId]
    BY <1>1 DEF GoIdle
  <1>4. w \notin Unsent(id)' /\ \A i \in JobIds : Unsent(i)' \subseteq Unsent(i)
    BY <1>2, <1>3 DEF Unsent
  <1>5. ASSUME \A i \in JobIds : Due(i)' \in {0, Due(i)}
        PROVE  \A i \in JobIds : Entitled(i) <= Entitled(i)'
    BY <1>1, <1>5, EntitledType DEF Entitled
  <1>6. CASE CompleteJob(w)
    <2>1. \A i \in JobIds : Due(i)' \in {0, Due(i)}
      BY <1>1, <1>6, ArchiveDue DEF CompleteJob, Due, Outcomes
    <2> QED BY <1>4, <1>5, <2>1, BackedKept
  <1>7. CASE FailJob(w)
    <2>1. w \in Unsent(id)
      BY <1>7 DEF Unsent, FailJob
    <2>2. \A i \in JobIds \ {id} : Due(i)' \in {0, Due(i)}
      <3>1. CASE \/ UNCHANGED jobs
                 \/ \E spent : jobs' = [jobs EXCEPT ![id].state = "delayed",
                                          ![id].attempts = spent, ![id].holder = "none"]
        BY Zenon, <1>2, <3>1 DEF Due
      <3>2. CASE \E spent : Archive(id, "failed", spent, jobs[id].stalls)
        BY <1>1, <3>2, ArchiveDue DEF Outcomes
      <3> QED BY Zenon, <1>7, <3>1, <3>2 DEF FailJob
    <2>3. \A i \in JobIds \ {id} : Entitled(i) <= Entitled(i)'
      BY <1>1, <2>2, EntitledType DEF Entitled
    <2>4. Due(id) \in {0, 1} /\ Due(id)' \in {0, 1}
      BY DEF Due
    <2>5. Entitled(id) <= Entitled(id)' + 1
      BY <1>1, <2>4, EntitledType DEF Entitled
    <2> QED BY <1>4, <2>1, <2>3, <2>5, BackedKept
  <1> QED BY <1>6, <1>7

(* A step of a handler, which leaves the queue alone.                      *)
LEMMA HandlerBacked ==
    ASSUME NotificationsInv, NotificationsInv', MailsBacked,
           NEW w \in Workers, NEW id \in JobIds, id = running[w],
           \/ ReadPortfolio(w) \/ Connect(w) \/ Connected(w) \/ SendMail(w) \/ LogMail(w)
    PROVE  MailsBacked'
  <1>1. UNCHANGED <<queueVars, running>>
    BY DEF ReadPortfolio, Connect, Connected, SendMail, LogMail, Goes
  <1>2. /\ at \in [Workers -> Labels] /\ excused \in [JobIds -> Nat]
        /\ mails \in [JobIds -> Nat]
    BY DEF NotificationsInv, NotificationsTypeOK
  <1>3. PICK label : at' = [at EXCEPT ![w] = label]
    BY DEF ReadPortfolio, Connect, Connected, SendMail, LogMail, Goes
  <1>4. \A i \in JobIds : Unsent(i)' \subseteq Unsent(i)
    <2>1. at[w] # "idle" /\ (at[w] = "log-sent" => label = "complete") /\ at[w] # "complete"
      BY <1>2, <1>3 DEF ReadPortfolio, Connect, Connected, SendMail, LogMail, Goes
    <2> QED BY <1>1, <1>2, <1>3, <2>1 DEF Unsent
  <1>5. \A i \in JobIds : Due(i)' = Due(i) /\ added' = added
    BY <1>1 DEF Due, queueVars
  <1>6. CASE UNCHANGED <<mails, excused>>
    <2>1. \A i \in JobIds : Entitled(i) <= Entitled(i)'
      BY <1>5, <1>6, EntitledType DEF Entitled
    <2> QED BY <1>4, <2>1, BackedKept
  <1>7. CASE SendMail(w) /\ mails' = [mails EXCEPT ![id] = @ + 1] /\ excused' = [excused EXCEPT ![id] = @ + 1]
    <2>1. \A i \in JobIds : Entitled(i) <= Entitled(i)'
      BY <1>1, <1>2, <1>5, <1>7, EntitledType DEF Entitled
    <2> QED BY <1>4, <2>1, BackedKept
  <1>8. CASE /\ SendMail(w) /\ mails' = [mails EXCEPT ![id] = @ + 1] /\ excused' = excused
             /\ Goes(w, "log-sent")
    <2>1. w \in Unsent(id) /\ w \notin Unsent(id)'
      BY <1>2, <1>8 DEF Unsent, SendMail, Goes
    <2>2. \A i \in JobIds \ {id} : Entitled(i) <= Entitled(i)'
      BY <1>2, <1>5, <1>8, EntitledType DEF Entitled
    <2>3. Entitled(id) <= Entitled(id)' + 1
      BY <1>1, <1>2, <1>5, <1>8, EntitledType DEF Entitled
    <2> QED BY <1>4, <2>1, <2>2, <2>3, BackedKept
  <1> QED BY <1>6, <1>7, <1>8
          DEF ReadPortfolio, Connect, Connected, SendMail, LogMail, Accepted,
              mailerVars, historyVars

LEMMA OthersBacked ==
    ASSUME NotificationsInv, NotificationsInv', MailsBacked,
           \/ \E id \in JobIds : BackoffEnds(id)
           \/ \E p \in Processes : AccountAnswers(p) \/ Crash(p) \/ Restart(p)
           \/ UNCHANGED vars
    PROVE  MailsBacked'
  <1>1. UNCHANGED <<added, mails, excused>>
    BY DEF BackoffEnds, AccountAnswers, Crash, Restart, vars, queueVars, mailerVars, historyVars
  <1>2. \A i \in JobIds : Due(i)' = Due(i)
    <2>1. jobs \in [JobIds -> Job]
      BY DEF NotificationsInv, NotificationsTypeOK, Job
    <2>2. CASE \E id \in JobIds : BackoffEnds(id)
      BY <2>1, <2>2 DEF Due, BackoffEnds
    <2>3. CASE UNCHANGED jobs
      BY <2>3 DEF Due
    <2> QED BY <2>2, <2>3 DEF AccountAnswers, Crash, Restart, vars, queueVars
  <1>3. \A i \in JobIds : Entitled(i) <= Entitled(i)'
    BY <1>1, <1>2, EntitledType DEF Entitled
  <1>4. \A i \in JobIds : Unsent(i)' \subseteq Unsent(i)
    BY DEF Unsent, BackoffEnds, AccountAnswers, Crash, Restart, vars, workerVars
  <1> QED BY <1>3, <1>4, BackedKept

LEMMA BackedInit == Init => MailsBacked
  <1> SUFFICES ASSUME Init, NEW id \in JobIds
               PROVE  IsFiniteSet(Unsent(id)) /\ Cardinality(Unsent(id)) <= Entitled(id)
    BY DEF MailsBacked
  <1>1. Unsent(id) = {}
    BY DEF Init, Unsent
  <1>2. Due(id) = 0
    BY DEF Init, Due, NoJob
  <1>3. Entitled(id) = 0
    BY <1>2 DEF Init, Entitled
  <1> QED BY <1>1, <1>3, FS_EmptySet

(* A job mails twice only after its record was dropped and it was added    *)
(* again, an answer was lost, or a run lost its lock or its process.       *)
THEOREM DuplicatesAreExplained == Spec => []DuplicatesExplained
  <1>1. NotificationsInv /\ NotificationsInv' /\ MailsBacked /\ [Next]_vars => MailsBacked'
    BY ZenonT(30), EnqueueBacked, TakeJobBacked, RequeueBacked, EndBacked, HandlerBacked, OthersBacked
       DEF Next, Handle, RecoverStalled, LoseLock, NotificationsInv, Busy, ReadPortfolio,
           Connect, Connected, SendMail, LogMail, CompleteJob, FailJob
  <1>2. NotificationsInv /\ MailsBacked => DuplicatesExplained
    <2> SUFFICES ASSUME NotificationsInv, MailsBacked, NEW id \in JobIds
                 PROVE  mails[id] <= added[id] + excused[id]
      BY DEF DuplicatesExplained
    <2>1. Cardinality(Unsent(id)) \in Nat /\ Cardinality(Unsent(id)) <= Entitled(id)
      BY FS_CardinalityType DEF MailsBacked
    <2> QED BY <2>1, EntitledType DEF Entitled
  <1> QED BY <1>1, <1>2, BackedInit, NotificationsAlways, PTL DEF Spec

-----------------------------------------------------------------------------
(* Reports and what they stand for.  A mail accepted and not yet in the    *)
(* log is a run's that is about to write its row.                          *)

Unreported(id) == {w \in Workers : running[w] = id /\ at[w] = "log-sent"}

Unlogged(id) == mails[id] - log[id].sent

SentBacked ==
    \A id \in JobIds : ~Simulated(id) =>
        /\ IsFiniteSet(Unreported(id))
        /\ Cardinality(Unreported(id)) <= Unlogged(id)

MailedFirst ==
    /\ \A w \in Workers :
          at[w] \in {"log-sent", "complete"} /\ ~Simulated(running[w]) => mails[running[w]] > 0
    /\ \A id \in JobIds :
          jobs[id].state = "completed" /\ ~Simulated(id) => mails[id] > 0

Failures(id) == log[id].failed + log[id].silent

(* A run that is about to be counted has its failure in the log already.   *)
FailuresLogged ==
    /\ \A id \in JobIds : jobs[id].attempts <= Failures(id)
    /\ \A w \in Workers :
          at[w] = "fail" /\ jobs[running[w]].holder = w
              => jobs[running[w]].attempts + 1 <= Failures(running[w])

Counts == [sent : Nat, failed : Nat, silent : Nat]

LEMMA LogTypes ==
    ASSUME NotificationsInv
    PROVE  /\ jobs \in [JobIds -> Job] /\ at \in [Workers -> Labels]
           /\ running \in [Workers -> JobIds \cup {NoId}]
           /\ mails \in [JobIds -> Nat] /\ log \in [JobIds -> Counts]
           /\ \A id \in JobIds : log[id].sent \in Nat /\ Failures(id) \in Nat
  BY DEF NotificationsInv, NotificationsTypeOK, Job, Counts, Failures

LEMMA UnloggedType ==
    ASSUME NotificationsInv, NEW id \in JobIds
    PROVE  Unlogged(id) \in Int
  BY DEF NotificationsInv, NotificationsTypeOK, Unlogged

LEMMA UnloggedNext ==
    ASSUME NotificationsInv', NEW id \in JobIds
    PROVE  Unlogged(id)' \in Int
  BY DEF NotificationsInv, NotificationsTypeOK, Unlogged

(* What a worker's step may do to the log and the mails.                   *)
LEMMA SentKept ==
    ASSUME NotificationsInv, NotificationsInv', SentBacked, NEW w,
           \A i \in JobIds : ~Simulated(i) =>
              \/ Unreported(i)' \subseteq Unreported(i) /\ Unlogged(i) <= Unlogged(i)'
              \/ /\ w \in Unreported(i) /\ Unreported(i)' \subseteq Unreported(i) \ {w}
                 /\ Unlogged(i) <= Unlogged(i)' + 1
              \/ Unreported(i)' \subseteq Unreported(i) \cup {w} /\ Unlogged(i) + 1 <= Unlogged(i)'
    PROVE  SentBacked'
  <1> SUFFICES ASSUME NEW i \in JobIds, ~Simulated(i)
               PROVE  IsFiniteSet(Unreported(i)') /\ Cardinality(Unreported(i)') <= Unlogged(i)'
    BY DEF SentBacked, Simulated
  <1>1. IsFiniteSet(Unreported(i)) /\ Cardinality(Unreported(i)) <= Unlogged(i)
    BY DEF SentBacked
  <1>2. Unlogged(i) \in Int
    BY UnloggedType
  <1>3. Unlogged(i)' \in Int
    BY UnloggedNext
  <1> QED BY <1>1, <1>2, <1>3, CountKept

(* A step that writes no row and sends nothing, and at most ends runs or   *)
(* begins them.                                                            *)
LEMMA SentQuiet ==
    ASSUME NotificationsInv, NotificationsInv', SentBacked, UNCHANGED <<mails, log>>,
           \A i \in JobIds : ~Simulated(i) => Unreported(i)' \subseteq Unreported(i)
    PROVE  SentBacked'
  <1>1. \A i \in JobIds : Unlogged(i) <= Unlogged(i)'
    BY UnloggedType DEF Unlogged
  <1> QED BY <1>1, SentKept

LEMMA HandlerSent ==
    ASSUME NotificationsInv, NotificationsInv', SentBacked,
           NEW w \in Workers, NEW id \in JobIds, id = running[w],
           \/ ReadPortfolio(w) \/ Connect(w) \/ Connected(w) \/ SendMail(w) \/ LogMail(w)
    PROVE  SentBacked'
  <1>1. UNCHANGED running
    BY DEF ReadPortfolio, Connect, Connected, SendMail, LogMail, Goes
  <1>2. PICK label : at' = [at EXCEPT ![w] = label]
    BY DEF ReadPortfolio, Connect, Connected, SendMail, LogMail, Goes
  <1>3. \A i \in JobIds \ {id} : Unreported(i)' = Unreported(i)
    BY <1>1, <1>2, LogTypes DEF Unreported
  <1>4. Unreported(id)' \subseteq Unreported(id) \cup {w}
    BY <1>1, <1>2, LogTypes DEF Unreported
  <1>5. label # "log-sent" => w \notin Unreported(id)' /\ Unreported(id)' \subseteq Unreported(id)
    BY <1>1, <1>2, LogTypes DEF Unreported
  <1>6. CASE ReadPortfolio(w)
    <2>1. label # "log-sent" /\ UNCHANGED mails
      BY <1>2, <1>6, LogTypes DEF ReadPortfolio, Goes, mailerVars
    <2>2. \A i \in JobIds : log'[i].sent = log[i].sent
      BY <1>6, LogTypes DEF ReadPortfolio, Counts
    <2>3. \A i \in JobIds : Unlogged(i) <= Unlogged(i)'
      BY <2>1, <2>2, UnloggedType DEF Unlogged
    <2>4. \A i \in JobIds : Unreported(i)' \subseteq Unreported(i)
      BY <1>3, <1>5, <2>1
    <2> QED BY <2>3, <2>4, SentKept
  <1>7. CASE Connect(w) \/ Connected(w)
    <2>1. UNCHANGED <<mails, log>>
      BY <1>7 DEF Connect, Connected, mailerVars
    <2>2. ~Simulated(id) => label # "log-sent"
      BY <1>2, <1>7, LogTypes DEF Connect, Connected, Goes
    <2>3. \A i \in JobIds : ~Simulated(i) => Unreported(i)' \subseteq Unreported(i)
      BY <1>3, <1>5, <2>2
    <2> QED BY <2>1, <2>3, SentQuiet
  <1>8. CASE SendMail(w)
    <2>1. UNCHANGED log /\ \A i \in JobIds \ {id} : mails'[i] = mails[i]
      BY <1>8, LogTypes DEF SendMail, Accepted
    <2>2. \A i \in JobIds \ {id} : Unlogged(i) <= Unlogged(i)'
      BY <2>1, UnloggedType DEF Unlogged
    <2>3. \/ label # "log-sent" /\ mails[id] <= mails'[id]
          \/ mails[id] + 1 = mails'[id]
      BY <1>2, <1>8, LogTypes DEF SendMail, Accepted, Goes
    <2>4. \/ label # "log-sent" /\ Unlogged(id) <= Unlogged(id)'
          \/ Unlogged(id) + 1 <= Unlogged(id)'
      <3>1. log'[id].sent = log[id].sent /\ log[id].sent \in Int /\ mails[id] \in Int
        BY <2>1, LogTypes
      <3>2. mails'[id] \in Int
        BY DEF NotificationsInv, NotificationsTypeOK
      <3> QED BY <2>3, <3>1, <3>2 DEF Unlogged
    <2> QED BY <1>3, <1>4, <1>5, <2>2, <2>4, SentKept
  <1>9. CASE LogMail(w)
    <2>1. UNCHANGED mails /\ \A i \in JobIds \ {id} : log'[i] = log[i]
      BY <1>9, LogTypes DEF LogMail, mailerVars
    <2>2. label # "log-sent"
      BY <1>2, <1>9, LogTypes DEF LogMail, Goes
    <2>3. \A i \in JobIds \ {id} : Unlogged(i) <= Unlogged(i)'
      BY <2>1, UnloggedType DEF Unlogged
    <2>4. \/ log'[id].sent = log[id].sent
          \/ w \in Unreported(id) /\ log'[id].sent = log[id].sent + 1
      BY <1>9, LogTypes DEF LogMail, Unreported, Counts
    <2>5. \/ Unlogged(id) <= Unlogged(id)'
          \/ w \in Unreported(id) /\ Unlogged(id) <= Unlogged(id)' + 1
      <3>1. log[id].sent \in Int /\ mails[id] \in Int
        BY LogTypes
      <3> QED BY <2>1, <2>4, <3>1 DEF Unlogged
    <2>6. Unreported(id)' \subseteq Unreported(id) \ {w}
      BY <1>5, <2>2
    <2> QED BY <1>3, <2>3, <2>5, <2>6, SentKept
  <1> QED BY <1>6, <1>7, <1>8, <1>9

(* The other steps neither send nor write.                                 *)
LEMMA OthersSent ==
    ASSUME NotificationsInv, NotificationsInv', SentBacked,
           \/ \E c \in Calls : Enqueue(c)
           \/ \E w \in Workers : CompleteJob(w) \/ FailJob(w) \/ \E id \in JobIds : TakeJob(w, id)
           \/ \E id \in JobIds : BackoffEnds(id) \/ Requeue(id)
           \/ \E p \in Processes : AccountAnswers(p) \/ Crash(p) \/ Restart(p)
           \/ UNCHANGED vars
    PROVE  SentBacked'
  <1>1. UNCHANGED <<mails, log>>
    BY Zenon DEF Enqueue, CompleteJob, FailJob, TakeJob, BackoffEnds, Requeue, AccountAnswers,
           Crash, Restart, vars, mailerVars
  <1>2. \A i \in JobIds : Unreported(i)' \subseteq Unreported(i)
    <2>1. CASE UNCHANGED workerVars
      BY <2>1 DEF Unreported, workerVars
    <2>2. CASE \E w \in Workers : GoIdle(w)
      BY <2>2, LogTypes DEF Unreported, GoIdle
    <2>3. CASE \E w \in Workers, id \in JobIds : TakeJob(w, id)
      BY <2>3, LogTypes DEF Unreported, TakeJob, FirstStep
    <2>4. CASE \E p \in Processes : Crash(p)
      BY <2>4, LogTypes DEF Unreported, Crash
    <2> QED BY Zenon, <2>1, <2>2, <2>3, <2>4
            DEF Enqueue, CompleteJob, FailJob, BackoffEnds, Requeue, AccountAnswers,
                Restart, vars
  <1> QED BY <1>1, <1>2, SentQuiet

(* What becomes of the job records when one is archived.                   *)
LEMMA ArchiveJobs ==
    ASSUME NEW id \in JobIds, NEW outcome, NEW attempts, NEW stalls,
           Archive(id, outcome, attempts, stalls)
    PROVE  /\ jobs'[id].state = outcome /\ jobs'[id].attempts = attempts
           /\ jobs'[id].holder = "none"
           /\ \A i \in JobIds \ {id} :
                 /\ jobs'[i].state \in {"none", jobs[i].state}
                 /\ jobs'[i].attempts \in {0, jobs[i].attempts}
                 /\ jobs'[i].holder \in {"none", jobs[i].holder}
  BY DEF Archive, NoJob

(* A job completes, and a run reports it sent, only after its mail.        *)
LEMMA MailedKept ==
    ASSUME NotificationsInv, MailedFirst,
           \A i \in JobIds : mails[i] <= mails'[i],
           \A v \in Workers :
              at'[v] \in {"log-sent", "complete"} /\ ~Simulated(running'[v])
                  => /\ running'[v] \in JobIds
                     /\ \/ mails'[running'[v]] > 0
                        \/ at[v] \in {"log-sent", "complete"} /\ running'[v] = running[v],
           \A i \in JobIds :
              jobs'[i].state = "completed" /\ ~Simulated(i)
                  => jobs[i].state = "completed" \/ mails[i] > 0,
           \A i \in JobIds : mails'[i] \in Nat
    PROVE  MailedFirst'
  <1>1. ASSUME NEW v \in Workers, at'[v] \in {"log-sent", "complete"}, ~Simulated(running'[v])
        PROVE  mails'[running'[v]] > 0
    <2>1. CASE mails'[running'[v]] > 0
      BY <2>1
    <2>2. CASE at[v] \in {"log-sent", "complete"} /\ running'[v] = running[v]
      <3>1. running[v] \in JobIds /\ mails[running[v]] > 0
        BY <1>1, <2>2 DEF MailedFirst
      <3> QED BY <2>2, <3>1, LogTypes
    <2> QED BY <1>1, <2>1, <2>2
  <1>2. ASSUME NEW i \in JobIds, jobs'[i].state = "completed", ~Simulated(i)
        PROVE  mails'[i] > 0
    <2>1. mails[i] > 0
      BY <1>2 DEF MailedFirst
    <2> QED BY <2>1, LogTypes
  <1> QED BY <1>1, <1>2 DEF MailedFirst, Simulated

LEMMA MailsGrow ==
    ASSUME NotificationsInv, NotificationsInv', [Next]_vars
    PROVE  \A i \in JobIds : mails[i] <= mails'[i] /\ mails'[i] \in Nat
  <1>1. CASE UNCHANGED mails
    BY <1>1, LogTypes
  <1>2. CASE \E id : Accepted(id)
    BY <1>2, LogTypes DEF Accepted
  <1> QED BY Zenon, <1>1, <1>2
          DEF Next, Handle, Enqueue, CompleteJob, FailJob, TakeJob, BackoffEnds, LoseLock,
              RecoverStalled, Requeue, AccountAnswers, Crash, Restart, ReadPortfolio, Connect,
              Connected, SendMail, LogMail, vars, mailerVars

LEMMA HandlerMailed ==
    ASSUME NotificationsInv, NotificationsInv', MailedFirst, [Next]_vars,
           NEW w \in Workers, NEW id \in JobIds, id = running[w],
           \/ ReadPortfolio(w) \/ Connect(w) \/ Connected(w) \/ SendMail(w) \/ LogMail(w)
    PROVE  MailedFirst'
  <1>1. UNCHANGED <<jobs, running>>
    BY DEF ReadPortfolio, Connect, Connected, SendMail, LogMail, Goes, queueVars
  <1>2. PICK label : at' = [at EXCEPT ![w] = label]
    BY DEF ReadPortfolio, Connect, Connected, SendMail, LogMail, Goes
  <1>3. label \in {"log-sent", "complete"} =>
            \/ Simulated(id)
            \/ mails'[id] = mails[id] + 1
            \/ at[w] = "log-sent"
    BY <1>2, LogTypes DEF ReadPortfolio, Connect, Connected, SendMail, LogMail, Goes, Accepted
  <1>4. ASSUME NEW v \in Workers, at'[v] \in {"log-sent", "complete"}, ~Simulated(running'[v])
        PROVE  /\ running'[v] \in JobIds
               /\ \/ mails'[running'[v]] > 0
                  \/ at[v] \in {"log-sent", "complete"} /\ running'[v] = running[v]
    <2>1. running'[v] \in JobIds
      BY <1>4 DEF NotificationsInv, Busy
    <2>2. CASE v = w
      <3>1. \/ mails'[id] = mails[id] + 1
            \/ at[w] = "log-sent"
        BY <1>1, <1>2, <1>3, <1>4, <2>2, LogTypes
      <3>2. mails[id] \in Nat
        BY LogTypes
      <3> QED BY <1>1, <2>1, <2>2, <3>1, <3>2
    <2>3. CASE v # w
      BY <1>1, <1>2, <1>4, <2>1, <2>3, LogTypes
    <2> QED BY <2>2, <2>3
  <1> QED BY <1>1, <1>4, MailsGrow, MailedKept

LEMMA OthersMailed ==
    ASSUME NotificationsInv, NotificationsInv', MailedFirst, [Next]_vars,
           \/ \E c \in Calls : Enqueue(c)
           \/ \E w \in Workers : CompleteJob(w) \/ FailJob(w) \/ \E id \in JobIds : TakeJob(w, id)
           \/ \E id \in JobIds : BackoffEnds(id) \/ RecoverStalled(id) \/ LoseLock(id)
           \/ \E p \in Processes : AccountAnswers(p) \/ Crash(p) \/ Restart(p)
           \/ UNCHANGED vars
    PROVE  MailedFirst'
  <1>1. ASSUME NEW v \in Workers, at'[v] \in {"log-sent", "complete"}
        PROVE  /\ running'[v] \in JobIds
               /\ at[v] \in {"log-sent", "complete"} /\ running'[v] = running[v]
    <2>1. running'[v] \in JobIds
      BY <1>1 DEF NotificationsInv, Busy
    <2>2. CASE UNCHANGED workerVars
      BY <1>1, <2>1, <2>2 DEF workerVars
    <2>3. CASE \E w \in Workers : GoIdle(w)
      BY <1>1, <2>1, <2>3, LogTypes DEF GoIdle
    <2>4. CASE \E w \in Workers, id \in JobIds : TakeJob(w, id)
      BY <1>1, <2>1, <2>4, LogTypes DEF TakeJob, FirstStep
    <2>5. CASE \E p \in Processes : Crash(p)
      BY <1>1, <2>1, <2>5, LogTypes DEF Crash
    <2> QED BY Zenon, <2>2, <2>3, <2>4, <2>5
            DEF Enqueue, CompleteJob, FailJob, BackoffEnds, RecoverStalled, LoseLock, Requeue,
                AccountAnswers, Restart, vars
  <1>2. ASSUME NEW i \in JobIds, jobs'[i].state = "completed", ~Simulated(i)
        PROVE  jobs[i].state = "completed" \/ mails[i] > 0
    <2>1. CASE UNCHANGED jobs
      BY <1>2, <2>1
    <2>2. CASE \E c \in Calls : Enqueue(c)
      BY <1>2, <2>2, LogTypes DEF Enqueue, NoJob
    <2>3. CASE \E w \in Workers, id \in JobIds : TakeJob(w, id)
      BY <1>2, <2>3, LogTypes DEF TakeJob
    <2>4. CASE \E id \in JobIds : BackoffEnds(id)
      BY <1>2, <2>4, LogTypes DEF BackoffEnds
    <2>5. CASE \E id \in JobIds : Requeue(id)
      <3>1. PICK id \in JobIds : Requeue(id)
        BY <2>5
      <3>2. CASE jobs[id].stalls = 0
        BY <1>2, <3>1, <3>2, LogTypes DEF Requeue, Job
      <3>3. CASE jobs[id].stalls # 0
        BY <1>2, <3>1, <3>3, ArchiveJobs DEF Requeue
      <3> QED BY <3>2, <3>3
    <2>6. CASE \E w \in Workers : FailJob(w)
      <3>1. PICK w \in Workers : FailJob(w)
        BY <2>6
      <3>2. PICK id \in JobIds : id = running[w]
        BY Zenon, <3>1 DEF FailJob, NotificationsInv, Busy
      <3>3. CASE UNCHANGED jobs
        BY <1>2, <3>3
      <3>4. CASE \E spent : jobs' = [jobs EXCEPT ![id].state = "delayed",
                                       ![id].attempts = spent, ![id].holder = "none"]
        BY <1>2, <3>4, LogTypes DEF Job
      <3>5. CASE \E spent : Archive(id, "failed", spent, jobs[id].stalls)
        BY <1>2, <3>5, ArchiveJobs
      <3> QED BY Zenon, <3>1, <3>2, <3>3, <3>4, <3>5 DEF FailJob
    <2>7. CASE \E w \in Workers : CompleteJob(w)
      <3>1. PICK w \in Workers : CompleteJob(w)
        BY <2>7
      <3>2. ~Simulated(running[w]) => mails[running[w]] > 0
        BY <3>1 DEF CompleteJob, MailedFirst
      <3>3. PICK id \in JobIds : id = running[w]
        BY <3>1 DEF CompleteJob, NotificationsInv, Busy
      <3>4. CASE UNCHANGED jobs
        BY <1>2, <3>4
      <3>5. CASE Archive(id, "completed", jobs[id].attempts, jobs[id].stalls)
        BY <1>2, <3>2, <3>3, <3>5, ArchiveJobs
      <3> QED BY <3>1, <3>3, <3>4, <3>5 DEF CompleteJob
    <2> QED BY <2>1, <2>2, <2>3, <2>4, <2>5, <2>6, <2>7
            DEF RecoverStalled, LoseLock, AccountAnswers, Crash, Restart, vars, queueVars
  <1> QED BY <1>1, <1>2, MailsGrow, MailedKept

(* Failures are never taken from the log.                                  *)
LEMMA FailuresGrow ==
    ASSUME NotificationsInv, NotificationsInv', [Next]_vars
    PROVE  \A i \in JobIds : Failures(i) <= Failures(i)' /\ Failures(i)' \in Nat
  <1>1. CASE UNCHANGED log
    BY <1>1, LogTypes DEF Failures
  <1>2. CASE \E w \in Workers : ReadPortfolio(w)
    BY <1>2, LogTypes DEF ReadPortfolio, Failures, Counts
  <1>3. CASE \E w \in Workers : LogMail(w)
    BY SMTT(20), <1>3, LogTypes DEF LogMail, Failures, Counts
  <1> QED BY Zenon, <1>1, <1>2, <1>3
          DEF Next, Handle, Enqueue, CompleteJob, FailJob, TakeJob, BackoffEnds, LoseLock,
              RecoverStalled, Requeue, AccountAnswers, Crash, Restart, Connect, Connected,
              SendMail, vars

(* A step after which nobody but one worker is about to count a failure.   *)
LEMMA LoggedKept ==
    ASSUME NotificationsInv, FailuresLogged, [Next]_vars, NotificationsInv',
           \A i \in JobIds :
              jobs'[i].attempts <= jobs[i].attempts \/ jobs'[i].attempts <= Failures(i),
           \A v \in Workers : at'[v] = "fail" /\ jobs'[running'[v]].holder = v
              => \/ /\ at[v] = "fail" /\ running'[v] = running[v]
                    /\ jobs[running[v]].holder = v
                    /\ jobs'[running[v]].attempts = jobs[running[v]].attempts
                 \/ \E i \in JobIds :
                       running'[v] = i /\ jobs'[i].attempts + 1 <= Failures(i)'
    PROVE  FailuresLogged'
  <1>1. ASSUME NEW i \in JobIds PROVE jobs'[i].attempts <= Failures(i)'
    <2>1. jobs[i].attempts <= Failures(i)
      BY DEF FailuresLogged
    <2>2. Failures(i) <= Failures(i)' /\ Failures(i) \in Nat /\ Failures(i)' \in Nat
      BY FailuresGrow, LogTypes
    <2>3. jobs[i].attempts \in Int /\ jobs'[i].attempts \in Int
      BY DEF NotificationsInv, NotificationsTypeOK
    <2> QED BY <2>1, <2>2, <2>3
  <1>2. ASSUME NEW v \in Workers, at'[v] = "fail", jobs'[running'[v]].holder = v,
               NEW i \in JobIds, i = running'[v]
        PROVE  jobs'[i].attempts + 1 <= Failures(i)'
    <2>1. CASE /\ at[v] = "fail" /\ running'[v] = running[v]
               /\ jobs[running[v]].holder = v
               /\ jobs'[running[v]].attempts = jobs[running[v]].attempts
      <3>1. jobs[i].attempts + 1 <= Failures(i)
        BY <1>2, <2>1 DEF FailuresLogged
      <3>2. Failures(i) <= Failures(i)' /\ Failures(i) \in Nat /\ Failures(i)' \in Nat
        BY FailuresGrow, LogTypes
      <3>3. jobs[i].attempts \in Int /\ jobs'[i].attempts = jobs[i].attempts
        BY <1>2, <2>1 DEF NotificationsInv, NotificationsTypeOK
      <3> QED BY <3>1, <3>2, <3>3
    <2> QED BY <1>2, <2>1
  <1>3. \A v \in Workers : at'[v] = "fail" => running'[v] \in JobIds
    BY DEF NotificationsInv, Busy
  <1>4. (\A i \in JobIds : jobs[i].attempts <= Failures(i))'
    BY <1>1
  <1>5. (\A v \in Workers : at[v] = "fail" /\ jobs[running[v]].holder = v
            => jobs[running[v]].attempts + 1 <= Failures(running[v]))'
    <2> SUFFICES ASSUME NEW v \in Workers, (at[v] = "fail" /\ jobs[running[v]].holder = v)'
                 PROVE  (jobs[running[v]].attempts + 1 <= Failures(running[v]))'
      OBVIOUS
    <2>1. PICK i \in JobIds : i = running'[v]
      BY <1>3
    <2>2. jobs'[i].attempts + 1 <= Failures(i)'
      BY <1>2, <2>1
    <2>3. (i = running[v])'
      BY <2>1
    <2> QED BY <2>2, <2>3 DEF Failures
  <1> QED BY <1>4, <1>5 DEF FailuresLogged

(* A step that ends runs, and takes jobs from their workers, at most.      *)
LEMMA QuietLogged ==
    ASSUME NotificationsInv, NotificationsInv', FailuresLogged, [Next]_vars,
           \A i \in JobIds :
              /\ jobs'[i].attempts <= jobs[i].attempts \/ jobs'[i].attempts <= Failures(i)
              /\ \/ jobs'[i].holder = "none"
                 \/ jobs'[i].holder = jobs[i].holder /\ jobs'[i].attempts = jobs[i].attempts,
           \A v \in Workers :
              at'[v] = "fail" => at[v] = "fail" /\ running'[v] = running[v]
    PROVE  FailuresLogged'
  <1>1. ASSUME NEW v \in Workers, at'[v] = "fail", jobs'[running'[v]].holder = v
        PROVE  /\ at[v] = "fail" /\ running'[v] = running[v]
               /\ jobs[running[v]].holder = v
               /\ jobs'[running[v]].attempts = jobs[running[v]].attempts
    <2>1. running'[v] \in JobIds
      BY <1>1 DEF NotificationsInv, Busy
    <2>2. v # "none"
      BY NotificationsAssumption
    <2> QED BY <1>1, <2>1, <2>2
  <1> QED BY <1>1, LoggedKept

LEMMA HandlerLogged ==
    ASSUME NotificationsInv, NotificationsInv', FailuresLogged, [Next]_vars,
           NEW w \in Workers, NEW id \in JobIds, id = running[w],
           \/ ReadPortfolio(w) \/ Connect(w) \/ Connected(w) \/ SendMail(w) \/ LogMail(w)
    PROVE  FailuresLogged'
  <1>1. UNCHANGED <<jobs, running>>
    BY DEF ReadPortfolio, Connect, Connected, SendMail, LogMail, Goes, queueVars
  <1>2. PICK label : at' = [at EXCEPT ![w] = label]
    BY DEF ReadPortfolio, Connect, Connected, SendMail, LogMail, Goes
  <1>3. label = "fail" => Failures(id)' = Failures(id) + 1
    <2>1. CASE ReadPortfolio(w)
      BY <1>2, <2>1, LogTypes DEF ReadPortfolio, Goes, Failures, Counts
    <2>2. CASE LogMail(w)
      BY <1>2, <2>2, LogTypes DEF LogMail, Goes, Failures, Counts
    <2> QED BY <1>2, <2>1, <2>2, LogTypes DEF Connect, Connected, SendMail, Goes
  <1>4. jobs[id].attempts <= Failures(id) /\ Failures(id) \in Nat /\ jobs[id].attempts \in Nat
    BY LogTypes DEF FailuresLogged, Job
  <1>5. ASSUME NEW v \in Workers, at'[v] = "fail", jobs'[running'[v]].holder = v
        PROVE  \/ /\ at[v] = "fail" /\ running'[v] = running[v]
                  /\ jobs[running[v]].holder = v
                  /\ jobs'[running[v]].attempts = jobs[running[v]].attempts
               \/ \E i \in JobIds : running'[v] = i /\ jobs'[i].attempts + 1 <= Failures(i)'
    <2>1. CASE v # w
      BY <1>1, <1>2, <1>5, <2>1, LogTypes
    <2>2. CASE v = w
      <3>1. label = "fail"
        BY <1>2, <1>5, <2>2, LogTypes
      <3>2. jobs'[id].attempts + 1 <= Failures(id)'
        BY <1>1, <1>3, <1>4, <3>1
      <3> QED BY <1>1, <2>2, <3>2
    <2> QED BY <2>1, <2>2
  <1>6. \A i \in JobIds : jobs'[i].attempts <= jobs[i].attempts
    BY <1>1, LogTypes DEF Job
  <1> QED BY <1>5, <1>6, LoggedKept

LEMMA TakeJobLogged ==
    ASSUME NotificationsInv, NotificationsInv', FailuresLogged, [Next]_vars,
           NEW w \in Workers, NEW id \in JobIds, TakeJob(w, id)
    PROVE  FailuresLogged'
  <1>1. /\ jobs' = [jobs EXCEPT ![id].state = "active", ![id].holder = w]
        /\ running' = [running EXCEPT ![w] = id]
        /\ at' = [at EXCEPT ![w] = FirstStep(id)]
    BY DEF TakeJob
  <1>2. \A i \in JobIds : jobs'[i].attempts = jobs[i].attempts /\ jobs[i].attempts \in Nat
    BY <1>1, LogTypes DEF Job
  <1>3. ASSUME NEW v \in Workers, at'[v] = "fail", jobs'[running'[v]].holder = v
        PROVE  /\ at[v] = "fail" /\ running'[v] = running[v]
               /\ jobs[running[v]].holder = v
               /\ jobs'[running[v]].attempts = jobs[running[v]].attempts
    <2>1. running'[v] \in JobIds
      BY <1>3 DEF NotificationsInv, Busy
    <2>2. v # w /\ at[v] = "fail" /\ running'[v] = running[v]
      BY <1>1, <1>3, LogTypes DEF FirstStep
    <2>3. jobs'[running[v]].holder = v
      BY <1>3, <2>2
    <2>4. running[v] # id
      BY <1>1, <2>2, <2>3, LogTypes DEF Job
    <2>5. jobs'[running[v]] = jobs[running[v]]
      BY <1>1, <2>1, <2>2, <2>4, LogTypes
    <2> QED BY <2>2, <2>3, <2>5
  <1> QED BY <1>2, <1>3, LoggedKept

(* The failure that is counted is in the log.                              *)
LEMMA EndLogged ==
    ASSUME NotificationsInv, NotificationsInv', FailuresLogged, [Next]_vars,
           NEW w \in Workers, NEW id \in JobIds, id = running[w],
           CompleteJob(w) \/ FailJob(w)
    PROVE  FailuresLogged'
  <1>1. \A v \in Workers : at'[v] = "fail" => at[v] = "fail" /\ running'[v] = running[v]
    BY LogTypes DEF CompleteJob, FailJob, GoIdle
  <1>2. \A i \in JobIds : jobs[i].attempts \in Nat
    BY LogTypes DEF Job
  <1>3. CASE UNCHANGED jobs
    BY <1>1, <1>2, <1>3, QuietLogged
  <1>4. CASE CompleteJob(w) /\ Archive(id, "completed", jobs[id].attempts, jobs[id].stalls)
    <2>1. jobs'[id].attempts = jobs[id].attempts /\ jobs'[id].holder = "none"
      BY <1>4, ArchiveJobs
    <2>2. \A i \in JobIds \ {id} : jobs'[i] \in {NoJob, jobs[i]}
      BY <1>4 DEF Archive
    <2>3. \A i \in JobIds : /\ jobs'[i].attempts <= jobs[i].attempts
                            /\ \/ jobs'[i].holder = "none"
                               \/ jobs'[i].holder = jobs[i].holder /\ jobs'[i].attempts = jobs[i].attempts
      BY <1>2, <2>1, <2>2 DEF NoJob
    <2> QED BY <1>1, <2>3, QuietLogged
  <1>5. CASE FailJob(w) /\ HasLock(w)
    <2> DEFINE spent == jobs[id].attempts + 1
    <2>1. spent <= Failures(id)
      BY <1>5 DEF FailJob, HasLock, FailuresLogged
    <2>2. CASE jobs' = [jobs EXCEPT ![id].state = "delayed",
                          ![id].attempts = spent, ![id].holder = "none"]
      <3>1. \A i \in JobIds \ {id} : jobs'[i] = jobs[i]
        BY <2>2, LogTypes
      <3>2. jobs'[id].attempts = spent /\ jobs'[id].holder = "none"
        BY <2>2, LogTypes DEF Job
      <3> QED BY <1>1, <1>2, <2>1, <3>1, <3>2, QuietLogged
    <2>3. CASE Archive(id, "failed", spent, jobs[id].stalls)
      <3>1. jobs'[id].attempts = spent /\ jobs'[id].holder = "none"
        BY <2>3, ArchiveJobs
      <3>2. \A i \in JobIds \ {id} : jobs'[i] \in {NoJob, jobs[i]}
        BY <2>3 DEF Archive
      <3> HIDE DEF spent
      <3>3. \A i \in JobIds : /\ jobs'[i].attempts <= jobs[i].attempts \/ jobs'[i].attempts <= Failures(i)
                              /\ \/ jobs'[i].holder = "none"
                                 \/ jobs'[i].holder = jobs[i].holder /\ jobs'[i].attempts = jobs[i].attempts
        BY <1>2, <2>1, <3>1, <3>2 DEF NoJob
      <3> QED BY <1>1, <3>3, QuietLogged
    <2> QED BY <1>5, <2>2, <2>3 DEF FailJob
  <1> QED BY <1>3, <1>4, <1>5 DEF CompleteJob, FailJob

LEMMA QueueLogged ==
    ASSUME NotificationsInv, NotificationsInv', FailuresLogged, [Next]_vars,
           UNCHANGED workerVars,
           \/ \E c \in Calls : Enqueue(c)
           \/ \E id \in JobIds : BackoffEnds(id) \/ (jobs[id].state = "active" /\ Requeue(id))
    PROVE  FailuresLogged'
  <1>1. \A v \in Workers : at'[v] = "fail" => at[v] = "fail" /\ running'[v] = running[v]
    BY DEF workerVars
  <1>2. \A i \in JobIds : jobs[i].attempts \in Nat
    BY LogTypes DEF Job
  <1>3. ASSUME \A i \in JobIds :
                  /\ jobs'[i].attempts <= jobs[i].attempts
                  /\ \/ jobs'[i].holder = "none"
                     \/ jobs'[i].holder = jobs[i].holder /\ jobs'[i].attempts = jobs[i].attempts
        PROVE  FailuresLogged'
    BY <1>1, <1>3, QuietLogged
  <1>4. CASE \E c \in Calls : Enqueue(c)
    <2>1. PICK c \in Calls : Enqueue(c)
      BY <1>4
    <2>2. PICK id \in JobIds : id = JobId(c)
      BY DEF JobIds
    <2>3. CASE UNCHANGED jobs
      BY <1>2, <1>3, <2>3
    <2>4. CASE jobs' = [jobs EXCEPT ![id] = [NoJob EXCEPT !.state = "waiting"]]
      <3>1. jobs'[id].attempts = 0 /\ jobs'[id].holder = "none"
        BY <2>4, LogTypes DEF NoJob
      <3>2. \A i \in JobIds \ {id} : jobs'[i] = jobs[i]
        BY <2>4, LogTypes
      <3> QED BY <1>2, <1>3, <3>1, <3>2
    <2> QED BY <2>1, <2>2, <2>3, <2>4 DEF Enqueue
  <1>5. ASSUME NEW id \in JobIds, BackoffEnds(id) PROVE FailuresLogged'
    BY <1>2, <1>3, <1>5, LogTypes DEF BackoffEnds, Job
  <1>6. ASSUME NEW id \in JobIds, Requeue(id) PROVE FailuresLogged'
    <2>1. CASE jobs' = [jobs EXCEPT ![id].state = "waiting",
                          ![id].stalls = 1, ![id].holder = "none"]
      <3>1. jobs'[id].attempts = jobs[id].attempts /\ jobs'[id].holder = "none"
        BY <2>1, LogTypes DEF Job
      <3>2. \A i \in JobIds \ {id} : jobs'[i] = jobs[i]
        BY <2>1, LogTypes
      <3> QED BY <1>2, <1>3, <3>1, <3>2
    <2>2. CASE Archive(id, "failed", jobs[id].attempts, 2)
      <3>1. jobs'[id].attempts = jobs[id].attempts /\ jobs'[id].holder = "none"
        BY <2>2, ArchiveJobs
      <3>2. \A i \in JobIds \ {id} : jobs'[i] \in {NoJob, jobs[i]}
        BY <2>2 DEF Archive
      <3> QED BY <1>2, <1>3, <3>1, <3>2 DEF NoJob
    <2> QED BY Zenon, <1>6, <2>1, <2>2 DEF Requeue
  <1> QED BY <1>4, <1>5, <1>6

LEMMA OthersLogged ==
    ASSUME NotificationsInv, NotificationsInv', FailuresLogged, [Next]_vars,
           \/ \E p \in Processes : AccountAnswers(p) \/ Crash(p) \/ Restart(p)
           \/ UNCHANGED vars
    PROVE  FailuresLogged'
  <1>1. UNCHANGED jobs
    BY DEF AccountAnswers, Crash, Restart, vars, queueVars
  <1>2. \A v \in Workers : at'[v] = "fail" => at[v] = "fail" /\ running'[v] = running[v]
    BY DEF AccountAnswers, Crash, Restart, vars, workerVars
  <1>3. \A i \in JobIds : jobs[i].attempts \in Nat
    BY LogTypes DEF Job
  <1> QED BY <1>1, <1>2, <1>3, QuietLogged

Reported == SentBacked /\ MailedFirst /\ FailuresLogged

LEMMA ReportedInit == Init => Reported
  <1> SUFFICES ASSUME Init PROVE Reported
    OBVIOUS
  <1>1. SentBacked
    <2> SUFFICES ASSUME NEW id \in JobIds
                 PROVE  /\ IsFiniteSet(Unreported(id))
                        /\ Cardinality(Unreported(id)) <= Unlogged(id)
      BY DEF SentBacked
    <2>1. Unreported(id) = {}
      BY DEF Init, Unreported
    <2>2. Unlogged(id) = 0
      BY DEF Init, Unlogged
    <2> QED BY <2>1, <2>2, FS_EmptySet
  <1>2. MailedFirst
    BY DEF Init, MailedFirst, NoJob
  <1>3. FailuresLogged
    BY DEF Init, FailuresLogged, Failures, NoJob
  <1> QED BY <1>1, <1>2, <1>3 DEF Reported

LEMMA ReportedNext ==
    ASSUME NotificationsInv, NotificationsInv', Reported, [Next]_vars
    PROVE  Reported'
  <1>1. SentBacked /\ MailedFirst /\ FailuresLogged
    BY DEF Reported
  <1>2. ASSUME NEW w \in Workers, NEW id \in JobIds, id = running[w],
               \/ ReadPortfolio(w) \/ Connect(w) \/ Connected(w) \/ SendMail(w) \/ LogMail(w)
        PROVE  Reported'
    BY <1>1, <1>2, HandlerSent, HandlerMailed, HandlerLogged DEF Reported
  <1>3. ASSUME NEW w \in Workers, NEW id \in JobIds, id = running[w], CompleteJob(w) \/ FailJob(w)
        PROVE  Reported'
    BY <1>1, <1>3, OthersSent, OthersMailed, EndLogged DEF Reported
  <1>4. ASSUME NEW w \in Workers, NEW id \in JobIds, TakeJob(w, id) PROVE Reported'
    BY <1>1, <1>4, OthersSent, OthersMailed, TakeJobLogged DEF Reported
  <1>5. ASSUME \/ \E c \in Calls : Enqueue(c)
               \/ \E id \in JobIds : BackoffEnds(id) \/ RecoverStalled(id) \/ LoseLock(id)
        PROVE  Reported'
    <2>1. UNCHANGED workerVars
      BY Zenon, <1>5 DEF Enqueue, BackoffEnds, RecoverStalled, LoseLock, Requeue
    <2>2. SentBacked'
      BY <1>1, <1>5, OthersSent DEF RecoverStalled, LoseLock
    <2>3. MailedFirst'
      BY <1>1, <1>5, OthersMailed
    <2>4. FailuresLogged'
      BY <1>1, <1>5, <2>1, QueueLogged DEF RecoverStalled, LoseLock
    <2> QED BY <2>2, <2>3, <2>4 DEF Reported
  <1>6. ASSUME \/ \E p \in Processes : AccountAnswers(p) \/ Crash(p) \/ Restart(p)
               \/ UNCHANGED vars
        PROVE  Reported'
    BY <1>1, <1>6, OthersSent, OthersMailed, OthersLogged DEF Reported
  <1>7. ASSUME NEW w \in Workers, Handle(w) PROVE running[w] \in JobIds
    BY <1>7 DEF Handle, NotificationsInv, Busy, ReadPortfolio, Connect, Connected, SendMail,
                LogMail, CompleteJob, FailJob
  <1>8. ASSUME NEW w \in Workers, Handle(w) PROVE Reported'
    <2>1. PICK id \in JobIds : id = running[w]
      BY <1>7, <1>8
    <2> QED BY <1>2, <1>3, <1>8, <2>1 DEF Handle
  <1> QED BY <1>4, <1>5, <1>6, <1>8 DEF Next

(* A `sent` row and a completed job stand for a mail the server accepted,  *)
(* and an attempt counted against a job for a failure that was met.        *)
THEOREM ReportsAreRight == Spec => []ReportsAreTrue
  <1>1. NotificationsInv /\ Reported => ReportsAreTrue
    <2> SUFFICES ASSUME NotificationsInv, Reported, NEW id \in JobIds
                 PROVE  /\ ~Simulated(id) => log[id].sent <= mails[id]
                        /\ jobs[id].state = "completed" /\ ~Simulated(id) => mails[id] > 0
                        /\ jobs[id].attempts <= log[id].failed + log[id].silent
      BY DEF ReportsAreTrue
    <2>1. ASSUME ~Simulated(id) PROVE log[id].sent <= mails[id]
      <3>1. Cardinality(Unreported(id)) \in Nat /\ Cardinality(Unreported(id)) <= Unlogged(id)
        BY <2>1, FS_CardinalityType DEF Reported, SentBacked
      <3>2. log[id].sent \in Nat /\ mails[id] \in Nat
        BY LogTypes
      <3> QED BY <3>1, <3>2, UnloggedType DEF Unlogged
    <2> QED BY <2>1 DEF Reported, MailedFirst, FailuresLogged, Failures
  <1> QED BY <1>1, ReportedInit, ReportedNext, NotificationsAlways, PTL DEF Spec
=============================================================================
