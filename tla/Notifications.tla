--------------------------- MODULE Notifications ---------------------------
(***************************************************************************)
(* The e-mail pipeline: the enqueue helpers with their job ids, BullMQ's   *)
(* `notifications` queue with its priorities, attempts and bounded         *)
(* archives, the worker's handlers, the mailer with its cached transporter *)
(* and the audit table notification_log.  One action is one round trip.    *)
(*                                                                         *)
(* A process runs several jobs at once; each of these slots is a member of *)
(* Workers.  The SMTP server and BullMQ are modelled from how the code     *)
(* uses them.                                                              *)
(***************************************************************************)
EXTENDS Naturals, Sequences

CONSTANTS
    Calls,          \* calls of the enqueue helpers
    Kind,           \* of each: the name of the job it adds
    Subject,        \* of each: the order, or the user and date, of its job id
    Synthetic,      \* the calls whose recipient is a bot's or test's address
    Processes, Workers, ProcessOf,  \* worker processes and their slots
    SmtpConfigured, \* SMTP_HOST is set
    MaxAttempts,    \* 5 in the code
    Keep,           \* jobs kept: 500 completed and 2000 failed in the code
    MaxFaults       \* bound: refused calls, lost answers, lost locks, crashes

Kinds == {"trade-confirmation", "otp-email", "daily-pnl-summary"}
Outcomes == {"completed", "failed"}

(* One-time passwords get a fresh job each; the others name their subject. *)
JobId(c) ==
    [name |-> Kind[c], about |-> IF Kind[c] = "otp-email" THEN c ELSE Subject[c]]

JobIds == {JobId(c) : c \in Calls}
NoId == [name |-> "none", about |-> "none"]
Priority(id) ==
    CASE id.name = "otp-email" -> 3
      [] id.name = "trade-confirmation" -> 5
      [] id.name = "daily-pnl-summary" -> 8

Simulated(id) == \E c \in Synthetic : JobId(c) = id

ASSUME NotificationsAssumption ==
    /\ Kind \in [Calls -> Kinds]
    /\ Synthetic \subseteq Calls
    /\ \A c, d \in Calls : JobId(c) = JobId(d) => (c \in Synthetic <=> d \in Synthetic)
    /\ ProcessOf \in [Workers -> Processes]
    /\ SmtpConfigured \in BOOLEAN
    /\ MaxAttempts \in Nat \ {0} /\ MaxFaults \in Nat
    /\ Keep \in [Outcomes -> Nat \ {0}]
    /\ "none" \notin Workers

VARIABLES
    made,       \* the calls that have been made
    jobs,       \* the job records of the queue
    ended,      \* the archives of completed and failed jobs, newest first
    at,         \* of each worker: the next thing its handler does
    running,    \* of each worker: the job it has
    transporter,\* of each process: the state of _transporterPromise
    accounts,   \* of each process: test accounts asked for since its start
    mails,      \* of each job id: mails the SMTP server accepted
    log,        \* notification_log: rows of each job id, and failures without one
    added,      \* history: how often each job was created
    excused,    \* history: runs that may have mailed with nobody knowing
    faults

queueVars == <<made, jobs, ended, added>>
workerVars == <<at, running>>
mailerVars == <<transporter, accounts, mails>>
historyVars == <<excused, faults>>
vars == <<queueVars, workerVars, mailerVars, log, historyVars>>

NoJob == [state |-> "none", attempts |-> 0, stalls |-> 0, holder |-> "none"]

Init ==
    /\ made = {}
    /\ jobs = [id \in JobIds |-> NoJob]
    /\ ended = [outcome \in Outcomes |-> <<>>]
    /\ at = [w \in Workers |-> "idle"]
    /\ running = [w \in Workers |-> NoId]
    /\ transporter = [p \in Processes |-> "none"]
    /\ accounts = [p \in Processes |-> 0]
    /\ mails = [id \in JobIds |-> 0]
    /\ log = [id \in JobIds |-> [sent |-> 0, failed |-> 0, silent |-> 0]]
    /\ added = [id \in JobIds |-> 0]
    /\ excused = [id \in JobIds |-> 0]
    /\ faults = 0

Fault == faults < MaxFaults /\ faults' = faults + 1

-----------------------------------------------------------------------------
(* The queue.                                                              *)

(* BullMQ ignores an add whose job id it still has.                        *)
Enqueue(c) ==
    LET id == JobId(c) IN
    /\ c \notin made
    /\ made' = made \cup {c}
    /\ IF jobs[id].state = "none"
       THEN /\ jobs' = [jobs EXCEPT ![id] = [NoJob EXCEPT !.state = "waiting"]]
            /\ added' = [added EXCEPT ![id] = @ + 1]
       ELSE UNCHANGED <<jobs, added>>
    /\ UNCHANGED <<ended, workerVars, mailerVars, log, historyVars>>

Waiting == {id \in JobIds : jobs[id].state = "waiting"}

(* Only a summary looks at the user's balance and holdings first.          *)
FirstStep(id) == IF id.name = "daily-pnl-summary" THEN "portfolio" ELSE "connect"

(* The most urgent goes first; among equals any.                           *)
TakeJob(w, id) ==
    /\ at[w] = "idle"
    /\ id \in Waiting
    /\ \A other \in Waiting : Priority(id) <= Priority(other)
    /\ jobs' = [jobs EXCEPT ![id].state = "active", ![id].holder = w]
    /\ running' = [running EXCEPT ![w] = id]
    /\ at' = [at EXCEPT ![w] = FirstStep(id)]
    /\ UNCHANGED <<made, ended, added, mailerVars, log, historyVars>>

(* The job enters the archive of its outcome, which drops its oldest job.  *)
Archive(id, outcome, attempts, stalls) ==
    LET longer == <<id>> \o ended[outcome]
        room == Keep[outcome]
        kept == IF Len(longer) <= room THEN longer ELSE SubSeq(longer, 1, room)
        dropped == {longer[n] : n \in room + 1 .. Len(longer)}
    IN  /\ ended' = [ended EXCEPT ![outcome] = kept]
        /\ jobs' = [i \in JobIds |->
              IF i = id
              THEN [state |-> outcome, attempts |-> attempts, stalls |-> stalls, holder |-> "none"]
              ELSE IF i \in dropped THEN NoJob ELSE jobs[i]]

HasLock(w) == jobs[running[w]].holder = w

GoIdle(w) ==
    /\ at' = [at EXCEPT ![w] = "idle"]
    /\ running' = [running EXCEPT ![w] = NoId]

(* A worker that lost the job's lock gets an error, and nothing changes.   *)
CompleteJob(w) ==
    LET id == running[w] IN
    /\ at[w] = "complete"
    /\ IF HasLock(w)
       THEN Archive(id, "completed", jobs[id].attempts, jobs[id].stalls)
       ELSE UNCHANGED <<jobs, ended>>
    /\ GoIdle(w)
    /\ UNCHANGED <<made, added, mailerVars, log, historyVars>>

FailJob(w) ==
    LET id == running[w]
        spent == jobs[id].attempts + 1
    IN  /\ at[w] = "fail"
        /\ IF HasLock(w)
           THEN IF spent < MaxAttempts
                THEN /\ jobs' = [jobs EXCEPT ![id].state = "delayed",
                                   ![id].attempts = spent, ![id].holder = "none"]
                     /\ UNCHANGED ended
                ELSE Archive(id, "failed", spent, jobs[id].stalls)
           ELSE UNCHANGED <<jobs, ended>>
        /\ GoIdle(w)
        /\ UNCHANGED <<made, added, mailerVars, log, historyVars>>

(* Mutant: no backoff ever ends.                                           *)
BackoffStays(id) == FALSE

BackoffEnds(id) ==
    /\ jobs[id].state = "delayed"
    /\ jobs' = [jobs EXCEPT ![id].state = "waiting"]
    /\ UNCHANGED <<made, ended, added, workerVars, mailerVars, log, historyVars>>

(* A stalled job is run again once; the second time it fails.              *)
Requeue(id) ==
    /\ IF jobs[id].stalls = 0
       THEN /\ jobs' = [jobs EXCEPT ![id].state = "waiting",
                          ![id].stalls = 1, ![id].holder = "none"]
            /\ UNCHANGED ended
       ELSE Archive(id, "failed", jobs[id].attempts, 2)
    /\ excused' = [excused EXCEPT ![id] = @ + 1]
    /\ UNCHANGED <<made, added, workerVars, mailerVars, log>>

Abandoned(id) == running[jobs[id].holder] # id

RecoverStalled(id) ==
    /\ jobs[id].state = "active"
    /\ Abandoned(id)
    /\ Requeue(id)
    /\ UNCHANGED faults

(* The lock runs out under a worker that goes on.                          *)
LoseLock(id) ==
    /\ jobs[id].state = "active"
    /\ ~Abandoned(id)
    /\ Fault
    /\ Requeue(id)

-----------------------------------------------------------------------------
(* The handlers.                                                           *)

Goes(w, label) == at' = [at EXCEPT ![w] = label] /\ UNCHANGED running

(* The two queries of a summary: if one throws, no row is written.         *)
ReadPortfolio(w) ==
    /\ at[w] = "portfolio"
    /\ \/ Goes(w, "connect") /\ UNCHANGED <<log, faults>>
       \/ /\ Fault
          /\ log' = [log EXCEPT ![running[w]].silent = @ + 1]
          /\ Goes(w, "fail")
    /\ UNCHANGED <<queueVars, mailerVars, excused>>

(* Mutant: what is cached is the transporter, not the promise of it.       *)
LacksTransporter(p) == transporter[p] \in {"none", "creating"}

NeedsTransporter(p) == transporter[p] = "none"

(* getTransporter.  A real server's transporter is there at once; a test   *)
(* account is asked for over the network.                                  *)
Connect(w) ==
    LET p == ProcessOf[w] IN
    /\ at[w] = "connect"
    /\ IF Simulated(running[w])
       THEN Goes(w, "log-sent") /\ UNCHANGED <<transporter, accounts>>
       ELSE /\ Goes(w, "await")
            /\ IF NeedsTransporter(p)
               THEN /\ transporter' = [transporter EXCEPT ![p] =
                          IF SmtpConfigured THEN "ready" ELSE "creating"]
                    /\ accounts' = [accounts EXCEPT ![p] =
                          IF SmtpConfigured THEN @ ELSE @ + 1]
               ELSE UNCHANGED <<transporter, accounts>>
    /\ UNCHANGED <<queueVars, mails, log, historyVars>>

AccountAnswers(p) ==
    /\ transporter[p] = "creating"
    /\ \/ transporter' = [transporter EXCEPT ![p] = "ready"] /\ UNCHANGED faults
       \/ transporter' = [transporter EXCEPT ![p] = "rejected"] /\ Fault
    /\ UNCHANGED <<queueVars, workerVars, accounts, mails, log, excused>>

(* Everyone who awaits a rejected promise gets its error, then and later.  *)
Connected(w) ==
    /\ at[w] = "await"
    /\ \/ transporter[ProcessOf[w]] = "ready" /\ Goes(w, "send")
       \/ transporter[ProcessOf[w]] = "rejected" /\ Goes(w, "log-failed")
    /\ UNCHANGED <<queueVars, mailerVars, log, historyVars>>

Accepted(id) == mails' = [mails EXCEPT ![id] = @ + 1]

(* The server takes the mail, refuses it, or takes it and its answer is    *)
(* lost, which the handler cannot tell from a refusal.                     *)
SendMail(w) ==
    LET id == running[w] IN
    /\ at[w] = "send"
    /\ \/ Accepted(id) /\ Goes(w, "log-sent") /\ UNCHANGED historyVars
       \/ Fault /\ Goes(w, "log-failed") /\ UNCHANGED <<mails, excused>>
       \/ /\ Fault /\ Accepted(id) /\ Goes(w, "log-failed")
          /\ excused' = [excused EXCEPT ![id] = @ + 1]
    /\ UNCHANGED <<queueVars, transporter, accounts, log>>

(* Mutant: logNotification rethrows.                                       *)
LogMailRethrowing(w) ==
    LET id == running[w]
        field == IF at[w] = "log-sent" THEN "sent" ELSE "failed"
        next == IF at[w] = "log-sent" THEN "complete" ELSE "fail"
    IN  /\ at[w] \in {"log-sent", "log-failed"}
        /\ \/ log' = [log EXCEPT ![id][field] = @ + 1] /\ Goes(w, next) /\ UNCHANGED faults
           \/ log' = [log EXCEPT ![id].silent = @ + 1] /\ Goes(w, "fail") /\ Fault
        /\ UNCHANGED <<queueVars, mailerVars, excused>>

(* Mutant: the handler's catch does not throw the error on.                *)
LogMailSwallowing(w) ==
    LET id == running[w]
        field == IF at[w] = "log-sent" THEN "sent" ELSE "failed"
    IN  /\ at[w] \in {"log-sent", "log-failed"}
        /\ \/ log' = [log EXCEPT ![id][field] = @ + 1] /\ UNCHANGED faults
           \/ log' = [log EXCEPT ![id].silent = @ + 1] /\ Fault
        /\ Goes(w, "complete")
        /\ UNCHANGED <<queueVars, mailerVars, excused>>

(* The row is written if it can be; then the handler returns or throws.    *)
LogMail(w) ==
    LET id == running[w]
        field == IF at[w] = "log-sent" THEN "sent" ELSE "failed"
    IN  /\ at[w] \in {"log-sent", "log-failed"}
        /\ \/ log' = [log EXCEPT ![id][field] = @ + 1] /\ UNCHANGED faults
           \/ log' = [log EXCEPT ![id].silent = @ + 1] /\ Fault
        /\ Goes(w, IF at[w] = "log-sent" THEN "complete" ELSE "fail")
        /\ UNCHANGED <<queueVars, mailerVars, excused>>

Forgets(p) ==
    /\ transporter' = [transporter EXCEPT ![p] = "none"]
    /\ accounts' = [accounts EXCEPT ![p] = 0]

(* A process dies and is started again; its jobs stay active without one.  *)
Crash(p) ==
    /\ Fault
    /\ at' = [w \in Workers |-> IF ProcessOf[w] = p THEN "idle" ELSE at[w]]
    /\ running' = [w \in Workers |-> IF ProcessOf[w] = p THEN NoId ELSE running[w]]
    /\ Forgets(p)
    /\ UNCHANGED <<queueVars, mails, log, excused>>

(* A graceful shutdown waits for the jobs in progress.                     *)
Restart(p) ==
    /\ \A w \in Workers : ProcessOf[w] = p => at[w] = "idle"
    /\ Forgets(p)
    /\ UNCHANGED <<queueVars, workerVars, mails, log, historyVars>>

-----------------------------------------------------------------------------
Handle(w) ==
    \/ ReadPortfolio(w) \/ Connect(w) \/ Connected(w) \/ SendMail(w) \/ LogMail(w)
    \/ CompleteJob(w) \/ FailJob(w)

Next ==
    \/ \E c \in Calls : Enqueue(c)
    \/ \E w \in Workers : Handle(w) \/ (\E id \in JobIds : TakeJob(w, id))
    \/ \E id \in JobIds : BackoffEnds(id) \/ RecoverStalled(id) \/ LoseLock(id)
    \/ \E p \in Processes : AccountAnswers(p) \/ Crash(p) \/ Restart(p)

Spec == Init /\ [][Next]_vars

(* A worker goes on with its job and takes another when one waits; BullMQ  *)
(* ends backoffs and finds stalled jobs; an account request is answered.   *)
FairSpec ==
    /\ Spec
    /\ WF_vars(\E w \in Workers, id \in JobIds : TakeJob(w, id))
    /\ \A w \in Workers : WF_vars(Handle(w))
    /\ \A id \in JobIds : WF_vars(BackoffEnds(id)) /\ WF_vars(RecoverStalled(id))
    /\ \A p \in Processes : WF_vars(AccountAnswers(p))

-----------------------------------------------------------------------------
Labels ==
    {"idle", "portfolio", "connect", "await", "send", "log-sent", "log-failed",
     "complete", "fail"}

(* Type invariant of the queue's records, archives, workers and mailer.    *)
NotificationsTypeOK ==
    /\ made \subseteq Calls
    /\ jobs \in [JobIds ->
          [state : {"none", "waiting", "delayed", "active"} \cup Outcomes,
           attempts : 0 .. MaxAttempts, stalls : 0 .. 2, holder : Workers \cup {"none"}]]
    /\ ended \in [Outcomes -> Seq(JobIds)]
    /\ \A outcome \in Outcomes : Len(ended[outcome]) <= Keep[outcome]
    /\ at \in [Workers -> Labels]
    /\ running \in [Workers -> JobIds \cup {NoId}]
    /\ transporter \in [Processes -> {"none", "creating", "ready", "rejected"}]
    /\ accounts \in [Processes -> Nat]
    /\ mails \in [JobIds -> Nat]
    /\ log \in [JobIds -> [sent : Nat, failed : Nat, silent : Nat]]
    /\ added \in [JobIds -> Nat]
    /\ excused \in [JobIds -> Nat]
    /\ faults \in 0 .. MaxFaults

(* A job mails its user once.  A further mail takes a job whose record the *)
(* archive had dropped and that was added again, an answer the SMTP server *)
(* gave and the worker never got, or a run that lost its lock or process.  *)
(* Retries after failures, audit rows that cannot be written and repeated  *)
(* enqueue calls do not mail twice.                                        *)
DuplicatesExplained ==
    \A id \in JobIds : mails[id] <= added[id] + excused[id]

(* What the system reports of an e-mail is so: a `sent` row and a          *)
(* completed job stand for a mail the server accepted, and every attempt   *)
(* counted against a job stands for a failure, nearly always with its row. *)
ReportsAreTrue ==
    \A id \in JobIds :
        /\ ~Simulated(id) => log[id].sent <= mails[id]
        /\ jobs[id].state = "completed" /\ ~Simulated(id) => mails[id] > 0
        /\ jobs[id].attempts <= log[id].failed + log[id].silent

(* However many jobs a process starts with at once, it asks for one test   *)
(* account: the later ones await the first one's promise.                  *)
OneAccountPerStart == \A p \in Processes : accounts[p] <= 1

(* No accepted job is forgotten: it completes or ends among the failed.    *)
EveryJobEnds ==
    \A id \in JobIds :
        jobs[id].state \in {"waiting", "delayed", "active"}
            ~> jobs[id].state \in Outcomes \cup {"none"}
=============================================================================
