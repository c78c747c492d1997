----------------------------- MODULE IngestJobs -----------------------------
(***************************************************************************)
(* The DJ passage ingest queue (table dj_ingest_jobs): the calls that put  *)
(* jobs in it and the workers (one per server replica) that take them out. *)
(* Every statement is its own transaction, so every statement is a step.   *)
(*                                                                         *)
(* Time is abstracted to what the statements compare it with: whether a    *)
(* job's next_attempt_at has come, and whether its updated_at is older     *)
(* than the lease or than 30 days.                                         *)
(***************************************************************************)
EXTENDS Integers, FiniteSets

CONSTANTS
  Jobs,         \* (song, artist, album) key tuples
  Sources,      \* the configured sources
  Workers,
  Calls,        \* calls of enqueue
  Users,
  None,
  MaxAttempts,  \* MAX_ATTEMPTS
  AutoLimit,    \* AUTO_DAILY_LIMIT
  MaxFaults     \* bound: crashes, failed writes and overrun leases of workers

ASSUME MaxAttemptsAssumption == MaxAttempts \in Nat \ {0}
ASSUME LimitsAssumption == AutoLimit \in Nat /\ MaxFaults \in Nat
ASSUME SourcesAssumption == Sources # {}
ASSUME NoneAssumption == None \notin Jobs \cup Users \cup Calls

VARIABLES
  job,      \* job[j]: the row, or None
  worker,   \* worker[w]: what worker w holds
  call,     \* call[e]: where the enqueue call e is
  faults,   \* faults so far
  overrun,  \* overrun[j]: ghost, a lease on j ran out under a worker
  raced     \* raced[u]: ghost, a lookup of u read the quota while another was about to use it

vars == <<job, worker, call, faults, overrun, raced>>

(* A source has answered when its outcome is found or no_match: the queue and the worker  *)
(* never tell the two apart.                                                            *)
Outcomes == {"answered", "error"}
Results == [Sources -> Outcomes \cup {"none"}]
NoResults == [x \in Sources |-> "none"]
Row == [status : {"queued", "running", "done", "failed"},
        attempts : Nat,
        results : Results,
        due : BOOLEAN,                   \* next_attempt_at <= NOW()
        age : {"new", "stale", "old"},   \* of updated_at
        auto : BOOLEAN, requestedBy : Users,
        today : BOOLEAN]                 \* created_at within a day

ASSUME NoRowAssumption == None \notin Row

Idle == [job |-> None, attempts |-> 0, results |-> NoResults]
NotCalled == [pc |-> "idle", job |-> None, user |-> None, force |-> FALSE]

Holders(j) == {w \in Workers : worker[w].job = j}

Init ==
  /\ job = [j \in Jobs |-> None]
  /\ worker = [w \in Workers |-> Idle]
  /\ call = [e \in Calls |-> NotCalled]
  /\ faults = 0
  /\ overrun = [j \in Jobs |-> FALSE]
  /\ raced = [u \in Users |-> FALSE]

-----------------------------------------------------------------------------
(* Callers.                                                                *)

AutoCountToday(u) ==
  Cardinality({j \in Jobs : /\ job[j] # None /\ job[j].auto /\ job[j].today
                            /\ job[j].requestedBy = u})

Goto(e, pc) == call' = [call EXCEPT ![e].pc = pc]

(* What enqueue answers (queued, already_queued, recently_done) changes no state.       *)
Answer(e) == call' = [call EXCEPT ![e] = [NotCalled EXCEPT !.pc = "done"]]

(* enqueue: INSERT ... ON CONFLICT DO NOTHING. *)
InsertJob(e, u, j, auto, force) ==
  /\ \/ /\ job[j] = None
        /\ job' = [job EXCEPT ![j] =
             [status |-> "queued", attempts |-> 0, results |-> NoResults, due |-> TRUE,
              age |-> "new", auto |-> auto, requestedBy |-> u, today |-> TRUE]]
        /\ Answer(e)
     \/ /\ job[j] # None
        /\ call' = [call EXCEPT ![e] =
             [pc |-> "requeue", job |-> j, user |-> None, force |-> force]]
        /\ UNCHANGED job
  /\ UNCHANGED <<worker, faults, overrun, raced>>

(* admin_ingest: one track of the request. *)
AdminIngest(e) ==
  /\ call[e].pc = "idle"
  /\ \E u \in Users, j \in Jobs, force \in BOOLEAN : InsertJob(e, u, j, FALSE, force)

(* A bug for the mutant runs: the comparison off by one. *)
OneMoreAllowed(u) == AutoCountToday(u) <= AutoLimit
QuotaLeft(u) == AutoCountToday(u) < AutoLimit

AboutToInsert(u) == {e \in Calls : call[e].pc = "insert" /\ call[e].user = u}

(* lookup of a song the store has no passage of: the quota is read, and the job is      *)
(* enqueued by later statements.                                                        *)
Lookup(e) ==
  /\ call[e].pc = "idle"
  /\ \E u \in Users, j \in Jobs :
       /\ IF QuotaLeft(u)
            THEN call' = [call EXCEPT ![e] =
                   [pc |-> "insert", job |-> j, user |-> u, force |-> FALSE]]
            ELSE Answer(e)
       /\ raced' = [raced EXCEPT ![u] = @ \/ AboutToInsert(u) # {}]
  /\ UNCHANGED <<job, worker, faults, overrun>>

AutoEnqueue(e) ==
  /\ call[e].pc = "insert"
  /\ InsertJob(e, call[e].user, call[e].job, TRUE, FALSE)

Requeuable(e, row) ==
  row.status \in {"done", "failed"} /\ (call[e].force \/ row.age = "old")

Requeued(row) ==
  [row EXCEPT !.status = "queued", !.attempts = 0, !.due = TRUE, !.results = NoResults,
              !.age = "new"]

(* UPDATE of a finished job, forced or more than 30 days old. *)
Requeue(e) ==
  LET j == call[e].job IN
  /\ call[e].pc = "requeue"
  /\ \/ /\ Requeuable(e, job[j])
        /\ job' = [job EXCEPT ![j] = Requeued(@)]
        /\ Answer(e)
     \/ /\ ~Requeuable(e, job[j])
        /\ Goto(e, "status")
        /\ UNCHANGED job
  /\ UNCHANGED <<worker, faults, overrun, raced>>

(* SELECT status, some time after the UPDATE matched nothing. *)
ReadStatus(e) ==
  /\ call[e].pc = "status"
  /\ Answer(e)
  /\ UNCHANGED <<job, worker, faults, overrun, raced>>

-----------------------------------------------------------------------------
(* Workers.                                                                *)

(* A bug for the mutant runs: every running job counts as abandoned. *)
EligibleWhileRunning(row) ==
  row # None /\ (row.status = "running" \/ (row.status = "queued" /\ row.due))

(* A bug for the mutant runs: a running job is never taken over. *)
EligibleQueuedOnly(row) == row # None /\ row.status = "queued" /\ row.due

Eligible(row) ==
  /\ row # None
  /\ \/ row.status = "queued" /\ row.due
     \/ row.status = "running" /\ row.age # "new"

(* One UPDATE over a FOR UPDATE SKIP LOCKED subquery.  Any eligible job: the order by   *)
(* next_attempt_at is left out.                                                         *)
Claim(w) ==
  /\ worker[w].job = None
  /\ \E j \in Jobs :
       /\ Eligible(job[j])
       /\ job' = [job EXCEPT ![j].status = "running", ![j].attempts = @ + 1,
                             ![j].age = "new"]
       /\ worker' = [worker EXCEPT ![w] =
            [job |-> j, attempts |-> job[j].attempts + 1,
             results |-> job[j].results]]
  /\ UNCHANGED <<call, faults, overrun, raced>>

(* A bug for the mutant runs: every source is asked again. *)
AllSources(results) == Sources

Pending(results) == {x \in Sources : results[x] # "answered"}

HasError(results) == \E x \in Sources : results[x] = "error"
AllErrors(results) == \A x \in Sources : results[x] = "error"

(* A bug for the mutant runs: an error ends the job at its first attempt. *)
VerdictWithoutRetry(attempts, results) ==
  IF AllErrors(results) THEN "failed" ELSE "done"

Verdict(attempts, results) ==
  IF HasError(results) /\ attempts < MaxAttempts THEN "queued"
  ELSE IF AllErrors(results) THEN "failed" ELSE "done"

(* process: every pending source is fetched and its documents stored (PassageSources,   *)
(* PassageStore); a panic or a failed store counts as an error of that source.          *)
Fetched(results) ==
  {answers \in [Sources -> Outcomes] :
     \A x \in Sources \ Pending(results) : answers[x] = results[x]}

(* process and finish: UPDATE ... WHERE id, whatever became of the row since the claim. *)
Finish(w) ==
  /\ worker[w].job # None
  /\ \E answers \in Fetched(worker[w].results) :
       LET verdict == Verdict(worker[w].attempts, answers) IN
       job' = [job EXCEPT ![worker[w].job] =
         [@ EXCEPT !.status = verdict, !.results = answers,
                   !.due = (verdict # "queued"), !.age = "new"]]
  /\ worker' = [worker EXCEPT ![w] = Idle]
  /\ UNCHANGED <<call, faults, overrun, raced>>

(* The process is killed, or finish fails and its error is only logged: the job stays   *)
(* running, and the worker loop (of the restarted process) claims again.                *)
Crash(w) ==
  /\ worker[w].job # None
  /\ faults < MaxFaults
  /\ faults' = faults + 1
  /\ worker' = [worker EXCEPT ![w] = Idle]
  /\ UNCHANGED <<job, call, overrun, raced>>

-----------------------------------------------------------------------------
(* Time.                                                                   *)

BackoffEnds(j) ==
  /\ job[j] # None /\ ~job[j].due
  /\ job' = [job EXCEPT ![j].due = TRUE]
  /\ UNCHANGED <<worker, call, faults, overrun, raced>>

(* The lease of a job runs out: of one that nobody holds, or under a slow worker.       *)
LeaseEnds(j) ==
  /\ job[j] # None /\ job[j].status = "running" /\ job[j].age = "new"
  /\ job' = [job EXCEPT ![j].age = "stale"]
  /\ \/ Holders(j) = {} /\ UNCHANGED <<faults, overrun>>
     \/ /\ Holders(j) # {}
        /\ faults < MaxFaults
        /\ faults' = faults + 1
        /\ overrun' = [overrun EXCEPT ![j] = TRUE]
  /\ UNCHANGED <<worker, call, raced>>

(* A month without an update of the job: the day since its creation is over too.  The   *)
(* day on its own is left out, it only ever lowers a count.                             *)
MonthPasses(j) ==
  /\ job[j] # None /\ job[j].status \in {"done", "failed"} /\ job[j].age = "new"
  /\ job' = [job EXCEPT ![j].age = "old", ![j].today = FALSE]
  /\ UNCHANGED <<worker, call, faults, overrun, raced>>

Enqueue(e) == AutoEnqueue(e) \/ Requeue(e) \/ ReadStatus(e)
Work(w) == Claim(w) \/ Finish(w)

Next ==
  \/ \E e \in Calls : AdminIngest(e) \/ Lookup(e) \/ Enqueue(e)
  \/ \E w \in Workers : Work(w) \/ Crash(w)
  \/ \E j \in Jobs : BackoffEnds(j) \/ LeaseEnds(j) \/ MonthPasses(j)

(* Time passes, and the worker loop never stops: it sleeps only when it found nothing.  *)
Fairness ==
  /\ \A w \in Workers : WF_vars(Work(w))
  /\ \A j \in Jobs : WF_vars(BackoffEnds(j)) /\ WF_vars(LeaseEnds(j))

Spec == Init /\ [][Next]_vars
FairSpec == Spec /\ Fairness

-----------------------------------------------------------------------------
TypeOK ==
  /\ job \in [Jobs -> Row \cup {None}]
  /\ worker \in [Workers -> [job : Jobs \cup {None}, attempts : Nat, results : Results]]
  /\ call \in [Calls -> [pc : {"idle", "insert", "requeue", "status", "done"},
                         job : Jobs \cup {None}, user : Users \cup {None},
                         force : BOOLEAN]]
  /\ faults \in 0 .. MaxFaults
  /\ overrun \in [Jobs -> BOOLEAN]
  /\ raced \in [Users -> BOOLEAN]

(* "Each is processed once even with concurrent claimers": unless a job outlived its    *)
(* lease, at most one worker holds it, the row is still running under that worker's     *)
(* claim, and so the worker's unconditional finish overwrites nobody's work.            *)
OneHolderPerJob ==
  \A j \in Jobs : ~overrun[j] =>
    \A w \in Holders(j) :
      /\ Holders(j) = {w}
      /\ job[j].status = "running"
      /\ job[j].attempts = worker[w].attempts

(* What a source has answered is kept until the job is enqueued anew: no retry, crash   *)
(* or takeover asks a source again that said found or no_match.                         *)
AnswersKept ==
  [][\A j \in Jobs :
       (job[j] # None /\ ~overrun[j]) =>
         \/ \A x \in Sources : job[j].results[x] = "answered" =>
                                 job'[j].results[x] = "answered"
         \/ job[j].status \in {"done", "failed"} /\ job'[j].attempts = 0]_vars

(* A finished job is finished for a reason: failed means every source errs, done with a *)
(* source in error means the attempts are used up; a job that waits for a retry has an  *)
(* error to retry and attempts left; and only crashes take a job beyond MAX_ATTEMPTS,   *)
(* once each (one that kills its worker is claimed again without a limit).              *)
VerdictsAreEarned ==
  \A j \in Jobs : (job[j] # None /\ ~overrun[j]) =>
    LET row == job[j] IN
    /\ row.status = "failed" => AllErrors(row.results)
    /\ row.status = "done" => ~AllErrors(row.results)
    /\ (row.status \in {"done", "failed"} /\ HasError(row.results)) =>
         row.attempts >= MaxAttempts
    /\ (row.status = "queued" /\ row.attempts > 0) =>
         HasError(row.results) /\ row.attempts < MaxAttempts
    /\ row.attempts <= MaxAttempts + faults

(* Whatever crashes, retries and takeovers happen, a job that was enqueued is settled.  *)
JobsSettle ==
  \A j \in Jobs :
    (job[j] # None /\ job[j].status \in {"queued", "running"}) ~>
      (job[j] # None /\ job[j].status \in {"done", "failed"})

(* "Auto-queue ... respecting quota": lookups never have more than AutoLimit jobs made  *)
(* for a user within a day, unless two of the user's lookups overlap: the quota is read *)
(* by one statement and used by a later one.                                            *)
QuotaRespected == \A u \in Users : raced[u] \/ AutoCountToday(u) <= AutoLimit
=============================================================================
