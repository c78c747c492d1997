-------------------------- MODULE IngestJobsProofs --------------------------
(* The safety invariants of IngestJobs, and that answers are kept, hold for any jobs,   *)
(* sources, workers, calls, users and limits.                                           *)
EXTENDS IngestJobs, FiniteSetTheorems, TLAPS

(* What a call will insert or requeue. *)
CallsWellFormed ==
  \A e \in Calls :
    /\ call[e].pc = "insert" => call[e].user \in Users /\ call[e].job \in Jobs
    /\ call[e].pc = "requeue" => call[e].job \in Jobs /\ job[call[e].job] # None

(* VerdictsAreEarned, of one row. *)
Earned(row) ==
  /\ row.status = "failed" => AllErrors(row.results)
  /\ row.status = "done" => ~AllErrors(row.results)
  /\ (row.status \in {"done", "failed"} /\ HasError(row.results)) =>
       row.attempts >= MaxAttempts
  /\ (row.status = "queued" /\ row.attempts > 0) =>
       HasError(row.results) /\ row.attempts < MaxAttempts
  /\ row.attempts <= MaxAttempts + faults

(* While no lease on j ran out under a worker: one worker at most holds j, and holds it *)
(* as the row has it, within its lease; and a running job that nobody holds has cost a  *)
(* fault, so that one more attempt is still accounted for.                              *)
Leased(j) ==
  /\ \A v, w \in Workers : worker[v].job = j /\ worker[w].job = j => v = w
  /\ \A w \in Workers : worker[w].job = j =>
       /\ job[j].status = "running" /\ job[j].age = "new"
       /\ job[j].attempts = worker[w].attempts /\ job[j].results = worker[w].results
  /\ (job[j].status = "running" /\ \A w \in Workers : worker[w].job # j) =>
       job[j].attempts < MaxAttempts + faults

Sound(j) ==
  /\ \A w \in Workers : worker[w].job = j => job[j] # None
  /\ (job[j] # None /\ ~overrun[j]) => Leased(j) /\ Earned(job[j])

(* The jobs AutoCountToday counts, and all jobs. *)
AutoToday(u) == {j \in Jobs : /\ job[j] # None /\ job[j].auto /\ job[j].today
                              /\ job[j].requestedBy = u}
Made == {j \in Jobs : job[j] # None}

(* A lookup of u that nothing raced with and that is about to insert has room to.       *)
HasRoom(u) ==
  ~raced[u] =>
    /\ \A d, e \in AboutToInsert(u) : d = e
    /\ AutoCountToday(u) <= AutoLimit
    /\ AboutToInsert(u) # {} => AutoCountToday(u) < AutoLimit

IInv ==
  /\ TypeOK
  /\ CallsWellFormed
  /\ \A j \in Jobs : Sound(j)
  /\ IsFiniteSet(Made)
  /\ \A u \in Users : HasRoom(u)

-----------------------------------------------------------------------------
LEMMA SoundIsProperty ==
  ASSUME TypeOK, \A j \in Jobs : Sound(j)
  PROVE  OneHolderPerJob /\ VerdictsAreEarned
<1>1. OneHolderPerJob
  <2>. SUFFICES ASSUME NEW j \in Jobs, ~overrun[j], NEW w \in Holders(j)
       PROVE  Holders(j) = {w} /\ job[j].status = "running" /\ job[j].attempts = worker[w].attempts
    BY DEF OneHolderPerJob
  <2>1. w \in Workers /\ worker[w].job = j /\ Leased(j)
    BY DEF Holders, Sound
  <2>. QED
    BY <2>1 DEF Holders, Leased
<1>2. VerdictsAreEarned
  BY DEF VerdictsAreEarned, Sound, Earned
<1>. QED
  BY <1>1, <1>2

LEMMA RowFacts ==
  ASSUME TypeOK, NEW j \in Jobs, job[j] # None
  PROVE  job[j] \in Row
BY DEF TypeOK

(* A job that a step leaves alone. *)
LEMMA JobUnaffected ==
  ASSUME TypeOK, TypeOK', NEW j \in Jobs, Sound(j),
         job'[j] = job[j], overrun'[j] = overrun[j], faults' >= faults,
         \A w \in Workers : \/ worker'[w] = worker[w]
                            \/ worker'[w].job # j /\ worker[w].job # j
  PROVE  Sound(j)'
<1>1. \A w \in Workers : worker'[w].job = j => worker[w].job = j /\ worker'[w] = worker[w]
  OBVIOUS
<1>2. \A w \in Workers : worker[w].job = j => worker'[w].job = j
  OBVIOUS
<1>3. ASSUME job[j] # None, Leased(j), Earned(job[j])
      PROVE  Leased(j)' /\ Earned(job[j])'
  <2>1. job[j].attempts \in Nat /\ faults \in Nat /\ faults' \in Nat /\ MaxAttempts \in Nat
    BY <1>3, MaxAttemptsAssumption, LimitsAssumption DEF TypeOK, Row
  <2>2. Earned(job[j])'
    BY <1>3, <2>1 DEF Earned, HasError, AllErrors
  <2>3. Leased(j)'
    BY <1>1, <1>2, <1>3, <2>1 DEF Leased
  <2>. QED
    BY <2>2, <2>3
<1>. QED
  BY <1>1, <1>3 DEF Sound

(* A job whose row and holders change. *)
LEMMA OneJob ==
  ASSUME IInv, TypeOK', NEW j \in Jobs, Sound(j)', faults' >= faults,
         \A i \in Jobs \ {j} : job'[i] = job[i] /\ overrun'[i] = overrun[i],
         \A w \in Workers : \/ worker'[w] = worker[w]
                            \/ worker'[w].job \in {j, None} /\ worker[w].job \in {j, None}
  PROVE  \A i \in Jobs : Sound(i)'
<1>1. ASSUME NEW i \in Jobs \ {j}
      PROVE  Sound(i)'
  <2>1. i # None
    BY NoneAssumption
  <2>. QED
    BY <2>1, JobUnaffected DEF IInv
<1>. QED
  BY <1>1

-----------------------------------------------------------------------------
(* The quota. *)

LEMMA AutoTodayFinite ==
  ASSUME IsFiniteSet(Made), NEW u \in Users
  PROVE  /\ IsFiniteSet(AutoToday(u)) /\ AutoCountToday(u) \in Nat
         /\ AutoCountToday(u) = Cardinality(AutoToday(u))
<1>1. AutoToday(u) \subseteq Made
  BY DEF AutoToday, Made
<1>. QED
  BY <1>1, FS_Subset, FS_CardinalityType DEF AutoToday, AutoCountToday

(* A step that makes no job by a lookup and lets none begin. *)
LEMMA QuotaUnaffected ==
  ASSUME IInv, NEW u \in Users,
         \A j \in Jobs : (job'[j] # None /\ job'[j].auto /\ job'[j].today /\ job'[j].requestedBy = u)
           => (job[j] # None /\ job[j].auto /\ job[j].today /\ job[j].requestedBy = u),
         \A e \in Calls : (call'[e].pc = "insert" /\ call'[e].user = u)
           => (call[e].pc = "insert" /\ call[e].user = u),
         raced'[u] = raced[u], IsFiniteSet(Made')
  PROVE  HasRoom(u)'
<1>1. AutoToday(u)' \subseteq AutoToday(u)
  BY DEF AutoToday
<1>2. AutoCountToday(u)' <= AutoCountToday(u) /\ AutoCountToday(u)' \in Nat /\ AutoCountToday(u) \in Nat
  <2>1. IsFiniteSet(AutoToday(u))
    BY AutoTodayFinite DEF IInv
  <2>2. Cardinality(AutoToday(u)') <= Cardinality(AutoToday(u)) /\ Cardinality(AutoToday(u)') \in Nat
        /\ Cardinality(AutoToday(u)) \in Nat
    BY <1>1, <2>1, FS_Subset, FS_CardinalityType
  <2>. QED
    BY <2>2 DEF AutoToday, AutoCountToday
<1>3. AboutToInsert(u)' \subseteq AboutToInsert(u)
  BY DEF AboutToInsert
<1>. QED
  BY <1>2, <1>3, LimitsAssumption DEF HasRoom, IInv

LEMMA InitIInv == Init => IInv
<1>. SUFFICES ASSUME Init PROVE IInv
  OBVIOUS
<1>1. TypeOK
  BY LimitsAssumption, NoneAssumption
  DEF Init, TypeOK, Idle, NotCalled, NoResults, Results, Outcomes
<1>2. CallsWellFormed /\ \A j \in Jobs : Sound(j)
  BY NoneAssumption DEF Init, CallsWellFormed, Sound, Idle, NotCalled
<1>3. Made = {} /\ \A u \in Users : AutoToday(u) = {} /\ AboutToInsert(u) = {}
  BY DEF Init, Made, AutoToday, AboutToInsert, NotCalled
<1>4. IsFiniteSet(Made) /\ \A u \in Users : AutoCountToday(u) = 0
  BY <1>3, FS_EmptySet DEF AutoToday, AutoCountToday
<1>. QED
  BY <1>1, <1>2, <1>3, <1>4, LimitsAssumption DEF IInv, HasRoom

-----------------------------------------------------------------------------
(* The calls. *)

(* What an ended call keeps: nothing. *)
LEMMA AnswerFacts ==
  ASSUME TypeOK, NEW e \in Calls, Answer(e)
  PROVE  /\ call' \in [Calls -> [pc : {"idle", "insert", "requeue", "status", "done"},
                                 job : Jobs \cup {None}, user : Users \cup {None},
                                 force : BOOLEAN]]
         /\ call'[e].pc = "done"
         /\ \A d \in Calls \ {e} : call'[d] = call[d]
BY DEF TypeOK, Answer, NotCalled

LEMMA FiniteMade ==
  ASSUME IInv, NEW j, Made' \subseteq Made \cup {j}
  PROVE  IsFiniteSet(Made')
<1>1. IsFiniteSet(Made \cup {j})
  BY FS_AddElement DEF IInv
<1>. QED
  BY <1>1, FS_Subset

(* INSERT ... ON CONFLICT DO NOTHING, by an administrator or by a lookup that has read  *)
(* the quota.                                                                           *)
LEMMA InsertJobKeepsIInv ==
  ASSUME IInv, NEW e \in Calls, NEW u \in Users, NEW j \in Jobs, NEW auto \in BOOLEAN,
         NEW force \in BOOLEAN, InsertJob(e, u, j, auto, force), auto => e \in AboutToInsert(u),
         call[e].pc \in {"idle", "insert"}
  PROVE  IInv'
<1>1. UNCHANGED <<worker, faults, overrun, raced>>
  BY DEF InsertJob
<1>2. TypeOK
  BY DEF IInv
<1>3. CASE job[j] = None
  <2>1. PICK row \in Row : /\ job' = [job EXCEPT ![j] = row]
                           /\ row.status = "queued" /\ row.attempts = 0 /\ row.auto = auto
                           /\ row.requestedBy = u
    <3>. DEFINE new == [status |-> "queued", attempts |-> 0, results |-> NoResults, due |-> TRUE,
                        age |-> "new", auto |-> auto, requestedBy |-> u, today |-> TRUE]
    <3>1. NoResults \in Results
      BY DEF NoResults, Results, Outcomes
    <3>2. new \in Row
      BY <3>1 DEF Row
    <3>3. job' = [job EXCEPT ![j] = new]
      BY <1>3 DEF InsertJob
    <3>. QED
      BY <3>2, <3>3
  <2>2. /\ row # None /\ job' \in [Jobs -> Row \cup {None}] /\ job'[j] = row
        /\ \A i \in Jobs \ {j} : job'[i] = job[i]
    BY <1>2, <2>1, NoRowAssumption DEF TypeOK
  <2>3. Answer(e)
    BY <1>3 DEF InsertJob
  <2>4. TypeOK'
    BY <1>1, <1>2, <2>2, <2>3, AnswerFacts DEF TypeOK
  <2>5. CallsWellFormed'
    BY <1>2, <2>2, <2>3, AnswerFacts DEF IInv, CallsWellFormed
  <2>6. Sound(j)'
    <3>1. \A w \in Workers : worker[w].job # j
      BY <1>3 DEF IInv, Sound
    <3>2. Earned(job[j])' /\ Leased(j)'
      BY <1>1, <1>2, <2>1, <2>2, <3>1, MaxAttemptsAssumption DEF Earned, Leased, TypeOK
    <3>. QED
      BY <1>1, <2>2, <3>2 DEF Sound
  <2>7. \A i \in Jobs : Sound(i)'
    BY <1>1, <1>2, <2>2, <2>4, <2>6, OneJob DEF TypeOK
  <2>8. IsFiniteSet(Made')
    BY <2>2, FiniteMade DEF Made
  <2>9. ASSUME NEW v \in Users PROVE HasRoom(v)'
    <3>1. \A d \in Calls : (call'[d].pc = "insert" /\ call'[d].user = v)
           => (call[d].pc = "insert" /\ call[d].user = v /\ d # e)
      BY <1>2, <2>3, AnswerFacts
    <3>2. CASE v # u \/ ~auto
      BY <1>1, <2>1, <2>2, <2>8, <3>1, <3>2, QuotaUnaffected
    <3>3. CASE v = u /\ auto /\ ~raced[u]
      <4>1. e \in AboutToInsert(u) /\ AboutToInsert(u)' = {} /\ AutoCountToday(u) < AutoLimit
        BY <1>2, <3>1, <3>3 DEF IInv, HasRoom, AboutToInsert
      <4>2. AutoToday(u)' \subseteq AutoToday(u) \cup {j}
        BY <2>2 DEF AutoToday
      <4>3. AutoCountToday(u)' <= AutoCountToday(u) + 1
        <5>1. IsFiniteSet(AutoToday(u)) /\ AutoCountToday(u) = Cardinality(AutoToday(u))
          BY AutoTodayFinite DEF IInv
        <5>2. IsFiniteSet(AutoToday(u) \cup {j})
              /\ Cardinality(AutoToday(u) \cup {j}) <= Cardinality(AutoToday(u)) + 1
          <6>1. Cardinality(AutoToday(u)) \in Nat
            BY <5>1, FS_CardinalityType
          <6>2. /\ IsFiniteSet(AutoToday(u) \cup {j})
                /\ Cardinality(AutoToday(u) \cup {j}) =
                     IF j \in AutoToday(u) THEN Cardinality(AutoToday(u))
                     ELSE Cardinality(AutoToday(u)) + 1
            BY <5>1, FS_AddElement, Zenon
          <6>. QED
            BY <6>1, <6>2
        <5>3. Cardinality(AutoToday(u)') <= Cardinality(AutoToday(u) \cup {j})
          BY <4>2, <5>2, FS_Subset
        <5>4. /\ Cardinality(AutoToday(u)') \in Nat /\ Cardinality(AutoToday(u)) \in Nat
              /\ Cardinality(AutoToday(u) \cup {j}) \in Nat
          BY <4>2, <5>1, <5>2, FS_Subset, FS_CardinalityType
        <5>5. AutoCountToday(u)' = Cardinality(AutoToday(u)')
          BY DEF AutoToday, AutoCountToday
        <5>. QED
          BY <5>1, <5>2, <5>3, <5>4, <5>5
      <4>4. AutoCountToday(u)' \in Nat /\ AutoCountToday(u) \in Nat
        <5>1. IsFiniteSet(AutoToday(u)')
          BY <2>8, FS_Subset DEF AutoToday, Made
        <5>. QED
          BY <5>1, FS_CardinalityType, AutoTodayFinite DEF IInv, AutoToday, AutoCountToday
      <4>. QED
        BY <3>3, <4>1, <4>3, <4>4, LimitsAssumption DEF HasRoom
    <3>4. CASE v = u /\ raced[u]
      BY <1>1, <3>4 DEF HasRoom
    <3>. QED
      BY <3>2, <3>3, <3>4
  <2>. QED
    BY <2>4, <2>5, <2>7, <2>8, <2>9 DEF IInv
<1>4. CASE job[j] # None
  <2>1. UNCHANGED job /\ call' = [call EXCEPT ![e] =
             [pc |-> "requeue", job |-> j, user |-> None, force |-> force]]
    BY <1>4 DEF InsertJob
  <2>2. TypeOK'
    BY <1>1, <1>2, <2>1 DEF TypeOK
  <2>3. CallsWellFormed'
    BY <1>2, <1>4, <2>1 DEF IInv, CallsWellFormed, TypeOK
  <2>4. \A i \in Jobs : Sound(i)'
    BY <1>1, <1>2, <2>1, <2>2, JobUnaffected DEF IInv, TypeOK
  <2>5. IsFiniteSet(Made')
    BY <2>1 DEF IInv, Made
  <2>6. ASSUME NEW v \in Users PROVE HasRoom(v)'
    <3>1. \A d \in Calls : (call'[d].pc = "insert" /\ call'[d].user = v)
           => (call[d].pc = "insert" /\ call[d].user = v)
      BY <1>2, <2>1 DEF TypeOK
    <3>. QED
      BY <1>1, <2>1, <2>5, <3>1, QuotaUnaffected
  <2>. QED
    BY <2>2, <2>3, <2>4, <2>5, <2>6 DEF IInv
<1>. QED
  BY <1>3, <1>4

(* A step that changes at most one row, none of what the quota counts in it, and of the *)
(* calls at most that one ends or goes on to its SELECT.                                *)
LEMMA RowStep ==
  ASSUME IInv, NEW j \in Jobs, NEW row \in Row, job[j] # None,
         job' = [job EXCEPT ![j] = row],
         row.auto = job[j].auto, row.requestedBy = job[j].requestedBy,
         row.today \in {job[j].today, FALSE},
         \A e \in Calls : call'[e] = call[e] \/ call'[e].pc \in {"status", "done"},
         raced' = raced
  PROVE  /\ job' \in [Jobs -> Row \cup {None}] /\ CallsWellFormed' /\ IsFiniteSet(Made')
         /\ \A u \in Users : HasRoom(u)'
         /\ job'[j] = row /\ row # None /\ \A i \in Jobs \ {j} : job'[i] = job[i]
<1>1. /\ job' \in [Jobs -> Row \cup {None}] /\ row # None /\ job'[j] = row
      /\ \A i \in Jobs \ {j} : job'[i] = job[i]
  BY NoRowAssumption DEF IInv, TypeOK
<1>2. CallsWellFormed'
  BY <1>1 DEF IInv, CallsWellFormed
<1>3. IsFiniteSet(Made')
  BY <1>1, FiniteMade DEF Made
<1>4. \A u \in Users : HasRoom(u)'
  BY <1>1, <1>3, QuotaUnaffected
<1>. QED
  BY <1>1, <1>2, <1>3, <1>4

(* A step that changes no row and no worker, and of the calls as above. *)
LEMMA NoRowStep ==
  ASSUME IInv, TypeOK', UNCHANGED <<job, worker, faults, overrun, raced>>,
         \A e \in Calls : call'[e] = call[e] \/ call'[e].pc \in {"status", "done"}
  PROVE  IInv'
<1>1. CallsWellFormed' /\ IsFiniteSet(Made')
  BY DEF IInv, CallsWellFormed, Made
<1>2. \A i \in Jobs : Sound(i)'
  BY JobUnaffected DEF IInv, TypeOK
<1>3. \A u \in Users : HasRoom(u)'
  BY <1>1, QuotaUnaffected
<1>. QED
  BY <1>1, <1>2, <1>3 DEF IInv

LEMMA AdminIngestKeepsIInv ==
  ASSUME IInv, NEW e \in Calls, AdminIngest(e)
  PROVE  IInv'
<1>1. PICK u \in Users, j \in Jobs, force \in BOOLEAN : InsertJob(e, u, j, FALSE, force)
  BY DEF AdminIngest
<1>. QED
  BY <1>1, InsertJobKeepsIInv DEF AdminIngest

LEMMA AutoEnqueueKeepsIInv ==
  ASSUME IInv, NEW e \in Calls, AutoEnqueue(e)
  PROVE  IInv'
<1>1. call[e].user \in Users /\ call[e].job \in Jobs /\ e \in AboutToInsert(call[e].user)
  BY DEF IInv, CallsWellFormed, AutoEnqueue, AboutToInsert
<1>. QED
  BY <1>1, InsertJobKeepsIInv DEF AutoEnqueue

LEMMA LookupKeepsIInv ==
  ASSUME IInv, NEW e \in Calls, Lookup(e)
  PROVE  IInv'
<1>1. PICK u \in Users, j \in Jobs :
        /\ IF QuotaLeft(u)
             THEN call' = [call EXCEPT ![e] =
                    [pc |-> "insert", job |-> j, user |-> u, force |-> FALSE]]
             ELSE Answer(e)
        /\ raced' = [raced EXCEPT ![u] = @ \/ AboutToInsert(u) # {}]
  BY DEF Lookup
<1>2. TypeOK /\ UNCHANGED <<job, worker, faults, overrun>> /\ call[e].pc = "idle"
  BY DEF Lookup, IInv
<1>3. \A d \in Calls \ {e} : call'[d] = call[d]
  BY <1>1, <1>2, AnswerFacts DEF TypeOK
<1>4. \/ QuotaLeft(u) /\ call'[e] = [pc |-> "insert", job |-> j, user |-> u, force |-> FALSE]
      \/ call'[e].pc = "done"
  BY <1>1, <1>2, AnswerFacts DEF TypeOK
<1>5. TypeOK'
  <2>0. raced' \in [Users -> BOOLEAN]
    BY <1>1, <1>2 DEF TypeOK
  <2>1. CASE QuotaLeft(u)
    <3>1. call' \in [Calls -> [pc : {"idle", "insert", "requeue", "status", "done"},
                               job : Jobs \cup {None}, user : Users \cup {None},
                               force : BOOLEAN]]
      <4>. DEFINE begun == [pc |-> "insert", job |-> j, user |-> u, force |-> FALSE]
      <4>1. begun \in [pc : {"idle", "insert", "requeue", "status", "done"},
                       job : Jobs \cup {None}, user : Users \cup {None}, force : BOOLEAN]
        OBVIOUS
      <4>2. call' = [call EXCEPT ![e] = begun]
        BY <1>1, <2>1
      <4>. HIDE DEF begun
      <4>. QED
        BY <1>2, <4>1, <4>2 DEF TypeOK
    <3>. QED
      BY <1>2, <2>0, <3>1 DEF TypeOK
  <2>2. CASE ~QuotaLeft(u)
    <3>1. Answer(e)
      BY <1>1, <2>2
    <3>. QED
      BY <1>2, <2>0, <3>1, AnswerFacts DEF TypeOK
  <2>. QED
    BY <2>1, <2>2
<1>6. CallsWellFormed'
  BY <1>2, <1>3, <1>4 DEF IInv, CallsWellFormed
<1>7. IsFiniteSet(Made')
  BY <1>2 DEF IInv, Made
<1>8. \A i \in Jobs : Sound(i)'
  BY <1>2, <1>5, JobUnaffected DEF IInv, TypeOK
<1>9. ASSUME NEW v \in Users PROVE HasRoom(v)'
  <2>1. AutoCountToday(v)' = AutoCountToday(v)
    BY <1>2 DEF AutoCountToday
  <2>2. AutoCountToday(v) \in Nat
    BY AutoTodayFinite DEF IInv
  <2>3. CASE v # u \/ call'[e].pc = "done"
    <3>1. AboutToInsert(v)' \subseteq AboutToInsert(v)
      BY <1>3, <1>4, <2>3 DEF AboutToInsert
    <3>2. raced[v] => raced'[v]
      BY <1>1, <1>2 DEF TypeOK
    <3>. QED
      BY <2>1, <3>1, <3>2 DEF IInv, HasRoom
  <2>4. CASE v = u /\ QuotaLeft(u)
    <3>. SUFFICES ASSUME ~raced'[u] PROVE HasRoom(u)'
      BY <2>4 DEF HasRoom
    <3>1. AboutToInsert(u) = {}
      BY <1>1, <1>2 DEF TypeOK
    <3>2. AboutToInsert(u)' \subseteq {e}
      BY <1>3, <3>1 DEF AboutToInsert
    <3>3. AutoCountToday(u)' < AutoLimit /\ AutoCountToday(u)' <= AutoLimit
      BY <2>1, <2>2, <2>4, LimitsAssumption DEF QuotaLeft
    <3>. QED
      BY <3>2, <3>3 DEF HasRoom
  <2>. QED
    BY <1>4, <2>3, <2>4
<1>. QED
  BY <1>5, <1>6, <1>7, <1>8, <1>9 DEF IInv

LEMMA RequeueKeepsIInv ==
  ASSUME IInv, NEW e \in Calls, Requeue(e)
  PROVE  IInv'
<1>0. PICK j \in Jobs : j = call[e].job
  BY DEF Requeue, IInv, CallsWellFormed
<1>1. /\ TypeOK /\ job[j] # None /\ job[j] \in Row
      /\ UNCHANGED <<worker, faults, overrun, raced>>
  BY <1>0, RowFacts DEF Requeue, IInv, CallsWellFormed
<1>2. CASE Requeuable(e, job[j]) /\ job' = [job EXCEPT ![j] = Requeued(@)] /\ Answer(e)
  <2>1. NoResults \in Results
    BY DEF NoResults, Results, Outcomes
  <2>2. PICK row \in Row :
          /\ job' = [job EXCEPT ![j] = row]
          /\ row.status = "queued" /\ row.attempts = 0
          /\ row.auto = job[j].auto /\ row.requestedBy = job[j].requestedBy
          /\ row.today = job[j].today
    <3>1. Requeued(job[j]) \in Row
      BY <1>1, <2>1 DEF Requeued, Row
    <3>2. job' = [job EXCEPT ![j] = Requeued(job[j])]
      BY <1>2
    <3>. QED
      BY <1>1, <3>1, <3>2 DEF Requeued, Row
  <2>3. /\ job' \in [Jobs -> Row \cup {None}] /\ CallsWellFormed' /\ IsFiniteSet(Made')
        /\ \A u \in Users : HasRoom(u)'
        /\ job'[j] = row /\ row # None /\ \A i \in Jobs \ {j} : job'[i] = job[i]
    <3>1. \A d \in Calls : call'[d] = call[d] \/ call'[d].pc \in {"status", "done"}
      BY <1>1, <1>2, AnswerFacts
    <3>. QED
      BY <1>1, <2>2, <3>1, RowStep
  <2>4. TypeOK'
    BY <1>1, <1>2, <2>3, AnswerFacts DEF TypeOK
  <2>5. \A i \in Jobs : Sound(i)'
    <3>1. ~overrun[j] => \A w \in Workers : worker[w].job # j
      BY <1>1, <1>2 DEF IInv, Sound, Leased, Requeuable
    <3>2. Sound(j)'
      BY <1>1, <2>2, <2>3, <3>1, MaxAttemptsAssumption DEF Sound, Leased, Earned, TypeOK
    <3>. QED
      BY <1>1, <2>3, <2>4, <3>2, OneJob DEF TypeOK
  <2>. QED
    BY <2>3, <2>4, <2>5 DEF IInv
<1>3. CASE Goto(e, "status") /\ UNCHANGED job
  <2>1. call' \in [Calls -> [pc : {"idle", "insert", "requeue", "status", "done"},
                             job : Jobs \cup {None}, user : Users \cup {None}, force : BOOLEAN]]
        /\ \A d \in Calls : call'[d] = call[d] \/ call'[d].pc = "status"
    BY <1>1, <1>3 DEF Goto, TypeOK
  <2>2. TypeOK'
    BY <1>1, <1>3, <2>1 DEF TypeOK
  <2>. QED
    BY <1>1, <1>3, <2>1, <2>2, NoRowStep
<1>. QED
  BY <1>0, <1>2, <1>3 DEF Requeue

LEMMA ReadStatusKeepsIInv ==
  ASSUME IInv, NEW e \in Calls, ReadStatus(e)
  PROVE  IInv'
<1>1. TypeOK /\ Answer(e) /\ UNCHANGED <<job, worker, faults, overrun, raced>>
  BY DEF ReadStatus, IInv
<1>2. TypeOK'
  BY <1>1, AnswerFacts DEF TypeOK
<1>. QED
  BY <1>1, <1>2, AnswerFacts, NoRowStep

-----------------------------------------------------------------------------
(* The workers and time. *)

LEMMA ClaimKeepsIInv ==
  ASSUME IInv, NEW w \in Workers, Claim(w)
  PROVE  IInv'
<1>1. PICK j \in Jobs :
        /\ Eligible(job[j])
        /\ job' = [job EXCEPT ![j].status = "running", ![j].attempts = @ + 1, ![j].age = "new"]
        /\ worker' = [worker EXCEPT ![w] =
             [job |-> j, attempts |-> job[j].attempts + 1, results |-> job[j].results]]
  BY DEF Claim
<1>2. /\ TypeOK /\ worker[w].job = None /\ UNCHANGED <<call, faults, overrun, raced>>
      /\ job[j] # None /\ job[j] \in Row
  BY <1>1, RowFacts DEF Claim, IInv, Eligible
<1>3. PICK row \in Row :
        /\ job' = [job EXCEPT ![j] = row]
        /\ row.status = "running" /\ row.attempts = job[j].attempts + 1 /\ row.age = "new"
        /\ row.results = job[j].results /\ row.auto = job[j].auto
        /\ row.requestedBy = job[j].requestedBy /\ row.today = job[j].today
  <2>. DEFINE attempts == job[j].attempts + 1
              new == [job[j] EXCEPT !.status = "running", !.attempts = attempts, !.age = "new"]
  <2>1. new \in Row
    <3>1. attempts \in Nat
      BY <1>2 DEF Row
    <3>. QED
      BY <1>2, <3>1 DEF Row
  <2>2. job' = [job EXCEPT ![j] = new]
    BY <1>1, <1>2 DEF TypeOK
  <2>. QED
    BY <1>2, <2>1, <2>2 DEF Row
<1>4. /\ job' \in [Jobs -> Row \cup {None}] /\ CallsWellFormed' /\ IsFiniteSet(Made')
      /\ \A u \in Users : HasRoom(u)'
      /\ job'[j] = row /\ row # None /\ \A i \in Jobs \ {j} : job'[i] = job[i]
  BY <1>2, <1>3, RowStep
<1>5. /\ worker'[w].job = j /\ worker'[w].attempts = row.attempts /\ worker'[w].results = row.results
      /\ \A v \in Workers \ {w} : worker'[v] = worker[v]
  BY <1>1, <1>2, <1>3 DEF TypeOK
<1>6. TypeOK'
  <2>1. job[j].attempts \in Nat /\ job[j].results \in Results
    BY <1>2 DEF Row
  <2>. QED
    BY <1>1, <1>2, <1>4, <2>1 DEF TypeOK
<1>7. Sound(j)'
  <2>. SUFFICES ASSUME ~overrun[j] PROVE Leased(j)' /\ Earned(job[j])'
    BY <1>2, <1>4 DEF Sound
  <2>1. Leased(j) /\ Earned(job[j])
    BY <1>2 DEF IInv, Sound
  <2>2. \A v \in Workers : worker[v].job # j
    BY <1>1, <1>2, <2>1 DEF Leased, Eligible
  <2>3. job[j].attempts < MaxAttempts + faults
    BY <1>1, <1>2, <2>1, <2>2, MaxAttemptsAssumption DEF Leased, Earned, Eligible, Row, TypeOK
  <2>4. row.attempts <= MaxAttempts + faults
    BY <1>2, <1>3, <2>3, MaxAttemptsAssumption DEF Row, TypeOK
  <2>5. Earned(job[j])'
    BY <1>2, <1>3, <1>4, <2>4 DEF Earned
  <2>6. Leased(j)'
    BY <1>3, <1>4, <1>5, <2>2 DEF Leased
  <2>. QED
    BY <2>5, <2>6
<1>8. \A i \in Jobs : Sound(i)'
  BY <1>2, <1>4, <1>5, <1>6, <1>7, OneJob DEF TypeOK
<1>. QED
  BY <1>4, <1>6, <1>8 DEF IInv

LEMMA VerdictIsEarned ==
  ASSUME NEW attempts \in Nat, NEW results \in Results
  PROVE  LET verdict == Verdict(attempts, results) IN
         /\ verdict \in {"queued", "done", "failed"}
         /\ verdict = "failed" => AllErrors(results)
         /\ verdict = "done" => ~AllErrors(results)
         /\ (verdict \in {"done", "failed"} /\ HasError(results)) => attempts >= MaxAttempts
         /\ verdict = "queued" => HasError(results) /\ attempts < MaxAttempts
BY MaxAttemptsAssumption DEF Verdict

LEMMA FinishKeepsIInv ==
  ASSUME IInv, NEW w \in Workers, Finish(w)
  PROVE  IInv'
<1>0. /\ TypeOK /\ worker[w].job # None /\ worker' = [worker EXCEPT ![w] = Idle]
      /\ UNCHANGED <<call, faults, overrun, raced>>
  BY DEF Finish, IInv
<1>1. PICK j \in Jobs : j = worker[w].job
  BY <1>0 DEF TypeOK
<1>2. PICK answers \in Fetched(worker[w].results) :
        LET verdict == Verdict(worker[w].attempts, answers) IN
        job' = [job EXCEPT ![j] =
          [@ EXCEPT !.status = verdict, !.results = answers,
                    !.due = (verdict # "queued"), !.age = "new"]]
  BY <1>1 DEF Finish
<1>. DEFINE verdict == Verdict(worker[w].attempts, answers)
<1>3. /\ job[j] # None /\ job[j] \in Row /\ answers \in Results /\ worker[w].attempts \in Nat
  BY <1>0, <1>1, RowFacts DEF IInv, Sound, TypeOK, Fetched, Results
<1>4. /\ verdict \in {"queued", "done", "failed"}
      /\ verdict = "failed" => AllErrors(answers)
      /\ verdict = "done" => ~AllErrors(answers)
      /\ (verdict \in {"done", "failed"} /\ HasError(answers)) => worker[w].attempts >= MaxAttempts
      /\ verdict = "queued" => HasError(answers) /\ worker[w].attempts < MaxAttempts
  BY <1>3, VerdictIsEarned
<1>5. PICK row \in Row :
        /\ job' = [job EXCEPT ![j] = row]
        /\ row.status = verdict /\ row.attempts = job[j].attempts
        /\ row.results = answers /\ row.auto = job[j].auto
        /\ row.requestedBy = job[j].requestedBy /\ row.today = job[j].today
  <2>. DEFINE new == [job[j] EXCEPT !.status = verdict, !.results = answers,
                                    !.due = (verdict # "queued"), !.age = "new"]
  <2>. HIDE DEF verdict
  <2>1. new \in Row
    BY <1>3, <1>4 DEF Row
  <2>2. job' = [job EXCEPT ![j] = new]
    BY <1>2 DEF verdict
  <2>. QED
    BY <1>3, <2>1, <2>2 DEF Row
<1>. HIDE DEF verdict
<1>6. /\ job' \in [Jobs -> Row \cup {None}] /\ CallsWellFormed' /\ IsFiniteSet(Made')
      /\ \A u \in Users : HasRoom(u)'
      /\ job'[j] = row /\ row # None /\ \A i \in Jobs \ {j} : job'[i] = job[i]
  BY <1>0, <1>3, <1>5, RowStep
<1>7. /\ worker'[w].job = None /\ \A v \in Workers \ {w} : worker'[v] = worker[v]
      /\ worker' \in [Workers -> [job : Jobs \cup {None}, attempts : Nat, results : Results]]
  <2>1. NoResults \in Results
    BY DEF NoResults, Results, Outcomes
  <2>. QED
    BY <1>0, <2>1 DEF TypeOK, Idle
<1>8. TypeOK'
  BY <1>0, <1>6, <1>7 DEF TypeOK
<1>9. Sound(j)'
  <2>. SUFFICES ASSUME ~overrun[j] PROVE Leased(j)' /\ Earned(job[j])'
    BY <1>0, <1>6 DEF Sound
  <2>1. Leased(j) /\ Earned(job[j])
    BY <1>3 DEF IInv, Sound
  <2>2. job[j].attempts = worker[w].attempts /\ \A v \in Workers \ {w} : worker[v].job # j
    BY <1>1, <2>1 DEF Leased
  <2>3. \A v \in Workers : worker'[v].job # j
    BY <1>7, <2>2, NoneAssumption
  <2>4. Earned(job[j])'
    BY <1>0, <1>4, <1>5, <1>6, <2>1, <2>2 DEF Earned
  <2>5. Leased(j)'
    BY <1>4, <1>5, <1>6, <2>3 DEF Leased
  <2>. QED
    BY <2>4, <2>5
<1>10. \A i \in Jobs : Sound(i)'
  BY <1>0, <1>1, <1>6, <1>7, <1>8, <1>9, OneJob DEF TypeOK
<1>. QED
  BY <1>6, <1>8, <1>10 DEF IInv

LEMMA CrashKeepsIInv ==
  ASSUME IInv, NEW w \in Workers, Crash(w)
  PROVE  IInv'
<1>1. /\ TypeOK /\ worker[w].job # None /\ worker' = [worker EXCEPT ![w] = Idle]
      /\ faults < MaxFaults /\ faults' = faults + 1 /\ UNCHANGED <<job, call, overrun, raced>>
  BY DEF Crash, IInv
<1>2. PICK j \in Jobs : j = worker[w].job
  BY <1>1 DEF TypeOK
<1>3. /\ worker'[w].job = None /\ \A v \in Workers \ {w} : worker'[v] = worker[v]
      /\ worker' \in [Workers -> [job : Jobs \cup {None}, attempts : Nat, results : Results]]
  <2>1. NoResults \in Results
    BY DEF NoResults, Results, Outcomes
  <2>. QED
    BY <1>1, <2>1 DEF TypeOK, Idle
<1>4. faults' \in 0 .. MaxFaults /\ faults' >= faults /\ faults \in Nat
  BY <1>1, LimitsAssumption DEF TypeOK
<1>5. TypeOK'
  BY <1>1, <1>3, <1>4 DEF TypeOK
<1>6. CallsWellFormed' /\ IsFiniteSet(Made')
  BY <1>1 DEF IInv, CallsWellFormed, Made
<1>7. \A u \in Users : HasRoom(u)'
  BY <1>1, <1>6, QuotaUnaffected
<1>8. job[j] # None /\ job[j] \in Row
  BY <1>1, <1>2, RowFacts DEF IInv, Sound
<1>9. Sound(j)'
  <2>. SUFFICES ASSUME ~overrun[j] PROVE Leased(j)' /\ Earned(job[j])'
    BY <1>1, <1>8 DEF Sound
  <2>1. Leased(j) /\ Earned(job[j])
    BY <1>8 DEF IInv, Sound
  <2>2. \A v \in Workers : worker'[v].job # j
    BY <1>2, <1>3, <2>1, NoneAssumption DEF Leased
  <2>3. /\ job[j].attempts < MaxAttempts + faults'
        /\ job[j].attempts <= MaxAttempts + faults'
    BY <1>1, <1>4, <1>8, <2>1, MaxAttemptsAssumption DEF Earned, Row
  <2>4. Earned(job[j])'
    BY <1>1, <2>1, <2>3 DEF Earned
  <2>5. Leased(j)'
    BY <1>1, <2>2, <2>3 DEF Leased
  <2>. QED
    BY <2>4, <2>5
<1>10. \A i \in Jobs : Sound(i)'
  BY <1>1, <1>2, <1>3, <1>4, <1>5, <1>9, OneJob
<1>. QED
  BY <1>5, <1>6, <1>7, <1>10 DEF IInv

(* The backoff of j ends, the lease of a job that nobody holds or of one that somebody  *)
(* does, or a month passes.                                                             *)
LEMMA TimeKeepsIInv ==
  ASSUME IInv, NEW j \in Jobs, BackoffEnds(j) \/ LeaseEnds(j) \/ MonthPasses(j)
  PROVE  IInv'
<1>1. /\ TypeOK /\ job[j] # None /\ job[j] \in Row /\ UNCHANGED <<worker, call, raced>>
  BY RowFacts DEF BackoffEnds, LeaseEnds, MonthPasses, IInv
<1>2. /\ faults' \in 0 .. MaxFaults /\ faults' >= faults
      /\ overrun' \in [Jobs -> BOOLEAN] /\ \A i \in Jobs \ {j} : overrun'[i] = overrun[i]
      /\ overrun[j] => overrun'[j]
  <2>1. CASE BackoffEnds(j) \/ MonthPasses(j)
    BY <1>1, <2>1, LimitsAssumption DEF BackoffEnds, MonthPasses, TypeOK
  <2>2. CASE LeaseEnds(j) /\ Holders(j) = {}
    BY <1>1, <2>2, LimitsAssumption DEF LeaseEnds, TypeOK
  <2>3. CASE LeaseEnds(j) /\ Holders(j) # {}
    <3>1. faults' = faults + 1 /\ faults < MaxFaults /\ overrun' = [overrun EXCEPT ![j] = TRUE]
      BY <2>3 DEF LeaseEnds
    <3>. QED
      BY <1>1, <3>1, LimitsAssumption DEF TypeOK
  <2>. QED
    BY <2>1, <2>2, <2>3
<1>3. PICK row \in Row :
        /\ job' = [job EXCEPT ![j] = row]
        /\ row.status = job[j].status /\ row.attempts = job[j].attempts
        /\ row.results = job[j].results /\ row.auto = job[j].auto
        /\ row.requestedBy = job[j].requestedBy /\ row.today \in {job[j].today, FALSE}
        /\ (row.age # job[j].age /\ row.status = "running") => (Holders(j) = {} \/ overrun'[j])
  <2>1. CASE BackoffEnds(j)
    <3>. DEFINE new == [job[j] EXCEPT !.due = TRUE]
    <3>1. new \in Row /\ job' = [job EXCEPT ![j] = new]
      BY <1>1, <2>1 DEF BackoffEnds, Row, TypeOK
    <3>. QED
      BY <1>1, <3>1 DEF Row
  <2>2. CASE LeaseEnds(j)
    <3>. DEFINE new == [job[j] EXCEPT !.age = "stale"]
    <3>1. new \in Row /\ job' = [job EXCEPT ![j] = new]
      BY <1>1, <2>2 DEF LeaseEnds, Row, TypeOK
    <3>2. Holders(j) = {} \/ overrun'[j]
      BY <1>1, <2>2 DEF LeaseEnds, TypeOK
    <3>. QED
      BY <1>1, <3>1, <3>2 DEF Row
  <2>3. CASE MonthPasses(j)
    <3>. DEFINE new == [job[j] EXCEPT !.age = "old", !.today = FALSE]
    <3>1. new \in Row /\ job' = [job EXCEPT ![j] = new] /\ job[j].status # "running"
      BY <1>1, <2>3 DEF MonthPasses, Row, TypeOK
    <3>. QED
      BY <1>1, <3>1 DEF Row
  <2>. QED
    BY <2>1, <2>2, <2>3
<1>4. /\ job' \in [Jobs -> Row \cup {None}] /\ CallsWellFormed' /\ IsFiniteSet(Made')
      /\ \A u \in Users : HasRoom(u)'
      /\ job'[j] = row /\ row # None /\ \A i \in Jobs \ {j} : job'[i] = job[i]
  <2>1. raced' = raced /\ \A e \in Calls : call'[e] = call[e] \/ call'[e].pc \in {"status", "done"}
    BY <1>1
  <2>2. /\ job' = [job EXCEPT ![j] = row] /\ row.auto = job[j].auto
        /\ row.requestedBy = job[j].requestedBy /\ row.today \in {job[j].today, FALSE}
    BY <1>3
  <2>3. job[j] # None
    BY <1>1
  <2>. QED
    BY <2>1, <2>2, <2>3, RowStep
<1>5. TypeOK'
  BY <1>1, <1>2, <1>4 DEF TypeOK
<1>6. Sound(j)'
  <2>. SUFFICES ASSUME ~overrun'[j] PROVE Leased(j)' /\ Earned(job[j])'
    BY <1>1, <1>4 DEF Sound, IInv
  <2>1. Leased(j) /\ Earned(job[j])
    BY <1>1, <1>2 DEF IInv, Sound
  <2>2. job[j].attempts \in Nat /\ faults \in Nat /\ faults' \in Nat
    BY <1>1, <1>2 DEF Row, TypeOK
  <2>3. Earned(job[j])'
    BY <1>2, <1>3, <1>4, <2>1, <2>2, MaxAttemptsAssumption DEF Earned, HasError, AllErrors
  <2>4. \A w \in Workers : worker[w].job = j => row.age = job[j].age
    BY <1>3, <2>1 DEF Leased, Holders
  <2>5. (row.status = "running" /\ \A w \in Workers : worker'[w].job # j) =>
          row.attempts < MaxAttempts + faults'
    BY <1>1, <1>2, <1>3, <2>1, <2>2, MaxAttemptsAssumption DEF Leased
  <2>6. Leased(j)'
    BY <1>1, <1>3, <1>4, <2>1, <2>4, <2>5 DEF Leased
  <2>. QED
    BY <2>3, <2>6
<1>7. \A i \in Jobs : Sound(i)'
  BY <1>1, <1>2, <1>4, <1>5, <1>6, OneJob
<1>. QED
  BY <1>4, <1>5, <1>7 DEF IInv

LEMMA StutterKeepsIInv == ASSUME IInv, UNCHANGED vars PROVE IInv'
<1>1. TypeOK'
  BY DEF IInv, vars, TypeOK
<1>. QED
  BY <1>1, NoRowStep DEF vars

LEMMA NextKeepsIInv == IInv /\ [Next]_vars => IInv'
<1>. SUFFICES ASSUME IInv, [Next]_vars PROVE IInv'
  OBVIOUS
<1>1. ASSUME NEW e \in Calls, AdminIngest(e) \/ Lookup(e) \/ Enqueue(e) PROVE IInv'
  BY <1>1, AdminIngestKeepsIInv, LookupKeepsIInv, AutoEnqueueKeepsIInv, RequeueKeepsIInv,
     ReadStatusKeepsIInv DEF Enqueue
<1>2. ASSUME NEW w \in Workers, Work(w) \/ Crash(w) PROVE IInv'
  BY <1>2, ClaimKeepsIInv, FinishKeepsIInv, CrashKeepsIInv DEF Work
<1>3. ASSUME NEW j \in Jobs, BackoffEnds(j) \/ LeaseEnds(j) \/ MonthPasses(j) PROVE IInv'
  BY <1>3, TimeKeepsIInv
<1>. QED
  BY <1>1, <1>2, <1>3, StutterKeepsIInv DEF Next

(* The inductive invariant holds of every reachable state. *)
THEOREM IInvHolds == Spec => []IInv
<1>1. Init => IInv
  BY InitIInv
<1>2. IInv /\ [Next]_vars => IInv'
  BY NextKeepsIInv
<1>. QED
  BY <1>1, <1>2, PTL DEF Spec

(* The state keeps its types. *)
THEOREM TypeOKHolds == Spec => []TypeOK
<1>1. IInv => TypeOK
  BY DEF IInv
<1>. QED
  BY <1>1, IInvHolds, PTL

(* The claim of jobs.rs gives a job to one worker, and to another only when the first   *)
(* crashed: with any number of replicas, calls and jobs.                                *)
THEOREM OneHolder == Spec => []OneHolderPerJob
<1>1. IInv => OneHolderPerJob
  BY SoundIsProperty DEF IInv
<1>. QED
  BY <1>1, IInvHolds, PTL

(* finish settles a job for the reasons it states, whatever MAX_ATTEMPTS is and however *)
(* many claims were lost to crashes.                                                    *)
THEOREM VerdictsEarned == Spec => []VerdictsAreEarned
<1>1. IInv => VerdictsAreEarned
  BY SoundIsProperty DEF IInv
<1>. QED
  BY <1>1, IInvHolds, PTL

(* The auto-queue quota holds for a user whose lookups do not overlap, whatever else    *)
(* enqueues, requeues and works meanwhile.                                              *)
THEOREM QuotaHolds == Spec => []QuotaRespected
<1>1. IInv => QuotaRespected
  <2>. SUFFICES ASSUME IInv, NEW u \in Users
       PROVE  raced[u] \/ AutoCountToday(u) <= AutoLimit
    BY DEF QuotaRespected
  <2>. QED
    BY DEF IInv, HasRoom
<1>. QED
  BY <1>1, IInvHolds, PTL

(* What AnswersKept says of one job in one step. *)
KeepsAnswers(j) ==
  (job[j] # None /\ ~overrun[j]) =>
    \/ \A x \in Sources : job[j].results[x] = "answered" => job'[j].results[x] = "answered"
    \/ job[j].status \in {"done", "failed"} /\ job'[j].attempts = 0

LEMMA StepKeepsAnswers ==
  ASSUME IInv, Next, NEW j \in Jobs
  PROVE  KeepsAnswers(j)
<1>. SUFFICES ASSUME job[j] # None, ~overrun[j]
     PROVE  \/ job'[j].results = job[j].results
            \/ \A x \in Sources : job[j].results[x] = "answered" => job'[j].results[x] = "answered"
            \/ job[j].status \in {"done", "failed"} /\ job'[j].attempts = 0
  BY DEF KeepsAnswers
<1>1. TypeOK /\ job[j] \in Row
  BY RowFacts DEF IInv
<1>2. ASSUME NEW e \in Calls, AdminIngest(e) \/ Lookup(e) \/ Enqueue(e)
      PROVE  \/ job'[j].results = job[j].results
             \/ job[j].status \in {"done", "failed"} /\ job'[j].attempts = 0
  <2>1. CASE AdminIngest(e) \/ AutoEnqueue(e)
    <3>1. PICK u, i, auto, force : InsertJob(e, u, i, auto, force)
      BY <2>1 DEF AdminIngest, AutoEnqueue
    <3>2. job'[j] = job[j]
      BY <1>1, <3>1 DEF InsertJob, TypeOK
    <3>. QED
      BY <3>2
  <2>2. CASE Lookup(e) \/ ReadStatus(e)
    BY <2>2 DEF Lookup, ReadStatus
  <2>3. CASE Requeue(e)
    <3>1. CASE call[e].job = j /\ Requeuable(e, job[j]) /\ job' = [job EXCEPT ![j] = Requeued(@)]
      BY <1>1, <3>1 DEF Requeuable, Requeued, TypeOK, Row
    <3>2. CASE job'[j] = job[j]
      BY <3>2
    <3>. QED
      BY <1>1, <2>3, <3>1, <3>2 DEF Requeue, TypeOK
  <2>. QED
    BY <1>2, <2>1, <2>2, <2>3 DEF Enqueue
<1>3. ASSUME NEW w \in Workers, Work(w) \/ Crash(w)
      PROVE  \A x \in Sources : job[j].results[x] = "answered" => job'[j].results[x] = "answered"
  <2>1. CASE Claim(w)
    BY <1>1, <2>1 DEF Claim, TypeOK, Row
  <2>2. CASE Crash(w)
    BY <2>2 DEF Crash
  <2>3. CASE Finish(w) /\ worker[w].job # j
    BY <1>1, <2>3 DEF Finish, TypeOK
  <2>4. CASE Finish(w) /\ worker[w].job = j
    <3>1. PICK answers \in Fetched(worker[w].results) : job'[j].results = answers
      BY <1>1, <2>4 DEF Finish, TypeOK, Row
    <3>2. job[j].results = worker[w].results
      BY <2>4 DEF IInv, Sound, Leased
    <3>. QED
      BY <3>1, <3>2 DEF Fetched, Pending
  <2>. QED
    BY <1>3, <2>1, <2>2, <2>3, <2>4 DEF Work
<1>4. ASSUME NEW i \in Jobs, BackoffEnds(i) \/ LeaseEnds(i) \/ MonthPasses(i)
      PROVE  job'[j].results = job[j].results
  BY <1>1, <1>4 DEF BackoffEnds, LeaseEnds, MonthPasses, TypeOK, Row
<1>. QED
  BY <1>2, <1>3, <1>4 DEF Next

(* process skips the sources that have answered: no retry, crash or takeover asks one   *)
(* again, until the job is enqueued anew.                                               *)
THEOREM AnswersAreKept == Spec => AnswersKept
<1>1. IInv /\ [Next]_vars => [\A j \in Jobs : KeepsAnswers(j)]_vars
  BY StepKeepsAnswers
<1>2. [][\A j \in Jobs : KeepsAnswers(j)]_vars => AnswersKept
  BY PTL DEF AnswersKept, KeepsAnswers
<1>. QED
  BY <1>1, <1>2, IInvHolds, PTL DEF Spec

=============================================================================
