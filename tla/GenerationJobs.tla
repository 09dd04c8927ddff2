--------------------------- MODULE GenerationJobs ---------------------------
(***************************************************************************)
(* A generation job from its row to its story: the two endpoints that      *)
(* create one, the RQ queue in Redis, the workers that run it              *)
(* (generation/worker.py), the sweep each worker makes as it starts        *)
(* (generation/queue.py, worker_main.py) and the operator's force-fail     *)
(* (api/generation.py).                                                    *)
(*                                                                         *)
(* A run is one database transaction: it claims the row with an UPDATE     *)
(* that is flushed, not committed, so it holds the row's lock to its end   *)
(* while everybody else still reads "queued".  Reads take no lock and see  *)
(* what is committed; an UPDATE waits for the lock and then writes,        *)
(* whatever the row has become (READ COMMITTED, no version column).        *)
(***************************************************************************)
EXTENDS Naturals, Sequences

CONSTANTS
  Job,        \* the generation jobs
  Worker,     \* the worker processes
  Nobody,     \* the holder of a row that is not locked
  NoJob,      \* the job of a worker that has none
  MaxFaults   \* bound: workers or work-horses killed, losses of Redis, failures of the guard

ASSUME ConstantsAssumption ==
  /\ NoJob \notin Job /\ Nobody \notin Worker
  /\ MaxFaults \in Nat

VARIABLES
  status,   \* GenerationJob.status, as committed
  story,    \* the job's storybook row, as committed
  origin,   \* job |-> the endpoint that posted it
  lock,     \* job |-> the worker whose transaction holds its row
  pending,  \* jobs whose background enqueue has not run yet
  queue,    \* the RQ list: deliveries, oldest first
  held,     \* row ids RQ knows as a job of its own
  worker,   \* worker |-> what it is doing
  forcing,  \* jobs a force-fail has read as active and not yet written
  used      \* what has been spent of each bound

rows  == <<status, story, origin>>
redis == <<queue, held>>
vars  == <<status, story, origin, lock, pending, queue, held, worker, forcing, used>>

Active == {"queued", "running"}
Outcome == {"passed", "needs_review", "failed"}

\* job, shared: the delivery it runs, and whether that goes by the row's id; todo:
\* rows its sweep has still to enqueue; outcome, inserted: what its transaction
\* will commit.
Run(pc, job, shared) ==
  [pc |-> pc, job |-> job, shared |-> shared, todo |-> {}, outcome |-> "failed", inserted |-> FALSE]
Idle == Run("idle", NoJob, FALSE)
Down == Run("down", NoJob, FALSE)

Init ==
  /\ status = [j \in Job |-> "absent"] /\ story = [j \in Job |-> "none"]
  /\ origin = [j \in Job |-> "none"]
  /\ lock = [j \in Job |-> Nobody]
  /\ pending = {} /\ queue = <<>> /\ held = {}
  /\ worker = [w \in Worker |-> Down]
  /\ forcing = {}
  /\ used = [kills |-> 0, losses |-> 0, guards |-> 0]

Faults == used.kills + used.losses + used.guards

Spend(what) ==
  /\ Faults < MaxFaults
  /\ used' = [used EXCEPT ![what] = @ + 1]

-----------------------------------------------------------------------------
(***************************************************************************)
(* enqueue_generation.                                                     *)
(***************************************************************************)
\* Fault: the row's id is given and unique is not.
EnqueueAnyway(j) ==
  /\ queue' = Append(queue, [job |-> j, shared |-> TRUE])
  /\ held' = held \cup {j}

\* Under the row's id: a duplicate is refused, which every caller takes for done.
EnqueueShared(j) ==
  /\ queue' = IF j \in held THEN queue ELSE Append(queue, [job |-> j, shared |-> TRUE])
  /\ held' = held \cup {j}

\* Under an id RQ makes up.
EnqueueFresh(j) ==
  /\ queue' = Append(queue, [job |-> j, shared |-> FALSE])
  /\ UNCHANGED held

-----------------------------------------------------------------------------
(***************************************************************************)
(* The API.                                                                *)
(***************************************************************************)
\* The row is committed, the enqueue is left to a background task.
Post(j, endpoint) ==
  /\ status[j] = "absent"
  /\ status' = [status EXCEPT ![j] = "queued"]
  /\ origin' = [origin EXCEPT ![j] = endpoint]
  /\ pending' = pending \cup {j}
  /\ UNCHANGED <<story, lock, redis, worker, forcing, used>>

\* enqueue_concept_generation
PostConcept(j) == Post(j, "concept")

\* create_authoring_plan
PostPlan(j) == Post(j, "story request")

\* _enqueue_safely, one for each endpoint; without Redis nothing happens.
EnqueueSafely(j) ==
  /\ j \in pending
  /\ pending' = pending \ {j}
  /\ \/ origin[j] = "concept" /\ EnqueueShared(j)
     \/ origin[j] = "story request" /\ EnqueueFresh(j)
     \/ UNCHANGED redis
  /\ UNCHANGED <<rows, lock, worker, forcing, used>>

\* force_fail_generation_job: only an active row, as read ...
ForceFail(j) ==
  /\ status[j] \in Active /\ j \notin forcing
  /\ forcing' = forcing \cup {j}
  /\ UNCHANGED <<rows, lock, pending, redis, worker, used>>

\* ... is written, once no run holds it.
ForceFailed(j) ==
  /\ j \in forcing /\ lock[j] = Nobody
  /\ status' = [status EXCEPT ![j] = "failed"]
  /\ forcing' = forcing \ {j}
  /\ UNCHANGED <<story, origin, lock, pending, redis, worker, used>>

-----------------------------------------------------------------------------
(***************************************************************************)
(* A worker starts (worker_main, requeue_stranded_jobs).                   *)
(***************************************************************************)
At(w, pc) == worker[w].pc = pc
Goes(w, pc) == worker' = [worker EXCEPT ![w].pc = pc]

\* Some of the rows that read "queued" have done so for thirty minutes.
StartWorker(w) ==
  /\ At(w, "down")
  /\ \E stale \in SUBSET {j \in Job : status[j] = "queued"} :
       worker' = [worker EXCEPT ![w].pc = "sweep", ![w].todo = stale]
  /\ UNCHANGED <<rows, lock, pending, redis, forcing, used>>

SweepQueued(w) ==
  /\ At(w, "sweep")
  /\ \E j \in worker[w].todo :
       /\ EnqueueShared(j)
       /\ worker' = [worker EXCEPT ![w].todo = @ \ {j}]
  /\ UNCHANGED <<rows, lock, pending, forcing, used>>

\* The rows committed as "running" for longer than a job may take are failed.
SweepRunning(w) ==
  /\ At(w, "sweep") /\ worker[w].todo = {}
  /\ \E orphans \in SUBSET {j \in Job : status[j] = "running" /\ lock[j] = Nobody} :
       status' = [j \in Job |-> IF j \in orphans THEN "failed" ELSE status[j]]
  /\ Goes(w, "idle")
  /\ UNCHANGED <<story, origin, lock, pending, redis, forcing, used>>

-----------------------------------------------------------------------------
(***************************************************************************)
(* A run (run_generation_job).                                             *)
(***************************************************************************)
Mine(w) == worker[w].job

\* The transaction of w ends, by commit or by rollback, and the run goes on at pc.
Ends(w, pc) ==
  /\ lock' = [j \in Job |-> IF lock[j] = w THEN Nobody ELSE lock[j]]
  /\ worker' = [worker EXCEPT ![w] = Run(pc, Mine(w), worker[w].shared)]

Take(w) ==
  /\ At(w, "idle") /\ queue /= <<>>
  /\ worker' = [worker EXCEPT ![w] = Run("claim", Head(queue).job, Head(queue).shared)]
  /\ queue' = Tail(queue)
  /\ UNCHANGED <<rows, lock, pending, held, forcing, used>>

\* _load_and_start_job: a row that does not read "queued" is left alone ...
Claim(w) ==
  /\ At(w, "claim")
  /\ Goes(w, IF status[Mine(w)] = "queued" THEN "flush" ELSE "done")
  /\ UNCHANGED <<rows, lock, pending, redis, forcing, used>>

\* ... any other is written "running", which waits for the run that holds it.
Flush(w) ==
  /\ At(w, "flush") /\ lock[Mine(w)] = Nobody
  /\ lock' = [lock EXCEPT ![Mine(w)] = w]
  /\ Goes(w, "generate")
  /\ UNCHANGED <<rows, pending, redis, forcing, used>>

\* The generation raises: the failure is recorded and committed.
PipelineFails(w) ==
  /\ At(w, "generate")
  /\ status' = [status EXCEPT ![Mine(w)] = "failed"]
  /\ Ends(w, "rescue")
  /\ UNCHANGED <<story, origin, pending, redis, forcing, used>>

\* It returns, without a story that is to be kept.
Rejected(w) ==
  /\ At(w, "generate")
  /\ \E outcome \in {"needs_review", "failed"} :
       worker' = [worker EXCEPT ![w].pc = "commit", ![w].outcome = outcome]
  /\ UNCHANGED <<rows, lock, pending, redis, forcing, used>>

\* Fault: the story is committed before it is screened.
InsertCommitted(w) ==
  /\ At(w, "generate") /\ story[Mine(w)] = "none"
  /\ \E outcome \in {"passed", "needs_review"} :
       worker' = [worker EXCEPT ![w].pc = "moderate", ![w].outcome = outcome,
                                ![w].inserted = TRUE]
  /\ story' = [story EXCEPT ![Mine(w)] = "unscreened"]
  /\ UNCHANGED <<status, origin, lock, pending, redis, forcing, used>>

\* It returns a story, which is inserted under the id the job gives it; a second
\* one under that id is an error.
Insert(w) ==
  /\ At(w, "generate")
  /\ \/ /\ story[Mine(w)] = "none"
        /\ \E outcome \in {"passed", "needs_review"} :
             worker' = [worker EXCEPT ![w].pc = "moderate", ![w].outcome = outcome,
                                      ![w].inserted = TRUE]
        /\ UNCHANGED lock
     \/ /\ story[Mine(w)] /= "none"
        /\ Ends(w, "rescue")
  /\ UNCHANGED <<rows, pending, redis, forcing, used>>

\* The story is moderated in the same transaction; an error there rolls it back
\* and goes on to record the failure, whatever the row has become.
Screen(w) ==
  /\ At(w, "moderate")
  /\ \/ Goes(w, "commit") /\ UNCHANGED lock
     \/ Ends(w, "fail")
  /\ UNCHANGED <<rows, pending, redis, forcing, used>>

Commit(w) ==
  /\ At(w, "commit")
  /\ status' = [status EXCEPT ![Mine(w)] = worker[w].outcome]
  /\ story' = IF worker[w].inserted THEN [story EXCEPT ![Mine(w)] = "screened"] ELSE story
  /\ Ends(w, "done")
  /\ UNCHANGED <<origin, pending, redis, forcing, used>>

\* Anything unforeseen, the job's time running out and a failure that cannot be
\* recorded included: the transaction is rolled back on the way to the finally guard.
Interrupt(w) ==
  /\ worker[w].pc \in {"claim", "flush", "generate", "moderate", "commit", "fail"}
  /\ Ends(w, "rescue")
  /\ UNCHANGED <<rows, pending, redis, forcing, used>>

\* Fault: the guard is not there.
RescueNothing(w) ==
  /\ At(w, "rescue")
  /\ Goes(w, "done")
  /\ UNCHANGED <<rows, lock, pending, redis, forcing, used>>

\* Fault: the guard does not look at the row.
RescueAlways(w) ==
  /\ At(w, "rescue")
  /\ Goes(w, "record")
  /\ UNCHANGED <<rows, lock, pending, redis, forcing, used>>

\* The guard: a row that reads as still active ...
Rescue(w) ==
  /\ At(w, "rescue")
  /\ Goes(w, IF status[Mine(w)] \in Active THEN "record" ELSE "done")
  /\ UNCHANGED <<rows, lock, pending, redis, forcing, used>>

\* ... is failed, once no other run holds it (_record_failure).  After a failed
\* moderation the guard has still to be passed.
RecordFailure(w) ==
  /\ worker[w].pc \in {"fail", "record"} /\ lock[Mine(w)] = Nobody
  /\ status' = [status EXCEPT ![Mine(w)] = "failed"]
  /\ Goes(w, IF At(w, "fail") THEN "rescue" ELSE "done")
  /\ UNCHANGED <<story, origin, lock, pending, redis, forcing, used>>

\* An error of the database, or the job's time, within the guard: it writes nothing and
\* nothing comes after it.
GuardFails(w) ==
  /\ worker[w].pc \in {"rescue", "record"}
  /\ Goes(w, "done")
  /\ Spend("guards")
  /\ UNCHANGED <<rows, lock, pending, redis, forcing>>

Return(w) ==
  /\ At(w, "done")
  /\ worker' = [worker EXCEPT ![w] = Idle]
  /\ UNCHANGED <<rows, lock, pending, redis, forcing, used>>

-----------------------------------------------------------------------------
(***************************************************************************)
(* The environment.                                                        *)
(***************************************************************************)
\* SIGKILL: of the work-horse, which leaves its worker, or of both.
Kill(w) ==
  /\ ~At(w, "down")
  /\ \/ worker' = [worker EXCEPT ![w] = Down]
     \/ Mine(w) /= NoJob /\ worker' = [worker EXCEPT ![w] = Idle]
  /\ lock' = [j \in Job |-> IF lock[j] = w THEN Nobody ELSE lock[j]]
  /\ Spend("kills")
  /\ UNCHANGED <<rows, pending, redis, forcing>>

Running(j) == \E w \in Worker : worker[w].job = j /\ worker[w].shared
Queued(j) == \E i \in DOMAIN queue : queue[i].job = j /\ queue[i].shared

\* RQ keeps the id of a job while it is queued or runs, and for a time after.
Forget(j) ==
  /\ j \in held /\ ~Queued(j) /\ ~Running(j)
  /\ held' = held \ {j}
  /\ UNCHANGED <<rows, lock, pending, queue, worker, forcing, used>>

\* Redis restarts without persistence.
RedisLoses ==
  /\ queue' = <<>> /\ held' = {}
  /\ Spend("losses")
  /\ UNCHANGED <<rows, lock, pending, worker, forcing>>

-----------------------------------------------------------------------------
WorkerStep(w) ==
  \/ SweepQueued(w) \/ SweepRunning(w)
  \/ Take(w) \/ Claim(w) \/ Flush(w)
  \/ PipelineFails(w) \/ Rejected(w) \/ Insert(w) \/ Screen(w) \/ Commit(w)
  \/ Rescue(w) \/ RecordFailure(w) \/ Return(w)

Next ==
  \/ \E j \in Job : \/ PostConcept(j) \/ PostPlan(j) \/ EnqueueSafely(j) \/ Forget(j)
                    \/ ForceFail(j) \/ ForceFailed(j)
  \/ \E w \in Worker : StartWorker(w) \/ WorkerStep(w) \/ Interrupt(w)
                       \/ GuardFails(w) \/ Kill(w)
  \/ RedisLoses

Spec == Init /\ [][Next]_vars

(***************************************************************************)
(* Fairness: a worker that runs goes on running, generation being bounded  *)
(* by the job's timeout, and the deployment starts a worker that is down   *)
(* (restart_policy in docker-compose.prod.yml).  Nothing makes a client    *)
(* post, the enqueue succeed or RQ forget.                                 *)
(***************************************************************************)
Fairness == \A w \in Worker : WF_vars(WorkerStep(w)) /\ WF_vars(StartWorker(w))

FairSpec == Spec /\ Fairness

-----------------------------------------------------------------------------
TypeOK ==
  /\ status \in [Job -> {"absent"} \cup Active \cup Outcome]
  /\ story \in [Job -> {"none", "unscreened", "screened"}]
  /\ origin \in [Job -> {"none", "concept", "story request"}]
  /\ pending \subseteq Job /\ held \subseteq Job /\ forcing \subseteq Job
  /\ queue \in Seq([job : Job, shared : BOOLEAN])
  /\ worker \in [Worker ->
       [pc : {"down", "sweep", "idle", "claim", "flush", "generate", "moderate", "commit",
              "fail", "rescue", "record", "done"},
        job : Job \cup {NoJob}, shared : BOOLEAN, todo : SUBSET Job,
        outcome : Outcome, inserted : BOOLEAN]]
  /\ lock \in [Job -> Worker \cup {Nobody}]
  \* a row is locked by the run that has claimed it and not ended
  /\ \A w \in Worker, j \in Job :
       lock[j] = w <=> Mine(w) = j /\ worker[w].pc \in {"generate", "moderate", "commit"}
  /\ used \in [kills : 0..MaxFaults, losses : 0..MaxFaults, guards : 0..MaxFaults]

\* A job that passed has its story, and no story is in the library's tables before
\* it was screened: whatever is interrupted, killed, run twice or force-failed.
PassedHasScreenedStory ==
  \A j \in Job : /\ status[j] = "passed" => story[j] = "screened"
                 /\ story[j] /= "unscreened"

\* Where job j is waiting for a worker or with one.
Deliveries(j) ==
  {<<"queue", i>> : i \in {i \in DOMAIN queue : queue[i].job = j}}
    \cup {<<"worker", w>> : w \in {w \in Worker : worker[w].job = j}}

\* A job of the concept endpoint is never delivered twice at once, however often it
\* is swept up or its worker killed, as long as Redis keeps what it holds.
DeliveredOnce ==
  used.losses = 0 =>
    \A j \in Job : origin[j] = "concept" => \A a, b \in Deliveries(j) : a = b

\* Rows, locks and runs have their types and agree, and RQ's id admits one delivery.
DeliveryInv == TypeOK /\ DeliveredOnce

\* What such a job came to, no worker and no sweep rewrites: only an operator.
OutcomesStand ==
  [][\A j \in Job :
       origin[j] = "concept" /\ status[j] \in {"passed", "needs_review"} /\ status'[j] /= status[j] =>
         j \in forcing \/ used.losses > 0]_vars

Delivered(j) == \E i \in DOMAIN queue : queue[i].job = j

\* A job in RQ's queue comes to an outcome, whatever run holds its row, wherever it is
\* interrupted and whatever has gone wrong before: only a kill, a loss of Redis or an
\* error within the finally guard that is still to come can leave the row "queued" with no
\* delivery, until a later worker's sweep.
DeliveredJobsFinish ==
  \A j \in Job, n \in 0..MaxFaults :
    Delivered(j) /\ Faults = n ~> status[j] \in Outcome \/ Faults > n
=============================================================================
