------------------------ MODULE GenerationJobsProofs ------------------------
(***************************************************************************)
(* What GenerationJobs guarantees for any number of jobs, of workers and   *)
(* of faults: its type with the locks of the rows, that a story in the     *)
(* library's tables was screened, that a job of the concept endpoint is    *)
(* with one delivery at a time, and that its outcome then stands.          *)
(***************************************************************************)
EXTENDS GenerationJobs, SequenceTheorems, TLAPS

-----------------------------------------------------------------------------
(***************************************************************************)
(* Workers and the rows they lock.                                         *)
(***************************************************************************)
Busy == {"claim", "flush", "generate", "moderate", "commit", "fail", "rescue", "record", "done"}
Locking == {"generate", "moderate", "commit"}
Writing == {"flush", "generate", "moderate", "commit", "fail", "record"}
Pcs == Busy \cup {"down", "sweep", "idle"}
Delivery == [job : Job, shared : BOOLEAN]
RunType == [pc : Pcs, job : Job \cup {NoJob}, shared : BOOLEAN, todo : SUBSET Job,
            outcome : Outcome, inserted : BOOLEAN]

RowsInv ==
  /\ status \in [Job -> {"absent"} \cup Active \cup Outcome]
  /\ story \in [Job -> {"none", "screened"}]
  /\ origin \in [Job -> {"none", "concept", "story request"}]
  /\ pending \subseteq Job /\ held \subseteq Job /\ forcing \subseteq Job
  /\ queue \in Seq(Delivery)
  /\ used \in [kills : 0 .. MaxFaults, losses : 0 .. MaxFaults, guards : 0 .. MaxFaults]

\* What a run will commit: a story that is moderated is inserted, and none passes
\* without one.
PromiseOK(r) == r.pc = "moderate" \/ (r.pc = "commit" /\ r.outcome = "passed") => r.inserted

\* A worker is busy exactly with a job, and a row is locked by the run that has claimed
\* it and not ended.
WorkersInv ==
  /\ worker \in [Worker -> RunType]
  /\ lock \in [Job -> Worker \cup {Nobody}]
  /\ \A w \in Worker : /\ worker[w].pc \in Busy <=> worker[w].job \in Job
                       /\ PromiseOK(worker[w])
  /\ \A w \in Worker, j \in Job : lock[j] = w <=> worker[w].job = j /\ worker[w].pc \in Locking

TInv == RowsInv /\ WorkersInv

\* What every step of a worker is to the others: it comes to r, which is well formed and
\* agrees with the locks; it keeps its delivery, gives it up, or takes the next; it may
\* write a row only if it might before or read the row as active; and its sweep is of rows
\* that read "queued".
LockFollows(w, r) ==
  /\ lock' \in [Job -> Worker \cup {Nobody}]
  /\ \A j \in Job : lock'[j] = w <=> r.job = j /\ r.pc \in Locking
  /\ \A j \in Job, v \in Worker \ {w} : lock'[j] = v <=> lock[j] = v

KeepsDelivery(w, r) ==
  \/ r.job = NoJob
  \/ r.job = worker[w].job /\ r.shared = worker[w].shared
  \/ Take(w) /\ r.job = Head(queue).job /\ r.shared = Head(queue).shared /\ r.pc = "claim"

MayWrite(w, r) ==
  r.pc \in Writing =>
    /\ r.job = worker[w].job
    /\ worker[w].pc \in Writing \/ status[r.job] \in Active

Becomes(w, r) ==
  /\ worker' = [worker EXCEPT ![w] = r]
  /\ r.pc \in Busy <=> r.job \in Job
  /\ PromiseOK(r)
  /\ LockFollows(w, r)
  /\ KeepsDelivery(w, r)
  /\ MayWrite(w, r)
  /\ \A j \in r.todo : j \in worker[w].todo \/ status[j] = "queued"

LEMMA PcFacts ==
  ASSUME NEW pc \in Pcs
  PROVE  /\ pc \in Locking => pc \in Busy /\ pc \in Writing
         /\ pc \in Writing => pc \in Busy
BY DEF Busy, Locking, Writing

LEMMA RunIsRun ==
  ASSUME NEW pc \in Pcs, NEW job \in Job \cup {NoJob}, NEW shared \in BOOLEAN
  PROVE  /\ Run(pc, job, shared) \in RunType
         /\ Run(pc, job, shared).pc = pc /\ Run(pc, job, shared).job = job
         /\ Run(pc, job, shared).shared = shared /\ Run(pc, job, shared).todo = {}
         /\ Run(pc, job, shared).outcome = "failed"
BY DEF Run, RunType, Outcome

LEMMA IdleAndDown ==
  /\ Down \in RunType /\ Down.pc = "down" /\ Down.job = NoJob /\ Down.todo = {}
  /\ Idle \in RunType /\ Idle.pc = "idle" /\ Idle.job = NoJob /\ Idle.todo = {}
<1>1. /\ Down.pc = "down" /\ Down.job = NoJob /\ Down.todo = {}
      /\ Idle.pc = "idle" /\ Idle.job = NoJob /\ Idle.todo = {}
  BY DEF Down, Idle, Run
<1>2. Down \in RunType /\ Idle \in RunType
  <2>1. "down" \in Pcs /\ "idle" \in Pcs /\ "failed" \in Outcome
    BY DEF Pcs, Outcome
  <2> QED  BY <2>1 DEF Down, Idle, Run, RunType
<1> QED  BY <1>1, <1>2

LEMMA InitTInv == Init => TInv
<1> SUFFICES ASSUME Init PROVE TInv
  OBVIOUS
<1>1. RowsInv
  BY ConstantsAssumption, EmptySeq DEF Init, RowsInv, Active, Outcome
<1>2. worker \in [Worker -> RunType] /\ \A w \in Worker : worker[w] = Down
  BY IdleAndDown DEF Init
<1>3. lock \in [Job -> Worker \cup {Nobody}] /\ \A j \in Job : lock[j] = Nobody
  BY DEF Init
<1>4. WorkersInv
  BY <1>2, <1>3, IdleAndDown, ConstantsAssumption DEF WorkersInv, Busy, Locking, PromiseOK
<1> QED  BY <1>1, <1>4 DEF TInv

-----------------------------------------------------------------------------
(***************************************************************************)
(* Every step of a worker is such a step.                                  *)
(***************************************************************************)
\* It goes on to a step that is like the present one, with or without a lock.
LEMMA GoesBecomes ==
  ASSUME WorkersInv, NEW w \in Worker, NEW pc \in Pcs, Goes(w, pc), lock' = lock,
         pc \in Busy <=> worker[w].pc \in Busy,
         pc \in Locking <=> worker[w].pc \in Locking,
         pc /= "moderate", pc = "commit" => At(w, "moderate"),
         pc \in Writing => worker[w].pc \in Writing \/ status[Mine(w)] \in Active
  PROVE  \E r \in RunType : Becomes(w, r) /\ r.job = worker[w].job
<1> DEFINE r == [worker[w] EXCEPT !.pc = pc]
<1>1. worker' = [worker EXCEPT ![w] = r]
  BY DEF Goes
<1>2. worker[w] \in RunType
  BY DEF WorkersInv
<1>3. /\ r \in RunType /\ r.pc = pc /\ r.job = worker[w].job /\ r.shared = worker[w].shared
      /\ r.outcome = worker[w].outcome /\ r.inserted = worker[w].inserted
      /\ r.todo = worker[w].todo
  BY <1>2 DEF RunType
<1> HIDE DEF r
<1>4. r.pc \in Busy <=> r.job \in Job
  BY <1>3 DEF WorkersInv
<1>5. PromiseOK(r)
  BY <1>3 DEF WorkersInv, PromiseOK, At
<1>6. LockFollows(w, r)
  BY <1>3 DEF WorkersInv, LockFollows
<1>7. KeepsDelivery(w, r)
  BY <1>3 DEF KeepsDelivery
<1>8. MayWrite(w, r)
  BY <1>3 DEF MayWrite, Mine
<1>9. \A j \in r.todo : j \in worker[w].todo
  BY <1>3
<1> QED  BY <1>1, <1>3, <1>4, <1>5, <1>6, <1>7, <1>8, <1>9 DEF Becomes

\* Its transaction ends, or it is left without one.
LEMMA EndsBecomes ==
  ASSUME WorkersInv, NEW w \in Worker, NEW r \in RunType, worker' = [worker EXCEPT ![w] = r],
         r.pc \in Busy <=> r.job \in Job, r.pc \notin Locking, r.todo = {},
         lock' = [j \in Job |-> IF lock[j] = w THEN Nobody ELSE lock[j]],
         KeepsDelivery(w, r), MayWrite(w, r)
  PROVE  Becomes(w, r)
<1>1. lock' \in [Job -> Worker \cup {Nobody}]
  BY DEF WorkersInv
<1>2. \A j \in Job : lock'[j] /= w /\ \A v \in Worker \ {w} : lock'[j] = v <=> lock[j] = v
  BY ConstantsAssumption DEF WorkersInv
<1>3. LockFollows(w, r)
  BY <1>1, <1>2 DEF LockFollows
<1>4. PromiseOK(r)
  BY DEF PromiseOK, Locking
<1> QED  BY <1>3, <1>4 DEF Becomes

LEMMA EndsAt ==
  ASSUME WorkersInv, NEW w \in Worker, NEW pc \in {"rescue", "fail", "done"}, Ends(w, pc),
         worker[w].pc \in Busy, pc = "fail" => worker[w].pc \in Writing
  PROVE  \E r \in RunType : Becomes(w, r) /\ r.job = worker[w].job
<1> DEFINE r == Run(pc, worker[w].job, worker[w].shared)
<1>1. worker' = [worker EXCEPT ![w] = r]
      /\ lock' = [j \in Job |-> IF lock[j] = w THEN Nobody ELSE lock[j]]
  BY DEF Ends, Mine
<1>2. worker[w] \in RunType
  BY DEF WorkersInv
<1>3. worker[w].job \in Job /\ worker[w].shared \in BOOLEAN
  BY <1>2 DEF WorkersInv, RunType
<1>4. /\ r \in RunType /\ r.pc = pc /\ r.job = worker[w].job /\ r.shared = worker[w].shared
      /\ r.todo = {}
  BY <1>3, RunIsRun DEF Pcs, Busy
<1> HIDE DEF r
<1>5. KeepsDelivery(w, r)
  BY <1>4 DEF KeepsDelivery
<1>6. MayWrite(w, r)
  BY <1>4 DEF MayWrite, Writing
<1>7. r.pc \in Busy /\ r.job \in Job /\ r.pc \notin Locking
  BY <1>3, <1>4 DEF Busy, Locking
<1> QED  BY <1>1, <1>4, <1>5, <1>6, <1>7, EndsBecomes

LEMMA StartBecomes ==
  ASSUME WorkersInv, NEW w \in Worker, StartWorker(w) PROVE \E r \in RunType : Becomes(w, r)
<1>1. PICK stale \in SUBSET {j \in Job : status[j] = "queued"} :
        worker' = [worker EXCEPT ![w].pc = "sweep", ![w].todo = stale]
  BY DEF StartWorker
<1> DEFINE r == [worker[w] EXCEPT !.pc = "sweep", !.todo = stale]
<1>2. worker' = [worker EXCEPT ![w] = r]
  BY <1>1 DEF WorkersInv
<1>3. worker[w] \in RunType /\ worker[w].pc = "down" /\ lock' = lock
  BY DEF WorkersInv, StartWorker, At
<1>4. r \in RunType /\ r.pc = "sweep" /\ r.job = worker[w].job /\ r.shared = worker[w].shared /\ r.todo = stale
  BY <1>3 DEF RunType, Pcs
<1> HIDE DEF r
<1>5. (r.pc \in Busy <=> r.job \in Job) /\ PromiseOK(r) /\ MayWrite(w, r) /\ KeepsDelivery(w, r)
  BY <1>3, <1>4 DEF WorkersInv, Busy, PromiseOK, MayWrite, Writing, KeepsDelivery
<1>6. LockFollows(w, r)
  BY <1>3, <1>4 DEF WorkersInv, Locking, LockFollows
<1>7. \A j \in r.todo : status[j] = "queued"
  BY <1>4
<1> QED  BY <1>2, <1>4, <1>5, <1>6, <1>7 DEF Becomes

LEMMA SweepBecomes ==
  ASSUME WorkersInv, NEW w \in Worker, SweepQueued(w) PROVE \E r \in RunType : Becomes(w, r)
<1>1. PICK j \in worker[w].todo : worker' = [worker EXCEPT ![w].todo = @ \ {j}]
  BY DEF SweepQueued
<1> DEFINE r == [worker[w] EXCEPT !.todo = @ \ {j}]
<1>2. worker' = [worker EXCEPT ![w] = r]
  BY <1>1
<1>3. worker[w] \in RunType /\ worker[w].pc = "sweep" /\ lock' = lock
  BY DEF WorkersInv, SweepQueued, At
<1>4. /\ r \in RunType /\ r.pc = "sweep" /\ r.job = worker[w].job /\ r.shared = worker[w].shared
      /\ r.todo = worker[w].todo \ {j}
  BY <1>3 DEF RunType
<1> HIDE DEF r
<1>5. (r.pc \in Busy <=> r.job \in Job) /\ PromiseOK(r) /\ MayWrite(w, r) /\ KeepsDelivery(w, r)
  BY <1>3, <1>4 DEF WorkersInv, Busy, PromiseOK, MayWrite, Writing, KeepsDelivery
<1>6. LockFollows(w, r)
  BY <1>3, <1>4 DEF WorkersInv, Locking, LockFollows
<1>7. \A k \in r.todo : k \in worker[w].todo
  BY <1>4
<1> QED  BY <1>2, <1>4, <1>5, <1>6, <1>7 DEF Becomes

LEMMA TakeBecomes ==
  ASSUME TInv, NEW w \in Worker, Take(w) PROVE \E r \in RunType : Becomes(w, r)
<1>1. WorkersInv /\ queue \in Seq(Delivery) /\ queue /= <<>> /\ worker[w].pc = "idle" /\ lock' = lock
  BY DEF TInv, RowsInv, Take, At
<1>2. Head(queue) \in Delivery
  BY <1>1, HeadTailProperties
<1>3. Head(queue).job \in Job /\ Head(queue).shared \in BOOLEAN
  BY <1>2 DEF Delivery
<1> DEFINE r == Run("claim", Head(queue).job, Head(queue).shared)
<1>4. worker' = [worker EXCEPT ![w] = r]
  BY DEF Take
<1>5. /\ r \in RunType /\ r.pc = "claim" /\ r.job = Head(queue).job /\ r.shared = Head(queue).shared
      /\ r.todo = {}
  BY <1>3, RunIsRun DEF Pcs, Busy
<1> HIDE DEF r
<1>6. r.pc \in Busy /\ r.job \in Job /\ PromiseOK(r) /\ MayWrite(w, r) /\ KeepsDelivery(w, r)
  BY <1>3, <1>5 DEF Busy, PromiseOK, MayWrite, Writing, KeepsDelivery
<1>7. LockFollows(w, r)
  BY <1>1, <1>5 DEF WorkersInv, Locking, LockFollows
<1> QED  BY <1>4, <1>5, <1>6, <1>7 DEF Becomes

LEMMA FlushBecomes ==
  ASSUME WorkersInv, NEW w \in Worker, Flush(w) PROVE \E r \in RunType : Becomes(w, r)
<1>1. worker[w] \in RunType /\ worker[w].pc = "flush" /\ worker[w].job \in Job
  BY DEF WorkersInv, Flush, At, Busy
<1> DEFINE r == [worker[w] EXCEPT !.pc = "generate"]  j == worker[w].job
<1>2. worker' = [worker EXCEPT ![w] = r] /\ lock' = [lock EXCEPT ![j] = w] /\ lock[j] = Nobody
  BY DEF Flush, Goes, Mine
<1>3. /\ r \in RunType /\ r.pc = "generate" /\ r.job = j /\ r.shared = worker[w].shared
      /\ r.todo = worker[w].todo
  BY <1>1 DEF RunType, Pcs, Busy
<1> HIDE DEF r
<1>4. r.pc \in Busy /\ r.job \in Job /\ PromiseOK(r) /\ MayWrite(w, r) /\ KeepsDelivery(w, r)
  BY <1>1, <1>3 DEF Busy, PromiseOK, MayWrite, Writing, KeepsDelivery
<1>5. \A k \in Job : lock[k] /= w
  BY <1>1 DEF WorkersInv, Locking
<1>6. LockFollows(w, r)
  <2>1. lock \in [Job -> Worker \cup {Nobody}] /\ j \in Job
    BY <1>1 DEF WorkersInv
  <2>2. \A k \in Job : lock'[k] = IF k = j THEN w ELSE lock[k]
    BY <1>2, <2>1
  <2>3. lock' \in [Job -> Worker \cup {Nobody}]
    BY <1>2, <2>1
  <2>4. \A k \in Job : lock'[k] = w <=> r.job = k /\ r.pc \in Locking
    BY <1>3, <1>5, <2>2 DEF Locking
  <2>5. \A k \in Job, v \in Worker \ {w} : lock'[k] = v <=> lock[k] = v
    BY <1>2, <2>2, ConstantsAssumption
  <2> QED  BY <2>3, <2>4, <2>5 DEF LockFollows
<1> QED  BY <1>2, <1>3, <1>4, <1>6 DEF Becomes

\* A generation has returned.
LEMMA ReturnedBecomes ==
  ASSUME WorkersInv, NEW w \in Worker, Rejected(w) \/ Insert(w) PROVE \E r \in RunType : Becomes(w, r)
<1>1. worker[w] \in RunType /\ worker[w].pc = "generate" /\ worker[w].job \in Job
  BY DEF WorkersInv, Rejected, Insert, At, Busy
<1>2. ASSUME NEW r \in RunType, worker' = [worker EXCEPT ![w] = r], lock' = lock,
             r.pc \in {"commit", "moderate"}, r.job = worker[w].job, r.shared = worker[w].shared,
             r.todo = worker[w].todo, PromiseOK(r)
      PROVE  Becomes(w, r)
  <2>1. r.pc \in Busy /\ r.job \in Job /\ MayWrite(w, r) /\ KeepsDelivery(w, r)
    BY <1>1, <1>2 DEF Busy, MayWrite, Writing, KeepsDelivery
  <2>2. LockFollows(w, r)
    BY <1>1, <1>2 DEF WorkersInv, Locking, LockFollows
  <2> QED  BY <1>2, <2>1, <2>2 DEF Becomes
<1>3. CASE Rejected(w)
  <2>1. PICK outcome \in {"needs_review", "failed"} :
          worker' = [worker EXCEPT ![w].pc = "commit", ![w].outcome = outcome]
    BY <1>3 DEF Rejected
  <2> DEFINE r == [worker[w] EXCEPT !.pc = "commit", !.outcome = outcome]
  <2>2. worker' = [worker EXCEPT ![w] = r] /\ lock' = lock
    BY <1>3, <2>1 DEF Rejected, WorkersInv
  <2>3. /\ r \in RunType /\ r.pc = "commit" /\ r.outcome /= "passed" /\ r.job = worker[w].job
        /\ r.shared = worker[w].shared /\ r.todo = worker[w].todo
    BY <1>1 DEF RunType, Pcs, Busy, Outcome
  <2> HIDE DEF r
  <2> QED  BY <1>2, <2>2, <2>3 DEF PromiseOK
<1>4. CASE Insert(w) /\ story[Mine(w)] = "none"
  <2>1. PICK outcome \in {"passed", "needs_review"} :
          worker' = [worker EXCEPT ![w].pc = "moderate", ![w].outcome = outcome, ![w].inserted = TRUE]
    BY <1>4 DEF Insert
  <2> DEFINE r == [worker[w] EXCEPT !.pc = "moderate", !.outcome = outcome, !.inserted = TRUE]
  <2>2. worker' = [worker EXCEPT ![w] = r] /\ lock' = lock
    BY <1>4, <2>1 DEF Insert, WorkersInv
  <2>3. /\ r \in RunType /\ r.pc = "moderate" /\ r.inserted /\ r.job = worker[w].job
        /\ r.shared = worker[w].shared /\ r.todo = worker[w].todo
    BY <1>1 DEF RunType, Pcs, Busy, Outcome
  <2> HIDE DEF r
  <2> QED  BY <1>2, <2>2, <2>3 DEF PromiseOK
<1>5. CASE Insert(w) /\ story[Mine(w)] /= "none"
  <2>1. Ends(w, "rescue")
    BY <1>5 DEF Insert
  <2> QED  BY <1>1, <2>1, EndsAt DEF Busy
<1> QED  BY <1>3, <1>4, <1>5

LEMMA LeaveBecomes ==
  ASSUME WorkersInv, NEW w \in Worker, Return(w) \/ Kill(w) PROVE \E r \in RunType : Becomes(w, r)
<1>1. CASE Return(w)
  <2>1. worker' = [worker EXCEPT ![w] = Idle] /\ lock' = lock /\ worker[w].pc = "done"
    BY <1>1 DEF Return, At
  <2>2. LockFollows(w, Idle)
    BY <2>1, IdleAndDown DEF WorkersInv, Locking, LockFollows
  <2> QED  BY <2>1, <2>2, IdleAndDown, ConstantsAssumption
           DEF Becomes, KeepsDelivery, MayWrite, PromiseOK, Busy, Writing
<1>2. CASE Kill(w)
  <2>1. PICK r \in {Idle, Down} : worker' = [worker EXCEPT ![w] = r]
    BY <1>2 DEF Kill
  <2>2. r \in RunType /\ r.job = NoJob /\ r.pc \in {"idle", "down"} /\ r.todo = {}
    BY IdleAndDown
  <2>3. lock' = [j \in Job |-> IF lock[j] = w THEN Nobody ELSE lock[j]]
    BY <1>2 DEF Kill
  <2>4. /\ r.pc \notin Busy /\ r.job \notin Job /\ r.pc \notin Locking
        /\ KeepsDelivery(w, r) /\ MayWrite(w, r)
    BY <2>2, ConstantsAssumption DEF Busy, Locking, Writing, KeepsDelivery, MayWrite
  <2> QED  BY <2>1, <2>2, <2>3, <2>4, EndsBecomes
<1> QED  BY <1>1, <1>2

WorkerActs(w) == StartWorker(w) \/ WorkerStep(w) \/ Interrupt(w) \/ GuardFails(w) \/ Kill(w)

LEMMA ActsBecome ==
  ASSUME TInv, NEW w \in Worker, WorkerActs(w) PROVE \E r \in RunType : Becomes(w, r)
<1>1. WorkersInv
  BY DEF TInv
<1>2. CASE SweepRunning(w)
  <2>1. At(w, "sweep") /\ Goes(w, "idle") /\ lock' = lock
    BY <1>2 DEF SweepRunning
  <2> QED  BY <1>1, <2>1, GoesBecomes DEF At, Pcs, Busy, Locking, Writing
<1>3. CASE Claim(w)
  <2>1. At(w, "claim") /\ lock' = lock
    BY <1>3 DEF Claim
  <2>2. CASE status[Mine(w)] = "queued"
    <3>1. Goes(w, "flush")
      BY <1>3, <2>2 DEF Claim
    <3> QED  BY <1>1, <2>1, <2>2, <3>1, GoesBecomes DEF At, Pcs, Busy, Locking, Writing, Active
  <2>3. CASE status[Mine(w)] /= "queued"
    <3>1. Goes(w, "done")
      BY <1>3, <2>3 DEF Claim
    <3> QED  BY <1>1, <2>1, <3>1, GoesBecomes DEF At, Pcs, Busy, Locking, Writing
  <2> QED  BY <2>2, <2>3
<1>4. CASE PipelineFails(w)
  <2>1. At(w, "generate") /\ Ends(w, "rescue")
    BY <1>4 DEF PipelineFails
  <2> QED  BY <1>1, <2>1, EndsAt DEF At, Busy
<1>5. CASE Screen(w)
  <2>1. At(w, "moderate")
    BY <1>5 DEF Screen
  <2>2. CASE Goes(w, "commit") /\ lock' = lock
    BY <1>1, <2>1, <2>2, GoesBecomes DEF At, Pcs, Busy, Locking, Writing
  <2>3. CASE Ends(w, "fail")
    BY <1>1, <2>1, <2>3, EndsAt DEF At, Busy, Writing
  <2> QED  BY <1>5, <2>2, <2>3 DEF Screen
<1>6. CASE Commit(w)
  <2>1. At(w, "commit") /\ Ends(w, "done")
    BY <1>6 DEF Commit
  <2> QED  BY <1>1, <2>1, EndsAt DEF At, Busy
<1>7. CASE Interrupt(w)
  <2>1. worker[w].pc \in Busy /\ Ends(w, "rescue")
    BY <1>7 DEF Interrupt, Busy
  <2> QED  BY <1>1, <2>1, EndsAt
<1>8. CASE Rescue(w)
  <2>1. At(w, "rescue") /\ lock' = lock
    BY <1>8 DEF Rescue
  <2>2. CASE status[Mine(w)] \in Active
    <3>1. Goes(w, "record")
      BY <1>8, <2>2 DEF Rescue
    <3> QED  BY <1>1, <2>1, <2>2, <3>1, GoesBecomes DEF At, Pcs, Busy, Locking, Writing
  <2>3. CASE status[Mine(w)] \notin Active
    <3>1. Goes(w, "done")
      BY <1>8, <2>3 DEF Rescue
    <3> QED  BY <1>1, <2>1, <3>1, GoesBecomes DEF At, Pcs, Busy, Locking, Writing
  <2> QED  BY <2>2, <2>3
<1>9. CASE RecordFailure(w)
  <2>1. worker[w].pc \in {"fail", "record"} /\ lock' = lock
    BY <1>9 DEF RecordFailure
  <2>2. CASE At(w, "fail")
    <3>1. Goes(w, "rescue")
      BY <1>9, <2>2 DEF RecordFailure
    <3> QED  BY <1>1, <2>1, <3>1, GoesBecomes DEF Pcs, Busy, Locking, Writing
  <2>3. CASE ~ At(w, "fail")
    <3>1. Goes(w, "done")
      BY <1>9, <2>3 DEF RecordFailure
    <3> QED  BY <1>1, <2>1, <3>1, GoesBecomes DEF Pcs, Busy, Locking, Writing
  <2> QED  BY <2>2, <2>3
<1>10. CASE GuardFails(w)
  <2>1. worker[w].pc \in {"rescue", "record"} /\ Goes(w, "done") /\ lock' = lock
    BY <1>10 DEF GuardFails
  <2> QED  BY <1>1, <2>1, GoesBecomes DEF Pcs, Busy, Locking, Writing
<1> QED
  BY <1>1, <1>2, <1>3, <1>4, <1>5, <1>6, <1>7, <1>8, <1>9, <1>10, StartBecomes, SweepBecomes, TakeBecomes,
     FlushBecomes, ReturnedBecomes, LeaveBecomes
  DEF WorkerActs, WorkerStep

LEMMA AfterActs ==
  ASSUME WorkersInv, NEW w \in Worker, NEW r \in RunType, Becomes(w, r)
  PROVE  /\ worker' \in [Worker -> RunType] /\ worker'[w] = r
         /\ \A v \in Worker \ {w} : worker'[v] = worker[v]
BY DEF WorkersInv, Becomes

LEMMA StepWorkersInv == TInv /\ [Next]_vars => WorkersInv'
<1> SUFFICES ASSUME TInv, [Next]_vars PROVE WorkersInv'
  OBVIOUS
<1>1. WorkersInv
  BY DEF TInv
<1>2. CASE UNCHANGED <<worker, lock>>
  BY <1>1, <1>2 DEF WorkersInv
<1>3. ASSUME NEW w \in Worker, WorkerActs(w) PROVE WorkersInv'
  <2>1. PICK r \in RunType : Becomes(w, r)
    BY <1>3, ActsBecome
  <2>2. /\ worker' \in [Worker -> RunType] /\ worker'[w] = r
        /\ \A v \in Worker \ {w} : worker'[v] = worker[v]
    BY <1>1, <2>1, AfterActs
  <2>3. (r.pc \in Busy <=> r.job \in Job) /\ PromiseOK(r) /\ LockFollows(w, r)
    BY <2>1 DEF Becomes
  <2>4. \A v \in Worker : (worker'[v].pc \in Busy <=> worker'[v].job \in Job) /\ PromiseOK(worker'[v])
    BY <1>1, <2>2, <2>3 DEF WorkersInv
  <2>5. \A v \in Worker, j \in Job : lock'[j] = v <=> worker'[v].job = j /\ worker'[v].pc \in Locking
    BY <1>1, <2>2, <2>3 DEF WorkersInv, LockFollows
  <2>6. \A v \in Worker : PromiseOK(worker[v])'
    BY <2>4 DEF PromiseOK
  <2> QED  BY <2>2, <2>3, <2>4, <2>5, <2>6 DEF WorkersInv, LockFollows
<1> QED
  BY <1>2, <1>3 DEF Next, vars, WorkerActs, PostConcept, PostPlan, Post, EnqueueSafely, Forget,
     ForceFail, ForceFailed, RedisLoses

-----------------------------------------------------------------------------
(***************************************************************************)
(* What a step does to the rows and to the queue.                          *)
(***************************************************************************)
\* Every way in which a row's status changes.
LEMMA StatusStep ==
  ASSUME TInv, [Next]_vars
  PROVE  /\ status' \in [Job -> {"absent"} \cup Active \cup Outcome]
         /\ \A j \in Job :
              \/ status'[j] = status[j]
              \/ status[j] = "absent" /\ status'[j] = "queued"
              \/ status[j] = "running" /\ status'[j] = "failed"
              \/ j \in forcing /\ status'[j] = "failed"
              \/ \E w \in Worker : /\ worker[w].pc \in Writing /\ worker[w].job = j
                                   /\ status'[j] = "failed" \/ (Commit(w) /\ status'[j] = worker[w].outcome)
<1>1. status \in [Job -> {"absent"} \cup Active \cup Outcome] /\ WorkersInv
  BY DEF TInv, RowsInv
<1>2. CASE status' = status
  BY <1>1, <1>2
<1>3. ASSUME NEW j \in Job, NEW e, Post(j, e) PROVE /\ status[j] = "absent"
                                                   /\ status' = [status EXCEPT ![j] = "queued"]
  BY <1>3 DEF Post
<1>4. ASSUME NEW j \in Job, ForceFailed(j) PROVE j \in forcing /\ status' = [status EXCEPT ![j] = "failed"]
  BY <1>4 DEF ForceFailed
<1>5. ASSUME NEW w \in Worker, SweepRunning(w)
      PROVE  \E orphans \in SUBSET {j \in Job : status[j] = "running"} :
               status' = [j \in Job |-> IF j \in orphans THEN "failed" ELSE status[j]]
  BY <1>5 DEF SweepRunning
<1>6. ASSUME NEW w \in Worker, PipelineFails(w) \/ RecordFailure(w) \/ Commit(w)
      PROVE  /\ worker[w].pc \in Writing /\ worker[w].job \in Job
             /\ \/ status' = [status EXCEPT ![worker[w].job] = "failed"]
                \/ Commit(w) /\ status' = [status EXCEPT ![worker[w].job] = worker[w].outcome]
             /\ worker[w].outcome \in Outcome
  BY <1>1, <1>6 DEF PipelineFails, RecordFailure, Commit, At, Mine, WorkersInv, RunType, Writing, Busy
<1>7. CASE \E j \in Job : PostConcept(j) \/ PostPlan(j)
  BY <1>1, <1>3, <1>7 DEF PostConcept, PostPlan, Active
<1>8. CASE \E j \in Job : ForceFailed(j)
  BY <1>1, <1>4, <1>8 DEF Outcome
<1>9. CASE \E w \in Worker : SweepRunning(w)
  BY <1>1, <1>5, <1>9 DEF Outcome
<1>10. CASE \E w \in Worker : PipelineFails(w) \/ RecordFailure(w) \/ Commit(w)
  <2>1. PICK w \in Worker : PipelineFails(w) \/ RecordFailure(w) \/ Commit(w)
    BY <1>10
  <2>2. PICK new \in Outcome : /\ status' = [status EXCEPT ![worker[w].job] = new]
                               /\ new = "failed" \/ (Commit(w) /\ new = worker[w].outcome)
    BY <1>6, <2>1 DEF Outcome
  <2> QED  BY <1>1, <1>6, <2>1, <2>2
<1> QED
  BY <1>2, <1>7, <1>8, <1>9, <1>10
  DEF Next, vars, rows, WorkerStep, EnqueueSafely, Forget, ForceFail, RedisLoses, StartWorker,
      SweepQueued, Take, Claim, Flush, Rejected, Insert, Screen, Rescue, Return, Interrupt, GuardFails, Kill

\* A story is inserted by a commit, screened, and stays.
LEMMA StoryStep ==
  ASSUME TInv, [Next]_vars
  PROVE  /\ story' \in [Job -> {"none", "screened"}]
         /\ \A j \in Job : story[j] = "screened" => story'[j] = "screened"
<1>1. story \in [Job -> {"none", "screened"}]
  BY DEF TInv, RowsInv
<1>2. CASE story' = story
  BY <1>1, <1>2
<1>3. CASE \E w \in Worker : Commit(w)
  BY <1>1, <1>3 DEF Commit
<1> QED
  BY <1>2, <1>3
  DEF Next, vars, rows, WorkerStep, PostConcept, PostPlan, Post, EnqueueSafely, Forget, ForceFail,
      ForceFailed, RedisLoses, StartWorker, SweepQueued, SweepRunning, Take, Claim, Flush,
      PipelineFails, Rejected, Insert, Screen, Rescue, RecordFailure, Return, Interrupt, GuardFails, Kill

LEMMA AppendStep ==
  ASSUME queue \in Seq(Delivery), NEW j \in Job, NEW shared \in BOOLEAN,
         queue' = Append(queue, [job |-> j, shared |-> shared])
  PROVE  /\ queue' \in Seq(Delivery) /\ Len(queue') = Len(queue) + 1
         /\ \A i \in 1 .. Len(queue) : queue'[i] = queue[i]
         /\ queue'[Len(queue) + 1].job = j /\ queue'[Len(queue) + 1].shared = shared
<1> DEFINE d == [job |-> j, shared |-> shared]
<1>1. d \in Delivery /\ d.job = j /\ d.shared = shared /\ queue' = Append(queue, d)
  BY DEF Delivery
<1> HIDE DEF d
<1> QED  BY <1>1, AppendProperties

LEMMA TailStep ==
  ASSUME queue \in Seq(Delivery), queue /= <<>>, queue' = Tail(queue)
  PROVE  /\ queue' \in Seq(Delivery) /\ Len(queue) \in Nat /\ Len(queue) > 0
         /\ Len(queue') = Len(queue) - 1
         /\ \A i \in 1 .. Len(queue') : queue'[i] = queue[i + 1]
         /\ Head(queue) = queue[1]
<1>1. /\ queue' \in Seq(Delivery) /\ Len(queue') = Len(queue) - 1
      /\ \A i \in 1 .. Len(queue') : queue'[i] = queue[i + 1]
  BY HeadTailProperties
<1>2. Len(queue) \in Nat /\ Len(queue) > 0
  BY EmptySeq, LenProperties
<1> QED  BY <1>1, <1>2

LEMMA StepRowsInv == TInv /\ [Next]_vars => RowsInv'
<1> SUFFICES ASSUME TInv, [Next]_vars PROVE RowsInv'
  OBVIOUS
<1>1. RowsInv /\ worker \in [Worker -> RunType]
  BY DEF TInv, WorkersInv
<1>2. origin' \in [Job -> {"none", "concept", "story request"}]
  BY <1>1 DEF RowsInv, Next, vars, rows, WorkerStep, PostConcept, PostPlan, Post, EnqueueSafely, Forget,
     ForceFail, ForceFailed, RedisLoses, StartWorker, SweepQueued, SweepRunning, Take, Claim, Flush,
     PipelineFails, Rejected, Insert, Screen, Commit, Rescue, RecordFailure, Return, Interrupt, GuardFails, Kill
<1>3. pending' \subseteq Job /\ forcing' \subseteq Job
  BY <1>1 DEF RowsInv, Next, vars, rows, WorkerStep, PostConcept, PostPlan, Post, EnqueueSafely, Forget,
     ForceFail, ForceFailed, RedisLoses, StartWorker, SweepQueued, SweepRunning, Take, Claim, Flush,
     PipelineFails, Rejected, Insert, Screen, Commit, Rescue, RecordFailure, Return, Interrupt, GuardFails, Kill
<1>4. used' \in [kills : 0 .. MaxFaults, losses : 0 .. MaxFaults, guards : 0 .. MaxFaults]
  <2>1. used.kills \in 0 .. MaxFaults /\ used.losses \in 0 .. MaxFaults /\ used.guards \in 0 .. MaxFaults
    BY <1>1 DEF RowsInv
  <2>2. CASE used' = used
    BY <1>1, <2>2 DEF RowsInv
  <2>3. CASE Spend("kills") \/ Spend("losses") \/ Spend("guards")
    <3>1. used.kills + used.losses + used.guards < MaxFaults
      BY <2>3 DEF Spend, Faults
    <3>2. \/ used' = [used EXCEPT !.kills = @ + 1] \/ used' = [used EXCEPT !.losses = @ + 1]
          \/ used' = [used EXCEPT !.guards = @ + 1]
      BY <1>1, <2>3 DEF Spend, RowsInv
    <3>3. /\ used.kills + 1 \in 0 .. MaxFaults /\ used.losses + 1 \in 0 .. MaxFaults
          /\ used.guards + 1 \in 0 .. MaxFaults
      BY <2>1, <3>1, ConstantsAssumption
    <3> QED  BY <1>1, <3>2, <3>3 DEF RowsInv
  <2> QED
    BY <2>2, <2>3 DEF Next, vars, WorkerStep, PostConcept, PostPlan, Post, EnqueueSafely, Forget,
       ForceFail, ForceFailed, RedisLoses, StartWorker, SweepQueued, SweepRunning, Take, Claim,
       Flush, PipelineFails, Rejected, Insert, Screen, Commit, Rescue, RecordFailure, Return,
       Interrupt, GuardFails, Kill
<1>5. queue' \in Seq(Delivery) /\ held' \subseteq Job
  <2>1. queue \in Seq(Delivery) /\ held \subseteq Job
    BY <1>1 DEF RowsInv
  <2>2. CASE UNCHANGED redis
    BY <2>1, <2>2 DEF redis
  <2>3. ASSUME NEW j \in Job, EnqueueShared(j) PROVE queue' \in Seq(Delivery) /\ held' \subseteq Job
    BY <2>1, <2>3, AppendStep DEF EnqueueShared
  <2>4. ASSUME NEW j \in Job, EnqueueFresh(j) PROVE queue' \in Seq(Delivery) /\ held' \subseteq Job
    BY <2>1, <2>4, AppendStep DEF EnqueueFresh
  <2>5. ASSUME NEW j \in Job, EnqueueSafely(j) PROVE queue' \in Seq(Delivery) /\ held' \subseteq Job
    BY <2>2, <2>3, <2>4, <2>5 DEF EnqueueSafely
  <2>6. ASSUME NEW w \in Worker, SweepQueued(w) PROVE queue' \in Seq(Delivery) /\ held' \subseteq Job
    <3>1. PICK j \in worker[w].todo : EnqueueShared(j)
      BY <2>6 DEF SweepQueued
    <3>2. j \in Job
      BY <1>1 DEF RunType
    <3> QED  BY <2>3, <3>1, <3>2
  <2>7. ASSUME NEW w \in Worker, Take(w) PROVE queue' \in Seq(Delivery) /\ held' \subseteq Job
    BY <2>1, <2>7, TailStep DEF Take
  <2>8. CASE RedisLoses
    BY <2>8, EmptySeq DEF RedisLoses
  <2>9. ASSUME NEW j \in Job, Forget(j) PROVE queue' \in Seq(Delivery) /\ held' \subseteq Job
    BY <2>1, <2>9 DEF Forget
  <2> QED
    BY <2>2, <2>5, <2>6, <2>7, <2>8, <2>9
    DEF Next, vars, redis, WorkerStep, PostConcept, PostPlan, Post, ForceFail, ForceFailed, StartWorker,
        SweepRunning, Claim, Flush, PipelineFails, Rejected, Insert, Screen, Commit, Rescue,
        RecordFailure, Return, Interrupt, GuardFails, Kill
<1> QED  BY <1>2, <1>3, <1>4, <1>5, StatusStep, StoryStep DEF RowsInv

LEMMA StepTInv == TInv /\ [Next]_vars => TInv'
BY StepRowsInv, StepWorkersInv DEF TInv

\* Rows, runs and deliveries have their types, and a row is locked exactly by the run that
\* has claimed it and not ended, whatever is interrupted or killed.
THEOREM TypeCorrect == Spec => []TypeOK
<1>1. TInv => TypeOK
  <2> SUFFICES ASSUME TInv PROVE TypeOK
    OBVIOUS
  <2>1. Pcs = {"down", "sweep", "idle", "claim", "flush", "generate", "moderate", "commit",
               "fail", "rescue", "record", "done"}
    BY DEF Pcs, Busy
  <2>2. RunType = [pc : {"down", "sweep", "idle", "claim", "flush", "generate", "moderate", "commit",
                         "fail", "rescue", "record", "done"},
                   job : Job \cup {NoJob}, shared : BOOLEAN, todo : SUBSET Job,
                   outcome : Outcome, inserted : BOOLEAN]
    BY <2>1 DEF RunType
  <2>3. \A w \in Worker, j \in Job :
          lock[j] = w <=> Mine(w) = j /\ worker[w].pc \in {"generate", "moderate", "commit"}
    BY DEF TInv, WorkersInv, Locking, Mine
  <2>4. story \in [Job -> {"none", "unscreened", "screened"}]
    BY DEF TInv, RowsInv
  <2>5. queue \in Seq([job : Job, shared : BOOLEAN])
    BY DEF TInv, RowsInv, Delivery
  <2> QED  BY <2>2, <2>3, <2>4, <2>5 DEF TInv, RowsInv, WorkersInv, TypeOK
<1> QED  BY <1>1, InitTInv, StepTInv, PTL DEF Spec

-----------------------------------------------------------------------------
(***************************************************************************)
(* Stories.                                                                *)
(***************************************************************************)
PassedInv == \A j \in Job : status[j] = "passed" => story[j] = "screened"

LEMMA StepPassedInv == TInv /\ PassedInv /\ [Next]_vars => PassedInv'
<1> SUFFICES ASSUME TInv, PassedInv, [Next]_vars, NEW j \in Job, status'[j] = "passed"
             PROVE  story'[j] = "screened"
  BY DEF PassedInv
<1>1. CASE status'[j] = status[j]
  BY <1>1, StoryStep DEF PassedInv
<1>2. CASE \E w \in Worker : worker[w].job = j /\ Commit(w) /\ status'[j] = worker[w].outcome
  <2>1. PICK w \in Worker : worker[w].job = j /\ Commit(w) /\ worker[w].outcome = "passed"
    BY <1>2
  <2>2. worker[w].inserted
    BY <2>1 DEF TInv, WorkersInv, PromiseOK, Commit, At
  <2> QED  BY <2>1, <2>2 DEF Commit, Mine, TInv, RowsInv
<1> QED  BY <1>1, <1>2, StatusStep

\* A job that passed has its story, and no story is in the library's tables before it was
\* screened, whatever is interrupted, killed, run twice or force-failed.
THEOREM PassedHasScreenedStoryAlways == Spec => []PassedHasScreenedStory
<1>1. Init => PassedInv
  BY DEF Init, PassedInv
<1>2. TInv /\ PassedInv => PassedHasScreenedStory
  BY DEF TInv, RowsInv, PassedInv, PassedHasScreenedStory
<1> QED  BY <1>1, <1>2, InitTInv, StepTInv, StepPassedInv, PTL DEF Spec

-----------------------------------------------------------------------------
(***************************************************************************)
(* Deliveries.  As long as Redis keeps what it holds, every delivery of a  *)
(* concept's job goes by the row's id, RQ holds that id, and there is one  *)
(* at most: it waits, or a worker has it.                                  *)
(***************************************************************************)
Concept == {j \in Job : origin[j] = "concept"}

\* Nothing knows of a row that is not there yet.
AbsentInv ==
  \A j \in Job : status[j] = "absent" =>
    /\ j \notin Concept /\ j \notin pending /\ j \notin forcing
    /\ \A i \in 1 .. Len(queue) : queue[i].job /= j
    /\ \A w \in Worker : worker[w].job /= j /\ j \notin worker[w].todo

OneDelivery ==
  /\ \A i \in 1 .. Len(queue) : queue[i].job \in Concept => queue[i].shared /\ queue[i].job \in held
  /\ \A w \in Worker : worker[w].job \in Concept => worker[w].shared /\ worker[w].job \in held
  /\ \A i, k \in 1 .. Len(queue) : queue[i].job \in Concept /\ queue[i].job = queue[k].job => i = k
  /\ \A v, w \in Worker : worker[v].job \in Concept /\ worker[v].job = worker[w].job => v = w
  /\ \A i \in 1 .. Len(queue), w \in Worker : queue[i].job \in Concept => worker[w].job /= queue[i].job

\* The run that has one may write the row only while no other outcome stands in it.
Standing ==
  \A w \in Worker : worker[w].pc \in Writing /\ worker[w].job \in Concept =>
    status[worker[w].job] \notin {"passed", "needs_review"}

DInv == AbsentInv /\ (used.losses = 0 => OneDelivery /\ Standing)

\* Which runs a step leaves alone.
LEMMA RunsStep ==
  ASSUME TInv, [Next]_vars
  PROVE  \A w \in Worker :
           \/ worker'[w] = worker[w]
           \/ WorkerActs(w) /\ Becomes(w, worker'[w])
<1>1. WorkersInv
  BY DEF TInv
<1>2. CASE worker' = worker
  BY <1>2
<1>3. ASSUME NEW v \in Worker, WorkerActs(v)
      PROVE  \A w \in Worker : worker'[w] = worker[w] \/ (WorkerActs(w) /\ Becomes(w, worker'[w]))
  <2>1. PICK r \in RunType : Becomes(v, r)
    BY <1>3, ActsBecome
  <2>2. worker'[v] = r /\ \A w \in Worker \ {v} : worker'[w] = worker[w]
    BY <1>1, <2>1, AfterActs
  <2> QED  BY <1>3, <2>1, <2>2
<1> QED
  BY <1>2, <1>3 DEF Next, vars, WorkerActs, PostConcept, PostPlan, Post, EnqueueSafely, Forget,
     ForceFail, ForceFailed, RedisLoses

\* A run keeps the delivery it has, gives it up, or takes the oldest.
LEMMA DeliveryStep ==
  ASSUME TInv, [Next]_vars, NEW w \in Worker
  PROVE  \/ worker'[w].job = NoJob
         \/ worker'[w].job = worker[w].job /\ worker'[w].shared = worker[w].shared
         \/ Take(w) /\ worker'[w].job = Head(queue).job /\ worker'[w].shared = Head(queue).shared
BY RunsStep DEF Becomes, KeepsDelivery

LEMMA TakesOne ==
  ASSUME TInv, NEW w \in Worker, Take(w)
  PROVE  /\ worker[w].job \notin Job
         /\ \A v \in Worker \ {w} : worker'[v] = worker[v]
         /\ worker'[w].job = Head(queue).job /\ worker'[w].shared = Head(queue).shared
<1>1. worker \in [Worker -> RunType] /\ worker[w].pc = "idle" /\ (worker[w].pc \in Busy <=> worker[w].job \in Job)
  BY DEF TInv, WorkersInv, Take, At
<1>2. worker' = [worker EXCEPT ![w] = Run("claim", Head(queue).job, Head(queue).shared)]
  BY DEF Take
<1>3. worker'[w] = Run("claim", Head(queue).job, Head(queue).shared) /\ \A v \in Worker \ {w} : worker'[v] = worker[v]
  BY <1>1, <1>2
<1> QED  BY <1>1, <1>3 DEF Busy, Run

\* Every way in which the queue and the ids RQ holds change.
RedisKept == queue' = queue /\ held' = held
RedisActs ==
  \/ \E j \in Job : EnqueueSafely(j) \/ Forget(j)
  \/ \E w \in Worker : SweepQueued(w) \/ Take(w)
  \/ RedisLoses

LEMMA RedisStep == [Next]_vars => RedisKept \/ RedisActs
BY DEF RedisKept, RedisActs, Next, vars, redis, WorkerStep, PostConcept, PostPlan, Post, ForceFail,
   ForceFailed, StartWorker, SweepRunning, Claim, Flush, PipelineFails, Rejected, Insert,
   Screen, Commit, Rescue, RecordFailure, Return, Interrupt, GuardFails, Kill

LEMMA OriginStep ==
  [Next]_vars => \/ origin' = origin
                 \/ \E j \in Job, e \in {"concept", "story request"} : Post(j, e)
BY DEF Next, vars, rows, WorkerStep, PostConcept, PostPlan, EnqueueSafely, Forget,
   ForceFail, ForceFailed, RedisLoses, StartWorker, SweepQueued, SweepRunning, Take, Claim, Flush,
   PipelineFails, Rejected, Insert, Screen, Commit, Rescue, RecordFailure, Return, Interrupt, GuardFails, Kill

\* What waits after a step was waiting before it, or is that of a row some caller has.
LEMMA QueueStep ==
  ASSUME TInv, [Next]_vars
  PROVE  \A i \in 1 .. Len(queue') :
           \/ \E k \in 1 .. Len(queue) : queue'[i] = queue[k]
           \/ queue'[i].job \in pending
           \/ \E w \in Worker : queue'[i].job \in worker[w].todo
<1>1. queue \in Seq(Delivery) /\ worker \in [Worker -> RunType] /\ pending \subseteq Job /\ Len(queue) \in Nat
  BY LenProperties DEF TInv, RowsInv, WorkersInv
<1>2. CASE queue' = queue
  BY <1>2
<1>3. ASSUME NEW j \in Job, NEW shared \in BOOLEAN, queue' = Append(queue, [job |-> j, shared |-> shared])
      PROVE  \A i \in 1 .. Len(queue') : queue'[i].job = j \/ \E k \in 1 .. Len(queue) : queue'[i] = queue[k]
  BY <1>1, <1>3, AppendStep
<1>4. CASE \E j \in Job : EnqueueSafely(j)
  <2>1. PICK j \in Job : EnqueueSafely(j)
    BY <1>4
  <2>2. j \in pending /\ (queue' = queue \/ \E shared \in BOOLEAN : queue' = Append(queue, [job |-> j, shared |-> shared]))
    BY <2>1 DEF EnqueueSafely, EnqueueShared, EnqueueFresh, redis
  <2> QED  BY <1>2, <1>3, <2>2
<1>5. CASE \E w \in Worker : SweepQueued(w)
  <2>0. PICK w \in Worker : SweepQueued(w)
    BY <1>5
  <2>1. PICK j \in worker[w].todo : EnqueueShared(j)
    BY <2>0 DEF SweepQueued
  <2>2. j \in Job
    BY <1>1 DEF RunType
  <2>3. queue' = queue \/ queue' = Append(queue, [job |-> j, shared |-> TRUE])
    BY <2>1 DEF EnqueueShared
  <2> QED  BY <1>2, <1>3, <2>1, <2>2, <2>3
<1>6. CASE \E w \in Worker : Take(w)
  <2>1. queue /= <<>> /\ queue' = Tail(queue)
    BY <1>6 DEF Take
  <2>2. /\ Len(queue') = Len(queue) - 1
        /\ \A i \in 1 .. Len(queue') : queue'[i] = queue[i + 1]
    BY <1>1, <2>1, TailStep
  <2>3. \A i \in 1 .. Len(queue') : i + 1 \in 1 .. Len(queue)
    BY <1>1, <2>2
  <2> QED  BY <2>2, <2>3
<1>7. CASE RedisLoses
  <2>1. Len(queue') = 0
    BY <1>7 DEF RedisLoses
  <2> QED  BY <2>1
<1>8. CASE \E j \in Job : Forget(j)
  BY <1>8 DEF Forget
<1> QED  BY <1>2, <1>4, <1>5, <1>6, <1>7, <1>8, RedisStep DEF RedisKept, RedisActs

LEMMA StepAbsentInv == TInv /\ AbsentInv /\ [Next]_vars => AbsentInv'
<1> SUFFICES ASSUME TInv, AbsentInv, [Next]_vars, NEW j \in Job, status'[j] = "absent"
             PROVE  /\ (j \notin Concept)' /\ j \notin pending' /\ j \notin forcing'
                    /\ \A i \in 1 .. Len(queue') : queue'[i].job /= j
                    /\ \A w \in Worker : worker'[w].job /= j /\ j \notin worker'[w].todo
  BY DEF AbsentInv
<1>1. /\ status \in [Job -> {"absent"} \cup Active \cup Outcome] /\ worker \in [Worker -> RunType]
      /\ queue \in Seq(Delivery) /\ origin \in [Job -> {"none", "concept", "story request"}]
  BY DEF TInv, RowsInv, WorkersInv
<1>2. status[j] = "absent"
  <2>1. \A w \in Worker : worker[w].outcome \in Outcome
    BY <1>1 DEF RunType
  <2> QED  BY <2>1, StatusStep DEF Outcome
<1>3. ~ \E e : Post(j, e)
  BY <1>1 DEF Post
<1>4. /\ origin[j] /= "concept" /\ j \notin pending /\ j \notin forcing
      /\ \A i \in 1 .. Len(queue) : queue[i].job /= j
      /\ \A w \in Worker : worker[w].job /= j /\ j \notin worker[w].todo
  BY <1>2 DEF AbsentInv, Concept
<1>5. (j \notin Concept)'
  <2>1. CASE origin' = origin
    BY <1>4, <2>1 DEF Concept
  <2>2. CASE \E k \in Job, e \in {"concept", "story request"} : Post(k, e)
    <3>1. PICK k \in Job, e \in {"concept", "story request"} : Post(k, e)
      BY <2>2
    <3>2. k /= j /\ origin' = [origin EXCEPT ![k] = e]
      BY <1>3, <3>1 DEF Post
    <3> QED  BY <1>1, <1>4, <3>2 DEF Concept
  <2> QED  BY <2>1, <2>2, OriginStep
<1>6. j \notin pending' /\ j \notin forcing'
  <2>1. CASE \E k \in Job, e \in {"concept", "story request"} : Post(k, e)
    <3>1. PICK k \in Job, e \in {"concept", "story request"} : Post(k, e)
      BY <2>1
    <3> QED  BY <1>3, <1>4, <3>1 DEF Post
  <2>2. CASE \E k \in Job : ForceFail(k)
    BY <1>2, <1>4, <2>2 DEF ForceFail, Active
  <2> QED
    BY <1>4, <2>1, <2>2
    DEF Next, vars, WorkerStep, PostConcept, PostPlan, EnqueueSafely, Forget, ForceFailed, RedisLoses,
        StartWorker, SweepQueued, SweepRunning, Take, Claim, Flush, PipelineFails, Rejected,
        Insert, Screen, Commit, Rescue, RecordFailure, Return, Interrupt, GuardFails, Kill
<1>7. \A i \in 1 .. Len(queue') : queue'[i].job /= j
  BY <1>4, QueueStep
<1>8. ASSUME NEW w \in Worker PROVE worker'[w].job /= j /\ j \notin worker'[w].todo
  <2>1. worker'[w].job /= j
    <3>1. CASE Take(w)
      <4>1. queue /= <<>> /\ Head(queue) = queue[1] /\ Len(queue) \in Nat /\ Len(queue) > 0
        BY <1>1, <3>1, TailStep DEF Take
      <4> QED  BY <1>4, <3>1, <4>1, TakesOne
    <3>2. CASE ~ Take(w)
      BY <1>4, <3>2, DeliveryStep, ConstantsAssumption
    <3> QED  BY <3>1, <3>2
  <2>2. j \notin worker'[w].todo
    BY <1>2, <1>4, RunsStep DEF Becomes
  <2> QED  BY <2>1, <2>2
<1> QED  BY <1>5, <1>6, <1>7, <1>8

\* No run gets a delivery.
NoneTaken ==
  \A w \in Worker : \/ worker'[w].job = NoJob
                    \/ worker'[w].job = worker[w].job /\ worker'[w].shared = worker[w].shared

LEMMA ConceptsAreJobs == NoJob \notin Concept /\ (origin' = origin => Concept' = Concept)
BY ConstantsAssumption DEF Concept

LEMMA NothingNew ==
  ASSUME OneDelivery, NoneTaken, queue' = queue, origin' = origin, held \subseteq held'
  PROVE  OneDelivery'
<1>1. \A w \in Worker : worker'[w].job \in Concept =>
        worker'[w].job = worker[w].job /\ worker'[w].shared = worker[w].shared
  BY ConceptsAreJobs DEF NoneTaken
<1> QED  BY <1>1, ConceptsAreJobs DEF OneDelivery

LEMMA SharedAdded ==
  ASSUME TInv, OneDelivery, NoneTaken, NEW j \in Job, EnqueueShared(j), origin' = origin
  PROVE  OneDelivery'
<1>1. held \subseteq held' /\ j \in held'
  BY DEF EnqueueShared
<1>2. CASE j \in held
  BY <1>1, <1>2, NothingNew DEF EnqueueShared
<1>3. CASE j \notin held
  <2>1. queue \in Seq(Delivery) /\ Len(queue) \in Nat
    BY LenProperties DEF TInv, RowsInv
  <2>2. /\ Len(queue') = Len(queue) + 1
        /\ \A i \in 1 .. Len(queue) : queue'[i] = queue[i]
        /\ queue'[Len(queue) + 1].job = j /\ queue'[Len(queue) + 1].shared = TRUE
    BY <1>3, <2>1, AppendStep DEF EnqueueShared
  <2>3. \A i \in 1 .. Len(queue') : i \in 1 .. Len(queue) \/ i = Len(queue) + 1
    BY <2>1, <2>2
  <2>4. \A w \in Worker : worker'[w].job \in Concept =>
          worker'[w].job = worker[w].job /\ worker'[w].shared = worker[w].shared
    BY ConceptsAreJobs DEF NoneTaken
  <2>5. /\ \A i \in 1 .. Len(queue) : queue[i].job \in Concept => queue[i].job /= j
        /\ \A w \in Worker : worker[w].job \in Concept => worker[w].job /= j
    BY <1>3 DEF OneDelivery
  <2>6. \A i \in 1 .. Len(queue') : queue'[i].job \in Concept => queue'[i].shared /\ queue'[i].job \in held'
    BY <1>1, <2>2, <2>3 DEF OneDelivery
  <2>7. \A w \in Worker : worker'[w].job \in Concept => worker'[w].shared /\ worker'[w].job \in held'
    BY <1>1, <2>4 DEF OneDelivery
  <2>8. \A i, k \in 1 .. Len(queue') : queue'[i].job \in Concept /\ queue'[i].job = queue'[k].job => i = k
    BY <2>2, <2>3, <2>5 DEF OneDelivery
  <2>9. \A v, w \in Worker : worker'[v].job \in Concept /\ worker'[v].job = worker'[w].job => v = w
    BY <2>4 DEF OneDelivery
  <2>10. \A i \in 1 .. Len(queue'), w \in Worker : queue'[i].job \in Concept => worker'[w].job /= queue'[i].job
    BY <2>2, <2>3, <2>4, <2>5 DEF OneDelivery
  <2> QED  BY <2>6, <2>7, <2>8, <2>9, <2>10, ConceptsAreJobs DEF OneDelivery
<1> QED  BY <1>2, <1>3

LEMMA FreshAdded ==
  ASSUME TInv, OneDelivery, NEW j \in Job \ Concept, EnqueueFresh(j), UNCHANGED <<worker, origin>>
  PROVE  OneDelivery'
<1>1. queue \in Seq(Delivery) /\ Len(queue) \in Nat /\ held' = held /\ j \in Job
  BY LenProperties DEF TInv, RowsInv, EnqueueFresh
<1>2. /\ Len(queue') = Len(queue) + 1
      /\ \A i \in 1 .. Len(queue) : queue'[i] = queue[i]
      /\ queue'[Len(queue) + 1].job \notin Concept
  BY <1>1, AppendStep DEF EnqueueFresh
<1>3. \A i \in 1 .. Len(queue') : queue'[i].job \in Concept => i \in 1 .. Len(queue) /\ queue'[i] = queue[i]
  BY <1>1, <1>2
<1>4. \A i \in 1 .. Len(queue') : queue'[i].job \in Concept => queue'[i].shared /\ queue'[i].job \in held'
  BY <1>1, <1>3 DEF OneDelivery
<1>5. \A i, k \in 1 .. Len(queue') : queue'[i].job \in Concept /\ queue'[i].job = queue'[k].job => i = k
  BY <1>3 DEF OneDelivery
<1>6. \A i \in 1 .. Len(queue'), w \in Worker : queue'[i].job \in Concept => worker[w].job /= queue'[i].job
  BY <1>3 DEF OneDelivery
<1> QED  BY <1>1, <1>4, <1>5, <1>6, ConceptsAreJobs DEF OneDelivery

LEMMA OldestTaken ==
  ASSUME TInv, OneDelivery, NEW w \in Worker, Take(w) PROVE OneDelivery'
<1>1. queue \in Seq(Delivery) /\ held' = held /\ origin' = origin /\ queue' = Tail(queue) /\ queue /= <<>>
  BY DEF TInv, RowsInv, Take, rows
<1>2. /\ Len(queue) \in Nat /\ Len(queue) > 0 /\ Len(queue') = Len(queue) - 1
      /\ \A i \in 1 .. Len(queue') : queue'[i] = queue[i + 1]
      /\ Head(queue) = queue[1]
  BY <1>1, TailStep
<1>3. \A i \in 1 .. Len(queue') : i \in Nat /\ i + 1 \in 1 .. Len(queue) /\ i + 1 /= 1
  BY <1>2
<1>4. 1 \in 1 .. Len(queue)
  BY <1>2
<1>5. /\ \A v \in Worker \ {w} : worker'[v] = worker[v]
      /\ worker'[w].job = queue[1].job /\ worker'[w].shared = queue[1].shared
  BY <1>2, TakesOne
<1>6. \A i \in 1 .. Len(queue') : queue'[i].job \in Concept => queue'[i].shared /\ queue'[i].job \in held
  BY <1>2, <1>3 DEF OneDelivery
<1>7. \A v \in Worker : worker'[v].job \in Concept => worker'[v].shared /\ worker'[v].job \in held
  BY <1>4, <1>5 DEF OneDelivery
<1>8. \A i, k \in 1 .. Len(queue') : queue'[i].job \in Concept /\ queue'[i].job = queue'[k].job => i = k
  <2> TAKE i, k \in 1 .. Len(queue')
  <2>1. queue'[i] = queue[i + 1] /\ queue'[k] = queue[k + 1] /\ i + 1 \in 1 .. Len(queue) /\ k + 1 \in 1 .. Len(queue)
    BY <1>2, <1>3
  <2>2. queue'[i].job \in Concept /\ queue'[i].job = queue'[k].job => i + 1 = k + 1
    BY <2>1 DEF OneDelivery
  <2> QED  BY <1>3, <2>2
<1>9. \A u, v \in Worker : worker'[u].job \in Concept /\ worker'[u].job = worker'[v].job => u = v
  BY <1>4, <1>5 DEF OneDelivery
<1>10. \A i \in 1 .. Len(queue'), v \in Worker : queue'[i].job \in Concept => worker'[v].job /= queue'[i].job
  <2> TAKE i \in 1 .. Len(queue'), v \in Worker
  <2>1. queue'[i] = queue[i + 1] /\ i + 1 \in 1 .. Len(queue) /\ i + 1 /= 1
    BY <1>2, <1>3
  <2>2. CASE v = w
    BY <1>4, <1>5, <2>1, <2>2 DEF OneDelivery
  <2>3. CASE v /= w
    BY <1>5, <2>1, <2>3 DEF OneDelivery
  <2> QED  BY <2>2, <2>3
<1> QED  BY <1>1, <1>6, <1>7, <1>8, <1>9, <1>10, ConceptsAreJobs DEF OneDelivery

LEMMA IdForgotten ==
  ASSUME TInv, OneDelivery, NEW j \in Job, Forget(j) PROVE OneDelivery'
<1>1. held' = held \ {j} /\ UNCHANGED <<queue, worker, origin>> /\ ~ Queued(j) /\ ~ Running(j)
  BY DEF Forget, rows
<1>2. DOMAIN queue = 1 .. Len(queue)
  BY LenProperties DEF TInv, RowsInv
<1>3. \A i \in 1 .. Len(queue) : queue[i].job \in Concept => queue[i].job /= j
  BY <1>1, <1>2 DEF OneDelivery, Queued
<1>4. \A w \in Worker : worker[w].job \in Concept => worker[w].job /= j
  BY <1>1 DEF OneDelivery, Running
<1> QED  BY <1>1, <1>3, <1>4, ConceptsAreJobs DEF OneDelivery

LEMMA RowPosted ==
  ASSUME TInv, AbsentInv, OneDelivery, NEW j \in Job, NEW e \in {"concept", "story request"}, Post(j, e)
  PROVE  OneDelivery'
<1>1. UNCHANGED <<queue, held, worker>> /\ status[j] = "absent" /\ origin' = [origin EXCEPT ![j] = e]
  BY DEF Post, redis
<1>2. \A k \in Concept' : k \in Concept \/ k = j
  BY <1>1 DEF Concept, TInv, RowsInv
<1>3. /\ \A i \in 1 .. Len(queue) : queue[i].job \in Concept' => queue[i].job \in Concept
      /\ \A w \in Worker : worker[w].job \in Concept' => worker[w].job \in Concept
  BY <1>1, <1>2 DEF AbsentInv
<1> QED  BY <1>1, <1>3 DEF OneDelivery

LEMMA StepOneDelivery ==
  ASSUME TInv, AbsentInv, OneDelivery, [Next]_vars, ~ RedisLoses PROVE OneDelivery'
<1>1. CASE \E w \in Worker : Take(w)
  BY <1>1, OldestTaken
<1>2. CASE \E j \in Job, e \in {"concept", "story request"} : Post(j, e)
  BY <1>2, RowPosted
<1>3. CASE \E j \in Job : Forget(j)
  BY <1>3, IdForgotten
<1>4. CASE ~ (\E w \in Worker : Take(w)) /\ ~ (\E j \in Job, e \in {"concept", "story request"} : Post(j, e))
           /\ ~ (\E j \in Job : Forget(j))
  <2>1. NoneTaken /\ origin' = origin
    BY <1>4, DeliveryStep, OriginStep DEF NoneTaken
  <2>2. CASE RedisKept
    BY <2>1, <2>2, NothingNew DEF RedisKept
  <2>3. ASSUME NEW j \in Job, EnqueueSafely(j) PROVE OneDelivery'
    <3>1. CASE EnqueueShared(j)
      BY <2>1, <3>1, SharedAdded
    <3>2. CASE origin[j] = "story request" /\ EnqueueFresh(j)
      <4>1. j \in Job \ Concept /\ worker' = worker
        BY <2>3, <3>2 DEF Concept, EnqueueSafely
      <4> QED  BY <2>1, <3>2, <4>1, FreshAdded
    <3>3. CASE UNCHANGED redis
      BY <2>1, <3>3, NothingNew DEF redis
    <3> QED  BY <2>3, <3>1, <3>2, <3>3 DEF EnqueueSafely
  <2>4. ASSUME NEW w \in Worker, SweepQueued(w) PROVE OneDelivery'
    <3>1. PICK j \in worker[w].todo : EnqueueShared(j)
      BY <2>4 DEF SweepQueued
    <3>2. j \in Job
      BY DEF TInv, WorkersInv, RunType
    <3> QED  BY <2>1, <3>1, <3>2, SharedAdded
  <2> QED  BY <1>4, <2>2, <2>3, <2>4, RedisStep DEF RedisActs
<1> QED  BY <1>1, <1>2, <1>3, <1>4

LEMMA StepStanding ==
  ASSUME TInv, OneDelivery, Standing, [Next]_vars, origin' = origin PROVE Standing'
<1> SUFFICES ASSUME NEW w \in Worker, worker'[w].pc \in Writing, worker'[w].job \in Concept
             PROVE  status'[worker'[w].job] \notin {"passed", "needs_review"}
  BY ConceptsAreJobs DEF Standing
<1> DEFINE j == worker'[w].job
<1>1. worker[w].job = j /\ status[j] \notin {"passed", "needs_review"}
  <2>1. CASE worker'[w] = worker[w]
    BY <2>1 DEF Standing
  <2>2. CASE MayWrite(w, worker'[w])
    BY <2>2 DEF MayWrite, Standing, Active
  <2> QED  BY <2>1, <2>2, RunsStep DEF Becomes
<1>2. j \in Job
  BY DEF Concept
<1>3. ASSUME NEW v \in Worker, worker[v].job = j, Commit(v) PROVE FALSE
  <2>1. v = w
    BY <1>1, <1>3 DEF OneDelivery
  <2>2. worker' = [worker EXCEPT ![v] = Run("done", Mine(v), worker[v].shared)]
    BY <1>3 DEF Commit, Ends
  <2>3. worker'[v] = Run("done", Mine(v), worker[v].shared)
    BY <2>2 DEF TInv, WorkersInv
  <2>4. worker'[v].pc = "done"
    BY <2>3 DEF Run
  <2> QED  BY <2>1, <2>4 DEF Writing
<1> HIDE DEF j
<1>4. status'[j] \notin {"passed", "needs_review"}
  BY <1>1, <1>2, <1>3, StatusStep
<1> QED  BY <1>4 DEF j

LEMMA InitDInv == Init => DInv
<1> SUFFICES ASSUME Init PROVE DInv
  OBVIOUS
<1>1. Len(queue) = 0 /\ \A w \in Worker : worker[w] = Down
  BY DEF Init
<1>2. \A w \in Worker : worker[w].job = NoJob /\ worker[w].pc = "down" /\ worker[w].todo = {}
  BY <1>1, IdleAndDown
<1>3. Concept = {} /\ pending = {} /\ forcing = {}
  BY DEF Init, Concept
<1>4. AbsentInv
  BY <1>1, <1>2, <1>3, ConstantsAssumption DEF AbsentInv
<1>5. OneDelivery /\ Standing
  BY <1>1, <1>3 DEF OneDelivery, Standing
<1> QED  BY <1>4, <1>5 DEF DInv

LEMMA StepDInv == TInv /\ DInv /\ [Next]_vars => DInv'
<1> SUFFICES ASSUME TInv, DInv, [Next]_vars, used'.losses = 0 PROVE (OneDelivery /\ Standing)'
  BY StepAbsentInv DEF DInv
<1>1. used \in [kills : 0 .. MaxFaults, losses : 0 .. MaxFaults, guards : 0 .. MaxFaults]
  BY DEF TInv, RowsInv
<1>2. ~ RedisLoses /\ used.losses = 0
  <2>1. CASE used' = used
    BY <1>1, <2>1 DEF RedisLoses, Spend
  <2>2. CASE Spend("losses")
    BY <1>1, <2>2, ConstantsAssumption DEF Spend
  <2>3. CASE (Spend("kills") \/ Spend("guards")) /\ ~ RedisLoses
    BY <1>1, <2>3 DEF Spend
  <2> QED
    BY <2>1, <2>2, <2>3 DEF Next, vars, WorkerStep, PostConcept, PostPlan, Post, EnqueueSafely, Forget,
       ForceFail, ForceFailed, RedisLoses, StartWorker, SweepQueued, SweepRunning, Take, Claim,
       Flush, PipelineFails, Rejected, Insert, Screen, Commit, Rescue, RecordFailure, Return,
       Interrupt, GuardFails, Kill
<1>3. AbsentInv /\ OneDelivery /\ Standing
  BY <1>2 DEF DInv
<1>4. OneDelivery'
  BY <1>2, <1>3, StepOneDelivery
<1>5. Standing'
  <2>1. CASE origin' = origin
    BY <1>3, <2>1, StepStanding
  <2>2. CASE \E j \in Job, e \in {"concept", "story request"} : Post(j, e)
    <3>1. PICK j \in Job, e \in {"concept", "story request"} : Post(j, e)
      BY <2>2
    <3>2. worker' = worker /\ origin' = [origin EXCEPT ![j] = e] /\ status[j] = "absent"
          /\ status' = [status EXCEPT ![j] = "queued"]
      BY <3>1 DEF Post
    <3>3. \A k \in Concept' : k \in Concept \/ k = j
      BY <3>2 DEF Concept, TInv, RowsInv
    <3>4. \A w \in Worker : worker[w].job /= j
      BY <1>3, <3>2 DEF AbsentInv
    <3> QED  BY <1>3, <3>2, <3>3, <3>4 DEF Standing, Concept, TInv, RowsInv
  <2> QED  BY <2>1, <2>2, OriginStep
<1> QED  BY <1>4, <1>5

\* As long as Redis keeps what it holds, a job of the concept endpoint is with one delivery
\* at most, however often it is swept up or its worker killed.
THEOREM DeliveredOnceAlways == Spec => []DeliveredOnce
<1>1. TInv /\ DInv => DeliveredOnce
  <2> SUFFICES ASSUME TInv, DInv, used.losses = 0, NEW j \in Job, origin[j] = "concept",
                      NEW a \in Deliveries(j), NEW b \in Deliveries(j)
               PROVE  a = b
    BY DEF DeliveredOnce
  <2>1. OneDelivery /\ j \in Concept
    BY DEF DInv, Concept
  <2>2. DOMAIN queue = 1 .. Len(queue)
    BY LenProperties DEF TInv, RowsInv
  <2>3. ASSUME NEW c \in Deliveries(j)
        PROVE  \/ \E i \in 1 .. Len(queue) : c = <<"queue", i>> /\ queue[i].job = j
               \/ \E w \in Worker : c = <<"worker", w>> /\ worker[w].job = j
    BY <2>2 DEF Deliveries
  <2>4. CASE \E i, k \in 1 .. Len(queue) : /\ a = <<"queue", i>> /\ queue[i].job = j
                                           /\ b = <<"queue", k>> /\ queue[k].job = j
    BY <2>1, <2>4 DEF OneDelivery
  <2>5. CASE \E v, w \in Worker : /\ a = <<"worker", v>> /\ worker[v].job = j
                                  /\ b = <<"worker", w>> /\ worker[w].job = j
    BY <2>1, <2>5 DEF OneDelivery
  <2>6. ~ \E i \in 1 .. Len(queue), w \in Worker : queue[i].job = j /\ worker[w].job = j
    BY <2>1 DEF OneDelivery
  <2> QED  BY <2>3, <2>4, <2>5, <2>6
<1> QED  BY <1>1, InitTInv, StepTInv, InitDInv, StepDInv, PTL DEF Spec

\* Types, locks and deliveries, as the run checks them.
THEOREM DeliveryInvAlways == Spec => []DeliveryInv
BY TypeCorrect, DeliveredOnceAlways, PTL DEF DeliveryInv

\* An outcome of such a job that calls for no further run is rewritten by nobody but an
\* operator, unless Redis has lost something.
THEOREM OutcomesStandAlways == Spec => OutcomesStand
<1>1. ASSUME TInv, DInv, [Next]_vars, NEW j \in Job,
             origin[j] = "concept", status[j] \in {"passed", "needs_review"}, status'[j] /= status[j]
      PROVE  j \in forcing \/ used.losses > 0
  <2>1. used.losses \in Nat
    <3>1. used \in [kills : 0 .. MaxFaults, losses : 0 .. MaxFaults, guards : 0 .. MaxFaults]
      BY <1>1 DEF TInv, RowsInv
    <3> QED  BY <3>1
  <2>2. CASE \E w \in Worker : worker[w].pc \in Writing /\ worker[w].job = j
    BY <1>1, <2>1, <2>2 DEF DInv, Standing, Concept
  <2> QED  BY <1>1, <2>2, StatusStep
<1>2. TInv /\ DInv /\ [Next]_vars =>
        [\A j \in Job :
           origin[j] = "concept" /\ status[j] \in {"passed", "needs_review"} /\ status'[j] /= status[j] =>
             j \in forcing \/ used.losses > 0]_vars
  BY <1>1
<1> QED  BY <1>2, InitTInv, StepTInv, InitDInv, StepDInv, PTL DEF Spec, OutcomesStand
=============================================================================
