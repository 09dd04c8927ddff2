---------------------------- MODULE StoryRequests ----------------------------
(***************************************************************************)
(* Requests for stories and the money they cost (story_requests/service.py *)
(* and api/story_requests.py): a child asks, a guardian or an admin        *)
(* decides, an adult may also write a request and have it at once, and an  *)
(* admin plans the generation of what was approved.  There is no ledger:   *)
(* what a family has spent is counted from its approved requests each      *)
(* time.  Every endpoint is a transaction that reads what is committed,    *)
(* statement by statement, and commits as it answers.  One family.         *)
(***************************************************************************)
EXTENDS Integers, FiniteSets, Sequences

CONSTANTS
  Request,      \* the rows there can be
  Child,        \* the family's profiles
  Delegated,    \* those whose requests a guardian has pre-authorized
  Caller,       \* how many calls are handled at once
  Nobody,       \* no profile: an authored request need not name a child
  Quotas,       \* what the family's quota of stories a month may be
  Envelope,     \* stories a month a pre-authorized child may have of itself
  MaxPending,   \* requests of a child that may be waiting (5)
  MaxMonth,     \* the months that go by
  MaxJobs       \* bound: generation jobs in all, a plan's not refused

RequestsAssumption ==
  /\ Delegated \subseteq Child /\ Nobody \notin Child
  /\ Quotas \subseteq Nat /\ Envelope \in Nat /\ MaxPending \in Nat /\ MaxMonth \in Nat \ {0}
  /\ MaxJobs \in Nat
  /\ IsFiniteSet(Caller) /\ IsFiniteSet(Request)
ASSUME RequestsAssumption

VARIABLES
  row,    \* the committed rows of story_request; by is who approved, if anyone has
  jobs,   \* the generation jobs of each request's concept in the order they were inserted,
          \* each by what inserted it: the plan or a guardian directly
  built,  \* how many concepts were built for each request
  month,  \* the present one
  quota,  \* of the family: its own, or the platform's default
  call,   \* the transactions
  raced   \* history: two of them have been under way at once

rows == <<row, jobs, built>>
vars == <<rows, month, quota, call, raced>>

NoRow == [status |-> "none", profile |-> Nobody, by |-> "none", approvedIn |-> 0]
Idle == [stage |-> "idle", req |-> {}, by |-> "none", profile |-> Nobody, stamp |-> 0]

Rows(status) == {r \in Request : row[r].status = status}
PendingOf(p) == {r \in Rows("pending") : row[r].profile = p}

\* _approved_count_since the start of the month.
Spent == {r \in Rows("approved") : row[r].approvedIn = month}
SpentBy(p) == {r \in Spent : row[r].profile = p}

\* A row is locked from SELECT ... FOR UPDATE to the end of the transaction.
Unlocked(r) == \A t \in Caller : r \notin call[t].req
Fresh == {r \in Rows("none") : Unlocked(r)}

Init ==
  /\ row = [r \in Request |-> NoRow]
  /\ jobs = [r \in Request |-> <<>>]
  /\ built = [r \in Request |-> 0]
  /\ month = 1
  /\ quota \in Quotas
  /\ raced = FALSE
  /\ call = [t \in Caller |-> Idle]

Begin(t, by, stage, req, profile) ==
  /\ call[t] = Idle
  /\ call' = [call EXCEPT ![t] = [stage |-> stage, req |-> req, by |-> by,
                                  profile |-> profile, stamp |-> 0]]
  /\ raced' = (raced \/ \E u \in Caller \ {t} : call[u] /= Idle)
  /\ UNCHANGED <<rows, month, quota>>
To(t, stage) == call' = [call EXCEPT ![t].stage = stage]
End(t) == call' = [call EXCEPT ![t] = Idle]
Reading == UNCHANGED <<rows, month, quota, raced>>

(***************************************************************************)
(* create_story_request: the pending cap, then the screening of the text   *)
(* by classifiers, then the row; a pre-authorized child's is approved in   *)
(* the same transaction as long as envelope and quota allow.               *)
(***************************************************************************)
Create(t, p) ==
  /\ Cardinality(PendingOf(p)) < MaxPending
  /\ Begin(t, "none", "screen", {}, p)

\* create_authored_story_request, by a guardian or an admin, for a child or none.
CreateAuthored(t, by, p) == Begin(t, by, "screen authored", {}, p)

Insert(t, r, stage) ==
  call' = [call EXCEPT ![t].req = {r}, ![t].stage = stage]

ScreenRequest(t) ==
  LET waiting == IF call[t].profile \in Delegated THEN "envelope" ELSE "pending"
  IN  /\ call[t].stage = "screen"
      /\ \E r \in Fresh : Insert(t, r, "blocked") \/ Insert(t, r, waiting)
      /\ Reading

ScreenAuthored(t) ==
  /\ call[t].stage = "screen authored"
  /\ \E r \in Fresh : Insert(t, r, "blocked") \/ Insert(t, r, "quota")
  /\ Reading

\* can_auto_approve: first the child's envelope, then the family's quota.
CheckEnvelope(t) ==
  /\ call[t].stage = "envelope"
  /\ To(t, IF Cardinality(SpentBy(call[t].profile)) < Envelope THEN "family" ELSE "pending")
  /\ Reading

CheckFamily(t) ==
  /\ call[t].stage = "family"
  /\ IF Cardinality(Spent) < quota
       THEN call' = [call EXCEPT ![t].stage = "quota", ![t].by = "auto"]
       ELSE To(t, "pending")
  /\ Reading

(***************************************************************************)
(* approve_story_request_endpoint, decline_story_request_endpoint and      *)
(* create_authoring_plan lock the row first and look at it then.           *)
(***************************************************************************)
\* Fault: the row is read without a lock.
LoadUnlocked(t, by, status, stage) ==
  \E r \in Rows(status) : Begin(t, by, stage, {r}, row[r].profile)

LoadScoped(t, by, status, stage) ==
  \E r \in Rows(status) :
    Unlocked(r) /\ Begin(t, by, stage, {r}, row[r].profile)

Approve(t, by) == LoadScoped(t, by, "pending", "quota")
Decline(t) == LoadScoped(t, "none", "pending", "decline")
Plan(t) == LoadScoped(t, "none", "approved", "plan")

\* Fault: the quota is the child's to keep, nobody else is asked.
QuotaForChildren(t) ==
  /\ call[t].stage = "quota"
  /\ IF call[t].by /= "auto" \/ Cardinality(Spent) < quota THEN To(t, "build") ELSE End(t)
  /\ Reading

\* enforce_family_quota; a refusal is an error, and the transaction is rolled back.
EnforceFamilyQuota(t) ==
  /\ call[t].stage = "quota"
  /\ IF call[t].by = "admin" \/ Cardinality(Spent) < quota THEN To(t, "build") ELSE End(t)
  /\ Reading

\* _build_concept stamps the time at which the request counts as approved.
BuildConcept(t) ==
  /\ call[t].stage = "build"
  /\ call' = [call EXCEPT ![t].stage = "approved", ![t].stamp = month]
  /\ Reading

(***************************************************************************)
(* The end of a transaction.                                               *)
(***************************************************************************)
\* The status the row gets; a waiting or blocked request is new, the others may be.
Decided(t) ==
  CASE call[t].stage = "decline" -> "declined"
    [] call[t].stage \in {"pending", "blocked", "approved"} -> call[t].stage
    [] OTHER -> "none"

Commit(t) ==
  /\ Decided(t) /= "none"
  /\ \E r \in call[t].req :
       /\ row' = [row EXCEPT ![r] =
            [status |-> Decided(t), profile |-> call[t].profile, approvedIn |-> call[t].stamp,
             by |-> IF Decided(t) = "approved" THEN call[t].by ELSE "none"]]
       /\ built' = [built EXCEPT ![r] = @ + IF Decided(t) = "approved" THEN 1 ELSE 0]
  /\ End(t)
  /\ UNCHANGED <<jobs, month, quota, raced>>

Jobs == UNION {{r} \X DOMAIN jobs[r] : r \in Request}

\* Fault: nobody looks for the job there is.
PlanAgain(t) ==
  /\ call[t].stage = "plan"
  /\ To(t, "planned")
  /\ Reading

\* build_authoring_plan: an error if the concept has a job; what else the plan needs is
\* read before it adds one.
FindJob(t) ==
  /\ call[t].stage = "plan"
  /\ IF \A r \in call[t].req : jobs[r] = <<>> THEN To(t, "planned") ELSE End(t)
  /\ Reading

CommitPlan(t) ==
  /\ call[t].stage = "planned"
  /\ \E r \in call[t].req : jobs' = [jobs EXCEPT ![r] = Append(@, "plan")]
  /\ End(t)
  /\ UNCHANGED <<row, built, month, quota, raced>>

\* enqueue_concept_generation: a guardian's way round the plan.  It asks the quota, but
\* looks at no request, counts for none and looks for no job there is: each call inserts
\* another.  One step, as nothing it reads excludes it.
GenerateConcept ==
  /\ Cardinality(Spent) < quota /\ Cardinality(Jobs) < MaxJobs
  /\ \E r \in Rows("approved") : jobs' = [jobs EXCEPT ![r] = Append(@, "direct")]
  /\ UNCHANGED <<row, built, month, quota, call, raced>>

\* A title or a text that cannot be used, an anchor that is gone, an outage.
Fail(t) == call[t].stage /= "idle" /\ End(t) /\ Reading

NextMonth ==
  /\ month < MaxMonth
  /\ month' = month + 1
  /\ UNCHANGED <<rows, quota, call, raced>>

Start(t) ==
  \/ \E p \in Child : Create(t, p)
  \/ \E by \in {"guardian", "admin"} :
       \/ \E p \in Child \cup {Nobody} : CreateAuthored(t, by, p)
       \/ Approve(t, by)
  \/ Decline(t) \/ Plan(t)

Step(t) ==
  \/ ScreenRequest(t) \/ ScreenAuthored(t) \/ CheckEnvelope(t) \/ CheckFamily(t)
  \/ EnforceFamilyQuota(t) \/ BuildConcept(t) \/ Commit(t)
  \/ FindJob(t) \/ CommitPlan(t) \/ Fail(t)

Next == NextMonth \/ GenerateConcept \/ \E t \in Caller : Start(t) \/ Step(t)
Spec == Init /\ [][Next]_vars

(***************************************************************************)
(* Properties                                                              *)
(***************************************************************************)
Statuses == {"none", "blocked", "pending", "approved", "declined"}
\* Rows that were approved, and only they, have a time of approval.
TypeOK ==
  /\ month \in 1 .. MaxMonth
  /\ \A r \in Request :
       /\ row[r].status \in Statuses /\ row[r].profile \in Child \cup {Nobody}
       /\ row[r].approvedIn \in 0 .. month
       /\ row[r].status = "approved" <=> row[r].approvedIn > 0
  /\ jobs \in [Request -> Seq({"plan", "direct"})]
  /\ \A t \in Caller : call[t].stamp \in 0 .. month

\* A request is turned into one concept when it is approved, and only then into jobs.
BuiltOnce ==
  \A r \in Request :
    /\ built[r] = IF row[r].status = "approved" THEN 1 ELSE 0
    /\ jobs[r] /= <<>> => built[r] = 1

\* A concept is planned once, however many admins plan it at once (_load_scoped_request: no
\* double paid generation).  What a guardian sends to generation directly is excepted, and
\* only that: each such call pays for one job more, after a plan or while one is made.
PlannedOnce ==
  \A r \in Request : \A i, j \in DOMAIN jobs[r] :
    jobs[r][i] = "plan" /\ jobs[r][j] = "plan" => i = j

\* Rows, jobs and calls have their types, and approvals build and plans enqueue once.
RequestInv == TypeOK /\ BuiltOnce /\ PlannedOnce

\* What calls in flight can add to a bound that each of them checked for itself.
Overlap == IF raced THEN Cardinality(Caller) - 1 ELSE 0

\* What a month costs the family without an admin's doing stays within its quota, but for
\* calls that overlapped (enforce_family_quota).
SpendIsBounded ==
  \A m \in 1 .. month :
    Cardinality({r \in Rows("approved") : row[r].approvedIn = m /\ row[r].by /= "admin"})
      <= quota + Overlap

\* Nobody but the child clicked for these: they stay within the child's envelope, but for
\* calls that overlapped (can_auto_approve).
EnvelopeIsBounded ==
  \A m \in 1 .. month : \A p \in Child :
    Cardinality({r \in Rows("approved") :
                  row[r].approvedIn = m /\ row[r].by = "auto" /\ row[r].profile = p})
      <= IF p \in Delegated THEN Envelope + Overlap ELSE 0

\* A child has only so many requests waiting, but for calls that overlapped.
PendingIsBounded ==
  \A p \in Child : Cardinality(PendingOf(p)) <= MaxPending + Overlap

\* The three limits a request has to pass, each checked by a call for itself.
LimitsHold == SpendIsBounded /\ EnvelopeIsBounded /\ PendingIsBounded

\* A decision stands: whatever is approved, declined or blocked stays so, under the same
\* child and with the same time of approval (what the spend is counted from).
DecisionsStand ==
  [][\A r \in Request : row[r].status \notin {"none", "pending"} => row'[r] = row[r]]_vars
=============================================================================
