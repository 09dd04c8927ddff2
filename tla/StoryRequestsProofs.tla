------------------------- MODULE StoryRequestsProofs -------------------------
(***************************************************************************)
(* What StoryRequests guarantees for every family, any number of requests, *)
(* of calls at once and of months: its type, that nothing is built or      *)
(* planned twice, that decisions stand, and the limits.  The first three  *)
(* rest on the locks of the rows: a call holds its row in a state in which *)
(* what it goes on to write is still the first decision.  The limits rest  *)
(* on counting the calls in flight together with the rows they will add.   *)
(***************************************************************************)
EXTENDS StoryRequests, FiniteSetTheorems, SequenceTheorems, TLAPS

Deciders == {"none", "guardian", "admin", "auto"}
Profiles == Child \cup {Nobody}
Stages == {"idle", "screen", "screen authored", "blocked", "envelope", "family", "pending",
           "quota", "build", "approved", "decline", "plan", "planned"}

RowType == [Request -> [status : Statuses, profile : Profiles, by : Deciders, approvedIn : Nat]]
CallType == [Caller -> [stage : Stages, req : SUBSET Request, by : Deciders,
                        profile : Profiles, stamp : Nat]]

JobSeq == Seq({"plan", "direct"})

\* The rows, and what was built and planned for them.
RowsInv ==
  /\ row \in RowType /\ jobs \in [Request -> JobSeq] /\ built \in [Request -> Nat]
  /\ month \in 1 .. MaxMonth
  /\ \A r \in Request : /\ row[r].approvedIn <= month
                        /\ row[r].status = "approved" <=> row[r].approvedIn > 0
  /\ BuiltOnce

\* What the row of a call may say as long as the call holds it.
Held(stage) ==
  {status \in Statuses :
    \/ stage \in {"envelope", "family", "pending", "blocked"} /\ status = "none"
    \/ stage \in {"quota", "build", "approved"} /\ status \in {"none", "pending"}
    \/ stage = "decline" /\ status = "pending"
    \/ stage \in {"plan", "planned"} /\ status = "approved"}

CallOK(c) ==
  /\ \A r \in c.req : row[r].status \in Held(c.stage)
  /\ c.stamp <= month
  /\ c.stage = "approved" <=> c.stamp > 0

Exclusive == \A t, u \in Caller : t /= u => call[t].req \cap call[u].req = {}

CallsInv == call \in CallType /\ (\A t \in Caller : CallOK(call[t])) /\ Exclusive

IInv == RowsInv /\ CallsInv

LEMMA IdleType ==
  ASSUME NEW c, c = Idle, month \in 1 .. MaxMonth, MaxMonth \in Nat
  PROVE  /\ c \in [stage : Stages, req : SUBSET Request, by : Deciders,
                   profile : Profiles, stamp : Nat]
         /\ CallOK(c) /\ c.req = {}
BY DEF Idle, Stages, Deciders, Profiles, CallOK

LEMMA InitIInv == Init => IInv
<1> SUFFICES ASSUME Init PROVE IInv
  OBVIOUS
<1>1. month = 1 /\ MaxMonth \in Nat /\ month \in 1 .. MaxMonth
  BY RequestsAssumption DEF RequestsAssumption, Init
<1>2. row \in RowType
  BY DEF Init, RowType, NoRow, Statuses, Profiles, Deciders
<1>3. \A r \in Request : row[r].status = "none" /\ row[r].approvedIn = 0 /\ jobs[r] = <<>> /\ built[r] = 0
  BY DEF Init, NoRow
<1>4. RowsInv
  <2>1. jobs \in [Request -> JobSeq] /\ \A r \in Request : DOMAIN jobs[r] = {}
    BY <1>3, EmptySeq DEF Init, JobSeq
  <2> QED  BY <1>1, <1>2, <1>3, <2>1 DEF Init, RowsInv, BuiltOnce
<1>5. CallsInv
  <2>1. \A t \in Caller : call[t] = Idle
    BY DEF Init
  <2>2. call \in CallType
    BY <1>1, IdleType DEF Init, CallType
  <2> QED  BY <1>1, <2>1, <2>2, IdleType DEF CallsInv, Exclusive
<1> QED  BY <1>4, <1>5 DEF IInv

-----------------------------------------------------------------------------
(***************************************************************************)
(* A step of one call that writes nothing keeps the invariant if it leaves *)
(* the call in order and takes only a row nobody holds.                    *)
(***************************************************************************)
LEMMA CallStep ==
  ASSUME IInv, NEW t \in Caller, UNCHANGED <<row, month>>,
         call' \in CallType, \A u \in Caller \ {t} : call'[u] = call[u],
         CallOK(call'[t]),
         \A r \in call'[t].req : r \in call[t].req \/ Unlocked(r)
  PROVE  CallsInv'
<1>1. \A u \in Caller : CallOK(call'[u])
  BY DEF IInv, CallsInv
<1>2. \A u \in Caller : CallOK(call[u])'
  BY <1>1 DEF CallOK
<1>3. Exclusive'
  BY DEF IInv, CallsInv, Exclusive, Unlocked
<1> QED  BY <1>2, <1>3 DEF CallsInv

\* A call that only moves on to a stage in which it may hold what it holds.
LEMMA MoveStep ==
  ASSUME IInv, NEW t \in Caller, NEW stage \in Stages, To(t, stage), UNCHANGED <<row, month>>,
         call[t].stage /= "approved", stage /= "approved",
         Held(call[t].stage) \subseteq Held(stage)
  PROVE  CallsInv'
<1>1. call \in CallType /\ CallOK(call[t])
  BY DEF IInv, CallsInv
<1>2. call' = [call EXCEPT ![t].stage = stage]
  BY DEF To
<1>3. call' \in CallType /\ \A u \in Caller \ {t} : call'[u] = call[u]
  BY <1>1, <1>2 DEF CallType
<1>4. call'[t].req = call[t].req /\ call'[t].stamp = call[t].stamp /\ call'[t].stage = stage
  BY <1>1, <1>2 DEF CallType
<1>5. CallOK(call'[t])
  BY <1>1, <1>4 DEF CallOK
<1> QED  BY <1>3, <1>4, <1>5, CallStep

LEMMA EndStep ==
  ASSUME IInv, NEW t \in Caller, End(t), UNCHANGED <<row, month>>
  PROVE  CallsInv'
<1>1. call \in CallType /\ month \in 1 .. MaxMonth /\ MaxMonth \in Nat
  BY RequestsAssumption DEF RequestsAssumption, IInv, CallsInv, RowsInv
<1>2. call' = [call EXCEPT ![t] = Idle]
  BY DEF End
<1>3. call'[t] = Idle /\ \A u \in Caller \ {t} : call'[u] = call[u]
  BY <1>1, <1>2 DEF CallType
<1>4. call' \in CallType
  BY <1>1, <1>2, IdleType DEF CallType
<1> QED  BY <1>1, <1>3, <1>4, IdleType, CallStep

LEMMA BeginStep ==
  ASSUME IInv, NEW t \in Caller, NEW by \in Deciders, NEW stage \in Stages, NEW req \in SUBSET Request,
         NEW profile \in Profiles, Begin(t, by, stage, req, profile), UNCHANGED row,
         stage /= "approved",
         \A r \in req : Unlocked(r) /\ row[r].status \in Held(stage)
  PROVE  CallsInv'
<1>1. call \in CallType /\ month \in 1 .. MaxMonth /\ MaxMonth \in Nat /\ month' = month
  BY RequestsAssumption DEF RequestsAssumption, IInv, CallsInv, RowsInv, Begin
<1> DEFINE new == [stage |-> stage, req |-> req, by |-> by, profile |-> profile, stamp |-> 0]
<1>2. call' = [call EXCEPT ![t] = new]
  BY DEF Begin
<1>3. new.req = req /\ new.stage = stage /\ new.stamp = 0
  OBVIOUS
<1>4. new \in [stage : Stages, req : SUBSET Request, by : Deciders, profile : Profiles, stamp : Nat]
  OBVIOUS
<1> HIDE DEF new
<1>5. call'[t] = new /\ \A u \in Caller \ {t} : call'[u] = call[u]
  BY <1>1, <1>2 DEF CallType
<1>6. call' \in CallType
  BY <1>1, <1>2, <1>4 DEF CallType
<1>7. CallOK(new)
  BY <1>1, <1>3 DEF CallOK
<1> QED  BY <1>1, <1>3, <1>5, <1>6, <1>7, CallStep

LEMMA InsertStep ==
  ASSUME IInv, NEW t \in Caller, NEW r \in Fresh, NEW stage \in {"blocked", "envelope", "pending", "quota"},
         Insert(t, r, stage), UNCHANGED <<row, month>>, call[t].stage /= "approved"
  PROVE  CallsInv'
<1>1. call \in CallType /\ CallOK(call[t]) /\ r \in Request /\ Unlocked(r) /\ row[r].status = "none"
  BY DEF IInv, CallsInv, Fresh, Rows
<1>2. call' = [call EXCEPT ![t].req = {r}, ![t].stage = stage]
  BY DEF Insert
<1>3. call'[t] = [call[t] EXCEPT !.req = {r}, !.stage = stage]
      /\ \A u \in Caller \ {t} : call'[u] = call[u]
  BY <1>1, <1>2 DEF CallType
<1>4. call'[t].req = {r} /\ call'[t].stage = stage /\ call'[t].stamp = call[t].stamp
  BY <1>1, <1>3 DEF CallType
<1>5. call' \in CallType
  BY <1>1, <1>2 DEF CallType, Stages
<1>6. CallOK(call'[t])
  BY <1>1, <1>4 DEF CallOK, Held, Statuses
<1> QED  BY <1>1, <1>3, <1>4, <1>5, <1>6, CallStep

\* A call that starts is in order.
LEMMA StartCallsInv == ASSUME IInv, NEW t \in Caller, Start(t), UNCHANGED row PROVE CallsInv'
<1>1. ASSUME NEW p \in Child, Create(t, p) PROVE CallsInv'
  <2>1. Begin(t, "none", "screen", {}, p) /\ p \in Profiles
    BY <1>1 DEF Create, Profiles
  <2>2. "none" \in Deciders /\ "screen" \in Stages /\ {} \in SUBSET Request
    BY DEF Deciders, Stages
  <2> QED  BY <2>1, <2>2, BeginStep
<1>2. ASSUME NEW by \in {"guardian", "admin"}, NEW p \in Child \cup {Nobody}, CreateAuthored(t, by, p)
      PROVE  CallsInv'
  <2>1. Begin(t, by, "screen authored", {}, p) /\ p \in Profiles
    BY <1>2 DEF CreateAuthored, Profiles
  <2>2. by \in Deciders /\ "screen authored" \in Stages /\ {} \in SUBSET Request
    BY <1>2 DEF Deciders, Stages
  <2> QED  BY <2>1, <2>2, BeginStep
<1>3. ASSUME NEW by \in Deciders, NEW status \in Statuses, NEW stage \in Stages,
             LoadScoped(t, by, status, stage), status \in Held(stage), stage /= "approved"
      PROVE  CallsInv'
  <2>1. PICK r \in Rows(status) : Unlocked(r) /\ Begin(t, by, stage, {r}, row[r].profile)
    BY <1>3 DEF LoadScoped
  <2>2. r \in Request /\ row[r].status = status /\ row[r].profile \in Profiles
    BY <2>1 DEF Rows, IInv, RowsInv, RowType
  <2> QED  BY <1>3, <2>1, <2>2, BeginStep
<1>4. ASSUME NEW by \in {"guardian", "admin"}, Approve(t, by) PROVE CallsInv'
  BY <1>3, <1>4 DEF Approve, Deciders, Statuses, Stages, Held
<1>5. CASE Decline(t)
  BY <1>3, <1>5 DEF Decline, Deciders, Statuses, Stages, Held
<1>6. CASE Plan(t)
  BY <1>3, <1>6 DEF Plan, Deciders, Statuses, Stages, Held
<1> QED  BY <1>1, <1>2, <1>4, <1>5, <1>6 DEF Start

\* A call between its start and its end.
Middle(t) ==
  \/ ScreenRequest(t) \/ ScreenAuthored(t) \/ CheckEnvelope(t) \/ CheckFamily(t)
  \/ EnforceFamilyQuota(t) \/ BuildConcept(t) \/ FindJob(t) \/ Fail(t)

LEMMA MiddleCallsInv == ASSUME IInv, NEW t \in Caller, Middle(t) PROVE CallsInv'
<1>1. UNCHANGED <<row, month>>
  BY DEF Middle, ScreenRequest, ScreenAuthored, CheckEnvelope, CheckFamily, EnforceFamilyQuota,
         BuildConcept, FindJob, Fail, Reading, rows
<1>2. CASE ScreenRequest(t)
  <2>1. PICK r \in Fresh, stage \in {"blocked", "envelope", "pending"} : Insert(t, r, stage)
    BY <1>2 DEF ScreenRequest
  <2> QED  BY <1>1, <1>2, <2>1, InsertStep DEF ScreenRequest
<1>3. CASE ScreenAuthored(t)
  <2>1. PICK r \in Fresh, stage \in {"blocked", "quota"} : Insert(t, r, stage)
    BY <1>3 DEF ScreenAuthored
  <2> QED  BY <1>1, <1>3, <2>1, InsertStep DEF ScreenAuthored
<1>4. CASE CheckEnvelope(t)
  <2>1. PICK stage \in {"family", "pending"} : To(t, stage)
    BY <1>4 DEF CheckEnvelope
  <2> QED  BY <1>1, <1>4, <2>1, MoveStep DEF CheckEnvelope, Stages, Held
<1>5. CASE CheckFamily(t)
  <2>1. call[t].stage = "family"
    BY <1>5 DEF CheckFamily
  <2>2. CASE To(t, "pending")
    BY <1>1, <2>1, <2>2, MoveStep DEF Stages, Held
  <2>3. CASE call' = [call EXCEPT ![t].stage = "quota", ![t].by = "auto"]
    <3>1. call \in CallType /\ CallOK(call[t])
      BY DEF IInv, CallsInv
    <3>2. call'[t] = [call[t] EXCEPT !.stage = "quota", !.by = "auto"]
          /\ \A u \in Caller \ {t} : call'[u] = call[u]
      BY <2>3, <3>1 DEF CallType
    <3>3. call'[t].req = call[t].req /\ call'[t].stamp = call[t].stamp /\ call'[t].stage = "quota"
      BY <3>1, <3>2 DEF CallType
    <3>4. call' \in CallType
      <4>1. "quota" \in Stages /\ "auto" \in Deciders
        BY DEF Stages, Deciders
      <4> QED  BY <2>3, <3>1, <4>1 DEF CallType
    <3>5. CallOK(call'[t])
      BY <2>1, <3>1, <3>3 DEF CallOK, Held
    <3> QED  BY <1>1, <3>2, <3>3, <3>4, <3>5, CallStep
  <2> QED  BY <1>5, <2>2, <2>3 DEF CheckFamily
<1>6. CASE EnforceFamilyQuota(t)
  <2>1. call[t].stage = "quota" /\ (To(t, "build") \/ End(t))
    BY <1>6 DEF EnforceFamilyQuota
  <2> QED  BY <1>1, <2>1, MoveStep, EndStep DEF Stages, Held
<1>0. CASE FindJob(t)
  <2>1. call[t].stage = "plan" /\ (To(t, "planned") \/ End(t))
    BY <1>0 DEF FindJob
  <2> QED  BY <1>1, <2>1, MoveStep, EndStep DEF Stages, Held
<1>7. CASE BuildConcept(t)
  <2>1. call \in CallType /\ CallOK(call[t]) /\ month \in 1 .. MaxMonth /\ MaxMonth \in Nat
    BY RequestsAssumption DEF RequestsAssumption, IInv, CallsInv, RowsInv
  <2>2. call' = [call EXCEPT ![t].stage = "approved", ![t].stamp = month] /\ call[t].stage = "build"
    BY <1>7 DEF BuildConcept
  <2>3. call'[t] = [call[t] EXCEPT !.stage = "approved", !.stamp = month]
        /\ \A u \in Caller \ {t} : call'[u] = call[u]
    BY <2>1, <2>2 DEF CallType
  <2>4. call'[t].req = call[t].req /\ call'[t].stamp = month /\ call'[t].stage = "approved"
    BY <2>1, <2>3 DEF CallType
  <2>5. call' \in CallType
    <3>1. month \in Nat /\ "approved" \in Stages
      BY <2>1 DEF Stages
    <3> QED  BY <2>1, <2>2, <3>1 DEF CallType
  <2>6. CallOK(call'[t])
    <3>1. Held("build") = Held("approved")
      BY DEF Held
    <3>2. \A r \in call[t].req : row[r].status \in Held("approved")
      BY <2>1, <2>2, <3>1 DEF CallOK
    <3> QED  BY <2>1, <2>4, <3>2 DEF CallOK
  <2> QED  BY <1>1, <2>3, <2>4, <2>5, <2>6, CallStep
<1>8. CASE Fail(t)
  BY <1>1, <1>8, EndStep DEF Fail
<1> QED  BY <1>0, <1>2, <1>3, <1>4, <1>5, <1>6, <1>7, <1>8 DEF Middle

-----------------------------------------------------------------------------
(***************************************************************************)
(* The steps that write rows.                                              *)
(***************************************************************************)
\* What a call commits is the first decision on its row.
LEMMA CommitEffect ==
  ASSUME IInv, NEW t \in Caller, Commit(t)
  PROVE  \E r \in call[t].req :
           /\ r \in Request /\ row[r].status \in {"none", "pending"}
           /\ Decided(t) \in {"pending", "blocked", "approved", "declined"}
           /\ Decided(t) = "approved" <=> call[t].stage = "approved"
           /\ row' = [row EXCEPT ![r] =
                [status |-> Decided(t), profile |-> call[t].profile, approvedIn |-> call[t].stamp,
                 by |-> IF Decided(t) = "approved" THEN call[t].by ELSE "none"]]
           /\ built' = [built EXCEPT ![r] = @ + IF Decided(t) = "approved" THEN 1 ELSE 0]
<1>1. call \in CallType /\ CallOK(call[t])
  BY DEF IInv, CallsInv
<1>2. call[t].stage \in {"decline", "pending", "blocked", "approved"}
  BY DEF Commit, Decided
<1>3. /\ Decided(t) \in {"pending", "blocked", "approved", "declined"}
      /\ Decided(t) = "approved" <=> call[t].stage = "approved"
  BY <1>2 DEF Decided
<1>4. \A r \in call[t].req : r \in Request /\ row[r].status \in {"none", "pending"}
  BY <1>1, <1>2 DEF CallType, CallOK, Held
<1> QED  BY <1>3, <1>4 DEF Commit

LEMMA CommitIInv == ASSUME IInv, NEW t \in Caller, Commit(t) PROVE IInv'
<1>1. call \in CallType /\ CallOK(call[t]) /\ RowsInv /\ month \in 1 .. MaxMonth /\ MaxMonth \in Nat
  BY RequestsAssumption DEF RequestsAssumption, IInv, CallsInv, RowsInv
<1>2. call' = [call EXCEPT ![t] = Idle] /\ UNCHANGED <<jobs, month>>
  BY DEF Commit, End
<1> DEFINE new == [status |-> Decided(t), profile |-> call[t].profile, approvedIn |-> call[t].stamp,
                   by |-> IF Decided(t) = "approved" THEN call[t].by ELSE "none"]
<1>3. PICK r \in call[t].req :
           /\ r \in Request /\ row[r].status \in {"none", "pending"}
           /\ Decided(t) \in {"pending", "blocked", "approved", "declined"}
           /\ Decided(t) = "approved" <=> call[t].stage = "approved"
           /\ row' = [row EXCEPT ![r] = new]
           /\ built' = [built EXCEPT ![r] = @ + IF Decided(t) = "approved" THEN 1 ELSE 0]
  BY CommitEffect
<1>4. new \in [status : Statuses, profile : Profiles, by : Deciders, approvedIn : Nat]
  BY <1>1, <1>3 DEF CallType, Statuses, Deciders
<1>5. row' \in RowType /\ row'[r] = new /\ \A s \in Request \ {r} : row'[s] = row[s]
  <2>1. row \in RowType
    BY <1>1 DEF RowsInv
  <2> HIDE DEF new
  <2> QED  BY <1>3, <1>4, <2>1 DEF RowType
<1>6. new.status = Decided(t) /\ new.approvedIn = call[t].stamp
  OBVIOUS
<1>7. built' \in [Request -> Nat] /\ (\A s \in Request \ {r} : built'[s] = built[s])
      /\ built'[r] = built[r] + IF Decided(t) = "approved" THEN 1 ELSE 0
  BY <1>1, <1>3 DEF RowsInv
<1> HIDE DEF new
<1>8. RowsInv'
  <2>2. \A s \in Request : /\ row'[s].approvedIn <= month
                           /\ row'[s].status = "approved" <=> row'[s].approvedIn > 0
    BY <1>1, <1>3, <1>5, <1>6 DEF RowsInv, CallOK
  <2>3. \A s \in Request : /\ built'[s] = IF row'[s].status = "approved" THEN 1 ELSE 0
                           /\ jobs[s] /= <<>> => built'[s] = 1
    <3>1. ASSUME NEW s \in Request, s /= r
          PROVE  /\ built'[s] = IF row'[s].status = "approved" THEN 1 ELSE 0
                 /\ jobs[s] /= <<>> => built'[s] = 1
      BY <1>1, <1>5, <1>7, <3>1 DEF RowsInv, BuiltOnce
    <3>2. built[r] = 0 /\ jobs[r] = <<>>
      BY <1>1, <1>3 DEF RowsInv, BuiltOnce
    <3>3. built'[r] = (IF row'[r].status = "approved" THEN 1 ELSE 0)
      BY <1>5, <1>6, <1>7, <3>2
    <3> QED  BY <3>1, <3>2, <3>3
  <2> QED  BY <1>1, <1>2, <1>5, <1>7, <2>2, <2>3 DEF RowsInv, BuiltOnce
<1>9. CallsInv'
  <2>1. call'[t] = Idle /\ \A u \in Caller \ {t} : call'[u] = call[u]
    BY <1>1, <1>2 DEF CallType
  <2>2. call' \in CallType
    BY <1>1, <1>2, IdleType DEF CallType
  <2>3. \A u \in Caller \ {t} : r \notin call[u].req
    BY <1>3 DEF IInv, CallsInv, Exclusive
  <2>4. ASSUME NEW u \in Caller \ {t} PROVE CallOK(call[u])'
    <3>1. CallOK(call[u]) /\ call'[u] = call[u] /\ call[u].req \subseteq Request
      BY <2>1 DEF IInv, CallsInv, CallType
    <3> QED  BY <1>2, <1>5, <2>3, <3>1 DEF CallOK
  <2>5. CallOK(call[t])'
    BY <1>1, <1>2, <2>1 DEF CallOK, Idle
  <2>6. Exclusive'
    BY <2>1 DEF IInv, CallsInv, Exclusive, Idle
  <2> QED  BY <2>2, <2>4, <2>5, <2>6 DEF CallsInv
<1> QED  BY <1>8, <1>9 DEF IInv

LEMMA CommitPlanIInv == ASSUME IInv, NEW t \in Caller, CommitPlan(t) PROVE IInv'
<1>1. CallsInv'
  BY EndStep DEF CommitPlan
<1>2. PICK r \in call[t].req : jobs' = [jobs EXCEPT ![r] = Append(@, "plan")]
  BY DEF CommitPlan
<1>3. r \in Request /\ row[r].status = "approved" /\ jobs[r] \in JobSeq
  BY DEF IInv, RowsInv, CallsInv, CallType, CallOK, Held, CommitPlan
<1>4. UNCHANGED <<row, built, month>>
  BY DEF CommitPlan
<1>5. jobs' \in [Request -> JobSeq] /\ \A s \in Request \ {r} : jobs'[s] = jobs[s]
  BY <1>2, <1>3, AppendProperties DEF IInv, RowsInv, JobSeq
<1>6. built[r] = 1
  BY <1>3 DEF IInv, RowsInv, BuiltOnce
<1>7. RowsInv'
  BY <1>4, <1>5, <1>6 DEF IInv, RowsInv, BuiltOnce
<1> QED  BY <1>1, <1>7 DEF IInv

LEMMA GenerateRowsInv == ASSUME IInv, GenerateConcept PROVE RowsInv'
<1>1. PICK r \in Rows("approved") : jobs' = [jobs EXCEPT ![r] = Append(@, "direct")]
  BY DEF GenerateConcept
<1>2. UNCHANGED <<row, built, month>>
  BY DEF GenerateConcept
<1>3. r \in Request /\ row[r].status = "approved" /\ built[r] = 1 /\ jobs[r] \in JobSeq
  BY <1>1 DEF Rows, IInv, RowsInv, BuiltOnce
<1>4. jobs' \in [Request -> JobSeq] /\ \A s \in Request \ {r} : jobs'[s] = jobs[s]
  BY <1>1, <1>3, AppendProperties DEF IInv, RowsInv, JobSeq
<1> QED  BY <1>2, <1>3, <1>4 DEF IInv, RowsInv, BuiltOnce

\* A step that leaves rows and counts alone.
LEMMA RowsFrame == IInv /\ UNCHANGED <<row, jobs, built, month>> => RowsInv'
BY DEF IInv, RowsInv, BuiltOnce, Rows

LEMMA StepIInv == IInv /\ [Next]_vars => IInv'
<1> SUFFICES ASSUME IInv, [Next]_vars PROVE IInv'
  OBVIOUS
<1>1. CASE NextMonth
  <2>1. month' = month + 1 /\ month < MaxMonth /\ UNCHANGED <<row, jobs, built, call>>
    BY <1>1 DEF NextMonth, rows
  <2>2. month \in Nat /\ month' \in 1 .. MaxMonth
    BY <2>1, RequestsAssumption DEF RequestsAssumption, IInv, RowsInv
  <2>3. RowsInv'
    BY <2>1, <2>2 DEF IInv, RowsInv, BuiltOnce, Rows, RowType
  <2>4. CallsInv'
    BY <2>1, <2>2 DEF IInv, CallsInv, CallOK, Exclusive, CallType
  <2> QED  BY <2>3, <2>4 DEF IInv
<1>2. CASE GenerateConcept
  <2>1. UNCHANGED <<row, month, call>>
    BY <1>2 DEF GenerateConcept
  <2>2. RowsInv'
    BY <1>2, GenerateRowsInv
  <2>3. CallsInv'
    BY <2>1 DEF IInv, CallsInv, CallOK, Exclusive
  <2> QED  BY <2>2, <2>3 DEF IInv
<1>3. ASSUME NEW t \in Caller, Start(t) PROVE IInv'
  <2>1. UNCHANGED <<row, jobs, built, month>>
    BY <1>3 DEF Start, Create, CreateAuthored, Approve, Decline, Plan, LoadScoped, Begin, rows
  <2> QED  BY <1>3, <2>1, StartCallsInv, RowsFrame DEF IInv
<1>4. ASSUME NEW t \in Caller, Middle(t) PROVE IInv'
  <2>1. UNCHANGED <<row, jobs, built, month>>
    BY <1>4 DEF Middle, ScreenRequest, ScreenAuthored, CheckEnvelope, CheckFamily,
                EnforceFamilyQuota, BuildConcept, FindJob, Fail, Reading, rows
  <2> QED  BY <1>4, <2>1, MiddleCallsInv, RowsFrame DEF IInv
<1>5. CASE UNCHANGED vars
  <2>1. UNCHANGED <<row, jobs, built, month, call>>
    BY <1>5 DEF vars, rows
  <2>2. CallsInv'
    BY <2>1 DEF IInv, CallsInv, CallOK, Exclusive
  <2> QED  BY <2>1, <2>2, RowsFrame DEF IInv
<1> QED
  BY <1>1, <1>2, <1>3, <1>4, <1>5, CommitIInv, CommitPlanIInv DEF Next, Step, Middle

-----------------------------------------------------------------------------
(***************************************************************************)
(* The limits.  A call checks its limit at one step and adds to what is    *)
(* counted at a later one.  In between it is in flight, and what is        *)
(* counted and what is in flight stay, together, within the limit and what *)
(* overlapping calls may add to it.                                        *)
(***************************************************************************)
\* Towards the family's quota of month m: approved, and past the quota check.
SpentIn(m) == {r \in Rows("approved") : row[r].approvedIn = m /\ row[r].by /= "admin"}
SpendingIn(m) ==
  {t \in Caller : /\ call[t].by /= "admin"
                  /\ \/ call[t].stage = "build" /\ m = month
                     \/ call[t].stage = "approved" /\ call[t].stamp = m}

\* Towards the envelope of child p.
AutoIn(p, m) ==
  {r \in Rows("approved") :
    row[r].approvedIn = m /\ row[r].by = "auto" /\ row[r].profile = p}
AutoingIn(p, m) ==
  {t \in Caller : /\ call[t].profile = p
                  /\ \/ call[t].stage = "family" /\ m = month
                     \/ call[t].by = "auto" /\ call[t].stage \in {"quota", "build"} /\ m = month
                     \/ call[t].by = "auto" /\ call[t].stage = "approved" /\ call[t].stamp = m}

\* Towards the pending cap of child p.
AskingOf(p) ==
  {t \in Caller : /\ call[t].profile = p
                  /\ call[t].stage \in {"screen", "envelope", "family", "pending"}}

Load(C, F) == Cardinality(C) + Cardinality(F)

\* Calls are alone until two of them have raced.
RacedInv ==
  /\ raced \in BOOLEAN /\ (raced => Caller /= {})
  /\ ~ raced => \A t, u \in Caller : t /= u => call[t] = Idle \/ call[u] = Idle

\* What a call has been granted: a limit that lets anything through is not zero, and
\* only a pre-authorized child's request is approved by nobody.
Granted(c) ==
  /\ c.stage \in {"build", "approved"} /\ c.by /= "admin" => quota > 0
  /\ c.by = "auto" => c.stage \in {"quota", "build", "approved"}
  /\ c.stage \in {"envelope", "family"} \/ c.by = "auto" => c.profile \in Delegated
  /\ c.stage = "family" \/ c.by = "auto" => Envelope > 0

GrantsInv ==
  /\ quota \in Nat
  /\ \A t \in Caller : Granted(call[t])
  /\ \A r \in Request : row[r].by = "auto" => row[r].profile \in Delegated

LoadsInv ==
  /\ \A m \in 1 .. month : Load(SpentIn(m), SpendingIn(m)) <= quota + Overlap
  /\ \A m \in 1 .. month : \A p \in Delegated :
       Load(AutoIn(p, m), AutoingIn(p, m)) <= Envelope + Overlap
  /\ \A p \in Child : Load(PendingOf(p), AskingOf(p)) <= MaxPending + Overlap

LInv == IInv /\ RacedInv /\ GrantsInv /\ LoadsInv

-----------------------------------------------------------------------------
(***************************************************************************)
(* Counting: what is counted may grow by one only as one in flight lands.  *)
(***************************************************************************)
LEMMA LoadShrinks ==
  ASSUME NEW C, NEW F, NEW D, NEW G, IsFiniteSet(C), IsFiniteSet(F), D \subseteq C, G \subseteq F
  PROVE  Load(D, G) \in Nat /\ Load(C, F) \in Nat /\ Load(D, G) <= Load(C, F)
<1>1. IsFiniteSet(D) /\ Cardinality(D) <= Cardinality(C) /\ IsFiniteSet(G) /\ Cardinality(G) <= Cardinality(F)
  BY FS_Subset
<1>2. /\ Cardinality(C) \in Nat /\ Cardinality(D) \in Nat
      /\ Cardinality(F) \in Nat /\ Cardinality(G) \in Nat
  BY <1>1, FS_CardinalityType
<1> QED  BY <1>1, <1>2 DEF Load

LEMMA LoadLands ==
  ASSUME NEW C, NEW F, NEW D, NEW G, IsFiniteSet(C), IsFiniteSet(F),
         NEW r, D \subseteq C \cup {r}, NEW t \in F, G \subseteq F \ {t}
  PROVE  Load(D, G) <= Load(C, F)
<1>1. IsFiniteSet(C \cup {r}) /\ Cardinality(C \cup {r}) <= Cardinality(C) + 1
  <2>1. Cardinality(C) \in Nat
    BY FS_CardinalityType
  <2>2. /\ IsFiniteSet(C \cup {r})
        /\ Cardinality(C \cup {r}) = IF r \in C THEN Cardinality(C) ELSE Cardinality(C) + 1
    BY FS_AddElement
  <2> QED  BY <2>1, <2>2
<1>2. IsFiniteSet(F \ {t}) /\ Cardinality(F \ {t}) = Cardinality(F) - 1
  BY FS_RemoveElement
<1>3. IsFiniteSet(D) /\ Cardinality(D) <= Cardinality(C \cup {r})
  BY <1>1, FS_Subset
<1>4. IsFiniteSet(G) /\ Cardinality(G) <= Cardinality(F \ {t})
  BY <1>2, FS_Subset
<1>5. /\ Cardinality(C) \in Nat /\ Cardinality(C \cup {r}) \in Nat /\ Cardinality(D) \in Nat
      /\ Cardinality(F) \in Nat /\ Cardinality(F \ {t}) \in Nat /\ Cardinality(G) \in Nat
  BY <1>1, <1>2, <1>3, <1>4, FS_CardinalityType
<1> QED  BY <1>1, <1>2, <1>3, <1>4, <1>5 DEF Load

\* What overlapping calls may add to a limit once they have raced, or not.
Slack(races) == IF races THEN Cardinality(Caller) - 1 ELSE 0

\* A call that finds room for one more takes no more than that, with the others that
\* may have found the same.
LEMMA LoadChecked ==
  ASSUME NEW D, NEW G, IsFiniteSet(D), NEW limit \in Nat, Cardinality(D) < limit,
         G \subseteq Caller, NEW races \in BOOLEAN, NEW t, races \/ G \subseteq {t}
  PROVE  Load(D, G) <= limit + Slack(races)
<1>1. IsFiniteSet(Caller) /\ Cardinality(Caller) \in Nat /\ Cardinality(D) \in Nat
  BY FS_CardinalityType, RequestsAssumption DEF RequestsAssumption
<1>2. IsFiniteSet(G) /\ Cardinality(G) <= Cardinality(Caller) /\ Cardinality(G) \in Nat
  BY <1>1, FS_Subset, FS_CardinalityType
<1>3. CASE races
  BY <1>1, <1>2, <1>3 DEF Load, Slack
<1>4. CASE G \subseteq {t} /\ ~ races
  <2>1. IsFiniteSet({t}) /\ Cardinality({t}) = 1
    BY FS_Singleton
  <2>2. Cardinality(G) <= 1
    BY <1>4, <2>1, FS_Subset
  <2> QED  BY <1>1, <1>2, <1>4, <2>2 DEF Load, Slack
<1> QED  BY <1>3, <1>4

-----------------------------------------------------------------------------
(***************************************************************************)
(* What a step does to the call that takes it.                             *)
(***************************************************************************)
\* All of a call but its stage stays.
Keeps(c, k) == k.by = c.by /\ k.profile = c.profile /\ k.stamp = c.stamp

Starts(c, k) ==
  /\ c = Idle /\ k.stamp = 0 /\ k.by \in {"none", "guardian", "admin"}
  /\ \/ k.stage \in {"screen authored", "quota", "decline", "plan"}
     \/ k.stage = "screen" /\ k.profile \in Child /\ Cardinality(PendingOf(k.profile)) < MaxPending

Goes(c, k) ==
  \/ c.stage = "screen" /\ Keeps(c, k) /\ k.stage \in {"blocked", "pending"}
  \/ c.stage = "screen" /\ Keeps(c, k) /\ k.stage = "envelope" /\ k.profile \in Delegated
  \/ c.stage = "screen authored" /\ Keeps(c, k) /\ k.stage \in {"blocked", "quota"}
  \/ c.stage \in {"envelope", "family"} /\ Keeps(c, k) /\ k.stage = "pending"
  \/ /\ c.stage = "envelope" /\ Keeps(c, k) /\ k.stage = "family"
     /\ Cardinality(SpentBy(c.profile)) < Envelope
  \/ c.stage = "family" /\ k = [c EXCEPT !.stage = "quota", !.by = "auto"]
  \/ /\ c.stage = "quota" /\ Keeps(c, k) /\ k.stage = "build"
     /\ c.by = "admin" \/ Cardinality(Spent) < quota
  \/ c.stage = "plan" /\ Keeps(c, k) /\ k.stage = "planned"
  \/ c.stage = "build" /\ k = [c EXCEPT !.stage = "approved", !.stamp = month]

Moved(t) ==
  /\ \A u \in Caller \ {t} : call'[u] = call[u]
  /\ \/ /\ Starts(call[t], call'[t])
        /\ raced' = (raced \/ \E u \in Caller \ {t} : call[u] /= Idle)
     \/ call[t] /= Idle /\ Goes(call[t], call'[t]) /\ raced' = raced
     \/ call[t] /= Idle /\ call'[t] = Idle /\ raced' = raced

LEMMA StartMoves == ASSUME IInv, NEW t \in Caller, Start(t) PROVE Moved(t)
<1>1. call \in CallType
  BY DEF IInv, CallsInv
<1>2. ASSUME NEW by, NEW stage, NEW req, NEW profile, Begin(t, by, stage, req, profile),
             by \in {"none", "guardian", "admin"},
             \/ stage \in {"screen authored", "quota", "decline", "plan"}
             \/ /\ stage = "screen" /\ profile \in Child
                /\ Cardinality(PendingOf(profile)) < MaxPending
      PROVE  Moved(t)
  <2> DEFINE new == [stage |-> stage, req |-> req, by |-> by, profile |-> profile, stamp |-> 0]
  <2>1. call' = [call EXCEPT ![t] = new] /\ call[t] = Idle
        /\ raced' = (raced \/ \E u \in Caller \ {t} : call[u] /= Idle)
    BY <1>2 DEF Begin
  <2>2. new.stage = stage /\ new.by = by /\ new.profile = profile /\ new.stamp = 0
    OBVIOUS
  <2> HIDE DEF new
  <2>3. call'[t] = new /\ \A u \in Caller \ {t} : call'[u] = call[u]
    BY <1>1, <2>1 DEF CallType
  <2>4. Starts(call[t], call'[t])
    BY <1>2, <2>1, <2>2, <2>3 DEF Starts
  <2> QED  BY <2>1, <2>3, <2>4 DEF Moved
<1>3. ASSUME NEW p \in Child, Create(t, p) PROVE Moved(t)
  BY <1>2, <1>3 DEF Create
<1>4. ASSUME NEW by \in {"guardian", "admin"}, NEW p \in Child \cup {Nobody}, CreateAuthored(t, by, p)
      PROVE  Moved(t)
  BY <1>2, <1>4 DEF CreateAuthored
<1>5. ASSUME NEW by \in {"guardian", "admin"}, Approve(t, by) PROVE Moved(t)
  BY <1>2, <1>5 DEF Approve, LoadScoped
<1>6. CASE Decline(t)
  BY <1>2, <1>6 DEF Decline, LoadScoped
<1>7. CASE Plan(t)
  BY <1>2, <1>7 DEF Plan, LoadScoped
<1> QED  BY <1>3, <1>4, <1>5, <1>6, <1>7 DEF Start

LEMMA EndMoves ==
  ASSUME IInv, NEW t \in Caller, End(t), call[t].stage /= "idle", raced' = raced
  PROVE  Moved(t)
BY DEF IInv, CallsInv, CallType, End, Moved, Idle

\* A call that goes on: what it becomes decides.
LEMMA GoMoves ==
  ASSUME IInv, NEW t \in Caller, NEW k, call' = [call EXCEPT ![t] = k], Goes(call[t], k), raced' = raced
  PROVE  Moved(t)
<1>1. call \in CallType
  BY DEF IInv, CallsInv
<1>2. call'[t] = k /\ \A u \in Caller \ {t} : call'[u] = call[u]
  BY <1>1 DEF CallType
<1>3. call[t] /= Idle
  <2>1. Idle.stage = "idle"
    BY DEF Idle
  <2>2. call[t].stage /= "idle"
    BY DEF Goes
  <2> QED  BY <2>1, <2>2
<1> QED  BY <1>2, <1>3 DEF Moved

LEMMA MiddleMoves == ASSUME IInv, NEW t \in Caller, Middle(t) PROVE Moved(t)
<1>1. call \in CallType /\ raced' = raced
  BY DEF IInv, CallsInv, Middle, ScreenRequest, ScreenAuthored, CheckEnvelope, CheckFamily,
         EnforceFamilyQuota, BuildConcept, FindJob, Fail, Reading
<1>2. ASSUME NEW stage, To(t, stage)
      PROVE  /\ call' = [call EXCEPT ![t] = [call[t] EXCEPT !.stage = stage]]
             /\ Keeps(call[t], [call[t] EXCEPT !.stage = stage])
             /\ [call[t] EXCEPT !.stage = stage].stage = stage
  BY <1>1, <1>2 DEF To, Keeps, CallType
<1>3. ASSUME NEW r, NEW stage, Insert(t, r, stage)
      PROVE  /\ call' = [call EXCEPT ![t] = [call[t] EXCEPT !.req = {r}, !.stage = stage]]
             /\ Keeps(call[t], [call[t] EXCEPT !.req = {r}, !.stage = stage])
             /\ [call[t] EXCEPT !.req = {r}, !.stage = stage].stage = stage
  BY <1>1, <1>3 DEF Insert, Keeps, CallType
<1>4. CASE ScreenRequest(t)
  <2>1. PICK r \in Fresh, stage \in {"blocked", "envelope", "pending"} :
          Insert(t, r, stage) /\ (stage = "envelope" => call[t].profile \in Delegated)
    BY <1>4 DEF ScreenRequest
  <2>2. call[t].stage = "screen"
    BY <1>4 DEF ScreenRequest
  <2> DEFINE k == [call[t] EXCEPT !.req = {r}, !.stage = stage]
  <2>3. call' = [call EXCEPT ![t] = k] /\ Keeps(call[t], k) /\ k.stage = stage
    BY <1>3, <2>1
  <2> HIDE DEF k
  <2>4. Goes(call[t], k)
    BY <2>1, <2>2, <2>3 DEF Goes, Keeps
  <2> QED  BY <1>1, <2>3, <2>4, GoMoves
<1>5. CASE ScreenAuthored(t)
  <2>1. PICK r \in Fresh, stage \in {"blocked", "quota"} : Insert(t, r, stage)
    BY <1>5 DEF ScreenAuthored
  <2>2. call[t].stage = "screen authored"
    BY <1>5 DEF ScreenAuthored
  <2> DEFINE k == [call[t] EXCEPT !.req = {r}, !.stage = stage]
  <2>3. call' = [call EXCEPT ![t] = k] /\ Keeps(call[t], k) /\ k.stage = stage
    BY <1>3, <2>1
  <2> HIDE DEF k
  <2>4. Goes(call[t], k)
    BY <2>1, <2>2, <2>3 DEF Goes
  <2> QED  BY <1>1, <2>3, <2>4, GoMoves
<1>6. ASSUME NEW stage, To(t, stage),
             \A k : Keeps(call[t], k) /\ k.stage = stage => Goes(call[t], k)
      PROVE  Moved(t)
  <2> DEFINE k == [call[t] EXCEPT !.stage = stage]
  <2>1. call' = [call EXCEPT ![t] = k] /\ Keeps(call[t], k) /\ k.stage = stage
    BY <1>2, <1>6
  <2> HIDE DEF k
  <2> QED  BY <1>1, <1>6, <2>1, GoMoves
<1>7. CASE CheckEnvelope(t)
  <2>1. CASE To(t, "family") /\ Cardinality(SpentBy(call[t].profile)) < Envelope
    BY <1>6, <1>7, <2>1 DEF CheckEnvelope, Goes
  <2>2. CASE To(t, "pending")
    BY <1>6, <1>7, <2>2 DEF CheckEnvelope, Goes
  <2> QED  BY <1>7, <2>1, <2>2 DEF CheckEnvelope
<1>8. CASE CheckFamily(t)
  <2>1. CASE call' = [call EXCEPT ![t].stage = "quota", ![t].by = "auto"]
    <3> DEFINE k == [call[t] EXCEPT !.stage = "quota", !.by = "auto"]
    <3>1. call' = [call EXCEPT ![t] = k]
      BY <1>1, <2>1 DEF CallType
    <3>2. Goes(call[t], k)
      BY <1>8 DEF CheckFamily, Goes
    <3> HIDE DEF k
    <3> QED  BY <1>1, <3>1, <3>2, GoMoves
  <2>2. CASE To(t, "pending")
    BY <1>6, <1>8, <2>2 DEF CheckFamily, Goes
  <2> QED  BY <1>8, <2>1, <2>2 DEF CheckFamily
<1>9. CASE EnforceFamilyQuota(t)
  <2>1. CASE To(t, "build") /\ (call[t].by = "admin" \/ Cardinality(Spent) < quota)
    BY <1>6, <1>9, <2>1 DEF EnforceFamilyQuota, Goes
  <2>2. CASE End(t)
    BY <1>1, <1>9, <2>2, EndMoves DEF EnforceFamilyQuota
  <2> QED  BY <1>9, <2>1, <2>2 DEF EnforceFamilyQuota
<1>10. CASE BuildConcept(t)
  <2> DEFINE k == [call[t] EXCEPT !.stage = "approved", !.stamp = month]
  <2>1. call' = [call EXCEPT ![t] = k]
    BY <1>1, <1>10 DEF CallType, BuildConcept
  <2>2. Goes(call[t], k)
    BY <1>10 DEF BuildConcept, Goes
  <2> HIDE DEF k
  <2> QED  BY <1>1, <2>1, <2>2, GoMoves
<1>11. CASE FindJob(t)
  <2>1. CASE To(t, "planned")
    BY <1>6, <1>11, <2>1 DEF FindJob, Goes
  <2>2. CASE End(t)
    BY <1>1, <1>11, <2>2, EndMoves DEF FindJob
  <2> QED  BY <1>11, <2>1, <2>2 DEF FindJob
<1>12. CASE Fail(t)
  BY <1>1, <1>12, EndMoves DEF Fail
<1> QED  BY <1>4, <1>5, <1>7, <1>8, <1>9, <1>10, <1>11, <1>12 DEF Middle

\* What a step may be, as far as rows and calls are concerned.
LEMMA StepShape ==
  ASSUME IInv, [Next]_vars
  PROVE  \/ NextMonth
         \/ UNCHANGED <<row, call, month, quota, raced>>
         \/ \E t \in Caller : Moved(t) /\ (Commit(t) \/ UNCHANGED row) /\ UNCHANGED <<month, quota>>
<1>1. ASSUME NEW t \in Caller, Start(t)
      PROVE  Moved(t) /\ UNCHANGED row /\ UNCHANGED <<month, quota>>
  <2>1. UNCHANGED <<row, month, quota>>
    BY <1>1 DEF Start, Create, CreateAuthored, Approve, Decline, Plan, LoadScoped, Begin, rows
  <2> QED  BY <1>1, <2>1, StartMoves
<1>2. ASSUME NEW t \in Caller, Middle(t)
      PROVE  Moved(t) /\ UNCHANGED row /\ UNCHANGED <<month, quota>>
  <2>1. UNCHANGED <<row, month, quota>>
    BY <1>2 DEF Middle, ScreenRequest, ScreenAuthored, CheckEnvelope, CheckFamily,
                EnforceFamilyQuota, BuildConcept, FindJob, Fail, Reading, rows
  <2> QED  BY <1>2, <2>1, MiddleMoves
<1>3. ASSUME NEW t \in Caller, Commit(t) PROVE Moved(t) /\ Commit(t) /\ UNCHANGED <<month, quota>>
  <2>1. call[t].stage /= "idle"
    BY <1>3 DEF Commit, Decided
  <2> QED  BY <1>3, <2>1, EndMoves DEF Commit
<1>4. ASSUME NEW t \in Caller, CommitPlan(t)
      PROVE  Moved(t) /\ UNCHANGED row /\ UNCHANGED <<month, quota>>
  BY <1>4, EndMoves DEF CommitPlan
<1>5. CASE GenerateConcept \/ UNCHANGED vars
  BY <1>5 DEF GenerateConcept, vars, rows
<1> QED  BY <1>1, <1>2, <1>3, <1>4, <1>5 DEF Next, Step, Middle

\* The row a commit writes.
LEMMA CommitRow ==
  ASSUME IInv, NEW t \in Caller, Commit(t)
  PROVE  \E r \in Request :
           /\ row[r].status \in {"none", "pending"}
           /\ \A s \in Request \ {r} : row'[s] = row[s]
           /\ row'[r].status = "approved" => call[t].stage = "approved"
           /\ row'[r].status = "pending" => call[t].stage = "pending"
           /\ row'[r].profile = call[t].profile /\ row'[r].approvedIn = call[t].stamp
           /\ row'[r].by = IF row'[r].status = "approved" THEN call[t].by ELSE "none"
<1>1. PICK r \in call[t].req :
           /\ r \in Request /\ row[r].status \in {"none", "pending"}
           /\ row' = [row EXCEPT ![r] =
                [status |-> Decided(t), profile |-> call[t].profile, approvedIn |-> call[t].stamp,
                 by |-> IF Decided(t) = "approved" THEN call[t].by ELSE "none"]]
  BY CommitEffect
<1> DEFINE new == [status |-> Decided(t), profile |-> call[t].profile, approvedIn |-> call[t].stamp,
                   by |-> IF Decided(t) = "approved" THEN call[t].by ELSE "none"]
<1>2. /\ new.status = Decided(t) /\ new.profile = call[t].profile /\ new.approvedIn = call[t].stamp
      /\ new.by = IF Decided(t) = "approved" THEN call[t].by ELSE "none"
  OBVIOUS
<1>3. row' = [row EXCEPT ![r] = new]
  BY <1>1
<1> HIDE DEF new
<1>4. row'[r] = new /\ \A s \in Request \ {r} : row'[s] = row[s]
  BY <1>1, <1>3 DEF IInv, RowsInv, RowType
<1>5. /\ Decided(t) = "approved" => call[t].stage = "approved"
      /\ Decided(t) = "pending" => call[t].stage = "pending"
  BY DEF Decided
<1> QED  BY <1>1, <1>2, <1>4, <1>5

-----------------------------------------------------------------------------
(***************************************************************************)
(* Who may overlap, and what a call has been granted.                      *)
(***************************************************************************)
LEMMA StepRacedInv ==
  ASSUME IInv, RacedInv, [Next]_vars
  PROVE  RacedInv' /\ Slack(raced) <= Slack(raced')
<1>1. CASE UNCHANGED <<call, raced>>
  <2>1. RacedInv'
    BY <1>1 DEF RacedInv
  <2>2. Slack(raced) \in Int
    <3>1. Cardinality(Caller) \in Nat
      BY FS_CardinalityType, RequestsAssumption DEF RequestsAssumption
    <3> QED  BY <3>1 DEF Slack
  <2> QED  BY <1>1, <2>1, <2>2
<1>2. ASSUME NEW t \in Caller, Moved(t) PROVE RacedInv' /\ Slack(raced) <= Slack(raced')
  <2> DEFINE others == \E u \in Caller \ {t} : call[u] /= Idle
  <2>0. /\ \A u \in Caller \ {t} : call'[u] = call[u]
        /\ \/ raced' = (raced \/ others)
           \/ raced' = raced /\ call[t] /= Idle
    BY <1>2 DEF Moved
  <2>1. raced' \in BOOLEAN /\ (raced => raced')
    <3>1. raced = TRUE \/ raced = FALSE
      BY DEF RacedInv
    <3>2. CASE raced = TRUE
      BY <2>0, <3>2
    <3>3. CASE raced = FALSE
      <4>1. (FALSE \/ others) \in BOOLEAN
        OBVIOUS
      <4> QED  BY <2>0, <3>3, <4>1
    <3> QED  BY <3>1, <3>2, <3>3
  <2>2. raced' \/ \A u \in Caller \ {t} : call[u] = Idle /\ call'[u] = Idle
    <3>1. CASE raced' = (raced \/ others)
      BY <2>0, <3>1
    <3>2. CASE raced' = raced /\ call[t] /= Idle
      BY <2>0, <3>2 DEF RacedInv
    <3> QED  BY <2>0, <3>1, <3>2
  <2>3. RacedInv'
    BY <2>1, <2>2 DEF RacedInv
  <2>4. Cardinality(Caller) \in Nat \ {0}
    BY FS_CardinalityType, FS_EmptySet, RequestsAssumption DEF RequestsAssumption
  <2> QED  BY <2>1, <2>3, <2>4 DEF Slack, RacedInv
<1>3. CASE NextMonth
  BY <1>1, <1>3 DEF NextMonth
<1> QED  BY <1>1, <1>2, <1>3, StepShape

LEMMA FiniteCounts ==
  /\ \A S \in SUBSET Request : IsFiniteSet(S) /\ Cardinality(S) \in Nat
  /\ \A S \in SUBSET Caller : IsFiniteSet(S) /\ Cardinality(S) \in Nat
BY FS_Subset, FS_CardinalityType, RequestsAssumption DEF RequestsAssumption

LEMMA StepGranted ==
  ASSUME IInv, GrantsInv, NEW t \in Caller, Moved(t), UNCHANGED quota
  PROVE  Granted(call[t])'
<1> DEFINE c == call[t]
           k == call'[t]
<1>1. c \in [stage : Stages, req : SUBSET Request, by : Deciders, profile : Profiles, stamp : Nat]
      /\ quota \in Nat /\ Envelope \in Nat
  BY RequestsAssumption DEF RequestsAssumption, IInv, CallsInv, CallType, GrantsInv
<1>2. Cardinality(Spent) \in Nat /\ Cardinality(SpentBy(c.profile)) \in Nat
  BY FiniteCounts DEF Spent, SpentBy, Rows
<1>3. Granted(c)
  BY DEF GrantsInv
<1> SUFFICES Granted(k)
  BY DEF Granted
<1>4. Starts(c, k) \/ Goes(c, k) \/ k = Idle
  BY DEF Moved
<1> HIDE DEF c, k
<1>5. CASE Starts(c, k)
  BY <1>5 DEF Starts, Granted
<1>6. CASE k = Idle
  BY <1>6 DEF Granted, Idle
<1>7. CASE Goes(c, k)
  <2>1. CASE c.stage \in {"screen", "screen authored"}
    <3>1. k.by /= "auto"
      BY <1>3, <1>7, <2>1 DEF Goes, Granted, Keeps
    <3>2. k.stage \in {"blocked", "pending", "quota"} \/ (k.stage = "envelope" /\ k.profile \in Delegated)
      BY <1>7, <2>1 DEF Goes
    <3> QED  BY <3>1, <3>2 DEF Granted
  <2>2. CASE c.stage \in {"envelope", "family"} /\ Keeps(c, k)
    <3>1. k.by = c.by /\ k.profile = c.profile
      BY <2>2 DEF Keeps
    <3>2. \/ k.stage = "pending"
          \/ /\ c.stage = "envelope" /\ k.stage = "family"
             /\ Cardinality(SpentBy(c.profile)) < Envelope
          \/ c.stage = "family" /\ k = [c EXCEPT !.stage = "quota", !.by = "auto"]
      BY <1>7, <2>2 DEF Goes
    <3>3. CASE c.stage = "family" /\ k = [c EXCEPT !.stage = "quota", !.by = "auto"]
      <4>1. k.stage = "quota" /\ k.by = "auto" /\ k.profile = c.profile
        BY <1>1, <3>3
      <4> QED  BY <1>3, <3>3, <4>1 DEF Granted
    <3>4. CASE k.stage = "pending"
      BY <1>3, <2>2, <3>1, <3>4 DEF Granted
    <3>5. CASE /\ c.stage = "envelope" /\ k.stage = "family"
               /\ Cardinality(SpentBy(c.profile)) < Envelope
      <4>1. Envelope > 0
        BY <1>1, <1>2, <3>5
      <4> QED  BY <1>3, <3>1, <3>5, <4>1 DEF Granted
    <3> QED  BY <3>2, <3>3, <3>4, <3>5
  <2>3. CASE c.stage = "family" /\ k = [c EXCEPT !.stage = "quota", !.by = "auto"]
    <3>1. k.stage = "quota" /\ k.by = "auto" /\ k.profile = c.profile
      BY <1>1, <2>3
    <3> QED  BY <1>3, <2>3, <3>1 DEF Granted
  <2>4. CASE c.stage = "quota"
    BY <1>1, <1>2, <1>3, <1>7, <2>4 DEF Goes, Granted, Keeps
  <2>5. CASE c.stage = "build" /\ k = [c EXCEPT !.stage = "approved", !.stamp = month]
    <3>1. k.stage = "approved" /\ k.by = c.by /\ k.profile = c.profile
      BY <1>1, <2>5
    <3> QED  BY <1>3, <2>5, <3>1 DEF Granted
  <2>6. CASE c.stage = "plan" /\ Keeps(c, k) /\ k.stage = "planned"
    BY <1>3, <2>6 DEF Granted, Keeps
  <2> QED  BY <1>7, <2>1, <2>2, <2>3, <2>4, <2>5, <2>6 DEF Goes
<1> QED  BY <1>4, <1>5, <1>6, <1>7

LEMMA StepGrantsInv ==
  ASSUME IInv, GrantsInv, [Next]_vars
  PROVE  GrantsInv'
<1>1. CASE UNCHANGED <<row, call, quota>>
  BY <1>1 DEF GrantsInv, Granted
<1>2. ASSUME NEW t \in Caller, Moved(t), Commit(t) \/ UNCHANGED row, UNCHANGED quota PROVE GrantsInv'
  <2>1. \A u \in Caller \ {t} : Granted(call[u])'
    BY <1>2 DEF GrantsInv, Granted, Moved
  <2>2. Granted(call[t])'
    BY <1>2, StepGranted
  <2>3. \A r \in Request : row'[r].by = "auto" => row'[r].profile \in Delegated
    <3>1. CASE UNCHANGED row
      BY <3>1 DEF GrantsInv
    <3>2. CASE Commit(t)
      <4>1. Granted(call[t])
        BY DEF GrantsInv
      <4> QED  BY <3>2, <4>1, CommitRow DEF GrantsInv, Granted
    <3> QED  BY <1>2, <3>1, <3>2
  <2> QED  BY <1>2, <2>1, <2>2, <2>3 DEF GrantsInv
<1>3. CASE NextMonth
  BY <1>1, <1>3 DEF NextMonth, rows
<1> QED  BY <1>1, <1>2, <1>3, StepShape

-----------------------------------------------------------------------------
(***************************************************************************)
(* A step and one of the loads: C is what is counted and F what is in      *)
(* flight before it, D and G after it.                                     *)
(***************************************************************************)
\* Nobody takes more; or what t had in flight lands; or t was let in by a check.
LoadMoves(t, C, F, D, G, limit) ==
  \/ D \subseteq C /\ G \subseteq F
  \/ t \in F /\ G \subseteq F \ {t} /\ \E r : D \subseteq C \cup {r}
  \/ D = C /\ G \subseteq F \cup {t} /\ Cardinality(C) < limit

LEMMA LoadKept ==
  ASSUME RacedInv', Slack(raced) <= Slack(raced'), NEW t \in Caller,
         NEW C \in SUBSET Request, NEW F \in SUBSET Caller,
         NEW D \in SUBSET Request, NEW G \in SUBSET Caller,
         \A u \in G : call'[u] /= Idle,
         NEW limit \in Nat, LoadMoves(t, C, F, D, G, limit), Load(C, F) <= limit + Slack(raced)
  PROVE  Load(D, G) <= limit + Slack(raced')
<1>1. /\ IsFiniteSet(C) /\ IsFiniteSet(F) /\ IsFiniteSet(D)
      /\ Load(C, F) \in Nat /\ Load(D, G) \in Nat /\ Slack(raced) \in Int /\ Slack(raced') \in Int
  <2>1. /\ Cardinality(C) \in Nat /\ Cardinality(F) \in Nat /\ Cardinality(D) \in Nat
        /\ Cardinality(G) \in Nat /\ Cardinality(Caller) \in Nat
    BY FiniteCounts
  <2> QED  BY <2>1, FiniteCounts DEF Load, Slack
<1>2. CASE D \subseteq C /\ G \subseteq F
  <2>1. Load(D, G) <= Load(C, F)
    BY <1>1, <1>2, LoadShrinks
  <2> QED  BY <1>1, <2>1
<1>3. CASE t \in F /\ G \subseteq F \ {t} /\ \E r : D \subseteq C \cup {r}
  <2>1. Load(D, G) <= Load(C, F)
    BY <1>1, <1>3, LoadLands
  <2> QED  BY <1>1, <2>1
<1>4. CASE D = C /\ G \subseteq F \cup {t} /\ Cardinality(C) < limit /\ t \in G
  <2>1. raced' \in BOOLEAN /\ (raced' \/ G \subseteq {t})
    BY <1>4 DEF RacedInv
  <2> QED  BY <1>1, <1>4, <2>1, LoadChecked
<1>5. CASE D = C /\ G \subseteq F \cup {t} /\ t \notin G
  BY <1>2, <1>5
<1> QED  BY <1>2, <1>3, <1>4, <1>5 DEF LoadMoves

\* The quota of the family.
LEMMA SpendMoves ==
  ASSUME IInv, GrantsInv, NEW t \in Caller, Moved(t), Commit(t) \/ UNCHANGED row, month' = month,
         NEW m \in 1 .. month
  PROVE  LoadMoves(t, SpentIn(m), SpendingIn(m), SpentIn(m)', SpendingIn(m)', quota)
<1> DEFINE c == call[t]
           k == call'[t]
<1>1. /\ c \in [stage : Stages, req : SUBSET Request, by : Deciders, profile : Profiles, stamp : Nat]
      /\ month \in Nat /\ \A r \in Request : row[r].status \in Statuses
      /\ c.stage = "approved" <=> c.stamp > 0
  BY RequestsAssumption DEF RequestsAssumption, IInv, CallsInv, CallType, CallOK, RowsInv, RowType
<1>2. \A u \in Caller \ {t} : u \in SpendingIn(m)' <=> u \in SpendingIn(m)
  BY DEF Moved, SpendingIn
<1>3. SpendingIn(m) \subseteq Caller /\ SpendingIn(m)' \subseteq Caller
  BY DEF SpendingIn
<1>4. CASE Commit(t)
  <2>1. k = Idle
    BY <1>1, <1>4 DEF Commit, End, IInv, CallsInv, CallType
  <2>2. t \notin SpendingIn(m)'
    BY <2>1 DEF SpendingIn, Idle
  <2>3. SpendingIn(m)' \subseteq SpendingIn(m) \ {t}
    BY <1>2, <1>3, <2>2
  <2>4. PICK r \in Request :
           /\ row[r].status \in {"none", "pending"}
           /\ \A s \in Request \ {r} : row'[s] = row[s]
           /\ row'[r].status = "approved" => call[t].stage = "approved"
           /\ row'[r].approvedIn = call[t].stamp
           /\ row'[r].by = IF row'[r].status = "approved" THEN call[t].by ELSE "none"
    BY <1>4, CommitRow
  <2>5. SpentIn(m)' \subseteq SpentIn(m) \cup {r}
    BY <2>4 DEF SpentIn, Rows
  <2>6. CASE r \in SpentIn(m)'
    <3>1. row'[r].status = "approved" /\ row'[r].approvedIn = m /\ row'[r].by /= "admin"
      BY <2>6 DEF SpentIn, Rows
    <3>2. t \in SpendingIn(m)
      BY <2>4, <3>1 DEF SpendingIn
    <3> QED  BY <2>3, <2>5, <3>2 DEF LoadMoves
  <2>7. CASE r \notin SpentIn(m)'
    BY <2>3, <2>5, <2>7 DEF LoadMoves
  <2> QED  BY <2>6, <2>7
<1>5. CASE UNCHANGED row
  <2>1. SpentIn(m)' = SpentIn(m)
    BY <1>5 DEF SpentIn, Rows
  <2>2. CASE t \notin SpendingIn(m)' \/ t \in SpendingIn(m)
    BY <1>2, <1>3, <2>1, <2>2 DEF LoadMoves
  <2>3. CASE t \in SpendingIn(m)' /\ t \notin SpendingIn(m)
    <3>1. k.by /= "admin" /\ (\/ k.stage = "build" /\ m = month
                              \/ k.stage = "approved" /\ k.stamp = m)
      BY <2>3 DEF SpendingIn
    <3>2. ~ (c.by /= "admin" /\ (c.stage = "build" /\ m = month))
      BY <2>3 DEF SpendingIn
    <3>3. Starts(c, k) \/ Goes(c, k) \/ k = Idle
      BY DEF Moved
    <3> HIDE DEF c, k
    <3>4. m = month /\ Cardinality(Spent) < quota
      <4>1. ~ Starts(c, k) /\ k /= Idle
        <5>1. ~ Starts(c, k)
          BY <3>1 DEF Starts
        <5>2. Idle.stage = "idle"
          BY DEF Idle
        <5> QED  BY <3>1, <5>1, <5>2
      <4>2. CASE c.stage = "build" /\ k = [c EXCEPT !.stage = "approved", !.stamp = month]
        <5>1. k.stage = "approved" /\ k.by = c.by /\ k.stamp = month
          BY <1>1, <4>2
        <5> QED  BY <3>1, <3>2, <4>2, <5>1
      <4>3. CASE c.stage = "family" /\ k = [c EXCEPT !.stage = "quota", !.by = "auto"]
        <5>1. k.stage = "quota"
          BY <1>1, <4>3
        <5> QED  BY <3>1, <5>1
      <4>4. CASE /\ c.stage = "quota" /\ Keeps(c, k) /\ k.stage = "build"
                 /\ c.by = "admin" \/ Cardinality(Spent) < quota
        BY <3>1, <4>4 DEF Keeps
      <4> QED  BY <3>1, <3>3, <4>1, <4>2, <4>3, <4>4 DEF Goes
    <3>5. SpentIn(m) \subseteq Spent /\ Spent \subseteq Request
      BY <3>4 DEF SpentIn, Spent, Rows
    <3>6. Cardinality(SpentIn(m)) <= Cardinality(Spent) /\ Cardinality(SpentIn(m)) \in Nat
          /\ Cardinality(Spent) \in Nat
      BY <3>5, FiniteCounts, FS_Subset
    <3>7. Cardinality(SpentIn(m)) < quota
      BY <3>4, <3>6 DEF GrantsInv
    <3>8. SpendingIn(m)' \subseteq SpendingIn(m) \cup {t}
      BY <1>2, <1>3
    <3> QED  BY <2>1, <3>7, <3>8 DEF LoadMoves
  <2> QED  BY <2>2, <2>3
<1> QED  BY <1>4, <1>5

\* The envelope of a child.
LEMMA AutoMoves ==
  ASSUME IInv, GrantsInv, NEW t \in Caller, Moved(t), Commit(t) \/ UNCHANGED row, month' = month,
         NEW p \in Child, NEW m \in 1 .. month
  PROVE  LoadMoves(t, AutoIn(p, m), AutoingIn(p, m), AutoIn(p, m)', AutoingIn(p, m)', Envelope)
<1> DEFINE c == call[t]
           k == call'[t]
<1>1. /\ c \in [stage : Stages, req : SUBSET Request, by : Deciders, profile : Profiles, stamp : Nat]
      /\ month \in Nat /\ \A r \in Request : row[r].status \in Statuses
      /\ Envelope \in Nat
  BY RequestsAssumption DEF RequestsAssumption, IInv, CallsInv, CallType, RowsInv, RowType
<1>2. \A u \in Caller \ {t} : u \in AutoingIn(p, m)' <=> u \in AutoingIn(p, m)
  BY DEF Moved, AutoingIn
<1>3. AutoingIn(p, m) \subseteq Caller /\ AutoingIn(p, m)' \subseteq Caller
  BY DEF AutoingIn
<1>4. CASE Commit(t)
  <2>1. k = Idle
    BY <1>1, <1>4 DEF Commit, End, IInv, CallsInv, CallType
  <2>2. t \notin AutoingIn(p, m)'
    BY <2>1 DEF AutoingIn, Idle
  <2>3. AutoingIn(p, m)' \subseteq AutoingIn(p, m) \ {t}
    BY <1>2, <1>3, <2>2
  <2>4. PICK r \in Request :
           /\ row[r].status \in {"none", "pending"}
           /\ \A s \in Request \ {r} : row'[s] = row[s]
           /\ row'[r].status = "approved" => call[t].stage = "approved"
           /\ row'[r].profile = call[t].profile /\ row'[r].approvedIn = call[t].stamp
           /\ row'[r].by = IF row'[r].status = "approved" THEN call[t].by ELSE "none"
    BY <1>4, CommitRow
  <2>5. AutoIn(p, m)' \subseteq AutoIn(p, m) \cup {r}
    BY <2>4 DEF AutoIn, Rows
  <2>6. CASE r \in AutoIn(p, m)'
    <3>1. /\ row'[r].status = "approved" /\ row'[r].approvedIn = m
          /\ row'[r].by = "auto" /\ row'[r].profile = p
      BY <2>6 DEF AutoIn, Rows
    <3>2. t \in AutoingIn(p, m)
      BY <2>4, <3>1 DEF AutoingIn
    <3> QED  BY <2>3, <2>5, <3>2 DEF LoadMoves
  <2>7. CASE r \notin AutoIn(p, m)'
    BY <2>3, <2>5, <2>7 DEF LoadMoves
  <2> QED  BY <2>6, <2>7
<1>5. CASE UNCHANGED row
  <2>1. AutoIn(p, m)' = AutoIn(p, m)
    BY <1>5 DEF AutoIn, Rows
  <2>2. CASE t \notin AutoingIn(p, m)' \/ t \in AutoingIn(p, m)
    BY <1>2, <1>3, <2>1, <2>2 DEF LoadMoves
  <2>3. CASE t \in AutoingIn(p, m)' /\ t \notin AutoingIn(p, m)
    <3>1. k.profile = p /\ (\/ k.stage = "family" /\ m = month
                            \/ k.by = "auto" /\ k.stage \in {"quota", "build"} /\ m = month
                            \/ k.by = "auto" /\ k.stage = "approved" /\ k.stamp = m)
      BY <2>3 DEF AutoingIn
    <3>2. ~ (c.profile = p /\ (\/ c.stage = "family" /\ m = month
                               \/ c.by = "auto" /\ c.stage \in {"quota", "build"} /\ m = month))
      BY <2>3 DEF AutoingIn
    <3>3. Starts(c, k) \/ Goes(c, k) \/ k = Idle
      BY DEF Moved
    <3>4. c.by = "auto" => c.stage \in {"quota", "build", "approved"}
      BY DEF GrantsInv, Granted
    <3> HIDE DEF c, k
    <3>5. m = month /\ p = c.profile /\ Cardinality(SpentBy(p)) < Envelope
      <4>1. ~ Starts(c, k)
        BY <3>1 DEF Starts
      <4>2. k /= Idle
        <5>1. Idle.stage = "idle"
          BY DEF Idle
        <5> QED  BY <3>1, <5>1
      <4>3. CASE c.stage = "build" /\ k = [c EXCEPT !.stage = "approved", !.stamp = month]
        <5>1. k.stage = "approved" /\ k.by = c.by /\ k.stamp = month /\ k.profile = c.profile
          BY <1>1, <4>3
        <5> QED  BY <3>1, <3>2, <4>3, <5>1
      <4>4. CASE c.stage = "family" /\ k = [c EXCEPT !.stage = "quota", !.by = "auto"]
        <5>1. k.stage = "quota" /\ k.profile = c.profile
          BY <1>1, <4>4
        <5> QED  BY <3>1, <3>2, <4>4, <5>1
      <4>5. CASE /\ c.stage = "quota" /\ Keeps(c, k) /\ k.stage = "build"
                 /\ c.by = "admin" \/ Cardinality(Spent) < quota
        BY <3>1, <3>2, <4>5 DEF Keeps
      <4>6. CASE /\ c.stage = "envelope" /\ Keeps(c, k) /\ k.stage = "family"
                 /\ Cardinality(SpentBy(c.profile)) < Envelope
        BY <3>1, <4>6 DEF Keeps
      <4>7. CASE c.stage = "screen authored" /\ Keeps(c, k)
        BY <3>1, <3>4, <3>2, <1>1, <4>1, <4>2, <3>3, <4>7 DEF Keeps, Goes
      <4> QED  BY <3>1, <3>3, <4>1, <4>2, <4>3, <4>4, <4>5, <4>6, <4>7 DEF Goes
    <3>6. AutoIn(p, m) \subseteq SpentBy(p) /\ SpentBy(p) \subseteq Request
      BY <3>5 DEF AutoIn, SpentBy, Spent, Rows
    <3>7. Cardinality(AutoIn(p, m)) <= Cardinality(SpentBy(p)) /\ Cardinality(AutoIn(p, m)) \in Nat
          /\ Cardinality(SpentBy(p)) \in Nat
      BY <3>6, FiniteCounts, FS_Subset
    <3>8. Cardinality(AutoIn(p, m)) < Envelope
      BY <1>1, <3>5, <3>7
    <3>9. AutoingIn(p, m)' \subseteq AutoingIn(p, m) \cup {t}
      BY <1>2, <1>3
    <3> QED  BY <2>1, <3>8, <3>9 DEF LoadMoves
  <2> QED  BY <2>2, <2>3
<1> QED  BY <1>4, <1>5

\* The pending cap of a child.
LEMMA AskMoves ==
  ASSUME IInv, NEW t \in Caller, Moved(t), Commit(t) \/ UNCHANGED row, NEW p \in Child
  PROVE  LoadMoves(t, PendingOf(p), AskingOf(p), PendingOf(p)', AskingOf(p)', MaxPending)
<1> DEFINE c == call[t]
           k == call'[t]
<1>1. c \in [stage : Stages, req : SUBSET Request, by : Deciders, profile : Profiles, stamp : Nat]
  BY DEF IInv, CallsInv, CallType
<1>2. \A u \in Caller \ {t} : u \in AskingOf(p)' <=> u \in AskingOf(p)
  BY DEF Moved, AskingOf
<1>3. AskingOf(p) \subseteq Caller /\ AskingOf(p)' \subseteq Caller
  BY DEF AskingOf
<1>4. CASE Commit(t)
  <2>1. k = Idle
    BY <1>1, <1>4 DEF Commit, End, IInv, CallsInv, CallType
  <2>2. t \notin AskingOf(p)'
    BY <2>1 DEF AskingOf, Idle
  <2>3. AskingOf(p)' \subseteq AskingOf(p) \ {t}
    BY <1>2, <1>3, <2>2
  <2>4. PICK r \in Request :
           /\ \A s \in Request \ {r} : row'[s] = row[s]
           /\ row'[r].status = "pending" => call[t].stage = "pending"
           /\ row'[r].profile = call[t].profile
    BY <1>4, CommitRow
  <2>5. PendingOf(p)' \subseteq PendingOf(p) \cup {r}
    BY <2>4 DEF PendingOf, Rows
  <2>6. CASE r \in PendingOf(p)'
    <3>1. t \in AskingOf(p)
      BY <2>4, <2>6 DEF AskingOf, PendingOf, Rows
    <3> QED  BY <2>3, <2>5, <3>1 DEF LoadMoves
  <2>7. CASE r \notin PendingOf(p)'
    BY <2>3, <2>5, <2>7 DEF LoadMoves
  <2> QED  BY <2>6, <2>7
<1>5. CASE UNCHANGED row
  <2>1. PendingOf(p)' = PendingOf(p)
    BY <1>5 DEF PendingOf, Rows
  <2>2. CASE t \notin AskingOf(p)' \/ t \in AskingOf(p)
    BY <1>2, <1>3, <2>1, <2>2 DEF LoadMoves
  <2>3. CASE t \in AskingOf(p)' /\ t \notin AskingOf(p)
    <3>1. k.profile = p /\ k.stage \in {"screen", "envelope", "family", "pending"}
      BY <2>3 DEF AskingOf
    <3>2. ~ (c.profile = p /\ c.stage \in {"screen", "envelope", "family", "pending"})
      BY <2>3 DEF AskingOf
    <3>3. Starts(c, k) \/ Goes(c, k) \/ k = Idle
      BY DEF Moved
    <3> HIDE DEF c, k
    <3>4. k /= Idle
      <4>1. Idle.stage = "idle"
        BY DEF Idle
      <4> QED  BY <3>1, <4>1
    <3>5. ~ Goes(c, k)
      <4>1. CASE k = [c EXCEPT !.stage = "quota", !.by = "auto"]
        <5>1. k.stage = "quota"
          BY <1>1, <4>1
        <5> QED  BY <3>1, <5>1
      <4>2. CASE k = [c EXCEPT !.stage = "approved", !.stamp = month]
        <5>1. k.stage = "approved"
          BY <1>1, <4>2
        <5> QED  BY <3>1, <5>1
      <4>3. CASE Keeps(c, k)
        <5>1. k.profile = c.profile
          BY <4>3 DEF Keeps
        <5>2. c.stage \notin {"screen", "envelope", "family", "pending"}
          BY <3>1, <3>2, <5>1
        <5> QED  BY <3>1, <4>1, <4>2, <5>2 DEF Goes
      <4> QED  BY <4>1, <4>2, <4>3 DEF Goes
    <3>6. Cardinality(PendingOf(p)) < MaxPending
      BY <3>1, <3>3, <3>4, <3>5 DEF Starts
    <3>7. AskingOf(p)' \subseteq AskingOf(p) \cup {t}
      BY <1>2, <1>3
    <3> QED  BY <2>1, <3>6, <3>7 DEF LoadMoves
  <2> QED  BY <2>2, <2>3
<1> QED  BY <1>4, <1>5

-----------------------------------------------------------------------------
(***************************************************************************)
(* A month goes by: nothing counts towards the new one yet, but what was   *)
(* let in by a check in an old one may land in it.                         *)
(***************************************************************************)
LEMMA SlackNat == ASSUME RacedInv PROVE Slack(raced) \in Nat
<1>1. Cardinality(Caller) \in Nat /\ (raced => Cardinality(Caller) /= 0)
  BY FS_CardinalityType, FS_EmptySet, RequestsAssumption DEF RequestsAssumption, RacedInv
<1> QED  BY <1>1 DEF Slack

LEMMA EmptyLoad ==
  ASSUME RacedInv, NEW G \in SUBSET Caller, \A u \in G : call[u] /= Idle,
         NEW limit \in Nat, G /= {} => limit > 0
  PROVE  Load({}, G) <= limit + Slack(raced)
<1>1. IsFiniteSet({}) /\ Cardinality({}) = 0
  BY FS_EmptySet
<1>2. CASE G = {}
  BY <1>1, <1>2, SlackNat DEF Load
<1>3. CASE G /= {}
  <2>1. PICK t \in Caller : t \in G
    BY <1>3
  <2>2. raced \in BOOLEAN /\ (raced \/ G \subseteq {t})
    BY <2>1 DEF RacedInv
  <2>3. Cardinality({}) < limit
    BY <1>1, <1>3
  <2> QED  BY <1>1, <2>2, <2>3, LoadChecked
<1> QED  BY <1>2, <1>3

LEMMA MonthLoads ==
  ASSUME IInv, RacedInv, GrantsInv, LoadsInv, NextMonth
  PROVE  LoadsInv'
<1>1. /\ UNCHANGED <<row, call, quota, raced>> /\ month' = month + 1
      /\ month \in Nat \ {0}
      /\ \A r \in Request : row[r].approvedIn \in Nat /\ row[r].approvedIn <= month
      /\ \A t \in Caller : call[t].stamp \in Nat /\ call[t].stamp <= month
  BY RequestsAssumption
     DEF RequestsAssumption, NextMonth, rows, IInv, RowsInv, RowType, CallsInv, CallType, CallOK
<1>2. quota \in Nat /\ Envelope \in Nat /\ Overlap = Slack(raced) /\ Overlap' = Slack(raced)
  BY <1>1, RequestsAssumption DEF RequestsAssumption, GrantsInv, Overlap, Slack
<1>3. Idle.stage = "idle" /\ Idle.by = "none"
  BY DEF Idle
<1>4. Slack(raced) \in Nat
  BY SlackNat
<1>5. ASSUME NEW m \in 1 .. month'
      PROVE  Load(SpentIn(m)', SpendingIn(m)') <= quota + Slack(raced)
  <2>1. SpendingIn(m)' \subseteq Caller /\ SpentIn(m) \subseteq Request /\ SpendingIn(m) \subseteq Caller
    BY DEF SpendingIn, SpentIn, Rows
  <2>2. CASE m \in 1 .. month
    <3>1. SpentIn(m)' = SpentIn(m)
      BY <1>1 DEF SpentIn, Rows
    <3>2. SpendingIn(m)' \subseteq SpendingIn(m)
      BY <1>1, <2>2 DEF SpendingIn
    <3>3. Load(SpentIn(m), SpendingIn(m)) <= quota + Slack(raced)
      BY <1>2, <2>2 DEF LoadsInv
    <3>4. IsFiniteSet(SpentIn(m)) /\ IsFiniteSet(SpendingIn(m))
      BY <2>1, FiniteCounts
    <3>5. /\ Load(SpentIn(m)', SpendingIn(m)') <= Load(SpentIn(m), SpendingIn(m))
          /\ Load(SpentIn(m)', SpendingIn(m)') \in Nat /\ Load(SpentIn(m), SpendingIn(m)) \in Nat
      BY <3>1, <3>2, <3>4, LoadShrinks
    <3> QED  BY <1>2, <1>4, <3>3, <3>5
  <2>3. CASE m = month + 1
    <3>1. SpentIn(m)' = {}
      BY <1>1, <2>3 DEF SpentIn, Rows
    <3>2. ASSUME NEW t \in SpendingIn(m)'
          PROVE  call[t].stage = "build" /\ call[t].by /= "admin" /\ t \in Caller
      BY <1>1, <2>3 DEF SpendingIn
    <3>3. \A t \in SpendingIn(m)' : call[t] /= Idle /\ quota > 0
      BY <1>3, <3>2 DEF GrantsInv, Granted
    <3> QED  BY <1>2, <2>1, <3>1, <3>3, EmptyLoad
  <2> QED  BY <1>1, <2>2, <2>3
<1>6. ASSUME NEW m \in 1 .. month', NEW p \in Delegated
      PROVE  Load(AutoIn(p, m)', AutoingIn(p, m)') <= Envelope + Slack(raced)
  <2>1. AutoingIn(p, m)' \subseteq Caller /\ AutoIn(p, m) \subseteq Request /\ AutoingIn(p, m) \subseteq Caller
    BY DEF AutoingIn, AutoIn, Rows
  <2>2. CASE m \in 1 .. month
    <3>1. AutoIn(p, m)' = AutoIn(p, m)
      BY <1>1 DEF AutoIn, Rows
    <3>2. AutoingIn(p, m)' \subseteq AutoingIn(p, m)
      BY <1>1, <2>2 DEF AutoingIn
    <3>3. Load(AutoIn(p, m), AutoingIn(p, m)) <= Envelope + Slack(raced)
      BY <1>2, <2>2 DEF LoadsInv
    <3>4. IsFiniteSet(AutoIn(p, m)) /\ IsFiniteSet(AutoingIn(p, m))
      BY <2>1, FiniteCounts
    <3>5. /\ Load(AutoIn(p, m)', AutoingIn(p, m)') <= Load(AutoIn(p, m), AutoingIn(p, m))
          /\ Load(AutoIn(p, m)', AutoingIn(p, m)') \in Nat /\ Load(AutoIn(p, m), AutoingIn(p, m)) \in Nat
      BY <3>1, <3>2, <3>4, LoadShrinks
    <3> QED  BY <1>2, <1>4, <3>3, <3>5
  <2>3. CASE m = month + 1
    <3>1. AutoIn(p, m)' = {}
      BY <1>1, <2>3 DEF AutoIn, Rows
    <3>2. ASSUME NEW t \in AutoingIn(p, m)'
          PROVE  (call[t].stage = "family" \/ call[t].by = "auto") /\ t \in Caller
      BY <1>1, <2>3 DEF AutoingIn
    <3>3. \A t \in AutoingIn(p, m)' : call[t] /= Idle /\ Envelope > 0
      BY <1>3, <3>2 DEF GrantsInv, Granted
    <3> QED  BY <1>2, <2>1, <3>1, <3>3, EmptyLoad
  <2> QED  BY <1>1, <2>2, <2>3
<1>7. ASSUME NEW p \in Child
      PROVE  Load(PendingOf(p)', AskingOf(p)') <= MaxPending + Slack(raced)
  <2>1. PendingOf(p)' = PendingOf(p) /\ AskingOf(p)' = AskingOf(p)
    BY <1>1 DEF PendingOf, AskingOf, Rows
  <2> QED  BY <1>2, <2>1 DEF LoadsInv
<1> QED  BY <1>1, <1>2, <1>5, <1>6, <1>7 DEF LoadsInv

-----------------------------------------------------------------------------
LEMMA CallLoads ==
  ASSUME IInv, RacedInv, GrantsInv, LoadsInv, RacedInv', Slack(raced) <= Slack(raced'),
         NEW t \in Caller, Moved(t), Commit(t) \/ UNCHANGED row, UNCHANGED <<month, quota>>
  PROVE  LoadsInv'
<1>1. quota \in Nat /\ Envelope \in Nat /\ MaxPending \in Nat /\ Delegated \subseteq Child
      /\ Overlap = Slack(raced) /\ Overlap' = Slack(raced')
  BY RequestsAssumption DEF RequestsAssumption, GrantsInv, Overlap, Slack
<1>2. Idle.stage = "idle" /\ Idle.by = "none"
  BY DEF Idle
<1>3. ASSUME NEW m \in 1 .. month
      PROVE  Load(SpentIn(m)', SpendingIn(m)') <= quota + Slack(raced')
  <2>1. LoadMoves(t, SpentIn(m), SpendingIn(m), SpentIn(m)', SpendingIn(m)', quota)
    BY SpendMoves
  <2>2. /\ SpentIn(m) \in SUBSET Request /\ SpentIn(m)' \in SUBSET Request
        /\ SpendingIn(m) \in SUBSET Caller /\ SpendingIn(m)' \in SUBSET Caller
    BY DEF SpentIn, SpendingIn, Rows
  <2>3. \A u \in SpendingIn(m)' : call'[u] /= Idle
    BY <1>2 DEF SpendingIn
  <2>4. Load(SpentIn(m), SpendingIn(m)) <= quota + Slack(raced)
    BY <1>1 DEF LoadsInv
  <2> QED  BY <1>1, <2>1, <2>2, <2>3, <2>4, LoadKept
<1>4. ASSUME NEW m \in 1 .. month, NEW p \in Delegated
      PROVE  Load(AutoIn(p, m)', AutoingIn(p, m)') <= Envelope + Slack(raced')
  <2>1. LoadMoves(t, AutoIn(p, m), AutoingIn(p, m), AutoIn(p, m)', AutoingIn(p, m)', Envelope)
    BY <1>1, AutoMoves
  <2>2. /\ AutoIn(p, m) \in SUBSET Request /\ AutoIn(p, m)' \in SUBSET Request
        /\ AutoingIn(p, m) \in SUBSET Caller /\ AutoingIn(p, m)' \in SUBSET Caller
    BY DEF AutoIn, AutoingIn, Rows
  <2>3. \A u \in AutoingIn(p, m)' : call'[u] /= Idle
    BY <1>2 DEF AutoingIn
  <2>4. Load(AutoIn(p, m), AutoingIn(p, m)) <= Envelope + Slack(raced)
    BY <1>1 DEF LoadsInv
  <2> QED  BY <1>1, <2>1, <2>2, <2>3, <2>4, LoadKept
<1>5. ASSUME NEW p \in Child
      PROVE  Load(PendingOf(p)', AskingOf(p)') <= MaxPending + Slack(raced')
  <2>1. LoadMoves(t, PendingOf(p), AskingOf(p), PendingOf(p)', AskingOf(p)', MaxPending)
    BY AskMoves
  <2>2. /\ PendingOf(p) \in SUBSET Request /\ PendingOf(p)' \in SUBSET Request
        /\ AskingOf(p) \in SUBSET Caller /\ AskingOf(p)' \in SUBSET Caller
    BY DEF PendingOf, AskingOf, Rows
  <2>3. \A u \in AskingOf(p)' : call'[u] /= Idle
    BY <1>2 DEF AskingOf
  <2>4. Load(PendingOf(p), AskingOf(p)) <= MaxPending + Slack(raced)
    BY <1>1 DEF LoadsInv
  <2> QED  BY <1>1, <2>1, <2>2, <2>3, <2>4, LoadKept
<1> QED  BY <1>1, <1>3, <1>4, <1>5 DEF LoadsInv

LEMMA InitLInv == Init => LInv
<1> SUFFICES ASSUME Init PROVE LInv
  OBVIOUS
<1>1. IInv
  BY InitIInv
<1>2. RacedInv
  BY DEF Init, RacedInv
<1>3. /\ \A t \in Caller : call[t].stage = "idle" /\ call[t].by = "none"
      /\ \A r \in Request : row[r].status = "none" /\ row[r].by = "none"
  BY DEF Init, Idle, NoRow
<1>4. GrantsInv
  BY <1>3, RequestsAssumption DEF Init, GrantsInv, Granted, RequestsAssumption
<1>5. Load({}, {}) = 0
  BY FS_EmptySet DEF Load
<1>6. \A m : SpentIn(m) = {} /\ SpendingIn(m) = {}
  BY <1>3 DEF SpentIn, SpendingIn, Rows
<1>7. \A p, m : AutoIn(p, m) = {} /\ AutoingIn(p, m) = {}
  BY <1>3 DEF AutoIn, AutoingIn, Rows
<1>8. \A p : PendingOf(p) = {} /\ AskingOf(p) = {}
  BY <1>3 DEF PendingOf, AskingOf, Rows
<1>9. quota \in Nat /\ Envelope \in Nat /\ MaxPending \in Nat /\ Overlap = 0
  BY <1>4, RequestsAssumption DEF Init, GrantsInv, RequestsAssumption, Overlap
<1>10. LoadsInv
  <2>1. \A m : Load(SpentIn(m), SpendingIn(m)) = 0
    BY <1>5, <1>6
  <2>2. \A p, m : Load(AutoIn(p, m), AutoingIn(p, m)) = 0
    BY <1>5, <1>7
  <2>3. \A p : Load(PendingOf(p), AskingOf(p)) = 0
    BY <1>5, <1>8
  <2> QED  BY <1>9, <2>1, <2>2, <2>3 DEF LoadsInv
<1> QED  BY <1>1, <1>2, <1>4, <1>10 DEF LInv

LEMMA StepLInv == LInv /\ [Next]_vars => LInv'
<1> SUFFICES ASSUME LInv, [Next]_vars PROVE LInv'
  OBVIOUS
<1>1. IInv /\ RacedInv /\ GrantsInv /\ LoadsInv
  BY DEF LInv
<1>2. IInv' /\ RacedInv' /\ GrantsInv' /\ Slack(raced) <= Slack(raced')
  BY <1>1, StepIInv, StepRacedInv, StepGrantsInv
<1>3. CASE UNCHANGED <<row, call, month, quota, raced>>
  <2>1. LoadsInv'
    BY <1>1, <1>3 DEF LoadsInv, SpentIn, SpendingIn, AutoIn, AutoingIn, PendingOf, AskingOf, Rows, Overlap
  <2> QED  BY <1>2, <2>1 DEF LInv
<1> QED  BY <1>1, <1>2, <1>3, StepShape, MonthLoads, CallLoads DEF LInv

-----------------------------------------------------------------------------
\* Requests, calls and months are what they should be, and only approved rows carry the
\* month they count for.
THEOREM TypeCorrect == Spec => []TypeOK
<1>1. IInv => TypeOK
  <2> SUFFICES ASSUME IInv PROVE TypeOK
    OBVIOUS
  <2>1. \A r \in Request :
          /\ row[r].status \in Statuses /\ row[r].profile \in Child \cup {Nobody}
          /\ row[r].approvedIn \in Nat /\ row[r].approvedIn <= month
          /\ row[r].status = "approved" <=> row[r].approvedIn > 0
    BY DEF IInv, RowsInv, RowType, Profiles
  <2>2. \A t \in Caller : call[t].stamp \in Nat /\ call[t].stamp <= month
    BY DEF IInv, CallsInv, CallType, CallOK
  <2>3. month \in 1 .. MaxMonth /\ MaxMonth \in Nat /\ jobs \in [Request -> Seq({"plan", "direct"})]
    BY RequestsAssumption DEF RequestsAssumption, IInv, RowsInv, JobSeq
  <2> QED  BY <2>1, <2>2, <2>3 DEF TypeOK
<1> QED  BY <1>1, InitIInv, StepIInv, PTL DEF Spec

\* A request becomes one concept, when it is approved, and has jobs only then.
THEOREM BuiltOnceAlways == Spec => []BuiltOnce
<1>1. IInv => BuiltOnce
  BY DEF IInv, RowsInv
<1> QED  BY <1>1, InitIInv, StepIInv, PTL DEF Spec

\* A call that has found no job holds the row, so no other plan is made meanwhile; a
\* guardian's direct generation may be.
PlanningInv ==
  \A t \in Caller : call[t].stage = "planned" =>
    \A r \in call[t].req : \A i \in DOMAIN jobs[r] : jobs[r][i] /= "plan"

JobsInv == PlannedOnce /\ PlanningInv

LEMMA Appended ==
  ASSUME NEW s \in JobSeq, NEW kind \in {"plan", "direct"}
  PROVE  /\ DOMAIN Append(s, kind) = DOMAIN s \cup {Len(s) + 1} /\ Len(s) + 1 \notin DOMAIN s
         /\ \A i \in DOMAIN s : Append(s, kind)[i] = s[i]
         /\ Append(s, kind)[Len(s) + 1] = kind
<1>1. Len(s) \in Nat /\ DOMAIN s = 1 .. Len(s)
  BY LenProperties DEF JobSeq
<1>2. /\ Append(s, kind) \in JobSeq /\ Len(Append(s, kind)) = Len(s) + 1
      /\ \A i \in 1 .. Len(s) : Append(s, kind)[i] = s[i]
      /\ Append(s, kind)[Len(s) + 1] = kind
  BY AppendProperties DEF JobSeq
<1>3. DOMAIN Append(s, kind) = 1 .. Len(s) + 1
  BY <1>2, LenProperties DEF JobSeq
<1> QED  BY <1>1, <1>2, <1>3

LEMMA StepJobsInv == IInv /\ JobsInv /\ [Next]_vars => JobsInv'
<1> SUFFICES ASSUME IInv, JobsInv, [Next]_vars PROVE JobsInv'
  OBVIOUS
<1>1. call \in CallType /\ jobs \in [Request -> JobSeq]
  BY DEF IInv, RowsInv, CallsInv
<1>2. ASSUME NEW t \in Caller, CommitPlan(t) PROVE JobsInv'
  <2>1. PICK r \in call[t].req : jobs' = [jobs EXCEPT ![r] = Append(@, "plan")]
    BY <1>2 DEF CommitPlan
  <2>2. r \in Request /\ jobs[r] \in JobSeq /\ \A i \in DOMAIN jobs[r] : jobs[r][i] /= "plan"
    BY <1>1, <1>2, <2>1 DEF JobsInv, PlanningInv, CommitPlan, CallType
  <2>3. jobs'[r] = Append(jobs[r], "plan") /\ \A s \in Request \ {r} : jobs'[s] = jobs[s]
    BY <1>1, <2>1, <2>2
  <2>4. call'[t] = Idle /\ \A u \in Caller \ {t} : call'[u] = call[u]
    BY <1>1, <1>2 DEF CommitPlan, End, CallType
  <2>5. \A u \in Caller \ {t} : r \notin call[u].req
    BY <2>1 DEF IInv, CallsInv, Exclusive
  <2>6. PlannedOnce'
    BY <2>2, <2>3, Appended DEF JobsInv, PlannedOnce
  <2>7. PlanningInv'
    BY <1>1, <2>3, <2>4, <2>5 DEF JobsInv, PlanningInv, Idle, CallType
  <2> QED  BY <2>6, <2>7 DEF JobsInv
<1>3. CASE GenerateConcept
  <2>1. PICK r \in Request : jobs' = [jobs EXCEPT ![r] = Append(@, "direct")]
    BY <1>3 DEF GenerateConcept, Rows
  <2>2. jobs'[r] = Append(jobs[r], "direct") /\ \A s \in Request \ {r} : jobs'[s] = jobs[s]
    BY <1>1, <2>1
  <2>3. call' = call /\ jobs[r] \in JobSeq
    BY <1>1, <1>3 DEF GenerateConcept
  <2>4. \A s \in Request : \A i \in DOMAIN jobs'[s] :
          jobs'[s][i] = "plan" => i \in DOMAIN jobs[s] /\ jobs[s][i] = "plan"
    BY <2>2, <2>3, Appended
  <2> QED  BY <1>1, <2>3, <2>4 DEF JobsInv, PlannedOnce, PlanningInv, CallType
<1>4. ASSUME UNCHANGED jobs,
             \A t \in Caller : call'[t].stage = "planned" =>
               \/ call'[t] = call[t]
               \/ call'[t].req = call[t].req /\ \A r \in call[t].req : jobs[r] = <<>>
      PROVE  JobsInv'
  <2>1. DOMAIN <<>> = {}
    OBVIOUS
  <2> QED  BY <1>4, <2>1 DEF JobsInv, PlannedOnce, PlanningInv
<1>5. ASSUME NEW t \in Caller, Start(t) \/ Step(t), ~ CommitPlan(t)
      PROVE  /\ UNCHANGED jobs
             /\ \A u \in Caller \ {t} : call'[u] = call[u]
             /\ call'[t].stage = "planned" =>
                  call'[t].req = call[t].req /\ \A r \in call[t].req : jobs[r] = <<>>
  <2>1. CASE Start(t)
    <3>1. UNCHANGED jobs
      BY <2>1 DEF Start, Create, CreateAuthored, Approve, Decline, Plan, LoadScoped, Begin, rows
    <3>2. ASSUME NEW by, NEW stage, NEW req, NEW profile, Begin(t, by, stage, req, profile),
                 stage /= "planned"
          PROVE  call'[t].stage /= "planned" /\ \A u \in Caller \ {t} : call'[u] = call[u]
      BY <1>1, <3>2 DEF Begin, CallType
    <3> QED  BY <2>1, <3>1, <3>2 DEF Start, Create, CreateAuthored, Approve, Decline, Plan, LoadScoped
  <2>2. CASE FindJob(t)
    BY <1>1, <2>2 DEF FindJob, To, End, Idle, Reading, rows, CallType
  <2>3. CASE Step(t) /\ ~ FindJob(t)
    <3>1. UNCHANGED jobs
      BY <1>5, <2>3 DEF Step, ScreenRequest, ScreenAuthored, CheckEnvelope, CheckFamily,
                        EnforceFamilyQuota, BuildConcept, Commit, Fail, Reading, rows
    <3>2. ASSUME NEW stage, To(t, stage), stage /= "planned"
          PROVE  call'[t].stage /= "planned" /\ \A u \in Caller \ {t} : call'[u] = call[u]
      BY <1>1, <3>2 DEF To, CallType
    <3>3. ASSUME NEW r, NEW stage, Insert(t, r, stage), stage /= "planned"
          PROVE  call'[t].stage /= "planned" /\ \A u \in Caller \ {t} : call'[u] = call[u]
      BY <1>1, <3>3 DEF Insert, CallType
    <3>4. ASSUME End(t)
          PROVE  call'[t].stage /= "planned" /\ \A u \in Caller \ {t} : call'[u] = call[u]
      BY <1>1, <3>4 DEF End, Idle, CallType
    <3>5. ASSUME \/ call' = [call EXCEPT ![t].stage = "quota", ![t].by = "auto"]
                 \/ call' = [call EXCEPT ![t].stage = "approved", ![t].stamp = month]
          PROVE  call'[t].stage /= "planned" /\ \A u \in Caller \ {t} : call'[u] = call[u]
      BY <1>1, <3>5 DEF CallType
    <3>6. CASE ScreenRequest(t) \/ ScreenAuthored(t)
      BY <3>1, <3>3, <3>6 DEF ScreenRequest, ScreenAuthored
    <3>7. CASE CheckEnvelope(t) \/ CheckFamily(t) \/ EnforceFamilyQuota(t)
      BY <3>1, <3>2, <3>4, <3>5, <3>7 DEF CheckEnvelope, CheckFamily, EnforceFamilyQuota
    <3>8. CASE BuildConcept(t) \/ Commit(t) \/ Fail(t)
      BY <3>1, <3>4, <3>5, <3>8 DEF BuildConcept, Commit, Fail
    <3> QED  BY <1>5, <2>3, <3>6, <3>7, <3>8 DEF Step
  <2> QED  BY <1>5, <2>1, <2>2, <2>3
<1>6. CASE NextMonth \/ UNCHANGED vars
  BY <1>4, <1>6 DEF NextMonth, vars, rows
<1> QED  BY <1>2, <1>3, <1>4, <1>5, <1>6 DEF Next

\* However many admins plan a concept at once, one plan makes a job; further jobs come from
\* a guardian's direct generations alone.
THEOREM PlannedOnceAlways == Spec => []PlannedOnce
<1>1. Init => JobsInv
  BY EmptySeq DEF Init, JobsInv, PlannedOnce, PlanningInv, Idle
<1> QED  BY <1>1, InitIInv, StepIInv, StepJobsInv, PTL DEF Spec, JobsInv

\* All three: the invariant that the run checks.
THEOREM RequestInvAlways == Spec => []RequestInv
BY TypeCorrect, BuiltOnceAlways, PlannedOnceAlways, PTL DEF RequestInv

\* What is approved, declined or blocked is never decided again.
THEOREM DecisionsStandAlways == Spec => DecisionsStand
<1>1. ASSUME IInv, [Next]_vars, NEW r \in Request, row[r].status \notin {"none", "pending"}
      PROVE  row'[r] = row[r]
  <2>1. ASSUME NEW t \in Caller, Commit(t) PROVE row'[r] = row[r]
    BY <1>1, <2>1, CommitEffect DEF IInv, RowsInv, RowType
  <2>2. UNCHANGED row \/ \E t \in Caller : Commit(t)
    BY <1>1 DEF Next, vars, rows, NextMonth, GenerateConcept, Start, Create, CreateAuthored, Approve, Decline,
                Plan, LoadScoped, Begin, Step, ScreenRequest, ScreenAuthored, CheckEnvelope,
                CheckFamily, EnforceFamilyQuota, BuildConcept, FindJob, CommitPlan, Fail, Reading
  <2> QED  BY <2>1, <2>2
<1>2. IInv /\ [Next]_vars =>
        [\A r \in Request : row[r].status \notin {"none", "pending"} => row'[r] = row[r]]_vars
  BY <1>1
<1> QED  BY <1>2, InitIInv, StepIInv, PTL DEF Spec, DecisionsStand

\* However calls overlap, a family's spend of a month stays within its quota, a child's
\* own approvals within its envelope and its waiting requests within the cap, but for one
\* per further call handled at once, and exactly as long as no two have overlapped
\* (enforce_family_quota, can_auto_approve, create_story_request).
THEOREM LimitsHoldAlways == Spec => []LimitsHold
<1>1. LInv => LimitsHold
  <2> SUFFICES ASSUME LInv PROVE LimitsHold
    OBVIOUS
  <2>1. /\ quota \in Nat /\ Envelope \in Nat /\ MaxPending \in Nat
        /\ Overlap = Slack(raced) /\ Slack(raced) \in Nat
    BY SlackNat, RequestsAssumption DEF RequestsAssumption, LInv, GrantsInv, Overlap, Slack
  <2>2. ASSUME NEW C \in SUBSET Request, NEW F \in SUBSET Caller, NEW limit \in Nat,
               Load(C, F) <= limit + Overlap
        PROVE  Cardinality(C) <= limit + Overlap
    BY <2>1, <2>2, FiniteCounts DEF Load
  <2>3. SpendIsBounded
    <3> SUFFICES ASSUME NEW m \in 1 .. month PROVE Cardinality(SpentIn(m)) <= quota + Overlap
      BY DEF SpendIsBounded, SpentIn
    <3>1. SpentIn(m) \in SUBSET Request /\ SpendingIn(m) \in SUBSET Caller
      BY DEF SpentIn, SpendingIn, Rows
    <3>2. Load(SpentIn(m), SpendingIn(m)) <= quota + Overlap
      BY DEF LInv, LoadsInv
    <3> QED  BY <2>1, <2>2, <3>1, <3>2
  <2>4. EnvelopeIsBounded
    <3> SUFFICES ASSUME NEW m \in 1 .. month, NEW p \in Child
                 PROVE  Cardinality(AutoIn(p, m)) <= IF p \in Delegated THEN Envelope + Overlap ELSE 0
      BY DEF EnvelopeIsBounded, AutoIn
    <3>1. CASE p \in Delegated
      <4>1. AutoIn(p, m) \in SUBSET Request /\ AutoingIn(p, m) \in SUBSET Caller
        BY DEF AutoIn, AutoingIn, Rows
      <4>2. Load(AutoIn(p, m), AutoingIn(p, m)) <= Envelope + Overlap
        BY <3>1 DEF LInv, LoadsInv
      <4> QED  BY <2>1, <2>2, <3>1, <4>1, <4>2
    <3>2. CASE p \notin Delegated
      <4>1. AutoIn(p, m) = {}
        BY <3>2 DEF LInv, GrantsInv, AutoIn, Rows
      <4> QED  BY <3>2, <4>1, FS_EmptySet
    <3> QED  BY <3>1, <3>2
  <2>5. PendingIsBounded
    <3> SUFFICES ASSUME NEW p \in Child PROVE Cardinality(PendingOf(p)) <= MaxPending + Overlap
      BY DEF PendingIsBounded
    <3>1. PendingOf(p) \in SUBSET Request /\ AskingOf(p) \in SUBSET Caller
      BY DEF PendingOf, AskingOf, Rows
    <3>2. Load(PendingOf(p), AskingOf(p)) <= MaxPending + Overlap
      BY DEF LInv, LoadsInv
    <3> QED  BY <2>1, <2>2, <3>1, <3>2
  <2> QED  BY <2>3, <2>4, <2>5 DEF LimitsHold
<1> QED  BY <1>1, InitLInv, StepLInv, PTL DEF Spec
=============================================================================
