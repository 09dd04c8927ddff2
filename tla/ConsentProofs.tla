---------------------------- MODULE ConsentProofs ----------------------------
(***************************************************************************)
(* What Consent guarantees for any adults, any number of overlapping       *)
(* requests and any bounds: the types, that mail stays within its limits,  *)
(* that the answers KWS had a 200 for are kept and stand, that evidence    *)
(* holds, and that no child has a profile without a parent who signed and  *)
(* was passed.                                                             *)
(***************************************************************************)
EXTENDS Consent, SequenceTheorems, FiniteSetTheorems, TLAPS

Status == Verdict \cup {"sent", "send_failed"}
Row == [adult : Adult, environment : {"test", "production"}, status : Status,
        requestedAt : 0 .. MaxTime]
Request == [stage : Holding \cup {"idle", "signing"}, adult : Adult \cup {Nobody},
            attempt : {NoAttempt} \cup Attempts]
Record == [signed : BOOLEAN, evidence : {NoAttempt} \cup Attempts]

(***************************************************************************)
(* The invariant.  An attempt is the live environment's or one of the      *)
(* test days before it: that is what lets an answer that was refused for   *)
(* its environment stay refused.                                           *)
(***************************************************************************)
RowsInv ==
  /\ environment \in {"test", "production"}
  /\ attempt \in Seq(Row)
  /\ \A t \in Attempts : environment = "production" \/ attempt[t].environment = "test"

KwsInv ==
  /\ mailed \subseteq Attempts
  /\ verdicts \subseteq mailed \X Verdict
  /\ \A t \in Attempts : attempt[t].status = "verified" => <<t, "verified">> \in verdicts
  /\ AnswersAreKept

\* Attempt t may stand as the evidence of adult a.
Passed(a, t) == t \in Attempts /\ attempt[t].adult = a /\ attempt[t].status = "verified"

\* What a request holds at each stage.
CallInv(r) ==
  /\ r.stage /= "idle" => r.adult \in Adult
  /\ r.stage \in {"sending", "unsent"} => r.attempt \in Attempts
  /\ r.stage = "signing" /\ r.attempt /= NoAttempt => Passed(r.adult, r.attempt)

CallsInv ==
  /\ call \in [Call -> Request]
  /\ \A c \in Call : CallInv(call[c])

AccountsInv ==
  /\ account \in [Adult -> Record]
  /\ \A a \in Adult : account[a].evidence /= NoAttempt =>
       account[a].signed /\ Passed(a, account[a].evidence)

CountsInv == now \in 0 .. MaxTime /\ profiles \in 0 .. MaxProfiles

IInv == RowsInv /\ KwsInv /\ CallsInv /\ AccountsInv /\ CountsInv

THEOREM InitIInv == Init => IInv
<1> SUFFICES ASSUME Init PROVE IInv
  OBVIOUS
<1>1. attempt = <<>> /\ Len(attempt) = 0 /\ attempt \in Seq(Row)
  BY EmptySeq DEF Init
<1>2. Attempts = {}
  BY <1>1 DEF Attempts
<1>3. RowsInv /\ KwsInv
  BY <1>1, <1>2 DEF Init, RowsInv, KwsInv, AnswersAreKept
<1>4. CallsInv
  BY DEF Init, CallsInv, CallInv, Request, Idle, NoAttempt
<1>5. AccountsInv
  BY DEF Init, AccountsInv, Record, Unsigned, NoAttempt
<1>6. CountsInv
  BY ConsentAssumption DEF Init, CountsInv, ConsentAssumption
<1> QED  BY <1>3, <1>4, <1>5, <1>6 DEF IInv

-----------------------------------------------------------------------------
(***************************************************************************)
(* What every step does to the table of attempts: rows are added, and a    *)
(* row changes its status as long as no answer is in it.                   *)
(***************************************************************************)
Kept ==
  /\ attempt' \in Seq(Row)
  /\ Attempts \subseteq Attempts'
  /\ \A t \in Attempts :
       /\ attempt'[t].adult = attempt[t].adult
       /\ attempt'[t].environment = attempt[t].environment
       /\ Delivered(t) => attempt'[t] = attempt[t]

LEMMA SameKeeps == ASSUME RowsInv, UNCHANGED attempt PROVE Kept
BY DEF RowsInv, Kept, Attempts, Delivered

\* A row without an answer gets a new status.
LEMMA ResolvedRow ==
  ASSUME RowsInv, NEW t \in Attempts, NEW s \in Status,
         attempt' = [attempt EXCEPT ![t].status = s]
  PROVE  /\ attempt' \in Seq(Row)
         /\ Len(attempt') = Len(attempt)
         /\ attempt'[t] = [attempt[t] EXCEPT !.status = s]
         /\ \A u \in Attempts : u /= t => attempt'[u] = attempt[u]
<1> DEFINE r == [attempt[t] EXCEPT !.status = s]
<1>1. attempt \in Seq(Row) /\ t \in 1 .. Len(attempt)
  BY DEF RowsInv, Attempts
<1>2. attempt[t] \in Row
  BY <1>1, ElementOfSeq
<1>3. r \in Row
  BY <1>2 DEF Row
<1>4. attempt' = [attempt EXCEPT ![t] = r]
  OBVIOUS
<1> HIDE DEF r
<1>5. /\ attempt' \in Seq(Row) /\ Len(attempt') = Len(attempt)
      /\ \A j \in 1 .. Len(attempt) : attempt'[j] = IF j = t THEN r ELSE attempt[j]
  BY <1>1, <1>3, <1>4, ExceptSeq
<1>6. attempt'[t] = r /\ \A u \in Attempts : u /= t => attempt'[u] = attempt[u]
  BY <1>1, <1>5 DEF Attempts
<1> QED  BY <1>5, <1>6 DEF r

LEMMA ResolvedKeeps ==
  ASSUME RowsInv, NEW t \in Attempts, NEW s \in Status, ~ Delivered(t),
         attempt' = [attempt EXCEPT ![t].status = s]
  PROVE  Kept
<1>1. /\ attempt' \in Seq(Row)
      /\ Len(attempt') = Len(attempt)
      /\ attempt'[t] = [attempt[t] EXCEPT !.status = s]
      /\ \A u \in Attempts : u /= t => attempt'[u] = attempt[u]
  BY ResolvedRow
<1>2. attempt[t] \in Row
  BY ElementOfSeq DEF RowsInv, Attempts
<1>3. attempt'[t].adult = attempt[t].adult /\ attempt'[t].environment = attempt[t].environment
  BY <1>1, <1>2 DEF Row
<1>4. Attempts' = Attempts
  BY <1>1 DEF Attempts
<1>5. ASSUME NEW u \in Attempts
      PROVE  /\ attempt'[u].adult = attempt[u].adult
             /\ attempt'[u].environment = attempt[u].environment
             /\ Delivered(u) => attempt'[u] = attempt[u]
  <2>1. CASE u = t
    BY <1>3, <2>1
  <2>2. CASE u /= t
    BY <1>1, <2>2
  <2> QED  BY <2>1, <2>2
<1> QED  BY <1>1, <1>4, <1>5 DEF Kept

\* RecordAttempt adds a row of the live environment that waits for its answer.
LEMMA RecordedRow ==
  ASSUME RowsInv, CallsInv, CountsInv, NEW c \in Call, RecordAttempt(c)
  PROVE  /\ attempt' \in Seq(Row)
         /\ Len(attempt) \in Nat /\ Len(attempt') = Len(attempt) + 1
         /\ \A u \in Attempts : attempt'[u] = attempt[u]
         /\ attempt'[Len(attempt')].environment = environment
         /\ attempt'[Len(attempt')].status = "sent"
         /\ attempt'[Len(attempt')].adult = call[c].adult
         /\ attempt'[Len(attempt')].requestedAt = now
<1> DEFINE r == [adult |-> call[c].adult, environment |-> environment,
                 status |-> "sent", requestedAt |-> now]
<1>1. call[c].adult \in Adult
  BY DEF RecordAttempt, At, CallsInv, CallInv
<1>2. r \in Row
  BY <1>1 DEF Row, Status, RowsInv, CountsInv
<1>3. attempt' = Append(attempt, r)
  BY DEF RecordAttempt
<1>4. r.environment = environment /\ r.status = "sent" /\ r.adult = call[c].adult
      /\ r.requestedAt = now
  OBVIOUS
<1>5. attempt \in Seq(Row) /\ Len(attempt) \in Nat
  BY LenProperties DEF RowsInv
<1> HIDE DEF r
<1>6. /\ attempt' \in Seq(Row) /\ Len(attempt') = Len(attempt) + 1
      /\ \A i \in 1 .. Len(attempt) : attempt'[i] = attempt[i]
      /\ attempt'[Len(attempt) + 1] = r
  BY <1>2, <1>3, <1>5, AppendProperties
<1> QED  BY <1>4, <1>5, <1>6 DEF Attempts

LEMMA RecordedKeeps ==
  ASSUME RowsInv, CallsInv, CountsInv, NEW c \in Call, RecordAttempt(c)
  PROVE  Kept
<1>1. /\ attempt' \in Seq(Row)
      /\ Len(attempt) \in Nat /\ Len(attempt') = Len(attempt) + 1
      /\ \A u \in Attempts : attempt'[u] = attempt[u]
  BY RecordedRow
<1>2. Attempts \subseteq Attempts'
  BY <1>1 DEF Attempts
<1> QED  BY <1>1, <1>2 DEF Kept

\* RecordParentVerified, and what it leaves alone.
LEMMA ReceivedKeeps ==
  ASSUME RowsInv, NEW t \in Attempts, NEW v \in Verdict, RecordParentVerified(t, v)
  PROVE  Kept
<1>1. CASE attempt[t].environment = environment /\ ~ Delivered(t)
  <2>1. attempt' = [attempt EXCEPT ![t].status = v]
    BY <1>1 DEF RecordParentVerified
  <2>2. v \in Status
    BY DEF Status
  <2> QED  BY <1>1, <2>1, <2>2, ResolvedKeeps
<1>2. CASE ~ (attempt[t].environment = environment /\ ~ Delivered(t))
  <2>1. UNCHANGED attempt
    BY <1>2 DEF RecordParentVerified
  <2> QED  BY <2>1, SameKeeps
<1> QED  BY <1>1, <1>2

LEMMA UnsentKeeps ==
  ASSUME RowsInv, CallsInv, NEW c \in Call, ResolveAsSendFailed(c)
  PROVE  Kept
<1>1. CASE UNCHANGED attempt
  BY <1>1, SameKeeps
<1>2. CASE attempt[call[c].attempt].status = "sent" /\
           attempt' = [attempt EXCEPT ![call[c].attempt].status = "send_failed"]
  <2>1. call[c].attempt \in Attempts
    BY DEF ResolveAsSendFailed, At, CallsInv, CallInv
  <2>2. "send_failed" \in Status /\ ~ Delivered(call[c].attempt)
    BY <1>2 DEF Status, Delivered, Verdict
  <2> QED  BY <1>2, <2>1, <2>2, ResolvedKeeps
<1> QED  BY <1>1, <1>2 DEF ResolveAsSendFailed

LEMMA StepKeeps == ASSUME IInv, [Next]_vars PROVE Kept
<1> USE DEF IInv
<1>1. ASSUME NEW c \in Call, NEW a \in Adult, BeginStart(c, a) \/ BeginConsent(c, a)
      PROVE  Kept
  BY <1>1, SameKeeps DEF BeginStart, BeginConsent, db
<1>2. ASSUME NEW c \in Call, Step(c) PROVE Kept
  <2>1. CASE CheckLimits(c) \/ Send(c) \/ RecordConsent(c)
    BY <2>1, SameKeeps DEF CheckLimits, Send, RecordConsent, db
  <2>2. CASE RecordAttempt(c)
    BY <2>2, RecordedKeeps
  <2>3. CASE ResolveAsSendFailed(c)
    BY <2>3, UnsentKeeps
  <2> QED  BY <1>2, <2>1, <2>2, <2>3 DEF Step
<1>3. ASSUME NEW t \in Attempts, NEW v \in Verdict, Receive(t, v) PROVE Kept
  BY <1>3, ReceivedKeeps DEF Receive
<1>4. CASE (\E a \in Adult : CreateProfile(a)) \/ CreateAdminProfile \/ Tick \/ Restart
           \/ UNCHANGED vars
  BY <1>4, SameKeeps DEF CreateProfile, CreateAdminProfile, Tick, Restart, vars, db
<1> QED  BY <1>1, <1>2, <1>3, <1>4 DEF Next

-----------------------------------------------------------------------------
(***************************************************************************)
(* Rows: the environment only ever goes to production.                     *)
(***************************************************************************)
LEMMA StepRows == ASSUME IInv, [Next]_vars PROVE RowsInv'
<1>1. Kept
  BY StepKeeps
<1>2. environment' \in {environment, "production"} /\ environment' \in {"test", "production"}
  BY DEF IInv, RowsInv, Next, vars, Step, BeginStart, BeginConsent, CheckLimits, RecordAttempt,
         Send, ResolveAsSendFailed, RecordConsent, Receive, CreateProfile, CreateAdminProfile,
         Tick, Restart
<1>3. CASE \E c \in Call : RecordAttempt(c)
  <2>1. PICK c \in Call : RecordAttempt(c)
    BY <1>3
  <2>2. /\ Len(attempt) \in Nat /\ Len(attempt') = Len(attempt) + 1
        /\ \A u \in Attempts : attempt'[u] = attempt[u]
        /\ attempt'[Len(attempt')].environment = environment
    BY <2>1, RecordedRow DEF IInv
  <2>3. environment' = environment
    BY <2>1 DEF RecordAttempt
  <2>4. ASSUME NEW t \in Attempts'
        PROVE  environment' = "production" \/ attempt'[t].environment = "test"
    <3>1. t \in Attempts \/ t = Len(attempt')
      BY <2>2 DEF Attempts
    <3>2. CASE t \in Attempts
      BY <3>2, <2>2, <2>3 DEF IInv, RowsInv
    <3>3. CASE t = Len(attempt')
      BY <3>3, <2>2, <2>3 DEF IInv, RowsInv
    <3> QED  BY <3>1, <3>2, <3>3
  <2> QED  BY <1>1, <1>2, <2>4 DEF RowsInv, Kept
<1>4. CASE ~ \E c \in Call : RecordAttempt(c)
  <2>1. Attempts' = Attempts
    <3>1. ASSUME NEW t \in Attempts, NEW v \in Verdict, Receive(t, v) PROVE Attempts' = Attempts
      <4>1. CASE UNCHANGED attempt
        BY <4>1 DEF Attempts
      <4>2. CASE attempt' = [attempt EXCEPT ![t].status = v]
        <5>1. Len(attempt') = Len(attempt)
          BY <4>2, ResolvedRow DEF IInv, Status
        <5> QED  BY <5>1 DEF Attempts
      <4> QED  BY <3>1, <4>1, <4>2 DEF Receive, RecordParentVerified
    <3>2. ASSUME NEW c \in Call, ResolveAsSendFailed(c) PROVE Attempts' = Attempts
      <4>1. CASE UNCHANGED attempt
        BY <4>1 DEF Attempts
      <4>2. CASE attempt' = [attempt EXCEPT ![call[c].attempt].status = "send_failed"]
        <5>1. call[c].attempt \in Attempts
          BY <3>2 DEF IInv, ResolveAsSendFailed, At, CallsInv, CallInv
        <5>2. Len(attempt') = Len(attempt)
          BY <4>2, <5>1, ResolvedRow DEF IInv, Status
        <5> QED  BY <5>2 DEF Attempts
      <4> QED  BY <3>2, <4>1, <4>2 DEF ResolveAsSendFailed
    <3>3. CASE UNCHANGED attempt
      BY <3>3 DEF Attempts
    <3> QED
      BY <1>4, <3>1, <3>2, <3>3
      DEF Next, vars, db, Step, BeginStart, BeginConsent, CheckLimits, Send, RecordConsent,
          CreateProfile, CreateAdminProfile, Tick, Restart
  <2>2. ASSUME NEW t \in Attempts'
        PROVE  environment' = "production" \/ attempt'[t].environment = "test"
    BY <1>1, <1>2, <2>1 DEF Kept, IInv, RowsInv
  <2> QED  BY <1>1, <1>2, <2>2 DEF RowsInv, Kept
<1> QED  BY <1>3, <1>4

-----------------------------------------------------------------------------
(***************************************************************************)
(* KWS: a row is verified by an answer only, and an answer that was let    *)
(* go had the other environment, which does not come back.                 *)
(***************************************************************************)

\* An answer that is kept or was not for us stays so.
LEMMA KeptAnswer ==
  ASSUME IInv, [Next]_vars, NEW t \in Attempts,
         Delivered(t) \/ attempt[t].environment /= environment
  PROVE  attempt'[t].status \in Verdict \/ attempt'[t].environment /= environment'
<1>1. Kept
  BY StepKeeps
<1>2. environment' \in {environment, "production"}
  BY DEF Next, vars, Step, BeginStart, BeginConsent, CheckLimits, RecordAttempt,
         Send, ResolveAsSendFailed, RecordConsent, Receive, CreateProfile, CreateAdminProfile,
         Tick, Restart
<1>3. CASE Delivered(t)
  BY <1>1, <1>3 DEF Kept, Delivered
<1>4. CASE attempt[t].environment /= environment
  <2>1. environment = "production" \/ attempt[t].environment = "test"
    BY DEF IInv, RowsInv
  <2>2. attempt[t].environment /= environment'
    BY <1>2, <1>4, <2>1
  <2> QED  BY <1>1, <2>2 DEF Kept
<1> QED  BY <1>3, <1>4

LEMMA ReceiveKws ==
  ASSUME IInv, NEW t \in Attempts, NEW v \in Verdict, Receive(t, v)
  PROVE  KwsInv'
<1>0. Receive(t, v) => [Next]_vars
  BY DEF Next
<1>1. Kept /\ RowsInv /\ KwsInv
  BY <1>0, StepKeeps DEF IInv
<1>2. /\ mailed' = mailed /\ t \in mailed /\ environment' = environment
      /\ verdicts' = verdicts \cup {<<t, v>>}
  BY DEF Receive
<1>3. mailed' \subseteq Attempts' /\ verdicts' \subseteq mailed' \X Verdict
  BY <1>1, <1>2 DEF KwsInv, Kept
<1>4. CASE attempt[t].environment = environment /\ ~ Delivered(t)
  <2>1. attempt' = [attempt EXCEPT ![t].status = v] /\ v \in Status
    BY <1>4 DEF Receive, RecordParentVerified, Status
  <2>2. /\ Len(attempt') = Len(attempt)
        /\ attempt'[t] = [attempt[t] EXCEPT !.status = v]
        /\ \A u \in Attempts : u /= t => attempt'[u] = attempt[u]
    BY <1>1, <2>1, ResolvedRow
  <2>3. attempt[t] \in Row
    BY <1>1, ElementOfSeq DEF RowsInv, Attempts
  <2>4. attempt'[t].status = v
    BY <2>2, <2>3 DEF Row
  <2>5. Attempts' = Attempts
    BY <2>2 DEF Attempts
  <2>6. ASSUME NEW u \in Attempts', attempt'[u].status = "verified"
        PROVE  <<u, "verified">> \in verdicts'
    <3>1. CASE u = t
      BY <1>2, <2>4, <2>6, <3>1
    <3>2. CASE u /= t
      BY <1>1, <1>2, <2>2, <2>5, <2>6, <3>2 DEF KwsInv
    <3> QED  BY <3>1, <3>2
  <2>7. ASSUME NEW a \in verdicts'
        PROVE  attempt'[a[1]].status \in Verdict \/ attempt'[a[1]].environment /= environment'
    <3>1. CASE a[1] = t
      BY <2>4, <3>1
    <3>2. CASE a[1] /= t
      <4>1. a \in verdicts /\ a[1] \in Attempts
        BY <1>1, <1>2, <3>2 DEF KwsInv
      <4> QED  BY <1>0, <1>1, <4>1, KeptAnswer DEF KwsInv, AnswersAreKept
    <3> QED  BY <3>1, <3>2
  <2> QED  BY <1>3, <2>6, <2>7 DEF KwsInv, AnswersAreKept, Delivered
<1>5. CASE ~ (attempt[t].environment = environment /\ ~ Delivered(t))
  <2>1. attempt' = attempt
    BY <1>5 DEF Receive, RecordParentVerified
  <2>2. Attempts' = Attempts
    BY <2>1 DEF Attempts
  <2>3. \A u \in Attempts' : attempt'[u].status = "verified" => <<u, "verified">> \in verdicts'
    BY <1>1, <1>2, <2>1, <2>2 DEF KwsInv
  <2>4. ASSUME NEW a \in verdicts'
        PROVE  attempt'[a[1]].status \in Verdict \/ attempt'[a[1]].environment /= environment'
    <3>1. CASE a[1] = t
      BY <1>2, <1>5, <2>1, <3>1 DEF Delivered
    <3>2. CASE a[1] /= t
      <4>1. a \in verdicts
        BY <1>2, <3>2
      <4> QED  BY <1>1, <1>2, <2>1, <4>1 DEF KwsInv, AnswersAreKept, Delivered
    <3> QED  BY <3>1, <3>2
  <2> QED  BY <1>3, <2>3, <2>4 DEF KwsInv, AnswersAreKept, Delivered
<1> QED  BY <1>4, <1>5

\* A step that hears nothing from KWS and verifies no row.
LEMMA QuietKws ==
  ASSUME IInv, [Next]_vars, UNCHANGED verdicts, mailed \subseteq mailed',
         mailed' \subseteq Attempts',
         \A t \in Attempts' : attempt'[t].status = "verified" =>
           t \in Attempts /\ attempt[t].status = "verified"
  PROVE  KwsInv'
<1>1. KwsInv
  BY DEF IInv
<1>2. verdicts' \subseteq mailed' \X Verdict
  BY <1>1 DEF KwsInv
<1>3. \A t \in Attempts' : attempt'[t].status = "verified" => <<t, "verified">> \in verdicts'
  BY <1>1 DEF KwsInv
<1>4. ASSUME NEW a \in verdicts'
      PROVE  attempt'[a[1]].status \in Verdict \/ attempt'[a[1]].environment /= environment'
  <2>1. a \in verdicts /\ a[1] \in Attempts
    BY <1>1 DEF KwsInv
  <2> QED  BY <1>1, <2>1, KeptAnswer DEF KwsInv, AnswersAreKept
<1> QED  BY <1>2, <1>3, <1>4 DEF KwsInv, AnswersAreKept, Delivered

LEMMA StepKws == ASSUME IInv, [Next]_vars PROVE KwsInv'
<1>1. /\ Kept /\ mailed \subseteq Attempts
  BY StepKeeps DEF IInv, KwsInv
<1>2. Attempts \subseteq Attempts'
  BY <1>1 DEF Kept
<1>3. ASSUME NEW t \in Attempts, NEW v \in Verdict, Receive(t, v) PROVE KwsInv'
  BY <1>3, ReceiveKws
<1>4. CASE UNCHANGED <<attempt, kws>>
  <2>1. Attempts' = Attempts /\ UNCHANGED <<attempt, mailed, verdicts>>
    BY <1>4 DEF Attempts, kws
  <2> QED  BY <1>1, <2>1, QuietKws
<1>5. ASSUME NEW c \in Call, Send(c) PROVE KwsInv'
  <2>1. Attempts' = Attempts /\ UNCHANGED <<attempt, verdicts>>
    BY <1>5 DEF Send, Attempts, db
  <2>2. call[c].attempt \in Attempts
    BY <1>5 DEF Send, At, IInv, CallsInv, CallInv
  <2>3. mailed' = mailed \/ mailed' = mailed \cup {call[c].attempt}
    BY <1>5 DEF Send
  <2> QED  BY <1>1, <2>1, <2>2, <2>3, QuietKws
<1>6. ASSUME NEW c \in Call, RecordAttempt(c) PROVE KwsInv'
  <2>1. UNCHANGED <<mailed, verdicts>>
    BY <1>6 DEF RecordAttempt, kws
  <2>2. /\ Len(attempt) \in Nat /\ Len(attempt') = Len(attempt) + 1
        /\ \A u \in Attempts : attempt'[u] = attempt[u]
        /\ attempt'[Len(attempt')].status = "sent"
    BY <1>6, RecordedRow DEF IInv
  <2>3. ASSUME NEW t \in Attempts', attempt'[t].status = "verified"
        PROVE  t \in Attempts /\ attempt[t].status = "verified"
    <3>1. t \in Attempts \/ t = Len(attempt')
      BY <2>2 DEF Attempts
    <3> QED  BY <2>2, <2>3, <3>1
  <2> QED  BY <1>1, <1>2, <2>1, <2>3, QuietKws
<1>7. ASSUME NEW c \in Call, ResolveAsSendFailed(c) PROVE KwsInv'
  <2>1. UNCHANGED <<mailed, verdicts>>
    BY <1>7 DEF ResolveAsSendFailed, kws
  <2>2. CASE UNCHANGED attempt
    BY <1>4, <2>1, <2>2 DEF kws
  <2>3. CASE attempt' = [attempt EXCEPT ![call[c].attempt].status = "send_failed"]
    <3>1. call[c].attempt \in Attempts
      BY <1>7 DEF ResolveAsSendFailed, At, IInv, CallsInv, CallInv
    <3>2. /\ Len(attempt') = Len(attempt)
          /\ attempt'[call[c].attempt] = [attempt[call[c].attempt] EXCEPT !.status = "send_failed"]
          /\ \A u \in Attempts : u /= call[c].attempt => attempt'[u] = attempt[u]
      BY <2>3, <3>1, ResolvedRow DEF IInv, Status
    <3>3. attempt[call[c].attempt] \in Row
      BY <3>1, ElementOfSeq DEF IInv, RowsInv, Attempts
    <3>4. attempt'[call[c].attempt].status = "send_failed"
      BY <3>2, <3>3 DEF Row
    <3>5. Attempts' = Attempts
      BY <3>2 DEF Attempts
    <3>6. ASSUME NEW t \in Attempts', attempt'[t].status = "verified"
          PROVE  t \in Attempts /\ attempt[t].status = "verified"
      <4>1. t /= call[c].attempt
        BY <3>4, <3>6
      <4> QED  BY <3>2, <3>5, <3>6, <4>1
    <3> QED  BY <1>1, <1>2, <2>1, <3>6, QuietKws
  <2> QED  BY <1>7, <2>2, <2>3 DEF ResolveAsSendFailed
<1> QED
  BY <1>3, <1>4, <1>5, <1>6, <1>7
  DEF Next, vars, db, Step, BeginStart, BeginConsent, CheckLimits, RecordConsent,
      CreateProfile, CreateAdminProfile, Tick, Restart

-----------------------------------------------------------------------------
(***************************************************************************)
(* Requests and records: what was passed stays passed, so that evidence    *)
(* read before the record is written is good when it is.                   *)
(***************************************************************************)
PassedNext(a, t) == t \in Attempts' /\ attempt'[t].adult = a /\ attempt'[t].status = "verified"

LEMMA PassedStays ==
  ASSUME IInv, [Next]_vars, NEW a \in Adult, NEW t \in Attempts, Passed(a, t)
  PROVE  PassedNext(a, t)
<1>1. Kept
  BY StepKeeps
<1>2. Delivered(t)
  BY DEF Passed, Delivered, Verdict
<1> QED  BY <1>1, <1>2 DEF Kept, Passed, PassedNext

\* What CallsInv says of request r after the step.
CallNext(r) ==
  /\ r \in Request'
  /\ r.stage /= "idle" => r.adult \in Adult
  /\ r.stage \in {"sending", "unsent"} => r.attempt \in Attempts'
  /\ r.stage = "signing" /\ r.attempt /= NoAttempt => PassedNext(r.adult, r.attempt)

\* A request that a step leaves alone.
LEMMA CallStays ==
  ASSUME IInv, [Next]_vars, NEW c \in Call
  PROVE  CallNext(call[c])
<1>1. Kept /\ call[c] \in Request /\ CallInv(call[c])
  BY StepKeeps DEF IInv, CallsInv
<1>2. Attempts \subseteq Attempts'
  BY <1>1 DEF Kept
<1>3. call[c] \in Request'
  BY <1>1, <1>2 DEF Request, Holding
<1>4. ASSUME call[c].stage = "signing", call[c].attempt /= NoAttempt
      PROVE  PassedNext(call[c].adult, call[c].attempt)
  <2>1. Passed(call[c].adult, call[c].attempt) /\ call[c].adult \in Adult
    BY <1>1, <1>4 DEF CallInv
  <2>2. call[c].attempt \in Attempts
    BY <2>1 DEF Passed
  <2> QED  BY <2>1, <2>2, PassedStays
<1>5. /\ call[c].stage /= "idle" => call[c].adult \in Adult
      /\ call[c].stage \in {"sending", "unsent"} => call[c].attempt \in Attempts'
  BY <1>1, <1>2 DEF CallInv
<1> QED  BY <1>3, <1>4, <1>5 DEF CallNext

LEMMA IdleNext == CallNext(Idle)
BY DEF CallNext, Idle, Request, NoAttempt

\* If every request ends the step as it began it, idle, or as CallNext asks, CallsInv holds.
LEMMA CallsNext ==
  ASSUME IInv, [Next]_vars, NEW c \in Call, NEW r, CallNext(r),
         call' = [call EXCEPT ![c] = r]
  PROVE  CallsInv'
<1>1. call \in [Call -> Request]
  BY DEF IInv, CallsInv
<1>2. /\ DOMAIN call' = Call /\ call' = [d \in Call |-> call'[d]]
      /\ \A d \in Call : call'[d] = IF d = c THEN r ELSE call[d]
  BY <1>1
<1>3. ASSUME NEW d \in Call PROVE CallNext(call'[d])
  <2>1. CASE d = c
    BY <1>2, <2>1
  <2>2. CASE d /= c
    BY <1>2, <2>2, CallStays
  <2> QED  BY <2>1, <2>2
<1>4. call' \in [Call -> Request']
  BY <1>2, <1>3 DEF CallNext
<1>5. \A d \in Call : CallInv(call[d])'
  BY <1>3 DEF CallNext, CallInv, PassedNext, Passed
<1> QED  BY <1>4, <1>5 DEF CallsInv

LEMMA ToNext ==
  ASSUME IInv, [Next]_vars, NEW c \in Call, At(c, "checking") \/ At(c, "sending"),
         NEW stage \in {"allowed", "unsent"}, stage = "unsent" => At(c, "sending"),
         To(c, stage)
  PROVE  CallsInv'
<1> DEFINE r == [call[c] EXCEPT !.stage = stage]
<1>1. CallNext(call[c]) /\ call[c] \in Request
  BY CallStays DEF IInv, CallsInv
<1>2. r.stage = stage /\ r.adult = call[c].adult /\ r.attempt = call[c].attempt
  BY <1>1 DEF Request
<1>3. r \in Request'
  BY <1>1 DEF CallNext, Request, Holding
<1>4. call' = [call EXCEPT ![c] = r]
  BY DEF To
<1> HIDE DEF r
<1>5. CallNext(r)
  BY <1>1, <1>2, <1>3 DEF CallNext, At
<1> QED  BY <1>4, <1>5, CallsNext

LEMMA StepCalls == ASSUME IInv, [Next]_vars PROVE CallsInv'
<1>1. ASSUME NEW c \in Call, NEW a \in Adult, BeginStart(c, a) PROVE CallsInv'
  <2> DEFINE r == [Idle EXCEPT !.stage = "checking", !.adult = a]
  <2>1. r.stage = "checking" /\ r.adult = a
    BY DEF Idle
  <2>2. call' = [call EXCEPT ![c] = r]
    BY <1>1 DEF BeginStart
  <2>3. r \in Request'
    BY IdleNext DEF CallNext, Request, Holding
  <2> HIDE DEF r
  <2>4. CallNext(r)
    BY <2>1, <2>3 DEF CallNext
  <2> QED  BY <2>2, <2>4, CallsNext
<1>2. ASSUME NEW c \in Call, NEW a \in Adult, BeginConsent(c, a) PROVE CallsInv'
  <2>1. PICK e \in IF Usable({a}) = {} THEN {NoAttempt} ELSE Usable({a}) :
             call' = [call EXCEPT ![c] = [stage |-> "signing", adult |-> a, attempt |-> e]]
    BY <1>2 DEF BeginConsent
  <2> DEFINE r == [stage |-> "signing", adult |-> a, attempt |-> e]
  <2>2. e = NoAttempt \/ (e \in Attempts /\ Passed(a, e))
    BY DEF Usable, Passed
  <2>3. e = NoAttempt \/ (e \in Attempts' /\ PassedNext(a, e))
    BY <2>2, PassedStays DEF PassedNext
  <2>4. CallNext(r)
    BY <2>3 DEF CallNext, Request, Holding
  <2>5. call' = [call EXCEPT ![c] = r]
    BY <2>1
  <2> HIDE DEF r
  <2> QED  BY <2>4, <2>5, CallsNext
<1>3. ASSUME NEW c \in Call, End(c) PROVE CallsInv'
  BY <1>3, IdleNext, CallsNext DEF End
<1>4. ASSUME NEW c \in Call, CheckLimits(c) PROVE CallsInv'
  <2>1. CASE End(c)
    BY <1>3, <2>1
  <2>2. CASE To(c, "allowed")
    BY <1>4, <2>2, ToNext DEF CheckLimits
  <2> QED  BY <1>4, <2>1, <2>2 DEF CheckLimits
<1>5. ASSUME NEW c \in Call, Send(c) PROVE CallsInv'
  <2>1. CASE End(c)
    BY <1>3, <2>1
  <2>2. CASE To(c, "unsent")
    BY <1>5, <2>2, ToNext DEF Send
  <2> QED  BY <1>5, <2>1, <2>2 DEF Send
<1>6. ASSUME NEW c \in Call, RecordAttempt(c) PROVE CallsInv'
  <2> DEFINE r == [call[c] EXCEPT !.stage = "sending", !.attempt = Len(attempt')]
  <2>1. CallNext(call[c]) /\ call[c] \in Request
    BY CallStays DEF IInv, CallsInv
  <2>2. Len(attempt) \in Nat /\ Len(attempt') = Len(attempt) + 1
    BY <1>6, RecordedRow DEF IInv
  <2>3. Len(attempt') \in Attempts'
    BY <2>2 DEF Attempts
  <2>4. r.stage = "sending" /\ r.adult = call[c].adult /\ r.attempt = Len(attempt')
    BY <2>1 DEF Request
  <2>5. r \in Request'
    BY <2>1, <2>3 DEF CallNext, Request, Holding
  <2>6. call' = [call EXCEPT ![c] = r]
    BY <1>6 DEF RecordAttempt
  <2>7. call[c].adult \in Adult
    BY <1>6 DEF RecordAttempt, At, IInv, CallsInv, CallInv
  <2> HIDE DEF r
  <2>8. CallNext(r)
    BY <2>3, <2>4, <2>5, <2>7 DEF CallNext
  <2> QED  BY <2>6, <2>8, CallsNext
<1>7. CASE Restart
  <2>1. call' = [c \in Call |-> Idle]
    BY <1>7 DEF Restart
  <2>2. \A c \in Call : call'[c] = Idle /\ CallNext(call'[c])
    BY <2>1, IdleNext
  <2>3. call' \in [Call -> Request']
    BY <2>1, IdleNext DEF CallNext
  <2>4. \A c \in Call : CallInv(call[c])'
    BY <2>2 DEF CallNext, CallInv, PassedNext, Passed
  <2> QED  BY <2>3, <2>4 DEF CallsInv
<1>8. CASE UNCHANGED call
  <2>1. call' = call /\ call \in [Call -> Request]
    BY <1>8 DEF IInv, CallsInv
  <2>2. \A c \in Call : CallNext(call'[c])
    BY <2>1, CallStays
  <2>3. call' \in [Call -> Request']
    BY <2>1, <2>2 DEF CallNext
  <2>4. \A c \in Call : CallInv(call[c])'
    BY <2>2 DEF CallNext, CallInv, PassedNext, Passed
  <2> QED  BY <2>3, <2>4 DEF CallsInv
<1> QED
  BY <1>1, <1>2, <1>3, <1>4, <1>5, <1>6, <1>7, <1>8
  DEF Next, vars, Step, ResolveAsSendFailed, RecordConsent, Receive,
      CreateProfile, CreateAdminProfile, Tick

\* What AccountsInv says of a's record r after the step.
RecordNext(a, r) ==
  /\ r \in Record'
  /\ r.evidence /= NoAttempt => r.signed /\ PassedNext(a, r.evidence)

LEMMA RecordStays ==
  ASSUME IInv, [Next]_vars, NEW a \in Adult
  PROVE  RecordNext(a, account[a])
<1>1. Kept /\ account[a] \in Record
  BY StepKeeps DEF IInv, AccountsInv
<1>2. account[a] \in Record'
  BY <1>1 DEF Kept, Record
<1>3. ASSUME account[a].evidence /= NoAttempt
      PROVE  account[a].signed /\ PassedNext(a, account[a].evidence)
  <2>1. account[a].signed /\ Passed(a, account[a].evidence)
    BY <1>3 DEF IInv, AccountsInv
  <2>2. account[a].evidence \in Attempts
    BY <2>1 DEF Passed
  <2> QED  BY <2>1, <2>2, PassedStays
<1> QED  BY <1>2, <1>3 DEF RecordNext

\* The record a request that signs would write.
LEMMA SignedNext ==
  ASSUME IInv, [Next]_vars, NEW c \in Call, At(c, "signing")
  PROVE  /\ call[c].adult \in Adult
         /\ RecordNext(call[c].adult, [signed |-> TRUE, evidence |-> call[c].attempt])
<1>1. CallNext(call[c]) /\ call[c].stage = "signing"
  BY CallStays DEF At
<1>2. call[c].adult \in Adult
  BY <1>1 DEF CallNext
<1>3. call[c].attempt \in {NoAttempt} \cup Attempts'
  BY <1>1 DEF CallNext, Request
<1>4. call[c].attempt /= NoAttempt => PassedNext(call[c].adult, call[c].attempt)
  BY <1>1 DEF CallNext
<1> QED  BY <1>2, <1>3, <1>4 DEF RecordNext, Record

LEMMA StepAccounts == ASSUME IInv, [Next]_vars PROVE AccountsInv'
<1>1. account \in [Adult -> Record]
  BY DEF IInv, AccountsInv
<1>2. SUFFICES /\ account' = [a \in Adult |-> account'[a]]
               /\ \A a \in Adult : RecordNext(a, account'[a])
  BY DEF RecordNext, AccountsInv, PassedNext, Passed
<1>3. CASE UNCHANGED account
  BY <1>1, <1>3, RecordStays
<1>4. ASSUME NEW c \in Call, RecordConsent(c), ~ UNCHANGED account
      PROVE  /\ account' = [a \in Adult |-> account'[a]]
             /\ \A a \in Adult : RecordNext(a, account'[a])
  <2> DEFINE r == [signed |-> TRUE, evidence |-> call[c].attempt]
  <2>1. At(c, "signing") /\ account' = [account EXCEPT ![call[c].adult] = r]
    BY <1>4 DEF RecordConsent
  <2>2. call[c].adult \in Adult /\ RecordNext(call[c].adult, r)
    BY <2>1, SignedNext
  <2> HIDE DEF r
  <2>3. /\ account' = [a \in Adult |-> account'[a]]
        /\ \A a \in Adult : account'[a] = IF a = call[c].adult THEN r ELSE account[a]
    BY <1>1, <2>1
  <2>4. ASSUME NEW a \in Adult PROVE RecordNext(a, account'[a])
    <3>1. CASE a = call[c].adult
      BY <2>2, <2>3, <3>1
    <3>2. CASE a /= call[c].adult
      BY <2>3, <3>2, RecordStays
    <3> QED  BY <3>1, <3>2
  <2> QED  BY <2>3, <2>4
<1> QED
  BY <1>3, <1>4
  DEF Next, vars, db, Step, BeginStart, BeginConsent, CheckLimits, RecordAttempt, Send,
      ResolveAsSendFailed, Receive, CreateProfile, CreateAdminProfile, Tick, Restart

LEMMA StepCounts == ASSUME IInv, [Next]_vars PROVE CountsInv'
<1>1. now \in 0 .. MaxTime /\ profiles \in 0 .. MaxProfiles /\ MaxTime \in Nat /\ MaxProfiles \in Nat
  BY ConsentAssumption DEF IInv, CountsInv, ConsentAssumption
<1>2. now' = now \/ (now < MaxTime /\ now' = now + 1)
  BY DEF Next, vars, Step, BeginStart, BeginConsent, CheckLimits, RecordAttempt, Send,
         ResolveAsSendFailed, RecordConsent, Receive, CreateProfile, CreateAdminProfile,
         Tick, Restart
<1>3. profiles' = profiles \/ (profiles < MaxProfiles /\ profiles' = profiles + 1)
  BY DEF Next, vars, db, Step, BeginStart, BeginConsent, CheckLimits, RecordAttempt, Send,
         ResolveAsSendFailed, RecordConsent, Receive, CreateProfile, CreateAdminProfile,
         Tick, Restart
<1>4. now' \in 0 .. MaxTime
  BY <1>1, <1>2
<1>5. profiles' \in 0 .. MaxProfiles
  BY <1>1, <1>3
<1> QED  BY <1>4, <1>5 DEF CountsInv

THEOREM StepIInv == IInv /\ [Next]_vars => IInv'
BY StepRows, StepKws, StepCalls, StepAccounts, StepCounts DEF IInv

-----------------------------------------------------------------------------
(***************************************************************************)
(* The limits on mail.  They are looked at in one step and spent in a      *)
(* later one; what makes the look last is that the start holds its adult's *)
(* row from the one to the other.                                          *)
(***************************************************************************)
\* An adult's row is held by one start at most.
LocksInv ==
  \A c, d \in Call :
    c /= d /\ call[c].stage \in Holding /\ call[d].stage \in Holding =>
      call[c].adult /= call[d].adult

\* What was found free when the start was let through is still free.
Free(a) == ~ Pending(a) /\ Cardinality(Recent(a)) < HourlyCap
AllowedInv == \A c \in Call : call[c].stage = "allowed" => Free(call[c].adult)

MInv == IInv /\ LocksInv /\ AllowedInv /\ MailIsLimited

\* The table but for a start that adds to it: nothing is added, dates stay, and no attempt
\* goes back to waiting.
Frozen ==
  /\ Attempts' = Attempts
  /\ \A t \in Attempts : /\ attempt'[t].adult = attempt[t].adult
                         /\ attempt'[t].environment = attempt[t].environment
                         /\ attempt'[t].requestedAt = attempt[t].requestedAt
                         /\ attempt'[t].status = "sent" => attempt[t].status = "sent"

LEMMA ResolvedFrozen ==
  ASSUME RowsInv, NEW t \in Attempts, NEW s \in Status, s /= "sent",
         attempt' = [attempt EXCEPT ![t].status = s]
  PROVE  Frozen
<1>1. /\ Len(attempt') = Len(attempt)
      /\ attempt'[t] = [attempt[t] EXCEPT !.status = s]
      /\ \A u \in Attempts : u /= t => attempt'[u] = attempt[u]
  BY ResolvedRow
<1>2. attempt[t] \in Row
  BY ElementOfSeq DEF RowsInv, Attempts
<1>3. /\ attempt'[t].adult = attempt[t].adult /\ attempt'[t].environment = attempt[t].environment
      /\ attempt'[t].requestedAt = attempt[t].requestedAt /\ attempt'[t].status = s
  BY <1>1, <1>2 DEF Row
<1>4. Attempts' = Attempts
  BY <1>1 DEF Attempts
<1> QED  BY <1>1, <1>3, <1>4 DEF Frozen

LEMMA SameFrozen == ASSUME UNCHANGED attempt PROVE Frozen
BY DEF Frozen, Attempts

LEMMA TableStep == ASSUME IInv, [Next]_vars PROVE Frozen \/ \E c \in Call : RecordAttempt(c)
<1>1. RowsInv /\ CallsInv
  BY DEF IInv
<1>2. ASSUME NEW t \in Attempts, NEW v \in Verdict, Receive(t, v) PROVE Frozen
  <2>1. CASE attempt' = [attempt EXCEPT ![t].status = v]
    BY <1>1, <2>1, ResolvedFrozen DEF Status, Verdict
  <2>2. CASE UNCHANGED attempt
    BY <2>2, SameFrozen
  <2> QED  BY <1>2, <2>1, <2>2 DEF Receive, RecordParentVerified
<1>3. ASSUME NEW c \in Call, ResolveAsSendFailed(c) PROVE Frozen
  <2>1. CASE attempt' = [attempt EXCEPT ![call[c].attempt].status = "send_failed"]
    <3>1. call[c].attempt \in Attempts
      BY <1>1, <1>3 DEF ResolveAsSendFailed, At, CallsInv, CallInv
    <3> QED  BY <1>1, <2>1, <3>1, ResolvedFrozen DEF Status
  <2>2. CASE UNCHANGED attempt
    BY <2>2, SameFrozen
  <2> QED  BY <1>3, <2>1, <2>2 DEF ResolveAsSendFailed
<1>4. CASE UNCHANGED attempt
  BY <1>4, SameFrozen
<1> QED
  BY <1>2, <1>3, <1>4
  DEF Next, vars, db, Step, BeginStart, BeginConsent, CheckLimits, Send, RecordConsent,
      CreateProfile, CreateAdminProfile, Tick, Restart

\* What a step does to one request: it goes on with what it holds or lets go of it, and it
\* is let through only by a look at the limits.
Went(c) ==
  /\ \A d \in Call \ {c} : call'[d] = call[d]
  /\ \/ call'[c].stage \notin Holding
     \/ \E a \in Adult : BeginStart(c, a) /\ call'[c].stage = "checking" /\ call'[c].adult = a
     \/ /\ call[c].stage \in Holding /\ call'[c].adult = call[c].adult
        /\ call'[c].stage = "allowed" => CheckLimits(c) /\ To(c, "allowed")

LEMMA CallWent ==
  ASSUME IInv, NEW c \in Call, NEW r, call' = [call EXCEPT ![c] = r]
  PROVE  call'[c] = r /\ \A d \in Call \ {c} : call'[d] = call[d]
BY DEF IInv, CallsInv

LEMMA StepWent ==
  ASSUME IInv, [Next]_vars
  PROVE  UNCHANGED call \/ (\A c \in Call : call'[c] = Idle) \/ \E c \in Call : Went(c)
<1>1. ASSUME NEW c \in Call, NEW a \in Adult, BeginStart(c, a) PROVE Went(c)
  <2> DEFINE r == [Idle EXCEPT !.stage = "checking", !.adult = a]
  <2>1. r.stage = "checking" /\ r.adult = a
    BY DEF Idle
  <2>2. call' = [call EXCEPT ![c] = r]
    BY <1>1 DEF BeginStart
  <2> HIDE DEF r
  <2>3. call'[c] = r /\ \A d \in Call \ {c} : call'[d] = call[d]
    BY <2>2, CallWent
  <2> QED  BY <1>1, <2>1, <2>3 DEF Went
<1>2. ASSUME NEW c \in Call, NEW a \in Adult, BeginConsent(c, a) PROVE Went(c)
  <2>1. PICK e : call' = [call EXCEPT ![c] = [stage |-> "signing", adult |-> a, attempt |-> e]]
    BY <1>2 DEF BeginConsent
  <2>2. call'[c] = [stage |-> "signing", adult |-> a, attempt |-> e]
        /\ \A d \in Call \ {c} : call'[d] = call[d]
    BY <2>1, CallWent
  <2>3. call'[c].stage \notin Holding
    BY <2>2 DEF Holding
  <2> QED  BY <2>2, <2>3 DEF Went
<1>3. ASSUME NEW c \in Call, End(c) PROVE Went(c)
  <2>1. call'[c] = Idle /\ \A d \in Call \ {c} : call'[d] = call[d]
    BY <1>3, CallWent DEF End
  <2>2. Idle.stage = "idle"
    BY DEF Idle
  <2> QED  BY <2>1, <2>2 DEF Went, Holding
<1>4. ASSUME NEW c \in Call, NEW stage, To(c, stage), call[c].stage \in Holding,
             stage = "allowed" => CheckLimits(c)
      PROVE  Went(c)
  <2> DEFINE r == [call[c] EXCEPT !.stage = stage]
  <2>1. call' = [call EXCEPT ![c] = r] /\ call[c] \in Request
    BY <1>4 DEF To, IInv, CallsInv
  <2>2. r.stage = stage /\ r.adult = call[c].adult
    BY <2>1 DEF Request
  <2> HIDE DEF r
  <2>3. call'[c] = r /\ \A d \in Call \ {c} : call'[d] = call[d]
    BY <2>1, CallWent
  <2> QED  BY <1>4, <2>2, <2>3 DEF Went
<1>5. ASSUME NEW c \in Call, CheckLimits(c) PROVE Went(c)
  <2>1. call[c].stage \in Holding /\ (End(c) \/ To(c, "allowed"))
    BY <1>5 DEF CheckLimits, At, Holding
  <2> QED  BY <1>3, <1>4, <1>5, <2>1
<1>6. ASSUME NEW c \in Call, Send(c) PROVE Went(c)
  <2>1. call[c].stage \in Holding /\ (End(c) \/ To(c, "unsent"))
    BY <1>6 DEF Send, At, Holding
  <2> QED  BY <1>3, <1>4, <2>1
<1>7. ASSUME NEW c \in Call, RecordAttempt(c) PROVE Went(c)
  <2> DEFINE r == [call[c] EXCEPT !.stage = "sending", !.attempt = Len(attempt')]
  <2>1. call' = [call EXCEPT ![c] = r] /\ call[c] \in Request /\ call[c].stage = "allowed"
    BY <1>7 DEF RecordAttempt, At, IInv, CallsInv
  <2>2. r.stage = "sending" /\ r.adult = call[c].adult
    BY <2>1 DEF Request
  <2> HIDE DEF r
  <2>3. call'[c] = r /\ \A d \in Call \ {c} : call'[d] = call[d]
    BY <2>1, CallWent
  <2> QED  BY <2>1, <2>2, <2>3 DEF Went, Holding
<1>8. CASE Restart
  BY <1>8 DEF Restart
<1> QED
  BY <1>1, <1>2, <1>3, <1>5, <1>6, <1>7, <1>8
  DEF Next, vars, Step, ResolveAsSendFailed, RecordConsent, Receive,
      CreateProfile, CreateAdminProfile, Tick

LEMMA StepLocksInv == ASSUME IInv, LocksInv, [Next]_vars PROVE LocksInv'
<1>1. CASE UNCHANGED call
  BY <1>1 DEF LocksInv
<1>2. CASE \A c \in Call : call'[c] = Idle
  <2>1. Idle.stage = "idle"
    BY DEF Idle
  <2> QED  BY <1>2, <2>1 DEF LocksInv, Holding
<1>3. ASSUME NEW c \in Call, Went(c) PROVE LocksInv'
  <2>1. SUFFICES ASSUME NEW d \in Call \ {c}, call'[c].stage \in Holding, call'[d].stage \in Holding
                 PROVE  call'[c].adult /= call'[d].adult
    BY <1>3 DEF LocksInv, Went
  <2>2. call'[d] = call[d]
    BY <1>3 DEF Went
  <2>3. ASSUME NEW a \in Adult, BeginStart(c, a), call'[c].adult = a
        PROVE  call'[c].adult /= call'[d].adult
    <3>1. Holders(a) = {}
      BY <2>3 DEF BeginStart, Grants, Compatible, StartMode
    <3> QED  BY <2>1, <2>2, <2>3, <3>1 DEF Holders
  <2>4. CASE call[c].stage \in Holding /\ call'[c].adult = call[c].adult
    BY <2>1, <2>2, <2>4 DEF LocksInv
  <2> QED  BY <1>3, <2>1, <2>3, <2>4 DEF Went
<1> QED  BY <1>1, <1>2, <1>3, StepWent

-----------------------------------------------------------------------------
(***************************************************************************)
(* What is free stays free while nobody else starts for the adult.         *)
(***************************************************************************)
LEMMA Dates ==
  ASSUME IInv
  PROVE  /\ now \in Nat /\ OpenWindow \in Nat /\ Hour \in Nat /\ HourlyCap \in Nat
         /\ Len(attempt) \in Nat /\ IsFiniteSet(Attempts)
         /\ \A t \in Attempts : attempt[t].requestedAt \in Nat /\ t \in Nat
<1>1. now \in Nat /\ OpenWindow \in Nat /\ Hour \in Nat /\ HourlyCap \in Nat /\ MaxTime \in Nat
  BY ConsentAssumption DEF ConsentAssumption, IInv, CountsInv
<1>2. attempt \in Seq(Row) /\ Len(attempt) \in Nat
  BY LenProperties DEF IInv, RowsInv
<1>3. ASSUME NEW t \in Attempts PROVE attempt[t].requestedAt \in Nat /\ t \in Nat
  <2>1. attempt[t] \in Row
    BY <1>2, ElementOfSeq DEF Attempts
  <2> QED  BY <1>1, <1>2, <2>1 DEF Row, Attempts
<1>4. IsFiniteSet(Attempts)
  BY <1>2, FS_Interval DEF Attempts
<1> QED  BY <1>1, <1>2, <1>3, <1>4

LEMMA FreeStays ==
  ASSUME IInv, NEW a, Free(a), environment' = environment, now' \in {now, now + 1},
         \A t \in Attempts' : attempt'[t].adult = a =>
           /\ t \in Attempts /\ attempt[t].adult = a
           /\ attempt'[t].environment = attempt[t].environment
           /\ attempt'[t].requestedAt = attempt[t].requestedAt
           /\ attempt'[t].status = "sent" => attempt[t].status = "sent"
  PROVE  Free(a)'
<1>1. ASSUME NEW t \in Open(a)' PROVE attempt'[t].requestedAt < now' - OpenWindow
  <2>1. t \in Open(a) /\ t \in Attempts /\ attempt'[t].requestedAt = attempt[t].requestedAt
    BY DEF Open
  <2>2. attempt[t].requestedAt < now - OpenWindow
    BY <2>1, Dates DEF Free, Pending
  <2> QED  BY <2>1, <2>2, Dates
<1>2. ~ Pending(a)'
  <2>1. ASSUME NEW t \in Open(a)', attempt'[t].requestedAt >= now' - OpenWindow PROVE FALSE
    <3>1. attempt'[t].requestedAt \in Nat /\ now' \in Nat /\ OpenWindow \in Nat
      BY Dates DEF Open
    <3> QED  BY <1>1, <2>1, <3>1
  <2> QED  BY <2>1 DEF Pending
<1>3. Recent(a)' \subseteq Recent(a) /\ Recent(a) \subseteq Attempts
  <2>1. ASSUME NEW t \in Recent(a)' PROVE t \in Recent(a)
    <3>1. t \in Attempts /\ attempt[t].adult = a /\ attempt'[t].requestedAt = attempt[t].requestedAt
          /\ attempt'[t].requestedAt >= now' - Hour
      BY DEF Recent
    <3>2. attempt[t].requestedAt >= now - Hour
      BY <3>1, Dates
    <3> QED  BY <3>1, <3>2 DEF Recent
  <2> QED  BY <2>1 DEF Recent
<1>4. /\ Cardinality(Recent(a)') <= Cardinality(Recent(a))
      /\ Cardinality(Recent(a)') \in Nat /\ Cardinality(Recent(a)) \in Nat
  <2>1. IsFiniteSet(Recent(a))
    BY <1>3, Dates, FS_Subset
  <2> QED  BY <1>3, <2>1, FS_Subset, FS_CardinalityType
<1>5. Cardinality(Recent(a)') < HourlyCap
  BY <1>4, Dates DEF Free
<1> QED  BY <1>2, <1>5 DEF Free

LEMMA TimeStep ==
  ASSUME [Next]_vars
  PROVE  now' \in {now, now + 1} /\ (environment' = environment \/ Restart)
<1>1. now' = now \/ now' = now + 1
  BY DEF Next, vars, Step, BeginStart, BeginConsent, CheckLimits, RecordAttempt, Send,
         ResolveAsSendFailed, RecordConsent, Receive, CreateProfile, CreateAdminProfile,
         Tick, Restart
<1>2. environment' = environment \/ Restart
  BY DEF Next, vars, Step, BeginStart, BeginConsent, CheckLimits, RecordAttempt, Send,
         ResolveAsSendFailed, RecordConsent, Receive, CreateProfile, CreateAdminProfile,
         Tick
<1> QED  BY <1>1, <1>2

\* A start's new row is of the adult whose row it holds.
LEMMA OthersRecord ==
  ASSUME IInv, LocksInv, NEW c \in Call, RecordAttempt(c), NEW d \in Call \ {c},
         call[d].stage = "allowed", NEW t \in Attempts', attempt'[t].adult = call[d].adult
  PROVE  t \in Attempts /\ attempt'[t] = attempt[t]
<1>1. /\ Len(attempt) \in Nat /\ Len(attempt') = Len(attempt) + 1
      /\ \A u \in Attempts : attempt'[u] = attempt[u]
      /\ attempt'[Len(attempt')].adult = call[c].adult
  BY RecordedRow DEF IInv
<1>2. call[c].adult /= call[d].adult
  BY DEF LocksInv, Holding, RecordAttempt, At
<1>3. t \in Attempts \/ t = Len(attempt')
  BY <1>1 DEF Attempts
<1> QED  BY <1>1, <1>2, <1>3

LEMMA StepAllowedInv == ASSUME IInv, LocksInv, AllowedInv, [Next]_vars PROVE AllowedInv'
<1> SUFFICES ASSUME NEW d \in Call, call'[d].stage = "allowed", NEW a, a = call'[d].adult
             PROVE  Free(a)'
  BY DEF AllowedInv, Free, Pending, Open, Recent, Attempts
<1>1. call'[d] /= Idle
  <2>1. Idle.stage = "idle"
    BY DEF Idle
  <2> QED  BY <2>1
<1>2. CASE call'[d] = call[d]
  <2>1. Free(a)
    BY <1>2 DEF AllowedInv
  <2>2. ~ Restart
    BY <1>1 DEF Restart
  <2>3. now' \in {now, now + 1} /\ environment' = environment
    BY <2>2, TimeStep
  <2>4. CASE Frozen
    <3>1. \A t \in Attempts' : attempt'[t].adult = a =>
             /\ t \in Attempts /\ attempt[t].adult = a
             /\ attempt'[t].environment = attempt[t].environment
             /\ attempt'[t].requestedAt = attempt[t].requestedAt
             /\ attempt'[t].status = "sent" => attempt[t].status = "sent"
      BY <2>4 DEF Frozen
    <3> QED  BY <2>1, <2>3, <3>1, FreeStays
  <2>5. ASSUME NEW c \in Call, RecordAttempt(c) PROVE Free(a)'
    <3>1. c /= d
      <4> DEFINE r == [call[c] EXCEPT !.stage = "sending", !.attempt = Len(attempt')]
      <4>1. call' = [call EXCEPT ![c] = r] /\ call[c] \in Request
        BY <2>5 DEF RecordAttempt, IInv, CallsInv
      <4>2. r.stage = "sending"
        BY <4>1 DEF Request
      <4> HIDE DEF r
      <4>3. call'[c] = r
        BY <4>1, CallWent
      <4> QED  BY <4>2, <4>3
    <3>2. ASSUME NEW t \in Attempts', attempt'[t].adult = a
          PROVE  t \in Attempts /\ attempt'[t] = attempt[t]
      BY <1>2, <2>5, <3>1, <3>2, OthersRecord
    <3>3. \A t \in Attempts' : attempt'[t].adult = a =>
             /\ t \in Attempts /\ attempt[t].adult = a
             /\ attempt'[t].environment = attempt[t].environment
             /\ attempt'[t].requestedAt = attempt[t].requestedAt
             /\ attempt'[t].status = "sent" => attempt[t].status = "sent"
      BY <3>2
    <3> QED  BY <2>1, <2>3, <3>3, FreeStays
  <2> QED  BY <2>4, <2>5, TableStep
<1>3. ASSUME CheckLimits(d), To(d, "allowed") PROVE Free(a)'
  <2>1. call[d] \in Request /\ call' = [call EXCEPT ![d].stage = "allowed"]
    BY <1>3 DEF To, IInv, CallsInv
  <2>2. call[d].adult = a
    <3> DEFINE r == [call[d] EXCEPT !.stage = "allowed"]
    <3>1. r.adult = call[d].adult /\ call' = [call EXCEPT ![d] = r]
      BY <2>1 DEF Request
    <3> HIDE DEF r
    <3>2. call'[d] = r
      BY <3>1, CallWent
    <3> QED  BY <3>1, <3>2
  <2>3. UNCHANGED <<now, environment, attempt>>
    BY <1>3 DEF CheckLimits, db
  <2>4. Cardinality(Recent(a)) \in Nat /\ HourlyCap \in Nat
    <3>1. Recent(a) \subseteq Attempts
      BY DEF Recent
    <3> QED  BY <3>1, Dates, FS_Subset, FS_CardinalityType
  <2>5. ~ End(d)
    BY <1>1, CallWent DEF End
  <2>6. ~ (Pending(a) \/ Cardinality(Recent(a)) >= HourlyCap)
    BY <1>3, <2>2, <2>5 DEF CheckLimits
  <2>7. Free(a)
    BY <2>4, <2>6 DEF Free
  <2> QED  BY <2>3, <2>7 DEF Free, Pending, Open, Recent, Attempts
<1>4. ASSUME NEW c \in Call, Went(c)
      PROVE  call'[d] = call[d] \/ (CheckLimits(d) /\ To(d, "allowed"))
  <2>1. CASE c = d
    BY <1>4, <2>1 DEF Went, Holding
  <2>2. CASE c /= d
    BY <1>4, <2>2 DEF Went
  <2> QED  BY <2>1, <2>2
<1> QED  BY <1>1, <1>2, <1>3, <1>4, StepWent

-----------------------------------------------------------------------------
(***************************************************************************)
(* The two limits.                                                         *)
(***************************************************************************)
LEMMA StepOneOpenMail ==
  ASSUME IInv, AllowedInv, OneOpenMail, [Next]_vars
  PROVE  OneOpenMail'
<1> SUFFICES ASSUME NEW t \in Attempts', NEW u \in Attempts', t < u,
                    attempt'[t].adult = attempt'[u].adult,
                    attempt'[t].environment = attempt'[u].environment,
                    attempt'[t].status = "sent", attempt'[u].status = "sent"
             PROVE  attempt'[u].requestedAt - attempt'[t].requestedAt > OpenWindow
  BY DEF OneOpenMail
<1>1. CASE Frozen
  BY <1>1 DEF Frozen, OneOpenMail
<1>2. ASSUME NEW c \in Call, RecordAttempt(c)
      PROVE  attempt'[u].requestedAt - attempt'[t].requestedAt > OpenWindow
  <2>1. /\ Len(attempt) \in Nat /\ Len(attempt') = Len(attempt) + 1
        /\ \A v \in Attempts : attempt'[v] = attempt[v]
        /\ attempt'[Len(attempt')].environment = environment
        /\ attempt'[Len(attempt')].adult = call[c].adult
        /\ attempt'[Len(attempt')].requestedAt = now
    BY <1>2, RecordedRow DEF IInv
  <2>2. t \in Attempts /\ (u \in Attempts \/ u = Len(attempt'))
    BY <2>1 DEF Attempts
  <2>3. CASE u \in Attempts
    BY <2>1, <2>2, <2>3 DEF OneOpenMail
  <2>4. CASE u = Len(attempt')
    <3>1. Free(call[c].adult)
      BY <1>2 DEF RecordAttempt, At, AllowedInv
    <3>2. t \in Open(call[c].adult) /\ attempt'[t] = attempt[t]
      BY <2>1, <2>2, <2>4 DEF Open
    <3>3. ~ (attempt[t].requestedAt >= now - OpenWindow)
      BY <3>1, <3>2 DEF Free, Pending
    <3>4. attempt[t].requestedAt \in Nat /\ now \in Nat /\ OpenWindow \in Nat
      BY <2>2, Dates
    <3>5. now - attempt[t].requestedAt > OpenWindow
      BY <3>3, <3>4
    <3> QED  BY <2>1, <2>4, <3>2, <3>5
  <2> QED  BY <2>2, <2>3, <2>4
<1> QED  BY <1>1, <1>2, TableStep

\* The attempts up to u, of its adult, that count against the hour before it.
HourOf(u) == {t \in 1 .. u : /\ attempt[t].adult = attempt[u].adult
                             /\ attempt[t].requestedAt >= attempt[u].requestedAt - Hour}

LEMMA StepMailIsBounded ==
  ASSUME IInv, AllowedInv, MailIsBounded, [Next]_vars
  PROVE  MailIsBounded'
<1> SUFFICES ASSUME NEW u \in Attempts' PROVE Cardinality(HourOf(u)') <= HourlyCap
  BY DEF MailIsBounded, HourOf
<1>1. Len(attempt) \in Nat
  BY Dates
<1>2. ASSUME u \in Attempts,
             \A t \in Attempts : /\ attempt'[t].adult = attempt[t].adult
                                 /\ attempt'[t].requestedAt = attempt[t].requestedAt
      PROVE  Cardinality(HourOf(u)') <= HourlyCap
  <2>1. 1 .. u \subseteq Attempts
    BY <1>1, <1>2 DEF Attempts
  <2>2. HourOf(u)' = HourOf(u)
    BY <1>2, <2>1 DEF HourOf
  <2> QED  BY <1>2, <2>2 DEF MailIsBounded, HourOf
<1>3. CASE Frozen
  BY <1>2, <1>3 DEF Frozen
<1>4. ASSUME NEW c \in Call, RecordAttempt(c) PROVE Cardinality(HourOf(u)') <= HourlyCap
  <2> DEFINE a == call[c].adult
  <2>1. /\ Len(attempt') = Len(attempt) + 1
        /\ \A v \in Attempts : attempt'[v] = attempt[v]
        /\ attempt'[Len(attempt')].adult = a
        /\ attempt'[Len(attempt')].requestedAt = now
    BY <1>4, RecordedRow DEF IInv
  <2>2. u \in Attempts \/ u = Len(attempt')
    BY <1>1, <2>1 DEF Attempts
  <2>3. CASE u = Len(attempt')
    <3>1. Cardinality(Recent(a)) < HourlyCap
      BY <1>4 DEF RecordAttempt, At, AllowedInv, Free
    <3>2. ASSUME NEW t \in HourOf(u)' PROVE t \in Recent(a) \cup {u}
      <4>1. t \in Attempts \/ t = u
        BY <1>1, <2>1, <2>3 DEF HourOf, Attempts
      <4>2. CASE t \in Attempts
        BY <2>1, <2>3, <4>2 DEF HourOf, Recent
      <4> QED  BY <4>1, <4>2
    <3>3. IsFiniteSet(Recent(a))
      BY Dates, FS_Subset DEF Recent
    <3>4. /\ IsFiniteSet(Recent(a) \cup {u})
          /\ Cardinality(Recent(a) \cup {u}) =
               IF u \in Recent(a) THEN Cardinality(Recent(a)) ELSE Cardinality(Recent(a)) + 1
      BY <3>3, FS_AddElement
    <3>5. /\ Cardinality(HourOf(u)') <= Cardinality(Recent(a) \cup {u})
          /\ IsFiniteSet(HourOf(u)')
      BY <3>2, <3>4, FS_Subset
    <3>6. /\ Cardinality(HourOf(u)') \in Nat /\ Cardinality(Recent(a)) \in Nat
          /\ Cardinality(Recent(a) \cup {u}) \in Nat /\ HourlyCap \in Nat
      BY <3>3, <3>4, <3>5, Dates, FS_CardinalityType
    <3> QED  BY <3>1, <3>4, <3>5, <3>6
  <2> QED  BY <1>2, <2>1, <2>2, <2>3
<1> QED  BY <1>3, <1>4, TableStep

LEMMA InitMInv == Init => MInv
<1> SUFFICES ASSUME Init PROVE MInv
  OBVIOUS
<1>1. Attempts = {}
  BY EmptySeq DEF Init, Attempts
<1>2. \A c \in Call : call[c].stage = "idle"
  BY DEF Init, Idle
<1>3. LocksInv /\ AllowedInv
  BY <1>2 DEF LocksInv, AllowedInv, Holding
<1>4. MailIsLimited
  BY <1>1 DEF MailIsLimited, OneOpenMail, MailIsBounded
<1> QED  BY <1>3, <1>4, InitIInv DEF MInv

LEMMA StepMInv == MInv /\ [Next]_vars => MInv'
<1> SUFFICES ASSUME MInv, [Next]_vars PROVE MInv'
  OBVIOUS
<1>1. IInv /\ LocksInv /\ AllowedInv /\ OneOpenMail /\ MailIsBounded
  BY DEF MInv, MailIsLimited
<1>2. IInv' /\ LocksInv' /\ AllowedInv' /\ OneOpenMail' /\ MailIsBounded'
  BY <1>1, StepIInv, StepLocksInv, StepAllowedInv, StepOneOpenMail, StepMailIsBounded
<1> QED  BY <1>2 DEF MInv, MailIsLimited

-----------------------------------------------------------------------------
\* Types, and the evidence behind every consent record, as the run checks them.
THEOREM ConsentInvAlways == Spec => []ConsentInv
<1>1. IInv => ConsentInv
  <2> SUFFICES ASSUME IInv PROVE ConsentInv
    OBVIOUS
  <2>1. account \in [Adult -> Record] /\ call \in [Call -> Request] /\ attempt \in Seq(Row)
    BY DEF IInv, AccountsInv, CallsInv, RowsInv
  <2>2. TypeOK
    BY <2>1 DEF TypeOK, IInv, RowsInv, KwsInv, CountsInv, Record, Request, Row, Status
  <2>3. EvidenceHolds
    BY DEF EvidenceHolds, IInv, AccountsInv, KwsInv, Passed
  <2> QED  BY <2>2, <2>3 DEF ConsentInv
<1> QED  BY <1>1, InitIInv, StepIInv, PTL DEF Spec

\* An answer KWS had its 200 for is in its row, unless it was the other environment's.
THEOREM AnswersAreKeptAlways == Spec => []AnswersAreKept
<1>1. IInv => AnswersAreKept
  BY DEF IInv, KwsInv
<1> QED  BY <1>1, InitIInv, StepIInv, PTL DEF Spec

\* Neither the first answer of KWS nor a consent record is ever rewritten.
THEOREM RecordsStandAlways == Spec => RecordsStand
<1>1. IInv /\ [Next]_vars => [\A t \in Attempts : Delivered(t) => attempt'[t] = attempt[t]]_vars
  BY StepKeeps DEF Kept
<1>2. IInv /\ [Next]_vars => [\A a \in Signed : account'[a] = account[a]]_vars
  <2> SUFFICES ASSUME IInv, [Next]_vars, NEW a \in Signed
               PROVE  account'[a] = account[a]
    OBVIOUS
  <2>1. CASE UNCHANGED account
    BY <2>1
  <2>2. ASSUME NEW c \in Call, RecordConsent(c) PROVE account'[a] = account[a]
    <3>1. account \in [Adult -> Record] /\ a \in Adult /\ account[a].signed
      BY DEF IInv, AccountsInv, Signed
    <3> QED  BY <2>2, <3>1 DEF RecordConsent
  <2> QED
    BY <2>1, <2>2
    DEF Next, vars, db, Step, BeginStart, BeginConsent, CheckLimits, RecordAttempt, Send,
        ResolveAsSendFailed, Receive, CreateProfile, CreateAdminProfile, Tick, Restart
<1> QED  BY <1>1, <1>2, InitIInv, StepIInv, PTL DEF Spec, RecordsStand, AnswersStand, ConsentStands

\* Whenever a profile appears, one adult of the family has signed and was passed by KWS in
\* the environment that is live.
THEOREM ProfilesNeedAParentAlways == Spec => ProfilesNeedAParent
<1> DEFINE Parent == profiles' /= profiles =>
             \E t \in mailed : /\ attempt[t].adult \in Signed
                               /\ attempt[t].environment = environment
                               /\ <<t, "verified">> \in verdicts
<1>1. IInv /\ [Next]_vars => [Parent]_vars
  <2> SUFFICES ASSUME IInv, [Next]_vars, profiles' /= profiles
               PROVE  \E t \in mailed : /\ attempt[t].adult \in Signed
                                        /\ attempt[t].environment = environment
                                        /\ <<t, "verified">> \in verdicts
    OBVIOUS
  <2>1. ASSUME NEW t \in Usable(Signed) PROVE Parent
    <3>1. t \in Attempts /\ attempt[t].adult \in Signed /\ attempt[t].environment = environment
      BY DEF Usable
    <3>2. <<t, "verified">> \in verdicts
      BY DEF Usable, IInv, KwsInv
    <3>3. t \in mailed
      BY <3>2 DEF IInv, KwsInv
    <3> QED  BY <3>1, <3>2, <3>3
  <2>2. \E t \in Usable(Signed) : TRUE
    <3>1. CASE CreateAdminProfile
      BY <3>1 DEF CreateAdminProfile, FamilyGate
    <3>2. ASSUME NEW a \in Adult, CreateProfile(a) PROVE \E t \in Usable(Signed) : TRUE
      BY <3>2 DEF CreateProfile, Usable
    <3> QED
      BY <3>1, <3>2
      DEF Next, vars, db, Step, BeginStart, BeginConsent, CheckLimits, RecordAttempt, Send,
          ResolveAsSendFailed, RecordConsent, Receive, Tick, Restart
  <2> QED  BY <2>1, <2>2
<1> QED  BY <1>1, InitIInv, StepIInv, PTL DEF Spec, ProfilesNeedAParent

\* However the starts of an adult overlap, fail or are cut short, no second mail goes out
\* while the first waits within its window, and no hour has more attempts than the cap: the
\* limits start_kws_verification looked at still hold when its attempt is written down.
THEOREM MailIsLimitedAlways == Spec => []MailIsLimited
<1>1. MInv => MailIsLimited
  BY DEF MInv
<1> QED  BY <1>1, InitMInv, StepMInv, PTL DEF Spec
=============================================================================
