------------------------------- MODULE Consent -------------------------------
(***************************************************************************)
(* Verifiable parental consent of one family's adults: the attempts to     *)
(* have KWS verify a parent (api/consent.py, consent/service.py), KWS's    *)
(* answers on the webhook (api/kws_webhook.py), the consent record         *)
(* (api/onboarding.py) and the two gates that ask for both before a child  *)
(* has a profile (api/profiles.py, api/admin_profiles.py).  A start locks  *)
(* the caller's row of user until its answer is sent, while the attempt    *)
(* and what became of its mail are committed by sessions of their own.     *)
(***************************************************************************)
EXTENDS Integers, Sequences, FiniteSets

CONSTANTS
  Adult,          \* the family's adults, each with an account
  Nobody,         \* no adult
  Call,           \* how many requests are handled at once
  TestEvidence,   \* settings.kws_accept_test_evidence
  OpenWindow,     \* settings.kws_open_attempt_minutes, in ticks
  Hour,           \* an hour, in ticks
  HourlyCap,      \* settings.kws_start_max_attempts_per_hour
  MaxAttempts,    \* bound: attempts there can be
  MaxProfiles,    \* bound: profiles there can be
  MaxTime         \* bound: ticks that go by

ConsentAssumption ==
  /\ Nobody \notin Adult /\ TestEvidence \in BOOLEAN
  /\ OpenWindow \in Nat /\ Hour \in Nat /\ HourlyCap \in Nat
  /\ MaxAttempts \in Nat /\ MaxProfiles \in Nat /\ MaxTime \in Nat
ASSUME ConsentAssumption

VARIABLES
  now,          \* the time
  environment,  \* settings.kws_environment of the running processes
  attempt,      \* the committed rows of kws_verification, in order of insertion
  account,      \* the adults' consent record, and the attempt it names as evidence
  profiles,     \* how many profiles the family has
  call,         \* the requests under way
  mailed,       \* the attempts whose mail has reached the parent
  verdicts      \* the answers of KWS that had their 200, by attempt

db == <<attempt, account, profiles>>
kws == <<mailed, verdicts>>
vars == <<now, environment, db, call, kws>>

Attempts == 1 .. Len(attempt)
NoAttempt == 0
Verdict == {"verified", "failed"}

Idle == [stage |-> "idle", adult |-> Nobody, attempt |-> NoAttempt]
Unsigned == [signed |-> FALSE, evidence |-> NoAttempt]

Init ==
  /\ now = 0
  /\ environment \in {"test", "production"}
  /\ attempt = <<>>
  /\ account = [a \in Adult |-> Unsigned]
  /\ profiles = 0
  /\ call = [c \in Call |-> Idle]
  /\ mailed = {}
  /\ verdicts = {}

To(c, stage) == call' = [call EXCEPT ![c].stage = stage]
End(c) == call' = [call EXCEPT ![c] = Idle]
At(c, stage) == call[c].stage = stage

(***************************************************************************)
(* The row of user.  start_kws_verification takes it FOR NO KEY UPDATE,    *)
(* onboarding's UPDATE wants the same mode, and the foreign key of a new   *)
(* attempt wants KEY SHARE, which only the full FOR UPDATE excludes.       *)
(***************************************************************************)
Holding == {"checking", "allowed", "sending", "unsent"}
Holders(a) == {c \in Call : call[c].adult = a /\ call[c].stage \in Holding}

\* Fault: the plain FOR UPDATE.
FullMode == "update"

StartMode == "no key update"

Compatible(held, wanted) == held = "no key update" /\ wanted = "key share"
Grants(a, wanted) == Holders(a) = {} \/ Compatible(StartMode, wanted)

Room == Len(attempt) + Cardinality({c \in Call : call[c].stage \in {"checking", "allowed"}})
          < MaxAttempts

\* Fault: the start does not lock the row.
BeginUnlocked(c, a) ==
  /\ At(c, "idle") /\ Room
  /\ call' = [call EXCEPT ![c] = [Idle EXCEPT !.stage = "checking", !.adult = a]]
  /\ UNCHANGED <<now, environment, db, kws>>

BeginStart(c, a) ==
  /\ At(c, "idle") /\ Room
  /\ Grants(a, StartMode)
  /\ call' = [call EXCEPT ![c] = [Idle EXCEPT !.stage = "checking", !.adult = a]]
  /\ UNCHANGED <<now, environment, db, kws>>

\* open_attempt_started_at: the newest attempt that nothing has resolved.
Open(a) == {t \in Attempts : /\ attempt[t].adult = a /\ attempt[t].status = "sent"
                             /\ attempt[t].environment = environment}
Pending(a) == \E t \in Open(a) : attempt[t].requestedAt >= now - OpenWindow

\* attempts_since: whatever became of them.
Recent(a) == {t \in Attempts : attempt[t].adult = a /\ attempt[t].requestedAt >= now - Hour}

CheckLimits(c) ==
  LET a == call[c].adult
      refused == Pending(a) \/ Cardinality(Recent(a)) >= HourlyCap
  IN  /\ At(c, "checking")
      /\ IF refused THEN End(c) ELSE To(c, "allowed")
      /\ UNCHANGED <<now, environment, db, kws>>

\* start_parent_verification: the row is committed before anything is sent.
RecordAttempt(c) ==
  LET a == call[c].adult
  IN  /\ At(c, "allowed")
      /\ Grants(a, "key share")
      /\ attempt' = Append(attempt, [adult |-> a, environment |-> environment,
                                     status |-> "sent", requestedAt |-> now])
      /\ call' = [call EXCEPT ![c].stage = "sending", ![c].attempt = Len(attempt')]
      /\ UNCHANGED <<now, environment, account, profiles, kws>>

\* send_verification_email.  One that fails may have reached the parent all the same.
Send(c) ==
  /\ At(c, "sending")
  /\ \/ mailed' = mailed \cup {call[c].attempt} /\ (End(c) \/ To(c, "unsent"))
     \/ UNCHANGED mailed /\ To(c, "unsent")
  /\ UNCHANGED <<now, environment, db, verdicts>>

\* Fault: the row is marked without a look at what it says by now.
MarkUnsent(c) ==
  /\ At(c, "unsent")
  /\ attempt' = [attempt EXCEPT ![call[c].attempt].status = "send_failed"]
  /\ End(c)
  /\ UNCHANGED <<now, environment, account, profiles, kws>>

\* _resolve_as_send_failed; a database that refuses leaves the row as it is.
ResolveAsSendFailed(c) ==
  LET t == call[c].attempt
  IN  /\ At(c, "unsent")
      /\ \/ attempt[t].status = "sent" /\ attempt' = [attempt EXCEPT ![t].status = "send_failed"]
         \/ UNCHANGED attempt
      /\ End(c)
      /\ UNCHANGED <<now, environment, account, profiles, kws>>

(***************************************************************************)
(* KWS: a parent who has the mail passes or fails, and the answer is       *)
(* delivered, late, twice, or after another one.  A delivery is committed  *)
(* before its 200: cut short before that it is as if it had not come, and  *)
(* after that KWS, which heard nothing, delivers it again.                 *)
(***************************************************************************)
Delivered(t) == attempt[t].status \in Verdict

\* Fault: any answer is written down.
ResolveAgain(t, v) ==
  attempt' = IF attempt[t].environment = environment
               THEN [attempt EXCEPT ![t].status = v] ELSE attempt

\* Fault: only an attempt whose mail is known to be out can be answered.
ResolveSent(t, v) ==
  attempt' = IF attempt[t].environment = environment /\ attempt[t].status = "sent"
               THEN [attempt EXCEPT ![t].status = v] ELSE attempt

\* record_parent_verified.
RecordParentVerified(t, v) ==
  attempt' = IF attempt[t].environment = environment /\ ~ Delivered(t)
               THEN [attempt EXCEPT ![t].status = v] ELSE attempt

\* receive_parent_verified.
Receive(t, v) ==
  /\ t \in mailed
  /\ verdicts' = verdicts \cup {<<t, v>>}
  /\ RecordParentVerified(t, v)
  /\ UNCHANGED <<now, environment, account, profiles, call, mailed>>

(***************************************************************************)
(* usable_verification_id, and those who ask for it.                       *)
(***************************************************************************)
Usable(adults) ==
  {t \in Attempts : /\ attempt[t].adult \in adults
                    /\ attempt[t].status = "verified"
                    /\ attempt[t].environment = environment
                    /\ environment = "production" \/ TestEvidence}

\* _record_consent reads the evidence first (the newest; which one is not told
\* apart here), then writes the record unless there is one by then.
BeginConsent(c, a) ==
  /\ At(c, "idle")
  /\ ~ account[a].signed
  /\ \E e \in IF Usable({a}) = {} THEN {NoAttempt} ELSE Usable({a}) :
       call' = [call EXCEPT ![c] = [stage |-> "signing", adult |-> a, attempt |-> e]]
  /\ UNCHANGED <<now, environment, db, kws>>

RecordConsent(c) ==
  LET a == call[c].adult
  IN  /\ At(c, "signing") /\ Grants(a, "no key update")
      /\ account' = IF account[a].signed THEN account
                    ELSE [account EXCEPT ![a] = [signed |-> TRUE, evidence |-> call[c].attempt]]
      /\ End(c)
      /\ UNCHANGED <<now, environment, attempt, profiles, kws>>

Signed == {a \in Adult : account[a].signed}

\* create_profile: the guardian's own record and the guardian's own verification.
CreateProfile(a) ==
  /\ a \in Signed /\ Usable({a}) /= {}
  /\ profiles < MaxProfiles /\ profiles' = profiles + 1
  /\ UNCHANGED <<now, environment, attempt, account, call, kws>>

\* Fault: one adult signed, and one, perhaps another, is verified.
FamilyGateApart == Signed /= {} /\ Usable(Adult) /= {}

\* _require_family_consent: one of those who signed is verified.
FamilyGate == Signed /= {} /\ Usable(Signed) /= {}

\* create_admin_profile.
CreateAdminProfile ==
  /\ FamilyGate
  /\ profiles < MaxProfiles /\ profiles' = profiles + 1
  /\ UNCHANGED <<now, environment, attempt, account, call, kws>>

Tick == now < MaxTime /\ now' = now + 1 /\ UNCHANGED <<environment, db, call, kws>>

\* A restart ends every request where it stands; a deployment may go live with it.
Restart ==
  /\ call' = [c \in Call |-> Idle]
  /\ environment' \in {environment, "production"}
  /\ UNCHANGED <<now, db, kws>>

Step(c) ==
  CheckLimits(c) \/ RecordAttempt(c) \/ Send(c) \/ ResolveAsSendFailed(c) \/ RecordConsent(c)

Next ==
  \/ \E c \in Call, a \in Adult : BeginStart(c, a) \/ BeginConsent(c, a)
  \/ \E c \in Call : Step(c)
  \/ \E t \in Attempts, v \in Verdict : Receive(t, v)
  \/ \E a \in Adult : CreateProfile(a)
  \/ CreateAdminProfile
  \/ Tick
  \/ Restart

Spec == Init /\ [][Next]_vars

TypeOK ==
  /\ now \in 0 .. MaxTime /\ environment \in {"test", "production"}
  /\ attempt \in Seq([adult : Adult, environment : {"test", "production"},
                      status : Verdict \cup {"sent", "send_failed"}, requestedAt : 0 .. MaxTime])
  /\ account \in [Adult -> [signed : BOOLEAN, evidence : {NoAttempt} \cup Attempts]]
  /\ profiles \in 0 .. MaxProfiles
  /\ call \in [Call -> [stage : Holding \cup {"idle", "signing"}, adult : Adult \cup {Nobody},
                        attempt : {NoAttempt} \cup Attempts]]
  /\ mailed \subseteq Attempts /\ verdicts \subseteq mailed \X Verdict

(***************************************************************************)
(* A parent is mailed a second time while a first mail awaits its answer   *)
(* only when the first is older than the window, however starts overlap,   *)
(* fail or are cut short (the 409 of start_kws_verification).              *)
(***************************************************************************)
OneOpenMail ==
  \A t, u \in Attempts :
    /\ t < u /\ attempt[t].adult = attempt[u].adult
    /\ attempt[t].environment = attempt[u].environment
    /\ attempt[t].status = "sent" /\ attempt[u].status = "sent"
    => attempt[u].requestedAt - attempt[t].requestedAt > OpenWindow

(***************************************************************************)
(* No hour has more attempts of one adult than the cap, whatever became of *)
(* them (the 429 of start_kws_verification).                               *)
(***************************************************************************)
MailIsBounded ==
  \A u \in Attempts :
    Cardinality({t \in 1 .. u : /\ attempt[t].adult = attempt[u].adult
                                /\ attempt[t].requestedAt >= attempt[u].requestedAt - Hour})
      <= HourlyCap

\* Both limits of start_kws_verification hold for what was sent.
MailIsLimited == OneOpenMail /\ MailIsBounded

(***************************************************************************)
(* What KWS says is not lost: an answer it had a 200 for is in its row, be *)
(* the mail known to be out or thought to have failed, unless the attempt  *)
(* was the other environment's (record_parent_verified).                   *)
(***************************************************************************)
AnswersAreKept ==
  \A a \in verdicts : Delivered(a[1]) \/ attempt[a[1]].environment /= environment

(***************************************************************************)
(* The first answer stands: no later one, no repetition and no send that   *)
(* is given up rewrites it.                                                *)
(***************************************************************************)
AnswersStand ==
  [][\A t \in Attempts : Delivered(t) => attempt'[t] = attempt[t]]_vars

(***************************************************************************)
(* The evidence a consent record names is an attempt of the adult who      *)
(* signed that KWS passed, and still says so (_record_consent).            *)
(***************************************************************************)
EvidenceHolds ==
  \A a \in Adult :
    LET e == account[a].evidence
    IN  e /= NoAttempt => /\ account[a].signed /\ attempt[e].adult = a
                          /\ attempt[e].status = "verified" /\ <<e, "verified">> \in verdicts

\* Rows and requests have their types, and the evidence that is named holds.
ConsentInv == TypeOK /\ EvidenceHolds

(***************************************************************************)
(* A consent record is written once, whoever signs twice at the same time. *)
(***************************************************************************)
ConsentStands ==
  [][\A a \in Signed : account'[a] = account[a]]_vars

\* Neither kind of record is rewritten once it says something.
RecordsStand == AnswersStand /\ ConsentStands

(***************************************************************************)
(* A child has a profile only if one and the same adult of the family has  *)
(* signed and was passed by KWS, in the environment that is live now.      *)
(***************************************************************************)
ProfilesNeedAParent ==
  [][profiles' /= profiles =>
       \E t \in mailed : /\ attempt[t].adult \in Signed
                         /\ attempt[t].environment = environment
                         /\ <<t, "verified">> \in verdicts]_vars

(***************************************************************************)
(* A start never waits for the row it holds itself: the session that       *)
(* commits its attempt gets the key share of the foreign key, and a start  *)
(* that has been let through can always write its attempt down.            *)
(***************************************************************************)
StartsGoThrough ==
  \A c \in Call : At(c, "allowed") => ENABLED RecordAttempt(c)
=============================================================================
