------------------------- MODULE OrchestratorProofs -------------------------
(***************************************************************************)
(* What Orchestrator guarantees for every set of documents, every verdict  *)
(* of the gate and every budget: its type, that the model is asked a       *)
(* bounded number of times, and what the status and the keeping of a story *)
(* mean.                                                                   *)
(***************************************************************************)
EXTENDS Orchestrator, TLAPS

-----------------------------------------------------------------------------
(***************************************************************************)
(* Which actions change what.                                              *)
(***************************************************************************)
LEMMA WayFrame == [Next]_vars => UNCHANGED way
BY DEF Next, vars, Structure, Prose, Fill, Repair, NoRoom, BatchMerged, BatchRejected,
       Filled, Enter, DecideBlocked, DecideSettled, DecideFidelity, LevelPass, LevelDone,
       Splice, Build, Reinsert, Raise

LEMMA WorkFrame ==
  [Next]_vars =>
    \/ UNCHANGED work
    \/ NoRoom \/ BatchRejected
    \/ \E reply \in Reply : Structure(reply) \/ Prose(reply) \/ Fill(reply) \/ Repair(reply)
    \/ \E d \in Doc : Filled(d)
    \/ \E d, e \in Doc : Splice(d, e)
BY DEF Next, vars, BatchMerged, Enter, DecideBlocked, DecideSettled, DecideFidelity,
       LevelPass, LevelDone, Build, Reinsert, Raise

LEMMA LoopFrame ==
  [Next]_vars =>
    \/ UNCHANGED loop
    \/ Enter \/ DecideSettled
    \/ \E unfaithful \in BOOLEAN : DecideFidelity(unfaithful)
    \/ \E reply \in Reply : Repair(reply)
BY DEF Next, vars, Structure, Prose, Fill, NoRoom, BatchMerged, BatchRejected, Filled,
       DecideBlocked, LevelPass, LevelDone, Splice, Build, Reinsert, Raise

LEMMA ProgressFrame ==
  [Next]_vars =>
    UNCHANGED progress \/ BatchMerged \/ BatchRejected \/ \E d \in Doc : Filled(d)
BY DEF Next, vars, Structure, Prose, Fill, Repair, NoRoom, Enter, DecideBlocked,
       DecideSettled, DecideFidelity, LevelPass, LevelDone, Splice, Build, Reinsert, Raise

LEMMA LevelFrame ==
  [Next]_vars => UNCHANGED level \/ \E improves \in BOOLEAN : LevelPass(improves)
BY DEF Next, vars, Structure, Prose, Fill, Repair, NoRoom, BatchMerged, BatchRejected,
       Filled, Enter, DecideBlocked, DecideSettled, DecideFidelity, LevelDone, Splice,
       Build, Reinsert, Raise

LEMMA OutcomeFrame ==
  [Next]_vars => UNCHANGED outcome \/ Build \/ Raise \/ \E d \in Doc : Reinsert(d)
BY DEF Next, vars, Structure, Prose, Fill, Repair, NoRoom, BatchMerged, BatchRejected,
       Filled, Enter, DecideBlocked, DecideSettled, DecideFidelity, LevelPass, LevelDone,
       Splice

-----------------------------------------------------------------------------
(***************************************************************************)
(* The type, together with where a job is: the draft of its path comes     *)
(* first, nothing is repaired or revised before it, and a repair is begun  *)
(* only within the budget.                                                 *)
(***************************************************************************)
Drafting == {"structure", "prose", "fill", "batches"}

PhaseInv ==
  /\ stage \in {"structure", "prose"} => path = "brief"
  /\ stage = "fill" => path = "fill"
  /\ stage = "batches" => path = "batches" /\ progress.merged < Batches
  /\ stage \in Drafting => attempts = 0 /\ level.passes = 0
  /\ stage = "repair" => attempts < Budget

TypeInv == TypeOK /\ PhaseInv

WayType == path \in {"brief", "fill", "batches"} /\ armed \in BOOLEAN /\ bound \in BOOLEAN
WorkType == /\ doc \in Reply /\ judged \in Reply /\ context \in {"skeleton", "fill_result"}
            /\ Blocked \/ judged = doc
Signature == (SUBSET {"no story", "error", "directive"}) \X Reply
LoopType == /\ previous \in Signature /\ attempts \in 0 .. Budget
            /\ missed \in BOOLEAN /\ checked \in Reply
ProgressType == progress \in [merged : 0 .. Batches, retries : 0 .. MaxRetries]
LevelType == level \in [passes : 0 .. MaxPasses, revised : BOOLEAN]
Outcomes == [status : {"none", "passed", "needs_review", "failed"}, doc : Reply,
             report : Reply, downgraded : BOOLEAN]

LEMMA TypeParts ==
  TypeOK <=> /\ WayType /\ stage \in Stages /\ WorkType /\ LoopType /\ ProgressType
             /\ LevelType /\ outcome \in Outcomes /\ calls \in Nat
BY DEF TypeOK, WayType, WorkType, Signature, LoopType, ProgressType, LevelType, Outcomes

\* A document that does not block is a document.
LEMMA FindingsType ==
  ASSUME NEW d, NEW posture
  PROVE  /\ Findings(d, posture) \in SUBSET {"no story", "error", "directive"}
         /\ d = NoDoc => Blocks(d, posture)
BY DEF Findings, Blocks

LEMMA BudgetType == Budget \in Nat
BY OrchestratorAssumption DEF OrchestratorAssumption, Budget

LEMMA SignatureType ==
  ASSUME NEW d, NEW posture, NEW e \in Reply
  PROVE  <<Findings(d, posture), e>> \in Signature /\ <<{}, e>> \in Signature
BY FindingsType DEF Signature

LEMMA NoOutcomeType == NoOutcome \in Outcomes
BY DEF NoOutcome, Outcomes, Reply

LEMMA InitTypeInv == Init => TypeInv
<1> SUFFICES ASSUME Init PROVE TypeInv
  OBVIOUS
<1>1. WayType /\ stage \in Stages /\ calls \in Nat
  BY DEF Init, WayType, Stages
<1>2. WorkType
  BY DEF Init, WorkType, Reply
<1>3. previous \in Signature
  <2>1. previous = <<{}, NoDoc>>
    BY DEF Init
  <2> QED  BY <2>1, SignatureType DEF Reply
<1>4. attempts \in 0 .. Budget
  <2>1. attempts = 0
    BY DEF Init
  <2> QED  BY <2>1, BudgetType
<1>5. missed \in BOOLEAN /\ checked \in Reply
  BY DEF Init, Reply
<1>6. progress = [merged |-> 0, retries |-> MaxRetries] /\ level = [passes |-> 0, revised |-> FALSE]
  BY DEF Init
<1>7. ProgressType /\ LevelType
  BY <1>6, OrchestratorAssumption DEF OrchestratorAssumption, ProgressType, LevelType
<1>8. outcome \in Outcomes
  BY NoOutcomeType DEF Init
<1>9. PhaseInv
  <2>1. stage \in Drafting /\ attempts = 0 /\ level.passes = 0 /\ progress.merged = 0
    BY <1>6 DEF Init, Drafting
  <2> QED  BY <2>1, OrchestratorAssumption DEF Init, PhaseInv, Drafting, OrchestratorAssumption
<1> QED  BY <1>1, <1>2, <1>3, <1>4, <1>5, <1>7, <1>8, <1>9, TypeParts DEF TypeInv, LoopType

LEMMA StepWorkType == TypeInv /\ [Next]_vars => WorkType'
<1> SUFFICES ASSUME TypeInv, [Next]_vars PROVE WorkType'
  OBVIOUS
<1>1. WorkType
  BY TypeParts DEF TypeInv
<1>2. CASE UNCHANGED work
  BY <1>1, <1>2 DEF work, WorkType, Blocked, Blocks, Findings
<1>3. ASSUME NEW reply \in Reply, Structure(reply) \/ Prose(reply) \/ Fill(reply) \/ Repair(reply)
      PROVE  WorkType'
  <2>1. judged' = reply /\ context' \in {"skeleton", "fill_result"}
    BY <1>3 DEF Structure, Prose, Fill, Repair, Ask
  <2>2. doc' \in Reply /\ (reply /= NoDoc => doc' = reply)
    BY <1>1, <1>3, OrchestratorAssumption
    DEF OrchestratorAssumption, Structure, Prose, Fill, Repair, WorkType, Reply
  <2>3. reply = NoDoc => Blocked'
    BY <2>1 DEF Blocked, Blocks, Findings
  <2> QED  BY <2>1, <2>2, <2>3 DEF WorkType
<1>4. CASE NoRoom \/ BatchRejected
  <2>1. UNCHANGED work \/ Abandon
    BY <1>4 DEF NoRoom, BatchRejected
  <2>2. CASE Abandon
    BY <2>2 DEF Abandon, WorkType, Reply
  <2> QED  BY <1>2, <2>1, <2>2
<1>5. ASSUME NEW d \in Doc, Filled(d) PROVE WorkType'
  BY <1>5 DEF Filled, Ask, WorkType, Reply
<1>6. ASSUME NEW d \in Doc, NEW e \in Doc, Splice(d, e) PROVE WorkType'
  <2>1. UNCHANGED work \/ Adopt(d) \/ Adopt(e)
    BY <1>6 DEF Splice
  <2>2. ASSUME NEW f \in Doc, Adopt(f) PROVE WorkType'
    BY <2>2 DEF Adopt, WorkType, Reply
  <2> QED  BY <1>2, <2>1, <2>2
<1> QED  BY <1>2, <1>3, <1>4, <1>5, <1>6, WorkFrame

LEMMA StepLoopType == TypeInv /\ [Next]_vars => LoopType'
<1> SUFFICES ASSUME TypeInv, [Next]_vars PROVE LoopType'
  OBVIOUS
<1>1. LoopType /\ WorkType /\ Budget' = Budget
  BY TypeParts, WayFrame DEF TypeInv, way, Budget
<1>2. CASE UNCHANGED loop
  BY <1>1, <1>2 DEF loop, LoopType, Signature, Reply
<1>3. CASE Enter
  <2>1. previous' \in Signature
    BY <1>1, <1>3, SignatureType DEF Enter, WorkType
  <2> QED  BY <1>1, <1>3, <2>1 DEF Enter, LoopType, Signature, Reply
<1>4. CASE DecideSettled
  BY <1>1, <1>4 DEF DecideSettled, LoopType, Signature, Reply
<1>5. ASSUME NEW unfaithful \in BOOLEAN, DecideFidelity(unfaithful) PROVE LoopType'
  BY <1>1, <1>5 DEF DecideFidelity, LoopType, WorkType, Signature, Reply
<1>6. ASSUME NEW reply \in Reply, Repair(reply) PROVE LoopType'
  <2>1. previous' \in Signature
    BY <1>6, SignatureType DEF Repair
  <2>2. attempts' \in 0 .. Budget
    <3>1. attempts < Budget /\ attempts' = attempts + 1
      BY <1>6 DEF Repair, TypeInv, PhaseInv
    <3> QED  BY <1>1, <3>1, BudgetType DEF LoopType
  <2> QED  BY <1>1, <1>6, <2>1, <2>2 DEF Repair, LoopType, Signature, Reply
<1> QED  BY <1>2, <1>3, <1>4, <1>5, <1>6, LoopFrame

LEMMA StepProgressType == TypeInv /\ [Next]_vars => ProgressType'
<1> SUFFICES ASSUME TypeInv, [Next]_vars PROVE ProgressType'
  OBVIOUS
<1>1. ProgressType
  BY TypeParts DEF TypeInv
<1>2. CASE UNCHANGED progress
  BY <1>1, <1>2 DEF ProgressType
<1>3. CASE BatchMerged
  BY <1>1, <1>3, OrchestratorAssumption DEF OrchestratorAssumption, BatchMerged, ProgressType
<1>4. CASE BatchRejected
  BY <1>1, <1>4, OrchestratorAssumption DEF OrchestratorAssumption, BatchRejected, ProgressType
<1>5. ASSUME NEW d \in Doc, Filled(d) PROVE ProgressType'
  BY <1>1, <1>5, OrchestratorAssumption DEF OrchestratorAssumption, Filled, ProgressType
<1> QED  BY <1>2, <1>3, <1>4, <1>5, ProgressFrame

LEMMA StepLevelType == TypeInv /\ [Next]_vars => LevelType'
<1> SUFFICES ASSUME TypeInv, [Next]_vars PROVE LevelType'
  OBVIOUS
<1>1. LevelType
  BY TypeParts DEF TypeInv
<1>2. CASE UNCHANGED level
  BY <1>1, <1>2 DEF LevelType
<1>3. ASSUME NEW improves \in BOOLEAN, LevelPass(improves) PROVE LevelType'
  <2>1. level' = [passes |-> level.passes + 1, revised |-> level.revised \/ improves]
        /\ level.passes < MaxPasses
    BY <1>3 DEF LevelPass
  <2>2. (level.revised \/ improves) \in BOOLEAN
    OBVIOUS
  <2> QED  BY <1>1, <2>1, <2>2, OrchestratorAssumption DEF OrchestratorAssumption, LevelType
<1> QED  BY <1>2, <1>3, LevelFrame

LEMMA StepOutcomeType == TypeInv /\ [Next]_vars => outcome' \in Outcomes
<1> SUFFICES ASSUME TypeInv, [Next]_vars PROVE outcome' \in Outcomes
  OBVIOUS
<1>1. outcome \in Outcomes /\ WorkType
  BY TypeParts DEF TypeInv
<1>2. CASE Build
  <2>1. Verdict \in {"passed", "needs_review", "failed"}
    BY DEF Verdict
  <2>2. CASE Unfilled
    <3>1. outcome' = [status |-> "failed", doc |-> NoDoc, report |-> judged, downgraded |-> FALSE]
      BY <1>2, <2>2 DEF Build, NoOutcome
    <3> QED  BY <1>1, <3>1 DEF WorkType, Outcomes, Reply
  <2>3. CASE ~ Unfilled
    <3> DEFINE down == Verdict = "passed" /\ (missed \/ Short)
    <3>1. outcome' = [status |-> IF down THEN "needs_review" ELSE Verdict,
                      doc |-> doc, report |-> judged, downgraded |-> down]
      BY <1>2, <2>3 DEF Build
    <3>2. down \in BOOLEAN
      OBVIOUS
    <3> HIDE DEF down
    <3> QED  BY <1>1, <2>1, <3>1, <3>2 DEF WorkType, Outcomes
  <2> QED  BY <2>2, <2>3
<1>3. CASE Raise
  BY <1>3, NoOutcomeType DEF Raise
<1>4. ASSUME NEW d \in Doc, Reinsert(d) PROVE outcome' \in Outcomes
  <2>1. CASE d = outcome.doc
    BY <1>1, <1>4, <2>1 DEF Reinsert
  <2>2. CASE d /= outcome.doc
    <3> DEFINE down == outcome.downgraded /\ Clean(d)
    <3>1. outcome' = [status |-> IF Clean(d) THEN outcome.status ELSE "needs_review",
                      doc |-> d, report |-> d, downgraded |-> down]
      BY <1>4, <2>2 DEF Reinsert
    <3>2. down \in BOOLEAN
      OBVIOUS
    <3> HIDE DEF down
    <3> QED  BY <1>1, <3>1, <3>2 DEF Outcomes, Reply
  <2> QED  BY <2>1, <2>2
<1> QED  BY <1>1, <1>2, <1>3, <1>4, OutcomeFrame

LEMMA StepStageAndCalls ==
  TypeInv /\ [Next]_vars => WayType' /\ stage' \in Stages /\ calls' \in Nat
<1> SUFFICES ASSUME TypeInv, [Next]_vars PROVE WayType' /\ stage' \in Stages /\ calls' \in Nat
  OBVIOUS
<1>1. WayType /\ stage \in Stages /\ calls \in Nat
  BY TypeParts DEF TypeInv
<1>2. WayType'
  BY <1>1, WayFrame DEF way, WayType
<1>3. calls' \in {calls, calls + 1}
  BY DEF Next, vars, Structure, Prose, Fill, Repair, Ask, NoRoom, BatchMerged, BatchRejected,
         Filled, Enter, DecideBlocked, DecideSettled, DecideFidelity, LevelPass, LevelDone,
         Splice, Build, Reinsert, Raise
<1>4. stage' \in Stages
  BY <1>1 DEF Stages, Next, vars, Structure, Prose, Fill, Repair, NoRoom, Abandon, BatchMerged,
         BatchRejected, Filled, Enter, DecideBlocked, DecideSettled, DecideFidelity,
         LevelPass, Measured, LevelDone, Splice, Build, Reinsert, Raise
<1> QED  BY <1>1, <1>2, <1>3, <1>4

LEMMA StepPhaseInv == TypeInv /\ [Next]_vars => PhaseInv'
<1> SUFFICES ASSUME TypeInv, [Next]_vars PROVE PhaseInv'
  OBVIOUS
<1>1. PhaseInv /\ path' = path /\ Budget' = Budget
  BY WayFrame DEF TypeInv, way, Budget
<1>2. CASE stage' \notin Drafting \cup {"repair"}
  BY <1>2 DEF PhaseInv, Drafting
<1>3. CASE UNCHANGED <<stage, attempts, level, progress>>
  BY <1>1, <1>3 DEF PhaseInv, Drafting
<1>4. stage' = "repair" => \/ stage = "decide" /\ attempts < Budget /\ attempts' = attempts
                           \/ UNCHANGED <<stage, attempts, level, progress>>
  BY DEF Next, vars, loop, Structure, Prose, Fill, Repair, NoRoom, Abandon, BatchMerged,
         BatchRejected, Filled, Enter, DecideBlocked, DecideSettled, DecideFidelity,
         LevelPass, Measured, LevelDone, Splice, Build, Reinsert, Raise
<1>5. CASE stage' = "repair"
  BY <1>1, <1>3, <1>4, <1>5 DEF PhaseInv, Drafting
<1>6. CASE stage' \in Drafting
  <2>1. \/ UNCHANGED <<stage, attempts, level, progress>>
        \/ \E reply \in Reply : Structure(reply)
        \/ BatchMerged \/ BatchRejected
    BY <1>6 DEF Drafting, Next, vars, loop, Prose, Fill, Repair, NoRoom, Abandon,
         Filled, Enter, DecideBlocked, DecideSettled, DecideFidelity,
         LevelPass, Measured, LevelDone, Splice, Build, Reinsert, Raise
  <2>2. ASSUME NEW reply \in Reply, Structure(reply) PROVE PhaseInv'
    <3>1. stage = "structure" /\ stage' = "prose" /\ attempts' = attempts /\ level' = level
      BY <1>6, <2>2 DEF Structure, Drafting, loop
    <3> QED  BY <1>1, <3>1 DEF PhaseInv, Drafting
  <2>3. CASE BatchMerged
    <3>1. /\ stage = "batches" /\ stage' = stage /\ attempts' = attempts /\ level' = level
          /\ progress.merged + 1 < Batches
          /\ progress' = [progress EXCEPT !.merged = @ + 1]
      BY <2>3 DEF BatchMerged, loop
    <3>2. ProgressType
      BY TypeParts DEF TypeInv
    <3>3. progress'.merged < Batches
      BY <3>1, <3>2 DEF ProgressType
    <3> QED  BY <1>1, <3>1, <3>3 DEF PhaseInv, Drafting
  <2>4. CASE BatchRejected
    <3>1. /\ stage = "batches" /\ stage' = stage /\ attempts' = attempts /\ level' = level
          /\ progress' = [progress EXCEPT !.retries = @ - 1] \/ progress' = progress
      BY <1>6, <2>4 DEF BatchRejected, Abandon, Drafting, loop
    <3>2. ProgressType
      BY TypeParts DEF TypeInv
    <3>3. progress'.merged = progress.merged
      BY <3>1, <3>2 DEF ProgressType
    <3> QED  BY <1>1, <3>1, <3>3 DEF PhaseInv, Drafting
  <2> QED  BY <1>3, <2>1, <2>2, <2>3, <2>4
<1> QED  BY <1>2, <1>5, <1>6

LEMMA StepTypeInv == TypeInv /\ [Next]_vars => TypeInv'
<1>1. TypeOK' <=> /\ WayType' /\ stage' \in Stages /\ WorkType' /\ LoopType' /\ ProgressType'
                  /\ LevelType' /\ outcome' \in Outcomes /\ calls' \in Nat
  BY DEF TypeOK, WayType, WorkType, Signature, LoopType, ProgressType, LevelType, Outcomes
<1> QED
  BY <1>1, StepStageAndCalls, StepWorkType, StepLoopType, StepProgressType, StepLevelType,
     StepOutcomeType, StepPhaseInv DEF TypeInv

\* Every variable keeps its type, and a gate result that does not block is the document's.
THEOREM TypeCorrect == Spec => []TypeOK
<1>1. TypeInv => TypeOK
  BY DEF TypeInv
<1> QED  BY <1>1, InitTypeInv, StepTypeInv, PTL DEF Spec

-----------------------------------------------------------------------------
(***************************************************************************)
(* How often the model has been asked: by the draft, once for each repair  *)
(* and once for each pass.                                                 *)
(***************************************************************************)
SpendInv ==
  /\ stage \in {"structure", "fill"} => calls = 0
  /\ stage = "prose" => calls = 1
  /\ stage = "batches" => calls = progress.merged + (MaxRetries - progress.retries)
  /\ stage \notin Drafting => calls <= Drafts + attempts + level.passes

LEMMA DraftsValue ==
  /\ path = "brief" => Drafts = 2
  /\ path = "fill" => Drafts = 1
  /\ path = "batches" => Drafts = Batches + MaxRetries
BY DEF Drafts

LEMMA DraftsType == WayType => Drafts \in Nat
BY DraftsValue, OrchestratorAssumption DEF OrchestratorAssumption, WayType

LEMMA InitSpendInv == Init => SpendInv
<1> SUFFICES ASSUME Init PROVE SpendInv
  OBVIOUS
<1>1. stage \in {"structure", "fill", "batches"} /\ calls = 0
      /\ progress.merged = 0 /\ progress.retries = MaxRetries
  BY DEF Init
<1> QED  BY <1>1, OrchestratorAssumption DEF SpendInv, Drafting, OrchestratorAssumption

\* Neither the spend nor a budget's use changes but by an action that asks.
LEMMA StepSpendInv == TypeInv /\ SpendInv /\ [Next]_vars => SpendInv'
<1> SUFFICES ASSUME TypeInv, SpendInv, [Next]_vars PROVE SpendInv'
  OBVIOUS
<1>1. /\ WayType /\ ProgressType /\ attempts \in Nat /\ level.passes \in Nat /\ calls \in Nat
      /\ Drafts \in Nat /\ Drafts' = Drafts /\ path' = path /\ PhaseInv
      /\ Batches \in Nat \ {0} /\ MaxRetries \in Nat
  <2>1. WayType /\ ProgressType /\ LoopType /\ LevelType /\ calls \in Nat /\ PhaseInv
    BY TypeParts DEF TypeInv
  <2>2. attempts \in Nat /\ level.passes \in Nat
    BY <2>1, BudgetType, OrchestratorAssumption DEF OrchestratorAssumption, LoopType, LevelType
  <2> QED
    BY <2>1, <2>2, DraftsType, WayFrame, OrchestratorAssumption
    DEF OrchestratorAssumption, way, Drafts
<1>2. CASE UNCHANGED <<calls, attempts, level>> /\ stage \notin Drafting /\ stage' \notin Drafting
  BY <1>1, <1>2 DEF SpendInv, Drafting
<1>3. ASSUME NEW reply \in Reply, Structure(reply) PROVE SpendInv'
  <2>1. /\ stage = "structure" /\ stage' \in {"prose", "enter"} /\ calls' = calls + 1
        /\ attempts' = attempts /\ level' = level
    BY <1>3 DEF Structure, Ask, loop
  <2> QED  BY <1>1, <2>1, DraftsValue DEF SpendInv, PhaseInv, Drafting
<1>4. ASSUME NEW reply \in Reply, Prose(reply) \/ Fill(reply) PROVE SpendInv'
  <2>1. /\ stage \in {"prose", "fill"} /\ stage' = "enter" /\ calls' = calls + 1
        /\ attempts' = attempts /\ level' = level
    BY <1>4 DEF Prose, Fill, Ask, loop
  <2> QED  BY <1>1, <2>1, DraftsValue DEF SpendInv, PhaseInv, Drafting
<1>5. ASSUME NEW reply \in Reply, Repair(reply) PROVE SpendInv'
  <2>1. /\ stage = "repair" /\ stage' \in {"level", "decide"} /\ calls' = calls + 1
        /\ attempts' = attempts + 1 /\ level' = level
    BY <1>5 DEF Repair, Ask
  <2> QED  BY <1>1, <2>1 DEF SpendInv, Drafting
<1>6. CASE NoRoom
  <2>1. /\ stage = "batches" /\ stage' = "build" /\ calls' = calls
        /\ attempts' = attempts /\ level' = level
    BY <1>6 DEF NoRoom, Abandon, loop
  <2> QED  BY <1>1, <2>1, DraftsValue DEF SpendInv, PhaseInv, Drafting, ProgressType
<1>7. CASE BatchMerged
  <2>1. /\ stage = "batches" /\ stage' = stage /\ calls' = calls + 1
        /\ progress' = [progress EXCEPT !.merged = @ + 1]
    BY <1>7 DEF BatchMerged
  <2>2. progress'.merged = progress.merged + 1 /\ progress'.retries = progress.retries
    BY <1>1, <2>1 DEF ProgressType
  <2> QED  BY <1>1, <2>1, <2>2 DEF SpendInv, Drafting, ProgressType
<1>8. ASSUME NEW d \in Doc, Filled(d) PROVE SpendInv'
  <2>1. /\ stage = "batches" /\ stage' = "enter" /\ calls' = calls + 1
        /\ progress.merged + 1 = Batches /\ attempts' = attempts /\ level' = level
    BY <1>8 DEF Filled, Ask, loop
  <2> QED  BY <1>1, <2>1, DraftsValue DEF SpendInv, PhaseInv, Drafting, ProgressType
<1>9. CASE BatchRejected
  <2>1. stage = "batches" /\ calls' = calls + 1 /\ attempts' = attempts /\ level' = level
    BY <1>9 DEF BatchRejected, loop
  <2>2. CASE progress.retries > 0
    <3>1. stage' = stage /\ progress' = [progress EXCEPT !.retries = @ - 1]
      BY <1>9, <2>2 DEF BatchRejected
    <3>2. progress'.merged = progress.merged /\ progress'.retries = progress.retries - 1
      BY <1>1, <3>1 DEF ProgressType
    <3> QED  BY <1>1, <2>1, <3>1, <3>2 DEF SpendInv, Drafting, ProgressType
  <2>3. CASE ~ (progress.retries > 0)
    <3>1. stage' = "build"
      BY <1>9, <2>3 DEF BatchRejected, Abandon
    <3>2. progress.retries = 0 /\ progress.merged < Batches
      BY <1>1, <2>1, <2>3 DEF ProgressType, PhaseInv
    <3> QED  BY <1>1, <2>1, <3>1, <3>2, DraftsValue DEF SpendInv, PhaseInv, Drafting, ProgressType
  <2> QED  BY <2>2, <2>3
<1>10. ASSUME NEW improves \in BOOLEAN, LevelPass(improves) PROVE SpendInv'
  <2>1. /\ stage = "level" /\ stage' \in {"level", "splice", "build"} /\ calls' = calls + 1
        /\ attempts' = attempts /\ level'.passes = level.passes + 1
    BY <1>10 DEF LevelPass, Measured, loop
  <2> QED  BY <1>1, <2>1 DEF SpendInv, Drafting
<1>11. CASE Enter \/ DecideBlocked \/ DecideSettled \/ LevelDone \/ Build
            \/ (\E unfaithful \in BOOLEAN : DecideFidelity(unfaithful))
            \/ \E d, e \in Doc : Splice(d, e) \/ Reinsert(d)
  <2>1. UNCHANGED <<calls, attempts, level>> /\ stage \notin Drafting /\ stage' \notin Drafting
    BY <1>11 DEF Enter, DecideBlocked, DecideSettled, DecideFidelity, LevelDone, Measured,
                 Splice, Build, Reinsert, loop, Drafting
  <2> QED  BY <1>2, <2>1
<1>12. CASE Raise
  <2>1. stage' = "raised" /\ UNCHANGED <<calls, attempts, level>>
    BY <1>12 DEF Raise, loop
  <2> QED  BY <1>1, <2>1, DraftsValue DEF SpendInv, PhaseInv, Drafting, ProgressType, WayType
<1>13. CASE UNCHANGED vars
  BY <1>1, <1>13 DEF vars, SpendInv, Drafting, loop
<1> QED
  BY <1>3, <1>4, <1>5, <1>6, <1>7, <1>8, <1>9, <1>10, <1>11, <1>12, <1>13 DEF Next

\* However the models answer, one job asks them only so often.
THEOREM SpendBounded == Spec => []SpendIsBounded
<1>1. TypeInv /\ SpendInv => SpendIsBounded
  <2> SUFFICES ASSUME TypeInv, SpendInv PROVE SpendIsBounded
    OBVIOUS
  <2>1. /\ WayType /\ ProgressType /\ LoopType /\ LevelType /\ PhaseInv /\ calls \in Nat
        /\ Drafts \in Nat /\ Budget \in Nat
    BY TypeParts, DraftsType, BudgetType DEF TypeInv
  <2>2. CASE stage \in Drafting
    BY <2>1, <2>2, DraftsValue, OrchestratorAssumption
    DEF OrchestratorAssumption, SpendIsBounded, SpendInv, PhaseInv, Drafting, ProgressType
  <2>3. CASE stage \notin Drafting
    <3>1. attempts \in 0 .. Budget /\ level.passes \in 0 .. MaxPasses
      BY <2>1 DEF LoopType, LevelType
    <3> QED  BY <2>1, <2>3, <3>1, OrchestratorAssumption
             DEF OrchestratorAssumption, SpendIsBounded, SpendInv
  <2> QED  BY <2>2, <2>3
<1> QED
  BY <1>1, InitTypeInv, StepTypeInv, InitSpendInv, StepSpendInv, PTL DEF Spec

-----------------------------------------------------------------------------
(***************************************************************************)
(* What an outcome is worth.  Once the draft is there, a result that does  *)
(* not block is that of a fill; and what becomes of an outcome after it is *)
(* built never makes it better than the gate's last word.                  *)
(***************************************************************************)
JudgedAsFill ==
  stage \notin Drafting \cup {"raised"} /\ ~ Blocked => context = "fill_result"

OutcomeInv ==
  /\ stage \notin {"reinsert", "done"} => outcome = NoOutcome
  /\ stage = "reinsert" => outcome.doc /= NoDoc
  /\ Kept => Clean(outcome.doc) /\ outcome.report = outcome.doc /\ Clean(judged)

GateInv == JudgedAsFill /\ OutcomeInv

LEMMA NothingKept == outcome = NoOutcome => ~ Kept
BY DEF NoOutcome, Kept

LEMMA InitGateInv == Init => GateInv
BY NothingKept DEF Init, GateInv, JudgedAsFill, OutcomeInv, Drafting

LEMMA StepJudgedAsFill == TypeInv /\ GateInv /\ [Next]_vars => JudgedAsFill'
<1> SUFFICES ASSUME TypeInv, GateInv, [Next]_vars PROVE JudgedAsFill'
  OBVIOUS
<1>1. ASSUME UNCHANGED <<judged, context>>, stage \notin Drafting \cup {"raised"}
      PROVE  JudgedAsFill'
  BY <1>1 DEF GateInv, JudgedAsFill, Blocked, Blocks, Findings
<1>2. CASE context' = "fill_result" \/ stage' \in Drafting \cup {"raised"}
  BY <1>2 DEF JudgedAsFill
<1>3. ASSUME NEW reply \in Reply, Structure(reply) PROVE JudgedAsFill'
  <2>1. CASE Blocks(reply, "skeleton")
    <3>1. Blocked'
      <4>1. judged' = reply /\ context' = "skeleton"
        BY <1>3 DEF Structure, Ask
      <4> QED  BY <2>1, <4>1 DEF Blocked, Blocks, Findings
    <3> QED  BY <3>1 DEF JudgedAsFill
  <2>2. CASE ~ Blocks(reply, "skeleton")
    BY <1>2, <1>3, <2>2 DEF Structure, Drafting
  <2> QED  BY <2>1, <2>2
<1>4. ASSUME NEW reply \in Reply, Prose(reply) \/ Fill(reply) \/ Repair(reply)
      PROVE  JudgedAsFill'
  BY <1>2, <1>4 DEF Prose, Fill, Repair, Ask
<1>5. CASE NoRoom \/ BatchMerged
  BY <1>2, <1>5 DEF NoRoom, BatchMerged, Abandon, Drafting
<1>6. CASE BatchRejected
  BY <1>2, <1>6 DEF BatchRejected, Abandon, Drafting
<1>7. ASSUME NEW d \in Doc, Filled(d) PROVE JudgedAsFill'
  BY <1>2, <1>7 DEF Filled, Ask
<1>8. CASE Enter \/ DecideBlocked \/ DecideSettled \/ LevelDone \/ Build
           \/ (\E yes \in BOOLEAN : DecideFidelity(yes) \/ LevelPass(yes))
           \/ \E d \in Doc : Reinsert(d)
  BY <1>1, <1>8 DEF Enter, DecideBlocked, DecideSettled, DecideFidelity, LevelPass, LevelDone,
                    Build, Reinsert, work, Drafting
<1>9. ASSUME NEW d \in Doc, NEW e \in Doc, Splice(d, e) PROVE JudgedAsFill'
  BY <1>1, <1>2, <1>9 DEF Splice, Adopt, work, Drafting
<1>10. CASE Raise
  BY <1>2, <1>10 DEF Raise
<1>11. CASE UNCHANGED vars
  BY <1>1, <1>2, <1>11 DEF vars, work, Drafting
<1> QED
  BY <1>3, <1>4, <1>5, <1>6, <1>7, <1>8, <1>9, <1>10, <1>11 DEF Next

\* At the end, what is not blocked is a document that is clean but for its flags.
LEMMA UnblockedIsClean ==
  ASSUME TypeInv, GateInv, stage = "build", ~ Blocked, judged \notin Flagged
  PROVE  judged = doc /\ Clean(judged)
<1>1. WorkType
  BY TypeParts DEF TypeInv
<1>2. context = "fill_result"
  BY DEF GateInv, JudgedAsFill, Drafting
<1> QED  BY <1>1, <1>2 DEF WorkType, Blocked, Clean

LEMMA BuildOutcome ==
  ASSUME TypeInv, GateInv, Build
  PROVE  /\ Kept' => Clean(outcome'.doc) /\ outcome'.report = outcome'.doc /\ Clean(judged)
         /\ stage' \in {"reinsert", "done"}
         /\ stage' = "reinsert" => outcome'.doc /= NoDoc
<1>1. stage = "build" /\ UNCHANGED work
  BY DEF Build
<1>2. stage' = IF bound /\ outcome'.doc /= NoDoc THEN "reinsert" ELSE "done"
  BY DEF Build
<1>3. CASE Unfilled
  <2>1. outcome'.status = "failed"
    BY <1>3 DEF Build, NoOutcome
  <2> QED  BY <1>2, <2>1 DEF Kept
<1>4. CASE ~ Unfilled
  <2> DEFINE down == Verdict = "passed" /\ (missed \/ Short)
  <2>1. outcome' = [status |-> IF down THEN "needs_review" ELSE Verdict,
                    doc |-> doc, report |-> judged, downgraded |-> down]
    BY <1>4 DEF Build
  <2>2. Kept' => Verdict = "passed"
    <3>1. outcome'.status = (IF down THEN "needs_review" ELSE Verdict) /\ outcome'.downgraded = down
      BY <2>1
    <3> QED  BY <3>1 DEF Kept
  <2>3. Verdict = "passed" => ~ Blocked /\ judged \notin Flagged
    BY DEF Verdict
  <2>4. outcome'.doc = doc /\ outcome'.report = judged
    BY <2>1
  <2> QED  BY <1>1, <1>2, <2>2, <2>3, <2>4, UnblockedIsClean
<1> QED  BY <1>3, <1>4

LEMMA StepOutcomeInv == TypeInv /\ GateInv /\ [Next]_vars => OutcomeInv'
<1> SUFFICES ASSUME TypeInv, GateInv, [Next]_vars PROVE OutcomeInv'
  OBVIOUS
<1>1. OutcomeInv
  BY DEF GateInv
<1>2. CASE Build
  <2>1. judged' = judged /\ Clean(judged)' = Clean(judged) /\ Clean(outcome.doc)' = Clean(outcome'.doc)
    BY <1>2 DEF Build, work, Clean, Blocks, Findings
  <2> QED  BY <1>2, <2>1, BuildOutcome DEF OutcomeInv
<1>3. CASE Raise
  <2>1. outcome' = NoOutcome /\ stage' = "raised"
    BY <1>3 DEF Raise
  <2>2. ~ Kept'
    BY <2>1 DEF Kept, NoOutcome
  <2> QED  BY <2>1, <2>2 DEF OutcomeInv, NoOutcome
<1>4. ASSUME NEW d \in Doc, Reinsert(d) PROVE OutcomeInv'
  <2>1. stage = "reinsert" /\ stage' = "done" /\ judged' = judged /\ outcome.doc /= NoDoc
    BY <1>1, <1>4 DEF Reinsert, work, OutcomeInv
  <2>2. Clean(judged)' = Clean(judged) /\ Clean(outcome.doc)' = Clean(outcome'.doc)
    BY <2>1 DEF Clean, Blocks, Findings
  <2>3. CASE d = outcome.doc
    <3>1. outcome' = outcome
      BY <1>4, <2>3 DEF Reinsert
    <3> QED  BY <1>1, <2>1, <2>2, <3>1 DEF OutcomeInv, Kept
  <2>4. CASE d /= outcome.doc
    <3> DEFINE down == outcome.downgraded /\ Clean(d)
    <3>1. outcome' = [status |-> IF Clean(d) THEN outcome.status ELSE "needs_review",
                      doc |-> d, report |-> d, downgraded |-> down]
      BY <1>4, <2>4 DEF Reinsert
    <3>2. /\ outcome'.doc = d /\ outcome'.report = d /\ outcome'.downgraded = down
          /\ outcome'.status = IF Clean(d) THEN outcome.status ELSE "needs_review"
      BY <3>1
    <3>3. Kept' => Clean(d) /\ Kept
      BY <2>1, <3>2 DEF Kept
    <3> QED  BY <1>1, <2>1, <2>2, <3>2, <3>3 DEF OutcomeInv
  <2> QED  BY <2>3, <2>4
<1>5. CASE UNCHANGED outcome /\ stage \notin {"reinsert", "done"} /\ stage' \notin {"reinsert", "done"}
  <2>1. outcome' = NoOutcome
    BY <1>1, <1>5 DEF OutcomeInv
  <2>2. ~ Kept'
    BY <2>1 DEF Kept, NoOutcome
  <2> QED  BY <1>5, <2>1, <2>2 DEF OutcomeInv, NoOutcome
<1>6. CASE UNCHANGED vars
  <2>1. Clean(judged)' = Clean(judged) /\ Clean(outcome.doc)' = Clean(outcome.doc)
    BY <1>6 DEF vars, work, Clean, Blocks, Findings
  <2> QED  BY <1>1, <1>6, <2>1 DEF OutcomeInv, vars, Kept
<1>7. \/ Build \/ Raise \/ (\E d \in Doc : Reinsert(d)) \/ UNCHANGED vars
      \/ UNCHANGED outcome /\ stage \notin {"reinsert", "done"} /\ stage' \notin {"reinsert", "done"}
  BY DEF Next, Structure, Prose, Fill, Repair, NoRoom, Abandon, BatchMerged, BatchRejected,
         Filled, Enter, DecideBlocked, DecideSettled, DecideFidelity, LevelPass, Measured,
         LevelDone, Splice
<1> QED  BY <1>2, <1>3, <1>4, <1>5, <1>6, <1>7

LEMMA StepGateInv == TypeInv /\ GateInv /\ [Next]_vars => GateInv'
BY StepJudgedAsFill, StepOutcomeInv DEF GateInv

\* What is kept as a book the gate has cleared, and its report is of that very text.
THEOREM KeptIsClearedAlways == Spec => []KeptIsCleared
<1>1. GateInv => KeptIsCleared
  BY DEF GateInv, OutcomeInv, KeptIsCleared
<1> QED
  BY <1>1, InitTypeInv, StepTypeInv, InitGateInv, StepGateInv, PTL DEF Spec

-----------------------------------------------------------------------------
(***************************************************************************)
(* Three that rest on less.                                                *)
(***************************************************************************)
\* The step that puts sentinels back is taken for a bound skeleton, and is the last.
BoundInv == stage = "reinsert" => bound

LEMMA StepBoundInv == BoundInv /\ [Next]_vars => BoundInv'
<1> SUFFICES ASSUME BoundInv, [Next]_vars PROVE BoundInv'
  OBVIOUS
<1>1. bound' = bound
  BY WayFrame DEF way
<1>2. CASE Build
  BY <1>1, <1>2 DEF Build, BoundInv
<1>3. UNCHANGED stage \/ Build \/ stage' /= "reinsert"
  BY DEF Next, vars, Structure, Prose, Fill, Repair, NoRoom, Abandon, BatchMerged,
         BatchRejected, Filled, Enter, DecideBlocked, DecideSettled, DecideFidelity,
         LevelPass, Measured, LevelDone, Splice, Reinsert, Raise
<1> QED  BY <1>1, <1>2, <1>3 DEF BoundInv

LEMMA DoneStays == [Next]_vars /\ stage = "done" => stage' = "done" /\ UNCHANGED outcome
BY DEF Next, vars, Structure, Prose, Fill, Repair, NoRoom, BatchMerged, BatchRejected,
       Filled, Enter, DecideBlocked, DecideSettled, DecideFidelity, LevelPass, LevelDone,
       Splice, Build, Reinsert, Raise

\* The library's skeleton is never what fill_skeleton returns, whatever the gate says of
\* it; one that the sentinels' reinsertion restores is left to a person and not kept.
THEOREM SkeletonIsNoBookAlways == Spec => []SkeletonIsNoBook
<1>1. Init => BoundInv /\ SkeletonIsNoBook
  BY OrchestratorAssumption
     DEF OrchestratorAssumption, Init, NoOutcome, BoundInv, SkeletonIsNoBook
<1>2. BoundInv /\ SkeletonIsNoBook /\ [Next]_vars => SkeletonIsNoBook'
  <2> SUFFICES ASSUME BoundInv, SkeletonIsNoBook, [Next]_vars PROVE SkeletonIsNoBook'
    OBVIOUS
  <2>1. path' = path /\ bound' = bound
    BY WayFrame DEF way
  <2>2. CASE UNCHANGED outcome
    BY <2>1, <2>2, DoneStays DEF SkeletonIsNoBook, Kept
  <2>3. CASE Build
    <3>1. outcome'.doc = IF Unfilled THEN NoDoc ELSE doc
      <4>1. CASE Unfilled
        BY <2>3, <4>1 DEF Build, NoOutcome
      <4>2. CASE ~ Unfilled
        BY <2>3, <4>2 DEF Build
      <4> QED  BY <4>1, <4>2
    <3> QED  BY <2>1, <3>1, OrchestratorAssumption
             DEF OrchestratorAssumption, SkeletonIsNoBook, Unfilled
  <2>4. CASE Raise
    BY <2>4, OrchestratorAssumption DEF OrchestratorAssumption, Raise, NoOutcome, SkeletonIsNoBook
  <2>5. ASSUME NEW d \in Doc, Reinsert(d) PROVE SkeletonIsNoBook'
    <3>1. stage = "reinsert" /\ stage' = "done" /\ bound
      BY <2>5 DEF Reinsert, BoundInv
    <3>2. CASE outcome' = outcome
      BY <2>2, <3>2
    <3>3. CASE d = Skeleton /\ outcome' /= outcome
      <4>1. ~ Clean(d)
        BY <3>3, OrchestratorAssumption
           DEF OrchestratorAssumption, Clean, Blocks, Findings, Unwritten
      <4>2. outcome'.status = "needs_review" /\ ~ outcome'.downgraded
        BY <2>5, <3>3, <4>1 DEF Reinsert
      <4> QED  BY <2>1, <3>1, <4>2 DEF SkeletonIsNoBook, Kept
    <3>4. CASE d /= Skeleton /\ outcome' /= outcome
      <4>1. outcome'.doc = d
        BY <2>5, <3>4 DEF Reinsert
      <4> QED  BY <3>4, <4>1 DEF SkeletonIsNoBook
    <3> QED  BY <3>2, <3>3, <3>4
  <2> QED  BY <2>2, <2>3, <2>4, <2>5, OutcomeFrame
<1> QED  BY <1>1, <1>2, StepBoundInv, PTL DEF Spec

\* The advisory stage never turns a story into one the gate blocks.
THEOREM LevelNeverBlocksAlways == Spec => LevelNeverBlocks
<1>1. ASSUME [Next]_vars, ~ Blocked, stage \in {"level", "splice"} PROVE ~ Blocked'
  <2>1. ASSUME UNCHANGED work PROVE ~ Blocked'
    BY <1>1, <2>1 DEF work, Blocked, Blocks, Findings
  <2>2. ASSUME NEW d \in Doc, NEW e \in Doc, Splice(d, e) PROVE ~ Blocked'
    <3>1. ASSUME NEW f \in Doc, ~ Blocks(f, "fill_result"), Adopt(f) PROVE ~ Blocked'
      BY <3>1 DEF Adopt, Blocked, Blocks, Findings
    <3> QED  BY <2>1, <2>2, <3>1 DEF Splice
  <2> QED
    BY <1>1, <2>1, <2>2, WorkFrame DEF NoRoom, BatchRejected, Structure, Prose, Fill, Repair, Filled
<1>2. [Next]_vars => [~ Blocked /\ stage \in {"level", "splice"} => ~ Blocked']_vars
  BY <1>1
<1> QED  BY <1>2, PTL DEF Spec, LevelNeverBlocks

\* From the time an outcome is built, a story clean so far is one that is kept.
CleanInv ==
  stage \in {"reinsert", "done"} /\ outcome.doc /= NoDoc /\ Clean(judged)
  /\ (stage = "done" => Clean(outcome.doc))
  => Kept

LEMMA CleanIsUnblocked == Clean(judged) => ~ Blocked /\ judged \notin Flagged
BY DEF Clean, Blocked, Blocks, Findings

LEMMA StepCleanInv == GateInv /\ CleanInv /\ [Next]_vars => CleanInv'
<1> SUFFICES ASSUME GateInv, CleanInv, [Next]_vars PROVE CleanInv'
  OBVIOUS
<1>1. CASE Build
  <2>1. Clean(judged)' = Clean(judged)
    BY <1>1 DEF Build, work, Clean, Blocks, Findings
  <2>2. CASE Unfilled
    BY <1>1, <2>2 DEF Build, NoOutcome, CleanInv
  <2>3. CASE ~ Unfilled
    <3> DEFINE down == Verdict = "passed" /\ (missed \/ Short)
    <3>1. outcome' = [status |-> IF down THEN "needs_review" ELSE Verdict,
                      doc |-> doc, report |-> judged, downgraded |-> down]
      BY <1>1, <2>3 DEF Build
    <3>2. /\ outcome'.status = (IF down THEN "needs_review" ELSE Verdict)
          /\ outcome'.downgraded = down
      BY <3>1
    <3>3. Clean(judged) => Verdict = "passed"
      BY CleanIsUnblocked DEF Verdict
    <3> QED  BY <2>1, <3>2, <3>3 DEF CleanInv, Kept
  <2> QED  BY <2>2, <2>3
<1>2. ASSUME NEW d \in Doc, Reinsert(d) PROVE CleanInv'
  <2>1. stage = "reinsert" /\ stage' = "done" /\ judged' = judged /\ outcome.doc /= NoDoc
    BY <1>2 DEF Reinsert, work, GateInv, OutcomeInv
  <2>2. Clean(judged)' = Clean(judged) /\ Clean(outcome.doc)' = Clean(outcome'.doc)
    BY <2>1 DEF Clean, Blocks, Findings
  <2>3. CASE d = outcome.doc
    <3>1. outcome' = outcome
      BY <1>2, <2>3 DEF Reinsert
    <3> QED  BY <2>1, <2>2, <3>1 DEF CleanInv, Kept
  <2>4. CASE d /= outcome.doc
    <3> DEFINE down == outcome.downgraded /\ Clean(d)
    <3>1. outcome' = [status |-> IF Clean(d) THEN outcome.status ELSE "needs_review",
                      doc |-> d, report |-> d, downgraded |-> down]
      BY <1>2, <2>4 DEF Reinsert
    <3>2. /\ outcome'.doc = d /\ outcome'.downgraded = down
          /\ outcome'.status = IF Clean(d) THEN outcome.status ELSE "needs_review"
      BY <3>1
    <3>3. Clean(judged) => Kept
      BY <2>1 DEF CleanInv
    <3> QED  BY <2>1, <2>2, <3>2, <3>3 DEF CleanInv, Kept
  <2> QED  BY <2>3, <2>4
<1>3. CASE UNCHANGED vars
  <2>1. Clean(judged)' = Clean(judged) /\ Clean(outcome.doc)' = Clean(outcome.doc)
    BY <1>3 DEF vars, work, Clean, Blocks, Findings
  <2> QED  BY <1>3, <2>1 DEF CleanInv, vars, Kept
<1>4. Build \/ (\E d \in Doc : Reinsert(d)) \/ UNCHANGED vars \/ stage' \notin {"reinsert", "done"}
  BY DEF Next, Structure, Prose, Fill, Repair, NoRoom, Abandon, BatchMerged, BatchRejected,
         Filled, Enter, DecideBlocked, DecideSettled, DecideFidelity, LevelPass, Measured,
         LevelDone, Splice, Raise
<1>5. CASE stage' \notin {"reinsert", "done"}
  BY <1>5 DEF CleanInv
<1> QED  BY <1>1, <1>2, <1>3, <1>4, <1>5

\* A story whose gate results stayed clean is kept, whatever else it is found to be.
THEOREM CleanIsKeptAlways == Spec => []CleanIsKept
<1>1. Init => CleanInv
  BY DEF Init, CleanInv
<1>2. CleanInv => CleanIsKept
  BY DEF CleanInv, CleanIsKept
<1> QED
  BY <1>1, <1>2, InitTypeInv, StepTypeInv, InitGateInv, StepGateInv, StepCleanInv, PTL DEF Spec


-----------------------------------------------------------------------------
(***************************************************************************)
(* What passes has been found faithful.  This takes the stub: a document   *)
(* with a SAFE-14 finding is not asked about, and a revision might lose    *)
(* the finding afterwards.                                                 *)
(***************************************************************************)
\* A repair is asked for because the gate blocked or Stage 1 missed something, and the
\* signature kept for the stop test is that of the document at hand.
RepairInv ==
  /\ stage \in {"decide", "repair"} => previous[1] = Findings(judged, context)
  /\ stage = "repair" /\ ~ Blocked => missed

\* Bodies are revised at the reading level, and only of a document that does not block.
RevisedInv ==
  /\ stage \in {"level", "splice"} /\ level.revised => ~ Blocked
  /\ stage = "splice" => level.revised
  /\ stage = "reinsert" => bound

\* What leaves the repair loop is blocked, has missed, or was found faithful.
FaithfulInv ==
  stage \in {"level", "splice", "build"} /\ armed /\ ~ Blocked /\ ~ missed =>
    checked /= NoDoc /\ (level.revised \/ checked = doc)

EarnedInv == RepairInv /\ RevisedInv /\ FaithfulInv /\ PassedIsEarned

LEMMA SameVerdict ==
  UNCHANGED <<judged, context>> =>
    Blocked' = Blocked /\ Findings(judged, context)' = Findings(judged, context)
BY DEF Blocked, Blocks, Findings

LEMMA InitEarnedInv == Init => EarnedInv
BY DEF Init, NoOutcome, EarnedInv, RepairInv, RevisedInv, FaithfulInv, PassedIsEarned

LEMMA StepRepairInv == EarnedInv /\ [Next]_vars => RepairInv'
<1> SUFFICES ASSUME EarnedInv, [Next]_vars PROVE RepairInv'
  OBVIOUS
<1>1. CASE stage' \notin {"decide", "repair"}
  BY <1>1 DEF RepairInv
<1>2. CASE Enter
  <2>1. UNCHANGED <<judged, context>> /\ previous' = <<Findings(judged, context), doc>>
        /\ stage' /= "repair"
    BY <1>2 DEF Enter, work
  <2> QED  BY <2>1, SameVerdict DEF RepairInv
<1>3. CASE DecideBlocked
  <2>1. UNCHANGED <<judged, context, previous>> /\ Blocked /\ stage = "decide"
    BY <1>3 DEF DecideBlocked, work, loop
  <2> QED  BY <2>1, SameVerdict DEF EarnedInv, RepairInv
<1>4. ASSUME NEW unfaithful \in BOOLEAN, DecideFidelity(unfaithful) PROVE RepairInv'
  <2>1. UNCHANGED <<judged, context, previous>> /\ stage = "decide" /\ missed' = unfaithful
        /\ (stage' = "repair" => unfaithful)
    BY <1>4 DEF DecideFidelity, work
  <2> QED  BY <2>1, SameVerdict DEF EarnedInv, RepairInv
<1>5. ASSUME NEW reply \in Reply, Repair(reply) PROVE RepairInv'
  <2>1. judged' = reply /\ context' = "fill_result"
        /\ previous' = <<Findings(reply, "fill_result"), reply>> /\ stage' /= "repair"
    BY <1>5 DEF Repair, Ask
  <2>2. previous'[1] = Findings(judged', context')
    BY <2>1
  <2>3. Findings(judged, context)' = Findings(judged', context')
    BY DEF Findings
  <2> QED  BY <2>1, <2>2, <2>3 DEF RepairInv
<1>6. CASE UNCHANGED vars
  <2>1. UNCHANGED <<judged, context, previous, stage, missed>>
    BY <1>6 DEF vars, work, loop
  <2> QED  BY <2>1, SameVerdict DEF EarnedInv, RepairInv
<1>7. \/ Enter \/ DecideBlocked \/ (\E unfaithful \in BOOLEAN : DecideFidelity(unfaithful))
      \/ (\E reply \in Reply : Repair(reply)) \/ UNCHANGED vars
      \/ stage' \notin {"decide", "repair"}
  BY DEF Next, Structure, Prose, Fill, NoRoom, Abandon, BatchMerged, BatchRejected, Filled,
         DecideSettled, LevelPass, Measured, LevelDone, Splice, Build, Reinsert, Raise
<1> QED  BY <1>1, <1>2, <1>3, <1>4, <1>5, <1>6, <1>7

\* A document enters Stage D as it was judged, and unrevised.
UnrevisedInv ==
  stage \in Drafting \cup {"enter", "decide", "repair"} => ~ level.revised

LEMMA StepUnrevisedInv == UnrevisedInv /\ [Next]_vars => UnrevisedInv'
<1> SUFFICES ASSUME UnrevisedInv, [Next]_vars PROVE UnrevisedInv'
  OBVIOUS
<1>1. CASE stage' \notin Drafting \cup {"enter", "decide", "repair"}
  BY <1>1 DEF UnrevisedInv, Drafting
<1>2. CASE stage' \in Drafting \cup {"enter", "decide", "repair"}
  <2>1. level' = level /\ stage \in Drafting \cup {"enter", "decide", "repair"}
    BY <1>2 DEF Drafting, Next, vars, Structure, Prose, Fill, Repair, NoRoom, Abandon,
         BatchMerged, BatchRejected, Filled, Enter, DecideBlocked, DecideSettled,
         DecideFidelity, LevelPass, Measured, LevelDone, Splice, Build, Reinsert, Raise
  <2> QED  BY <2>1 DEF UnrevisedInv, Drafting
<1> QED  BY <1>1, <1>2

LEMMA StepRevisedInv == UnrevisedInv /\ EarnedInv /\ [Next]_vars => RevisedInv'
<1> SUFFICES ASSUME UnrevisedInv, EarnedInv, [Next]_vars PROVE RevisedInv'
  OBVIOUS
<1>1. RevisedInv /\ bound' = bound
  BY WayFrame DEF EarnedInv, way
<1>2. CASE stage' \notin {"level", "splice", "reinsert"}
  BY <1>2 DEF RevisedInv
<1>3. CASE Build
  BY <1>1, <1>3 DEF Build, RevisedInv
<1>4. ASSUME NEW improves \in BOOLEAN, LevelPass(improves) PROVE RevisedInv'
  <2>1. UNCHANGED <<judged, context>> /\ stage = "level" /\ ~ Blocked
        /\ stage' \in {"level", "splice", "build"}
        /\ level' = [passes |-> level.passes + 1, revised |-> level.revised \/ improves]
        /\ (stage' = "splice" => level.revised)
    BY <1>4 DEF LevelPass, Measured, work
  <2>2. stage' = "splice" => level'.revised
    BY <2>1
  <2> QED  BY <2>1, <2>2, SameVerdict DEF RevisedInv
<1>5. CASE LevelDone
  <2>1. UNCHANGED <<judged, context, level>> /\ stage = "level"
        /\ stage' \in {"level", "splice", "build"} /\ (stage' = "splice" => level.revised)
    BY <1>5 DEF LevelDone, Measured, work
  <2> QED  BY <1>1, <2>1, SameVerdict DEF RevisedInv
<1>6. CASE UNCHANGED vars
  <2>1. UNCHANGED <<judged, context, level, stage>>
    BY <1>6 DEF vars, work
  <2> QED  BY <1>1, <2>1, SameVerdict DEF RevisedInv
<1>7. CASE stage' = "level" /\ stage \in {"enter", "decide", "repair"} /\ level' = level
  BY <1>7 DEF UnrevisedInv, RevisedInv
<1>8. \/ Build \/ (\E improves \in BOOLEAN : LevelPass(improves)) \/ LevelDone
      \/ UNCHANGED vars \/ stage' \notin {"level", "splice", "reinsert"}
      \/ stage' = "level" /\ stage \in {"enter", "decide", "repair"} /\ level' = level
  BY DEF Next, Structure, Prose, Fill, Repair, NoRoom, Abandon, BatchMerged, BatchRejected,
         Filled, Enter, DecideBlocked, DecideSettled, DecideFidelity, Splice, Reinsert, Raise
<1> QED  BY <1>2, <1>3, <1>4, <1>5, <1>6, <1>7, <1>8

LEMMA StepFaithfulInv ==
  ASSUME Flagged = {}, TypeInv, EarnedInv, [Next]_vars
  PROVE  FaithfulInv'
<1>1. /\ FaithfulInv /\ armed' = armed /\ doc \in Reply
      /\ ~ Blocked => judged = doc
  BY WayFrame, TypeParts DEF EarnedInv, way, TypeInv, WorkType
<1>2. CASE stage' \notin {"level", "splice", "build"}
  BY <1>2 DEF FaithfulInv
<1>3. CASE NoRoom \/ BatchRejected
  <2>1. Abandon \/ stage' = "batches"
    BY <1>3 DEF NoRoom, BatchRejected
  <2>2. CASE Abandon
    BY <2>2 DEF Abandon, FaithfulInv, Blocked, Blocks, Findings
  <2> QED  BY <1>2, <2>1, <2>2
<1>4. CASE Enter
  <2>1. UNCHANGED <<judged, context>> /\ (stage' = "level" => ~ armed)
        /\ stage' \in {"level", "decide"}
    BY <1>4 DEF Enter, work
  <2> QED  BY <1>1, <1>2, <2>1 DEF FaithfulInv
<1>5. CASE DecideBlocked
  <2>1. UNCHANGED <<judged, context>> /\ Blocked
    BY <1>5 DEF DecideBlocked, work
  <2> QED  BY <2>1, SameVerdict DEF FaithfulInv
<1>6. CASE DecideSettled
  BY <1>1, <1>6 DEF DecideSettled, FaithfulInv
<1>7. ASSUME NEW unfaithful \in BOOLEAN, DecideFidelity(unfaithful) PROVE FaithfulInv'
  <2>1. ~ Blocked /\ missed' = unfaithful /\ doc' = doc
        /\ checked' = IF unfaithful THEN NoDoc ELSE doc
    BY <1>7 DEF DecideFidelity, work
  <2>2. doc /= NoDoc
    BY <1>1, <2>1, FindingsType DEF Blocked
  <2> QED  BY <2>1, <2>2 DEF FaithfulInv
<1>8. ASSUME NEW reply \in Reply, Repair(reply) PROVE FaithfulInv'
  <2>1. /\ stage = "repair" /\ judged' = reply /\ context' = "fill_result" /\ missed' = missed
        /\ previous' = <<Findings(reply, "fill_result"), reply>>
        /\ stage' = IF previous' = previous THEN "level" ELSE "decide"
    BY <1>8 DEF Repair, Ask
  <2>2. Blocked' = (Findings(reply, "fill_result") /= {})
    BY <2>1 DEF Blocked, Blocks, Findings
  <2>3. CASE previous' = previous
    <3>1. previous[1] = Findings(reply, "fill_result")
      BY <2>1, <2>3
    <3>2. previous[1] = Findings(judged, context)
      BY <2>1 DEF EarnedInv, RepairInv
    <3>3. Blocked' = Blocked
      BY <2>2, <3>1, <3>2 DEF Blocked, Blocks
    <3> QED  BY <2>1, <3>3 DEF EarnedInv, RepairInv, FaithfulInv
  <2> QED  BY <1>2, <2>1, <2>3
<1>9. ASSUME NEW improves \in BOOLEAN, LevelPass(improves) PROVE FaithfulInv'
  <2>1. UNCHANGED <<judged, context, doc, missed, checked>> /\ stage = "level"
        /\ level' = [passes |-> level.passes + 1, revised |-> level.revised \/ improves]
    BY <1>9 DEF LevelPass, work, loop
  <2>2. level.revised => level'.revised
    BY <2>1
  <2> QED  BY <1>1, <2>1, <2>2, SameVerdict DEF FaithfulInv
<1>10. CASE LevelDone \/ UNCHANGED vars
  <2>1. UNCHANGED <<judged, context, doc, missed, checked, level>>
        /\ (stage = "level" \/ stage' = stage)
    BY <1>10 DEF LevelDone, vars, work, loop
  <2> QED  BY <1>1, <2>1, SameVerdict DEF FaithfulInv
<1>11. ASSUME NEW d \in Doc, NEW e \in Doc, Splice(d, e) PROVE FaithfulInv'
  <2>1. UNCHANGED <<missed, checked, level>> /\ stage = "splice"
    BY <1>11 DEF Splice, loop
  <2>2. level.revised /\ ~ Blocked
    BY <2>1 DEF EarnedInv, RevisedInv
  <2> QED  BY <1>1, <2>1, <2>2 DEF FaithfulInv
<1>12. \/ NoRoom \/ BatchRejected \/ Enter \/ DecideBlocked \/ DecideSettled \/ LevelDone
       \/ UNCHANGED vars \/ (\E reply \in Reply : Repair(reply))
       \/ (\E yes \in BOOLEAN : DecideFidelity(yes) \/ LevelPass(yes))
       \/ (\E d, e \in Doc : Splice(d, e)) \/ stage' \notin {"level", "splice", "build"}
  BY DEF Next, Structure, Prose, Fill, BatchMerged, Filled, Build, Reinsert, Raise
<1> QED
  BY <1>2, <1>3, <1>4, <1>5, <1>6, <1>7, <1>8, <1>9, <1>10, <1>11, <1>12

LEMMA StepPassedIsEarned ==
  ASSUME GateInv, EarnedInv, [Next]_vars
  PROVE  PassedIsEarned'
<1>1. PassedIsEarned /\ UNCHANGED <<path, armed, bound>>
  BY WayFrame DEF EarnedInv, way
<1>2. CASE outcome'.status /= "passed"
  BY <1>2 DEF PassedIsEarned
<1>3. CASE UNCHANGED vars
  BY <1>1, <1>3 DEF vars, loop, PassedIsEarned
<1>4. CASE Build
  <2>1. stage = "build" /\ UNCHANGED <<checked, level>>
    BY <1>4 DEF Build, loop
  <2>2. CASE Unfilled
    BY <1>2, <1>4, <2>2 DEF Build, NoOutcome
  <2>3. CASE ~ Unfilled
    <3> DEFINE down == Verdict = "passed" /\ (missed \/ Short)
    <3>1. outcome' = [status |-> IF down THEN "needs_review" ELSE Verdict,
                      doc |-> doc, report |-> judged, downgraded |-> down]
      BY <1>4, <2>3 DEF Build
    <3>2. outcome'.status = (IF down THEN "needs_review" ELSE Verdict) /\ outcome'.doc = doc
      BY <3>1
    <3>3. outcome'.status = "passed" => ~ Blocked /\ ~ missed /\ ~ Short
      BY <3>2 DEF Verdict
    <3> QED  BY <1>1, <2>1, <3>2, <3>3 DEF EarnedInv, FaithfulInv, Short, PassedIsEarned
  <2> QED  BY <2>2, <2>3
<1>5. ASSUME NEW d \in Doc, Reinsert(d) PROVE PassedIsEarned'
  <2>1. bound /\ UNCHANGED <<checked, level>>
    BY <1>5 DEF Reinsert, loop, EarnedInv, RevisedInv
  <2>2. outcome'.status = "passed" => outcome.status = "passed"
    <3>1. CASE d = outcome.doc
      BY <1>5, <3>1 DEF Reinsert
    <3>2. CASE d /= outcome.doc
      BY <1>5, <3>2 DEF Reinsert
    <3> QED  BY <3>1, <3>2
  <2> QED  BY <1>1, <2>1, <2>2 DEF PassedIsEarned
<1>6. CASE Raise
  BY <1>2, <1>6 DEF Raise, NoOutcome
<1>7. CASE UNCHANGED outcome /\ stage \notin {"reinsert", "done"}
  BY <1>2, <1>7 DEF GateInv, OutcomeInv, NoOutcome
<1>8. \/ UNCHANGED vars \/ Build \/ (\E d \in Doc : Reinsert(d)) \/ Raise
      \/ UNCHANGED outcome /\ stage \notin {"reinsert", "done"}
  BY DEF Next, Structure, Prose, Fill, Repair, NoRoom, BatchMerged, BatchRejected, Filled,
         Enter, DecideBlocked, DecideSettled, DecideFidelity, LevelPass, LevelDone, Splice
<1> QED  BY <1>3, <1>4, <1>5, <1>6, <1>7, <1>8

\* With safety.py the stub it is, a fill that passes is long enough, and Stage 1, where it
\* is armed, found faithful the very document the repair loop ended with.
THEOREM PassedIsEarnedUnflagged ==
  ASSUME Flagged = {}
  PROVE  Spec => []PassedIsEarned
<1>1. Init => UnrevisedInv
  BY DEF Init, UnrevisedInv
<1>2. EarnedInv => PassedIsEarned
  BY DEF EarnedInv
<1>3. TypeInv /\ GateInv /\ UnrevisedInv /\ EarnedInv /\ [Next]_vars => EarnedInv'
  BY StepRepairInv, StepRevisedInv, StepFaithfulInv, StepPassedIsEarned DEF EarnedInv
<1> QED
  BY <1>1, <1>2, <1>3, InitTypeInv, StepTypeInv, InitGateInv, StepGateInv, StepUnrevisedInv,
     InitEarnedInv, PTL DEF Spec

=============================================================================
