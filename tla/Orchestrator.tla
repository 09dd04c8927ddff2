---------------------------- MODULE Orchestrator ----------------------------
(***************************************************************************)
(* How one generation job gets its story written (generation/orchestrator, *)
(* chunking, reading_level_loop and the skeleton fill of generation/       *)
(* worker): a model is asked for documents, a deterministic gate judges    *)
(* each one, and what comes out is a status, a document, and whether a     *)
(* document that needs review is kept.  Three paths: a story from a brief  *)
(* (structure, then prose), a library skeleton filled in one reply, and    *)
(* one filled batch by batch.  The models answer with anything, or not at  *)
(* all; what the gate says of a document is given by the constants.        *)
(***************************************************************************)
EXTENDS Naturals

CONSTANTS
  Doc,          \* the documents there are
  NoDoc,        \* what a reply that does not parse gives
  Skeleton,     \* the library skeleton, its FILL directives intact
  Echoes,       \* other texts with a FILL directive left, such as the skeleton without sentinels
  Blocking,     \* those with an ERROR finding
  Flagged,      \* those with a SAFE-14 finding (validator/safety.py is a stub: none)
  Thin,         \* those below min_fill_rate
  MaxRepairs,   \* max_repairs (3)
  MaxPasses,    \* reading_level_passes (2)
  Batches,      \* into how many plan_fill_batches divides the skeleton
  MaxRetries    \* _MAX_BATCH_RETRIES, of all the batches together (1)

OrchestratorAssumption ==
  /\ NoDoc \notin Doc /\ Skeleton \in Doc
  /\ Echoes \subseteq Doc /\ Blocking \subseteq Doc /\ Flagged \subseteq Doc /\ Thin \subseteq Doc
  /\ MaxRepairs \in Nat /\ MaxPasses \in Nat /\ Batches \in Nat \ {0} /\ MaxRetries \in Nat
ASSUME OrchestratorAssumption

VARIABLES
  path,      \* "brief", "fill" or "batches"
  armed,     \* the Stage 1 fidelity gate is asked
  bound,     \* the skeleton has a contract: sentinels are put back at the end
  stage,     \* the step that is next
  doc,       \* current_doc
  judged,    \* what gate_result is of; NoDoc: a synthetic one, that blocks
  context,   \* under which it was
  previous,  \* prev_signature: ERROR findings and a document
  attempts,  \* repairs so far
  missed,    \* stage1_violations is not empty
  progress,  \* of the batches: how many are merged, and retries_left
  level,     \* of the reading level: passes made, and whether a body was revised
  outcome,   \* the GenerationOutcome
  calls,     \* history: completions asked of the model that writes
  checked    \* history: the document Stage 1 last found faithful

way == <<path, armed, bound>>
work == <<doc, judged, context>>
loop == <<previous, attempts, missed, checked>>
vars == <<way, stage, work, loop, progress, level, outcome, calls>>

Reply == Doc \cup {NoDoc}
Unwritten == {Skeleton} \cup Echoes

\* run_gate.  A retained FILL directive blocks a fill result and no skeleton (PL-27);
\* what does not parse has a synthetic result that blocks.
Findings(d, posture) ==
  IF d = NoDoc THEN {"no story"}
  ELSE {f \in {"error", "directive"} :
          \/ f = "error" /\ d \in Blocking
          \/ f = "directive" /\ d \in Unwritten /\ posture = "fill_result"}
Blocks(d, posture) == Findings(d, posture) /= {}
Blocked == Blocks(judged, context)
Clean(d) == ~ Blocks(d, "fill_result") /\ d \notin Flagged

NoOutcome == [status |-> "none", doc |-> NoDoc, report |-> NoDoc, downgraded |-> FALSE]

Init ==
  /\ path \in {"brief", "fill", "batches"}
  /\ armed \in BOOLEAN /\ bound \in BOOLEAN
  /\ path = "brief" => ~ armed /\ ~ bound
  /\ stage = (IF path = "brief" THEN "structure" ELSE path)
  /\ doc = NoDoc /\ judged = NoDoc /\ context = "skeleton"
  /\ previous = <<{}, NoDoc>> /\ attempts = 0 /\ missed = FALSE /\ checked = NoDoc
  /\ progress = [merged |-> 0, retries |-> MaxRetries]
  /\ level = [passes |-> 0, revised |-> FALSE] /\ outcome = NoOutcome /\ calls = 0

\* _run_one_stage: a reply, and the gate's result of it.
Ask(reply, posture) ==
  judged' = reply /\ context' = posture /\ calls' = calls + 1

(***************************************************************************)
(* The first draft.                                                        *)
(***************************************************************************)
\* generate_story, Stage A: the prose is asked for only over a sound structure.
Structure(reply) ==
  /\ stage = "structure"
  /\ Ask(reply, "skeleton")
  /\ doc' = reply
  /\ IF Blocks(reply, "skeleton") THEN stage' = "enter" ELSE stage' = "prose"
  /\ UNCHANGED <<way, loop, progress, level, outcome>>

\* Stage B.  A reply that does not parse leaves the structure to repair.
Prose(reply) ==
  /\ stage = "prose"
  /\ Ask(reply, "fill_result")
  /\ doc' = IF reply = NoDoc THEN doc ELSE reply
  /\ stage' = "enter"
  /\ UNCHANGED <<way, loop, progress, level, outcome>>

\* fill_skeleton in one reply; what does not parse leaves the skeleton to repair.
Fill(reply) ==
  /\ stage = "fill"
  /\ Ask(reply, "fill_result")
  /\ doc' = IF reply = NoDoc THEN Skeleton ELSE reply
  /\ stage' = "enter"
  /\ UNCHANGED <<way, loop, progress, level, outcome>>

\* A fill that cannot go on: nothing was written, and nothing is repaired.
Abandon ==
  /\ doc' = NoDoc /\ judged' = NoDoc /\ context' = "fill_result"
  /\ stage' = "build"

\* Nothing can be planned, or a prompt leaves no room in the model's window.
NoRoom ==
  /\ stage = "batches"
  /\ Abandon
  /\ UNCHANGED <<way, loop, progress, level, outcome, calls>>

\* Fault: each batch has retries of its own.
RetriesForEach ==
  /\ stage = "batches" /\ progress.merged + 1 < Batches
  /\ progress' = [merged |-> progress.merged + 1, retries |-> MaxRetries]
  /\ calls' = calls + 1
  /\ UNCHANGED <<way, stage, work, loop, level, outcome>>

BatchMerged ==
  /\ stage = "batches" /\ progress.merged + 1 < Batches
  /\ progress' = [progress EXCEPT !.merged = @ + 1]
  /\ calls' = calls + 1
  /\ UNCHANGED <<way, stage, work, loop, level, outcome>>

\* The last one; merge_fill_batch has refused every directive that came back.
Filled(d) ==
  /\ stage = "batches" /\ progress.merged + 1 = Batches
  /\ d \notin Unwritten
  /\ Ask(d, "fill_result")
  /\ doc' = d
  /\ progress' = [progress EXCEPT !.merged = @ + 1]
  /\ stage' = "enter"
  /\ UNCHANGED <<way, loop, level, outcome>>

\* A reply that covers anything but the nodes asked for is asked for again, as long
\* as the retries all batches share last; then the whole fill is given up.
BatchRejected ==
  /\ stage = "batches"
  /\ calls' = calls + 1
  /\ IF progress.retries > 0
       THEN progress' = [progress EXCEPT !.retries = @ - 1] /\ UNCHANGED <<stage, work>>
       ELSE UNCHANGED progress /\ Abandon
  /\ UNCHANGED <<way, loop, level, outcome>>

(***************************************************************************)
(* The repair loop: one budget for what the gate blocks and for what       *)
(* Stage 1 finds unfaithful.                                               *)
(***************************************************************************)
Budget == IF path = "batches" THEN 0 ELSE MaxRepairs

Enter ==
  /\ stage = "enter"
  /\ previous' = <<Findings(judged, context), doc>>
  /\ stage' = IF Blocked \/ armed THEN "decide" ELSE "level"
  /\ UNCHANGED <<way, work, attempts, missed, checked, progress, level, outcome, calls>>

\* _next_repair_prompt.  Structure first.
DecideBlocked ==
  /\ stage = "decide" /\ Blocked
  /\ stage' = IF attempts < Budget THEN "repair" ELSE "level"
  /\ UNCHANGED <<way, work, loop, progress, level, outcome, calls>>

\* Nothing to ask Stage 1 about: it is not armed, or a person will look anyway.
DecideSettled ==
  /\ stage = "decide" /\ ~ Blocked /\ (~ armed \/ judged \in Flagged)
  /\ missed' = FALSE
  /\ stage' = "level"
  /\ UNCHANGED <<way, work, previous, attempts, checked, progress, level, outcome, calls>>

\* Fault: Stage 1 is not asked about a document that could not be repaired any more.
FidelityWhileRepairable(unfaithful) ==
  /\ stage = "decide" /\ ~ Blocked /\ armed /\ judged \notin Flagged
  /\ IF attempts < Budget
       THEN /\ missed' = unfaithful
            /\ checked' = IF unfaithful THEN NoDoc ELSE doc
            /\ stage' = IF unfaithful THEN "repair" ELSE "level"
       ELSE missed' = FALSE /\ stage' = "level" /\ UNCHANGED checked
  /\ UNCHANGED <<way, work, previous, attempts, progress, level, outcome, calls>>

\* run_stage1_gate, a model's judgement too.
DecideFidelity(unfaithful) ==
  /\ stage = "decide" /\ ~ Blocked /\ armed /\ judged \notin Flagged
  /\ missed' = unfaithful
  /\ checked' = IF unfaithful THEN NoDoc ELSE doc
  /\ stage' = IF unfaithful /\ attempts < Budget THEN "repair" ELSE "level"
  /\ UNCHANGED <<way, work, previous, attempts, progress, level, outcome, calls>>

\* Fault: the gate's result is taken over, the document it is of is not.
RepairKept(reply) ==
  /\ stage = "repair"
  /\ Ask(reply, "fill_result")
  /\ attempts' = attempts + 1
  /\ previous' = <<Findings(reply, "fill_result"), reply>>
  /\ stage' = IF previous' = previous THEN "level" ELSE "decide"
  /\ UNCHANGED <<way, doc, missed, checked, progress, level, outcome>>

\* A repair: the same findings and the same document as before end the loop, and a
\* reply that does not parse leaves the document, but not its gate result.
Repair(reply) ==
  /\ stage = "repair"
  /\ Ask(reply, "fill_result")
  /\ doc' = IF reply = NoDoc THEN doc ELSE reply
  /\ attempts' = attempts + 1
  /\ previous' = <<Findings(reply, "fill_result"), reply>>
  /\ stage' = IF previous' = previous THEN "level" ELSE "decide"
  /\ UNCHANGED <<way, missed, checked, progress, level, outcome>>

(***************************************************************************)
(* Stage D, the reading level of a document that is not blocked.           *)
(***************************************************************************)
Measured(revised) == stage' = IF revised THEN "splice" ELSE "build"

\* Blocked, or no band, or nothing is out of it (any more), or no pass is left.
LevelDone ==
  /\ stage = "level"
  /\ Measured(level.revised)
  /\ UNCHANGED <<way, work, loop, progress, level, outcome, calls>>

\* A pass, its batches counted as one call; one that improves no body is the last.
LevelPass(improves) ==
  /\ stage = "level" /\ ~ Blocked /\ level.passes < MaxPasses
  /\ level' = [passes |-> level.passes + 1, revised |-> level.revised \/ improves]
  /\ IF improves THEN UNCHANGED stage ELSE Measured(level.revised)
  /\ calls' = calls + 1
  /\ UNCHANGED <<way, work, loop, progress, outcome>>

Adopt(d) == doc' = d /\ judged' = d /\ context' = "fill_result"

\* All accepted bodies, or those the gate did not name, or none of them.
Splice(d, e) ==
  /\ stage = "splice"
  /\ IF ~ Blocks(d, "fill_result") THEN Adopt(d)
     ELSE IF ~ Blocks(e, "fill_result") THEN Adopt(e)
     ELSE UNCHANGED work
  /\ stage' = "build"
  /\ UNCHANGED <<way, loop, progress, level, outcome, calls>>

(***************************************************************************)
(* The outcome, and what the worker does to it.                            *)
(***************************************************************************)
\* _build_outcome: what the gate says of the last document.
Verdict ==
  IF Blocked THEN (IF doc = NoDoc THEN "failed" ELSE "needs_review")
  ELSE IF judged \in Flagged THEN "needs_review" ELSE "passed"

Unfilled == path /= "brief" /\ doc = Skeleton
Short == path /= "brief" /\ doc \in Thin

\* Fault: the skeleton is returned, under whatever the gate says of it.
BuildAnything ==
  LET downgraded == Verdict = "passed" /\ (missed \/ Short)
  IN  /\ stage = "build"
      /\ outcome' = [status |-> IF downgraded THEN "needs_review" ELSE Verdict,
                     doc |-> doc, report |-> judged, downgraded |-> downgraded]
      /\ stage' = IF bound /\ doc /= NoDoc THEN "reinsert" ELSE "done"
      /\ UNCHANGED <<way, work, loop, progress, level, calls>>

\* Fault: a thin story is downgraded and not said to be otherwise clean.
BuildThin ==
  LET downgraded == Verdict = "passed" /\ missed
  IN  /\ stage = "build"
      /\ outcome' = IF Unfilled THEN [NoOutcome EXCEPT !.status = "failed", !.report = judged]
                    ELSE [status |-> IF downgraded \/ (Verdict = "passed" /\ Short)
                                       THEN "needs_review" ELSE Verdict,
                          doc |-> doc, report |-> judged, downgraded |-> downgraded]
      /\ stage' = IF bound /\ outcome'.doc /= NoDoc THEN "reinsert" ELSE "done"
      /\ UNCHANGED <<way, work, loop, progress, level, calls>>

\* _fail_on_unfilled_skeleton, the Stage 1 downgrade, _with_fill_rate.
Build ==
  LET downgraded == Verdict = "passed" /\ (missed \/ Short)
  IN  /\ stage = "build"
      /\ outcome' = IF Unfilled THEN [NoOutcome EXCEPT !.status = "failed", !.report = judged]
                    ELSE [status |-> IF downgraded THEN "needs_review" ELSE Verdict,
                          doc |-> doc, report |-> judged, downgraded |-> downgraded]
      /\ stage' = IF bound /\ outcome'.doc /= NoDoc THEN "reinsert" ELSE "done"
      /\ UNCHANGED <<way, work, loop, progress, level, calls>>

\* reinsert_storybook takes sentinels out and puts them in: a directive that was left
\* is left still, and the skeleton without its sentinels may become the skeleton again.
Reinserts(d) == d \in Unwritten <=> outcome.doc \in Unwritten

\* Fault: the verdict on the document before it was rewritten is kept.
ReinsertUngated(d) ==
  /\ stage = "reinsert" /\ Reinserts(d)
  /\ outcome' = [outcome EXCEPT !.doc = d]
  /\ stage' = "done"
  /\ UNCHANGED <<way, work, loop, progress, level, calls>>

\* _run_skeleton_fill: when the sentinels changed the text the gate is asked again
\* (_regate_after_transform), and the worse of the two results stands.
Reinsert(d) ==
  /\ stage = "reinsert" /\ Reinserts(d)
  /\ outcome' = IF d = outcome.doc THEN outcome
                ELSE [status |-> IF Clean(d) THEN outcome.status ELSE "needs_review",
                      doc |-> d, report |-> d,
                      downgraded |-> outcome.downgraded /\ Clean(d)]
  /\ stage' = "done"
  /\ UNCHANGED <<way, work, loop, progress, level, calls>>

\* A prompt that would name a real child, a model that cannot be reached, sentinels
\* that do not survive: the exception is the worker's to handle.
Raise ==
  /\ \/ stage \in {"structure", "prose", "fill", "batches", "repair", "reinsert"}
     \/ stage = "decide" /\ ~ Blocked /\ armed
     \/ stage = "level" /\ ~ Blocked /\ level.passes < MaxPasses
  /\ stage' = "raised" /\ outcome' = NoOutcome
  /\ UNCHANGED <<way, work, loop, progress, level, calls>>

\* _should_persist_storybook.
Kept ==
  /\ outcome.doc /= NoDoc
  /\ outcome.status = "passed" \/ (outcome.status = "needs_review" /\ outcome.downgraded)

Next ==
  \/ \E reply \in Reply : Structure(reply) \/ Prose(reply) \/ Fill(reply) \/ Repair(reply)
  \/ NoRoom \/ BatchMerged \/ BatchRejected \/ \E d \in Doc : Filled(d)
  \/ Enter \/ DecideBlocked \/ DecideSettled
  \/ \E yes \in BOOLEAN : DecideFidelity(yes) \/ LevelPass(yes)
  \/ LevelDone \/ \E d, e \in Doc : Splice(d, e)
  \/ Build \/ \E d \in Doc : Reinsert(d)
  \/ Raise

Spec == Init /\ [][Next]_vars

(***************************************************************************)
(* Types; and a gate result that does not block is the present document's. *)
(***************************************************************************)
Stages == {"structure", "prose", "fill", "batches", "enter", "decide", "repair", "level",
           "splice", "build", "reinsert", "done", "raised"}

TypeOK ==
  /\ path \in {"brief", "fill", "batches"} /\ armed \in BOOLEAN /\ bound \in BOOLEAN
  /\ stage \in Stages
  /\ doc \in Reply /\ judged \in Reply /\ context \in {"skeleton", "fill_result"}
  /\ previous \in (SUBSET {"no story", "error", "directive"}) \X Reply
  /\ attempts \in 0 .. Budget /\ missed \in BOOLEAN /\ checked \in Reply
  /\ progress \in [merged : 0 .. Batches, retries : 0 .. MaxRetries]
  /\ level \in [passes : 0 .. MaxPasses, revised : BOOLEAN]
  /\ outcome \in [status : {"none", "passed", "needs_review", "failed"}, doc : Reply,
                  report : Reply, downgraded : BOOLEAN]
  /\ calls \in Nat
  /\ Blocked \/ judged = doc

(***************************************************************************)
(* What the worker keeps as a book is a document that the gate itself, as  *)
(* a fill result, neither blocks nor flags, with that gate's report, and   *)
(* so was the one sentinels were put back into: no repair, revision or     *)
(* rewriting stands under the verdict on another text.                     *)
(***************************************************************************)
KeptIsCleared ==
  stage = "done" /\ Kept =>
    Clean(outcome.doc) /\ outcome.report = outcome.doc /\ Clean(judged)

(***************************************************************************)
(* A fill passes only if its story is long enough and, where Stage 1 is    *)
(* armed, Stage 1 found the very document the loop ended with faithful.    *)
(***************************************************************************)
PassedIsEarned ==
  outcome.status = "passed" /\ path /= "brief" =>
    /\ armed => checked /= NoDoc /\ (level.revised \/ bound \/ checked = outcome.doc)
    /\ bound \/ outcome.doc \notin Thin

(***************************************************************************)
(* The library's skeleton is never what fill_skeleton returns, whatever    *)
(* the gate says of it (AL-327).  Putting sentinels back can restore it    *)
(* from an echo that dropped them, after that comparison: only the gate is *)
(* left to refuse it, and it does, as needs_review and not to be kept.     *)
(***************************************************************************)
SkeletonIsNoBook ==
  path /= "brief" /\ outcome.doc = Skeleton =>
    stage = "done" /\ bound /\ outcome.status = "needs_review" /\ ~ Kept

(***************************************************************************)
(* A story whose gate results were clean to the end is kept, however thin  *)
(* or unfaithful: those are verdicts for a person (_should_persist_storybook). *)
(***************************************************************************)
CleanIsKept ==
  /\ stage = "done" /\ outcome.doc /= NoDoc
  /\ Clean(judged) /\ Clean(outcome.doc)
  => Kept

(***************************************************************************)
(* The advisory stage never makes a story one the gate blocks.             *)
(***************************************************************************)
LevelNeverBlocks ==
  [][~ Blocked /\ stage \in {"level", "splice"} => ~ Blocked']_vars

(***************************************************************************)
(* The model is asked a bounded number of times, whatever it answers.      *)
(***************************************************************************)
Drafts == CASE path = "brief" -> 2 [] path = "fill" -> 1 [] path = "batches" -> Batches + MaxRetries
SpendIsBounded == calls <= Drafts + Budget + MaxPasses
=============================================================================
