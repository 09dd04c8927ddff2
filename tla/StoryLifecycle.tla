--------------------------- MODULE StoryLifecycle ---------------------------
(***************************************************************************)
(* One story from draft to shelf: its publication status                   *)
(* (publishing/state_machine.py, publishing/service.py), the moderation    *)
(* report the approval gate reads (moderation/pipeline.py, report.py), and *)
(* the three ways its text changes after it was written: a repair made by  *)
(* the pipeline, an edit of one passage (api/node_edit.py) and a second    *)
(* moderation (api/remoderate.py).                                         *)
(*                                                                         *)
(* Each handler holds the lock on the storybook row from its first read to *)
(* its commit, so it is one step.  A story has one version, whose blob is  *)
(* rewritten in place: nothing under src/ creates a second one.            *)
(***************************************************************************)
EXTENDS Naturals

CONSTANTS
  Node,         \* the passages of the story
  Admin,        \* who may approve
  NoOne,        \* the approver of a story never approved
  NoReport,     \* the report of a story never screened
  Nothing,      \* the text of what is not there
  MaxRevision   \* bound: times a passage is rewritten

Text == [Node -> Nat]   \* how often each passage was rewritten
Verdict == {"clean", "flag", "high", "block"}
Status == {"draft", "in_review", "needs_revision", "published", "archived"}

\* found: the worst verdict on each passage (a flag is "high" when its severity is);
\* unreviewed: passages the safety reviewer gave no usable answer on; unscreened:
\* the classifier failed on some passage; whole: findings on no passage at all.
Report == [found : [Node -> Verdict], unreviewed : SUBSET Node, unscreened : BOOLEAN,
           whole : {"clean", "flag", "block"}]

ASSUME ConstantsAssumption ==
  /\ NoOne \notin Admin /\ NoReport \notin Report /\ Nothing \notin Text
  /\ MaxRevision \in Nat

VARIABLES
  status,        \* Storybook.status
  text,          \* the passages in StorybookVersion.blob
  report,        \* StorybookVersion.moderation_report
  current,       \* Storybook.current_published_version is set
  approvedBy,    \* StorybookVersion.approved_by
  approvedText,  \* history: the text as it was approved
  basis,         \* history: the revision of each passage its verdict was given on
  judged         \* history: the passages whose present text the reviewer has ever judged

storybook == <<status, current>>
approval  == <<approvedBy, approvedText>>
review    == <<report, basis, judged>>
vars == <<status, text, report, current, approvedBy, approvedText, basis, judged>>

Init ==
  /\ status = "draft" /\ current = FALSE
  /\ text = [n \in Node |-> 0]
  /\ report = NoReport
  /\ approvedBy = NoOne /\ approvedText = Nothing
  /\ basis = [n \in Node |-> 0] /\ judged = {}

-----------------------------------------------------------------------------
(***************************************************************************)
(* LEGAL_TRANSITIONS, and what a report says (moderation/report.py).       *)
(***************************************************************************)
Transition ==
  {<<"draft", "submit", "in_review">>, <<"draft", "auto_reject", "needs_revision">>,
   <<"needs_revision", "submit", "in_review">>, <<"in_review", "approve", "published">>,
   <<"in_review", "send_back", "needs_revision">>, <<"published", "archive", "archived">>,
   <<"published", "recall", "in_review">>}

Move(action) == status' \in Status /\ <<status, action, status'>> \in Transition

Finds(r, verdict) == r.whole = verdict \/ \E n \in Node : r.found[n] = verdict

HardBlock(r) == Finds(r, "block")
CoverageGap(r) == r.unreviewed /= {} \/ r.unscreened
BlocksRelease(r) == HardBlock(r) \/ CoverageGap(r)
SoftFlag(r) == ~HardBlock(r) /\ (Finds(r, "flag") \/ Finds(r, "high") \/ CoverageGap(r))
Severe(r) == HardBlock(r) \/ Finds(r, "high")

-----------------------------------------------------------------------------
(***************************************************************************)
(* A screening of the whole story (run_moderation_pipeline,                *)
(* _run_all_stages): the report it makes and the passages the safety       *)
(* reviewer judged.                                                        *)
(***************************************************************************)
AllClean == [n \in Node |-> "clean"]

\* A blob that breaks its schema or its slot contract: no stage runs.
EntryBlocked ==
  [report |-> [found |-> AllClean, unreviewed |-> {}, unscreened |-> FALSE,
               whole |-> "block"],
   judged |-> {}]

\* One passage over a classifier's bright line: the reviewer sees no passage.
ClassifierBlocks ==
  {[report |-> [found |-> f, unreviewed |-> {}, unscreened |-> gap, whole |-> "clean"],
    judged |-> {}] :
     f \in [Node -> {"clean", "block"}] \ {AllClean}, gap \in BOOLEAN}

\* The reviewer is asked about every passage; the whole-story stages, which only
\* run when it blocked nothing, may find more.
Reviews ==
  {[report |-> [found |-> [n \in Node |-> IF n \in u THEN "clean" ELSE f[n]],
                unreviewed |-> u, unscreened |-> gap,
                whole |-> IF \E n \in Node \ u : f[n] = "block" THEN "clean" ELSE w],
    judged |-> Node \ u] :
     f \in [Node -> Verdict], u \in SUBSET Node, gap \in BOOLEAN,
     w \in {"clean", "flag", "block"}}

AllStages == ClassifierBlocks \cup Reviews

\* What is only flagged is worth a rewrite.
Repairable == {s \in AllStages : SoftFlag(s.report) /\ ~BlocksRelease(s.report)}

\* The report of screening s of the passages as they now are becomes the story's.  Of
\* the passages judged before, those that still read the same stay judged.
Persist(s, before) ==
  /\ report' = s.report
  /\ judged' = s.judged \cup {n \in before : text'[n] = text[n]}
  /\ basis' = text'

Rewritten(changed) == [n \in Node |-> IF n \in changed THEN text[n] + 1 ELSE text[n]]

\* Fault: a repair is adopted with the report of the text it replaced.
PipelineUnscreened(allowRepair) ==
  \/ \E s \in AllStages \cup {EntryBlocked} : UNCHANGED text /\ Persist(s, judged)
  \/ /\ allowRepair
     /\ \E changed \in SUBSET Node, s \in Repairable :
          /\ \A n \in changed : text[n] < MaxRevision
          /\ text' = Rewritten(changed)
          /\ report' = s.report /\ judged' = s.judged \ changed /\ basis' = text

\* A repair is adopted: the same passages, some rewritten, and the report of the
\* screening they were given, whatever it says of them.  The screening that asked for
\* it had left no passage out.
AdoptRepair ==
  \E changed \in SUBSET Node, s \in AllStages :
    /\ \A n \in changed : text[n] < MaxRevision
    /\ text' = Rewritten(changed)
    /\ Persist(s, Node)

\* The pipeline: screen, and rewrite once what is only flagged.
Pipeline(allowRepair) ==
  \/ \E s \in AllStages \cup {EntryBlocked} : UNCHANGED text /\ Persist(s, judged)
  \/ allowRepair /\ Repairable /= {} /\ AdoptRepair

\* A new story is moderated in the transaction that stores it.
Moderate ==
  /\ status = "draft"
  /\ Pipeline(TRUE)
  /\ Move(IF BlocksRelease(report') THEN "auto_reject" ELSE "submit")
  /\ UNCHANGED <<current, approval>>

Remoderatable == {"in_review", "published"}

\* Fault: a published story is repaired like one in review.
AllowRepairAlways == TRUE

\* Only a story no reader is given may be rewritten.
AllowRepair == status = "in_review"

\* A second moderation.  The transition it ends with is not legal in the statuses
\* it accepts and the refusal is swallowed: the report is replaced, the status
\* stays.
Remoderate ==
  /\ status \in Remoderatable
  /\ Pipeline(AllowRepair)
  /\ UNCHANGED <<storybook, approval>>

-----------------------------------------------------------------------------
(***************************************************************************)
(* An edit of one passage by an admin or a guardian (api/node_edit.py):    *)
(* the passage is screened by itself and the answer merged into the        *)
(* stored report.                                                          *)
(***************************************************************************)
\* Fault: every story that was screened can be edited.
EditableOnceScreened == Status \ {"draft"}

Editable == {"in_review", "needs_revision"}

\* Findings of the classifiers and of the reviewer on the passage give way to the
\* new ones.  Those on the whole story stay, and so do the gaps: the reviewer's is
\* filed by the pipeline, the classifier's on no passage.
Merged(n, verdict, reviewed, screened) ==
  [report EXCEPT !.found[n] = verdict,
                 !.unreviewed = IF reviewed THEN @ ELSE @ \cup {n},
                 !.unscreened = @ \/ ~screened]

\* The edited passage goes to the classifiers and, unless they block it, to the
\* reviewer, who may give no usable answer.
ScreenPassage(n) ==
  \/ /\ report' = Merged(n, "block", TRUE, TRUE)
     /\ judged' = judged \ {n}
  \/ \E verdict \in Verdict, screened \in BOOLEAN :
       /\ report' = Merged(n, verdict, TRUE, screened)
       /\ judged' = judged \cup {n}
  \/ \E screened \in BOOLEAN :
       /\ report' = Merged(n, "clean", FALSE, screened)
       /\ judged' = judged \ {n}

Edit(n) ==
  /\ status \in Editable
  /\ text[n] < MaxRevision
  /\ text' = Rewritten({n})
  /\ basis' = [basis EXCEPT ![n] = text[n] + 1]
  /\ ScreenPassage(n)
  /\ UNCHANGED <<storybook, approval>>

-----------------------------------------------------------------------------
(***************************************************************************)
(* What an admin does (api/approval.py, publishing/service.py).            *)
(***************************************************************************)
\* Fault: a story that was never screened can be submitted.
SubmitUnscreened ==
  /\ Move("submit")
  /\ UNCHANGED <<current, text, review, approval>>

Submit ==
  /\ Move("submit") /\ report /= NoReport
  /\ UNCHANGED <<current, text, review, approval>>

\* A report with a gap cannot be approved; a severe finding takes an override.  One
\* that holds no judgement at all has a gap on every passage.
Permits(r, override) ==
  r /= NoReport /\ ~CoverageGap(r) /\ (Severe(r) => override)

\* The text approved is the text as it is now, whatever the admin was shown.
Approve(a, override) ==
  /\ Move("approve") /\ Permits(report, override)
  /\ current' = TRUE
  /\ approvedBy' = a /\ approvedText' = text
  /\ UNCHANGED <<text, review>>

SendBack ==
  /\ Move("send_back")
  /\ UNCHANGED <<current, text, review, approval>>

\* The approval and the current version stay as they are, here and on archiving.
Recall ==
  /\ Move("recall")
  /\ UNCHANGED <<current, text, review, approval>>

Archive ==
  /\ Move("archive")
  /\ UNCHANGED <<current, text, review, approval>>

-----------------------------------------------------------------------------
Next ==
  \/ Moderate \/ Remoderate \/ Submit \/ SendBack \/ Recall \/ Archive
  \/ \E n \in Node : Edit(n)
  \/ \E a \in Admin : \E override \in BOOLEAN : Approve(a, override)

Spec == Init /\ [][Next]_vars

-----------------------------------------------------------------------------
TypeOK ==
  /\ status \in Status /\ text \in Text
  /\ report \in IF status = "draft" THEN {NoReport} ELSE Report
  /\ current \in BOOLEAN
  /\ approvedBy \in Admin \cup {NoOne} /\ approvedText \in Text \cup {Nothing}
  /\ basis \in Text /\ judged \subseteq Node

\* A story that readers are given has the version the library serves, an admin who
\* approved it, and says what it said then: neither a recall, an edit or repair and
\* a second approval, nor a moderation of the published story gets around it.
PublishedAsApproved ==
  status \in {"published", "archived"} =>
    current /\ approvedBy \in Admin /\ approvedText = text

\* The report the gate reads is about the story as it now reads: every verdict in it
\* was given on the present text of its passage, whether the passage was repaired,
\* edited or screened again since.
ReportSpeaksOfText == report /= NoReport => basis = text

\* The shelf: what is published is put there by an admin and never changes there.
Shelf == INSTANCE StoryShelf
  WITH shelf <- IF status = "published" THEN text ELSE Nothing, approver <- approvedBy

ShelfIsKept == Shelf!Spec

-----------------------------------------------------------------------------
(***************************************************************************)
(* What the documents and comments say and the code does not do.           *)
(***************************************************************************)
\* An approval never rests on a review that silently skipped part of the story: of
\* what is approved without overriding a finding, the reviewer has judged every passage
\* as it reads, in this screening or an earlier one.
CleanApprovalIsReviewed ==
  [][status = "in_review" /\ status' = "published" /\ ~Severe(report) => judged = Node]_vars
=============================================================================
