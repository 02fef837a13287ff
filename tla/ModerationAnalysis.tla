--------------------------- MODULE ModerationAnalysis ---------------------------
(***************************************************************************)
(* What the moderators are told about a reported content by a classifier:   *)
(* a report asks for an analysis of the text it saw, a worker outside the   *)
(* backend classifies it, the result comes back over Kafka, policy runners  *)
(* turn it into advice, and a case shows the advice only while it is about  *)
(* the text as it is now.  One case of one content.                         *)
(***************************************************************************)
EXTENDS Naturals, Sequences, FiniteSets

CONSTANTS
  Texts,        \* what the content may say
  Evidence,     \* what the classifier may find
  Supported,    \* the evidence the policy has rules for
  Workers, Runners,
  Legacy,       \* texts analysed before the policy was deployed: no evaluation exists
  MaxAttempts,  \* POLICY_MAX_ATTEMPTS
  MaxFaults     \* rebalances and crashes of the workers

Gone == "gone"            \* the content was removed, or its parent is not available
Failed == "failed"        \* the classifier timed out or threw
NoEvidence == "none"
Outcomes == Evidence \cup {Failed}

ASSUME TextsAssumption == Gone \notin Texts /\ IsFiniteSet(Texts) /\ \E t \in Texts : Legacy \subseteq {t}
ASSUME EvidenceAssumption == Supported \subseteq Evidence /\ {Failed, NoEvidence} \cap Evidence = {}
ASSUME AttemptsAssumption == MaxAttempts \in Nat \ {0} /\ MaxFaults \in Nat

VARIABLES
  text, open,   \* the content, and whether its case is active
  snapshots,    \* the text read by a report that is not filed yet
  analyses,     \* ModerationAnalysis rows, in the order of their generations
  offset,       \* requests committed on the topic: one request per analysis, in their order
  owner,        \* the worker the partition is assigned to
  worker,       \* what each worker is doing
  faults,
  results,      \* result events, which Kafka may deliver in any order and again
  processed,    \* ProcessedEvent rows: one event id per analysis, however often a request is worked
  evaluation,   \* ModerationPolicyEvaluation rows
  runner        \* the claim each policy runner holds

content == <<text, open, snapshots>>
kafka == <<offset, owner, worker, faults, results>>
analysisVars == <<text, open, snapshots, analyses, offset, owner, worker, faults, results, processed, evaluation, runner>>

Idle == [at |-> "idle", job |-> 0, outcome |-> NoEvidence]
NoClaim == [job |-> 0, attempt |-> 0, found |-> NoEvidence]
NoEvaluation == [status |-> "ABSENT", attempts |-> 0, lease |-> "none", output |-> NoEvidence]
Enqueued == [NoEvaluation EXCEPT !.status = "PENDING"]

\* A text is analysed once in a case: a generation per text at most.
Jobs == 1 .. Len(analyses)
AllJobs == 1 .. Cardinality(Texts)
AnalysisOf(t, status) == [text |-> t, status |-> status, result |-> NoEvidence]

-----------------------------------------------------------------------------
(* The content and its case.                                                 *)

\* (Bound: nothing follows an edit once the case is closed.)
Edit(t) ==
  /\ open
  /\ t # text
  /\ text' = t
  /\ UNCHANGED <<open, snapshots, analyses, kafka, processed, evaluation, runner>>

\* Reports that were not filed yet go to another case.
Close ==
  /\ open
  /\ open' = FALSE
  /\ snapshots' = {}
  /\ UNCHANGED <<text, analyses, kafka, processed, evaluation, runner>>

\* A report reads the content before its transaction.  (Bound: one report at a time.)
TakeSnapshot ==
  /\ open
  /\ text # Gone
  /\ snapshots = {}
  /\ snapshots' = {text}
  /\ UNCHANGED <<text, open, analyses, kafka, processed, evaluation, runner>>

\* scheduleIfNeeded, in the transaction that files the report and holds the case: the analysis of that text is
\* used again whatever came of it, a new one takes the next generation.
FileReport(t) ==
  /\ open
  /\ t \in snapshots
  /\ snapshots' = snapshots \ {t}
  /\ analyses' = IF \E j \in Jobs : analyses[j].text = t THEN analyses
                 ELSE Append(analyses, AnalysisOf(t, "PENDING"))
  /\ UNCHANGED <<text, open, kafka, processed, evaluation, runner>>

-----------------------------------------------------------------------------
(* The workers: one request at a time, committed after its result was published. *)

NextRequest == offset + 1

\* Fetches the input of the request from the backend, and classifies it.
Classify(w, outcome) ==
  /\ owner = w
  /\ worker[w].at = "idle"
  /\ NextRequest \in Jobs
  /\ worker' = [worker EXCEPT ![w] = [at |-> "classified", job |-> NextRequest, outcome |-> outcome]]
  /\ UNCHANGED <<content, analyses, offset, owner, faults, results, processed, evaluation, runner>>

\* Also by a worker that has not polled since it lost the partition.
Publish(w) ==
  /\ worker[w].at = "classified"
  /\ results' = results \cup {[job |-> worker[w].job, outcome |-> worker[w].outcome]}
  /\ worker' = [worker EXCEPT ![w].at = "published", ![w].outcome = NoEvidence]
  /\ UNCHANGED <<content, analyses, offset, owner, faults, processed, evaluation, runner>>

Commit(w) ==
  /\ worker[w].at = "published"
  /\ owner = w
  /\ offset' = worker[w].job
  /\ worker' = [worker EXCEPT ![w] = Idle]
  /\ UNCHANGED <<content, analyses, owner, faults, results, processed, evaluation, runner>>

\* A checkpoint polls and finds that the partition is another worker's.
Cancel(w) ==
  /\ worker[w].at # "idle"
  /\ owner # w
  /\ worker' = [worker EXCEPT ![w] = Idle]
  /\ UNCHANGED <<content, analyses, offset, owner, faults, results, processed, evaluation, runner>>

Rebalance(w) ==
  /\ faults < MaxFaults
  /\ owner # w
  /\ worker[w].at = "idle"
  /\ owner' = w
  /\ faults' = faults + 1
  /\ UNCHANGED <<content, analyses, offset, worker, results, processed, evaluation, runner>>

\* The process dies, or stops because the backend, the producer or the commit failed; it is started again.
Crash(w) ==
  /\ faults < MaxFaults
  /\ worker[w].at # "idle"
  /\ worker' = [worker EXCEPT ![w] = Idle]
  /\ faults' = faults + 1
  /\ UNCHANGED <<content, analyses, offset, owner, results, processed, evaluation, runner>>

-----------------------------------------------------------------------------
(* Results.                                                                  *)

\* (Mutant: every result event is applied.)
AnyResult(e) == TRUE

\* The event id is claimed, and the analysis still waits.
IsFirstResult(e) == e.job \notin processed /\ analyses[e.job].status = "PENDING"

\* In one transaction: the claim, the terminal status, and the evaluation of a success.
Ingest(e) ==
  /\ IsFirstResult(e)
  /\ processed' = processed \cup {e.job}
  /\ analyses' = [analyses EXCEPT ![e.job].status = IF e.outcome = Failed THEN "FAILED" ELSE "SUCCEEDED",
                                  ![e.job].result = IF e.outcome = Failed THEN NoEvidence ELSE e.outcome]
  /\ evaluation' = IF e.outcome # Failed /\ evaluation[e.job].status = "ABSENT"
                   THEN [evaluation EXCEPT ![e.job] = Enqueued] ELSE evaluation
  /\ UNCHANGED <<content, kafka, runner>>

\* The work of an older build: a success that was never enqueued.
Reconcile(j) ==
  /\ analyses[j].status = "SUCCEEDED"
  /\ evaluation[j].status = "ABSENT"
  /\ evaluation' = [evaluation EXCEPT ![j] = Enqueued]
  /\ UNCHANGED <<content, analyses, kafka, processed, runner>>

-----------------------------------------------------------------------------
(* Policy runners: leases and attempts.                                      *)

IsBusy(r) == runner[r] # NoClaim

\* (Mutant: work whose runner died is never picked again.)
NeverLeased(j) == evaluation[j].status = "PENDING" /\ evaluation[j].lease = "none"

IsClaimable(j) == evaluation[j].status = "PENDING" /\ evaluation[j].lease # "held"

\* The stored result is loaded at once: it does not change any more.
ClaimEvaluation(r, j) ==
  /\ ~IsBusy(r)
  /\ IsClaimable(j)
  /\ evaluation[j].attempts < MaxAttempts
  /\ evaluation' = [evaluation EXCEPT ![j].attempts = @ + 1, ![j].lease = "held"]
  /\ runner' = [runner EXCEPT ![r] =
       [job |-> j, attempt |-> evaluation[j].attempts + 1, found |-> analyses[j].result]]
  /\ UNCHANGED <<content, analyses, kafka, processed>>

Exhaust(r, j) ==
  /\ ~IsBusy(r)
  /\ IsClaimable(j)
  /\ evaluation[j].attempts >= MaxAttempts
  /\ evaluation' = [evaluation EXCEPT ![j].status = "FAILED", ![j].lease = "none"]
  /\ UNCHANGED <<content, analyses, kafka, processed, runner>>

LeaseExpires(j) ==
  /\ evaluation[j].lease = "held"
  /\ evaluation' = [evaluation EXCEPT ![j].lease = "expired"]
  /\ UNCHANGED <<content, analyses, kafka, processed, runner>>

\* (Mutant: the row is written by its id alone.)
HasClaim(r) == IsBusy(r)

\* The WHERE of succeed, unsupported and retry: the row waits, under the claim's own lease (each attempt has its
\* own token), which has not run out.
HoldsLease(r) ==
  /\ IsBusy(r)
  /\ evaluation[runner[r].job].status = "PENDING"
  /\ evaluation[runner[r].job].lease = "held"
  /\ evaluation[runner[r].job].attempts = runner[r].attempt

Settle(r, status, output) ==
  evaluation' = [evaluation EXCEPT ![runner[r].job].status = status, ![runner[r].job].lease = "none",
                                   ![runner[r].job].output = output]

Done(r) == runner' = [runner EXCEPT ![r] = NoClaim] /\ UNCHANGED <<content, analyses, kafka, processed>>

Succeed(r) == HoldsLease(r) /\ runner[r].found \in Supported /\ Settle(r, "SUCCEEDED", runner[r].found) /\ Done(r)

Unsupported(r) == HoldsLease(r) /\ runner[r].found \notin Supported /\ Settle(r, "UNSUPPORTED", NoEvidence) /\ Done(r)

\* The evaluator threw, or its output was not valid.
Retry(r) ==
  /\ HoldsLease(r)
  /\ runner[r].found \in Supported
  /\ Settle(r, IF runner[r].attempt >= MaxAttempts THEN "FAILED" ELSE "PENDING", NoEvidence)
  /\ Done(r)

\* The lease was lost, the database failed or the runner died: the row is left as it is.
Abandon(r) ==
  /\ IsBusy(r)
  /\ UNCHANGED evaluation
  /\ Done(r)

-----------------------------------------------------------------------------
(* What a moderator sees.                                                    *)

Newest == Len(analyses)

IsAboutTheText == analyses[Newest].text = text

Advisory ==
  IF ~open THEN "CASE_CLOSED"
  ELSE IF text = Gone THEN "TARGET_UNAVAILABLE"
  ELSE IF Newest = 0 THEN "NO_ANALYSIS"
  ELSE IF ~IsAboutTheText THEN "CONTENT_CHANGED"
  ELSE IF analyses[Newest].status = "PENDING" THEN "ANALYSIS_PENDING"
  ELSE IF analyses[Newest].status = "FAILED" THEN "ANALYSIS_FAILED"
  ELSE IF analyses[Newest].result \notin Supported THEN "UNSUPPORTED_EVIDENCE"
  ELSE IF evaluation[Newest].status \in {"ABSENT", "PENDING"} THEN "POLICY_PENDING"
  ELSE IF evaluation[Newest].status = "FAILED" THEN "POLICY_FAILED"
  ELSE IF evaluation[Newest].status = "UNSUPPORTED" THEN "UNSUPPORTED_EVIDENCE"
  ELSE "CURRENT"

-----------------------------------------------------------------------------
\* The result of a legacy text came before the policy, and its request and event were dealt with then.
AnalysisInit ==
  /\ text \in (IF Legacy = {} THEN Texts ELSE Legacy)
  /\ open = TRUE
  /\ snapshots = {}
  /\ analyses \in IF Legacy = {} THEN {<<>>}
                  ELSE {<<[text |-> t, status |-> "SUCCEEDED", result |-> e]>> : t \in Legacy, e \in Supported}
  /\ offset = Len(analyses)
  /\ processed = 1 .. Len(analyses)
  /\ owner = CHOOSE w \in Workers : TRUE
  /\ worker = [w \in Workers |-> Idle]
  /\ faults = 0
  /\ results = {}
  /\ evaluation = [j \in AllJobs |-> NoEvaluation]
  /\ runner = [r \in Runners |-> NoClaim]

WorkerStep(w) == (\E o \in Outcomes : Classify(w, o)) \/ Publish(w) \/ Commit(w) \/ Cancel(w)
RunnerStep(r) ==
  \/ \E j \in Jobs : ClaimEvaluation(r, j) \/ Exhaust(r, j)
  \/ Succeed(r) \/ Unsupported(r) \/ Retry(r) \/ Abandon(r)

AnalysisNext ==
  \/ \E t \in Texts \cup {Gone} : Edit(t)
  \/ Close
  \/ TakeSnapshot
  \/ \E t \in Texts : FileReport(t)
  \/ \E w \in Workers : WorkerStep(w) \/ Rebalance(w) \/ Crash(w)
  \/ \E e \in results : Ingest(e)
  \/ \E j \in Jobs : Reconcile(j) \/ LeaseExpires(j)
  \/ \E r \in Runners : RunnerStep(r)

AnalysisSpec == AnalysisInit /\ [][AnalysisNext]_analysisVars

\* Workers and runners poll for ever (one of them is enough), results are delivered, reconciliation is periodic, and
\* time passes.
FairAnalysisSpec ==
  /\ AnalysisSpec
  /\ WF_analysisVars(\E w \in Workers : WorkerStep(w))
  /\ WF_analysisVars(\E r \in Runners : RunnerStep(r))
  /\ WF_analysisVars(\E e \in results : Ingest(e))
  /\ WF_analysisVars(\E j \in Jobs : Reconcile(j))
  /\ WF_analysisVars(\E j \in Jobs : LeaseExpires(j))

-----------------------------------------------------------------------------
(* Properties.                                                               *)

Settled == {"SUCCEEDED", "UNSUPPORTED", "FAILED"}

\* What a moderator is shown was computed from the one result that was accepted for the text as it is now, whatever
\* came twice or late, and whoever edited the content meanwhile.
AdviceIsAboutTheText ==
  /\ \A j \in Jobs : evaluation[j].status = "SUCCEEDED" => evaluation[j].output = analyses[j].result
  /\ Advisory = "CURRENT" => \E j \in Jobs : analyses[j].text = text /\ evaluation[j].output \in Supported

\* An evaluation that was settled stays as it is: a runner that comes back after its lease changes nothing.
SettledAdviceStays ==
  [][\A j \in Jobs : evaluation[j].status \in Settled => evaluation'[j] = evaluation[j]]_analysisVars

\* Every analysis that was asked for fails for good or gets its evaluation, although workers and runners die with
\* work in their hands.
EveryReportIsAnalysed ==
  \A j \in AllJobs : j \in Jobs ~> evaluation[j].status \in Settled \/ (j \in Jobs /\ analyses[j].status = "FAILED")
=============================================================================
