----------------------- MODULE StatementPipelineProofs -----------------------
EXTENDS StatementPipeline, TLAPS

-----------------------------------------------------------------------------
(* Facts about the tables and the records                                  *)

LEMMA RankFacts ==
  /\ \A s \in Statuses : Rank[s] \in 0..3
  /\ Rank["uploaded"] = 0 /\ Rank["extracted"] = 1
  /\ Rank["normalized"] = 2 /\ Rank["approved"] = 3
  BY DEF Rank, Statuses

LEMMA PhaseFacts ==
  /\ \A s \in Statuses : PhaseFor[s] \in Phases \cup {None}
  /\ PhaseFor["uploaded"] = "extraction" /\ PhaseFor["extracted"] = "normalization"
  /\ StatusAfter["extraction"] = "extracted"
  /\ StatusAfter["normalization"] = "normalized"
  /\ \A p \in Phases : StatusAfter[p] \in Statuses
  BY DEF PhaseFor, StatusAfter, Statuses, Phases, None

LEMMA CopyMade ==
  ASSUME NEW s \in Statuses, NEW b \in BOOLEAN, NEW f \in Phases \cup {None}
  PROVE  [status |-> s, busy |-> b, failed |-> f] \in CopyType
  BY DEF CopyType

LEMMA CopyParts ==
  ASSUME NEW x \in CopyType
  PROVE  /\ x.status \in Statuses /\ x.busy \in BOOLEAN
         /\ x.failed \in Phases \cup {None}
         /\ [x EXCEPT !.busy = TRUE] \in CopyType
         /\ [x EXCEPT !.busy = TRUE].status = x.status
  BY DEF CopyType

LEMMA CopyFailed ==
  ASSUME NEW x \in CopyType, NEW f \in Phases \cup {None}
  PROVE  /\ [x EXCEPT !.failed = f, !.busy = FALSE] \in CopyType
         /\ [x EXCEPT !.failed = f, !.busy = FALSE].status = x.status
  BY DEF CopyType

LEMMA NoCopyTyped == NoCopy \in CopyType /\ NoCopy.status = "uploaded"
  BY DEF NoCopy, CopyType, Statuses, None

LEMMA RowParts ==
  ASSUME NEW r \in RowType
  PROVE  /\ r.status \in Statuses /\ r.is_processing \in BOOLEAN
         /\ r.failed_phase \in Phases \cup {None} /\ r.account \in BOOLEAN
  BY DEF RowType

LEMMA RowFailed ==
  ASSUME NEW r \in RowType, NEW p \in Phases \cup {None}
  PROVE  /\ [r EXCEPT !.failure_reason = TRUE, !.failed_phase = p,
                      !.is_processing = FALSE] \in RowType
         /\ [r EXCEPT !.is_processing = FALSE, !.failure_reason = TRUE,
                      !.failed_phase = p] \in RowType
  BY DEF RowType

LEMMA RowEdits ==
  ASSUME NEW r \in RowType
  PROVE  /\ [r EXCEPT !.is_processing = TRUE] \in RowType
         /\ [r EXCEPT !.account = TRUE] \in RowType
         /\ [r EXCEPT !.account = FALSE] \in RowType
         /\ [r EXCEPT !.status = "approved", !.failure_reason = FALSE,
                      !.failed_phase = None] \in RowType
  BY DEF RowType, Statuses, None

-----------------------------------------------------------------------------
(* Type correctness                                                        *)

\* A call that has found its job ended holds a status with a phase of its own.
InPhase ==
  \A c \in Calls : pc[c] \in {"succeeded", "recorded", "failing"}
                   => copy[c].status \in {"uploaded", "extracted"}

TypeInv == TypeOK /\ InPhase

LEMMA WorkingPhase ==
  ASSUME TypeOK, NEW c \in Calls, Working(c)
  PROVE  copy[c].status \in {"uploaded", "extracted"} /\ Phase(c) \in Phases
<1>1. copy[c].status \in Statuses /\ target[c] \in Targets
  BY CopyParts DEF TypeOK
<1>2. Rank[target[c]] \in 0..2 /\ Rank[copy[c].status] \in 0..3
  BY <1>1, RankFacts DEF Targets
<1>3. copy[c].status \in {"uploaded", "extracted"}
  BY <1>1, <1>2, RankFacts DEF Working, Behind, Statuses
<1>. QED
  BY <1>3, PhaseFacts DEF Phase, Phases

\* The end of a call leaves every part of its state well typed.
LEMMA EndTyped ==
  ASSUME TypeInv, NEW c \in Calls, End(c)
  PROVE  /\ pc' \in [Calls -> PCs] /\ target' \in [Calls -> Targets]
         /\ copy' \in [Calls -> CopyType] /\ job' \in [Calls -> Nat]
         /\ poll' \in [Calls -> Nat] /\ retries' \in [Calls -> Nat]
         /\ silent' \in [Calls -> BOOLEAN]
         /\ InPhase'
<1>. USE DEF TypeInv, TypeOK, End, Goto
<1>1. copy' \in [Calls -> CopyType]
  BY NoCopyTyped
<1>2. pc' \in [Calls -> PCs] /\ target' \in [Calls -> Targets]
  BY DEF PCs, Targets
<1>3. InPhase'
  BY DEF InPhase
<1>. QED
  BY <1>1, <1>2, <1>3

LEMMA LeaveTyped ==
  ASSUME TypeInv, NEW c \in Calls, Leave(c)
  PROVE  told' \in CopyType \cup {[status |-> None, busy |-> FALSE, failed |-> None]}
  BY DEF TypeInv, TypeOK, Leave

\* A step of a call that only moves its control.
LEMMA GotoTyped ==
  ASSUME TypeInv, NEW c \in Calls, NEW there \in PCs, Goto(c, there), UNCHANGED copy,
         there \in {"succeeded", "recorded", "failing"}
           => copy[c].status \in {"uploaded", "extracted"}
  PROVE  pc' \in [Calls -> PCs] /\ InPhase'
  BY DEF TypeInv, TypeOK, Goto, InPhase

LEMMA TypeInvInit == Init => TypeInv
<1>. SUFFICES ASSUME Init PROVE TypeInv
  OBVIOUS
<1>1. row \in RowType
  BY DEF Init, RowType, Statuses, None
<1>2. copy \in [Calls -> CopyType]
  BY NoCopyTyped DEF Init
<1>3. jobs \in Seq(JobType)
  BY DEF Init
<1>. QED
  BY <1>1, <1>2, <1>3 DEF Init, TypeInv, TypeOK, InPhase, PCs, Targets

LEMMA TypeInvStep == TypeInv /\ [Next]_vars => TypeInv'
<1>. SUFFICES ASSUME TypeInv, [Next]_vars PROVE TypeInv'
  OBVIOUS
<1>. USE DEF TypeInv, TypeOK, statement, args, task
<1>1. ASSUME NEW c \in Calls, NEW t \in Targets, Upload(c, t) \/ Patch(c, t) PROVE TypeInv'
  <2>1. "validated" \in PCs
    BY DEF PCs, WebPC
  <2>. QED
    BY <1>1, <2>1, GotoTyped DEF Upload, Patch, Validated
<1>2. ASSUME NEW c \in Calls, Mark(c) PROVE TypeInv'
  <2>1. "marked" \in PCs
    BY DEF PCs, WebPC
  <2>2. CASE Present
    BY <1>2, <2>1, <2>2, GotoTyped, RowEdits DEF Mark
  <2>3. CASE ~Present
    BY <1>2, <2>3, EndTyped DEF Mark
  <2>. QED
    BY <2>2, <2>3
<1>3. ASSUME NEW c \in Calls, Enqueue(c) PROVE TypeInv'
  <2>1. "queued" \in PCs
    BY DEF PCs
  <2>. QED
    BY <1>3, <2>1, GotoTyped DEF Enqueue
<1>4. ASSUME NEW c \in Calls, Fetch(c) PROVE TypeInv'
  <2>1. CASE Present
    <3> DEFINE read == [status |-> row.status, busy |-> row.is_processing,
                        failed |-> row.failed_phase]
    <3>a. read \in CopyType
      BY RowParts, CopyMade
    <3> HIDE DEF read
    <3>1. copy' \in [Calls -> CopyType]
      BY <1>4, <2>1, <3>a DEF Fetch, read
    <3>2. pc' \in [Calls -> PCs]
      BY <1>4, <2>1 DEF Fetch, Goto, PCs, WorkerPC
    <3>3. InPhase'
      BY <1>4, <2>1 DEF Fetch, Goto, InPhase
    <3>. QED
      BY <1>4, <2>1, <3>1, <3>2, <3>3 DEF Fetch
  <2>2. CASE ~Present
    BY <1>4, <2>2, EndTyped DEF Fetch
  <2>. QED
    BY <2>1, <2>2
<1>5. ASSUME NEW c \in Calls, TargetReached(c) PROVE TypeInv'
  <2>1. "finishing" \in PCs
    BY DEF PCs, WorkerPC
  <2>. QED
    BY <1>5, <2>1, GotoTyped DEF TargetReached
<1>6. ASSUME NEW c \in Calls, Remark(c) PROVE TypeInv'
  <2>1. copy' \in [Calls -> CopyType] /\ \A d \in Calls : copy'[d].status = copy[d].status
    BY <1>6, CopyParts DEF Remark
  <2>2. row' \in RowType
    BY <1>6, RowEdits DEF Remark
  <2>3. pc' \in [Calls -> PCs]
    BY <1>6 DEF Remark, Goto, PCs, WorkerPC
  <2>4. InPhase'
    BY <1>6, <2>1 DEF Remark, Goto, InPhase
  <2>. QED
    BY <1>6, <2>1, <2>2, <2>3, <2>4 DEF Remark
<1>7. ASSUME NEW c \in Calls, Submit(c) PROVE TypeInv'
  <2>1. Phase(c) \in Phases
    BY <1>7, WorkingPhase DEF Submit
  <2>a. \A run \in Nat : [phase |-> Phase(c), run |-> run, state |-> "running"] \in JobType
    BY <2>1 DEF JobType
  <2> DEFINE run == IF Phase(c) = "extraction" THEN 0 ELSE ocr
             new == [phase |-> Phase(c), run |-> run, state |-> "running"]
  <2>b. new \in JobType
    BY <2>a
  <2>c. InFlight(Phase(c), run) \subseteq Nat
    BY DEF InFlight
  <2>d. \/ UNCHANGED jobs /\ \E j \in InFlight(Phase(c), run) : job' = [job EXCEPT ![c] = j]
        \/ jobs' = Append(jobs, new) /\ job' = [job EXCEPT ![c] = Len(jobs) + 1]
    BY <1>7 DEF Submit
  <2>e. Append(jobs, new) \in Seq(JobType) /\ Len(jobs) + 1 \in Nat
    BY <2>b
  <2>f. \A n \in Nat : [job EXCEPT ![c] = n] \in [Calls -> Nat]
    OBVIOUS
  <2> HIDE DEF run, new
  <2>2. jobs' \in Seq(JobType)
    BY <2>d, <2>e
  <2>3. job' \in [Calls -> Nat]
    BY <2>c, <2>d, <2>e, <2>f
  <2>. QED
    BY <1>7, <2>2, <2>3 DEF Submit, InPhase
<1>8. ASSUME NEW c \in Calls, ServiceFails(c) \/ PollFailed(c) PROVE TypeInv'
  <2>1. "failing" \in PCs
    BY DEF PCs, WorkerPC
  <2>2. copy[c].status \in {"uploaded", "extracted"}
    BY <1>8, WorkingPhase DEF ServiceFails, PollFailed, Polling
  <2>. QED
    BY <1>8, <2>1, <2>2, GotoTyped DEF ServiceFails, PollFailed
<1>9. ASSUME NEW c \in Calls, PollSucceeded(c) PROVE TypeInv'
  <2>1. "succeeded" \in PCs
    BY DEF PCs, WorkerPC
  <2>2. copy[c].status \in {"uploaded", "extracted"}
    BY <1>9, WorkingPhase DEF PollSucceeded, Polling
  <2>. QED
    BY <1>9, <2>1, <2>2, GotoTyped DEF PollSucceeded
<1>10. ASSUME NEW c \in Calls, Retry(c) PROVE TypeInv'
  <2>1. copy' \in [Calls -> CopyType]
    BY <1>10, NoCopyTyped DEF Retry
  <2>2. pc' \in [Calls -> PCs]
    BY <1>10 DEF Retry, Goto, PCs
  <2>3. InPhase'
    BY <1>10 DEF Retry, Goto, InPhase
  <2>. QED
    BY <1>10, <2>1, <2>2, <2>3 DEF Retry
<1>11. ASSUME NEW c \in Calls, RetriesExceeded(c) \/ RetryRefused(c) PROVE TypeInv'
  <2>1. "raised" \in PCs
    BY DEF PCs, WorkerPC
  <2>. QED
    <3>1. pc' \in [Calls -> PCs] /\ InPhase'
      BY <1>11, <2>1, GotoTyped DEF RetriesExceeded, RetryRefused
    <3>2. silent' \in [Calls -> BOOLEAN]
      BY <1>11 DEF RetriesExceeded, RetryRefused
    <3>3. faults' \in Nat
      BY <1>11 DEF RetriesExceeded, RetryRefused
    <3>. QED
      BY <1>11, <3>1, <3>2, <3>3 DEF RetriesExceeded, RetryRefused
<1>12. ASSUME NEW c \in Calls, Record(c) PROVE TypeInv'
  <2>1. "raised" \in PCs /\ "recorded" \in PCs
    BY DEF PCs, WorkerPC
  <2>2. pc' \in [Calls -> PCs] /\ InPhase'
    BY <1>12, <2>1, GotoTyped DEF Record, InPhase
  <2>3. ocr' \in Nat /\ norm' \in Nat
    BY <1>12 DEF Record
  <2>. QED
    BY <1>12, <2>2, <2>3 DEF Record
<1>13. ASSUME NEW c \in Calls, Finalize(c) PROVE TypeInv'
  <2>1. StatusAfter[Phase(c)] \in Statuses
    BY <1>13, PhaseFacts DEF Finalize, InPhase, Phase, Phases
  <2>2. copy' \in [Calls -> CopyType]
    BY <1>13, <2>1, CopyMade DEF Finalize, Advanced
  <2>3. row' \in RowType
    BY <1>13, <2>1, RowParts DEF Finalize, RowType
  <2>4. pc' \in [Calls -> PCs]
    BY <1>13 DEF Finalize, Goto, PCs, WorkerPC
  <2>5. InPhase'
    BY <1>13 DEF Finalize, Advanced, Goto, InPhase
  <2>. QED
    BY <1>13, <2>2, <2>3, <2>4, <2>5 DEF Finalize
<1>14. ASSUME NEW c \in Calls, FinalizerRaises(c) PROVE TypeInv'
  <2>1. StatusAfter[Phase(c)] \in Statuses
    BY <1>14, PhaseFacts DEF FinalizerRaises, InPhase, Phase, Phases
  <2>2. copy' \in [Calls -> CopyType]
    <3>1. CASE UNCHANGED copy
      BY <3>1
    <3>2. CASE Advanced(c)
      <4>1. [status |-> StatusAfter[Phase(c)], busy |-> FALSE, failed |-> None] \in CopyType
        BY <2>1, CopyMade
      <4>. QED
        BY <3>2, <4>1 DEF Advanced
    <3>. QED
      BY <1>14, <3>1, <3>2 DEF FinalizerRaises
  <2>3. pc' \in [Calls -> PCs]
    BY <1>14 DEF FinalizerRaises, Goto, PCs, WorkerPC
  <2>4. InPhase'
    BY <1>14 DEF FinalizerRaises, Advanced, Goto, InPhase
  <2>. QED
    BY <1>14, <2>2, <2>3, <2>4 DEF FinalizerRaises
<1>15. ASSUME NEW c \in Calls, FailPhase(c) PROVE TypeInv'
  <2>1. Phase(c) \in Phases
    BY <1>15, PhaseFacts DEF FailPhase, InPhase, Phase, Phases
  <2>2. copy' \in [Calls -> CopyType] /\ \A d \in Calls : copy'[d].status = copy[d].status
    BY <1>15, <2>1, CopyFailed DEF FailPhase
  <2>3. row' \in RowType
    <3>1. CASE Present
      <4>1. row' = [row EXCEPT !.failure_reason = TRUE, !.failed_phase = Phase(c),
                               !.is_processing = FALSE]
        BY <1>15, <3>1 DEF FailPhase
      <4>. QED
        BY <2>1, <4>1, RowFailed
    <3>2. CASE ~Present
      BY <1>15, <3>2 DEF FailPhase
    <3>. QED
      BY <3>1, <3>2
  <2>4. pc' \in [Calls -> PCs]
    BY <1>15 DEF FailPhase, Goto, PCs, WorkerPC
  <2>5. InPhase'
    BY <1>15, <2>2 DEF FailPhase, Goto, InPhase
  <2>. QED
    BY <1>15, <2>2, <2>3, <2>4, <2>5 DEF FailPhase
<1>16. ASSUME NEW c \in Calls, HandlerRefresh(c) PROVE TypeInv'
  <2>1. CASE Present
    <3> DEFINE why == IF row.failed_phase # None THEN row.failed_phase
                      ELSE PhaseFor[row.status]
               read == [status |-> row.status, busy |-> FALSE, failed |-> why]
    <3>a. why \in Phases \cup {None}
      BY RowParts, PhaseFacts
    <3>b. read \in CopyType
      BY <3>a, RowParts, CopyMade
    <3>1. copy' \in [Calls -> CopyType]
      BY <1>16, <2>1, <3>b DEF HandlerRefresh
    <3>2. pc' \in [Calls -> PCs]
      BY <1>16, <2>1 DEF HandlerRefresh, Goto, PCs, WorkerPC
    <3>3. InPhase'
      BY <1>16, <2>1 DEF HandlerRefresh, Goto, InPhase
    <3>. QED
      BY <1>16, <2>1, <3>1, <3>2, <3>3 DEF HandlerRefresh
  <2>2. CASE ~Present
    BY <1>16, <2>2, EndTyped, LeaveTyped DEF HandlerRefresh, Leave
  <2>. QED
    BY <2>1, <2>2
<1>17. ASSUME NEW c \in Calls, HandlerSave(c) PROVE TypeInv'
  <2>1. row' \in RowType
    BY <1>17, RowFailed, CopyParts DEF HandlerSave
  <2>. QED
    BY <1>17, <2>1, EndTyped, LeaveTyped DEF HandlerSave, Leave
<1>18. ASSUME NEW c \in Calls, Publish(c) PROVE TypeInv'
  BY <1>18, EndTyped, LeaveTyped DEF Publish, Leave
<1>19. ASSUME NEW c \in Calls, Lost(c) PROVE TypeInv'
  BY <1>19, EndTyped DEF Lost
<1>20. ASSUME NEW a \in Approvals, NEW o \in BOOLEAN, ReviewBegin(a, o) PROVE TypeInv'
  BY <1>20, RowEdits DEF ReviewBegin, InPhase
<1>21. ASSUME NEW a \in Approvals, ReviewCommit(a) \/ ReviewAbort(a) PROVE TypeInv'
  BY <1>21, RowEdits DEF ReviewCommit, ReviewAbort, InPhase
<1>22. ASSUME NEW j \in DOMAIN jobs, NEW o \in {"succeeded", "failed"}, JobEnds(j, o)
       PROVE TypeInv'
  <2>a. jobs[j] \in JobType
    OBVIOUS
  <2>b. [jobs[j] EXCEPT !.state = o] \in JobType
    BY <2>a DEF JobType
  <2>1. jobs' \in Seq(JobType)
    BY <1>22, <2>b DEF JobEnds
  <2>. QED
    BY <1>22, <2>1 DEF JobEnds, InPhase
<1>23. CASE Delete \/ AccountDeleted
  <2>1. CASE Delete
    BY <2>1 DEF Delete, InPhase
  <2>2. CASE AccountDeleted
    BY <2>2, RowEdits DEF AccountDeleted, InPhase
  <2>. QED
    BY <1>23, <2>1, <2>2
<1>24. CASE UNCHANGED vars
  BY <1>24 DEF vars, InPhase
<1>. QED
  BY <1>1, <1>2, <1>3, <1>4, <1>5, <1>6, <1>7, <1>8, <1>9, <1>10, <1>11, <1>12, <1>13,
     <1>14, <1>15, <1>16, <1>17, <1>18, <1>19, <1>20, <1>21, <1>22, <1>23, <1>24
     DEF Next, WebStep, WorkerStep

\* The variables keep their types: no interleaving of web threads, tasks and
\* approvals leaves statement_files or a task in a state its code has no name for.
THEOREM Typing == Spec => []TypeOK
<1>1. TypeInv => TypeOK
  BY DEF TypeInv
<1>. QED
  BY <1>1, TypeInvInit, TypeInvStep, PTL DEF Spec
-----------------------------------------------------------------------------
(* A status is backed by the rows of its phases.  The invariant by itself  *)
(* is not inductive: a task saves the status its copy implies, so every    *)
(* copy must be backed too, and the status a finalizer is about to save.   *)

Backed(s) ==
  /\ s \in {"extracted", "normalized", "approved"} => ocr > 0
  /\ s \in {"normalized", "approved"} => norm > 0

QuietBeforeUpload ==
  exists = "absent" =>
    /\ row.status = "uploaded"
    /\ \A c \in Calls : pc[c] = "idle" /\ copy[c].status = "uploaded"
    /\ \A a \in Approvals : approval[a] = "idle"

ArtifactInv ==
  /\ QuietBeforeUpload
  /\ ~Present => ocr = 0 /\ norm = 0
  /\ Present => Backed(row.status)
  /\ Present => \A c \in Calls : Backed(copy[c].status)
  /\ Present => \A c \in Calls : pc[c] = "recorded" => Backed(StatusAfter[Phase(c)])
  /\ Present => \A a \in Approvals : approval[a] = "reviewing" => Backed("approved")

LEMMA ArtifactInvInit == Init => ArtifactInv
  BY DEF Init, ArtifactInv, QuietBeforeUpload, Present, NoCopy

LEMMA ArtifactsFollow == TypeInv /\ ArtifactInv => ArtifactsMatchStatus
  BY RankFacts, RowParts
     DEF TypeInv, TypeOK, ArtifactInv, Backed, ArtifactsMatchStatus, Statuses

\* A step of a call that changes nothing but its control and its arguments.
LEMMA ArtifactControl ==
  ASSUME TypeInv, ArtifactInv, NEW c \in Calls, pc[c] # "idle",
         UNCHANGED <<statement, copy, approval>>,
         \/ UNCHANGED pc
         \/ \E there \in PCs \ {"recorded"} : Goto(c, there)
  PROVE  ArtifactInv'
  BY DEF TypeInv, TypeOK, ArtifactInv, QuietBeforeUpload, Backed, Present, Goto, Phase,
         statement

\* The end of a call, whatever it saved before, the status excepted.
LEMMA ArtifactEnd ==
  ASSUME TypeInv, ArtifactInv, NEW c \in Calls, pc[c] # "idle", End(c),
         UNCHANGED <<exists, ocr, norm, approval>>, row'.status = row.status
  PROVE  ArtifactInv'
<1>1. \A d \in Calls : /\ pc'[d] = IF d = c THEN "done" ELSE pc[d]
                       /\ copy'[d] = IF d = c THEN NoCopy ELSE copy[d]
  BY DEF TypeInv, TypeOK, End, Goto
<1>. QED
  BY <1>1, NoCopyTyped DEF ArtifactInv, QuietBeforeUpload, Backed, Present, Phase

LEMMA ArtifactInvStep == TypeInv /\ ArtifactInv /\ [Next]_vars => ArtifactInv'
<1>. SUFFICES ASSUME TypeInv, ArtifactInv, [Next]_vars PROVE ArtifactInv'
  OBVIOUS
<1>. USE DEF statement, args, task
<1>1. ASSUME NEW c \in Calls, NEW t \in Targets, Upload(c, t) PROVE ArtifactInv'
  BY <1>1 DEF Upload, Validated, Goto, TypeInv, TypeOK, ArtifactInv, QuietBeforeUpload,
              Backed, Present, Phase
<1>2. ASSUME NEW c \in Calls, NEW t \in Targets, Patch(c, t) PROVE ArtifactInv'
  BY <1>2 DEF Patch, Validated, Goto, TypeInv, TypeOK, ArtifactInv, QuietBeforeUpload,
              Backed, Present, Phase
<1>3. ASSUME NEW c \in Calls, Mark(c) PROVE ArtifactInv'
  <2>1. row'.status = row.status
    BY <1>3 DEF Mark, TypeInv, TypeOK, RowType
  <2>2. CASE Present
    BY <1>3, <2>1, <2>2 DEF Mark, Goto, TypeInv, TypeOK, ArtifactInv, QuietBeforeUpload,
                            Backed, Present, Phase
  <2>3. CASE ~Present
    BY <1>3, <2>1, <2>3, ArtifactEnd DEF Mark
  <2>. QED
    BY <2>2, <2>3
<1>4. ASSUME NEW c \in Calls,
             \/ Enqueue(c) \/ TargetReached(c) \/ Submit(c) \/ ServiceFails(c)
             \/ PollSucceeded(c) \/ PollFailed(c) \/ RetriesExceeded(c) \/ RetryRefused(c)
      PROVE  ArtifactInv'
  <2>1. {"queued", "finishing", "failing", "succeeded", "raised"} \subseteq PCs \ {"recorded"}
    BY DEF PCs, WorkerPC
  <2>2. UNCHANGED <<statement, copy, approval>> /\ pc[c] # "idle"
    BY <1>4 DEF Enqueue, TargetReached, Submit, ServiceFails, PollSucceeded, PollFailed,
                RetriesExceeded, RetryRefused, StillRunning, Polling, Working
  <2>3. \/ UNCHANGED pc
        \/ \E there \in PCs \ {"recorded"} : Goto(c, there)
    BY <1>4, <2>1 DEF Enqueue, TargetReached, Submit, ServiceFails, PollSucceeded,
                      PollFailed, RetriesExceeded, RetryRefused
  <2>. QED
    BY <2>2, <2>3, ArtifactControl
<1>5. ASSUME NEW c \in Calls, Fetch(c) PROVE ArtifactInv'
  <2>1. CASE Present
    <3>1. /\ \A d \in Calls : copy'[d].status = IF d = c THEN row.status ELSE copy[d].status
          /\ \A d \in Calls : pc'[d] = IF d = c THEN "running" ELSE pc[d]
          /\ UNCHANGED <<exists, row, ocr, norm, approval>>
      BY <1>5, <2>1 DEF Fetch, Goto, TypeInv, TypeOK
    <3>. QED
      BY <2>1, <3>1 DEF ArtifactInv, QuietBeforeUpload, Backed, Present, Phase
  <2>2. CASE ~Present
    BY <1>5, <2>2, ArtifactEnd DEF Fetch
  <2>. QED
    BY <2>1, <2>2
<1>6. ASSUME NEW c \in Calls, Remark(c) \/ FailPhase(c) PROVE ArtifactInv'
  <2>1. row'.status = row.status
    BY <1>6 DEF Remark, FailPhase, TypeInv, TypeOK, RowType
  <2>2. \A d \in Calls : copy'[d].status = copy[d].status
    <3>1. copy \in [Calls -> CopyType] /\ copy[c] \in CopyType
      BY DEF TypeInv, TypeOK
    <3>2. CASE Remark(c)
      <4>1. [copy[c] EXCEPT !.busy = TRUE].status = copy[c].status
        BY <3>1 DEF CopyType
      <4>. QED
        BY <3>1, <3>2, <4>1 DEF Remark
    <3>3. CASE FailPhase(c)
      <4>1. copy' = [copy EXCEPT ![c] = [copy[c] EXCEPT !.failed = Phase(c), !.busy = FALSE]]
        BY <3>3 DEF FailPhase
      <4>2. [copy[c] EXCEPT !.failed = Phase(c), !.busy = FALSE].status = copy[c].status
        BY <3>1 DEF CopyType
      <4>. QED
        BY <3>1, <4>1, <4>2
    <3>. QED
      BY <1>6, <3>2, <3>3
  <2>3. \A d \in Calls : /\ pc'[d] = "recorded" => pc[d] = "recorded"
                         /\ pc'[d] = "idle" <=> pc[d] = "idle"
    BY <1>6 DEF Remark, FailPhase, Goto, TypeInv, TypeOK
  <2>4. exists # "absent"
    BY <1>6 DEF Remark, FailPhase, ArtifactInv, QuietBeforeUpload
  <2>. QED
    BY <1>6, <2>1, <2>2, <2>3, <2>4 DEF Remark, FailPhase, ArtifactInv, QuietBeforeUpload,
       Backed, Present, Phase
<1>7. ASSUME NEW c \in Calls, Retry(c) PROVE ArtifactInv'
  <2>1. \A d \in Calls : /\ pc'[d] = IF d = c THEN "queued" ELSE pc[d]
                         /\ copy'[d] = IF d = c THEN NoCopy ELSE copy[d]
    BY <1>7 DEF Retry, Goto, TypeInv, TypeOK
  <2>2. exists # "absent"
    BY <1>7 DEF Retry, StillRunning, Polling, Working, ArtifactInv, QuietBeforeUpload
  <2>. QED
    BY <1>7, <2>1, <2>2, NoCopyTyped DEF Retry, ArtifactInv, QuietBeforeUpload, Backed,
       Present, Phase
<1>8. ASSUME NEW c \in Calls, Record(c) PROVE ArtifactInv'
  <2>1. copy[c].status \in {"uploaded", "extracted"}
    BY <1>8 DEF Record, TypeInv, InPhase
  <2>2. ocr' \in Nat /\ norm' \in Nat /\ ocr' >= ocr /\ norm' >= norm
    BY <1>8 DEF Record, TypeInv, TypeOK
  <2>3. exists # "absent"
    BY <1>8 DEF Record, ArtifactInv, QuietBeforeUpload
  <2>4. CASE pc'[c] = "recorded"
    <3>1. /\ Present /\ UNCHANGED <<exists, row, copy, approval>>
          /\ \A d \in Calls : pc'[d] = IF d = c THEN "recorded" ELSE pc[d]
      BY <1>8, <2>4 DEF Record, Goto, TypeInv, TypeOK
    <3>2. Backed(StatusAfter[Phase(c)])'
      <4>1. CASE copy[c].status = "uploaded"
        BY <1>8, <4>1, <2>4, <3>1, PhaseFacts DEF Record, Goto, TypeInv, TypeOK, Phase, Backed
      <4>2. CASE copy[c].status = "extracted"
        BY <1>8, <4>2, <2>4, <3>1, PhaseFacts DEF Record, Goto, TypeInv, TypeOK, Phase, Backed,
           ArtifactInv
      <4>. QED
        BY <2>1, <4>1, <4>2
    <3>. QED
      BY <2>2, <2>3, <3>1, <3>2 DEF TypeInv, TypeOK, ArtifactInv, QuietBeforeUpload, Backed,
         Present, Phase
  <2>5. CASE pc'[c] # "recorded"
    BY <1>8, <2>5, ArtifactControl DEF Record, Goto, TypeInv, TypeOK, PCs, WorkerPC
  <2>. QED
    BY <2>4, <2>5
<1>9. ASSUME NEW c \in Calls, Finalize(c) PROVE ArtifactInv'
  <2>1. /\ row'.status = StatusAfter[Phase(c)]
        /\ \A d \in Calls : copy'[d].status = IF d = c THEN StatusAfter[Phase(c)]
                                              ELSE copy[d].status
        /\ \A d \in Calls : pc'[d] = IF d = c THEN "running" ELSE pc[d]
    BY <1>9 DEF Finalize, Advanced, Goto, TypeInv, TypeOK
  <2>2. Present /\ Backed(StatusAfter[Phase(c)]) /\ UNCHANGED <<exists, ocr, norm>>
    BY <1>9 DEF Finalize, ArtifactInv
  <2>3. UNCHANGED approval
    BY <1>9 DEF Finalize
  <2>. QED
    BY <2>1, <2>2, <2>3 DEF ArtifactInv, QuietBeforeUpload, Backed, Present, Phase
<1>10. ASSUME NEW c \in Calls, FinalizerRaises(c) PROVE ArtifactInv'
  <2>1. CASE pc[c] = "succeeded"
    BY <1>10, <2>1, ArtifactControl DEF FinalizerRaises, PCs, WorkerPC
  <2>2. CASE pc[c] = "recorded"
    <3>1. /\ \A d \in Calls : copy'[d].status = IF d = c THEN StatusAfter[Phase(c)]
                                                ELSE copy[d].status
          /\ \A d \in Calls : pc'[d] = IF d = c THEN "raised" ELSE pc[d]
      BY <1>10, <2>2 DEF FinalizerRaises, Advanced, Goto, TypeInv, TypeOK
    <3>2. Present => Backed(StatusAfter[Phase(c)])
      BY <2>2 DEF ArtifactInv
    <3>3. exists # "absent"
      BY <2>2 DEF ArtifactInv, QuietBeforeUpload
    <3>. QED
      BY <1>10, <3>1, <3>2, <3>3 DEF FinalizerRaises, ArtifactInv, QuietBeforeUpload,
         Backed, Present, Phase
  <2>. QED
    BY <1>10, <2>1, <2>2 DEF FinalizerRaises
<1>11. ASSUME NEW c \in Calls, HandlerRefresh(c) PROVE ArtifactInv'
  <2>1. CASE Present
    <3>1. /\ \A d \in Calls : copy'[d].status = IF d = c THEN row.status ELSE copy[d].status
          /\ \A d \in Calls : pc'[d] = IF d = c THEN "refreshed" ELSE pc[d]
          /\ UNCHANGED <<exists, row, ocr, norm, approval>>
      BY <1>11, <2>1 DEF HandlerRefresh, Goto, TypeInv, TypeOK
    <3>. QED
      BY <2>1, <3>1 DEF ArtifactInv, QuietBeforeUpload, Backed, Present, Phase
  <2>2. CASE ~Present
    BY <1>11, <2>2, ArtifactEnd DEF HandlerRefresh, Leave
  <2>. QED
    BY <2>1, <2>2
<1>12. ASSUME NEW c \in Calls, HandlerSave(c) \/ Publish(c) \/ Lost(c) PROVE ArtifactInv'
  <2>1. row'.status = row.status
    BY <1>12 DEF HandlerSave, Publish, Lost, TypeInv, TypeOK, RowType
  <2>. QED
    BY <1>12, <2>1, ArtifactEnd DEF HandlerSave, Publish, Lost, Leave, WorkerPC
<1>13. ASSUME NEW a \in Approvals, NEW o \in BOOLEAN,
              ReviewBegin(a, o) \/ ReviewCommit(a) \/ ReviewAbort(a)
       PROVE  ArtifactInv'
  <2>1. UNCHANGED <<exists, ocr, norm, pc, copy>> /\ exists # "absent"
    BY <1>13 DEF ReviewBegin, ReviewCommit, ReviewAbort, ArtifactInv, QuietBeforeUpload,
                 Present
  <2>2. CASE ReviewBegin(a, o)
    <3>1. row'.status = row.status /\ row.status = "normalized"
      BY <2>2 DEF ReviewBegin, TypeInv, TypeOK, RowType
    <3>2. Present /\ Backed("approved")
      BY <2>2, <3>1 DEF ReviewBegin, ArtifactInv, Backed
    <3>. QED
      BY <2>1, <3>1, <3>2 DEF ArtifactInv, QuietBeforeUpload, Backed, Present, Phase
  <2>3. CASE ReviewCommit(a)
    <3>1. row'.status = "approved"
      BY <2>3 DEF ReviewCommit, TypeInv, TypeOK, RowType
    <3>2. Present /\ Backed("approved")
      BY <2>3 DEF ReviewCommit, ArtifactInv
    <3>. QED
      BY <2>1, <3>1, <3>2 DEF ArtifactInv, QuietBeforeUpload, Backed, Present, Phase
  <2>4. CASE ReviewAbort(a)
    <3>1. \A b \in Approvals : approval'[b] = "reviewing" => approval[b] = "reviewing"
      BY <2>4 DEF ReviewAbort, TypeInv, TypeOK
    <3>. QED
      BY <2>1, <2>4, <3>1 DEF ReviewAbort, ArtifactInv, QuietBeforeUpload, Backed, Present, Phase
  <2>. QED
    BY <1>13, <2>2, <2>3, <2>4
<1>14. CASE Delete \/ AccountDeleted
  BY <1>14 DEF Delete, AccountDeleted, TypeInv, TypeOK, RowType, ArtifactInv, QuietBeforeUpload,
     Backed, Present, Phase
<1>15. ASSUME NEW j \in DOMAIN jobs, NEW o \in {"succeeded", "failed"}, JobEnds(j, o)
       PROVE  ArtifactInv'
  BY <1>15 DEF JobEnds, ArtifactInv, QuietBeforeUpload, Backed, Present, Phase
<1>16. CASE UNCHANGED vars
  BY <1>16 DEF vars, ArtifactInv, QuietBeforeUpload, Backed, Present, Phase
<1>. QED
  BY <1>1, <1>2, <1>3, <1>4, <1>5, <1>6, <1>7, <1>8, <1>9, <1>10, <1>11, <1>12, <1>13,
     <1>14, <1>15, <1>16
     DEF Next, WebStep, WorkerStep

\* In every interleaving, with every loss the model has, a status is reached only
\* with its artifacts in place, and a deleted statement leaves none: the
\* finalizers create the OCR and normalized rows before they save the status.
THEOREM Artifacts == Spec => []ArtifactsMatchStatus
<1>. QED
  BY TypeInvInit, TypeInvStep, ArtifactInvInit, ArtifactInvStep, ArtifactsFollow, PTL DEF Spec
-----------------------------------------------------------------------------
(* The poll budget.  It is inductive: only a retry counts, a finalizer     *)
(* resets the count of the phase, and the end of a call resets both.       *)

LEMMA BudgetInit == Init => PollBudgetHolds
  BY BoundsAssumption DEF Init, PollBudgetHolds

LEMMA BudgetTyped ==
  ASSUME TypeInv
  PROVE  \A c \in Calls : poll[c] \in Nat /\ retries[c] \in Nat
  BY DEF TypeInv, TypeOK

LEMMA BudgetEnd ==
  ASSUME TypeInv, PollBudgetHolds, NEW c \in Calls, End(c)
  PROVE  PollBudgetHolds'
  BY BoundsAssumption DEF TypeInv, TypeOK, PollBudgetHolds, End

LEMMA BudgetStep == TypeInv /\ PollBudgetHolds /\ [Next]_vars => PollBudgetHolds'
<1>. SUFFICES ASSUME TypeInv, PollBudgetHolds, [Next]_vars PROVE PollBudgetHolds'
  OBVIOUS
<1>. USE DEF statement, args, task
<1>1. ASSUME UNCHANGED <<poll, retries>> PROVE PollBudgetHolds'
  BY <1>1 DEF PollBudgetHolds
<1>2. ASSUME NEW c \in Calls, NEW t \in Targets, Upload(c, t) \/ Patch(c, t)
      PROVE  PollBudgetHolds'
  BY <1>1, <1>2 DEF Upload, Patch, Validated
<1>3. ASSUME NEW c \in Calls, WebStep(c) PROVE PollBudgetHolds'
  BY <1>1, <1>3, BudgetEnd DEF WebStep, Mark, Enqueue
<1>4. ASSUME NEW c \in Calls,
             \/ Fetch(c) \/ TargetReached(c) \/ Remark(c) \/ Submit(c) \/ ServiceFails(c)
             \/ PollSucceeded(c) \/ PollFailed(c) \/ RetriesExceeded(c) \/ RetryRefused(c)
      PROVE  PollBudgetHolds'
  BY <1>1, <1>4, BudgetEnd DEF Fetch, TargetReached, Remark, Submit, ServiceFails,
     PollSucceeded, PollFailed, RetriesExceeded, RetryRefused
<1>5. ASSUME NEW c \in Calls, Retry(c) PROVE PollBudgetHolds'
  <2>1. \A d \in Calls : /\ poll'[d] = IF d = c THEN poll[d] + 1 ELSE poll[d]
                         /\ retries'[d] = IF d = c THEN retries[d] + 1 ELSE retries[d]
    BY <1>5 DEF Retry, TypeInv, TypeOK
  <2>2. retries[c] < MaxPolls
    BY <1>5 DEF Retry
  <2>. QED
    BY <2>1, <2>2, BudgetTyped, BoundsAssumption DEF PollBudgetHolds
<1>6. ASSUME NEW c \in Calls, Finalize(c) PROVE PollBudgetHolds'
  <2>1. \A d \in Calls : /\ poll'[d] = IF d = c THEN 0 ELSE poll[d]
                         /\ retries'[d] = retries[d]
    BY <1>6 DEF Finalize, TypeInv, TypeOK
  <2>. QED
    BY <2>1, BudgetTyped DEF PollBudgetHolds
<1>7. ASSUME NEW c \in Calls,
             \/ Record(c) \/ FinalizerRaises(c) \/ FailPhase(c) \/ HandlerRefresh(c)
             \/ HandlerSave(c) \/ Publish(c) \/ Lost(c)
      PROVE  PollBudgetHolds'
  BY <1>1, <1>7, BudgetEnd DEF Record, FinalizerRaises, FailPhase, HandlerRefresh,
     HandlerSave, Publish, Lost, Leave
<1>8. ASSUME NEW a \in Approvals, NEW o \in BOOLEAN,
             ReviewBegin(a, o) \/ ReviewCommit(a) \/ ReviewAbort(a)
      PROVE  PollBudgetHolds'
  BY <1>1, <1>8 DEF ReviewBegin, ReviewCommit, ReviewAbort
<1>9. ASSUME NEW j \in DOMAIN jobs, NEW o \in {"succeeded", "failed"}, JobEnds(j, o)
      PROVE  PollBudgetHolds'
  BY <1>1, <1>9 DEF JobEnds
<1>10. CASE Delete \/ AccountDeleted \/ UNCHANGED vars
  BY <1>1, <1>10 DEF Delete, AccountDeleted, vars
<1>. QED
  BY <1>2, <1>3, <1>4, <1>5, <1>6, <1>7, <1>8, <1>9, <1>10 DEF Next, WorkerStep

\* However a cascade's phases, retries and refusals follow one another, Celery's
\* count covers the poll count of the phase and stays within max_retries: the
\* worker never puts a task back more than MAX_POLL_ATTEMPTS times.
THEOREM PollBudget == Spec => []PollBudgetHolds
<1>. QED
  BY TypeInvInit, TypeInvStep, BudgetInit, BudgetStep, PTL DEF Spec

(***************************************************************************)
(* The condition under which is_processing does lock a statement: clients  *)
(* that wait for each response and ask for one phase at a time.  Without   *)
(* the first, two requests validate the same row; without the second, a    *)
(* finalizer lowers the flag in the middle of a cascade.  And what a       *)
(* client is told of a success that waits for the task it started.         *)
(***************************************************************************)

\* A call that has passed validate_advance, or is at work because of it.
Holder(c) == Engaged(c) \/ pc[c] = "validated"

\* A call never aims further than one phase past the row, or past its copy, and
\* while it works the copy is not stale.
Fits(c) ==
  /\ Present /\ pc[c] \in {"validated", "marked", "queued"}
       => Rank[target[c]] <= Rank[row.status] + 1
  /\ pc[c] \in {"running", "succeeded", "recorded"}
       => Rank[target[c]] <= Rank[copy[c].status] + 1
  /\ Present /\ (pc[c] \in {"succeeded", "recorded"} \/ (pc[c] = "running" /\ Behind(c)))
       => copy[c].status = row.status

OneHolder == \A c, d \in Calls : Holder(c) /\ Holder(d) => c = d

ReviewsFit ==
  Present => \A a \in Approvals :
               approval[a] = "reviewing" => row.status \in {"normalized", "approved"}

LockInv == OneHolder /\ FlagWhileEngaged /\ ReviewsFit /\ \A c \in Calls : Fits(c)

LEMMA LockInit == Init => LockInv
  BY DEF Init, LockInv, OneHolder, Holder, Engaged, FlagWhileEngaged, ReviewsFit, Fits,
         WorkerPC

\* A step of one call that leaves the status alone.
LEMMA LockKept ==
  ASSUME LockInv, NEW c \in Calls,
         UNCHANGED <<exists, approval>>, row'.status = row.status,
         \A d \in Calls \ {c} : /\ pc'[d] = pc[d] /\ target'[d] = target[d]
                                /\ copy'[d] = copy[d],
         Holder(c)' => Holder(c),
         Present => \/ row'.is_processing = row.is_processing /\ (Engaged(c)' => Engaged(c))
                    \/ row'.is_processing
                    \/ Holder(c) /\ ~Holder(c)',
         Fits(c)'
  PROVE  LockInv'
<1>1. \A d \in Calls \ {c} : /\ Holder(d)' <=> Holder(d)
                             /\ Engaged(d)' <=> Engaged(d)
                             /\ Fits(d) => Fits(d)'
  BY DEF Holder, Engaged, Behind, Fits, Present
<1>2. OneHolder'
  BY <1>1 DEF LockInv, OneHolder
<1>3. FlagWhileEngaged'
  <2>. SUFFICES ASSUME Present, NEW d \in Calls, Engaged(d)' PROVE row'.is_processing
    BY DEF FlagWhileEngaged, Present
  <2>1. CASE row'.is_processing = row.is_processing /\ (Engaged(c)' => Engaged(c))
    BY <1>1, <2>1 DEF LockInv, FlagWhileEngaged
  <2>2. CASE Holder(c) /\ ~Holder(c)'
    <3>1. d # c
      BY <2>2 DEF Holder
    <3>. QED
      BY <1>1, <2>2, <3>1 DEF LockInv, OneHolder, Holder
  <2>. QED
    BY <2>1, <2>2
<1>4. ReviewsFit'
  BY DEF LockInv, ReviewsFit, Present
<1>. QED
  BY <1>1, <1>2, <1>3, <1>4 DEF LockInv

\* The end of a call that may have lowered the flag, if it held it.
LEMMA LockEnd ==
  ASSUME TypeInv, LockInv, NEW c \in Calls, End(c),
         UNCHANGED <<exists, approval>>, row'.status = row.status,
         Present => row'.is_processing = row.is_processing \/ Holder(c)
  PROVE  LockInv'
<1>1. /\ pc'[c] = "done"
      /\ \A d \in Calls \ {c} : /\ pc'[d] = pc[d] /\ target'[d] = target[d]
                                /\ copy'[d] = copy[d]
  BY DEF End, Goto, TypeInv, TypeOK
<1>2. ~Holder(c)' /\ ~Engaged(c)' /\ Fits(c)'
  BY <1>1 DEF Holder, Engaged, Fits, WorkerPC
<1>. QED
  BY <1>1, <1>2, LockKept
-----------------------------------------------------------------------------
(* The steps.  ClientReady and Requested do their work in Upload and Patch  *)
(* only; from there on the lock keeps itself.                              *)

LEMMA FrameOf ==
  ASSUME TypeInv, NEW c \in Calls, NEW there, Goto(c, there)
  PROVE  pc'[c] = there /\ \A d \in Calls \ {c} : pc'[d] = pc[d]
  BY DEF TypeInv, TypeOK, Goto

LEMMA WebSteps ==
  ASSUME TypeInv, LockInv, NEW c \in Calls, Mark(c) \/ Enqueue(c)
  PROVE  LockInv'
<1>. USE DEF args
<1>1. CASE Enqueue(c)
  <2>1. /\ pc[c] = "marked" /\ pc'[c] = "queued"
        /\ \A d \in Calls \ {c} : pc'[d] = pc[d]
        /\ UNCHANGED <<statement, target, copy, approval>>
    BY <1>1, FrameOf DEF Enqueue
  <2>2. Holder(c) /\ Engaged(c) /\ Fits(c)'
    BY <2>1 DEF LockInv, Fits, Holder, Engaged, Present, statement
  <2>. QED
    BY <2>1, <2>2, LockKept DEF statement
<1>2. CASE Mark(c) /\ Present
  <2>1. /\ pc[c] = "validated" /\ pc'[c] = "marked"
        /\ \A d \in Calls \ {c} : pc'[d] = pc[d]
        /\ UNCHANGED <<exists, target, copy, approval>>
    BY <1>2, FrameOf DEF Mark
  <2>2. row'.is_processing /\ row'.status = row.status
    BY <1>2 DEF Mark, TypeInv, TypeOK, RowType
  <2>3. Holder(c) /\ Fits(c)'
    BY <2>1, <2>2 DEF LockInv, Fits, Holder, Present
  <2>. QED
    BY <2>1, <2>2, <2>3, LockKept
<1>3. CASE Mark(c) /\ ~Present
  BY <1>3, LockEnd DEF Mark
<1>. QED
  BY <1>1, <1>2, <1>3

\* A worker step of a call that moves its control, keeps the row, its copy's
\* status and its target, and stays within the same part of the task.
LEMMA ControlSteps ==
  ASSUME TypeInv, LockInv, NEW c \in Calls,
         \/ TargetReached(c) \/ Submit(c) \/ ServiceFails(c) \/ PollSucceeded(c)
         \/ PollFailed(c) \/ RetriesExceeded(c) \/ RetryRefused(c) \/ Record(c)
  PROVE  LockInv'
<1>. USE DEF args
<1>1. UNCHANGED <<exists, row, target, copy, approval>>
  BY DEF TargetReached, Submit, ServiceFails, PollSucceeded, PollFailed, RetriesExceeded,
         RetryRefused, Record, statement
<1>2. \A d \in Calls \ {c} : pc'[d] = pc[d]
  BY FrameOf DEF TargetReached, Submit, ServiceFails, PollSucceeded, PollFailed,
     RetriesExceeded, RetryRefused, Record
<1>3. \/ pc[c] = "running" /\ pc'[c] = "finishing"
      \/ pc[c] = "running" /\ Behind(c) /\ pc'[c] \in {"running", "failing", "succeeded", "raised"}
      \/ pc[c] = "succeeded" /\ pc'[c] \in {"recorded", "raised"}
  BY FrameOf DEF TargetReached, Submit, ServiceFails, PollSucceeded, PollFailed,
     RetriesExceeded, RetryRefused, Record, StillRunning, Polling, Working
<1>4. Fits(c)' /\ (Engaged(c)' => Engaged(c)) /\ (Holder(c)' => Holder(c))
  BY <1>1, <1>3 DEF LockInv, Fits, Holder, Engaged, Behind, Present, WorkerPC
<1>. QED
  BY <1>1, <1>2, <1>4, LockKept

LEMMA FetchRetrySteps ==
  ASSUME TypeInv, LockInv, NEW c \in Calls, Fetch(c) \/ Retry(c)
  PROVE  LockInv'
<1>. USE DEF args
<1>1. CASE Fetch(c) /\ Present
  <2>1. /\ pc[c] = "queued" /\ pc'[c] = "running"
        /\ copy'[c].status = row.status
        /\ \A d \in Calls \ {c} : pc'[d] = pc[d] /\ copy'[d] = copy[d]
        /\ UNCHANGED <<exists, row, target, approval>>
    BY <1>1, FrameOf DEF Fetch, TypeInv, TypeOK, statement
  <2>2. Fits(c)' /\ Engaged(c) /\ Holder(c)
    BY <1>1, <2>1 DEF LockInv, Fits, Holder, Engaged, Present
  <2>. QED
    BY <2>1, <2>2, LockKept
<1>2. CASE Fetch(c) /\ ~Present
  BY <1>2, LockEnd DEF Fetch, statement
<1>3. CASE Retry(c)
  <2>1. /\ pc[c] = "running" /\ Behind(c) /\ pc'[c] = "queued"
        /\ \A d \in Calls \ {c} : pc'[d] = pc[d] /\ copy'[d] = copy[d]
        /\ UNCHANGED <<exists, row, target, approval>>
    BY <1>3, FrameOf DEF Retry, StillRunning, Polling, Working, TypeInv, TypeOK, statement
  <2>2. Fits(c)' /\ Engaged(c) /\ Holder(c)
    BY <2>1 DEF LockInv, Fits, Holder, Engaged, Present
  <2>. QED
    BY <2>1, <2>2, LockKept
<1>. QED
  BY <1>1, <1>2, <1>3

LEMMA RemarkFailSteps ==
  ASSUME TypeInv, LockInv, NEW c \in Calls, Remark(c) \/ FailPhase(c)
  PROVE  LockInv'
<1>. USE DEF args
<1>0. copy \in [Calls -> CopyType] /\ copy[c] \in CopyType /\ row \in RowType
  BY DEF TypeInv, TypeOK
<1>1. CASE Remark(c)
  <2>1. [copy[c] EXCEPT !.busy = TRUE].status = copy[c].status
    BY <1>0 DEF CopyType
  <2>2. copy'[c].status = copy[c].status /\ \A d \in Calls \ {c} : copy'[d] = copy[d]
    BY <1>0, <1>1, <2>1 DEF Remark
  <2>3. row'.status = row.status /\ (Present => row'.is_processing)
    BY <1>0, <1>1 DEF Remark, RowType
  <2>4. /\ pc[c] = "running" /\ Behind(c)
        /\ pc'[c] \in {"running", "raised"}
        /\ \A d \in Calls \ {c} : pc'[d] = pc[d]
        /\ UNCHANGED <<exists, target, approval>>
    BY <1>1, FrameOf DEF Remark
  <2>5. Fits(c)' /\ Holder(c)
    BY <2>2, <2>3, <2>4 DEF LockInv, Fits, Holder, Engaged, Behind, Present
  <2>. QED
    BY <2>2, <2>3, <2>4, <2>5, LockKept
<1>2. CASE FailPhase(c)
  <2>1. \A d \in Calls \ {c} : copy'[d] = copy[d]
    BY <1>0, <1>2 DEF FailPhase
  <2>2. row'.status = row.status
    BY <1>0, <1>2 DEF FailPhase, RowType
  <2>3. /\ pc[c] = "failing"
        /\ pc'[c] = (IF Present THEN "finishing" ELSE "raised")
        /\ \A d \in Calls \ {c} : pc'[d] = pc[d]
        /\ UNCHANGED <<exists, target, approval>>
    BY <1>2, FrameOf DEF FailPhase
  <2>4. Fits(c)' /\ Holder(c) /\ (Present => ~Holder(c)')
    BY <2>3 DEF Fits, Holder, Engaged, Present, WorkerPC
  <2>. QED
    BY <2>1, <2>2, <2>3, <2>4, LockKept
<1>. QED
  BY <1>1, <1>2

LEMMA RaisedSteps ==
  ASSUME TypeInv, LockInv, NEW c \in Calls,
         FinalizerRaises(c) \/ HandlerRefresh(c) \/ HandlerSave(c) \/ Publish(c) \/ Lost(c)
  PROVE  LockInv'
<1>. USE DEF args, statement
<1>0. copy \in [Calls -> CopyType] /\ row \in RowType
  BY DEF TypeInv, TypeOK
<1>1. CASE FinalizerRaises(c) \/ (HandlerRefresh(c) /\ Present)
  <2>1. \A d \in Calls \ {c} : copy'[d] = copy[d]
    BY <1>0, <1>1 DEF FinalizerRaises, HandlerRefresh, Advanced
  <2>2. /\ pc[c] \in {"succeeded", "recorded", "raised"}
        /\ pc'[c] \in {"raised", "refreshed"}
        /\ \A d \in Calls \ {c} : pc'[d] = pc[d]
        /\ UNCHANGED <<exists, row, target, approval>>
    BY <1>1, FrameOf DEF FinalizerRaises, HandlerRefresh
  <2>3. Fits(c)' /\ Holder(c) /\ Engaged(c)
    BY <2>2 DEF Fits, Holder, Engaged, WorkerPC
  <2>. QED
    BY <2>1, <2>2, <2>3, LockKept
<1>2. CASE HandlerRefresh(c) /\ ~Present
  BY <1>2, LockEnd DEF HandlerRefresh, Leave
<1>3. CASE HandlerSave(c)
  <2>1. row'.status = row.status
    BY <1>0, <1>3 DEF HandlerSave, RowType
  <2>2. Holder(c)
    BY <1>3 DEF HandlerSave, Holder, Engaged, WorkerPC
  <2>. QED
    BY <1>3, <2>1, <2>2, LockEnd DEF HandlerSave, Leave
<1>4. CASE Publish(c) \/ Lost(c)
  BY <1>4, LockEnd DEF Publish, Lost, Leave
<1>. QED
  BY <1>1, <1>2, <1>3, <1>4

\* The one worker step that changes the status: the copy it was computed from
\* is the row, so the status advances by one phase, and nobody else is at work.
LEMMA FinalizeAdvances ==
  ASSUME TypeInv, LockInv, NEW c \in Calls, Finalize(c)
  PROVE  /\ row'.status = StatusAfter[Phase(c)]
         /\ Rank[row'.status] = Rank[row.status] + 1
         /\ row.status \in {"uploaded", "extracted"}
<1>1. pc[c] = "recorded" /\ Present /\ row'.status = StatusAfter[Phase(c)]
  BY DEF Finalize
<1>2. copy[c].status = row.status /\ copy[c].status \in {"uploaded", "extracted"}
  BY <1>1 DEF LockInv, Fits, TypeInv, InPhase
<1>. QED
  BY <1>1, <1>2, PhaseFacts, RankFacts DEF Phase

LEMMA FinalizeStep ==
  ASSUME TypeInv, LockInv, NEW c \in Calls, Finalize(c)
  PROVE  LockInv'
<1>1. /\ pc[c] = "recorded" /\ pc'[c] = "running" /\ Present
      /\ copy'[c].status = StatusAfter[Phase(c)]
      /\ \A d \in Calls \ {c} : pc'[d] = pc[d] /\ copy'[d] = copy[d]
      /\ UNCHANGED <<exists, target, approval>>
  BY FrameOf DEF Finalize, Advanced, TypeInv, TypeOK
<1>2. Rank[copy'[c].status] = Rank[copy[c].status] + 1
  BY <1>1, FinalizeAdvances DEF LockInv, Fits
<1>3. Rank[target[c]] <= Rank[copy[c].status] + 1
  BY <1>1 DEF LockInv, Fits
<1>4. ~Behind(c)'
  <2>1. \A s \in Statuses : Rank[s] \in Nat
    BY RankFacts
  <2>2. target[c] \in Statuses /\ copy[c].status \in Statuses
    BY DEF TypeInv, TypeOK, CopyType, Targets, Statuses
  <2>. QED
    BY <1>1, <1>2, <1>3, <2>1, <2>2 DEF Behind
<1>5. Fits(c)' /\ ~Holder(c)' /\ ~Engaged(c)'
  <2>1. \A s \in Statuses : Rank[s] \in Nat
    BY RankFacts
  <2>2. target[c] \in Statuses /\ copy[c].status \in Statuses
    BY DEF TypeInv, TypeOK, CopyType, Targets, Statuses
  <2>. QED
    BY <1>1, <1>2, <1>3, <1>4, <2>1, <2>2 DEF Fits, Holder, Engaged, WorkerPC
<1>6. \A d \in Calls \ {c} : ~Holder(d) /\ ~Holder(d)' /\ ~Engaged(d)'
  BY <1>1 DEF LockInv, OneHolder, Holder, Engaged, Behind, WorkerPC
<1>7. \A d \in Calls \ {c} : Fits(d)'
  BY <1>1, <1>6 DEF LockInv, Fits, Holder, Engaged, WorkerPC
<1>8. ReviewsFit'
  BY <1>1, FinalizeAdvances DEF LockInv, ReviewsFit
<1>. QED
  BY <1>5, <1>6, <1>7, <1>8 DEF LockInv, OneHolder, FlagWhileEngaged

\* An approval can only raise the status while no call is at work on the row.
LEMMA ReviewSteps ==
  ASSUME TypeInv, LockInv, NEW a \in Approvals, NEW o \in BOOLEAN,
         ReviewBegin(a, o) \/ ReviewCommit(a) \/ ReviewAbort(a)
  PROVE  LockInv'
<1>. USE DEF task, args
<1>0. row \in RowType /\ approval \in [Approvals -> {"idle", "reviewing", "done"}]
  BY DEF TypeInv, TypeOK
<1>1. UNCHANGED <<exists, pc, target, copy>> /\ row'.is_processing = row.is_processing
  BY <1>0 DEF ReviewBegin, ReviewCommit, ReviewAbort, statement, RowType
<1>2. OneHolder' /\ FlagWhileEngaged'
  BY <1>1 DEF LockInv, OneHolder, FlagWhileEngaged, Holder, Engaged, Behind, Present
<1>3. CASE ReviewBegin(a, o)
  <2>1. row'.status = row.status /\ row.status = "normalized"
    BY <1>0, <1>3 DEF ReviewBegin, RowType
  <2>2. ReviewsFit'
    BY <2>1 DEF ReviewsFit
  <2>3. \A c \in Calls : Fits(c)'
    BY <1>1, <2>1 DEF LockInv, Fits, Behind, Present
  <2>. QED
    BY <1>2, <2>2, <2>3 DEF LockInv
<1>4. CASE ReviewCommit(a)
  <2>1. row'.status = "approved" /\ row.status \in {"normalized", "approved"} /\ Present
    BY <1>0, <1>4 DEF ReviewCommit, RowType, LockInv, ReviewsFit
  <2>2. ReviewsFit'
    BY <2>1 DEF ReviewsFit
  <2>3. ASSUME NEW c \in Calls PROVE Fits(c)'
    <3>1. /\ copy[c] \in CopyType /\ copy[c].status \in Statuses
          /\ target[c] \in Targets /\ Rank[target[c]] \in 0..2
      BY RankFacts DEF TypeInv, TypeOK, CopyType, Targets
    <3>2. ~(pc[c] \in {"succeeded", "recorded"} \/ (pc[c] = "running" /\ Behind(c)))
      <4>1. pc[c] \in {"succeeded", "recorded"} => copy[c].status \in {"uploaded", "extracted"}
        BY DEF TypeInv, InPhase
      <4>2. Behind(c) => copy[c].status \notin {"normalized", "approved"}
        BY <3>1, RankFacts DEF Behind
      <4>. QED
        BY <2>1, <4>1, <4>2 DEF LockInv, Fits
    <3>3. Rank[target[c]] <= Rank[row'.status] + 1
      BY <2>1, <3>1, RankFacts
    <3>. QED
      BY <1>1, <3>2, <3>3 DEF LockInv, Fits, Behind
  <2>. QED
    BY <1>2, <2>2, <2>3 DEF LockInv
<1>5. CASE ReviewAbort(a)
  <2>1. ReviewsFit'
    BY <1>0, <1>5 DEF LockInv, ReviewsFit, ReviewAbort, Present, statement
  <2>2. \A c \in Calls : Fits(c)'
    BY <1>1, <1>5 DEF LockInv, Fits, Behind, Present, ReviewAbort, statement
  <2>. QED
    BY <1>2, <2>1, <2>2 DEF LockInv
<1>. QED
  BY <1>3, <1>4, <1>5

\* A client that waits and asks for one phase: the request that passes
\* validate_advance is the only one that may hold the statement.
LEMMA RequestSteps ==
  ASSUME Client # "any", SinglePhase, TypeInv, QuietBeforeUpload, LockInv,
         NEW c \in Calls, NEW t \in Targets, Upload(c, t) \/ Patch(c, t)
  PROVE  LockInv'
<1>. USE DEF statement
<1>1. /\ pc[c] = "idle" /\ pc'[c] = "validated" /\ target'[c] = t
      /\ \A d \in Calls \ {c} : pc'[d] = pc[d] /\ target'[d] = target[d]
      /\ UNCHANGED <<row, copy, approval>>
  BY FrameOf DEF Upload, Patch, Validated, TypeInv, TypeOK
<1>2. \A d \in Calls : ~Holder(d)
  <2>1. \A d \in Calls : pc[d] # "validated"
    BY DEF Upload, Patch, ClientReady, WebPC
  <2>2. \A d \in Calls : ~Engaged(d)
    <3>1. CASE Upload(c, t)
      BY <3>1 DEF Upload, QuietBeforeUpload, Engaged, WorkerPC
    <3>2. CASE Patch(c, t)
      BY <3>2 DEF Patch, MayAdvance, LockInv, FlagWhileEngaged
    <3>. QED
      BY <3>1, <3>2
  <2>. QED
    BY <2>1, <2>2 DEF Holder
<1>3. \A d \in Calls \ {c} : ~Holder(d)' /\ ~Engaged(d)' /\ Fits(d)'
  BY <1>1, <1>2 DEF LockInv, Fits, Holder, Engaged, Behind, WorkerPC
<1>4. ~Engaged(c)'
  BY <1>1 DEF Engaged, WorkerPC
<1>5. Fits(c)'
  <2>1. Rank[t] = Rank[row.status] + 1
    BY Zenon DEF Upload, Patch, Requested
  <2>2. Rank[row.status] \in Nat
    BY RankFacts, RowParts DEF TypeInv, TypeOK
  <2>. QED
    BY <1>1, <2>1, <2>2 DEF Fits
<1>6. ReviewsFit'
  <2>1. CASE Upload(c, t)
    BY <1>1, <2>1 DEF Upload, QuietBeforeUpload, ReviewsFit
  <2>2. CASE Patch(c, t)
    BY <1>1, <2>2 DEF Patch, LockInv, ReviewsFit, Present
  <2>. QED
    BY <2>1, <2>2
<1>. QED
  BY <1>3, <1>4, <1>5, <1>6 DEF LockInv, OneHolder, FlagWhileEngaged

LEMMA LockStep ==
  ASSUME Client # "any", SinglePhase
  PROVE  TypeInv /\ QuietBeforeUpload /\ LockInv /\ [Next]_vars => LockInv'
<1>. SUFFICES ASSUME TypeInv, QuietBeforeUpload, LockInv, [Next]_vars PROVE LockInv'
  OBVIOUS
<1>1. ASSUME NEW c \in Calls, NEW t \in Targets, Upload(c, t) \/ Patch(c, t) PROVE LockInv'
  BY <1>1, RequestSteps
<1>2. ASSUME NEW c \in Calls, WebStep(c) PROVE LockInv'
  BY <1>2, WebSteps DEF WebStep
<1>3. ASSUME NEW c \in Calls, WorkerStep(c) \/ RetryRefused(c) \/ Lost(c) PROVE LockInv'
  BY <1>3, ControlSteps, FetchRetrySteps, RemarkFailSteps, RaisedSteps, FinalizeStep
     DEF WorkerStep
<1>4. ASSUME NEW a \in Approvals, NEW o \in BOOLEAN,
             ReviewBegin(a, o) \/ ReviewCommit(a) \/ ReviewAbort(a)
      PROVE  LockInv'
  BY <1>4, ReviewSteps
<1>5. ASSUME UNCHANGED <<exists, pc, target, copy, approval>>,
             row'.status = row.status, row'.is_processing = row.is_processing
      PROVE  LockInv'
  BY <1>5 DEF LockInv, OneHolder, FlagWhileEngaged, ReviewsFit, Fits, Holder, Engaged,
     Behind, Present
<1>6. CASE Delete
  BY <1>6 DEF Delete, LockInv, OneHolder, FlagWhileEngaged, ReviewsFit, Fits, Holder,
     Engaged, Behind, Present, task, args
<1>7. CASE AccountDeleted
  <2>1. row'.status = row.status /\ row'.is_processing = row.is_processing
    BY <1>7 DEF AccountDeleted, TypeInv, TypeOK, RowType
  <2>. QED
    BY <1>5, <1>7, <2>1 DEF AccountDeleted, task, args
<1>8. ASSUME NEW j \in DOMAIN jobs, NEW o \in {"succeeded", "failed"}, JobEnds(j, o)
      PROVE  LockInv'
  BY <1>5, <1>8 DEF JobEnds, statement, task, args
<1>9. CASE UNCHANGED vars
  BY <1>5, <1>9 DEF vars, statement, task, args
<1>. QED
  BY <1>1, <1>2, <1>3, <1>4, <1>6, <1>7, <1>8, <1>9 DEF Next

\* The status is written by a finalizer and by an approval, by nobody else.
LEMMA StatusStep ==
  ASSUME TypeInv, LockInv, [Next]_vars
  PROVE  [row.status' # row.status => Rank[row.status'] = Rank[row.status] + 1]_row
<1>. USE DEF statement
<1>1. CASE row'.status = row.status
  BY <1>1
<1>2. ASSUME NEW c \in Calls, Finalize(c)
      PROVE  Rank[row'.status] = Rank[row.status] + 1
  BY <1>2, FinalizeAdvances
<1>3. ASSUME NEW a \in Approvals, ReviewCommit(a), row'.status # row.status
      PROVE  Rank[row'.status] = Rank[row.status] + 1
  <2>1. row'.status = "approved"
    BY <1>3 DEF ReviewCommit, TypeInv, TypeOK, RowType
  <2>2. row.status = "normalized"
    BY <1>3, <2>1 DEF ReviewCommit, LockInv, ReviewsFit
  <2>. QED
    BY <2>1, <2>2, RankFacts
<1>4. ASSUME row'.status # row.status
      PROVE  \/ \E c \in Calls : Finalize(c)
             \/ \E a \in Approvals : ReviewCommit(a)
  <2>0. row \in RowType
    BY DEF TypeInv, TypeOK
  <2>1. ~UNCHANGED row
    BY <1>4
  <2>2. ASSUME NEW c \in Calls PROVE ~Mark(c) /\ ~Enqueue(c)
    BY <1>4, <2>0, <2>1 DEF Mark, Enqueue, RowType
  <2>3. ASSUME NEW c \in Calls, WorkerStep(c) PROVE Finalize(c)
    BY <1>4, <2>0, <2>1, <2>3 DEF WorkerStep, Fetch, TargetReached, Remark, Submit,
       ServiceFails, PollSucceeded, PollFailed, Retry, RetriesExceeded, Record,
       FinalizerRaises, FailPhase, HandlerRefresh, HandlerSave, Publish, RowType
  <2>4. ASSUME NEW c \in Calls PROVE ~RetryRefused(c) /\ ~Lost(c)
    BY <2>1 DEF RetryRefused, Lost
  <2>5. ASSUME NEW a \in Approvals, NEW o \in BOOLEAN PROVE ~ReviewBegin(a, o) /\ ~ReviewAbort(a)
    BY <1>4, <2>0, <2>1 DEF ReviewBegin, ReviewAbort, RowType
  <2>6. ~AccountDeleted /\ ~Delete
    BY <1>4, <2>0, <2>1 DEF AccountDeleted, Delete, RowType
  <2>7. ASSUME NEW j \in DOMAIN jobs, NEW o \in {"succeeded", "failed"} PROVE ~JobEnds(j, o)
    BY <2>1 DEF JobEnds
  <2>8. ASSUME NEW c \in Calls, NEW t \in Targets PROVE ~Upload(c, t) /\ ~Patch(c, t)
    BY <2>1 DEF Upload, Patch
  <2>. QED
    BY <2>1, <2>2, <2>3, <2>4, <2>5, <2>6, <2>7, <2>8 DEF Next, WebStep, vars
<1>. QED
  BY <1>1, <1>2, <1>3, <1>4

\* If clients wait for each response and ask for one phase at a time, the flag
\* advance_statement_to sets and validate_advance reads keeps two calls from ever
\* working on the statement at once, with any number of clients and workers.
THEOREM Exclusive ==
  ASSUME Client # "any", SinglePhase
  PROVE  Spec => []ProcessingIsExclusive
<1>1. LockInv => ProcessingIsExclusive
  BY DEF LockInv, OneHolder, Holder, ProcessingIsExclusive
<1>2. ArtifactInv => QuietBeforeUpload
  BY DEF ArtifactInv
<1>3. TypeInv /\ QuietBeforeUpload /\ LockInv /\ [Next]_vars => LockInv'
  BY LockStep
<1>. QED
  BY <1>1, <1>2, <1>3, TypeInvInit, TypeInvStep, ArtifactInvInit, ArtifactInvStep, LockInit,
     PTL DEF Spec

\* Under the same discipline the flag is up whenever a call is at work: no save of
\* is_processing = False by one call hides another from validate_advance.
THEOREM FlagCovers ==
  ASSUME Client # "any", SinglePhase
  PROVE  Spec => []FlagWhileEngaged
<1>1. LockInv => FlagWhileEngaged
  BY DEF LockInv
<1>2. ArtifactInv => QuietBeforeUpload
  BY DEF ArtifactInv
<1>3. TypeInv /\ QuietBeforeUpload /\ LockInv /\ [Next]_vars => LockInv'
  BY LockStep
<1>. QED
  BY <1>1, <1>2, <1>3, TypeInvInit, TypeInvStep, ArtifactInvInit, ArtifactInvStep, LockInit,
     PTL DEF Spec

\* Under the same discipline no finalizer and no approval takes the status
\* anywhere but one phase forward, although each saves what it computed from a
\* row it read long before.
THEOREM Advances ==
  ASSUME Client # "any", SinglePhase
  PROVE  Spec => StatusOnlyAdvances
<1>1. TypeInv /\ LockInv /\ [Next]_vars
        => [row.status' # row.status => Rank[row.status'] = Rank[row.status] + 1]_row
  BY StatusStep
<1>2. ArtifactInv => QuietBeforeUpload
  BY DEF ArtifactInv
<1>3. TypeInv /\ QuietBeforeUpload /\ LockInv /\ [Next]_vars => LockInv'
  BY LockStep
<1>. QED
  BY <1>1, <1>2, <1>3, TypeInvInit, TypeInvStep, ArtifactInvInit, ArtifactInvStep, LockInit,
     PTL DEF Spec, StatusOnlyAdvances
-----------------------------------------------------------------------------
(* What the lock is good for: jobs, diagnoses and the end of the flag.      *)

\* A call that is about to work aims exactly one phase past the row.
Exact(c) ==
  Present /\ pc[c] \in {"validated", "marked", "queued"}
    => Rank[target[c]] = Rank[row.status] + 1

\* The job a call has is of the phase it is in, also while it waits to poll again.
JobsFit(c) ==
  /\ pc[c] \in {"idle", "validated", "marked"} => job[c] = 0
  /\ job[c] # 0 => job[c] \in 1..Len(jobs)
  /\ job[c] # 0 /\ pc[c] \in {"running", "succeeded", "recorded"}
       => jobs[job[c]].phase = Phase(c)
  /\ job[c] # 0 /\ pc[c] = "queued" /\ Present => jobs[job[c]].phase = PhaseFor[row.status]

\* What a call is about to save as the failed phase is that of the row.
DiagnosisFits(c) ==
  /\ Present /\ pc[c] = "failing" => copy[c].status = row.status
  /\ Present /\ pc[c] \in {"raised", "refreshed"} => row.status \in {"uploaded", "extracted"}
  /\ Present /\ pc[c] = "refreshed" => copy[c].failed = PhaseFor[row.status]

CallFits(c) == Exact(c) /\ JobsFit(c) /\ DiagnosisFits(c)

\* The flag comes down again, unless a worker is killed.
FlagEnds == MaxFaults = 0 => ProcessingMeansRunning

\* An upload creates a row that is idle and undiagnosed.
Unborn ==
  exists = "absent"
    => row.status = "uploaded" /\ ~row.is_processing /\ row.failed_phase = None

WorkInv == (\A c \in Calls : CallFits(c)) /\ DiagnosisFitsStatus /\ FlagEnds /\ Unborn

LEMMA WorkInit == Init => WorkInv
<1>. SUFFICES ASSUME Init PROVE WorkInv
  OBVIOUS
<1>1. ASSUME NEW c \in Calls PROVE CallFits(c)
  BY DEF Init, CallFits, Exact, JobsFit, DiagnosisFits, Present
<1>. QED
  BY <1>1 DEF Init, WorkInv, DiagnosisFitsStatus, FlagEnds, ProcessingMeansRunning, Present,
     Unborn

\* A job keeps its phase.
JobsGoOn ==
  /\ Len(jobs) \in Nat /\ Len(jobs') \in Nat /\ Len(jobs) <= Len(jobs')
  /\ \A j \in 1..Len(jobs) : jobs'[j].phase = jobs[j].phase

LEMMA JobsStay == ASSUME TypeInv, UNCHANGED jobs PROVE JobsGoOn
  BY DEF TypeInv, TypeOK, JobsGoOn

\* A step of one call that leaves the status alone.
LEMMA WorkKept ==
  ASSUME WorkInv, JobsGoOn, NEW c \in Calls,
         UNCHANGED exists, row'.status = row.status,
         \A d \in Calls \ {c} : /\ pc'[d] = pc[d] /\ target'[d] = target[d]
                                /\ copy'[d] = copy[d] /\ job'[d] = job[d],
         CallFits(c)',
         row'.failed_phase \in {row.failed_phase, None, PhaseFor[row.status]},
         ~Present => UNCHANGED row,
         MaxFaults = 0 /\ Present /\ row'.is_processing
           => Engaged(c)' \/ (row.is_processing /\ ~Engaged(c))
  PROVE  WorkInv'
<1>1. ASSUME NEW d \in Calls \ {c}
      PROVE  CallFits(d)' /\ (Engaged(d)' <=> Engaged(d))
  <2>1. CallFits(d)
    BY DEF WorkInv
  <2>2. Exact(d)' /\ DiagnosisFits(d)'
    BY <2>1 DEF CallFits, Exact, DiagnosisFits, Present
  <2>3. JobsFit(d)'
    BY <2>1 DEF CallFits, JobsFit, JobsGoOn, Present, Phase
  <2>4. Engaged(d)' <=> Engaged(d)
    BY DEF Engaged, Behind
  <2>. QED
    BY <2>2, <2>3, <2>4 DEF CallFits
<1>2. \A d \in Calls : CallFits(d)'
  BY <1>1
<1>3. DiagnosisFitsStatus'
  BY DEF WorkInv, DiagnosisFitsStatus
<1>4. FlagEnds'
  <2>. SUFFICES ASSUME MaxFaults = 0 PROVE FlagEnds'
    BY DEF FlagEnds
  <2>1. ASSUME Present, row'.is_processing PROVE \E d \in Calls : Engaged(d)'
    <3>1. CASE Engaged(c)'
      BY <3>1
    <3>2. CASE row.is_processing /\ ~Engaged(c)
      <4>1. PICK d \in Calls : Engaged(d)
        BY <2>1, <3>2 DEF WorkInv, FlagEnds, ProcessingMeansRunning
      <4>. QED
        BY <1>1, <3>2, <4>1
    <3>. QED
      BY <2>1, <3>1, <3>2
  <2>. QED
    BY <2>1 DEF WorkInv, FlagEnds, ProcessingMeansRunning, Present
<1>5. Unborn'
  BY DEF WorkInv, Unborn, Present
<1>. QED
  BY <1>2, <1>3, <1>4, <1>5 DEF WorkInv

\* The end of a call.
LEMMA WorkEnd ==
  ASSUME TypeInv, WorkInv, UNCHANGED jobs, NEW c \in Calls, End(c), pc[c] # "idle",
         UNCHANGED exists, row'.status = row.status,
         row'.failed_phase \in {row.failed_phase, None, PhaseFor[row.status]},
         ~Present => UNCHANGED row,
         MaxFaults = 0 /\ Present /\ row'.is_processing => row.is_processing /\ ~Engaged(c)
  PROVE  WorkInv'
<1>1. /\ pc'[c] = "done" /\ job'[c] = 0
      /\ \A d \in Calls \ {c} : /\ pc'[d] = pc[d] /\ target'[d] = target[d]
                                /\ copy'[d] = copy[d] /\ job'[d] = job[d]
  BY DEF End, Goto, TypeInv, TypeOK
<1>2. CallFits(c)'
  BY <1>1 DEF CallFits, Exact, JobsFit, DiagnosisFits
<1>. QED
  BY <1>1, <1>2, WorkKept, JobsStay

\* Only a statement whose status has a phase is behind what a client can ask for.
LEMMA BehindStage ==
  ASSUME TypeOK, NEW c \in Calls, Behind(c)
  PROVE  copy[c].status \in {"uploaded", "extracted"}
<1>1. copy[c].status \in Statuses /\ target[c] \in Targets
  BY CopyParts DEF TypeOK
<1>2. Rank[target[c]] \in 0..2 /\ Rank[copy[c].status] \in 0..3
  BY <1>1, RankFacts DEF Targets
<1>. QED
  BY <1>1, <1>2, RankFacts DEF Behind, Statuses

LEMMA WorkWebSteps ==
  ASSUME TypeInv, LockInv, WorkInv, NEW c \in Calls, Mark(c) \/ Enqueue(c)
  PROVE  WorkInv'
<1>. USE DEF args, statement
<1>0. row \in RowType
  BY DEF TypeInv, TypeOK
<1>1. CASE Enqueue(c)
  <2>1. /\ pc[c] = "marked" /\ pc'[c] = "queued"
        /\ \A d \in Calls \ {c} : pc'[d] = pc[d]
        /\ UNCHANGED <<exists, row, jobs, target, copy, job>>
    BY <1>1, FrameOf DEF Enqueue
  <2>2. CallFits(c)' /\ Engaged(c)'
    BY <2>1 DEF WorkInv, CallFits, Exact, JobsFit, DiagnosisFits, Present, Engaged
  <2>. QED
    BY <2>1, <2>2, WorkKept, JobsStay
<1>2. CASE Mark(c) /\ Present
  <2>1. /\ pc[c] = "validated" /\ pc'[c] = "marked"
        /\ \A d \in Calls \ {c} : pc'[d] = pc[d]
        /\ UNCHANGED <<exists, jobs, target, copy, job>>
    BY <1>2, FrameOf DEF Mark
  <2>2. row'.status = row.status /\ row'.failed_phase = row.failed_phase
    BY <1>0, <1>2 DEF Mark, RowType
  <2>3. CallFits(c)' /\ Engaged(c)'
    BY <2>1, <2>2 DEF WorkInv, CallFits, Exact, JobsFit, DiagnosisFits, Present, Engaged
  <2>. QED
    BY <1>2, <2>1, <2>2, <2>3, WorkKept, JobsStay DEF Present
<1>3. CASE Mark(c) /\ ~Present
  BY <1>3, WorkEnd DEF Mark, Present
<1>. QED
  BY <1>1, <1>2, <1>3

\* A worker step that moves the control of a call and keeps row, copy and job.
LEMMA WorkControlSteps ==
  ASSUME TypeInv, LockInv, WorkInv, NEW c \in Calls,
         \/ TargetReached(c) \/ ServiceFails(c) \/ PollSucceeded(c)
         \/ PollFailed(c) \/ RetriesExceeded(c) \/ RetryRefused(c) \/ Record(c)
  PROVE  WorkInv'
<1>. USE DEF args, statement
<1>1. UNCHANGED <<exists, row, jobs, target, copy, job>>
  BY DEF TargetReached, ServiceFails, PollSucceeded, PollFailed, RetriesExceeded,
         RetryRefused, Record
<1>2. \A d \in Calls \ {c} : pc'[d] = pc[d]
  BY FrameOf DEF TargetReached, ServiceFails, PollSucceeded, PollFailed,
     RetriesExceeded, RetryRefused, Record
<1>3. \/ pc[c] = "running" /\ ~Behind(c) /\ pc'[c] = "finishing"
      \/ pc[c] = "running" /\ Behind(c) /\ pc'[c] \in {"failing", "succeeded", "raised"}
      \/ pc[c] = "succeeded" /\ pc'[c] \in {"recorded", "raised"}
  BY FrameOf DEF TargetReached, ServiceFails, PollSucceeded, PollFailed, RetriesExceeded,
     RetryRefused, Record, StillRunning, Polling, Working
<1>4. Present /\ (pc[c] = "succeeded" \/ (pc[c] = "running" /\ Behind(c)))
        => copy[c].status = row.status /\ row.status \in {"uploaded", "extracted"}
  <2>1. Behind(c) => copy[c].status \in {"uploaded", "extracted"}
    BY BehindStage DEF TypeInv
  <2>. QED
    BY <2>1 DEF LockInv, Fits, TypeInv, InPhase
<1>5. CallFits(c)'
  BY <1>1, <1>3, <1>4 DEF WorkInv, CallFits, Exact, JobsFit, DiagnosisFits, Present, Phase
<1>6. Engaged(c)' \/ ~Engaged(c)
  BY <1>1, <1>3 DEF Engaged, Behind, WorkerPC
<1>7. Present /\ row'.is_processing /\ MaxFaults = 0 /\ ~Engaged(c)' => row.is_processing
  BY <1>1
<1>. QED
  BY <1>1, <1>2, <1>5, <1>6, <1>7, WorkKept, JobsStay

LEMMA WorkSubmit ==
  ASSUME TypeInv, LockInv, WorkInv, NEW c \in Calls, Submit(c)
  PROVE  WorkInv'
<1>. USE DEF args, statement
<1>1. /\ pc[c] = "running" /\ Behind(c) /\ job[c] = 0
      /\ UNCHANGED <<exists, row, pc, target, copy>>
  BY DEF Submit, Working
<1>2. Phase(c) \in Phases
  BY WorkingPhase DEF Submit, TypeInv
<1>3. jobs \in Seq(JobType) /\ job \in [Calls -> Nat] /\ ocr \in Nat
  BY DEF TypeInv, TypeOK
<1> DEFINE run == IF Phase(c) = "extraction" THEN 0 ELSE ocr
           new == [phase |-> Phase(c), run |-> run, state |-> "running"]
<1>4. JobsGoOn /\ job'[c] \in 1..Len(jobs') /\ jobs'[job'[c]].phase = Phase(c)
      /\ \A d \in Calls \ {c} : job'[d] = job[d]
  <2>1. ASSUME NEW j \in InFlight(Phase(c), run), job' = [job EXCEPT ![c] = j], UNCHANGED jobs
        PROVE  <1>4!:
    BY <1>3, <2>1, JobsStay DEF InFlight
  <2>2. ASSUME jobs' = Append(jobs, new), job' = [job EXCEPT ![c] = Len(jobs) + 1]
        PROVE  <1>4!:
    <3>1. new \in JobType /\ new.phase = Phase(c)
      BY <1>2, <1>3 DEF JobType
    <3> HIDE DEF new
    <3>2. /\ Len(jobs) \in Nat /\ Len(jobs') = Len(jobs) + 1
          /\ jobs'[Len(jobs) + 1] = new
          /\ \A j \in 1..Len(jobs) : jobs'[j] = jobs[j]
      BY <1>3, <2>2, <3>1
    <3>. QED
      BY <1>3, <2>2, <3>1, <3>2 DEF JobsGoOn
  <2>. QED
    BY <2>1, <2>2 DEF Submit
<1>5. CallFits(c)'
  BY <1>1, <1>4 DEF CallFits, Exact, JobsFit, DiagnosisFits, Phase
<1>6. Engaged(c)'
  BY <1>1 DEF Engaged, Behind
<1>. QED
  BY <1>1, <1>4, <1>5, <1>6, WorkKept

LEMMA WorkFetchRetry ==
  ASSUME TypeInv, LockInv, WorkInv, NEW c \in Calls, Fetch(c) \/ Retry(c)
  PROVE  WorkInv'
<1>. USE DEF args, statement
<1>0. /\ target[c] \in Statuses /\ copy[c].status \in Statuses /\ row.status \in Statuses
      /\ \A s \in Statuses : Rank[s] \in Nat
  <2>1. target[c] \in Statuses
    BY DEF TypeInv, TypeOK, Targets, Statuses
  <2>2. copy[c].status \in Statuses /\ row.status \in Statuses
    BY RowParts, CopyParts DEF TypeInv, TypeOK
  <2>3. \A s \in Statuses : Rank[s] \in Nat
    BY RankFacts
  <2>. QED
    BY <2>1, <2>2, <2>3
<1>1. CASE Fetch(c) /\ Present
  <2>1. /\ pc[c] = "queued" /\ pc'[c] = "running"
        /\ copy'[c].status = row.status
        /\ \A d \in Calls \ {c} : pc'[d] = pc[d] /\ copy'[d] = copy[d]
        /\ UNCHANGED <<exists, row, jobs, target, job>>
    BY <1>1, FrameOf DEF Fetch, TypeInv, TypeOK
  <2>2. Rank[target[c]] = Rank[row.status] + 1
    BY <1>1, <2>1 DEF WorkInv, CallFits, Exact
  <2>3. Engaged(c)'
    BY <1>0, <2>1, <2>2 DEF Engaged, Behind
  <2>4. CallFits(c)'
    BY <1>1, <2>1 DEF WorkInv, CallFits, Exact, JobsFit, DiagnosisFits, Present, Phase
  <2>. QED
    BY <2>1, <2>3, <2>4, WorkKept, JobsStay
<1>2. CASE Fetch(c) /\ ~Present
  BY <1>2, WorkEnd DEF Fetch
<1>3. CASE Retry(c)
  <2>1. /\ pc[c] = "running" /\ Behind(c) /\ job[c] # 0 /\ pc'[c] = "queued"
        /\ \A d \in Calls \ {c} : pc'[d] = pc[d] /\ copy'[d] = copy[d]
        /\ UNCHANGED <<exists, row, jobs, target, job>>
    BY <1>3, FrameOf DEF Retry, StillRunning, Polling, Working, TypeInv, TypeOK
  <2>2. Present => copy[c].status = row.status
    BY <2>1 DEF LockInv, Fits
  <2>3. Present => Rank[target[c]] = Rank[row.status] + 1
    BY <1>0, <2>1, <2>2 DEF LockInv, Fits, Behind
  <2>4. jobs[job[c]].phase = PhaseFor[copy[c].status] /\ job[c] \in 1..Len(jobs)
    BY <2>1 DEF WorkInv, CallFits, JobsFit, Phase
  <2>5. CallFits(c)'
    BY <2>1, <2>2, <2>3, <2>4 DEF CallFits, Exact, JobsFit, DiagnosisFits, Present
  <2>6. Engaged(c)'
    BY <2>1 DEF Engaged
  <2>. QED
    BY <2>1, <2>5, <2>6, WorkKept, JobsStay
<1>. QED
  BY <1>1, <1>2, <1>3

LEMMA WorkRemarkFail ==
  ASSUME TypeInv, LockInv, WorkInv, NEW c \in Calls, Remark(c) \/ FailPhase(c)
  PROVE  WorkInv'
<1>. USE DEF args, statement
<1>0. copy \in [Calls -> CopyType] /\ copy[c] \in CopyType /\ row \in RowType
  BY DEF TypeInv, TypeOK
<1>1. CASE Remark(c)
  <2>1. copy'[c].status = copy[c].status /\ \A d \in Calls \ {c} : copy'[d] = copy[d]
    BY <1>0, <1>1, CopyParts DEF Remark
  <2>2. /\ row'.status = row.status /\ row'.failed_phase = row.failed_phase
        /\ ~Present => row' = row
    BY <1>0, <1>1 DEF Remark, RowType
  <2>3. /\ pc[c] = "running" /\ Behind(c)
        /\ pc'[c] = "running" \/ (pc'[c] = "raised" /\ ~Present)
        /\ \A d \in Calls \ {c} : pc'[d] = pc[d]
        /\ UNCHANGED <<exists, jobs, target, job>>
    BY <1>1, FrameOf DEF Remark
  <2>4. CallFits(c)' /\ Engaged(c)'
    BY <2>1, <2>3 DEF WorkInv, CallFits, Exact, JobsFit, DiagnosisFits, Engaged, Behind,
       WorkerPC, Phase, Present
  <2>. QED
    BY <2>1, <2>2, <2>3, <2>4, WorkKept, JobsStay DEF Present
<1>2. CASE FailPhase(c)
  <2>1. \A d \in Calls \ {c} : copy'[d] = copy[d]
    BY <1>0, <1>2 DEF FailPhase
  <2>2. /\ pc[c] = "failing"
        /\ pc'[c] = (IF Present THEN "finishing" ELSE "raised")
        /\ \A d \in Calls \ {c} : pc'[d] = pc[d]
        /\ UNCHANGED <<exists, jobs, target, job>>
    BY <1>2, FrameOf DEF FailPhase
  <2>3. /\ row'.status = row.status
        /\ ~Present => row' = row
        /\ Present => ~row'.is_processing /\ row'.failed_phase = Phase(c)
    BY <1>0, <1>2 DEF FailPhase, RowType
  <2>4. Present => Phase(c) = PhaseFor[row.status]
    BY <2>2 DEF WorkInv, CallFits, DiagnosisFits, Phase
  <2>5. CallFits(c)'
    BY <2>2 DEF WorkInv, CallFits, Exact, JobsFit, DiagnosisFits, Present
  <2>. QED
    BY <2>1, <2>2, <2>3, <2>4, <2>5, WorkKept, JobsStay DEF Present
<1>. QED
  BY <1>1, <1>2

LEMMA WorkRaisedSteps ==
  ASSUME TypeInv, LockInv, WorkInv, NEW c \in Calls,
         FinalizerRaises(c) \/ HandlerRefresh(c) \/ HandlerSave(c) \/ Publish(c) \/ Lost(c)
  PROVE  WorkInv'
<1>. USE DEF args, statement
<1>0. copy \in [Calls -> CopyType] /\ row \in RowType /\ MaxFaults \in Nat /\ faults \in Nat
  BY BoundsAssumption DEF TypeInv, TypeOK
<1>1. CASE FinalizerRaises(c)
  <2>1. \A d \in Calls \ {c} : copy'[d] = copy[d]
    BY <1>0, <1>1 DEF FinalizerRaises, Advanced
  <2>2. /\ pc[c] \in {"succeeded", "recorded"} /\ pc'[c] = "raised"
        /\ \A d \in Calls \ {c} : pc'[d] = pc[d]
        /\ UNCHANGED <<exists, row, jobs, target, job>>
    BY <1>1, FrameOf DEF FinalizerRaises
  <2>3. Present => row.status \in {"uploaded", "extracted"}
    BY <2>2 DEF LockInv, Fits, TypeInv, InPhase
  <2>4. CallFits(c)' /\ Engaged(c)'
    BY <2>2, <2>3 DEF WorkInv, CallFits, Exact, JobsFit, DiagnosisFits, Engaged, WorkerPC,
       Present
  <2>. QED
    BY <2>1, <2>2, <2>4, WorkKept, JobsStay
<1>2. CASE HandlerRefresh(c) /\ Present
  <2> DEFINE failed == IF row.failed_phase # None THEN row.failed_phase
                       ELSE PhaseFor[row.status]
  <2>1. copy'[c].failed = failed /\ \A d \in Calls \ {c} : copy'[d] = copy[d]
    BY <1>0, <1>2 DEF HandlerRefresh
  <2>2. failed = PhaseFor[row.status]
    BY DEF WorkInv, DiagnosisFitsStatus
  <2>3. /\ pc[c] = "raised" /\ pc'[c] = "refreshed"
        /\ \A d \in Calls \ {c} : pc'[d] = pc[d]
        /\ UNCHANGED <<exists, row, jobs, target, job>>
    BY <1>2, FrameOf DEF HandlerRefresh
  <2>4. CallFits(c)' /\ Engaged(c)'
    BY <2>1, <2>2, <2>3 DEF WorkInv, CallFits, Exact, JobsFit, DiagnosisFits, Engaged, WorkerPC,
       Present
  <2>. QED
    BY <2>1, <2>3, <2>4, WorkKept, JobsStay
<1>3. CASE HandlerRefresh(c) /\ ~Present
  BY <1>3, WorkEnd DEF HandlerRefresh, Leave
<1>4. CASE HandlerSave(c)
  <2>1. pc[c] = "refreshed" /\ End(c) /\ UNCHANGED <<exists, jobs>>
    BY <1>4 DEF HandlerSave, Leave
  <2>2. Present => copy[c].failed = PhaseFor[row.status]
    BY <2>1 DEF WorkInv, CallFits, DiagnosisFits
  <2>3. /\ row'.status = row.status
        /\ ~Present => row' = row
        /\ Present => ~row'.is_processing /\ row'.failed_phase = copy[c].failed
    BY <1>0, <1>4 DEF HandlerSave, RowType
  <2>. QED
    BY <2>1, <2>2, <2>3, WorkEnd DEF Present
<1>5. CASE Publish(c)
  <2>1. pc[c] = "finishing" /\ End(c) /\ UNCHANGED <<exists, row, jobs>>
    BY <1>5 DEF Publish, Leave
  <2>2. ~Engaged(c)
    BY <2>1 DEF Engaged, WorkerPC
  <2>. QED
    BY <2>1, <2>2, WorkEnd
<1>6. CASE Lost(c)
  <2>1. pc[c] # "idle" /\ End(c) /\ UNCHANGED <<exists, row, jobs>> /\ MaxFaults # 0
    BY <1>0, <1>6 DEF Lost, WorkerPC
  <2>. QED
    BY <2>1, WorkEnd
<1>. QED
  BY <1>1, <1>2, <1>3, <1>4, <1>5, <1>6

\* A finalizer is the only holder, so no job and no failure of another call is
\* about the phase it ends.
LEMMA WorkFinalize ==
  ASSUME TypeInv, LockInv, WorkInv, NEW c \in Calls, Finalize(c)
  PROVE  WorkInv'
<1>1. /\ pc[c] = "recorded" /\ pc'[c] = "running" /\ Present
      /\ job'[c] = 0
      /\ row'.failed_phase = None /\ ~row'.is_processing
      /\ \A d \in Calls \ {c} : /\ pc'[d] = pc[d] /\ copy'[d] = copy[d]
                                /\ job'[d] = job[d]
      /\ UNCHANGED <<exists, jobs, target>>
  BY FrameOf DEF Finalize, Advanced, TypeInv, TypeOK
<1>2. CallFits(c)'
  BY <1>1 DEF CallFits, Exact, JobsFit, DiagnosisFits
<1>3. ASSUME NEW d \in Calls \ {c} PROVE CallFits(d)'
  <2>1. ~Holder(d)
    BY <1>1 DEF LockInv, OneHolder, Holder, Engaged, WorkerPC
  <2>2. pc[d] \notin {"validated", "marked", "queued", "succeeded", "recorded", "failing",
                      "raised", "refreshed"}
    BY <2>1 DEF Holder, Engaged, WorkerPC
  <2>3. CallFits(d)
    BY DEF WorkInv
  <2>. QED
    BY <1>1, <2>2, <2>3 DEF CallFits, Exact, JobsFit, DiagnosisFits, Phase
<1>4. FlagEnds'
  BY <1>1 DEF FlagEnds, ProcessingMeansRunning, Present
<1>5. DiagnosisFitsStatus'
  BY <1>1 DEF DiagnosisFitsStatus
<1>. QED
  BY <1>1, <1>2, <1>3, <1>4, <1>5 DEF WorkInv, Unborn, Present

\* Nobody is on the way to a phase, or in one, while a statement is being approved.
LEMMA WorkReview ==
  ASSUME TypeInv, LockInv, WorkInv, NEW a \in Approvals, NEW o \in BOOLEAN,
         ReviewBegin(a, o) \/ ReviewCommit(a) \/ ReviewAbort(a)
  PROVE  WorkInv'
<1>. USE DEF task, args, statement
<1>0. row \in RowType
  BY DEF TypeInv, TypeOK
<1>1. UNCHANGED <<exists, jobs, pc, target, copy, job>> /\ row'.is_processing = row.is_processing
  BY <1>0 DEF ReviewBegin, ReviewCommit, ReviewAbort, RowType
<1>2. FlagEnds'
  BY <1>1 DEF WorkInv, FlagEnds, ProcessingMeansRunning, Engaged, Behind, Present
<1>3. CASE ReviewBegin(a, o) \/ ReviewAbort(a)
  <2>1. row'.status = row.status /\ row'.failed_phase = row.failed_phase
    BY <1>0, <1>3 DEF ReviewBegin, ReviewAbort, RowType
  <2>2. ASSUME NEW c \in Calls PROVE CallFits(c)'
    BY <1>1, <2>1 DEF WorkInv, CallFits, Exact, JobsFit, DiagnosisFits, Present, Phase
  <2>. QED
    BY <1>1, <1>2, <2>1, <2>2 DEF WorkInv, DiagnosisFitsStatus, Unborn
<1>4. CASE ReviewCommit(a)
  <2>1. /\ Present /\ row.status \in {"normalized", "approved"}
        /\ row'.status = "approved" /\ row'.failed_phase = None
    BY <1>0, <1>4 DEF ReviewCommit, RowType, LockInv, ReviewsFit
  <2>2. PhaseFor["normalized"] = None /\ PhaseFor["approved"] = None
    BY DEF PhaseFor, Statuses
  <2>3. ASSUME NEW c \in Calls PROVE CallFits(c)'
    <3>1. CallFits(c)
      BY DEF WorkInv
    <3>2. pc[c] \notin {"validated", "marked", "queued"}
      <4>1. target[c] \in Targets
        BY DEF TypeInv, TypeOK
      <4>2. Rank[target[c]] \in 0..2 /\ Rank[row.status] \in 2..3
        BY <2>1, <4>1, RankFacts DEF Targets
      <4>. QED
        BY <2>1, <3>1, <4>2 DEF CallFits, Exact
    <3>3. pc[c] \notin {"failing", "raised", "refreshed"}
      BY <2>1, <3>1 DEF CallFits, DiagnosisFits, TypeInv, InPhase
    <3>4. DiagnosisFits(c)'
      BY <1>1, <2>1, <2>2, <3>1, <3>3 DEF CallFits, DiagnosisFits
    <3>5. Exact(c)' /\ JobsFit(c)'
      BY <1>1, <3>1, <3>2 DEF CallFits, Exact, JobsFit, Phase
    <3>. QED
      BY <3>4, <3>5 DEF CallFits
  <2>. QED
    BY <1>1, <1>2, <2>1, <2>3 DEF WorkInv, DiagnosisFitsStatus, Unborn, Present
<1>. QED
  BY <1>3, <1>4

LEMMA WorkRequest ==
  ASSUME SinglePhase, TypeInv, QuietBeforeUpload, LockInv, WorkInv,
         NEW c \in Calls, NEW t \in Targets, Upload(c, t) \/ Patch(c, t)
  PROVE  WorkInv'
<1>. USE DEF statement
<1>1. /\ pc[c] = "idle" /\ pc'[c] = "validated" /\ target'[c] = t
      /\ \A d \in Calls \ {c} : pc'[d] = pc[d] /\ target'[d] = target[d]
      /\ UNCHANGED <<row, jobs, job, copy>>
  BY FrameOf DEF Upload, Patch, Validated, TypeInv, TypeOK
<1>2. Rank[t] = Rank[row.status] + 1
  BY Zenon DEF Upload, Patch, Requested
<1>3. CallFits(c)'
  BY <1>1, <1>2 DEF WorkInv, CallFits, Exact, JobsFit, DiagnosisFits
<1>4. ASSUME NEW d \in Calls \ {c} PROVE CallFits(d)'
  <2>1. CallFits(d)
    BY DEF WorkInv
  <2>2. CASE Upload(c, t)
    <3>1. pc[d] = "idle"
      BY <2>2 DEF Upload, QuietBeforeUpload
    <3>. QED
      BY <1>1, <2>1, <3>1 DEF CallFits, Exact, JobsFit, DiagnosisFits
  <2>3. CASE Patch(c, t)
    <3>1. UNCHANGED exists
      BY <2>3 DEF Patch
    <3>. QED
      BY <1>1, <2>1, <3>1 DEF CallFits, Exact, JobsFit, DiagnosisFits, Present, Phase
  <2>. QED
    BY <2>2, <2>3
<1>5. FlagEnds'
  <2>1. CASE Upload(c, t)
    BY <1>1, <2>1 DEF Upload, WorkInv, FlagEnds, Unborn, ProcessingMeansRunning, Present
  <2>2. CASE Patch(c, t)
    BY <1>1, <2>2 DEF Patch, MayAdvance, WorkInv, FlagEnds, ProcessingMeansRunning, Present
  <2>. QED
    BY <2>1, <2>2
<1>6. Unborn'
  BY DEF Upload, Patch, Present, Unborn
<1>. QED
  BY <1>1, <1>3, <1>4, <1>5, <1>6 DEF WorkInv, DiagnosisFitsStatus

LEMMA WorkStep ==
  ASSUME SinglePhase, TypeInv, QuietBeforeUpload, LockInv, WorkInv, [Next]_vars
  PROVE  WorkInv'
<1>. USE DEF statement, task, args
<1>1. ASSUME NEW c \in Calls, NEW t \in Targets, Upload(c, t) \/ Patch(c, t) PROVE WorkInv'
  BY <1>1, WorkRequest
<1>2. ASSUME NEW c \in Calls, WebStep(c) PROVE WorkInv'
  BY <1>2, WorkWebSteps DEF WebStep
<1>3. ASSUME NEW c \in Calls, WorkerStep(c) \/ RetryRefused(c) \/ Lost(c) PROVE WorkInv'
  BY <1>3, WorkControlSteps, WorkSubmit, WorkFetchRetry, WorkRemarkFail, WorkRaisedSteps,
     WorkFinalize
     DEF WorkerStep
<1>4. ASSUME NEW a \in Approvals, NEW o \in BOOLEAN,
             ReviewBegin(a, o) \/ ReviewCommit(a) \/ ReviewAbort(a)
      PROVE  WorkInv'
  BY <1>4, WorkReview
<1>5. ASSUME JobsGoOn, UNCHANGED <<pc, target, copy, job>>,
             UNCHANGED exists \/ (exists # "absent" /\ exists' = "deleted"),
             row'.status = row.status, row'.failed_phase = row.failed_phase,
             row'.is_processing = row.is_processing
      PROVE  WorkInv'
  <2>1. ASSUME NEW c \in Calls PROVE CallFits(c)'
    <3>1. CallFits(c)
      BY DEF WorkInv
    <3>. QED
      BY <1>5, <3>1 DEF CallFits, Exact, JobsFit, JobsGoOn, DiagnosisFits, Present, Phase
  <2>2. FlagEnds'
    BY <1>5 DEF WorkInv, FlagEnds, ProcessingMeansRunning, Engaged, Behind, Present
  <2>. QED
    BY <1>5, <2>1, <2>2 DEF WorkInv, DiagnosisFitsStatus, Unborn
<1>6. CASE Delete
  BY <1>5, <1>6, JobsStay DEF Delete, Present
<1>7. CASE AccountDeleted
  <2>1. /\ row'.status = row.status /\ row'.failed_phase = row.failed_phase
        /\ row'.is_processing = row.is_processing
    BY <1>7 DEF AccountDeleted, TypeInv, TypeOK, RowType
  <2>. QED
    BY <1>5, <1>7, <2>1, JobsStay DEF AccountDeleted
<1>8. ASSUME NEW j \in DOMAIN jobs, NEW o \in {"succeeded", "failed"}, JobEnds(j, o)
      PROVE  WorkInv'
  <2>1. jobs \in Seq(JobType) /\ jobs' = [jobs EXCEPT ![j].state = o]
    BY <1>8 DEF JobEnds, TypeInv, TypeOK
  <2>2. jobs[j] \in JobType
    BY <2>1
  <2>3. [jobs[j] EXCEPT !.state = o].phase = jobs[j].phase
    BY <2>2 DEF JobType
  <2>4. Len(jobs') = Len(jobs) /\ Len(jobs) \in Nat
    BY <2>1
  <2>5. \A i \in 1..Len(jobs) : jobs'[i].phase = jobs[i].phase
    BY <2>1, <2>3
  <2>6. JobsGoOn
    BY <2>4, <2>5 DEF JobsGoOn
  <2>. QED
    BY <1>5, <1>8, <2>6 DEF JobEnds
<1>9. CASE UNCHANGED vars
  BY <1>5, <1>9, JobsStay DEF vars
<1>. QED
  BY <1>1, <1>2, <1>3, <1>4, <1>6, <1>7, <1>8, <1>9 DEF Next

LEMMA WorkAlways ==
  ASSUME Client # "any", SinglePhase
  PROVE  Spec => [](LockInv /\ WorkInv)
<1>1. ArtifactInv => QuietBeforeUpload
  BY DEF ArtifactInv
<1>2. TypeInv /\ QuietBeforeUpload /\ LockInv /\ [Next]_vars => LockInv'
  BY LockStep
<1>3. TypeInv /\ QuietBeforeUpload /\ LockInv /\ WorkInv /\ [Next]_vars => WorkInv'
  BY WorkStep
<1>. QED
  BY <1>1, <1>2, <1>3, TypeInvInit, TypeInvStep, ArtifactInvInit, ArtifactInvStep, LockInit,
     WorkInit, PTL DEF Spec

\* Under the same discipline a task never polls, or finalizes, a job of another
\* phase than the statement's, however often it was put back into the broker.
THEOREM JobsOfThePhase ==
  ASSUME Client # "any", SinglePhase
  PROVE  Spec => []JobFitsPhase
<1>1. LockInv /\ WorkInv => JobFitsPhase
  BY DEF LockInv, Fits, WorkInv, CallFits, JobsFit, JobFitsPhase
<1>. QED
  BY <1>1, WorkAlways, PTL

\* Under the same discipline the failure that is shown is the failure of the phase
\* that has to be retried, whoever saved it and from whatever copy.
THEOREM DiagnosisTrue ==
  ASSUME Client # "any", SinglePhase
  PROVE  Spec => []DiagnosisFitsStatus
<1>1. WorkInv => DiagnosisFitsStatus
  BY DEF WorkInv
<1>. QED
  BY <1>1, WorkAlways, PTL

\* If, besides, no worker is killed and no message lost, the flag is up only while a
\* call is at work: every way out of a task lowers it.
THEOREM FlagComesDown ==
  ASSUME Client # "any", SinglePhase, MaxFaults = 0
  PROVE  Spec => []ProcessingMeansRunning
<1>1. WorkInv => ProcessingMeansRunning
  BY DEF WorkInv, FlagEnds
<1>. QED
  BY <1>1, WorkAlways, PTL
-----------------------------------------------------------------------------
(* The pipeline implements the life cycle.  The columns it shows change in  *)
(* few actions; the rest of the work of calls, jobs and reviews stutters.   *)

Step == [Lifecycle!Next]_(Lifecycle!lifecycle)

\* The columns of the life cycle stay, or nobody can see them.
Unseen ==
  /\ UNCHANGED exists
  /\ Present => /\ row'.status = row.status
                /\ row'.is_processing = row.is_processing
                /\ row'.failed_phase = row.failed_phase

LEMMA UnseenStutters == ASSUME Unseen PROVE Step
  BY DEF Unseen, Step, Lifecycle!lifecycle, Present

LEMMA StepOfRequest ==
  ASSUME TypeInv, WorkInv, NEW c \in Calls, NEW t \in Targets, Upload(c, t) \/ Patch(c, t)
  PROVE  Step
<1>1. CASE Patch(c, t)
  BY <1>1, UnseenStutters DEF Patch, Unseen, statement
<1>2. CASE Upload(c, t)
  <2>1. /\ exists = "absent" /\ exists' = "present" /\ UNCHANGED row
        /\ row.status = "uploaded" /\ ~row.is_processing /\ row.failed_phase = None
    BY <1>2 DEF Upload, WorkInv, Unborn
  <2>2. Lifecycle!Upload
    BY <2>1 DEF Lifecycle!Upload, Present, None
  <2>. QED
    BY <2>2 DEF Step, Lifecycle!Next
<1>. QED
  BY <1>1, <1>2

\* Both saves that raise the flag find a status that has a phase to run.
LEMMA StepOfMark ==
  ASSUME TypeInv, LockInv, WorkInv, NEW c \in Calls, Mark(c) \/ Remark(c)
  PROVE  Step
<1>1. CASE ~Present
  BY <1>1, UnseenStutters DEF Unseen, Mark, Remark
<1>2. CASE Present
  <2>0. row \in RowType /\ target[c] \in Targets
    BY DEF TypeInv, TypeOK
  <2>1. /\ UNCHANGED exists
        /\ row' = [row EXCEPT !.is_processing = TRUE]
    BY <1>2 DEF Mark, Remark
  <2>2. row.status \in {"uploaded", "extracted"}
    <3>1. CASE Mark(c)
      <4>1. Rank[target[c]] = Rank[row.status] + 1
        BY <1>2, <3>1 DEF Mark, WorkInv, CallFits, Exact
      <4>2. Rank[target[c]] \in 0..2
        BY <2>0, RankFacts DEF Targets
      <4>. QED
        BY <2>0, <4>1, <4>2, RankFacts DEF RowType, Statuses
    <3>2. CASE Remark(c)
      <4>1. Behind(c) /\ copy[c].status = row.status
        BY <1>2, <3>2 DEF Remark, LockInv, Fits
      <4>. QED
        BY <4>1, BehindStage DEF TypeInv
    <3>. QED
      BY <3>1, <3>2
  <2>3. row'.status = row.status /\ row'.is_processing /\ row'.failed_phase = row.failed_phase
    BY <2>0, <2>1 DEF RowType
  <2>4. CASE row.is_processing
    <3>1. row'.is_processing = row.is_processing
      BY <2>0, <2>1, <2>4 DEF RowType
    <3>. QED
      BY <2>1, <2>3, <3>1, UnseenStutters DEF Unseen
  <2>5. CASE ~row.is_processing
    <3>1. Lifecycle!Begin
      BY <1>2, <2>1, <2>2, <2>3, <2>5 DEF Lifecycle!Begin, Lifecycle!PhaseFrom, Present
    <3>. QED
      BY <3>1 DEF Step, Lifecycle!Next
  <2>. QED
    BY <2>4, <2>5
<1>. QED
  BY <1>1, <1>2

\* The saves that lower it come from the one call the flag is up for.
LEMMA StepOfFinalize ==
  ASSUME TypeInv, LockInv, NEW c \in Calls, Finalize(c)
  PROVE  Step
<1>1. /\ Present /\ UNCHANGED exists /\ pc[c] = "recorded"
      /\ row'.status = StatusAfter[Phase(c)]
      /\ ~row'.is_processing /\ row'.failed_phase = None
  BY DEF Finalize
<1>2. row.is_processing
  BY <1>1 DEF LockInv, FlagWhileEngaged, Engaged, WorkerPC
<1>3. copy[c].status = row.status /\ row.status \in {"uploaded", "extracted"}
  BY <1>1 DEF LockInv, Fits, TypeInv, InPhase
<1>4. Lifecycle!Succeed
  BY <1>1, <1>2, <1>3, PhaseFacts DEF Lifecycle!Succeed, Lifecycle!StageAfter, Phase,
     Present, None
<1>. QED
  BY <1>4 DEF Step, Lifecycle!Next

LEMMA StepOfFailure ==
  ASSUME TypeInv, LockInv, WorkInv, NEW c \in Calls, FailPhase(c) \/ HandlerSave(c)
  PROVE  Step
<1>1. CASE ~Present
  BY <1>1, UnseenStutters DEF Unseen, FailPhase, HandlerSave
<1>2. CASE Present
  <2>0. row \in RowType
    BY DEF TypeInv, TypeOK
  <2>1. /\ UNCHANGED exists
        /\ pc[c] \in {"failing", "refreshed"}
        /\ row'.status = row.status /\ ~row'.is_processing
    BY <1>2, <2>0 DEF FailPhase, HandlerSave, RowType
  <2>2. row.is_processing
    BY <1>2, <2>1 DEF LockInv, FlagWhileEngaged, Engaged, WorkerPC
  <2>3. /\ row.status \in {"uploaded", "extracted"}
        /\ row'.failed_phase = PhaseFor[row.status]
    <3>1. CASE FailPhase(c)
      BY <1>2, <2>0, <3>1 DEF FailPhase, Phase, RowType, WorkInv, CallFits, DiagnosisFits,
         TypeInv, InPhase
    <3>2. CASE HandlerSave(c)
      BY <1>2, <2>0, <3>2 DEF HandlerSave, RowType, WorkInv, CallFits, DiagnosisFits
    <3>. QED
      BY <3>1, <3>2
  <2>4. Lifecycle!Fail
    BY <1>2, <2>1, <2>2, <2>3, PhaseFacts DEF Lifecycle!Fail, Lifecycle!PhaseFrom, Present
  <2>. QED
    BY <2>4 DEF Step, Lifecycle!Next
<1>. QED
  BY <1>1, <1>2

\* An approval finds nothing at work: whoever works has a phase to run.
LEMMA StepOfReview ==
  ASSUME MaxFaults = 0, TypeInv, LockInv, WorkInv,
         NEW a \in Approvals, NEW o \in BOOLEAN,
         ReviewBegin(a, o) \/ ReviewCommit(a) \/ ReviewAbort(a)
  PROVE  Step
<1>0. row \in RowType
  BY DEF TypeInv, TypeOK
<1>1. CASE ReviewBegin(a, o) \/ ReviewAbort(a)
  BY <1>0, <1>1, UnseenStutters DEF Unseen, ReviewBegin, ReviewAbort, statement, RowType
<1>2. CASE ReviewCommit(a)
  <2>1. /\ Present /\ UNCHANGED exists
        /\ row.status \in {"normalized", "approved"}
        /\ row'.status = "approved" /\ row'.failed_phase = None
        /\ row'.is_processing = row.is_processing
    BY <1>0, <1>2 DEF ReviewCommit, LockInv, ReviewsFit, RowType
  <2>2. ASSUME NEW c \in Calls PROVE ~Engaged(c)
    <3>1. CallFits(c) /\ Fits(c) /\ target[c] \in Targets
      BY DEF WorkInv, LockInv, TypeInv, TypeOK
    <3>2. Rank[target[c]] \in 0..2 /\ Rank[row.status] \in 2..3
      BY <2>1, <3>1, RankFacts DEF Targets
    <3>3. pc[c] \notin {"marked", "queued"}
      BY <2>1, <3>1, <3>2 DEF CallFits, Exact
    <3>4. pc[c] \notin {"succeeded", "recorded", "failing"}
      BY <2>1, <3>1 DEF Fits, CallFits, DiagnosisFits, TypeInv, InPhase
    <3>5. pc[c] \notin {"raised", "refreshed"}
      BY <2>1, <3>1 DEF CallFits, DiagnosisFits
    <3>6. ~(pc[c] = "running" /\ Behind(c))
      BY <2>1, <3>1, BehindStage DEF Fits, TypeInv
    <3>. QED
      BY <3>3, <3>4, <3>5, <3>6 DEF Engaged, WorkerPC
  <2>3. ~row.is_processing
    BY <2>1, <2>2 DEF WorkInv, FlagEnds, ProcessingMeansRunning
  <2>4. Lifecycle!Approve
    BY <2>1, <2>3 DEF Lifecycle!Approve, Present, None
  <2>. QED
    BY <2>4 DEF Step, Lifecycle!Next
<1>. QED
  BY <1>1, <1>2

LEMMA LifecycleStep ==
  ASSUME MaxFaults = 0, TypeInv, LockInv, WorkInv, [Next]_vars
  PROVE  Step
<1>. USE DEF statement
<1>0. row \in RowType
  BY DEF TypeInv, TypeOK
<1>1. ASSUME NEW c \in Calls, NEW t \in Targets, Upload(c, t) \/ Patch(c, t) PROVE Step
  BY <1>1, StepOfRequest
<1>2. ASSUME NEW c \in Calls, WebStep(c) PROVE Step
  <2>1. CASE Enqueue(c)
    BY <2>1, UnseenStutters DEF Unseen, Enqueue
  <2>. QED
    BY <1>2, <2>1, StepOfMark DEF WebStep
<1>3. ASSUME NEW c \in Calls, WorkerStep(c) \/ RetryRefused(c) \/ Lost(c) PROVE Step
  <2>1. CASE Remark(c) \/ Finalize(c) \/ FailPhase(c) \/ HandlerSave(c)
    BY <2>1, StepOfMark, StepOfFinalize, StepOfFailure
  <2>2. CASE ~(Remark(c) \/ Finalize(c) \/ FailPhase(c) \/ HandlerSave(c))
    <3>1. UNCHANGED <<exists, row>>
      BY <1>3, <2>2 DEF WorkerStep, Fetch, TargetReached, Submit, ServiceFails,
         PollSucceeded, PollFailed, Retry, RetriesExceeded, Record, FinalizerRaises,
         HandlerRefresh, Publish, RetryRefused, Lost
    <3>. QED
      BY <3>1, UnseenStutters DEF Unseen
  <2>. QED
    BY <2>1, <2>2
<1>4. ASSUME NEW a \in Approvals, NEW o \in BOOLEAN,
             ReviewBegin(a, o) \/ ReviewCommit(a) \/ ReviewAbort(a)
      PROVE  Step
  BY <1>4, StepOfReview
<1>5. CASE Delete
  <2>1. Lifecycle!Delete
    BY <1>0, <1>5 DEF Delete, Lifecycle!Delete, Present, None, RowType, Statuses
  <2>. QED
    BY <2>1 DEF Step, Lifecycle!Next
<1>6. CASE AccountDeleted
  BY <1>0, <1>6, UnseenStutters DEF Unseen, AccountDeleted, RowType
<1>7. ASSUME NEW j \in DOMAIN jobs, NEW o \in {"succeeded", "failed"}, JobEnds(j, o)
      PROVE  Step
  BY <1>7, UnseenStutters DEF Unseen, JobEnds
<1>8. CASE UNCHANGED vars
  BY <1>8, UnseenStutters DEF Unseen, vars
<1>. QED
  BY <1>1, <1>2, <1>3, <1>4, <1>5, <1>6, <1>7, <1>8 DEF Next

\* If no worker is killed, what many calls, tasks and retries do to a statement
\* is, step by step, the life cycle its owner is promised: a phase starts only
\* while none runs, ends as a success or a recorded failure, and an approval
\* finds nothing at work.
THEOREM LifecycleSafe ==
  ASSUME Client # "any", SinglePhase, MaxFaults = 0
  PROVE  Spec => Lifecycle!Init /\ [][Lifecycle!Next]_(Lifecycle!lifecycle)
<1>1. Init => Lifecycle!Init
  BY DEF Init, Lifecycle!Init, Present, None
<1>2. TypeInv /\ LockInv /\ WorkInv /\ [Next]_vars
        => [Lifecycle!Next]_(Lifecycle!lifecycle)
  BY LifecycleStep DEF Step
<1>3. ArtifactInv => QuietBeforeUpload
  BY DEF ArtifactInv
<1>4. TypeInv /\ QuietBeforeUpload /\ LockInv /\ [Next]_vars => LockInv'
  BY LockStep
<1>5. TypeInv /\ QuietBeforeUpload /\ LockInv /\ WorkInv /\ [Next]_vars => WorkInv'
  BY WorkStep
<1>. QED
  BY <1>1, <1>2, <1>3, <1>4, <1>5, TypeInvInit, TypeInvStep, ArtifactInvInit,
     ArtifactInvStep, LockInit, WorkInit, PTL DEF Spec
-----------------------------------------------------------------------------
(* The event of a success reaches a client that waits for each task.       *)

\* What the row would have a subscriber see.
View == [status |-> row.status, busy |-> row.is_processing, failed |-> row.failed_phase]

UnderWay(c) == pc[c] \notin {"idle", "done"}

\* Before it has anything to publish, a call is at work on a phase that is not done yet;
\* what it then publishes is the row, unless the statement was approved meanwhile.
InStep(c) ==
  /\ pc[c] \in {"validated", "marked", "queued", "succeeded", "recorded", "failing", "raised", "refreshed"}
       => row.status \in {"uploaded", "extracted"}
  /\ pc[c] \in {"running", "succeeded", "recorded", "failing", "finishing"}
       => \/ row.status # "approved" /\ copy[c] = View
          \/ row.status = "approved" /\ copy[c].status = "normalized"
  /\ pc[c] = "refreshed" =>
       /\ copy[c].status = row.status /\ ~copy[c].busy
       /\ copy[c].failed # None

\* Only a task that fails ends without a word.
SilentFails == \A c \in Calls : silent[c] => pc[c] \in {"raised", "refreshed"}

ToldInv ==
  /\ \A c, d \in Calls : UnderWay(c) /\ UnderWay(d) => c = d
  /\ Present => \A c \in Calls : InStep(c)
  /\ SilentFails
  /\ ReviewsFit
  /\ SuccessTold

LEMMA ToldStart == Init => ToldInv
  BY DEF Init, ToldInv, UnderWay, SilentFails, ReviewsFit, SuccessTold, ClientToldOutcome, Present

\* A call goes on.  No other is under way, so there is nothing to be told yet.
LEMMA CallGoesOn ==
  ASSUME TypeInv, ToldInv, NEW c \in Calls, UnderWay(c), UnderWay(c)',
         UNCHANGED exists,
         \A d \in Calls \ {c} : pc'[d] = pc[d] /\ silent'[d] = silent[d],
         silent'[c] => pc'[c] \in {"raised", "refreshed"},
         Present => InStep(c)' /\ ReviewsFit'
  PROVE  ToldInv'
<1>1. \A d \in Calls \ {c} : pc'[d] \in {"idle", "done"} /\ ~silent'[d]
  BY DEF ToldInv, UnderWay, SilentFails
<1>2. (\A d, e \in Calls : UnderWay(d) /\ UnderWay(e) => d = e)'
  BY <1>1 DEF UnderWay
<1>3. Present' => \A d \in Calls : InStep(d)'
  BY <1>1 DEF InStep, Present
<1>4. SilentFails'
  BY <1>1 DEF SilentFails
<1>5. ReviewsFit'
  BY DEF ReviewsFit, Present
<1>6. SuccessTold'
  BY DEF SuccessTold, ClientToldOutcome, UnderWay
<1>. QED
  BY <1>2, <1>3, <1>4, <1>5, <1>6 DEF ToldInv

\* A call ends, and if the statement is there its client has been told.
LEMMA CallEnds ==
  ASSUME TypeInv, ToldInv, NEW c \in Calls, UnderWay(c), End(c),
         UNCHANGED <<exists, approval>>, row'.status = row.status,
         Present /\ row.status # "approved" => told' = View' \/ row'.failed_phase # None
  PROVE  ToldInv'
<1>1. /\ pc'[c] = "done" /\ ~silent'[c]
      /\ \A d \in Calls \ {c} : pc'[d] = pc[d] /\ silent'[d] = silent[d]
  BY DEF End, Goto, TypeInv, TypeOK
<1>2. \A d \in Calls : pc'[d] \in {"idle", "done"} /\ ~silent'[d]
  BY <1>1 DEF ToldInv, UnderWay, SilentFails
<1>3. (\A d, e \in Calls : UnderWay(d) /\ UnderWay(e) => d = e)'
  BY <1>2 DEF UnderWay
<1>4. Present' => \A d \in Calls : InStep(d)'
  BY <1>2 DEF InStep
<1>5. SilentFails'
  BY <1>2 DEF SilentFails
<1>6. ReviewsFit'
  BY DEF ToldInv, ReviewsFit, Present
<1>7. SuccessTold'
  BY DEF SuccessTold, ClientToldOutcome, Present, View
<1>. QED
  BY <1>3, <1>4, <1>5, <1>6, <1>7 DEF ToldInv

\* What goes on beside the calls.
LEMMA BesideCalls ==
  ASSUME ToldInv, UNCHANGED <<exists, pc, copy, silent, told>>,
         row'.status = row.status, row'.is_processing = row.is_processing,
         row'.failed_phase = row.failed_phase, Present => ReviewsFit'
  PROVE  ToldInv'
<1>1. (\A d, e \in Calls : UnderWay(d) /\ UnderWay(e) => d = e)' /\ SilentFails'
  BY DEF ToldInv, UnderWay, SilentFails
<1>2. Present' => \A d \in Calls : InStep(d)'
  BY DEF ToldInv, InStep, View, Present
<1>3. ReviewsFit'
  BY DEF ReviewsFit, Present
<1>4. SuccessTold'
  BY DEF ToldInv, SuccessTold, ClientToldOutcome, Present
<1>. QED
  BY <1>1, <1>2, <1>3, <1>4 DEF ToldInv

-----------------------------------------------------------------------------

\* A request is taken up only when no call is under way, for a phase not done yet.
LEMMA ToldRequests ==
  ASSUME Client = "patient", TypeInv, ArtifactInv, ToldInv, NEW c \in Calls, NEW t \in Targets,
         Upload(c, t) \/ Patch(c, t)
  PROVE  ToldInv'
<1>1. /\ pc'[c] = "validated" /\ silent' = silent
      /\ \A d \in Calls \ {c} : pc'[d] = pc[d]
      /\ row' = row /\ approval' = approval /\ Present'
  BY DEF Upload, Patch, Validated, Goto, TypeInv, TypeOK, statement, Present
<1>2. \A d \in Calls : pc[d] \in {"idle", "done"} /\ ~silent[d]
  BY DEF Upload, Patch, ClientReady, ToldInv, SilentFails
<1>3. row.status \in {"uploaded", "extracted"}
  <2>1. CASE Upload(c, t)
    BY <2>1 DEF Upload, ArtifactInv, QuietBeforeUpload
  <2>2. CASE Patch(c, t)
    BY <2>2, RankFacts, RowParts DEF Patch, MayAdvance, TypeInv, TypeOK, Targets, Statuses
  <2>. QED
    BY <2>1, <2>2
<1>4. (\A d, e \in Calls : UnderWay(d) /\ UnderWay(e) => d = e)' /\ SilentFails'
  BY <1>1, <1>2 DEF UnderWay, SilentFails
<1>5. \A d \in Calls : InStep(d)'
  BY <1>1, <1>2, <1>3 DEF InStep
<1>6. ReviewsFit'
  BY <1>1 DEF Upload, Patch, ToldInv, ReviewsFit, ArtifactInv, QuietBeforeUpload, Present, statement
<1>7. SuccessTold'
  BY <1>1 DEF SuccessTold, ClientToldOutcome
<1>. QED
  BY <1>4, <1>5, <1>6, <1>7 DEF ToldInv

LEMMA ToldWebSteps ==
  ASSUME TypeInv, ToldInv, NEW c \in Calls, WebStep(c)
  PROVE  ToldInv'
<1>1. UnderWay(c)
  BY DEF WebStep, Mark, Enqueue, UnderWay
<1>2. CASE Mark(c) /\ ~Present
  <2>1. End(c) /\ UNCHANGED <<exists, approval, row>>
    BY <1>2 DEF Mark
  <2>. QED
    BY <1>1, <1>2, <2>1, CallEnds
<1>3. CASE (Mark(c) /\ Present) \/ Enqueue(c)
  <2>1. /\ pc'[c] \in {"marked", "queued"} /\ silent' = silent /\ approval' = approval
        /\ \A d \in Calls \ {c} : pc'[d] = pc[d]
        /\ row'.status = row.status /\ exists' = exists /\ pc[c] \in {"validated", "marked"}
    BY <1>3 DEF Mark, Enqueue, Goto, TypeInv, TypeOK, RowType, statement
  <2>2. Present => InStep(c)' /\ ReviewsFit'
    BY <2>1 DEF ToldInv, InStep, ReviewsFit, Present
  <2>3. UnderWay(c)' /\ ~silent[c]
    BY <2>1 DEF UnderWay, ToldInv, SilentFails
  <2>. QED
    BY <1>1, <2>1, <2>2, <2>3, CallGoesOn
<1>. QED
  BY <1>2, <1>3 DEF WebStep, Mark

\* The steps of a task that leave its copy and the row alone.
LEMMA ToldControlSteps ==
  ASSUME TypeInv, ToldInv, NEW c \in Calls,
         \/ TargetReached(c) \/ Submit(c) \/ ServiceFails(c)
         \/ PollSucceeded(c) \/ PollFailed(c) \/ Record(c)
  PROVE  ToldInv'
<1>1. /\ UnderWay(c) /\ UnderWay(c)' /\ pc[c] \in {"running", "succeeded"}
      /\ silent' = silent /\ copy' = copy /\ row' = row
      /\ exists' = exists /\ approval' = approval
      /\ \A d \in Calls \ {c} : pc'[d] = pc[d]
  BY DEF TargetReached, Submit, ServiceFails, PollSucceeded, PollFailed, Record, Polling, Working,
         Goto, UnderWay, TypeInv, TypeOK, statement
<1>2. Present => row.status = copy[c].status \/ (row.status = "approved" /\ copy[c].status = "normalized")
  BY <1>1 DEF ToldInv, InStep, View
<1>3. Present => InStep(c)'
  <2>1. CASE TargetReached(c) \/ Submit(c)
    BY <1>1, <2>1 DEF TargetReached, Submit, Working, Goto, TypeInv, TypeOK, ToldInv, InStep, View
  <2>2. CASE ServiceFails(c) \/ PollSucceeded(c) \/ PollFailed(c)
    <3>1. copy[c].status \in {"uploaded", "extracted"} /\ pc[c] = "running"
      BY <2>2, WorkingPhase DEF ServiceFails, PollSucceeded, PollFailed, Polling, Working, TypeInv
    <3>2. pc'[c] \in {"failing", "succeeded"}
      BY <2>2 DEF ServiceFails, PollSucceeded, PollFailed, Goto, TypeInv, TypeOK
    <3>. QED
      BY <1>1, <1>2, <3>1, <3>2 DEF ToldInv, InStep, View
  <2>3. CASE Record(c)
    <3>1. pc[c] = "succeeded" /\ pc'[c] \in {"recorded", "raised"}
      BY <2>3 DEF Record, Goto, TypeInv, TypeOK
    <3>. QED
      BY <1>1, <3>1 DEF ToldInv, InStep, View
  <2>. QED
    BY <2>1, <2>2, <2>3
<1>4. Present => ReviewsFit'
  BY <1>1 DEF ToldInv, ReviewsFit, Present
<1>5. ~silent'[c]
  BY <1>1 DEF ToldInv, SilentFails
<1>. QED
  BY <1>1, <1>3, <1>4, <1>5, CallGoesOn

LEMMA ToldFetch ==
  ASSUME TypeInv, ToldInv, NEW c \in Calls, Fetch(c)
  PROVE  ToldInv'
<1>1. UnderWay(c)
  BY DEF Fetch, UnderWay
<1>2. CASE ~Present
  <2>1. End(c) /\ UNCHANGED <<exists, approval, row>>
    BY <1>2 DEF Fetch, statement
  <2>. QED
    BY <1>1, <1>2, <2>1, CallEnds
<1>3. CASE Present
  <2>1. /\ pc[c] = "queued" /\ pc'[c] = "running" /\ silent' = silent /\ copy'[c] = View
        /\ row' = row /\ exists' = exists /\ approval' = approval
        /\ \A d \in Calls \ {c} : pc'[d] = pc[d]
    BY <1>3 DEF Fetch, Goto, TypeInv, TypeOK, statement, View
  <2>2. InStep(c)' /\ ReviewsFit'
    BY <1>3, <2>1 DEF ToldInv, InStep, ReviewsFit, Present, View
  <2>3. UnderWay(c)' /\ ~silent[c]
    BY <2>1 DEF UnderWay, ToldInv, SilentFails
  <2>. QED
    BY <1>1, <2>1, <2>2, <2>3, CallGoesOn
<1>. QED
  BY <1>2, <1>3

\* The phase a task is working on is not done yet, so that the statement is not approved.
LEMMA AtWork ==
  ASSUME TypeInv, ToldInv, Present, NEW c \in Calls, Working(c)
  PROVE  row.status \in {"uploaded", "extracted"} /\ copy[c] = View
<1>1. copy[c].status \in {"uploaded", "extracted"} /\ pc[c] = "running"
  BY WorkingPhase DEF Working, TypeInv
<1>. QED
  BY <1>1 DEF ToldInv, InStep, View

\* A task put back, or refused by its own retry count.
LEMMA ToldRetries ==
  ASSUME TypeInv, ToldInv, NEW c \in Calls, Retry(c) \/ RetriesExceeded(c)
  PROVE  ToldInv'
<1>1. /\ Working(c) /\ UnderWay(c) /\ UnderWay(c)' /\ pc'[c] \in {"queued", "raised"}
      /\ row' = row /\ exists' = exists /\ approval' = approval
      /\ \A d \in Calls \ {c} : pc'[d] = pc[d] /\ silent'[d] = silent[d]
      /\ silent'[c] => pc'[c] = "raised" \/ silent[c]
  BY DEF Retry, RetriesExceeded, StillRunning, Polling, Working, Goto, UnderWay, TypeInv, TypeOK,
         statement
<1>2. Present => InStep(c)'
  BY <1>1, AtWork DEF InStep
<1>3. Present => ReviewsFit'
  BY <1>1 DEF ToldInv, ReviewsFit, Present
<1>4. ~silent[c]
  BY <1>1 DEF Working, ToldInv, SilentFails
<1>. QED
  BY <1>1, <1>2, <1>3, <1>4, CallGoesOn

LEMMA ToldRemark ==
  ASSUME TypeInv, ToldInv, NEW c \in Calls, Remark(c)
  PROVE  ToldInv'
<1>1. /\ UnderWay(c) /\ UnderWay(c)' /\ pc[c] = "running"
      /\ exists' = exists /\ approval' = approval /\ silent' = silent
      /\ \A d \in Calls \ {c} : pc'[d] = pc[d]
      /\ row'.status = row.status
  BY DEF Remark, Goto, UnderWay, TypeInv, TypeOK, RowType
<1>2. ASSUME Present PROVE InStep(c)'
  <2>1. /\ pc' = pc /\ row' = [row EXCEPT !.is_processing = TRUE]
        /\ copy'[c] = [copy[c] EXCEPT !.busy = TRUE]
    BY <1>2 DEF Remark, TypeInv, TypeOK
  <2>2. copy[c] \in CopyType /\ row \in RowType
    BY DEF TypeInv, TypeOK
  <2>3. View' = [status |-> row.status, busy |-> TRUE, failed |-> row.failed_phase]
    BY <2>1, <2>2 DEF View, RowType
  <2>4. copy[c] = View => copy'[c] = View'
    <3>1. copy[c] = View => /\ copy[c].status = row.status
                            /\ copy[c].failed = row.failed_phase
      BY DEF View
    <3>. QED
      BY <2>1, <2>2, <2>3, <3>1 DEF CopyType
  <2>5. copy'[c].status = copy[c].status
    BY <2>1, <2>2 DEF CopyType
  <2>. QED
    BY <1>1, <1>2, <2>1, <2>4, <2>5 DEF ToldInv, InStep
<1>3. Present => ReviewsFit'
  BY <1>1 DEF ToldInv, ReviewsFit, Present
<1>4. ~silent'[c]
  BY <1>1 DEF ToldInv, SilentFails
<1>. QED
  BY <1>1, <1>2, <1>3, <1>4, CallGoesOn

\* The finalizer leaves the row and its copy equal.
LEMMA ToldFinalize ==
  ASSUME TypeInv, ToldInv, NEW c \in Calls, Finalize(c)
  PROVE  ToldInv'
<1>1. /\ UnderWay(c) /\ UnderWay(c)' /\ pc[c] = "recorded" /\ pc'[c] = "running" /\ Present
      /\ exists' = exists /\ approval' = approval /\ silent' = silent
      /\ \A d \in Calls \ {c} : pc'[d] = pc[d]
  BY DEF Finalize, Goto, UnderWay, TypeInv, TypeOK
<1>2. row.status \in {"uploaded", "extracted"} /\ Phase(c) \in Phases
  BY <1>1, PhaseFacts DEF ToldInv, InStep, TypeInv, InPhase, Phase, Phases
<1>3. copy'[c] = View' /\ row'.status \in {"extracted", "normalized"}
  <2>1. copy'[c] = [status |-> StatusAfter[Phase(c)], busy |-> FALSE, failed |-> None]
    BY DEF Finalize, Advanced, TypeInv, TypeOK
  <2>2. /\ row'.status = StatusAfter[Phase(c)] /\ row'.is_processing = FALSE
        /\ row'.failed_phase = None
    BY DEF Finalize
  <2>. QED
    BY <1>2, <2>1, <2>2, PhaseFacts DEF View, Phases
<1>4. InStep(c)'
  BY <1>1, <1>3 DEF InStep
<1>5. ReviewsFit'
  BY <1>1, <1>2 DEF ToldInv, ReviewsFit, Present
<1>6. ~silent'[c]
  BY <1>1 DEF ToldInv, SilentFails
<1>. QED
  BY <1>1, <1>4, <1>5, <1>6, CallGoesOn

LEMMA ToldFails ==
  ASSUME TypeInv, ToldInv, NEW c \in Calls, FinalizerRaises(c) \/ FailPhase(c)
  PROVE  ToldInv'
<1>1. /\ UnderWay(c) /\ UnderWay(c)' /\ pc[c] \in {"succeeded", "recorded", "failing"}
      /\ exists' = exists /\ approval' = approval /\ silent' = silent
      /\ \A d \in Calls \ {c} : pc'[d] = pc[d]
      /\ row'.status = row.status
  BY DEF FinalizerRaises, FailPhase, Goto, UnderWay, TypeInv, TypeOK, RowType, statement
<1>2. ASSUME Present PROVE InStep(c)'
  <2>1. row.status \in {"uploaded", "extracted"} /\ copy[c] = View
    BY <1>1, <1>2 DEF ToldInv, InStep
  <2>2. CASE FinalizerRaises(c)
    <3>1. pc'[c] = "raised"
      BY <2>2 DEF FinalizerRaises, Goto, TypeInv, TypeOK
    <3>. QED
      BY <1>1, <2>1, <3>1 DEF InStep
  <2>3. CASE FailPhase(c)
    <3>1. /\ pc'[c] = "finishing"
          /\ copy'[c] = [copy[c] EXCEPT !.failed = Phase(c), !.busy = FALSE]
          /\ row' = [row EXCEPT !.failure_reason = TRUE, !.failed_phase = Phase(c),
                                !.is_processing = FALSE]
      BY <1>2, <2>3 DEF FailPhase, Goto, TypeInv, TypeOK
    <3>2. copy'[c] = View'
      <4>1. View' = [status |-> row.status, busy |-> FALSE, failed |-> Phase(c)]
        BY <3>1 DEF View, TypeInv, TypeOK, RowType
      <4>2. copy[c] \in CopyType /\ copy[c].status = row.status
        BY <2>1 DEF View, TypeInv, TypeOK
      <4>. QED
        BY <3>1, <4>1, <4>2 DEF CopyType
    <3>. QED
      BY <1>1, <2>1, <3>1, <3>2 DEF InStep
  <2>. QED
    BY <2>2, <2>3
<1>3. Present => ReviewsFit'
  BY <1>1 DEF ToldInv, ReviewsFit, Present
<1>4. ~silent'[c]
  BY <1>1 DEF ToldInv, SilentFails
<1>. QED
  BY <1>1, <1>2, <1>3, <1>4, CallGoesOn

\* The handler names a phase that failed: there is one, since the statement is at work.
LEMMA ToldRefresh ==
  ASSUME TypeInv, ToldInv, NEW c \in Calls, HandlerRefresh(c)
  PROVE  ToldInv'
<1>1. UnderWay(c) /\ pc[c] = "raised"
  BY DEF HandlerRefresh, UnderWay
<1>2. CASE ~Present
  <2>1. End(c) /\ UNCHANGED <<exists, approval, row>>
    BY <1>2 DEF HandlerRefresh, Leave, statement
  <2>. QED
    BY <1>1, <1>2, <2>1, CallEnds
<1>3. CASE Present
  <2>1. /\ pc'[c] = "refreshed" /\ silent' = silent
        /\ row' = row /\ exists' = exists /\ approval' = approval
        /\ \A d \in Calls \ {c} : pc'[d] = pc[d]
        /\ copy'[c].status = row.status /\ ~copy'[c].busy
        /\ copy'[c].failed = IF row.failed_phase # None THEN row.failed_phase
                                                       ELSE PhaseFor[row.status]
    BY <1>3 DEF HandlerRefresh, Goto, TypeInv, TypeOK, statement
  <2>2. row.status \in {"uploaded", "extracted"}
    BY <1>1, <1>3 DEF ToldInv, InStep
  <2>3. copy'[c].failed # None
    BY <2>1, <2>2, PhaseFacts DEF None
  <2>4. InStep(c)' /\ ReviewsFit'
    BY <1>3, <2>1, <2>2, <2>3 DEF ToldInv, InStep, ReviewsFit, Present
  <2>5. UnderWay(c)'
    BY <2>1 DEF UnderWay
  <2>. QED
    BY <1>1, <2>1, <2>4, <2>5, CallGoesOn
<1>. QED
  BY <1>2, <1>3

\* The two ends of a task that publish: after a failure the row shows a failed phase, and
\* otherwise it is the copy that is published.
LEMMA ToldEnds ==
  ASSUME TypeInv, ToldInv, NEW c \in Calls, HandlerSave(c) \/ Publish(c)
  PROVE  ToldInv'
<1>1. UnderWay(c) /\ End(c) /\ UNCHANGED <<exists, approval>> /\ row'.status = row.status
  BY DEF HandlerSave, Publish, Leave, UnderWay, statement, TypeInv, TypeOK, RowType
<1>2. ASSUME Present, row.status # "approved" PROVE told' = View' \/ row'.failed_phase # None
  <2>1. CASE HandlerSave(c)
    <3>1. copy[c].failed # None
      BY <1>2, <2>1 DEF HandlerSave, ToldInv, InStep
    <3>2. row'.failed_phase = copy[c].failed
      BY <1>2, <2>1 DEF HandlerSave, TypeInv, TypeOK, RowType
    <3>. QED
      BY <3>1, <3>2
  <2>2. CASE Publish(c)
    <3>1. pc[c] = "finishing" /\ row' = row
      BY <2>2 DEF Publish, statement
    <3>2. ~silent[c] /\ copy[c] = View
      BY <1>2, <3>1 DEF ToldInv, SilentFails, InStep
    <3>. QED
      BY <2>2, <3>1, <3>2 DEF Publish, Leave, View
  <2>. QED
    BY <2>1, <2>2
<1>. QED
  BY <1>1, <1>2, CallEnds

-----------------------------------------------------------------------------

LEMMA ToldReviews ==
  ASSUME TypeInv, ToldInv, NEW a \in Approvals,
         (\E override \in BOOLEAN : ReviewBegin(a, override)) \/ ReviewCommit(a) \/ ReviewAbort(a)
  PROVE  ToldInv'
<1>1. CASE \E override \in BOOLEAN : ReviewBegin(a, override)
  <2>1. /\ UNCHANGED <<exists, pc, copy, silent, told>> /\ row.status = "normalized"
        /\ row'.status = row.status /\ row'.is_processing = row.is_processing
        /\ row'.failed_phase = row.failed_phase
    BY <1>1 DEF ReviewBegin, TypeInv, TypeOK, RowType, task
  <2>2. ReviewsFit'
    BY <2>1 DEF ReviewsFit
  <2>. QED
    BY <2>1, <2>2, BesideCalls
<1>2. CASE ReviewAbort(a)
  <2>1. UNCHANGED <<exists, pc, copy, silent, told, row>>
    BY <1>2 DEF ReviewAbort, task, statement
  <2>2. ReviewsFit'
    BY <1>2, <2>1 DEF ReviewAbort, ToldInv, ReviewsFit, Present, TypeInv, TypeOK
  <2>. QED
    BY <2>1, <2>2, BesideCalls
<1>3. CASE ReviewCommit(a)
  <2>1. /\ UNCHANGED <<exists, pc, copy, silent, told>> /\ row'.status = "approved" /\ Present
        /\ row.status \in {"normalized", "approved"}
    BY <1>3 DEF ReviewCommit, ToldInv, ReviewsFit, TypeInv, TypeOK, RowType, task
  <2>2. (\A d, e \in Calls : UnderWay(d) /\ UnderWay(e) => d = e)' /\ SilentFails'
    BY <2>1 DEF ToldInv, UnderWay, SilentFails
  <2>3. ASSUME NEW d \in Calls PROVE InStep(d)'
    <3>1. InStep(d)
      BY <2>1 DEF ToldInv
    <3>2. pc[d] \in {"running", "finishing"} => copy[d].status = "normalized"
      BY <2>1, <3>1 DEF InStep, View
    <3>. QED
      BY <2>1, <3>1, <3>2 DEF InStep
  <2>4. ReviewsFit' /\ SuccessTold'
    BY <2>1 DEF ReviewsFit, SuccessTold, ClientToldOutcome
  <2>. QED
    BY <2>2, <2>3, <2>4 DEF ToldInv
<1>. QED
  BY <1>1, <1>2, <1>3

LEMMA ToldStep ==
  ASSUME Client = "patient", MaxFaults = 0
  PROVE  TypeInv /\ ArtifactInv /\ ToldInv /\ [Next]_vars => ToldInv'
<1>. SUFFICES ASSUME TypeInv, ArtifactInv, ToldInv, [Next]_vars PROVE ToldInv'
  OBVIOUS
<1>1. ASSUME NEW c \in Calls, RetryRefused(c) \/ Lost(c) PROVE FALSE
  BY <1>1 DEF RetryRefused, Lost, TypeInv, TypeOK
<1>2. ASSUME NEW c \in Calls, WorkerStep(c) PROVE ToldInv'
  BY <1>2, ToldFetch, ToldControlSteps, ToldRemark, ToldRetries, ToldFinalize, ToldFails,
     ToldRefresh, ToldEnds DEF WorkerStep
<1>3. ASSUME Delete PROVE ToldInv'
  <2>1. ~Present' /\ pc' = pc /\ silent' = silent
    BY <1>3 DEF Delete, Present, task
  <2>. QED
    BY <2>1 DEF ToldInv, UnderWay, SilentFails, ReviewsFit, SuccessTold, ClientToldOutcome
<1>4. ASSUME AccountDeleted PROVE ToldInv'
  <2>1. /\ UNCHANGED <<exists, pc, copy, silent, told, approval>>
        /\ row'.status = row.status /\ row'.is_processing = row.is_processing
        /\ row'.failed_phase = row.failed_phase
    BY <1>4 DEF AccountDeleted, TypeInv, TypeOK, RowType, task
  <2>. QED
    BY <2>1, BesideCalls DEF ToldInv, ReviewsFit, Present
<1>5. ASSUME (\E j \in DOMAIN jobs, o \in {"succeeded", "failed"} : JobEnds(j, o)) \/ UNCHANGED vars
      PROVE  ToldInv'
  <2>1. UNCHANGED <<exists, row, pc, copy, silent, told, approval>>
    BY <1>5 DEF JobEnds, vars, task, statement
  <2>. QED
    BY <2>1, BesideCalls DEF ToldInv, ReviewsFit, Present
<1>. QED
  BY <1>1, <1>2, <1>3, <1>4, <1>5, ToldRequests, ToldWebSteps, ToldReviews DEF Next

\* Where no task is lost and each client waits for the one it started, whoever waits for
\* the event of a success is told, also in a cascade and when reviews and deletions
\* interfere: the last event says what the row says.
THEOREM SuccessIsTold ==
  ASSUME Client = "patient", MaxFaults = 0
  PROVE  Spec => []SuccessTold
<1>1. ToldInv => SuccessTold
  BY DEF ToldInv
<1>. QED
  BY <1>1, TypeInvInit, TypeInvStep, ArtifactInvInit, ArtifactInvStep, ToldStart, ToldStep, PTL DEF Spec

==============================================================================
