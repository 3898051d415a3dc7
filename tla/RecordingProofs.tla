-------------------------- MODULE RecordingProofs --------------------------
(***************************************************************************)
(* Proofs about Recording, for every set of events and every limit.        *)
(***************************************************************************)
EXTENDS Recording, FiniteSetTheorems, TLAPS

(* The variables other than the records ex and wk.                         *)
PlainType ==
    /\ node \in {"down", "starting", "running", "stopping"}
    /\ crashes \in 0 .. MaxCrashes
    /\ unreconciled \subseteq Event
    /\ activeCaptures \subseteq Event
    /\ expired \subseteq Event
    /\ outcome \in [Event -> {"new", "accepted", "rejected", "lost"}]
    /\ jobs \in Seq(Job)
    /\ reservedJobs \in Nat
    /\ progress \in [Event -> [failed : BOOLEAN, persisted : Nat]]
    /\ marker \in [Event -> SUBSET MarkerKinds]
    /\ removed \subseteq Event
    /\ rows \in [Event -> Nat]
    /\ durable \in [Event -> Nat]
    /\ captured \in [Event -> Nat]

(* TypeOK falls into three parts that different actions disturb.           *)
LEMMA TypeParts == TypeOK <=> PlainType /\ ExType /\ WkType
  BY DEF TypeOK, PlainType

(* The executor's record is well typed after each way it is assigned.      *)
LEMMA ExUnchanged == ASSUME ExType, UNCHANGED ex PROVE ExType'
  BY DEF ExType

LEMMA ExReset == ASSUME ex' = ExIdle PROVE ExType'
  BY DEF ExType, ExIdle, ExBusy, None

LEMMA ExMoves ==
    ASSUME ExType, ex.pc \in ExBusy, NEW p \in ExBusy, ex' = [ex EXCEPT !.pc = p]
    PROVE  ExType'
  BY DEF ExType, ExBusy

(* The worker's record likewise.                                           *)
LEMMA WkUnchanged == ASSUME WkType, UNCHANGED wk PROVE WkType'
  BY DEF WkType

LEMMA WkReset == ASSUME wk' = WkIdle PROVE WkType'
  BY LimitsAssumption DEF WkType, WkIdle, WkBusy, None, Batch

LEMMA WkMoves ==
    ASSUME WkType, wk.pc \in WkBusy, NEW p \in WkBusy,
           NEW l \in Batch, NEW b \in BOOLEAN, NEW k \in Batch,
           l + k <= wk.job.size,
           wk' = [wk EXCEPT !.pc = p, !.left = l, !.ok = b, !.kept = k]
    PROVE  WkType'
  BY LimitsAssumption DEF WkType, WkBusy, Batch

(* A queue stays a queue when a job is added.                              *)
LEMMA AppendJob == \A s \in Seq(Job), j \in Job : Append(s, j) \in Seq(Job)
  OBVIOUS

(* Marker sets stay marker sets when one directory's set is replaced.      *)
LEMMA MarkerStep ==
    ASSUME PlainType, NEW e \in Event, NEW m \in SUBSET MarkerKinds,
           marker' = [marker EXCEPT ![e] = m]
    PROVE  marker' \in [Event -> SUBSET MarkerKinds]
  BY DEF PlainType

(* Every step of the executor keeps the types.                             *)
LEMMA ExecutorTypes ==
    ASSUME TypeOK, Trigger \/ Admit \/ Harvest
             \/ \E S \in SUBSET Event : ExpireCaptures(S)
    PROVE  TypeOK'
<1> USE LimitsAssumption DEF lifeVars, execVars, queueVars, workVars, diskVars
<1>0. PlainType /\ ExType /\ WkType
  BY TypeParts
<1>a. UNCHANGED wk
  BY DEF Trigger, RejectUnsynced, ReserveSlot, Admit, RefuseCapture, BeginCapture,
         EnqueueFirst, RefuseFirst, MarkRefused, ClearRefused, Harvest, EnqueuePost,
         ExpireCaptures
<1>b. WkType'
  BY <1>0, <1>a, WkUnchanged
<1> SUFFICES PlainType' /\ ExType'
  BY <1>b DEF TypeOK, PlainType
<1>1. ASSUME NEW e \in Event, RejectUnsynced(e) PROVE PlainType' /\ ExType'
  BY <1>0, <1>1, ExUnchanged DEF RejectUnsynced, PlainType
<1>2. ASSUME NEW e \in Event, NEW post \in BOOLEAN, ReserveSlot(e, post)
      PROVE PlainType' /\ ExType'
  <2>a. reservedJobs' \in Nat
    BY <1>0, <1>2 DEF ReserveSlot, PlainType
  <2>b. outcome' \in [Event -> {"new", "accepted", "rejected", "lost"}]
    BY <1>0, <1>2 DEF ReserveSlot, PlainType
  <2>1. PlainType'
    BY <1>0, <1>2, <2>a, <2>b DEF ReserveSlot, PlainType
  <2>2. ExType'
    <3>1. CASE ReserveAccepts
      BY <1>2, <3>1 DEF ReserveSlot, ExType, ExBusy
    <3>2. CASE ~ReserveAccepts
      BY <1>0, <1>2, <3>2, ExUnchanged DEF ReserveSlot
    <3> QED BY <3>1, <3>2
  <2> QED BY <2>1, <2>2
<1>3. CASE RefuseCapture
  <2>1. reservedJobs' \in Nat
    BY <1>0, <1>3 DEF RefuseCapture, Released, PlainType
  <2>2. outcome' \in [Event -> {"new", "accepted", "rejected", "lost"}]
    BY <1>0, <1>3 DEF RefuseCapture, PlainType
  <2>3. PlainType'
    BY <1>0, <1>3, <2>1, <2>2 DEF RefuseCapture, PlainType
  <2> QED BY <1>3, <2>3, ExReset DEF RefuseCapture
<1>4. CASE BeginCapture
  <2>1. ex.pc \in ExBusy /\ ex.dir \in Event
    BY <1>0, <1>4 DEF BeginCapture, ExBusy, ExType
  <2>a. marker' \in [Event -> SUBSET MarkerKinds]
    BY <1>0, <1>4 DEF BeginCapture, PlainType, MarkerKinds
  <2>2. PlainType'
    BY <1>0, <1>4, <2>1, <2>a DEF BeginCapture, PlainType
  <2>3. ExType'
    BY <1>0, <1>4, <2>1, ExMoves DEF BeginCapture, ExBusy
  <2> QED BY <2>2, <2>3
<1>5. ASSUME NEW n \in Batch, EnqueueFirst(n) PROVE PlainType' /\ ExType'
  <2>1. ex.dir \in Event /\ ex.post \in BOOLEAN
    BY <1>0, <1>5 DEF EnqueueFirst, ExBusy, ExType
  <2>2. [dir |-> ex.dir, size |-> n, final |-> ~ex.post] \in Job
    BY <2>1 DEF Job
  <2>3. jobs' \in Seq(Job) /\ reservedJobs' \in Nat
    BY <1>0, <1>5, <2>2 DEF EnqueueFirst, Enqueue, Released, PlainType
  <2>a. captured' \in [Event -> Nat]
    BY <1>0, <1>5, <2>1 DEF EnqueueFirst, PlainType, Batch
  <2>b. outcome' \in [Event -> {"new", "accepted", "rejected", "lost"}]
    BY <1>0, <1>5 DEF EnqueueFirst, PlainType
  <2>4. PlainType'
    BY <1>0, <1>5, <2>3, <2>a, <2>b DEF EnqueueFirst, PlainType
  <2> QED BY <1>5, <2>4, ExReset DEF EnqueueFirst
<1>6. CASE RefuseFirst
  <2>1. ex.pc \in ExBusy
    BY <1>6 DEF RefuseFirst, ExBusy
  <2>a. reservedJobs' \in Nat
    BY <1>0, <1>6 DEF RefuseFirst, Released, PlainType
  <2>b. outcome' \in [Event -> {"new", "accepted", "rejected", "lost"}]
    BY <1>0, <1>6 DEF RefuseFirst, PlainType
  <2>2. PlainType'
    BY <1>0, <1>6, <2>a, <2>b DEF RefuseFirst, PlainType
  <2>3. ExType'
    BY <1>0, <1>6, <2>1, ExMoves DEF RefuseFirst, ExBusy
  <2> QED BY <2>2, <2>3
<1>7. CASE MarkRefused
  <2>1. ex.pc \in ExBusy
    BY <1>7 DEF MarkRefused, ExBusy
  <2>a. marker' \in [Event -> SUBSET MarkerKinds]
    <3>1. ex.dir \in Event /\ marker[ex.dir] \in SUBSET MarkerKinds
      BY <1>0, <2>1 DEF ExType, PlainType
    <3>2. marker[ex.dir] \cup {"failed"} \in SUBSET MarkerKinds
      BY <3>1 DEF MarkerKinds
    <3>3. CASE UNCHANGED marker
      BY <1>0, <3>3 DEF PlainType
    <3>4. CASE marker' = [marker EXCEPT ![ex.dir] = @ \cup {"failed"}]
      BY <1>0, <3>1, <3>2, <3>4, MarkerStep
    <3> QED BY <1>7, <3>3, <3>4 DEF MarkRefused
  <2>2. PlainType'
    BY <1>0, <1>7, <2>a DEF MarkRefused, PlainType
  <2>3. ExType'
    BY <1>0, <1>7, <2>1, ExMoves, ExReset DEF MarkRefused, ExBusy
  <2> QED BY <2>2, <2>3
<1>8. CASE ClearRefused
  <2>1. marker' \in [Event -> SUBSET MarkerKinds]
    BY <1>0, <1>8 DEF ClearRefused, PlainType
  <2>2. PlainType'
    BY <1>0, <1>8, <2>1 DEF ClearRefused, PlainType
  <2> QED BY <1>8, <2>2, ExReset DEF ClearRefused
<1>9. ASSUME NEW e \in Event, NEW n \in Batch, EnqueuePost(e, n)
      PROVE PlainType' /\ ExType'
  <2>1. [dir |-> e, size |-> n, final |-> TRUE] \in Job
    BY DEF Job
  <2>2. jobs' \in Seq(Job) /\ reservedJobs' \in Nat
    <3>1. Enqueue(e, n, TRUE, TRUE)
      BY <1>9 DEF EnqueuePost
    <3>2. jobs' = jobs \/ jobs' = Append(jobs, [dir |-> e, size |-> n, final |-> TRUE])
      BY <3>1 DEF Enqueue
    <3>3. reservedJobs' = Released
      BY <3>1 DEF Enqueue
    <3>4. jobs' \in Seq(Job)
      <4>1. jobs \in Seq(Job)
        BY <1>0 DEF PlainType
      <4> QED BY <2>1, <3>2, <4>1, AppendJob
    <3>5. reservedJobs' \in Nat
      BY <1>0, <3>3 DEF Released, PlainType
    <3> QED BY <3>4, <3>5
  <2>a. marker' \in [Event -> SUBSET MarkerKinds] /\ captured' \in [Event -> Nat]
    <3>1. CASE EnqueueAccepts(TRUE)
      <4>1. captured' = [captured EXCEPT ![e] = @ + n] /\ UNCHANGED marker
        BY <1>9, <3>1 DEF EnqueuePost
      <4> QED BY <1>0, <4>1 DEF PlainType, Batch
    <3>2. CASE ~EnqueueAccepts(TRUE)
      <4>1. marker' = [marker EXCEPT ![e] = {"failed"}] /\ UNCHANGED captured
        BY <1>9, <3>2 DEF EnqueuePost
      <4>2. {"failed"} \in SUBSET MarkerKinds
        BY DEF MarkerKinds
      <4> QED BY <1>0, <4>1, <4>2, MarkerStep DEF PlainType
    <3> QED BY <3>1, <3>2
  <2>3. PlainType'
    BY <1>0, <1>9, <2>2, <2>a DEF EnqueuePost, PlainType
  <2> QED BY <1>0, <1>9, <2>3, ExUnchanged DEF EnqueuePost
<1>10. ASSUME NEW S \in SUBSET Event, ExpireCaptures(S) PROVE PlainType' /\ ExType'
  BY <1>0, <1>10, ExUnchanged DEF ExpireCaptures, PlainType
<1> QED
  BY <1>1, <1>2, <1>3, <1>4, <1>5, <1>6, <1>7, <1>8, <1>9, <1>10
     DEF Trigger, Admit, Harvest

(* A sweep only empties directories.                                       *)
LEMMA SweepTypes ==
    ASSUME PlainType, NEW S \in SUBSET Event, NEW left, Delete(S, left)
    PROVE  /\ marker' \in [Event -> SUBSET MarkerKinds]
           /\ removed' \subseteq Event
           /\ rows' \in [Event -> Nat]
           /\ durable' \in [Event -> Nat]
  BY DEF Delete, PlainType

(* Every step of the storage worker keeps the types.                       *)
LEMMA WorkerTypes == ASSUME TypeOK, Worker PROVE TypeOK'
<1> USE LimitsAssumption DEF lifeVars, execVars, queueVars, workVars, diskVars
<1>0. PlainType /\ ExType /\ WkType
  BY TypeParts
<1>a. UNCHANGED ex
  BY DEF Worker, PopJob, PrepareJob, WriteRecord, LoseRecord, FinishJob, SealEvent,
         MarkEvent, ClearPending, RetireEvent
<1>b. ExType'
  BY <1>0, <1>a, ExUnchanged
<1> SUFFICES PlainType' /\ WkType'
  BY <1>b DEF TypeOK, PlainType
<1>c. wk.pc \in WkBusy => wk.job.dir \in Event
  BY <1>0 DEF WkType
<1>1. CASE PopJob
  <2>1. Head(jobs) \in Job /\ Tail(jobs) \in Seq(Job)
    BY <1>0, <1>1 DEF PopJob, PlainType
  <2>2. PlainType'
    BY <1>0, <1>1, <2>1 DEF PopJob, PlainType
  <2>3. WkType'
    BY <1>1, <2>1 DEF PopJob, WkType, WkBusy, Job, Batch
  <2> QED BY <2>2, <2>3
<1>2. ASSUME NEW S \in SUBSET Event, PrepareJob(S) PROVE PlainType' /\ WkType'
  <2>1. PICK left : Delete(S, left)
    BY <1>2 DEF PrepareJob, Sweep
  <2>2. PlainType'
    BY <1>0, <1>2, <2>1, SweepTypes DEF PrepareJob, PlainType
  <2>3. WkType'
    <3>1. CASE wk' = [wk EXCEPT !.pc = "write"]
      BY <1>0, <1>2, <3>1 DEF PrepareJob, WkType, WkBusy
    <3>2. CASE wk' = [wk EXCEPT !.pc = "write", !.ok = FALSE, !.left = 0]
      <4>1. wk.pc = "prepare"
        BY <1>2 DEF PrepareJob
      <4>2. /\ wk.left \in Nat /\ wk.kept \in Nat /\ wk.job.size \in Nat
            /\ 0 \in Batch /\ 0 + wk.kept <= wk.job.size
        BY <1>0 DEF WkType, Batch
      <4> QED BY <1>0, <3>2, <4>1, <4>2 DEF WkType, WkBusy
    <3>3. CASE wk' = [wk EXCEPT !.pc = "write", !.ok = FALSE]
      BY <1>0, <1>2, <3>3 DEF PrepareJob, WkType, WkBusy
    <3> QED BY <1>2, <3>1, <3>2, <3>3 DEF PrepareJob
  <2> QED BY <2>2, <2>3
<1>3. CASE WriteRecord
  <2>a. rows' \in [Event -> Nat]
    <3>1. wk.job.dir \in Event
      BY <1>3, <1>c DEF WriteRecord, WkBusy
    <3>2. rows' = [rows EXCEPT ![wk.job.dir] = @ + 1]
      BY <1>3 DEF WriteRecord
    <3> QED BY <1>0, <3>1, <3>2 DEF PlainType
  <2>1. PlainType'
    BY <1>0, <1>3, <2>a DEF WriteRecord, PlainType
  <2>2. WkType'
    <3>1. /\ wk.pc = "write" /\ wk.left > 0
          /\ wk' = [wk EXCEPT !.left = @ - 1, !.kept = @ + 1]
      BY <1>3 DEF WriteRecord
    <3>2. /\ wk.left \in Nat /\ wk.kept \in Nat /\ wk.job.size \in Batch
          /\ wk.left + wk.kept <= wk.job.size
      BY <1>0 DEF WkType, Batch
    <3>3. /\ wk.left - 1 \in Batch /\ wk.kept + 1 \in Batch
          /\ (wk.left - 1) + (wk.kept + 1) <= wk.job.size
      BY <3>1, <3>2 DEF Batch
    <3> QED BY <1>0, <3>1, <3>3 DEF WkType, WkBusy
  <2> QED BY <2>1, <2>2
<1>4. CASE LoseRecord
  <2>1. PlainType'
    BY <1>0, <1>4 DEF LoseRecord, PlainType
  <2>2. WkType'
    <3>1. /\ wk.pc = "write" /\ wk.left > 0
          /\ \/ wk' = [wk EXCEPT !.left = @ - 1, !.ok = FALSE]
             \/ wk' = [wk EXCEPT !.left = 0, !.ok = FALSE]
             \/ wk' = [wk EXCEPT !.left = 0, !.ok = FALSE, !.kept = 0]
      BY <1>4 DEF LoseRecord
    <3>2. /\ wk.left \in Nat /\ wk.kept \in Nat /\ wk.job.size \in Nat
          /\ wk.left + wk.kept <= wk.job.size
      BY <1>0 DEF WkType, Batch
    <3>3. /\ wk.left - 1 \in Batch /\ 0 \in Batch
          /\ (wk.left - 1) + wk.kept <= wk.job.size
          /\ 0 + wk.kept <= wk.job.size /\ 0 + 0 <= wk.job.size
      BY <1>0, <3>1, <3>2 DEF WkType, Batch
    <3>4. CASE wk' = [wk EXCEPT !.left = @ - 1, !.ok = FALSE]
      BY <1>0, <3>1, <3>3, <3>4 DEF WkType, WkBusy
    <3>5. CASE wk' = [wk EXCEPT !.left = 0, !.ok = FALSE]
      BY <1>0, <3>1, <3>3, <3>5 DEF WkType, WkBusy
    <3>6. CASE wk' = [wk EXCEPT !.left = 0, !.ok = FALSE, !.kept = 0]
      BY <1>0, <3>1, <3>3, <3>6 DEF WkType, WkBusy
    <3> QED BY <3>1, <3>4, <3>5, <3>6
  <2> QED BY <2>1, <2>2
<1>5. CASE FinishJob
  <2>1. wk.kept \in Nat /\ wk.ok \in BOOLEAN /\ wk.job.dir \in Event
    BY <1>0, <1>5, <1>c DEF FinishJob, WkType, WkBusy, Batch
  <2>a. progress' \in [Event -> [failed : BOOLEAN, persisted : Nat]]
    <3>1. PICK ok \in BOOLEAN :
             progress' = [progress EXCEPT ![wk.job.dir] =
                 [failed |-> @.failed \/ ~ok, persisted |-> @.persisted + wk.kept]]
      BY <1>5, <2>1 DEF FinishJob
    <3>2. progress[wk.job.dir] \in [failed : BOOLEAN, persisted : Nat]
      BY <1>0, <2>1 DEF PlainType
    <3>3. [failed |-> progress[wk.job.dir].failed \/ ~ok,
           persisted |-> progress[wk.job.dir].persisted + wk.kept]
             \in [failed : BOOLEAN, persisted : Nat]
      BY <2>1, <3>2
    <3> QED BY <1>0, <2>1, <3>1, <3>3 DEF PlainType
  <2>b. durable' \in [Event -> Nat]
    <3>1. durable' = durable \/ durable' = [durable EXCEPT ![wk.job.dir] = rows[wk.job.dir]]
      BY <1>5 DEF FinishJob
    <3> QED BY <1>0, <2>1, <3>1 DEF PlainType
  <2>2. PlainType'
    BY <1>0, <1>5, <2>a, <2>b DEF FinishJob, PlainType
  <2>3. CASE wk' = WkIdle
    BY <2>2, <2>3, WkReset
  <2>4. CASE wk' # WkIdle
    <3>1. PICK ok \in BOOLEAN : wk' = [wk EXCEPT !.pc = "seal", !.ok = ok]
      BY <1>5, <2>1, <2>4 DEF FinishJob
    <3>2. WkType'
      BY <1>0, <1>5, <3>1 DEF FinishJob, WkType, WkBusy, Batch
    <3> QED BY <2>2, <3>2
  <2> QED BY <2>3, <2>4
<1>6. CASE SealEvent
  <2>1. PlainType'
    BY <1>0, <1>6 DEF SealEvent, PlainType
  <2>2. PICK ok \in BOOLEAN : wk' = [wk EXCEPT !.pc = "mark", !.ok = ok]
    BY <1>6 DEF SealEvent
  <2>3. WkType'
    BY <1>0, <1>6, <2>2 DEF SealEvent, WkType, WkBusy, Batch
  <2> QED BY <2>1, <2>3
<1>7. CASE MarkEvent
  <2>a. marker' \in [Event -> SUBSET MarkerKinds]
    <3>1. wk.job.dir \in Event /\ marker[wk.job.dir] \in SUBSET MarkerKinds
      BY <1>0, <1>7, <1>c DEF MarkEvent, WkBusy, PlainType
    <3>2. CASE UNCHANGED marker
      BY <1>0, <3>2 DEF PlainType
    <3>3. CASE marker' = [marker EXCEPT ![wk.job.dir] =
                              @ \cup {IF wk.ok THEN "complete" ELSE "failed"}]
      <4>1. marker[wk.job.dir] \cup {IF wk.ok THEN "complete" ELSE "failed"}
              \in SUBSET MarkerKinds
        BY <3>1 DEF MarkerKinds
      <4> QED BY <1>0, <3>1, <3>3, <4>1, MarkerStep
    <3> QED BY <1>7, <3>2, <3>3 DEF MarkEvent
  <2>1. PlainType'
    BY <1>0, <1>7, <2>a DEF MarkEvent, PlainType
  <2>2. WkType'
    BY <1>0, <1>7, ZenonT(40) DEF MarkEvent, WkType, WkBusy, Batch
  <2> QED BY <2>1, <2>2
<1>8. CASE ClearPending
  <2>a. marker' \in [Event -> SUBSET MarkerKinds]
    BY <1>0, <1>8 DEF ClearPending, PlainType, MarkerKinds
  <2>1. PlainType'
    BY <1>0, <1>8, <2>a DEF ClearPending, PlainType
  <2>2. WkType'
    BY <1>0, <1>8 DEF ClearPending, WkType, WkBusy, Batch
  <2> QED BY <2>1, <2>2
<1>9. ASSUME NEW S \in SUBSET Event, RetireEvent(S) PROVE PlainType' /\ WkType'
  <2>1. PICK left : Delete(S, left)
    BY <1>9 DEF RetireEvent, Sweep
  <2>2. PlainType'
    BY <1>0, <1>9, <2>1, SweepTypes DEF RetireEvent, PlainType, NoProgress
  <2> QED BY <1>9, <2>2, WkReset DEF RetireEvent
<1> QED BY <1>1, <1>2, <1>3, <1>4, <1>5, <1>6, <1>7, <1>8, <1>9 DEF Worker

(* Every step in the life of the process keeps the types.                  *)
LEMMA LifeTypes ==
    ASSUME TypeOK,
           \/ Shutdown \/ Exit \/ Crash \/ Restart \/ Start
           \/ \E e \in Event, left \in SUBSET Terminal : CrashInSweep(e, left)
    PROVE  TypeOK'
<1> USE LimitsAssumption DEF lifeVars, execVars, queueVars, workVars, diskVars
<1>0. PlainType /\ ExType /\ WkType
  BY TypeParts
<1> SUFFICES PlainType' /\ ExType' /\ WkType'
  BY DEF TypeOK, PlainType
<1>1. CASE Shutdown \/ Restart \/ Start
  <2>1. UNCHANGED <<ex, wk>>
    BY <1>1 DEF Shutdown, Restart, Start, ReconcileDir, StartSpinning
  <2>2. PlainType'
    <3>1. CASE Shutdown
      BY <1>0, <3>1 DEF Shutdown, PlainType
    <3>2. CASE Restart
      BY <1>0, <3>2 DEF Restart, PlainType
    <3>3. ASSUME NEW e \in Event, ReconcileDir(e) PROVE PlainType'
      <4>1. marker' \in [Event -> SUBSET MarkerKinds]
        <5>1. /\ marker[e] \ {"pending"} \in SUBSET MarkerKinds
              /\ {"failed"} \in SUBSET MarkerKinds
          BY <1>0 DEF PlainType, MarkerKinds
        <5>2. CASE UNCHANGED marker
          BY <1>0, <5>2 DEF PlainType
        <5>3. CASE marker' = [marker EXCEPT ![e] =
                      IF @ \cap Terminal # {} THEN @ \ {"pending"} ELSE {"failed"}]
          BY <1>0, <5>1, <5>3, MarkerStep
        <5> QED BY <3>3, <5>2, <5>3 DEF ReconcileDir
      <4> QED BY <1>0, <3>3, <4>1 DEF ReconcileDir, PlainType
    <3>4. CASE StartSpinning
      BY <1>0, <3>4 DEF StartSpinning, PlainType
    <3> QED BY <1>1, <3>1, <3>2, <3>3, <3>4 DEF Start
  <2> QED BY <1>0, <2>1, <2>2, ExUnchanged, WkUnchanged
<1>a. ASSUME ForgetMemory
      PROVE  /\ ExType' /\ WkType'
             /\ progress' \in [Event -> [failed : BOOLEAN, persisted : Nat]]
             /\ activeCaptures' \subseteq Event /\ expired' \subseteq Event
             /\ jobs' \in Seq(Job) /\ reservedJobs' \in Nat
  BY <1>a, ExReset, WkReset DEF ForgetMemory, NoProgress
<1>b. ASSUME Die
      PROVE  /\ outcome' \in [Event -> {"new", "accepted", "rejected", "lost"}]
             /\ node' \in {"down", "starting", "running", "stopping"}
             /\ crashes' \in 0 .. MaxCrashes /\ unreconciled' \subseteq Event
             /\ captured' \in [Event -> Nat]
  <2>1. outcome' \in [Event -> {"new", "accepted", "rejected", "lost"}]
    BY <1>0, <1>b DEF Die, PlainType
  <2> QED BY <1>0, <1>b, <2>1 DEF Die, PlainType
<1>2. CASE Exit
  <2>1. PlainType'
    BY <1>0, <1>2, <1>a DEF Exit, PlainType
  <2> QED BY <1>2, <1>a, <2>1 DEF Exit
<1>3. CASE Crash
  <2>1. ForgetMemory /\ Die
    BY <1>3 DEF Crash, Die
  <2>2. PlainType'
    BY <1>0, <1>3, <1>a, <1>b, <2>1 DEF Crash, PlainType
  <2> QED BY <1>a, <2>1, <2>2
<1>4. ASSUME NEW e \in Event, NEW left \in SUBSET Terminal, CrashInSweep(e, left)
      PROVE PlainType' /\ ExType' /\ WkType'
  <2>1. {e} \in SUBSET Event /\ Delete({e}, left) /\ Die /\ ForgetMemory
    BY <1>4 DEF CrashInSweep, Die
  <2>2. PlainType'
    BY <1>0, <1>a, <1>b, <2>1, SweepTypes DEF PlainType
  <2> QED BY <1>a, <2>1, <2>2
<1> QED BY <1>1, <1>2, <1>3, <1>4

(* Every variable of the recording path keeps its type.                    *)
THEOREM TypeCorrect == Spec => []TypeOK
<1>1. Init => TypeOK
  <2> SUFFICES ASSUME Init PROVE TypeOK
    OBVIOUS
  <2>1. ExType /\ WkType
    BY LimitsAssumption
       DEF Init, ExType, WkType, ExIdle, WkIdle, ExBusy, WkBusy, None, Batch
  <2>2. PlainType
    BY LimitsAssumption DEF Init, PlainType, NoProgress
  <2> QED BY <2>1, <2>2, TypeParts
<1>2. TypeOK /\ [Next]_vars => TypeOK'
  <2> SUFFICES ASSUME TypeOK, [Next]_vars PROVE TypeOK'
    OBVIOUS
  <2>1. CASE UNCHANGED vars
    BY <2>1 DEF vars, TypeOK, ExType, WkType, lifeVars, execVars, queueVars, workVars,
                diskVars
  <2> QED BY <2>1, ExecutorTypes, WorkerTypes, LifeTypes DEF Next
<1> QED BY <1>1, <1>2, PTL DEF Spec

-----------------------------------------------------------------------------
(***************************************************************************)
(* The storage queue's reservations, for every set of events and every     *)
(* limit: the queue never exceeds its limit although reserved jobs skip    *)
(* the check, the counter agrees with the captures that rely on it, and a  *)
(* post batch is never refused.                                            *)
(***************************************************************************)

(* Callbacks run only in a running node, one at a time; a node that has    *)
(* not started spinning holds no reservation and no capture.               *)
CallbacksOnlyWhenRunning ==
    /\ node # "running" => ex.pc = "idle" /\ expired = {} /\ activeCaptures = {}
    /\ node \in {"down", "starting"} => reservedJobs = 0 /\ jobs = <<>>
    /\ ex.pc # "idle" => expired = {}

(* A trigger being served is not answered yet, and every other capture in  *)
(* the table belongs to a trigger that was accepted.                       *)
CapturesAnswered ==
    /\ ex.pc \in {"reserved", "begun"} => outcome[ex.dir] = "new"
    /\ ex.pc = "begun" /\ ex.post => ex.dir \in activeCaptures
    /\ \A e \in activeCaptures : \/ outcome[e] = "accepted"
                                 \/ ex.pc = "begun" /\ ex.dir = e

SlotInv == /\ QueueWithinLimit
           /\ ReservationsMatch
           /\ CallbacksOnlyWhenRunning
           /\ CapturesAnswered

slotVars == <<node, ex, activeCaptures, expired, outcome, jobs, reservedJobs>>

(* The tables are finite, so their cardinalities count.                    *)
LEMMA TablesFinite ==
    ASSUME TypeOK
    PROVE  /\ IsFiniteSet(activeCaptures) /\ Cardinality(activeCaptures) \in Nat
           /\ IsFiniteSet(expired) /\ Cardinality(expired) \in Nat
<1>1. activeCaptures \in SUBSET Event /\ expired \in SUBSET Event
  BY DEF TypeOK
<1>2. IsFiniteSet(activeCaptures) /\ IsFiniteSet(expired)
  BY <1>1, EventAssumption, FS_Subset
<1> QED BY <1>2, FS_CardinalityType

(* Moving S from one table to an empty one keeps the count.                *)
LEMMA SplitCount ==
    ASSUME NEW A, IsFiniteSet(A), NEW S \in SUBSET A
    PROVE  /\ Cardinality(S) \in Nat /\ Cardinality(A \ S) \in Nat
           /\ Cardinality(A) = Cardinality(A \ S) + Cardinality(S)
<1>1. IsFiniteSet(S) /\ IsFiniteSet(A \ S)
  BY FS_Subset
<1>2. (A \ S) \cup S = A /\ (A \ S) \cap S = {}
  OBVIOUS
<1>3. Cardinality((A \ S) \cup S)
        = Cardinality(A \ S) + Cardinality(S) - Cardinality((A \ S) \cap S)
  BY <1>1, FS_Union
<1>4. Cardinality(S) \in Nat /\ Cardinality(A \ S) \in Nat
  BY <1>1, FS_CardinalityType
<1>5. Cardinality(A) = Cardinality(A \ S) + Cardinality(S) - 0
  BY <1>2, <1>3, FS_EmptySet
<1> QED BY <1>4, <1>5

(* What the invariant says depends on the slot variables only.             *)
LEMMA SlotFrame == ASSUME SlotInv, UNCHANGED slotVars PROVE SlotInv'
  BY DEF SlotInv, slotVars, QueueWithinLimit, ReservationsMatch, HeldByTrigger,
         CallbacksOnlyWhenRunning, CapturesAnswered

(* The worker only takes jobs out of the queue.                            *)
LEMMA WorkerSlots == ASSUME TypeOK, SlotInv, Worker PROVE SlotInv'
<1> USE DEF lifeVars, execVars, queueVars, workVars, diskVars
<1>1. CASE PopJob
  <2>1. /\ UNCHANGED <<node, ex, activeCaptures, expired, outcome, reservedJobs>>
        /\ jobs # <<>> /\ jobs' = Tail(jobs)
    BY <1>1 DEF PopJob
  <2>2. Len(jobs') <= Len(jobs) /\ Len(jobs') \in Nat
    BY <2>1 DEF TypeOK
  <2>3. QueueWithinLimit'
    BY <2>1, <2>2, LimitsAssumption DEF TypeOK, SlotInv, QueueWithinLimit
  <2>4. node \notin {"down", "starting"}
    BY <2>1 DEF SlotInv, CallbacksOnlyWhenRunning
  <2>5. ReservationsMatch' /\ CallbacksOnlyWhenRunning' /\ CapturesAnswered'
    BY <2>1, <2>4 DEF SlotInv, ReservationsMatch, HeldByTrigger, CallbacksOnlyWhenRunning,
                      CapturesAnswered
  <2> QED BY <2>3, <2>5 DEF SlotInv
<1>2. CASE ~PopJob
  <2>1. UNCHANGED slotVars
    BY <1>2 DEF Worker, PrepareJob, WriteRecord, LoseRecord, FinishJob, SealEvent,
                MarkEvent, ClearPending, RetireEvent, slotVars
  <2> QED BY <2>1, SlotFrame
<1> QED BY <1>1, <1>2

(* Serving a trigger: each step hands the slot on, uses it or returns it.  *)
LEMMA TriggerSlots == ASSUME TypeOK, SlotInv, Trigger \/ Admit PROVE SlotInv'
<1> USE DEF lifeVars, execVars, queueVars, workVars, diskVars
<1> DEFINE A == Cardinality(activeCaptures)
<1>0. /\ node = "running" /\ expired = {}
      /\ A \in Nat /\ IsFiniteSet(activeCaptures) /\ Cardinality(expired) = 0
      /\ reservedJobs \in Nat /\ Len(jobs) \in Nat /\ MaxPendingJobs \in Nat
      /\ Len(jobs) + reservedJobs <= MaxPendingJobs
      /\ reservedJobs = A + HeldByTrigger
      /\ outcome \in [Event -> {"new", "accepted", "rejected", "lost"}]
  <2>1. node = "running" /\ expired = {}
    BY DEF Trigger, RejectUnsynced, ReserveSlot, Admit, RefuseCapture, BeginCapture,
           EnqueueFirst, RefuseFirst, MarkRefused, ClearRefused, SlotInv,
           CallbacksOnlyWhenRunning
  <2>2. Cardinality(expired) = 0
    BY <2>1, FS_EmptySet
  <2>3. HeldByTrigger \in Nat
    BY DEF HeldByTrigger
  <2> QED BY <2>1, <2>2, <2>3, TablesFinite, LimitsAssumption
          DEF TypeOK, SlotInv, QueueWithinLimit, ReservationsMatch
<1>1. ASSUME NEW e \in Event, RejectUnsynced(e) PROVE SlotInv'
  <2>1. /\ ex.pc = "idle" /\ outcome' = [outcome EXCEPT ![e] = "rejected"]
        /\ outcome[e] = "new"
        /\ UNCHANGED <<node, ex, activeCaptures, expired, jobs, reservedJobs>>
    BY <1>1 DEF RejectUnsynced
  <2>2. QueueWithinLimit' /\ ReservationsMatch' /\ CallbacksOnlyWhenRunning'
    BY <2>1 DEF SlotInv, QueueWithinLimit, ReservationsMatch, HeldByTrigger,
                CallbacksOnlyWhenRunning
  <2>3. CapturesAnswered'
    BY <1>0, <2>1 DEF SlotInv, CapturesAnswered
  <2> QED BY <2>2, <2>3 DEF SlotInv
<1>2. ASSUME NEW e \in Event, NEW post \in BOOLEAN, ReserveSlot(e, post) PROVE SlotInv'
  <2>1. /\ ex.pc = "idle" /\ outcome[e] = "new"
        /\ UNCHANGED <<node, activeCaptures, expired, jobs>>
    BY <1>2 DEF ReserveSlot
  <2>2. CASE ReserveAccepts
    <3>1. /\ reservedJobs' = reservedJobs + 1 /\ UNCHANGED outcome
          /\ ex' = [pc |-> "reserved", dir |-> e, post |-> post]
      BY <1>2, <2>2 DEF ReserveSlot
    <3>2. ex'.pc = "reserved" /\ ex'.dir = e
      BY <3>1
    <3>3. Len(jobs) + reservedJobs < MaxPendingJobs
      BY <1>0, <2>2 DEF ReserveAccepts, QueueFull
    <3>4. QueueWithinLimit'
      BY <1>0, <2>1, <3>1, <3>3 DEF QueueWithinLimit
    <3>5. HeldByTrigger = 0 /\ HeldByTrigger' = 1
      BY <2>1, <3>2 DEF HeldByTrigger
    <3>6. ReservationsMatch'
      BY <1>0, <2>1, <3>1, <3>5 DEF ReservationsMatch
    <3>7. CallbacksOnlyWhenRunning'
      BY <1>0, <2>1 DEF CallbacksOnlyWhenRunning
    <3>8. CapturesAnswered'
      BY <2>1, <3>1, <3>2 DEF SlotInv, CapturesAnswered
    <3> QED BY <3>4, <3>6, <3>7, <3>8 DEF SlotInv
  <2>3. CASE ~ReserveAccepts
    <3>1. /\ outcome' = [outcome EXCEPT ![e] = "rejected"]
          /\ UNCHANGED <<reservedJobs, ex>>
      BY <1>2, <2>3 DEF ReserveSlot
    <3>2. QueueWithinLimit' /\ ReservationsMatch' /\ CallbacksOnlyWhenRunning'
      BY <2>1, <3>1 DEF SlotInv, QueueWithinLimit, ReservationsMatch, HeldByTrigger,
                        CallbacksOnlyWhenRunning
    <3>3. CapturesAnswered'
      BY <1>0, <2>1, <3>1 DEF SlotInv, CapturesAnswered
    <3> QED BY <3>2, <3>3 DEF SlotInv
  <2> QED BY <2>2, <2>3
<1>3. CASE RefuseCapture
  <2>1. /\ ex.pc = "reserved" /\ reservedJobs' = Released /\ ex' = ExIdle
        /\ outcome' = [outcome EXCEPT ![ex.dir] = "rejected"]
        /\ UNCHANGED <<node, activeCaptures, expired, jobs>>
    BY <1>3 DEF RefuseCapture
  <2>2. HeldByTrigger = 1 /\ HeldByTrigger' = 0 /\ ex'.pc = "idle"
    BY <2>1 DEF HeldByTrigger, ExIdle
  <2>3. reservedJobs' = reservedJobs - 1 /\ reservedJobs >= 1
    BY <1>0, <2>1, <2>2 DEF Released
  <2>4. QueueWithinLimit'
    BY <1>0, <2>1, <2>3 DEF QueueWithinLimit
  <2>5. ReservationsMatch'
    BY <1>0, <2>1, <2>2, <2>3 DEF ReservationsMatch
  <2>6. CallbacksOnlyWhenRunning'
    BY <1>0, <2>1, <2>2 DEF CallbacksOnlyWhenRunning
  <2>7. \A e \in activeCaptures : outcome[e] = "accepted" /\ e # ex.dir
    BY <2>1 DEF SlotInv, CapturesAnswered
  <2>8. CapturesAnswered'
    BY <1>0, <2>1, <2>2, <2>7 DEF TypeOK, CapturesAnswered
  <2> QED BY <2>4, <2>5, <2>6, <2>8 DEF SlotInv
<1>4. CASE BeginCapture
  <2>1. /\ ex.pc = "reserved" /\ ex' = [ex EXCEPT !.pc = "begun"]
        /\ activeCaptures' = IF ex.post THEN activeCaptures \cup {ex.dir}
                                        ELSE activeCaptures
        /\ UNCHANGED <<node, expired, outcome, jobs, reservedJobs>>
    BY <1>4 DEF BeginCapture
  <2>2. ex'.pc = "begun" /\ ex'.dir = ex.dir /\ ex'.post = ex.post /\ ex.post \in BOOLEAN
    BY <2>1 DEF TypeOK, ExType
  <2>3. \A e \in activeCaptures : outcome[e] = "accepted" /\ e # ex.dir
    BY <2>1 DEF SlotInv, CapturesAnswered
  <2>4. HeldByTrigger = 1
    BY <2>1 DEF HeldByTrigger
  <2>5. reservedJobs' = Cardinality(activeCaptures') + HeldByTrigger'
    <3>1. CASE ex.post
      <4>1. activeCaptures' = activeCaptures \cup {ex.dir} /\ ex.dir \notin activeCaptures
        BY <2>1, <2>3, <3>1
      <4>2. Cardinality(activeCaptures') = A + 1
        BY <1>0, <4>1, FS_AddElement
      <4>3. HeldByTrigger' = 0
        BY <2>2, <3>1 DEF HeldByTrigger
      <4> QED BY <1>0, <2>1, <2>4, <4>2, <4>3
    <3>2. CASE ~ex.post
      <4>1. activeCaptures' = activeCaptures /\ HeldByTrigger' = 1
        BY <2>1, <2>2, <3>2 DEF HeldByTrigger
      <4> QED BY <1>0, <2>1, <2>4, <4>1
    <3> QED BY <3>1, <3>2
  <2>6. IsFiniteSet(activeCaptures') /\ Cardinality(activeCaptures') \in Nat
    BY <1>0, <2>1, FS_AddElement, FS_CardinalityType
  <2>7. HeldByTrigger' \in Nat
    BY DEF HeldByTrigger
  <2>8. ReservationsMatch'
    BY <1>0, <2>1, <2>5, <2>6, <2>7 DEF ReservationsMatch
  <2>9. QueueWithinLimit'
    BY <1>0, <2>1 DEF QueueWithinLimit
  <2>10. CallbacksOnlyWhenRunning'
    BY <1>0, <2>1 DEF CallbacksOnlyWhenRunning
  <2>11. CapturesAnswered'
    BY <2>1, <2>2, <2>3 DEF SlotInv, CapturesAnswered
  <2> QED BY <2>8, <2>9, <2>10, <2>11 DEF SlotInv
<1>5. ASSUME NEW n \in Batch, EnqueueFirst(n) PROVE SlotInv'
  <2>1. /\ ex.pc = "begun" /\ EnqueueAccepts(~ex.post) /\ ex' = ExIdle
        /\ Enqueue(ex.dir, n, ~ex.post, ~ex.post)
        /\ outcome' = [outcome EXCEPT ![ex.dir] = "accepted"]
        /\ UNCHANGED <<node, activeCaptures, expired>>
    BY <1>5 DEF EnqueueFirst
  <2>2. ex'.pc = "idle" /\ HeldByTrigger' = 0 /\ ex.post \in BOOLEAN /\ ex.dir \in Event
    BY <2>1 DEF HeldByTrigger, ExIdle, TypeOK, ExType, ExBusy
  <2>3. Len(jobs') = Len(jobs) + 1
    <3>1. jobs' = Append(jobs, [dir |-> ex.dir, size |-> n, final |-> ~ex.post])
      BY <2>1 DEF Enqueue
    <3>2. [dir |-> ex.dir, size |-> n, final |-> ~ex.post] \in Job
      BY <2>2 DEF Job
    <3> QED BY <3>1, <3>2 DEF TypeOK
  <2>4. /\ Len(jobs') + reservedJobs' <= MaxPendingJobs
        /\ reservedJobs' = A /\ reservedJobs' \in Nat
    <3>1. CASE ex.post
      <4>1. reservedJobs' = reservedJobs /\ HeldByTrigger = 0
            /\ Len(jobs) + reservedJobs < MaxPendingJobs
        BY <1>0, <2>1, <3>1 DEF Enqueue, EnqueueAccepts, QueueFull, HeldByTrigger
      <4> QED BY <1>0, <2>3, <4>1
    <3>2. CASE ~ex.post
      <4>1. HeldByTrigger = 1 /\ reservedJobs' = Released
        BY <2>1, <3>2 DEF Enqueue, HeldByTrigger
      <4> QED BY <1>0, <2>3, <4>1 DEF Released
    <3> QED BY <3>1, <3>2
  <2>5. QueueWithinLimit'
    BY <2>4 DEF QueueWithinLimit
  <2>6. ReservationsMatch'
    BY <1>0, <2>1, <2>2, <2>4 DEF ReservationsMatch
  <2>7. CallbacksOnlyWhenRunning'
    BY <1>0, <2>1, <2>2 DEF CallbacksOnlyWhenRunning
  <2>8. CapturesAnswered'
    BY <1>0, <2>1, <2>2 DEF SlotInv, CapturesAnswered
  <2> QED BY <2>5, <2>6, <2>7, <2>8 DEF SlotInv
<1>6. CASE RefuseFirst
  <2>1. /\ ex.pc = "begun" /\ ~EnqueueAccepts(~ex.post)
        /\ ex' = [ex EXCEPT !.pc = "failing"]
        /\ activeCaptures' = activeCaptures \ {ex.dir}
        /\ reservedJobs' = Released
        /\ outcome' = [outcome EXCEPT ![ex.dir] = "rejected"]
        /\ UNCHANGED <<node, expired, jobs>>
    BY <1>6 DEF RefuseFirst
  <2>2. ex.post
    BY <1>0, <2>1 DEF EnqueueAccepts
  <2>3. ex.dir \in activeCaptures /\ HeldByTrigger = 0
    BY <2>1, <2>2 DEF SlotInv, CapturesAnswered, HeldByTrigger
  <2>4. ex'.pc = "failing" /\ HeldByTrigger' = 0
    BY <2>1 DEF HeldByTrigger, TypeOK, ExType
  <2>5. Cardinality(activeCaptures') = A - 1 /\ IsFiniteSet(activeCaptures')
    BY <1>0, <2>1, <2>3, FS_RemoveElement
  <2>6. Cardinality(activeCaptures') \in Nat
    BY <2>5, FS_CardinalityType
  <2>7. reservedJobs' = reservedJobs - 1 /\ reservedJobs' = Cardinality(activeCaptures')
    BY <1>0, <2>1, <2>3, <2>5, <2>6 DEF Released
  <2>8. QueueWithinLimit'
    BY <1>0, <2>1, <2>7 DEF QueueWithinLimit
  <2>9. ReservationsMatch'
    BY <1>0, <2>1, <2>4, <2>6, <2>7 DEF ReservationsMatch
  <2>10. CallbacksOnlyWhenRunning'
    BY <1>0, <2>1 DEF CallbacksOnlyWhenRunning
  <2>11. \A e \in activeCaptures : e # ex.dir => outcome[e] = "accepted"
    BY DEF SlotInv, CapturesAnswered
  <2>12. CapturesAnswered'
    BY <1>0, <2>1, <2>4, <2>11 DEF TypeOK, CapturesAnswered
  <2> QED BY <2>8, <2>9, <2>10, <2>12 DEF SlotInv
<1>7. CASE MarkRefused \/ ClearRefused
  <2>1. /\ ex.pc \in {"failing", "clearing"} /\ ex'.pc \in {"idle", "clearing"}
        /\ UNCHANGED <<node, activeCaptures, expired, outcome, jobs, reservedJobs>>
    BY <1>7 DEF MarkRefused, ClearRefused, ExIdle, TypeOK, ExType
  <2>2. HeldByTrigger = 0 /\ HeldByTrigger' = 0
    BY <2>1 DEF HeldByTrigger
  <2>3. QueueWithinLimit' /\ ReservationsMatch'
    BY <2>1, <2>2 DEF SlotInv, QueueWithinLimit, ReservationsMatch
  <2>4. CallbacksOnlyWhenRunning' /\ CapturesAnswered'
    BY <1>0, <2>1 DEF SlotInv, CallbacksOnlyWhenRunning, CapturesAnswered
  <2> QED BY <2>3, <2>4 DEF SlotInv
<1> QED BY <1>1, <1>2, <1>3, <1>4, <1>5, <1>6, <1>7 DEF Trigger, Admit

(* While captures are being harvested each still owns a slot, so the post  *)
(* batch is taken.                                                         *)
LEMMA HarvestAccepts ==
    ASSUME TypeOK, SlotInv, expired # {}
    PROVE  /\ node = "running" /\ ex.pc = "idle" /\ EnqueueAccepts(TRUE)
           /\ reservedJobs = Cardinality(activeCaptures) + Cardinality(expired)
           /\ Cardinality(expired) >= 1
<1>1. node = "running" /\ ex.pc = "idle"
  BY DEF SlotInv, CallbacksOnlyWhenRunning
<1>2. HeldByTrigger = 0
  BY <1>1 DEF HeldByTrigger
<1>3. Cardinality(expired) # 0
  BY TablesFinite, FS_EmptySet
<1> QED BY <1>1, <1>2, <1>3, TablesFinite DEF SlotInv, ReservationsMatch, EnqueueAccepts

(* The scheduler timer moves slots from the table to the harvest and then  *)
(* into the queue.                                                         *)
LEMMA HarvestSlots ==
    ASSUME TypeOK, SlotInv, Harvest \/ \E S \in SUBSET Event : ExpireCaptures(S)
    PROVE  SlotInv'
<1> USE DEF lifeVars, execVars, queueVars, workVars, diskVars
<1>1. ASSUME NEW S \in SUBSET Event, ExpireCaptures(S) PROVE SlotInv'
  <2>1. /\ node = "running" /\ ex.pc = "idle" /\ expired = {}
        /\ S \in SUBSET activeCaptures
        /\ activeCaptures' = activeCaptures \ S /\ expired' = S
        /\ UNCHANGED <<node, ex, outcome, jobs, reservedJobs>>
    BY <1>1 DEF ExpireCaptures
  <2>2. HeldByTrigger = 0 /\ HeldByTrigger' = 0
    BY <2>1 DEF HeldByTrigger
  <2>3. /\ Cardinality(S) \in Nat /\ Cardinality(activeCaptures \ S) \in Nat
        /\ Cardinality(activeCaptures)
             = Cardinality(activeCaptures \ S) + Cardinality(S)
    BY <2>1, TablesFinite, SplitCount
  <2>4. reservedJobs = Cardinality(activeCaptures)
    BY <2>1, <2>2, TablesFinite, FS_EmptySet DEF SlotInv, ReservationsMatch
  <2>5. ReservationsMatch'
    BY <2>1, <2>2, <2>3, <2>4 DEF ReservationsMatch
  <2>6. QueueWithinLimit'
    BY <2>1 DEF SlotInv, QueueWithinLimit
  <2>7. CallbacksOnlyWhenRunning' /\ CapturesAnswered'
    BY <2>1 DEF SlotInv, CallbacksOnlyWhenRunning, CapturesAnswered
  <2> QED BY <2>5, <2>6, <2>7 DEF SlotInv
<1>2. ASSUME NEW e \in Event, NEW n \in Batch, EnqueuePost(e, n) PROVE SlotInv'
  <2>1. /\ e \in expired /\ Enqueue(e, n, TRUE, TRUE) /\ expired' = expired \ {e}
        /\ UNCHANGED <<node, ex, activeCaptures, outcome>>
    BY <1>2 DEF EnqueuePost
  <2>2. /\ node = "running" /\ ex.pc = "idle" /\ EnqueueAccepts(TRUE)
        /\ reservedJobs = Cardinality(activeCaptures) + Cardinality(expired)
        /\ Cardinality(expired) >= 1
    BY <2>1, HarvestAccepts
  <2>3. HeldByTrigger' = 0
    BY <2>1, <2>2 DEF HeldByTrigger
  <2>4. Len(jobs') = Len(jobs) + 1 /\ Len(jobs) \in Nat
    <3>1. jobs' = Append(jobs, [dir |-> e, size |-> n, final |-> TRUE])
      BY <2>1, <2>2 DEF Enqueue
    <3>2. [dir |-> e, size |-> n, final |-> TRUE] \in Job
      BY DEF Job
    <3> QED BY <3>1, <3>2 DEF TypeOK
  <2>5. /\ Cardinality(expired') = Cardinality(expired) - 1
        /\ Cardinality(expired') \in Nat
    BY <2>1, TablesFinite, FS_RemoveElement, FS_CardinalityType
  <2>6. reservedJobs' = reservedJobs - 1 /\ reservedJobs \in Nat
    <3>1. reservedJobs' = Released
      BY <2>1, Zenon DEF Enqueue
    <3>2. reservedJobs \in Nat /\ Cardinality(activeCaptures) \in Nat /\ Cardinality(expired) \in Nat
      BY TablesFinite DEF TypeOK
    <3>3. reservedJobs > 0
      BY <2>2, <3>2
    <3> QED BY <3>1, <3>2, <3>3 DEF Released
  <2>7. ReservationsMatch'
    BY <2>1, <2>2, <2>3, <2>5, <2>6, TablesFinite DEF ReservationsMatch
  <2>8. QueueWithinLimit'
    BY <2>4, <2>6, LimitsAssumption DEF SlotInv, QueueWithinLimit
  <2>9. CallbacksOnlyWhenRunning' /\ CapturesAnswered'
    BY <2>1, <2>2 DEF SlotInv, CallbacksOnlyWhenRunning, CapturesAnswered
  <2> QED BY <2>7, <2>8, <2>9 DEF SlotInv
<1> QED BY <1>1, <1>2 DEF Harvest

(* Ending the process forgets every slot; a new one starts with none.      *)
LEMMA LifeSlots ==
    ASSUME TypeOK, SlotInv,
           \/ Shutdown \/ Exit \/ Crash \/ Restart \/ Start
           \/ \E e \in Event, left \in SUBSET Terminal : CrashInSweep(e, left)
    PROVE  SlotInv'
<1> USE DEF lifeVars, execVars, queueVars, workVars, diskVars
<1>1. CASE Shutdown
  <2>1. /\ node' = "stopping" /\ activeCaptures' = {} /\ expired = {} /\ ex.pc = "idle"
        /\ UNCHANGED <<ex, expired, outcome, jobs, reservedJobs>>
    BY <1>1 DEF Shutdown
  <2> QED BY <2>1 DEF SlotInv, QueueWithinLimit, ReservationsMatch,
                      CallbacksOnlyWhenRunning, CapturesAnswered
<1>2. ASSUME ForgetMemory, node' = "down" PROVE SlotInv'
  <2>1. /\ ex'.pc = "idle" /\ expired' = {} /\ activeCaptures' = {}
        /\ jobs' = <<>> /\ reservedJobs' = 0
    BY <1>2 DEF ForgetMemory, ExIdle
  <2> QED BY <1>2, <2>1, LimitsAssumption
          DEF SlotInv, QueueWithinLimit, ReservationsMatch, CallbacksOnlyWhenRunning,
              CapturesAnswered
<1>3. CASE Restart \/ \E e \in Event : ReconcileDir(e)
  <2>1. /\ node' \in {"starting"} /\ node \in {"down", "starting"}
        /\ UNCHANGED <<ex, activeCaptures, expired, outcome, jobs, reservedJobs>>
    BY <1>3 DEF Restart, ReconcileDir
  <2> QED BY <2>1 DEF SlotInv, QueueWithinLimit, ReservationsMatch,
                      CallbacksOnlyWhenRunning, CapturesAnswered
<1>4. CASE StartSpinning
  <2>1. /\ node = "starting" /\ node' = "running"
        /\ UNCHANGED <<ex, activeCaptures, expired, outcome, jobs, reservedJobs>>
    BY <1>4 DEF StartSpinning
  <2>2. /\ reservedJobs = 0 /\ activeCaptures = {} /\ expired = {} /\ ex.pc = "idle"
    BY <2>1 DEF SlotInv, CallbacksOnlyWhenRunning
  <2>3. HeldByTrigger' = 0
    BY <2>1, <2>2 DEF HeldByTrigger
  <2>4. ReservationsMatch'
    BY <2>1, <2>2, <2>3, FS_EmptySet DEF ReservationsMatch
  <2> QED BY <2>1, <2>2, <2>4 DEF SlotInv, QueueWithinLimit, CallbacksOnlyWhenRunning,
                                  CapturesAnswered
<1> QED BY <1>1, <1>2, <1>3, <1>4 DEF Exit, Crash, CrashInSweep, Die, Start

(* The invariant behind the three theorems below.                          *)
THEOREM SlotsSafe == Spec => []SlotInv
<1>1. Init => SlotInv
  BY LimitsAssumption, FS_EmptySet
     DEF Init, SlotInv, QueueWithinLimit, ReservationsMatch, HeldByTrigger, ExIdle,
         CallbacksOnlyWhenRunning, CapturesAnswered
<1>2. TypeOK /\ SlotInv /\ [Next]_vars => SlotInv'
  <2> SUFFICES ASSUME TypeOK, SlotInv, [Next]_vars PROVE SlotInv'
    OBVIOUS
  <2>1. CASE UNCHANGED vars
    <3>1. UNCHANGED slotVars
      BY <2>1 DEF vars, slotVars, lifeVars, execVars, queueVars
    <3> QED BY <3>1, SlotFrame
  <2> QED BY <2>1, TriggerSlots, HarvestSlots, WorkerSlots, LifeSlots DEF Next
<1> QED BY <1>1, <1>2, TypeCorrect, PTL DEF Spec

(* Queued jobs and reserved slots together never exceed the limit, however *)
(* triggers, harvests, the worker, crashes and restarts interleave.        *)
THEOREM QueueNeverOverfull == Spec => []QueueWithinLimit
<1>1. SlotInv => QueueWithinLimit
  BY DEF SlotInv
<1> QED BY <1>1, SlotsSafe, PTL

(* No path through admission and harvest leaks or double-frees a slot.     *)
THEOREM ReservationsExact == Spec => []ReservationsMatch
<1>1. SlotInv => ReservationsMatch
  BY DEF SlotInv
<1> QED BY <1>1, SlotsSafe, PTL

(* The post batch of a capture that was admitted always enters the queue.  *)
THEOREM PostBatchNeverRefused == Spec => PostBatchHasSlot
<1>1. TypeOK /\ SlotInv /\ [Next]_vars =>
        [\A e \in expired \ expired' :
             node' # "down" =>
                 \E i \in DOMAIN jobs' : jobs'[i].dir = e /\ jobs'[i].final]_vars
  <2> SUFFICES ASSUME TypeOK, SlotInv, Next,
                      NEW e \in expired \ expired', node' # "down"
               PROVE  \E i \in DOMAIN jobs' : jobs'[i].dir = e /\ jobs'[i].final
    OBVIOUS
  <2> USE DEF lifeVars, execVars, queueVars, workVars, diskVars
  <2>1. node = "running" /\ ex.pc = "idle" /\ EnqueueAccepts(TRUE)
    BY HarvestAccepts
  <2>2. PICK n \in Batch : EnqueuePost(e, n)
    <3>1. ~Trigger /\ ~(\E S \in SUBSET Event : ExpireCaptures(S))
      BY DEF Trigger, RejectUnsynced, ReserveSlot, ExpireCaptures
    <3>2. ~Admit
      BY <2>1 DEF Admit, RefuseCapture, BeginCapture, EnqueueFirst, RefuseFirst,
                  MarkRefused, ClearRefused
    <3>3. ~Worker
      BY DEF Worker, PopJob, PrepareJob, WriteRecord, LoseRecord, FinishJob, SealEvent,
             MarkEvent, ClearPending, RetireEvent
    <3>4. /\ ~Shutdown /\ ~Exit /\ ~Crash /\ ~Restart /\ ~Start
          /\ ~(\E d \in Event, left \in SUBSET Terminal : CrashInSweep(d, left))
      BY DEF Shutdown, Exit, Crash, CrashInSweep, Die, Restart, Start, ReconcileDir,
             StartSpinning
    <3>5. Harvest
      BY <3>1, <3>2, <3>3, <3>4 DEF Next
    <3> QED BY <3>5 DEF Harvest, EnqueuePost
  <2>3. jobs' = Append(jobs, [dir |-> e, size |-> n, final |-> TRUE])
    BY <2>1, <2>2 DEF EnqueuePost, Enqueue
  <2>4. e \in Event /\ [dir |-> e, size |-> n, final |-> TRUE] \in Job
    BY DEF TypeOK, Job
  <2>5. /\ Len(jobs) + 1 \in DOMAIN jobs'
        /\ jobs'[Len(jobs) + 1] = [dir |-> e, size |-> n, final |-> TRUE]
    BY <2>3, <2>4 DEF TypeOK
  <2> QED BY <2>5
<1> QED BY <1>1, SlotsSafe, TypeCorrect, PTL DEF Spec, PostBatchHasSlot
=============================================================================
