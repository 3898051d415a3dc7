------------------------- MODULE TransactionProofs -------------------------
(***************************************************************************)
(* The event transaction, for every set of events, every limit and every   *)
(* combination of faults: .complete means whole, retention never deletes a *)
(* directory somebody still works on, and a deleted directory stays gone.  *)
(***************************************************************************)
EXTENDS RecordingProofs

(* The jobs of an event: a pre batch, a post batch that closes it.         *)
Queued(e, final) == \E i \in DOMAIN jobs : jobs[i].dir = e /\ jobs[i].final = final

(* The worker is at one of the steps in P of a job of e.                   *)
WorksOn(e, P) == wk.pc \in P /\ wk.job.dir = e

Captured(e) == e \in activeCaptures \cup expired

(* Steps of the worker before the terminal marker is written.              *)
BeforeMark == {"prepare", "write", "seal", "mark"}

(* An event the recording path still has to close.                         *)
Live(e) == \/ Captured(e)
           \/ \E i \in DOMAIN jobs : jobs[i].dir = e
           \/ WorksOn(e, BeforeMark)

(***************************************************************************)
(* First layer: which jobs and captures can exist together.                *)
(***************************************************************************)

(* Of two jobs of one event the first is the pre batch and the second the  *)
(* post batch, in the queue and between the worker and the queue.          *)
JobsInOrder ==
    /\ \A i, j \in DOMAIN jobs :
           i < j /\ jobs[i].dir = jobs[j].dir => ~jobs[i].final /\ jobs[j].final
    /\ \A j \in DOMAIN jobs :
           WorksOn(jobs[j].dir, WkBusy) => ~wk.job.final /\ jobs[j].final
    /\ wk.pc \in {"seal", "mark", "clear", "retain"} => wk.job.final

(* Only an accepted trigger has jobs, and only it or the trigger being     *)
(* served has a capture.                                                   *)
OnlyAccepted ==
    /\ \A i \in DOMAIN jobs : outcome[jobs[i].dir] = "accepted"
    /\ wk.pc \in WkBusy => outcome[wk.job.dir] = "accepted"
    /\ \A e \in activeCaptures \cup expired :
           \/ outcome[e] = "accepted"
           \/ ex.pc = "begun" /\ ex.post /\ ex.dir = e
    /\ ex.pc \in {"failing", "clearing"} => outcome[ex.dir] = "rejected"

(* A capture has not handed over its closing batch yet.                    *)
CaptureIsOpen ==
    /\ activeCaptures \cap expired = {}
    /\ \A e \in activeCaptures \cup expired :
           ~Queued(e, TRUE) /\ ~(WorksOn(e, WkBusy) /\ wk.job.final)

(* In a running node a pre batch is followed by the batch that closes.     *)
PreIsFollowed ==
    node = "running" =>
        \A e \in Event : Queued(e, FALSE) \/ (WorksOn(e, WkBusy) /\ ~wk.job.final)
                             => Captured(e) \/ Queued(e, TRUE)

WorkerDown == node \in {"down", "starting"} => wk.pc = "idle"

ShapeInv == JobsInOrder /\ OnlyAccepted /\ CaptureIsOpen /\ PreIsFollowed /\ WorkerDown

(***************************************************************************)
(* Second layer: the marker files.                                         *)
(***************************************************************************)

(* Until the worker writes the terminal marker a live event has .pending   *)
(* and nothing else; then it has both until .pending is cleared.           *)
LiveIsPending ==
    /\ \A e \in Event : Live(e) => marker[e] = {"pending"}
    /\ wk.pc = "clear" => marker[wk.job.dir] =
           {"pending", IF wk.ok THEN "complete" ELSE "failed"}

(* The same for the trigger being served.                                  *)
ServedIsPending ==
    /\ ex.pc \in {"begun", "failing"} => marker[ex.dir] = {"pending"}
    /\ ex.pc = "clearing" => marker[ex.dir] = {"pending", "failed"}

(* An event nobody has triggered has left nothing on disk.                 *)
FreshIsEmpty ==
    \A e \in Event : outcome[e] = "new" =>
        /\ e \notin removed
        /\ captured[e] = 0 /\ rows[e] = 0 /\ durable[e] = 0
        /\ progress[e] = NoProgress
        /\ marker[e] = {} \/ (ex.pc = "begun" /\ ex.dir = e)

(* A directory is closed one way, and a deleted one is not open.           *)
ClosedOnce ==
    /\ \A e \in Event : ~(Terminal \subseteq marker[e])
    /\ \A e \in removed : "pending" \notin marker[e] /\ rows[e] = 0 /\ durable[e] = 0

(* A starting node has still to look at every directory that is pending,   *)
(* and at no other.                                                        *)
StartSeesPending ==
    node = "starting" =>
        /\ \A e \in unreconciled : "pending" \in marker[e]
        /\ \A e \in Event \ Unmarkable :
               "pending" \in marker[e] => e \in unreconciled

MarkerInv == /\ LiveIsPending /\ ServedIsPending /\ FreshIsEmpty
             /\ ClosedOnce /\ StartSeesPending /\ PendingHasOwner

(***************************************************************************)
(* Third layer: the records.                                               *)
(***************************************************************************)

PreLeft(e) == Queued(e, FALSE) \/ (WorksOn(e, {"prepare", "write"}) /\ ~wk.job.final)
Merged(e) == WorksOn(e, {"seal", "mark"})

(* Of what the buffer handed over, a is the pre batch, b the post batch;   *)
(* the progress of an event without a failure counts the finished jobs.    *)
Ledger(e, a, b) ==
    /\ captured[e] = a + b
    /\ \A i \in DOMAIN jobs :
           jobs[i].dir = e => jobs[i].size = IF jobs[i].final THEN b ELSE a
    /\ WorksOn(e, BeforeMark) => wk.job.size = IF wk.job.final THEN b ELSE a
    /\ Captured(e) => b = 0
    /\ ~progress[e].failed =>
           progress[e].persisted = (IF PreLeft(e) THEN 0 ELSE a)
                                     + (IF Merged(e) THEN b ELSE 0)

RecordsCounted == \A e \in Event : Live(e) => \E a, b \in Nat : Ledger(e, a, b)

(* The manifest has a row for every record counted, as long as no write    *)
(* failed.                                                                 *)
Writing(e) == WorksOn(e, {"prepare", "write"})

RowsMatch ==
    \A e \in Event : Live(e) /\ ~progress[e].failed /\ (Writing(e) => wk.ok) =>
        rows[e] = progress[e].persisted + (IF Writing(e) THEN wk.kept ELSE 0)

(* What the worker knows about the job in hand.                            *)
WorkerKnows ==
    /\ wk.pc \in {"prepare", "write"} /\ wk.ok => wk.left + wk.kept = wk.job.size
    /\ wk.pc \in {"seal", "mark"} /\ ~progress[wk.job.dir].failed =>
           durable[wk.job.dir] = rows[wk.job.dir]
    /\ wk.pc = "mark" /\ wk.ok =>
           ~progress[wk.job.dir].failed /\ progress[wk.job.dir].persisted > 0

RecordInv == RecordsCounted /\ RowsMatch /\ WorkerKnows /\ CompleteIsWhole

(***************************************************************************)
(* Proof of the first layer                                                *)
(***************************************************************************)

(* The queue after a job was added.                                        *)
LEMMA JobAdded ==
    ASSUME TypeOK, NEW j \in Job, jobs' = Append(jobs, j)
    PROVE  /\ DOMAIN jobs' = DOMAIN jobs \cup {Len(jobs) + 1}
           /\ \A i \in DOMAIN jobs : jobs'[i] = jobs[i] /\ i < Len(jobs) + 1 /\ i \in Nat
           /\ jobs'[Len(jobs) + 1] = j /\ Len(jobs) + 1 \in Nat
  BY DEF TypeOK

(* The queue after the worker took the oldest job.                         *)
LEMMA JobTaken ==
    ASSUME TypeOK, jobs # <<>>, jobs' = Tail(jobs)
    PROVE  /\ 1 \in DOMAIN jobs /\ Head(jobs) = jobs[1] /\ Head(jobs) \in Job
           /\ \A i \in DOMAIN jobs' : i + 1 \in DOMAIN jobs /\ jobs'[i] = jobs[i + 1]
                                      /\ i \in Nat /\ i >= 1
           /\ \A i \in DOMAIN jobs : i # 1 =>
                  i - 1 \in DOMAIN jobs' /\ jobs'[i - 1] = jobs[i] /\ i \in Nat /\ i > 1
  BY DEF TypeOK

shapeVars == <<node, ex, activeCaptures, expired, outcome, jobs>>

(* The worker goes on with its job, and nobody else moves.                 *)
LEMMA ShapeFrame ==
    ASSUME ShapeInv, UNCHANGED shapeVars,
           \/ UNCHANGED wk
           \/ /\ wk.pc \in WkBusy /\ wk'.pc \in WkBusy /\ wk'.job = wk.job
              /\ wk'.pc \in {"seal", "mark", "clear", "retain"} => wk.job.final
    PROVE  ShapeInv'
<1>1. JobsInOrder'
  BY DEF ShapeInv, shapeVars, JobsInOrder, WorksOn, WkBusy
<1>2. OnlyAccepted' /\ WorkerDown'
  BY DEF ShapeInv, shapeVars, OnlyAccepted, WorkerDown, WkBusy
<1>3. CaptureIsOpen' /\ PreIsFollowed'
  BY DEF ShapeInv, shapeVars, CaptureIsOpen, PreIsFollowed, WorksOn, WkBusy, Queued, Captured
<1> QED BY <1>1, <1>2, <1>3 DEF ShapeInv

(* The worker's own steps.                                                 *)
LEMMA WorkerShape == ASSUME TypeOK, SlotInv, ShapeInv, Worker PROVE ShapeInv'
<1> USE DEF lifeVars, execVars, queueVars, workVars, diskVars
<1>1. CASE PopJob
  <2>1. /\ wk.pc = "idle" /\ jobs # <<>> /\ jobs' = Tail(jobs)
        /\ wk'.pc = "prepare" /\ wk'.job = Head(jobs)
        /\ UNCHANGED <<node, ex, activeCaptures, expired, outcome>>
    BY <1>1 DEF PopJob
  <2>2. \A i \in DOMAIN jobs' : i + 1 \in DOMAIN jobs /\ jobs'[i] = jobs[i + 1]
                                /\ i \in Nat /\ i >= 1
    BY <2>1, JobTaken
  <2>3. 1 \in DOMAIN jobs /\ wk'.job = jobs[1] /\ wk'.pc \in WkBusy
    BY <2>1, JobTaken DEF WkBusy
  <2>4. \A i \in DOMAIN jobs : i # 1 =>
                  i - 1 \in DOMAIN jobs' /\ jobs'[i - 1] = jobs[i] /\ i \in Nat /\ i > 1
    BY <2>1, JobTaken
  <2>5. JobsInOrder'
    <3>1. ASSUME NEW i \in DOMAIN jobs', NEW j \in DOMAIN jobs',
                 i < j, jobs'[i].dir = jobs'[j].dir
          PROVE  ~jobs'[i].final /\ jobs'[j].final
      <4>1. i + 1 < j + 1 /\ jobs'[i] = jobs[i + 1] /\ jobs'[j] = jobs[j + 1]
            /\ i + 1 \in DOMAIN jobs /\ j + 1 \in DOMAIN jobs
        BY <2>2, <3>1
      <4> QED BY <3>1, <4>1 DEF ShapeInv, JobsInOrder
    <3>2. ASSUME NEW j \in DOMAIN jobs', WorksOn(jobs[j].dir, WkBusy)'
          PROVE  ~wk'.job.final /\ jobs'[j].final
      <4>1. 1 < j + 1 /\ jobs[1].dir = jobs[j + 1].dir /\ j + 1 \in DOMAIN jobs
            /\ jobs'[j] = jobs[j + 1]
        BY <2>2, <2>3, <3>2 DEF WorksOn
      <4> QED BY <2>3, <4>1 DEF ShapeInv, JobsInOrder
    <3> QED BY <2>1, <3>1, <3>2 DEF JobsInOrder
  <2>6. OnlyAccepted'
    BY <2>1, <2>2, <2>3 DEF ShapeInv, OnlyAccepted
  <2>7. \A e, f : Queued(e, f)' => Queued(e, f)
    BY <2>2 DEF Queued
  <2>8. CaptureIsOpen'
    <3>1. jobs[1].final \in BOOLEAN
      BY <2>1, JobTaken DEF Job
    <3>2. \A e : WorksOn(e, WkBusy)' /\ wk'.job.final => Queued(e, TRUE)
      BY <2>3, <3>1 DEF WorksOn, Queued
    <3>3. UNCHANGED <<activeCaptures, expired>>
      BY <2>1
    <3> QED BY <2>7, <3>2, <3>3 DEF ShapeInv, CaptureIsOpen
  <2>9. PreIsFollowed'
    <3> SUFFICES ASSUME node = "running", NEW e \in Event, ~Captured(e),
                        Queued(e, FALSE)' \/ (WorksOn(e, WkBusy)' /\ ~wk'.job.final)
                 PROVE  Queued(e, TRUE)'
      BY <2>1 DEF PreIsFollowed, Captured
    <3>0. jobs[1] \in Job
      BY <2>1, JobTaken
    <3>1. Queued(e, FALSE)
      BY <2>3, <2>7, <3>0 DEF Queued, WorksOn, Job
    <3>2. PICK i \in DOMAIN jobs : jobs[i].dir = e /\ jobs[i].final = TRUE
      BY <3>1 DEF ShapeInv, PreIsFollowed, Queued
    <3>3. i # 1
      <4> SUFFICES ASSUME i = 1 PROVE FALSE
        OBVIOUS
      <4>1. ~(WorksOn(e, WkBusy)' /\ ~wk'.job.final)
        BY <2>3, <3>2
      <4>2. PICK j \in DOMAIN jobs' : jobs'[j].dir = e /\ jobs'[j].final = FALSE
        BY <4>1 DEF Queued
      <4>3. j + 1 \in DOMAIN jobs /\ 1 < j + 1 /\ jobs[j + 1].dir = jobs[1].dir
        BY <2>2, <3>2, <4>2
      <4> QED BY <2>3, <3>2, <4>3 DEF ShapeInv, JobsInOrder
    <3> QED BY <2>4, <3>2, <3>3 DEF Queued
  <2>10. WorkerDown'
    BY <2>1 DEF SlotInv, CallbacksOnlyWhenRunning, WorkerDown
  <2> QED BY <2>5, <2>6, <2>8, <2>9, <2>10 DEF ShapeInv
<1>2. ASSUME wk' = WkIdle, UNCHANGED shapeVars,
             PreIsFollowed'
      PROVE  ShapeInv'
  <2>1. wk'.pc = "idle" /\ "idle" \notin WkBusy
    BY <1>2 DEF WkIdle, WkBusy
  <2>2. JobsInOrder' /\ OnlyAccepted' /\ WorkerDown' /\ CaptureIsOpen'
    BY <1>2, <2>1 DEF ShapeInv, shapeVars, JobsInOrder, OnlyAccepted, WorkerDown,
                      CaptureIsOpen, WorksOn, Queued
  <2> QED BY <1>2, <2>2 DEF ShapeInv
<1>3. CASE FinishJob
  <2>1. wk.pc = "write" /\ UNCHANGED shapeVars
    BY <1>3 DEF FinishJob, shapeVars
  <2>2. CASE wk.job.final
    <3>1. wk'.pc = "seal" /\ wk'.job = wk.job
      BY <1>3, <2>2 DEF FinishJob, TypeOK, WkType
    <3> QED BY <2>1, <2>2, <3>1, ShapeFrame DEF WkBusy
  <2>3. CASE ~wk.job.final
    <3>1. wk' = WkIdle
      BY <1>3, <2>3 DEF FinishJob
    <3>2. PreIsFollowed'
      BY <2>1, <3>1 DEF ShapeInv, shapeVars, PreIsFollowed, WorksOn, WkIdle, WkBusy,
                        Queued, Captured
    <3> QED BY <1>2, <2>1, <3>1, <3>2
  <2> QED BY <2>2, <2>3
<1>4. ASSUME NEW S \in SUBSET Event, RetireEvent(S) PROVE ShapeInv'
  <2>1. wk' = WkIdle /\ UNCHANGED shapeVars
    BY <1>4 DEF RetireEvent, shapeVars
  <2>2. PreIsFollowed'
    BY <2>1 DEF ShapeInv, shapeVars, PreIsFollowed, WorksOn, WkIdle, WkBusy, Queued, Captured
  <2> QED BY <1>2, <2>1, <2>2
<1>5. ASSUME \/ WriteRecord \/ LoseRecord \/ SealEvent \/ MarkEvent \/ ClearPending
             \/ \E S \in SUBSET Event : PrepareJob(S)
      PROVE ShapeInv'
  <2>1. UNCHANGED shapeVars
    BY <1>5 DEF WriteRecord, LoseRecord, SealEvent, MarkEvent, ClearPending, PrepareJob,
                shapeVars
  <2>2. /\ wk.pc \in WkBusy /\ wk'.pc \in WkBusy /\ wk'.job = wk.job
        /\ \/ wk.pc \in {"prepare", "write"} /\ wk'.pc = "write"
           \/ wk.pc \in {"seal", "mark", "clear"}
    BY <1>5 DEF WriteRecord, LoseRecord, SealEvent, MarkEvent, ClearPending, PrepareJob,
                TypeOK, WkType, WkBusy
  <2>3. wk'.pc \in {"seal", "mark", "clear", "retain"} => wk.job.final
    BY <2>2 DEF ShapeInv, JobsInOrder
  <2> QED BY <2>1, <2>2, <2>3, ShapeFrame
<1> QED BY <1>1, <1>3, <1>4, <1>5 DEF Worker

(* The executor's steps.                                                   *)
LEMMA ExecutorShape ==
    ASSUME TypeOK, SlotInv, ShapeInv,
           Trigger \/ Admit \/ Harvest \/ \E S \in SUBSET Event : ExpireCaptures(S)
    PROVE  ShapeInv'
<1> USE DEF lifeVars, execVars, queueVars, workVars, diskVars
<1>0. /\ UNCHANGED <<node, wk>> /\ WorkerDown'
      /\ outcome \in [Event -> {"new", "accepted", "rejected", "lost"}]
      /\ \A i \in DOMAIN jobs : jobs[i] \in Job
      /\ ex.pc \in ExBusy => ex.dir \in Event
  <2>1. UNCHANGED <<node, wk>>
    BY DEF Trigger, RejectUnsynced, ReserveSlot, Admit, RefuseCapture, BeginCapture,
           EnqueueFirst, RefuseFirst, MarkRefused, ClearRefused, Harvest, EnqueuePost,
           ExpireCaptures
  <2> QED BY <2>1 DEF ShapeInv, WorkerDown, TypeOK, ExType
<1>a. ASSUME UNCHANGED <<jobs, activeCaptures, expired>>, OnlyAccepted' PROVE ShapeInv'
  BY <1>0, <1>a DEF ShapeInv, JobsInOrder, CaptureIsOpen, PreIsFollowed, WorksOn, Queued,
                    Captured
(* The event a trigger is served for has no job.                           *)
<1>b. ASSUME NEW e \in Event, outcome[e] = "new"
      PROVE  /\ \A i \in DOMAIN jobs : jobs[i].dir # e
             /\ ~WorksOn(e, WkBusy)
  BY <1>b DEF ShapeInv, OnlyAccepted, WorksOn
<1>1. ASSUME NEW e \in Event,
             RejectUnsynced(e) \/ \E post \in BOOLEAN : ReserveSlot(e, post)
      PROVE  ShapeInv'
  <2>1. /\ ex.pc = "idle" /\ outcome[e] = "new"
        /\ UNCHANGED <<jobs, activeCaptures, expired>>
        /\ outcome' \in {outcome, [outcome EXCEPT ![e] = "rejected"]}
        /\ ex'.pc \in {"idle", "reserved"}
    BY <1>1 DEF RejectUnsynced, ReserveSlot
  <2>2. \A d \in Event : outcome[d] = "accepted" => outcome'[d] = "accepted"
    BY <1>0, <2>1
  <2>3. OnlyAccepted'
    BY <1>0, <2>1, <2>2 DEF ShapeInv, OnlyAccepted, TypeOK, WkType, Job
  <2> QED BY <1>a, <2>1, <2>3
<1>2. CASE RefuseCapture
  <2>1. /\ ex.pc = "reserved" /\ ex' = ExIdle
        /\ outcome' = [outcome EXCEPT ![ex.dir] = "rejected"]
        /\ UNCHANGED <<jobs, activeCaptures, expired>>
    BY <1>2 DEF RefuseCapture
  <2>2. outcome[ex.dir] = "new"
    BY <2>1 DEF SlotInv, CapturesAnswered
  <2>3. \A d \in Event : outcome[d] = "accepted" => outcome'[d] = "accepted"
    BY <1>0, <2>1, <2>2
  <2>4. OnlyAccepted'
    BY <1>0, <2>1, <2>3 DEF ShapeInv, OnlyAccepted, TypeOK, WkType, Job, ExIdle
  <2> QED BY <1>a, <2>1, <2>4
<1>3. CASE BeginCapture
  <2>1. /\ ex.pc = "reserved" /\ ex' = [ex EXCEPT !.pc = "begun"]
        /\ activeCaptures' = IF ex.post THEN activeCaptures \cup {ex.dir}
                                        ELSE activeCaptures
        /\ UNCHANGED <<expired, outcome, jobs>>
    BY <1>3 DEF BeginCapture
  <2>2. ex.dir \in Event /\ outcome[ex.dir] = "new" /\ expired = {}
    BY <1>0, <2>1 DEF SlotInv, CapturesAnswered, CallbacksOnlyWhenRunning, ExBusy
  <2>3. ex'.pc = "begun" /\ ex'.dir = ex.dir /\ ex'.post = ex.post
    BY <2>1 DEF TypeOK, ExType
  <2>4. OnlyAccepted'
    BY <1>0, <2>1, <2>2, <2>3 DEF ShapeInv, OnlyAccepted
  <2>5. (\A i \in DOMAIN jobs : jobs[i].dir # ex.dir) /\ ~WorksOn(ex.dir, WkBusy)
    BY <1>b, <2>2
  <2>6. CaptureIsOpen'
    BY <1>0, <2>1, <2>2, <2>5 DEF ShapeInv, CaptureIsOpen, WorksOn, Queued
  <2>7. JobsInOrder' /\ PreIsFollowed'
    BY <1>0, <2>1 DEF ShapeInv, JobsInOrder, PreIsFollowed, WorksOn, Queued, Captured
  <2> QED BY <1>0, <2>4, <2>6, <2>7 DEF ShapeInv
<1>4. ASSUME NEW e \in Event, NEW n \in Batch, NEW f \in BOOLEAN,
             jobs' = Append(jobs, [dir |-> e, size |-> n, final |-> f]),
             \A i \in DOMAIN jobs : jobs[i].dir = e => f /\ ~jobs[i].final,
             WorksOn(e, WkBusy) => f /\ ~wk.job.final,
             f => e \notin activeCaptures' \cup expired', ~f => Captured(e)',
             activeCaptures' \cap expired' = {},
             \A d : Captured(d)' => Captured(d),
             \A d : d # e /\ Captured(d) => Captured(d)',
             OnlyAccepted'
      PROVE  ShapeInv'
  <2> DEFINE j == [dir |-> e, size |-> n, final |-> f]
             k == Len(jobs) + 1
  <2>1. j \in Job /\ j.dir = e /\ j.final = f
    BY DEF Job
  <2>2. /\ DOMAIN jobs' = DOMAIN jobs \cup {k}
        /\ \A i \in DOMAIN jobs : jobs'[i] = jobs[i] /\ i < k /\ i \in Nat
        /\ jobs'[k] = j /\ k \in Nat
    BY <1>4, <2>1, JobAdded
  <2> HIDE DEF j, k
  <2>3. JobsInOrder'
    <3>1. ASSUME NEW a \in DOMAIN jobs', NEW b \in DOMAIN jobs',
                 a < b, jobs'[a].dir = jobs'[b].dir
          PROVE  ~jobs'[a].final /\ jobs'[b].final
      <4>1. a \in DOMAIN jobs
        BY <2>2, <3>1
      <4>2. CASE b \in DOMAIN jobs
        BY <2>2, <3>1, <4>1, <4>2 DEF ShapeInv, JobsInOrder
      <4>3. CASE b = k
        BY <1>4, <2>1, <2>2, <3>1, <4>1, <4>3
      <4> QED BY <2>2, <4>2, <4>3
    <3>2. ASSUME NEW b \in DOMAIN jobs', WorksOn(jobs[b].dir, WkBusy)'
          PROVE  ~wk'.job.final /\ jobs'[b].final
      <4>1. CASE b \in DOMAIN jobs
        BY <1>0, <2>2, <3>2, <4>1 DEF ShapeInv, JobsInOrder, WorksOn
      <4>2. CASE b = k
        BY <1>0, <1>4, <2>1, <2>2, <3>2, <4>2 DEF WorksOn
      <4> QED BY <2>2, <4>1, <4>2
    <3> QED BY <1>0, <3>1, <3>2 DEF ShapeInv, JobsInOrder
  <2>4. \A d : d # e => (Queued(d, TRUE)' <=> Queued(d, TRUE))
                     /\ (Queued(d, FALSE)' <=> Queued(d, FALSE))
    BY <2>1, <2>2 DEF Queued
  <2>5. CaptureIsOpen'
    <3>1. \A i \in DOMAIN jobs' : jobs'[i].dir = e /\ jobs'[i].final => f
      BY <1>4, <2>1, <2>2
    <3>2. Captured(e)' => ~Queued(e, TRUE)' /\ ~(WorksOn(e, WkBusy)' /\ wk'.job.final)
      BY <1>0, <1>4, <3>1 DEF Queued, WorksOn, Captured
    <3>3. ASSUME NEW d, d # e, Captured(d)'
          PROVE  ~Queued(d, TRUE)' /\ ~(WorksOn(d, WkBusy)' /\ wk'.job.final)
      <4>1. Captured(d)
        BY <1>4, <3>3
      <4>2. ~Queued(d, TRUE) /\ ~(WorksOn(d, WkBusy) /\ wk.job.final)
        BY <4>1 DEF ShapeInv, CaptureIsOpen, Captured
      <4> QED BY <1>0, <2>4, <3>3, <4>2 DEF WorksOn
    <3> QED BY <1>4, <3>2, <3>3 DEF CaptureIsOpen, Captured
  <2>6. PreIsFollowed'
    <3> SUFFICES ASSUME node = "running", NEW d \in Event,
                        Queued(d, FALSE)' \/ (WorksOn(d, WkBusy)' /\ ~wk'.job.final)
                 PROVE  Captured(d)' \/ Queued(d, TRUE)'
      BY <1>0 DEF PreIsFollowed
    <3>1. CASE d = e
      <4>1. f => Queued(e, TRUE)'
        BY <2>1, <2>2 DEF Queued
      <4> QED BY <1>4, <3>1, <4>1
    <3>2. CASE d # e
      <4>1. Queued(d, FALSE) \/ (WorksOn(d, WkBusy) /\ ~wk.job.final)
        BY <1>0, <2>4, <3>2 DEF WorksOn
      <4>2. Captured(d) \/ Queued(d, TRUE)
        BY <4>1 DEF ShapeInv, PreIsFollowed
      <4> QED BY <1>4, <2>4, <3>2, <4>2
    <3> QED BY <3>1, <3>2
  <2> QED BY <1>0, <1>4, <2>3, <2>5, <2>6 DEF ShapeInv
<1>5. ASSUME NEW n \in Batch, EnqueueFirst(n) PROVE ShapeInv'
  <2>1. /\ ex.pc = "begun" /\ ex' = ExIdle
        /\ jobs' = Append(jobs, [dir |-> ex.dir, size |-> n, final |-> ~ex.post])
        /\ outcome' = [outcome EXCEPT ![ex.dir] = "accepted"]
        /\ UNCHANGED <<activeCaptures, expired>>
    BY <1>5 DEF EnqueueFirst, Enqueue
  <2>2. ex.dir \in Event /\ outcome[ex.dir] = "new" /\ expired = {} /\ ex.post \in BOOLEAN
    BY <1>0, <2>1 DEF SlotInv, CapturesAnswered, CallbacksOnlyWhenRunning, ExBusy, TypeOK,
                      ExType
  <2>3. ex.post <=> ex.dir \in activeCaptures
    BY <2>1, <2>2 DEF SlotInv, CapturesAnswered, ShapeInv, OnlyAccepted
  <2>4. (\A i \in DOMAIN jobs : jobs[i].dir # ex.dir) /\ ~WorksOn(ex.dir, WkBusy)
    BY <1>b, <2>2
  <2>5. OnlyAccepted'
    <3>1. [dir |-> ex.dir, size |-> n, final |-> ~ex.post] \in Job
      BY <2>2 DEF Job
    <3>2. /\ DOMAIN jobs' = DOMAIN jobs \cup {Len(jobs) + 1}
          /\ \A i \in DOMAIN jobs : jobs'[i] = jobs[i]
          /\ jobs'[Len(jobs) + 1].dir = ex.dir
      BY <2>1, <3>1, JobAdded
    <3>3. \A i \in DOMAIN jobs' : outcome'[jobs'[i].dir] = "accepted"
      BY <1>0, <2>1, <2>2, <3>2 DEF ShapeInv, OnlyAccepted, Job
    <3>4. \A e \in activeCaptures' \cup expired' : outcome'[e] = "accepted"
      BY <1>0, <2>1, <2>2 DEF ShapeInv, OnlyAccepted, TypeOK
    <3>5. wk'.pc \in WkBusy => outcome'[wk'.job.dir] = "accepted"
      BY <1>0, <2>1, <2>2 DEF ShapeInv, OnlyAccepted, TypeOK, WkType
    <3> QED BY <2>1, <3>3, <3>4, <3>5 DEF OnlyAccepted, ExIdle
  <2> QED BY <1>4, <2>1, <2>2, <2>3, <2>4, <2>5 DEF Captured, ShapeInv, CaptureIsOpen
<1>6. CASE RefuseFirst
  <2>1. /\ ex.pc = "begun" /\ ex' = [ex EXCEPT !.pc = "failing"]
        /\ activeCaptures' = activeCaptures \ {ex.dir}
        /\ outcome' = [outcome EXCEPT ![ex.dir] = "rejected"]
        /\ UNCHANGED <<expired, jobs>>
    BY <1>6 DEF RefuseFirst
  <2>2. ex.dir \in Event /\ outcome[ex.dir] = "new"
    BY <1>0, <2>1 DEF SlotInv, CapturesAnswered, ExBusy
  <2>3. (\A i \in DOMAIN jobs : jobs[i].dir # ex.dir) /\ ~WorksOn(ex.dir, WkBusy)
    BY <1>b, <2>2
  <2>4. ex'.pc = "failing" /\ ex'.dir = ex.dir /\ outcome'[ex.dir] = "rejected"
    BY <1>0, <2>1, <2>2 DEF TypeOK, ExType
  <2>5. OnlyAccepted'
    <3>1. \A d \in Event : d # ex.dir => outcome'[d] = outcome[d]
      BY <1>0, <2>1
    <3>2. \A d \in activeCaptures' \cup expired' : outcome'[d] = "accepted"
      BY <1>0, <2>1, <2>2, <3>1 DEF ShapeInv, OnlyAccepted, TypeOK, SlotInv,
                                    CallbacksOnlyWhenRunning
    <3>3. \A i \in DOMAIN jobs' : outcome'[jobs'[i].dir] = "accepted"
      BY <1>0, <2>1, <2>3, <3>1 DEF ShapeInv, OnlyAccepted, Job
    <3>4. wk'.pc \in WkBusy => outcome'[wk'.job.dir] = "accepted"
      BY <1>0, <2>2, <2>3, <3>1 DEF ShapeInv, OnlyAccepted, TypeOK, WkType, WorksOn
    <3> QED BY <2>4, <3>2, <3>3, <3>4 DEF OnlyAccepted
  <2>6. JobsInOrder' /\ CaptureIsOpen'
    BY <1>0, <2>1 DEF ShapeInv, JobsInOrder, CaptureIsOpen, WorksOn, Queued
  <2>7. PreIsFollowed'
    BY <1>0, <2>1, <2>3 DEF ShapeInv, PreIsFollowed, WorksOn, Queued, Captured
  <2> QED BY <1>0, <2>5, <2>6, <2>7 DEF ShapeInv
<1>7. CASE MarkRefused \/ ClearRefused
  <2>1. /\ UNCHANGED <<jobs, activeCaptures, expired, outcome>>
        /\ ex.pc \in {"failing", "clearing"}
        /\ ex' = ExIdle \/ (ex'.pc = "clearing" /\ ex'.dir = ex.dir)
    BY <1>7 DEF MarkRefused, ClearRefused, TypeOK, ExType
  <2>2. OnlyAccepted'
    BY <1>0, <2>1 DEF ShapeInv, OnlyAccepted, ExIdle
  <2> QED BY <1>a, <2>1, <2>2
<1>8. ASSUME NEW e \in Event, NEW n \in Batch, EnqueuePost(e, n) PROVE ShapeInv'
  <2>1. /\ e \in expired /\ expired' = expired \ {e}
        /\ UNCHANGED <<ex, activeCaptures, outcome>> /\ Enqueue(e, n, TRUE, TRUE)
    BY <1>8 DEF EnqueuePost
  <2>2. EnqueueAccepts(TRUE) /\ ex.pc = "idle"
    BY <2>1, HarvestAccepts
  <2>3. jobs' = Append(jobs, [dir |-> e, size |-> n, final |-> TRUE])
    BY <2>1, <2>2 DEF Enqueue
  <2>4. /\ \A i \in DOMAIN jobs : jobs[i].dir = e => ~jobs[i].final
        /\ WorksOn(e, WkBusy) => ~wk.job.final
    BY <1>0, <2>1 DEF ShapeInv, CaptureIsOpen, Queued, Job
  <2>5. OnlyAccepted'
    <3>1. [dir |-> e, size |-> n, final |-> TRUE] \in Job
      BY DEF Job
    <3>2. /\ DOMAIN jobs' = DOMAIN jobs \cup {Len(jobs) + 1}
          /\ \A i \in DOMAIN jobs : jobs'[i] = jobs[i]
          /\ jobs'[Len(jobs) + 1].dir = e
      BY <2>3, <3>1, JobAdded
    <3>3. outcome[e] = "accepted"
      BY <2>1, <2>2 DEF ShapeInv, OnlyAccepted
    <3> QED BY <1>0, <2>1, <3>2, <3>3 DEF ShapeInv, OnlyAccepted
  <2> QED BY <1>4, <2>1, <2>3, <2>4, <2>5 DEF Captured, ShapeInv, CaptureIsOpen
<1>9. ASSUME NEW S \in SUBSET Event, ExpireCaptures(S) PROVE ShapeInv'
  <2>1. /\ ex.pc = "idle" /\ expired = {} /\ S \subseteq activeCaptures
        /\ activeCaptures' = activeCaptures \ S /\ expired' = S
        /\ UNCHANGED <<ex, outcome, jobs>>
    BY <1>9 DEF ExpireCaptures
  <2>2. activeCaptures' \cup expired' = activeCaptures \cup expired
    BY <2>1
  <2>3. OnlyAccepted' /\ JobsInOrder' /\ PreIsFollowed'
    BY <1>0, <2>1, <2>2 DEF ShapeInv, OnlyAccepted, JobsInOrder, PreIsFollowed, WorksOn,
                            Queued, Captured
  <2>4. CaptureIsOpen'
    BY <1>0, <2>1, <2>2 DEF ShapeInv, CaptureIsOpen, WorksOn, Queued
  <2> QED BY <1>0, <2>3, <2>4 DEF ShapeInv
<1> QED BY <1>1, <1>2, <1>3, <1>5, <1>6, <1>7, <1>8, <1>9 DEF Trigger, Admit, Harvest

(* The end of the process and the next start.                              *)
LEMMA LifeShape ==
    ASSUME TypeOK, SlotInv, ShapeInv,
           \/ Shutdown \/ Exit \/ Crash \/ Restart \/ Start
           \/ \E e \in Event, left \in SUBSET Terminal : CrashInSweep(e, left)
    PROVE  ShapeInv'
<1> USE DEF lifeVars, execVars, queueVars, workVars, diskVars
<1>1. CASE Shutdown
  <2>1. /\ node' = "stopping" /\ activeCaptures' = {} /\ expired = {} /\ expired' = {}
        /\ UNCHANGED <<ex, outcome, jobs, wk>>
    BY <1>1 DEF Shutdown
  <2> QED BY <2>1 DEF ShapeInv, JobsInOrder, OnlyAccepted, CaptureIsOpen, PreIsFollowed,
                      WorkerDown, WorksOn
<1>2. ASSUME ForgetMemory, node' = "down" PROVE ShapeInv'
  <2>1. /\ ex'.pc = "idle" /\ expired' = {} /\ activeCaptures' = {}
        /\ jobs' = <<>> /\ wk'.pc = "idle"
    BY <1>2 DEF ForgetMemory, ExIdle, WkIdle
  <2> QED BY <1>2, <2>1 DEF ShapeInv, JobsInOrder, OnlyAccepted, CaptureIsOpen,
                            PreIsFollowed, WorkerDown, WorksOn, WkBusy
<1>3. CASE Restart \/ Start
  <2>1. /\ node \in {"down", "starting"} /\ node' # "down"
        /\ UNCHANGED <<ex, activeCaptures, expired, outcome, jobs, wk>>
    BY <1>3 DEF Restart, Start, ReconcileDir, StartSpinning
  <2>2. wk.pc = "idle" /\ jobs = <<>> /\ ex.pc = "idle"
    BY <2>1 DEF ShapeInv, WorkerDown, SlotInv, CallbacksOnlyWhenRunning
  <2> QED BY <2>1, <2>2 DEF ShapeInv, JobsInOrder, OnlyAccepted, CaptureIsOpen,
                            PreIsFollowed, WorkerDown, WorksOn, WkBusy, Queued
<1> QED BY <1>1, <1>2, <1>3 DEF Exit, Crash, CrashInSweep, Die

(* The jobs of an event run in order, belong to an accepted trigger, and a *)
(* pre batch is always followed by the batch that closes the event.        *)
THEOREM JobsWellFormed == Spec => []ShapeInv
<1>1. Init => ShapeInv
  BY DEF Init, ShapeInv, JobsInOrder, OnlyAccepted, CaptureIsOpen, PreIsFollowed,
         WorkerDown, WorksOn, WkBusy, Queued, ExIdle, WkIdle
<1>2. TypeOK /\ SlotInv /\ ShapeInv /\ [Next]_vars => ShapeInv'
  <2> SUFFICES ASSUME TypeOK, SlotInv, ShapeInv, [Next]_vars PROVE ShapeInv'
    OBVIOUS
  <2>1. CASE UNCHANGED vars
    BY <2>1, ShapeFrame DEF vars, lifeVars, execVars, queueVars, workVars, shapeVars
  <2> QED BY <2>1, WorkerShape, ExecutorShape, LifeShape DEF Next
<1> QED BY <1>1, <1>2, TypeCorrect, SlotsSafe, PTL DEF Spec

(***************************************************************************)
(* Proof of the second layer                                               *)
(***************************************************************************)

(* Once the worker decides on an event nobody else works for it.           *)
LEMMA DecidedIsAlone ==
    ASSUME TypeOK, SlotInv, ShapeInv, wk.pc \in {"seal", "mark", "clear", "retain"}
    PROVE  /\ wk.job.dir \in Event /\ ~Captured(wk.job.dir)
           /\ \A i \in DOMAIN jobs : jobs[i].dir # wk.job.dir
           /\ \A f : ~Queued(wk.job.dir, f)
<1>1. wk.job.final /\ wk.pc \in WkBusy /\ wk.job.dir \in Event
  BY DEF ShapeInv, JobsInOrder, WkBusy, TypeOK, WkType
<1>2. WorksOn(wk.job.dir, WkBusy)
  BY <1>1 DEF WorksOn
<1>3. ~Captured(wk.job.dir)
  BY <1>1, <1>2 DEF ShapeInv, CaptureIsOpen, Captured
<1>4. \A i \in DOMAIN jobs : jobs[i].dir # wk.job.dir
  BY <1>1, <1>2 DEF ShapeInv, JobsInOrder
<1> QED BY <1>1, <1>3, <1>4 DEF Queued

(* Every step of the worker keeps the marker invariant.                    *)
LEMMA WorkerMarkers ==
    ASSUME TypeOK, SlotInv, ShapeInv, MarkerInv, Worker PROVE MarkerInv'
<1> USE DEF lifeVars, execVars, queueVars, workVars, diskVars
<1>0. /\ UNCHANGED <<node, unreconciled, ex, activeCaptures, expired, outcome, captured>>
      /\ marker \in [Event -> SUBSET MarkerKinds] /\ removed \subseteq Event
      /\ rows \in [Event -> Nat] /\ durable \in [Event -> Nat]
      /\ wk.pc \in WkBusy => wk.job.dir \in Event /\ outcome[wk.job.dir] = "accepted"
      /\ wk.pc = "idle" => wk.job.dir \notin Event
      /\ WkIdle.job.dir \notin Event /\ WkIdle.pc = "idle" /\ node # "starting"
  BY NoneAssumption
     DEF SlotInv, CallbacksOnlyWhenRunning, WorkerDown, WkBusy, Worker, PopJob, PrepareJob, WriteRecord, LoseRecord, FinishJob, SealEvent,
         MarkEvent, ClearPending, RetireEvent, TypeOK, WkType, WkIdle, ShapeInv, OnlyAccepted
<1>a. ASSUME UNCHANGED <<marker, removed, rows, durable>>,
             \A e \in Event : Live(e)' => Live(e),
             wk'.pc = "clear" => UNCHANGED wk,
             \A e \in Event : outcome[e] = "new" => progress'[e] = progress[e],
             PendingHasOwner'
      PROVE  MarkerInv'
  <2>1. LiveIsPending'
    BY <1>a DEF MarkerInv, LiveIsPending
  <2>2. FreshIsEmpty'
    BY <1>0, <1>a DEF MarkerInv, FreshIsEmpty
  <2>3. ServedIsPending' /\ ClosedOnce' /\ StartSeesPending'
    BY <1>0, <1>a DEF MarkerInv, ServedIsPending, ClosedOnce, StartSeesPending
  <2> QED BY <1>a, <2>1, <2>2, <2>3 DEF MarkerInv
<1>1. CASE PopJob
  <2>1. /\ wk.pc = "idle" /\ jobs # <<>> /\ jobs' = Tail(jobs)
        /\ wk'.pc = "prepare" /\ wk'.job = Head(jobs)
        /\ UNCHANGED <<progress, marker, removed, rows, durable>>
    BY <1>1 DEF PopJob
  <2>2. 1 \in DOMAIN jobs /\ wk'.job = jobs[1]
    BY <2>1, JobTaken
  <2>3. \A e : (\E i \in DOMAIN jobs' : jobs'[i].dir = e) \/ wk'.job.dir = e
               <=> \E i \in DOMAIN jobs : jobs[i].dir = e
    <3>1. /\ \A i \in DOMAIN jobs' : i + 1 \in DOMAIN jobs /\ jobs'[i] = jobs[i + 1]
          /\ \A i \in DOMAIN jobs : i # 1 => i - 1 \in DOMAIN jobs' /\ jobs'[i - 1] = jobs[i]
      BY <2>1, JobTaken
    <3> QED BY <2>2, <3>1
  <2>4. \A e \in Event : Live(e)' => Live(e)
    BY <1>0, <2>3 DEF Live, WorksOn, Captured
  <2>5. PendingHasOwner'
    BY <1>0, <2>1, <2>3, ZenonT(40) DEF MarkerInv, PendingHasOwner, Outstanding
  <2> QED BY <1>a, <2>1, <2>4, <2>5
<1>2. ASSUME NEW S \in SUBSET Event, Sweep(S), UNCHANGED jobs,
             \A e \in Event : Live(e)' => Live(e),
             wk'.pc # "clear",
             \A e \in Event : outcome[e] = "new" => progress'[e] = progress[e],
             \A e \in Event : Outstanding(e) => Outstanding(e)'
      PROVE  MarkerInv'
  <2>1. PICK left \in SUBSET Terminal : Delete(S, left)
    BY <1>2 DEF Sweep
  <2>2. /\ removed' = removed \cup S
        /\ marker' = [e \in Event |-> IF e \in S THEN marker[e] \cap left ELSE marker[e]]
        /\ rows' = [e \in Event |-> IF e \in S THEN 0 ELSE rows[e]]
        /\ durable' = [e \in Event |-> IF e \in S THEN 0 ELSE durable[e]]
    BY <2>1 DEF Delete
  <2>3. \A e \in S : /\ "pending" \notin marker[e] /\ marker[e] # {}
                     /\ "pending" \notin marker'[e]
    BY <1>2, <2>2 DEF Sweep, Deletable, Terminal
  <2>4. \A e \in Event : "pending" \in marker[e] => marker'[e] = marker[e]
    BY <2>2, <2>3
  <2>5. \A e \in Event : marker'[e] \subseteq marker[e]
    BY <2>2
  <2>6. LiveIsPending'
    BY <1>0, <1>2, <2>4 DEF MarkerInv, LiveIsPending
  <2>7. ServedIsPending'
    <3>1. ex.pc \in {"begun", "failing", "clearing"} => ex.dir \in Event
      BY DEF TypeOK, ExType, ExBusy
    <3> QED BY <1>0, <2>4, <3>1 DEF MarkerInv, ServedIsPending
  <2>8. FreshIsEmpty'
    <3> SUFFICES ASSUME NEW e \in Event, outcome[e] = "new"
                 PROVE  /\ e \notin removed'
                        /\ captured'[e] = 0 /\ rows'[e] = 0 /\ durable'[e] = 0
                        /\ progress'[e] = NoProgress
                        /\ marker'[e] = {} \/ (ex'.pc = "begun" /\ ex'.dir = e)
      BY <1>0 DEF FreshIsEmpty
    <3>1. e \notin S
      BY <2>3 DEF MarkerInv, FreshIsEmpty, ServedIsPending
    <3> QED BY <1>0, <1>2, <2>2, <3>1 DEF MarkerInv, FreshIsEmpty
  <2>9. ClosedOnce'
    <3>1. \A e \in Event : ~(Terminal \subseteq marker'[e])
      BY <2>5 DEF MarkerInv, ClosedOnce
    <3>2. \A e \in removed' : "pending" \notin marker'[e] /\ rows'[e] = 0 /\ durable'[e] = 0
      BY <1>0, <2>2, <2>3 DEF MarkerInv, ClosedOnce
    <3> QED BY <3>1, <3>2 DEF ClosedOnce
  <2>10. StartSeesPending'
    BY <1>0 DEF StartSeesPending
  <2>11. PendingHasOwner'
    BY <1>0, <1>2, <2>5 DEF MarkerInv, PendingHasOwner
  <2> QED BY <2>6, <2>7, <2>8, <2>9, <2>10, <2>11 DEF MarkerInv
<1>3. ASSUME NEW S \in SUBSET Event, PrepareJob(S) PROVE MarkerInv'
  <2>1. /\ Sweep(S) /\ UNCHANGED <<jobs, progress>>
        /\ wk.pc = "prepare" /\ wk'.pc = "write" /\ wk'.job = wk.job
    BY <1>3 DEF PrepareJob, TypeOK, WkType
  <2>2. \A e \in Event : Live(e)' => Live(e)
    BY <1>0, <2>1 DEF Live, WorksOn, Captured, BeforeMark
  <2>3. \A e \in Event : Outstanding(e) => Outstanding(e)'
    BY <1>0, <2>1 DEF Outstanding
  <2> QED BY <1>2, <2>1, <2>2, <2>3
<1>4. ASSUME NEW S \in SUBSET Event, RetireEvent(S) PROVE MarkerInv'
  <2>1. /\ Sweep(S) /\ UNCHANGED jobs /\ wk.pc = "retain" /\ wk' = WkIdle
        /\ progress' = [progress EXCEPT ![wk.job.dir] = NoProgress]
    BY <1>4 DEF RetireEvent
  <2>2. \A e \in Event : Live(e)' => Live(e)
    BY <1>0, <2>1 DEF Live, WorksOn, Captured
  <2>3. \A e \in Event : Outstanding(e) => Outstanding(e)'
    BY <1>0, <2>1 DEF Outstanding
  <2>4. \A e \in Event : outcome[e] = "new" => progress'[e] = progress[e]
    BY <1>0, <2>1 DEF TypeOK, WkBusy
  <2>5. wk'.pc # "clear"
    BY <1>0, <2>1
  <2> QED BY <1>2, <2>1, <2>2, <2>3, <2>4, <2>5
<1>5. CASE WriteRecord
  <2>1. /\ UNCHANGED <<jobs, progress, marker, removed, durable>>
        /\ wk.pc = "write" /\ wk'.pc = "write" /\ wk'.job = wk.job
        /\ rows' = [rows EXCEPT ![wk.job.dir] = @ + 1]
    BY <1>5 DEF WriteRecord, TypeOK, WkType
  <2>2. Live(wk.job.dir) /\ wk.job.dir \in Event /\ outcome[wk.job.dir] = "accepted"
    BY <1>0, <2>1 DEF Live, WorksOn, BeforeMark, WkBusy
  <2>3. \A e \in Event : Live(e)' <=> Live(e)
    BY <1>0, <2>1 DEF Live, WorksOn, Captured
  <2>4. marker[wk.job.dir] = {"pending"}
    BY <2>2 DEF MarkerInv, LiveIsPending
  <2>5. LiveIsPending' /\ ServedIsPending' /\ StartSeesPending'
    BY <1>0, <2>1, <2>3 DEF MarkerInv, LiveIsPending, ServedIsPending, StartSeesPending
  <2>6. FreshIsEmpty'
    BY <1>0, <2>1, <2>2 DEF MarkerInv, FreshIsEmpty
  <2>7. ClosedOnce'
    BY <1>0, <2>1, <2>2, <2>4 DEF MarkerInv, ClosedOnce
  <2>8. PendingHasOwner'
    BY <1>0, <2>1 DEF MarkerInv, PendingHasOwner, Outstanding
  <2> QED BY <2>5, <2>6, <2>7, <2>8 DEF MarkerInv
<1>6. CASE LoseRecord \/ SealEvent
  <2>1. /\ UNCHANGED <<jobs, progress, marker, removed, rows, durable>>
        /\ wk.pc \in {"write", "seal"} /\ wk'.pc \in {"write", "mark"} /\ wk'.job = wk.job
    BY <1>6 DEF LoseRecord, SealEvent, TypeOK, WkType
  <2>2. \A e \in Event : Live(e)' => Live(e)
    BY <1>0, <2>1 DEF Live, WorksOn, Captured, BeforeMark
  <2>3. PendingHasOwner'
    BY <1>0, <2>1 DEF MarkerInv, PendingHasOwner, Outstanding
  <2> QED BY <1>a, <2>1, <2>2, <2>3
<1>7. CASE FinishJob
  <2>1. /\ UNCHANGED <<jobs, marker, removed, rows>> /\ wk.pc = "write"
        /\ \E x : progress' = [progress EXCEPT ![wk.job.dir] = x]
        /\ durable' \in {durable, [durable EXCEPT ![wk.job.dir] = rows[wk.job.dir]]}
        /\ IF wk.job.final THEN wk'.pc = "seal" /\ wk'.job = wk.job ELSE wk' = WkIdle
    BY <1>7 DEF FinishJob, TypeOK, WkType
  <2>2. Live(wk.job.dir) /\ wk.job.dir \in Event /\ outcome[wk.job.dir] = "accepted"
    BY <1>0, <2>1 DEF Live, WorksOn, BeforeMark, WkBusy
  <2>3. marker[wk.job.dir] = {"pending"}
    BY <2>2 DEF MarkerInv, LiveIsPending
  <2>4. \A e \in Event : Live(e)' => Live(e)
    BY <1>0, <2>1 DEF Live, WorksOn, Captured, BeforeMark
  <2>5. wk'.pc # "clear"
    BY <1>0, <2>1
  <2>6. LiveIsPending' /\ ServedIsPending' /\ StartSeesPending'
    BY <1>0, <2>1, <2>4, <2>5
       DEF MarkerInv, LiveIsPending, ServedIsPending, StartSeesPending
  <2>7. \A e \in Event : e # wk.job.dir => progress'[e] = progress[e] /\ durable'[e] = durable[e]
    BY <1>0, <2>1 DEF TypeOK
  <2>8. FreshIsEmpty'
    BY <1>0, <2>1, <2>2, <2>7 DEF MarkerInv, FreshIsEmpty
  <2>9. ClosedOnce'
    BY <1>0, <2>1, <2>3, <2>7 DEF MarkerInv, ClosedOnce
  <2>10. PendingHasOwner'
    <3> SUFFICES ASSUME NEW e \in Event \ Unmarkable, node = "running",
                        "pending" \in marker[e]
                 PROVE  Outstanding(e)'
      BY <1>0, <2>1 DEF PendingHasOwner
    <3>1. Outstanding(e)
      BY DEF MarkerInv, PendingHasOwner
    <3>2. CASE wk.job.dir = e /\ ~wk.job.final
      <4>1. Captured(e) \/ Queued(e, TRUE)
        BY <2>1, <3>2 DEF ShapeInv, PreIsFollowed, WorksOn, WkBusy
      <4> QED BY <1>0, <2>1, <4>1 DEF Captured, Queued, Outstanding
    <3>3. CASE wk.job.dir # e \/ wk.job.final
      BY <1>0, <2>1, <3>1, <3>3 DEF Outstanding
    <3> QED BY <3>2, <3>3
  <2> QED BY <2>6, <2>8, <2>9, <2>10 DEF MarkerInv
<1>8. CASE MarkEvent \/ ClearPending
  <2> DEFINE d == wk.job.dir
  <2>1. /\ UNCHANGED <<jobs, progress, removed, rows, durable>>
        /\ wk.pc \in {"mark", "clear"} /\ wk'.job = wk.job
        /\ wk'.pc \in {"mark", "clear", "retain"}
    BY <1>8 DEF MarkEvent, ClearPending, TypeOK, WkType
  <2>2. /\ d \in Event /\ outcome[d] = "accepted"
        /\ ~Captured(d) /\ \A i \in DOMAIN jobs : jobs[i].dir # d
    BY <1>0, <2>1, DecidedIsAlone DEF WkBusy
  <2>3. wk.pc = "mark" => marker[d] = {"pending"}
    BY <2>1, <2>2 DEF MarkerInv, LiveIsPending, Live, WorksOn, BeforeMark
  <2>4. wk.pc = "clear" => marker[d] = {"pending", IF wk.ok THEN "complete" ELSE "failed"}
    BY DEF MarkerInv, LiveIsPending
  <2>5. /\ \A e \in Event : e # d => marker'[e] = marker[e]
        /\ \/ /\ wk.pc = "mark" /\ wk'.pc = "clear" /\ wk'.ok = wk.ok
              /\ marker'[d] = {"pending", IF wk.ok THEN "complete" ELSE "failed"}
           \/ /\ wk.pc = "mark" /\ wk'.pc \in {"mark", "retain"} /\ d \in Unmarkable
              /\ UNCHANGED marker
           \/ /\ wk.pc = "clear" /\ wk'.pc = "retain"
              /\ marker'[d] = {IF wk.ok THEN "complete" ELSE "failed"}
    <3>1. CASE MarkEvent
      <4>1. wk.pc = "mark"
        BY <3>1 DEF MarkEvent
      <4>2. CASE wk' = [wk EXCEPT !.pc = "clear"]
                 /\ marker' = [marker EXCEPT ![d] =
                                   @ \cup {IF wk.ok THEN "complete" ELSE "failed"}]
        <5>1. wk'.pc = "clear" /\ wk'.ok = wk.ok
          BY <4>2 DEF TypeOK, WkType
        <5>2. marker'[d] = {"pending", IF wk.ok THEN "complete" ELSE "failed"}
          BY <1>0, <2>2, <2>3, <4>1, <4>2
        <5>3. \A e \in Event : e # d => marker'[e] = marker[e]
          BY <1>0, <4>2
        <5> QED BY <4>1, <5>1, <5>2, <5>3
      <4>3. CASE /\ d \in Unmarkable /\ UNCHANGED marker
                 /\ wk' = IF wk.ok THEN [wk EXCEPT !.ok = FALSE]
                                   ELSE [wk EXCEPT !.pc = "retain"]
        BY <4>1, <4>3 DEF TypeOK, WkType
      <4> QED BY <3>1, <4>2, <4>3 DEF MarkEvent
    <3>2. CASE ClearPending
      <4>1. /\ wk.pc = "clear" /\ wk'.pc = "retain"
            /\ marker' = [marker EXCEPT ![d] =
                              @ \ {"pending", IF wk.ok THEN "failed" ELSE "complete"}]
        BY <3>2 DEF ClearPending, TypeOK, WkType
      <4>2. marker'[d] = {IF wk.ok THEN "complete" ELSE "failed"}
        BY <1>0, <2>2, <2>4, <4>1
      <4>3. \A e \in Event : e # d => marker'[e] = marker[e]
        BY <1>0, <4>1
      <4> QED BY <4>1, <4>2, <4>3
    <3> QED BY <1>8, <3>1, <3>2
  <2>6. LiveIsPending'
    <3>1. wk'.pc = "clear" =>
            marker'[wk'.job.dir] = {"pending", IF wk'.ok THEN "complete" ELSE "failed"}
      BY <2>1, <2>5
    <3>2. ASSUME NEW e \in Event, Live(e)' PROVE marker'[e] = {"pending"}
      <4>1. Captured(e)' <=> Captured(e)
        BY <1>0 DEF Captured
      <4>2. CASE e = d
        <5>1. WorksOn(e, BeforeMark)'
          BY <2>1, <2>2, <3>2, <4>1, <4>2 DEF Live
        <5>2. wk.pc = "mark" /\ UNCHANGED marker
          BY <2>5, <5>1 DEF WorksOn, BeforeMark
        <5> QED BY <2>3, <4>2, <5>2
      <4>3. CASE e # d
        BY <2>1, <2>5, <3>2, <4>1, <4>3 DEF MarkerInv, LiveIsPending, Live, WorksOn
      <4> QED BY <4>2, <4>3
    <3> QED BY <3>1, <3>2 DEF LiveIsPending
  <2>7. ServedIsPending'
    <3>1. ex.pc \in {"begun", "failing", "clearing"} => ex.dir \in Event /\ ex.dir # d
      BY <2>2 DEF TypeOK, ExType, ExBusy, SlotInv, CapturesAnswered, ShapeInv, OnlyAccepted
    <3> QED BY <1>0, <2>5, <3>1 DEF MarkerInv, ServedIsPending
  <2>8. FreshIsEmpty'
    BY <1>0, <2>1, <2>2, <2>5 DEF MarkerInv, FreshIsEmpty
  <2>9. ClosedOnce'
    <3>1. ~(Terminal \subseteq marker'[d])
      BY <2>3, <2>5 DEF Terminal
    <3>2. d \notin removed
      BY <2>1, <2>3, <2>4 DEF MarkerInv, ClosedOnce
    <3> QED BY <1>0, <2>1, <2>5, <3>1, <3>2 DEF MarkerInv, ClosedOnce
  <2>10. StartSeesPending'
    BY <1>0, <2>1 DEF ShapeInv, WorkerDown, StartSeesPending
  <2>11. PendingHasOwner'
    <3> SUFFICES ASSUME NEW e \in Event \ Unmarkable, node = "running",
                        "pending" \in marker'[e]
                 PROVE  Outstanding(e)'
      BY <1>0 DEF PendingHasOwner
    <3>1. CASE e = d
      BY <2>1, <2>5, <3>1 DEF Outstanding
    <3>2. CASE e # d
      <4>1. Outstanding(e)
        BY <2>5, <3>2 DEF MarkerInv, PendingHasOwner
      <4> QED BY <1>0, <2>1, <3>2, <4>1 DEF Outstanding
    <3> QED BY <3>1, <3>2
  <2> QED BY <2>6, <2>7, <2>8, <2>9, <2>10, <2>11 DEF MarkerInv
<1> QED BY <1>1, <1>3, <1>4, <1>5, <1>6, <1>7, <1>8 DEF Worker

(* Every step of the executor keeps the marker invariant.                  *)
LEMMA ExecutorMarkers ==
    ASSUME TypeOK, SlotInv, ShapeInv, MarkerInv,
           Trigger \/ Admit \/ Harvest \/ \E S \in SUBSET Event : ExpireCaptures(S)
    PROVE  MarkerInv'
<1> USE DEF lifeVars, execVars, queueVars, workVars, diskVars
<1>0. /\ UNCHANGED <<node, unreconciled, wk, progress, removed, rows, durable>>
      /\ node = "running"
      /\ marker \in [Event -> SUBSET MarkerKinds] /\ removed \subseteq Event
      /\ outcome \in [Event -> {"new", "accepted", "rejected", "lost"}]
      /\ captured \in [Event -> Nat]
      /\ ex.pc \in ExBusy => ex.dir \in Event
      /\ ExIdle.pc = "idle" /\ (ex.pc = "idle" => ex.dir \notin Event)
  <2>1. /\ UNCHANGED <<node, unreconciled, wk, progress, removed, rows, durable>>
        /\ expired # {} \/ ex.pc # "idle" \/ node = "running"
    BY DEF Trigger, RejectUnsynced, ReserveSlot, Admit, RefuseCapture, BeginCapture,
           EnqueueFirst, RefuseFirst, MarkRefused, ClearRefused, Harvest, EnqueuePost,
           ExpireCaptures
  <2> QED BY <2>1, NoneAssumption
          DEF SlotInv, CallbacksOnlyWhenRunning, TypeOK, ExType, ExIdle
<1>a. ASSUME NEW d \in Event, outcome[d] = "new"
      PROVE  /\ \A i \in DOMAIN jobs : jobs[i].dir # d
             /\ ~WorksOn(d, WkBusy) /\ (Captured(d) => ex.pc = "begun" /\ ex.dir = d)
             /\ (ex.pc = "begun" /\ ex.dir = d) \/ ~Live(d)
  BY <1>a DEF ShapeInv, OnlyAccepted, WorksOn, WkBusy, Captured, Live, BeforeMark
(* The parts of the invariant that depend on what the worker does.         *)
<1>b. ASSUME UNCHANGED marker,
             \A e \in Event : Live(e)' => Live(e) \/ marker[e] = {"pending"}
      PROVE  LiveIsPending' /\ ClosedOnce' /\ StartSeesPending'
  BY <1>0, <1>b DEF MarkerInv, LiveIsPending, ClosedOnce, StartSeesPending
<1>1. ASSUME NEW e \in Event,
             RejectUnsynced(e) \/ \E post \in BOOLEAN : ReserveSlot(e, post)
      PROVE  MarkerInv'
  <2>1. /\ ex.pc = "idle" /\ outcome[e] = "new"
        /\ UNCHANGED <<jobs, activeCaptures, expired, captured, marker>>
        /\ outcome' \in {outcome, [outcome EXCEPT ![e] = "rejected"]}
        /\ UNCHANGED ex \/ (ex'.pc = "reserved" /\ ex'.dir = e)
    BY <1>1 DEF RejectUnsynced, ReserveSlot
  <2>2. LiveIsPending' /\ ClosedOnce' /\ StartSeesPending'
    BY <1>0, <1>b, <2>1 DEF Live, WorksOn, Captured
  <2>3. ServedIsPending'
    BY <2>1 DEF MarkerInv, ServedIsPending
  <2>4. \A d \in Event : outcome'[d] = "new" => outcome[d] = "new"
    BY <1>0, <2>1
  <2>5. FreshIsEmpty'
    BY <1>0, <2>1, <2>4 DEF MarkerInv, FreshIsEmpty
  <2>6. PendingHasOwner'
    BY <1>0, <2>1 DEF MarkerInv, PendingHasOwner, Outstanding
  <2> QED BY <2>2, <2>3, <2>5, <2>6 DEF MarkerInv
<1>2. CASE RefuseCapture
  <2>1. /\ ex.pc = "reserved" /\ ex' = ExIdle
        /\ outcome' = [outcome EXCEPT ![ex.dir] = "rejected"]
        /\ UNCHANGED <<jobs, activeCaptures, expired, captured, marker>>
    BY <1>2 DEF RefuseCapture
  <2>2. ex.dir \in Event /\ outcome[ex.dir] = "new" /\ marker[ex.dir] = {}
    BY <1>0, <2>1 DEF SlotInv, CapturesAnswered, ExBusy, MarkerInv, FreshIsEmpty
  <2>3. LiveIsPending' /\ ClosedOnce' /\ StartSeesPending'
    BY <1>0, <1>b, <2>1 DEF Live, WorksOn, Captured
  <2>4. ServedIsPending'
    BY <1>0, <2>1 DEF ServedIsPending
  <2>5. FreshIsEmpty'
    BY <1>0, <2>1, <2>2 DEF MarkerInv, FreshIsEmpty
  <2>6. PendingHasOwner'
    BY <1>0, <2>1, <2>2 DEF MarkerInv, PendingHasOwner, Outstanding
  <2> QED BY <2>3, <2>4, <2>5, <2>6 DEF MarkerInv
<1>3. CASE BeginCapture
  <2> DEFINE d == ex.dir
  <2>1. /\ ex.pc = "reserved" /\ ex' = [ex EXCEPT !.pc = "begun"]
        /\ marker' = [marker EXCEPT ![d] = @ \cup {"pending"}]
        /\ activeCaptures' \subseteq activeCaptures \cup {d}
        /\ activeCaptures \subseteq activeCaptures'
        /\ UNCHANGED <<expired, outcome, captured, jobs>>
    BY <1>3 DEF BeginCapture
  <2>2. d \in Event /\ outcome[d] = "new" /\ marker[d] = {} /\ d \notin removed
    BY <1>0, <2>1 DEF SlotInv, CapturesAnswered, ExBusy, MarkerInv, FreshIsEmpty
  <2>3. ex'.pc = "begun" /\ ex'.dir = d
    BY <2>1 DEF TypeOK, ExType
  <2>4. marker'[d] = {"pending"} /\ \A e \in Event : e # d => marker'[e] = marker[e]
    BY <1>0, <2>1, <2>2
  <2>5. LiveIsPending'
    <3>1. wk.pc = "clear" => wk.job.dir \in Event /\ wk.job.dir # d
      BY <1>a, <2>2 DEF TypeOK, WkType, WkBusy, WorksOn
    <3>2. \A e \in Event : e # d /\ Live(e)' => Live(e)
      BY <1>0, <2>1 DEF Live, WorksOn, Captured
    <3> QED BY <1>0, <2>4, <3>1, <3>2 DEF MarkerInv, LiveIsPending
  <2>6. ServedIsPending'
    BY <2>3, <2>4 DEF ServedIsPending
  <2>7. FreshIsEmpty'
    BY <1>0, <2>1, <2>2, <2>3, <2>4 DEF MarkerInv, FreshIsEmpty
  <2>8. ClosedOnce'
    <3>1. ~(Terminal \subseteq marker'[d])
      BY <2>4 DEF Terminal
    <3> QED BY <1>0, <2>2, <2>4, <3>1 DEF MarkerInv, ClosedOnce
  <2>9. StartSeesPending'
    BY <1>0 DEF StartSeesPending
  <2>10. PendingHasOwner'
    BY <1>0, <2>1, <2>3, <2>4 DEF MarkerInv, PendingHasOwner, Outstanding
  <2> QED BY <2>5, <2>6, <2>7, <2>8, <2>9, <2>10 DEF MarkerInv
<1>4. ASSUME NEW n \in Batch, EnqueueFirst(n) PROVE MarkerInv'
  <2> DEFINE d == ex.dir
  <2>1. /\ ex.pc = "begun" /\ ex' = ExIdle
        /\ jobs' = Append(jobs, [dir |-> d, size |-> n, final |-> ~ex.post])
        /\ outcome' = [outcome EXCEPT ![d] = "accepted"]
        /\ captured' = [captured EXCEPT ![d] = @ + n]
        /\ UNCHANGED <<activeCaptures, expired, marker>>
    BY <1>4 DEF EnqueueFirst, Enqueue
  <2>2. d \in Event /\ marker[d] = {"pending"} /\ ex.post \in BOOLEAN
    BY <1>0, <2>1 DEF ExBusy, MarkerInv, ServedIsPending, TypeOK, ExType
  <2>3. /\ DOMAIN jobs' = DOMAIN jobs \cup {Len(jobs) + 1}
        /\ \A i \in DOMAIN jobs : jobs'[i] = jobs[i]
        /\ jobs'[Len(jobs) + 1].dir = d
    <3>1. [dir |-> d, size |-> n, final |-> ~ex.post] \in Job
      BY <2>2 DEF Job
    <3> QED BY <2>1, <3>1, JobAdded
  <2>4. LiveIsPending' /\ ClosedOnce' /\ StartSeesPending'
    <3>1. \A e \in Event : Live(e)' => Live(e) \/ e = d
      BY <1>0, <2>1, <2>3 DEF Live, WorksOn, Captured
    <3> QED BY <1>b, <2>1, <2>2, <3>1
  <2>5. ServedIsPending'
    BY <1>0, <2>1 DEF ServedIsPending
  <2>6. FreshIsEmpty'
    BY <1>0, <2>1, <2>2 DEF MarkerInv, FreshIsEmpty
  <2>7. PendingHasOwner'
    <3>1. \A e \in Event : Outstanding(e) => Outstanding(e)'
      BY <1>0, <2>1, <2>3 DEF Outstanding
    <3> QED BY <1>0, <2>1, <3>1 DEF MarkerInv, PendingHasOwner
  <2> QED BY <2>4, <2>5, <2>6, <2>7 DEF MarkerInv
<1>5. CASE RefuseFirst
  <2> DEFINE d == ex.dir
  <2>1. /\ ex.pc = "begun" /\ ex' = [ex EXCEPT !.pc = "failing"]
        /\ activeCaptures' = activeCaptures \ {d}
        /\ outcome' = [outcome EXCEPT ![d] = "rejected"]
        /\ UNCHANGED <<expired, captured, jobs, marker>>
    BY <1>5 DEF RefuseFirst
  <2>2. d \in Event /\ marker[d] = {"pending"}
    BY <1>0, <2>1 DEF ExBusy, MarkerInv, ServedIsPending
  <2>3. ex'.pc = "failing" /\ ex'.dir = d
    BY <2>1 DEF TypeOK, ExType
  <2>4. LiveIsPending' /\ ClosedOnce' /\ StartSeesPending'
    BY <1>0, <1>b, <2>1 DEF Live, WorksOn, Captured
  <2>5. ServedIsPending'
    BY <2>1, <2>2, <2>3 DEF ServedIsPending
  <2>6. FreshIsEmpty'
    BY <1>0, <2>1, <2>2 DEF MarkerInv, FreshIsEmpty
  <2>7. PendingHasOwner'
    BY <1>0, <2>1, <2>3 DEF MarkerInv, PendingHasOwner, Outstanding
  <2> QED BY <2>4, <2>5, <2>6, <2>7 DEF MarkerInv
<1>6. CASE MarkRefused \/ ClearRefused
  <2> DEFINE d == ex.dir
  <2>1. /\ UNCHANGED <<jobs, activeCaptures, expired, outcome, captured>>
        /\ ex.pc \in {"failing", "clearing"}
    BY <1>6 DEF MarkRefused, ClearRefused
  <2>2. d \in Event /\ outcome[d] = "rejected"
    BY <1>0, <2>1 DEF ExBusy, ShapeInv, OnlyAccepted
  <2>3. ~Live(d) /\ ~WorksOn(d, WkBusy)
    BY <2>1, <2>2 DEF ShapeInv, OnlyAccepted, Live, WorksOn, Captured, WkBusy, BeforeMark
  <2>4. /\ \A e \in Event : e # d => marker'[e] = marker[e]
        /\ \/ /\ marker'[d] = {"pending", "failed"}
              /\ ex'.pc = "clearing" /\ ex'.dir = d
           \/ d \in Unmarkable /\ UNCHANGED marker /\ ex' = ExIdle
           \/ marker'[d] = {"failed"} /\ ex' = ExIdle
    <3>1. CASE ex.pc = "failing" /\ ex' = [ex EXCEPT !.pc = "clearing"]
               /\ marker' = [marker EXCEPT ![d] = @ \cup {"failed"}]
      <4>1. marker[d] = {"pending"}
        BY <3>1 DEF MarkerInv, ServedIsPending
      <4>2. marker'[d] = {"pending", "failed"} /\ \A e \in Event : e # d => marker'[e] = marker[e]
        BY <1>0, <2>2, <3>1, <4>1
      <4>3. ex'.pc = "clearing" /\ ex'.dir = d
        BY <3>1 DEF TypeOK, ExType
      <4> QED BY <4>2, <4>3
    <3>2. CASE ClearRefused
      <4>1. /\ marker' = [marker EXCEPT ![d] = @ \ {"pending", "complete"}]
            /\ ex.pc = "clearing" /\ ex' = ExIdle
        BY <3>2 DEF ClearRefused
      <4>2. marker[d] = {"pending", "failed"}
        BY <4>1 DEF MarkerInv, ServedIsPending
      <4>3. marker'[d] = {"failed"} /\ \A e \in Event : e # d => marker'[e] = marker[e]
        BY <1>0, <2>2, <4>1, <4>2
      <4> QED BY <4>1, <4>3
    <3> QED BY <1>6, <3>1, <3>2 DEF MarkRefused
  <2>5. LiveIsPending'
    <3>1. \A e \in Event : Live(e)' <=> Live(e)
      BY <1>0, <2>1 DEF Live, WorksOn, Captured
    <3>2. wk.pc = "clear" => wk.job.dir \in Event /\ wk.job.dir # d
      BY <2>3 DEF TypeOK, WkType, WkBusy, WorksOn
    <3> QED BY <1>0, <2>3, <2>4, <3>1, <3>2 DEF MarkerInv, LiveIsPending
  <2>6. ServedIsPending'
    BY <1>0, <2>4 DEF ServedIsPending
  <2>7. FreshIsEmpty'
    BY <1>0, <2>1, <2>2, <2>4 DEF MarkerInv, FreshIsEmpty
  <2>8. ClosedOnce'
    <3>1. marker[d] \in {{"pending"}, {"pending", "failed"}}
      BY <2>1 DEF MarkerInv, ServedIsPending
    <3>2. ~(Terminal \subseteq marker'[d]) /\ d \notin removed
      BY <2>4, <3>1 DEF Terminal, MarkerInv, ClosedOnce
    <3> QED BY <1>0, <2>4, <3>2 DEF MarkerInv, ClosedOnce
  <2>9. StartSeesPending'
    BY <1>0 DEF StartSeesPending
  <2>10. PendingHasOwner'
    <3>1. \A e \in Event : e # d /\ Outstanding(e) => Outstanding(e)'
      BY <1>0, <2>1 DEF Outstanding
    <3>2. d \notin Unmarkable /\ "pending" \in marker'[d] => Outstanding(d)'
      BY <2>4 DEF Outstanding
    <3> QED BY <1>0, <2>4, <3>1, <3>2 DEF MarkerInv, PendingHasOwner
  <2> QED BY <2>5, <2>6, <2>7, <2>8, <2>9, <2>10 DEF MarkerInv
<1>7. ASSUME NEW e \in Event, NEW n \in Batch, EnqueuePost(e, n) PROVE MarkerInv'
  <2>1. /\ e \in expired /\ expired' = expired \ {e}
        /\ UNCHANGED <<ex, activeCaptures, outcome>> /\ Enqueue(e, n, TRUE, TRUE)
    BY <1>7 DEF EnqueuePost
  <2>2. EnqueueAccepts(TRUE) /\ ex.pc = "idle"
    BY <2>1, HarvestAccepts
  <2>3. /\ captured' = [captured EXCEPT ![e] = @ + n] /\ UNCHANGED marker
        /\ jobs' = Append(jobs, [dir |-> e, size |-> n, final |-> TRUE])
    BY <1>7, <2>1, <2>2 DEF EnqueuePost, Enqueue
  <2>4. /\ DOMAIN jobs' = DOMAIN jobs \cup {Len(jobs) + 1}
        /\ \A i \in DOMAIN jobs : jobs'[i] = jobs[i]
        /\ jobs'[Len(jobs) + 1].dir = e
    <3>1. [dir |-> e, size |-> n, final |-> TRUE] \in Job
      BY DEF Job
    <3> QED BY <2>3, <3>1, JobAdded
  <2>5. outcome[e] = "accepted"
    BY <2>1, <2>2 DEF ShapeInv, OnlyAccepted
  <2>6. LiveIsPending' /\ ClosedOnce' /\ StartSeesPending'
    <3>1. \A d \in Event : Live(d)' => Live(d)
      BY <1>0, <2>1, <2>4 DEF Live, WorksOn, Captured
    <3> QED BY <1>b, <2>3, <3>1
  <2>7. ServedIsPending'
    BY <2>1, <2>3 DEF MarkerInv, ServedIsPending
  <2>8. FreshIsEmpty'
    BY <1>0, <2>1, <2>3, <2>5 DEF MarkerInv, FreshIsEmpty
  <2>9. PendingHasOwner'
    <3>1. \A d \in Event : Outstanding(d) => Outstanding(d)'
      BY <1>0, <2>1, <2>4 DEF Outstanding
    <3> QED BY <1>0, <2>3, <3>1 DEF MarkerInv, PendingHasOwner
  <2> QED BY <2>6, <2>7, <2>8, <2>9 DEF MarkerInv
<1>8. ASSUME NEW S \in SUBSET Event, ExpireCaptures(S) PROVE MarkerInv'
  <2>1. /\ expired = {} /\ S \subseteq activeCaptures
        /\ activeCaptures' = activeCaptures \ S /\ expired' = S
        /\ UNCHANGED <<ex, outcome, captured, jobs, marker>>
    BY <1>8 DEF ExpireCaptures
  <2>2. activeCaptures' \cup expired' = activeCaptures \cup expired
    BY <2>1
  <2>3. LiveIsPending' /\ ClosedOnce' /\ StartSeesPending'
    BY <1>0, <1>b, <2>1, <2>2 DEF Live, WorksOn, Captured
  <2>4. ServedIsPending' /\ FreshIsEmpty'
    BY <1>0, <2>1 DEF MarkerInv, ServedIsPending, FreshIsEmpty
  <2>5. PendingHasOwner'
    BY <1>0, <2>1, <2>2 DEF MarkerInv, PendingHasOwner, Outstanding
  <2> QED BY <2>3, <2>4, <2>5 DEF MarkerInv
<1> QED BY <1>1, <1>2, <1>3, <1>4, <1>5, <1>6, <1>7, <1>8 DEF Trigger, Admit, Harvest

(* The end of the process and the next start keep the marker invariant.    *)
LEMMA LifeMarkers ==
    ASSUME TypeOK, SlotInv, ShapeInv, MarkerInv,
           \/ Shutdown \/ Exit \/ Crash \/ Restart \/ Start
           \/ \E e \in Event, left \in SUBSET Terminal : CrashInSweep(e, left)
    PROVE  MarkerInv'
<1> USE DEF lifeVars, execVars, queueVars, workVars, diskVars
<1>0. /\ marker \in [Event -> SUBSET MarkerKinds] /\ removed \subseteq Event
      /\ outcome \in [Event -> {"new", "accepted", "rejected", "lost"}]
      /\ rows \in [Event -> Nat] /\ durable \in [Event -> Nat]
      /\ ex.pc \in ExBusy => ex.dir \in Event
  BY DEF TypeOK, ExType
<1>1. CASE Shutdown
  <2>1. /\ node' = "stopping" /\ activeCaptures' = {} /\ expired = {}
        /\ UNCHANGED <<ex, expired, outcome, captured, jobs, wk, progress>>
        /\ UNCHANGED <<marker, removed, rows, durable>>
    BY <1>1 DEF Shutdown
  <2>2. LiveIsPending'
    BY <2>1 DEF MarkerInv, LiveIsPending, Live, WorksOn, Captured
  <2> QED BY <2>1, <2>2 DEF MarkerInv, ServedIsPending, FreshIsEmpty, ClosedOnce,
                            StartSeesPending, PendingHasOwner
(* Without memory nothing is live: what is left is on disk.                *)
<1>2. ASSUME ForgetMemory, node' = "down", UNCHANGED captured, ClosedOnce',
             \A e \in Event : outcome'[e] = "new" =>
                 /\ outcome[e] = "new" /\ ~(ex.pc = "begun" /\ ex.dir = e)
                 /\ e \notin removed' /\ rows'[e] = 0 /\ durable'[e] = 0
                 /\ marker'[e] = marker[e]
      PROVE  MarkerInv'
  <2>1. /\ ex'.pc = "idle" /\ expired' = {} /\ activeCaptures' = {} /\ jobs' = <<>>
        /\ wk'.pc = "idle" /\ progress' = [e \in Event |-> NoProgress]
    BY <1>2 DEF ForgetMemory, ExIdle, WkIdle
  <2>2. LiveIsPending' /\ ServedIsPending' /\ StartSeesPending' /\ PendingHasOwner'
    BY <1>2, <2>1 DEF LiveIsPending, ServedIsPending, StartSeesPending, PendingHasOwner,
                      Live, WorksOn, Captured, BeforeMark
  <2>3. FreshIsEmpty'
    BY <1>2, <2>1 DEF MarkerInv, FreshIsEmpty
  <2> QED BY <1>2, <2>2, <2>3 DEF MarkerInv
<1>3. CASE Exit
  <2>1. /\ node = "stopping" /\ node' = "down" /\ ForgetMemory
        /\ UNCHANGED <<outcome, captured, marker, removed, rows, durable>>
    BY <1>3 DEF Exit
  <2>2. ex.pc = "idle"
    BY <2>1 DEF SlotInv, CallbacksOnlyWhenRunning
  <2>3. ClosedOnce'
    BY <2>1 DEF MarkerInv, ClosedOnce
  <2> QED BY <1>2, <2>1, <2>2, <2>3 DEF MarkerInv, FreshIsEmpty
<1>4. ASSUME Die
      PROVE  /\ node' = "down" /\ ForgetMemory /\ UNCHANGED captured
             /\ \A e \in Event : outcome'[e] = "new" =>
                    outcome[e] = "new" /\ ~(ex.pc = "begun" /\ ex.dir = e)
  BY <1>0, <1>4 DEF Die, ExBusy
<1>5. CASE Crash
  <2>1. Die /\ rows' \in {rows, durable} /\ UNCHANGED <<marker, removed, durable>>
    BY <1>5 DEF Crash
  <2>2. ClosedOnce'
    BY <2>1 DEF MarkerInv, ClosedOnce
  <2> QED BY <1>2, <1>4, <2>1, <2>2 DEF MarkerInv, FreshIsEmpty
<1>6. ASSUME NEW e \in Event, NEW left \in SUBSET Terminal, CrashInSweep(e, left)
      PROVE  MarkerInv'
  <2>1. Die /\ e \in Deletable
    BY <1>6 DEF CrashInSweep
  <2>2. /\ removed' = removed \cup {e}
        /\ marker' = [d \in Event |-> IF d \in {e} THEN marker[d] \cap left ELSE marker[d]]
        /\ rows' = [d \in Event |-> IF d \in {e} THEN 0 ELSE rows[d]]
        /\ durable' = [d \in Event |-> IF d \in {e} THEN 0 ELSE durable[d]]
    BY <1>6 DEF CrashInSweep, Delete
  <2>3. "pending" \notin marker[e] /\ marker[e] # {} /\ "pending" \notin marker'[e]
    BY <2>1, <2>2 DEF Deletable
  <2>4. ClosedOnce'
    <3>1. \A d \in Event : marker'[d] \subseteq marker[d]
      BY <2>2
    <3>2. \A d \in Event : ~(Terminal \subseteq marker'[d])
      BY <3>1 DEF MarkerInv, ClosedOnce
    <3> QED BY <1>0, <2>2, <2>3, <3>2 DEF MarkerInv, ClosedOnce
  <2>5. outcome[e] # "new"
    BY <2>3 DEF MarkerInv, FreshIsEmpty, ServedIsPending
  <2>6. \A d \in Event : outcome'[d] = "new" =>
                 /\ outcome[d] = "new" /\ ~(ex.pc = "begun" /\ ex.dir = d) /\ d # e
    BY <1>4, <2>1, <2>5
  <2> QED BY <1>2, <1>4, <2>1, <2>2, <2>4, <2>6 DEF MarkerInv, FreshIsEmpty
(* While the node is down or starting there is no memory either.           *)
<1>7. ASSUME node \in {"down", "starting"},
             UNCHANGED <<ex, activeCaptures, expired, outcome, captured, jobs, wk, progress>>,
             UNCHANGED <<removed, rows, durable>>
      PROVE  /\ ServedIsPending' /\ LiveIsPending'
             /\ (\A e \in Event : outcome[e] = "new" => marker'[e] = marker[e]) => FreshIsEmpty'
  <2>1. wk.pc = "idle" /\ jobs = <<>> /\ ex.pc = "idle" /\ activeCaptures = {} /\ expired = {}
    BY <1>7 DEF ShapeInv, WorkerDown, SlotInv, CallbacksOnlyWhenRunning
  <2> QED BY <1>7, <2>1 DEF MarkerInv, FreshIsEmpty, ServedIsPending, LiveIsPending, Live,
                            WorksOn, Captured, BeforeMark
<1>8. CASE Restart \/ StartSpinning
  <2>1. /\ node \in {"down", "starting"}
        /\ UNCHANGED <<ex, activeCaptures, expired, outcome, captured, jobs, wk, progress>>
        /\ UNCHANGED <<marker, removed, rows, durable>>
    BY <1>8 DEF Restart, StartSpinning
  <2>2. ServedIsPending' /\ LiveIsPending' /\ FreshIsEmpty'
    BY <1>7, <2>1
  <2>3. ClosedOnce'
    BY <2>1 DEF MarkerInv, ClosedOnce
  <2>4. StartSeesPending' /\ PendingHasOwner'
    <3>1. CASE Restart
      BY <3>1 DEF Restart, StartSeesPending, PendingHasOwner
    <3>2. CASE StartSpinning
      BY <3>2 DEF StartSpinning, MarkerInv, StartSeesPending, PendingHasOwner
    <3> QED BY <1>8, <3>1, <3>2
  <2> QED BY <2>2, <2>3, <2>4 DEF MarkerInv
<1>9. ASSUME NEW e \in Event, ReconcileDir(e) PROVE MarkerInv'
  <2>1. /\ node = "starting" /\ node' = "starting" /\ unreconciled' = unreconciled \ {e}
        /\ UNCHANGED <<ex, activeCaptures, expired, outcome, captured, jobs, wk, progress>>
        /\ UNCHANGED <<removed, rows, durable>>
    BY <1>9 DEF ReconcileDir
  <2>2. CASE UNCHANGED marker /\ e \in Unmarkable
    <3>1. ServedIsPending' /\ LiveIsPending' /\ FreshIsEmpty'
      BY <1>7, <2>1, <2>2
    <3>2. ClosedOnce' /\ StartSeesPending' /\ PendingHasOwner'
      BY <2>1, <2>2 DEF MarkerInv, ClosedOnce, StartSeesPending, PendingHasOwner
    <3> QED BY <3>1, <3>2 DEF MarkerInv
  <2>3. CASE marker' = [marker EXCEPT ![e] =
             IF @ \cap Terminal # {} THEN @ \ {"pending"} ELSE {"failed"}]
    <3>1. /\ \A d \in Event : d # e => marker'[d] = marker[d]
          /\ marker'[e] = IF marker[e] \cap Terminal # {} THEN marker[e] \ {"pending"}
                                                          ELSE {"failed"}
      BY <1>0, <2>3
    <3>2. "pending" \notin marker'[e]
      BY <3>1
    <3>3. ~(Terminal \subseteq marker'[e])
      BY <3>1 DEF Terminal, MarkerInv, ClosedOnce
    <3>4. ClosedOnce'
      BY <1>0, <2>1, <3>1, <3>2, <3>3 DEF MarkerInv, ClosedOnce
    <3>5. StartSeesPending' /\ PendingHasOwner'
      BY <2>1, <3>1, <3>2 DEF MarkerInv, StartSeesPending, PendingHasOwner, TypeOK
    <3>6. outcome[e] # "new"
      BY <1>9, <2>1 DEF ReconcileDir, MarkerInv, StartSeesPending, FreshIsEmpty, SlotInv,
                        CallbacksOnlyWhenRunning
    <3>7. ServedIsPending' /\ LiveIsPending' /\ FreshIsEmpty'
      BY <1>7, <2>1, <3>1, <3>6
    <3> QED BY <3>4, <3>5, <3>7 DEF MarkerInv
  <2> QED BY <1>9, <2>2, <2>3 DEF ReconcileDir
<1> QED BY <1>1, <1>3, <1>5, <1>6, <1>8, <1>9 DEF Start

(***************************************************************************)
(* Proof of the third layer                                                *)
(***************************************************************************)

(* A step that hands over nothing for e and finishes no job of it leaves   *)
(* its ledger as it was.                                                   *)
LEMMA LedgerFrame ==
    ASSUME RecordInv, NEW e \in Event, Live(e)' => Live(e),
           captured'[e] = captured[e], progress'[e] = progress[e],
           Captured(e)' => Captured(e),
           \A i \in DOMAIN jobs' : jobs'[i].dir = e =>
               \E k \in DOMAIN jobs : jobs[k] = jobs'[i],
           \/ ~WorksOn(e, BeforeMark)'
           \/ WorksOn(e, BeforeMark) /\ wk'.job = wk.job
           \/ \E k \in DOMAIN jobs : jobs[k] = wk'.job,
           PreLeft(e)' <=> PreLeft(e), Live(e)' => (Merged(e)' <=> Merged(e))
    PROVE  Live(e)' => \E a, b \in Nat : Ledger(e, a, b)'
<1> SUFFICES ASSUME Live(e)' PROVE \E a, b \in Nat : Ledger(e, a, b)'
  OBVIOUS
<1>1. PICK a \in Nat, b \in Nat : Ledger(e, a, b)
  BY DEF RecordInv, RecordsCounted
<1>2. WorksOn(e, BeforeMark)' => wk'.job.size = IF wk'.job.final THEN b ELSE a
  BY <1>1 DEF Ledger, WorksOn
<1>3. Ledger(e, a, b)'
  BY <1>1, <1>2 DEF Ledger
<1> QED BY <1>3

(* Every step of the worker keeps the records accounted for.               *)
LEMMA WorkerRecords ==
    ASSUME TypeOK, SlotInv, ShapeInv, MarkerInv, RecordInv, Worker PROVE RecordInv'
<1> USE DEF lifeVars, execVars, queueVars, workVars, diskVars
<1> DEFINE d == wk.job.dir
<1>0. /\ UNCHANGED <<activeCaptures, expired, outcome, captured>>
      /\ wk.pc \in WkBusy => d \in Event /\ outcome[d] = "accepted"
      /\ rows \in [Event -> Nat] /\ durable \in [Event -> Nat] /\ captured \in [Event -> Nat]
      /\ progress \in [Event -> [failed : BOOLEAN, persisted : Nat]]
      /\ marker \in [Event -> SUBSET MarkerKinds]
      /\ wk.left \in Nat /\ wk.kept \in Nat /\ wk.job.size \in Nat
      /\ wk.ok \in BOOLEAN /\ wk.job.final \in BOOLEAN
      /\ WkIdle.pc = "idle" /\ WkIdle.job.dir \notin Event
  BY NoneAssumption, LimitsAssumption
     DEF Worker, PopJob, PrepareJob, WriteRecord, LoseRecord, FinishJob, SealEvent,
         MarkEvent, ClearPending, RetireEvent, TypeOK, WkType, WkIdle, ShapeInv,
         OnlyAccepted, Batch
<1>a. \A e : Captured(e)' <=> Captured(e)
  BY <1>0 DEF Captured
<1>b. wk.pc \in BeforeMark => Live(d) /\ d \in Event /\ marker[d] = {"pending"}
  BY <1>0 DEF Live, WorksOn, BeforeMark, WkBusy, MarkerInv, LiveIsPending
<1>c. ASSUME UNCHANGED jobs
      PROVE  \A e, f : (Queued(e, f)' <=> Queued(e, f))
  BY <1>c DEF Queued
<1>1. CASE PopJob
  <2>1. /\ wk.pc = "idle" /\ jobs # <<>> /\ jobs' = Tail(jobs)
        /\ wk'.pc = "prepare" /\ wk'.job = Head(jobs) /\ wk'.left = Head(jobs).size
        /\ wk'.ok = TRUE /\ wk'.kept = 0
        /\ UNCHANGED <<progress, marker, removed, rows, durable>>
    BY <1>1 DEF PopJob
  <2>2. 1 \in DOMAIN jobs /\ wk'.job = jobs[1] /\ jobs[1] \in Job
    BY <2>1, JobTaken
  <2>3. /\ \A i \in DOMAIN jobs' : i + 1 \in DOMAIN jobs /\ jobs'[i] = jobs[i + 1]
        /\ \A i \in DOMAIN jobs : i # 1 => i - 1 \in DOMAIN jobs' /\ jobs'[i - 1] = jobs[i]
    BY <2>1, JobTaken
  <2>4. \A e : Live(e)' => Live(e)
    BY <1>a, <2>1, <2>2, <2>3 DEF Live, WorksOn
  <2>5. ASSUME NEW e \in Event PROVE Live(e)' => \E a, b \in Nat : Ledger(e, a, b)'
    <3>1. /\ ~WorksOn(e, {"prepare", "write"}) /\ ~Merged(e) /\ ~Merged(e)'
          /\ WorksOn(e, {"prepare", "write"})' <=> jobs[1].dir = e
      BY <2>1, <2>2 DEF WorksOn, Merged
    <3>2. Queued(e, FALSE) <=> Queued(e, FALSE)' \/ (jobs[1].dir = e /\ ~jobs[1].final)
      <4>1. jobs[1].final = FALSE <=> ~jobs[1].final
        BY <2>2 DEF Job
      <4> QED BY <2>2, <2>3, <4>1 DEF Queued
    <3>3. PreLeft(e)' <=> PreLeft(e)
      BY <2>2, <3>1, <3>2 DEF PreLeft
    <3>4. \A i \in DOMAIN jobs' : \E k \in DOMAIN jobs : jobs[k] = jobs'[i]
      BY <2>3
    <3>5. \E k \in DOMAIN jobs : jobs[k] = wk'.job
      BY <2>2
    <3>6. captured'[e] = captured[e] /\ progress'[e] = progress[e]
      BY <1>0, <2>1
    <3> QED BY <1>a, <2>4, <3>1, <3>3, <3>4, <3>5, <3>6, LedgerFrame
  <2>6. RecordsCounted'
    BY <2>5 DEF RecordsCounted
  <2>7. RowsMatch'
    BY <1>0, <2>1, <2>4 DEF RecordInv, RowsMatch, Writing, WorksOn
  <2>8. WorkerKnows'
    BY <2>1, <2>2 DEF WorkerKnows, Job, Batch
  <2>9. CompleteIsWhole'
    BY <1>0, <2>1 DEF RecordInv, CompleteIsWhole
  <2> QED BY <2>6, <2>7, <2>8, <2>9 DEF RecordInv
(* Steps that go on with the job and count nothing.                        *)
<1>2. ASSUME UNCHANGED <<jobs, progress>>, wk'.job = wk.job,
             \/ wk.pc \in {"prepare", "write"} /\ wk'.pc \in {"prepare", "write"}
             \/ wk.pc \in {"seal", "mark"} /\ wk'.pc \in {"seal", "mark"}
             \/ wk.pc \in {"mark", "clear"} /\ wk'.pc \in {"clear", "retain"}
      PROVE  (\A e \in Event : Live(e)' => Live(e)) /\ RecordsCounted'
  <2>1. \A e \in Event : Live(e)' => Live(e)
    BY <1>2, <1>a DEF Live, WorksOn, BeforeMark
  <2>2. ASSUME NEW e \in Event PROVE Live(e)' => \E a, b \in Nat : Ledger(e, a, b)'
    <3>1. PreLeft(e)' <=> PreLeft(e)
      BY <1>2, <1>c DEF PreLeft, WorksOn
    <3>2. Live(e)' => (Merged(e)' <=> Merged(e))
      <4>1. CASE wk.pc \in {"mark", "clear"} /\ wk'.pc \in {"clear", "retain"}
        <5>1. ~Captured(d) /\ \A i \in DOMAIN jobs : jobs[i].dir # d
          BY <4>1, DecidedIsAlone
        <5>2. Live(e)' => e # d
          BY <1>2, <1>a, <4>1, <5>1 DEF Live, WorksOn, BeforeMark
        <5> QED BY <1>2, <5>2 DEF Merged, WorksOn
      <4>2. CASE ~(wk.pc \in {"mark", "clear"} /\ wk'.pc \in {"clear", "retain"})
        BY <1>2, <4>2 DEF Merged, WorksOn
      <4> QED BY <4>1, <4>2
    <3>3. WorksOn(e, BeforeMark)' => WorksOn(e, BeforeMark)
      BY <1>2 DEF WorksOn, BeforeMark
    <3> QED BY <1>0, <1>2, <1>a, <2>1, <3>1, <3>2, <3>3, LedgerFrame
  <2> QED BY <2>1, <2>2 DEF RecordsCounted
<1>3. ASSUME NEW S \in SUBSET Event, Sweep(S)
      PROVE  /\ CompleteIsWhole'
             /\ \A e \in Event : Live(e) => rows'[e] = rows[e] /\ durable'[e] = durable[e]
  <2>1. PICK left \in SUBSET Terminal : Delete(S, left)
    BY <1>3 DEF Sweep
  <2>2. /\ removed' = removed \cup S
        /\ marker' = [e \in Event |-> IF e \in S THEN marker[e] \cap left ELSE marker[e]]
        /\ rows' = [e \in Event |-> IF e \in S THEN 0 ELSE rows[e]]
        /\ durable' = [e \in Event |-> IF e \in S THEN 0 ELSE durable[e]]
    BY <2>1 DEF Delete
  <2>3. CompleteIsWhole'
    BY <1>0, <2>2 DEF RecordInv, CompleteIsWhole
  <2>4. \A e \in Event : Live(e) => e \notin S
    BY <1>3 DEF Sweep, Deletable, MarkerInv, LiveIsPending
  <2> QED BY <2>2, <2>3, <2>4
<1>4. ASSUME NEW S \in SUBSET Event, PrepareJob(S) PROVE RecordInv'
  <2>1. /\ wk.pc = "prepare" /\ Sweep(S) /\ UNCHANGED <<jobs, progress>>
        /\ wk'.pc = "write" /\ wk'.job = wk.job /\ wk'.kept = wk.kept
        /\ (wk'.ok = wk.ok /\ wk'.left = wk.left) \/ wk'.ok = FALSE
    BY <1>4 DEF PrepareJob, TypeOK, WkType
  <2>2. (\A e \in Event : Live(e)' => Live(e)) /\ RecordsCounted'
    BY <1>2, <2>1
  <2>3. RowsMatch'
    BY <1>3, <2>1, <2>2 DEF RecordInv, RowsMatch, Writing, WorksOn
  <2>4. WorkerKnows'
    BY <2>1 DEF RecordInv, WorkerKnows
  <2> QED BY <1>3, <2>1, <2>2, <2>3, <2>4 DEF RecordInv
<1>5. CASE WriteRecord
  <2>1. /\ wk.pc = "write" /\ wk.left > 0 /\ rows' = [rows EXCEPT ![d] = @ + 1]
        /\ wk'.pc = "write" /\ wk'.job = wk.job /\ wk'.ok = wk.ok
        /\ wk'.left = wk.left - 1 /\ wk'.kept = wk.kept + 1
        /\ UNCHANGED <<jobs, progress, marker, removed, durable>>
    BY <1>5 DEF WriteRecord, TypeOK, WkType
  <2>2. (\A e \in Event : Live(e)' => Live(e)) /\ RecordsCounted'
    BY <1>2, <2>1
  <2>3. d \in Event /\ marker[d] = {"pending"}
    BY <1>b, <2>1 DEF BeforeMark
  <2>4. RowsMatch'
    <3> SUFFICES ASSUME NEW e \in Event, Live(e)', ~progress[e].failed, Writing(e) => wk.ok
                 PROVE  rows'[e] = progress[e].persisted + (IF Writing(e)' THEN wk'.kept ELSE 0)
      BY <2>1 DEF RowsMatch, Writing, WorksOn
    <3>1. rows[e] = progress[e].persisted + (IF Writing(e) THEN wk.kept ELSE 0)
      BY <2>2 DEF RecordInv, RowsMatch
    <3>2. Writing(e) <=> e = d
      BY <2>1 DEF Writing, WorksOn
    <3>3. Writing(e)' <=> e = d
      BY <2>1 DEF Writing, WorksOn
    <3> QED BY <1>0, <2>1, <2>3, <3>1, <3>2, <3>3
  <2>5. WorkerKnows'
    <3>1. wk.ok => wk.left + wk.kept = wk.job.size
      BY <2>1 DEF RecordInv, WorkerKnows
    <3>2. wk.left \in Nat /\ wk.kept \in Nat
      BY <1>0 DEF TypeOK, WkType
    <3>3. wk'.left + wk'.kept = wk.left + wk.kept
      BY <2>1, <3>2
    <3>4. wk'.ok => wk'.left + wk'.kept = wk'.job.size
      BY <2>1, <3>1, <3>3
    <3> QED BY <2>1, <3>4 DEF WorkerKnows
  <2>6. CompleteIsWhole'
    BY <1>0, <2>1, <2>3 DEF RecordInv, CompleteIsWhole
  <2> QED BY <2>2, <2>4, <2>5, <2>6 DEF RecordInv
<1>6. CASE LoseRecord
  <2>1. /\ wk.pc = "write" /\ wk'.pc = "write" /\ wk'.job = wk.job /\ wk'.ok = FALSE
        /\ UNCHANGED <<jobs, progress, marker, removed, rows, durable>>
    BY <1>6 DEF LoseRecord, TypeOK, WkType
  <2>2. (\A e \in Event : Live(e)' => Live(e)) /\ RecordsCounted'
    BY <1>2, <2>1
  <2>3. RowsMatch'
    BY <2>1, <2>2 DEF RecordInv, RowsMatch, Writing, WorksOn
  <2>4. WorkerKnows' /\ CompleteIsWhole'
    BY <1>0, <2>1 DEF RecordInv, WorkerKnows, CompleteIsWhole
  <2> QED BY <2>2, <2>3, <2>4 DEF RecordInv
<1>7. CASE FinishJob
  <2>1. PICK ok \in BOOLEAN :
          /\ ok => wk.ok
          /\ progress' = [progress EXCEPT ![d] =
                 [failed |-> @.failed \/ ~ok, persisted |-> @.persisted + wk.kept]]
          /\ durable' = IF wk.job.final /\ ok THEN [durable EXCEPT ![d] = rows[d]] ELSE durable
          /\ wk' = IF wk.job.final THEN [wk EXCEPT !.pc = "seal", !.ok = ok] ELSE WkIdle
    BY <1>0, <1>7 DEF FinishJob
  <2>2. wk.pc = "write" /\ wk.left = 0 /\ UNCHANGED <<jobs, marker, removed, rows>>
    BY <1>7 DEF FinishJob
  <2>3. Live(d) /\ d \in Event /\ marker[d] = {"pending"}
    BY <1>b, <2>2 DEF BeforeMark
  <2>4. IF wk.job.final THEN wk'.pc = "seal" /\ wk'.job = wk.job
                        ELSE wk'.pc = "idle" /\ wk'.job.dir \notin Event
    BY <1>0, <2>1 DEF TypeOK, WkType
  <2>5. /\ \A e \in Event : e # d => progress'[e] = progress[e] /\ durable'[e] = durable[e]
        /\ progress'[d].failed = (progress[d].failed \/ ~ok)
        /\ progress'[d].persisted = progress[d].persisted + wk.kept
    BY <1>0, <2>1, <2>3
  <2>6. \A e \in Event : Live(e)' => Live(e)
    BY <1>a, <2>2, <2>4 DEF Live, WorksOn, BeforeMark
  (* If nothing failed, the whole job was written.                         *)
  <2>7. ~progress'[d].failed =>
          wk.ok /\ ok /\ ~progress[d].failed /\ wk.kept = wk.job.size
    <3>1. wk.ok => wk.left + wk.kept = wk.job.size
      BY <2>2 DEF RecordInv, WorkerKnows
    <3>2. wk.ok => wk.kept = wk.job.size
      BY <1>0, <2>2, <3>1
    <3> QED BY <2>1, <2>5, <3>2
  <2>8. ASSUME NEW e \in Event PROVE Live(e)' => \E a, b \in Nat : Ledger(e, a, b)'
    <3>1. CASE e # d
      <4>1. /\ ~WorksOn(e, BeforeMark) /\ ~WorksOn(e, BeforeMark)' /\ PreLeft(e)' <=> PreLeft(e)
            /\ ~Merged(e) /\ ~Merged(e)'
        BY <1>c, <2>2, <2>4, <3>1 DEF WorksOn, PreLeft, Merged, BeforeMark
      <4>2. progress'[e] = progress[e] /\ captured'[e] = captured[e]
        BY <1>0, <2>5, <3>1
      <4> QED BY <1>c, <1>a, <2>2, <2>4, <2>6, <3>1, <4>1, <4>2, LedgerFrame
              DEF PreLeft, WorksOn, Merged
    <3>2. CASE e = d
      <4>1. PICK a \in Nat, b \in Nat : Ledger(e, a, b)
        BY <2>3, <3>2 DEF RecordInv, RecordsCounted
      <4>2. WorksOn(e, WkBusy) /\ WorksOn(e, {"prepare", "write"}) /\ WorksOn(e, BeforeMark)
        BY <2>2, <3>2 DEF WorksOn, WkBusy, BeforeMark
      <4>3. ~Queued(e, FALSE) /\ ~Merged(e)
        BY <2>2, <4>2 DEF ShapeInv, JobsInOrder, Queued, Merged, WorksOn
      <4>4. ~PreLeft(e)' /\ (Merged(e)' <=> wk.job.final)
        BY <1>c, <2>2, <2>4, <3>2, <4>3 DEF PreLeft, Merged, WorksOn
      <4>5. PreLeft(e) <=> ~wk.job.final
        BY <4>2, <4>3 DEF PreLeft
      <4>6. wk.job.size = IF wk.job.final THEN b ELSE a
        BY <4>1, <4>2 DEF Ledger
      <4>7. ~progress'[e].failed =>
              progress'[e].persisted = (IF PreLeft(e)' THEN 0 ELSE a)
                                         + (IF Merged(e)' THEN b ELSE 0)
        <5> SUFFICES ASSUME ~progress'[e].failed
                     PROVE  progress'[e].persisted = a + (IF wk.job.final THEN b ELSE 0)
          BY <4>4
        <5>1. progress[e].persisted = (IF ~wk.job.final THEN 0 ELSE a) + 0
          BY <2>7, <3>2, <4>1, <4>3, <4>5 DEF Ledger
        <5>2. wk.kept = wk.job.size /\ progress'[e].persisted = progress[e].persisted + wk.kept
          BY <2>5, <2>7, <3>2
        <5> QED BY <4>6, <5>1, <5>2
      <4>8. WorksOn(e, BeforeMark)' => wk'.job.size = IF wk'.job.final THEN b ELSE a
        BY <2>4, <4>6 DEF WorksOn, BeforeMark
      <4>9. Ledger(e, a, b)'
        <5>1. UNCHANGED <<captured, jobs>>
          BY <1>0, <2>2
        <5> QED BY <1>a, <4>1, <4>7, <4>8, <5>1 DEF Ledger
      <4> QED BY <4>9
    <3> QED BY <3>1, <3>2
  <2>9. RowsMatch'
    <3> SUFFICES ASSUME NEW e \in Event, Live(e), ~progress'[e].failed
                 PROVE  rows[e] = progress'[e].persisted + 0
      BY <2>2, <2>4, <2>6 DEF RowsMatch, Writing, WorksOn
    <3>1. CASE e = d
      BY <1>0, <2>2, <2>3, <2>5, <2>7, <3>1 DEF RecordInv, RowsMatch, Writing, WorksOn
    <3>2. CASE e # d
      BY <1>0, <2>5, <3>2 DEF RecordInv, RowsMatch, Writing, WorksOn
    <3> QED BY <3>1, <3>2
  <2>10. WorkerKnows'
    <3>1. wk.job.final /\ ok => durable'[d] = rows[d]
      BY <1>0, <2>1, <2>3
    <3> QED BY <2>2, <2>4, <2>7, <3>1 DEF WorkerKnows
  <2>11. CompleteIsWhole'
    BY <1>0, <2>2, <2>3, <2>5 DEF RecordInv, CompleteIsWhole
  <2> QED BY <2>8, <2>9, <2>10, <2>11 DEF RecordInv, RecordsCounted
<1>8. CASE SealEvent
  <2>1. /\ wk.pc = "seal" /\ wk'.pc = "mark" /\ wk'.job = wk.job
        /\ wk'.ok => ~progress[d].failed /\ progress[d].persisted > 0
        /\ UNCHANGED <<jobs, progress, marker, removed, rows, durable>>
    BY <1>8 DEF SealEvent, TypeOK, WkType
  <2>2. (\A e \in Event : Live(e)' => Live(e)) /\ RecordsCounted'
    BY <1>2, <2>1
  <2>3. RowsMatch'
    BY <2>1, <2>2 DEF RecordInv, RowsMatch, Writing, WorksOn
  <2>4. WorkerKnows' /\ CompleteIsWhole'
    BY <1>0, <2>1 DEF RecordInv, WorkerKnows, CompleteIsWhole
  <2> QED BY <2>2, <2>3, <2>4 DEF RecordInv
<1>9. CASE MarkEvent
  <2>1. /\ wk.pc = "mark" /\ wk'.job = wk.job
        /\ wk'.pc \in {"mark", "clear", "retain"} /\ (wk'.pc = "mark" => wk'.ok = FALSE)
        /\ UNCHANGED <<jobs, progress, removed, rows, durable>>
        /\ \/ UNCHANGED marker
           \/ marker' = [marker EXCEPT ![d] = @ \cup {IF wk.ok THEN "complete" ELSE "failed"}]
    BY <1>9 DEF MarkEvent, TypeOK, WkType
  <2>2. (\A e \in Event : Live(e)' => Live(e)) /\ RecordsCounted'
    BY <1>2, <2>1
  <2>3. RowsMatch'
    BY <2>1, <2>2 DEF RecordInv, RowsMatch, Writing, WorksOn
  <2>4. WorkerKnows'
    BY <2>1 DEF RecordInv, WorkerKnows
  <2>5. Live(d) /\ d \in Event /\ marker[d] = {"pending"} /\ outcome[d] = "accepted"
    BY <1>0, <1>b, <2>1 DEF BeforeMark, WkBusy
  <2>6. wk.ok => captured[d] > 0 /\ rows[d] = captured[d] /\ durable[d] = captured[d]
    <3> SUFFICES ASSUME wk.ok
                 PROVE  captured[d] > 0 /\ rows[d] = captured[d] /\ durable[d] = captured[d]
      OBVIOUS
    <3>1. ~progress[d].failed /\ progress[d].persisted > 0 /\ durable[d] = rows[d]
      BY <2>1 DEF RecordInv, WorkerKnows
    <3>2. rows[d] = progress[d].persisted
      BY <1>0, <2>1, <2>5, <3>1 DEF RecordInv, RowsMatch, Writing, WorksOn
    <3>3. PICK a \in Nat, b \in Nat : Ledger(d, a, b)
      BY <2>5 DEF RecordInv, RecordsCounted
    <3>4. ~PreLeft(d) /\ Merged(d)
      BY <2>1, DecidedIsAlone DEF PreLeft, Merged, WorksOn
    <3>5. progress[d].persisted = captured[d]
      BY <3>1, <3>3, <3>4 DEF Ledger
    <3> QED BY <3>1, <3>2, <3>5
  <2>7. CompleteIsWhole'
    <3>1. ASSUME NEW e \in Event, "complete" \in marker'[e] PROVE
            (e = d /\ wk.ok) \/ "complete" \in marker[e]
      BY <1>0, <2>1, <2>5, <3>1
    <3> QED BY <1>0, <2>1, <2>5, <2>6, <3>1 DEF RecordInv, CompleteIsWhole
  <2> QED BY <2>2, <2>3, <2>4, <2>7 DEF RecordInv
<1>10. CASE ClearPending
  <2>1. /\ wk.pc = "clear" /\ wk'.job = wk.job /\ wk'.pc = "retain"
        /\ UNCHANGED <<jobs, progress, removed, rows, durable>>
        /\ marker' = [marker EXCEPT ![d] =
                          @ \ {"pending", IF wk.ok THEN "failed" ELSE "complete"}]
    BY <1>10 DEF ClearPending, TypeOK, WkType
  <2>2. (\A e \in Event : Live(e)' => Live(e)) /\ RecordsCounted'
    BY <1>2, <2>1
  <2>3. RowsMatch'
    BY <2>1, <2>2 DEF RecordInv, RowsMatch, Writing, WorksOn
  <2>4. \A e \in Event : "complete" \in marker'[e] => "complete" \in marker[e]
    BY <1>0, <2>1
  <2>5. WorkerKnows' /\ CompleteIsWhole'
    BY <1>0, <2>1, <2>4 DEF RecordInv, WorkerKnows, CompleteIsWhole
  <2> QED BY <2>2, <2>3, <2>5 DEF RecordInv
<1>11. ASSUME NEW S \in SUBSET Event, RetireEvent(S) PROVE RecordInv'
  <2>1. /\ wk.pc = "retain" /\ Sweep(S) /\ UNCHANGED jobs
        /\ wk'.pc = "idle" /\ wk'.job.dir \notin Event
        /\ progress' = [progress EXCEPT ![d] = NoProgress]
    BY <1>0, <1>11 DEF RetireEvent
  <2>2. ~Live(d) /\ d \in Event
    BY <2>1, DecidedIsAlone DEF Live, WorksOn, BeforeMark
  <2>3. \A e \in Event : Live(e)' => Live(e)
    BY <1>a, <2>1 DEF Live, WorksOn, BeforeMark
  <2>4. \A e \in Event : Live(e)' => progress'[e] = progress[e]
    BY <1>0, <2>1, <2>2, <2>3
  <2>5. ASSUME NEW e \in Event PROVE Live(e)' => \E a, b \in Nat : Ledger(e, a, b)'
    <3>1. (PreLeft(e)' <=> PreLeft(e)) /\ ~Merged(e)' /\ ~Merged(e) /\ ~WorksOn(e, BeforeMark)'
      BY <1>c, <2>1 DEF PreLeft, Merged, WorksOn, BeforeMark
    <3>2. CASE Live(e)'
      BY <1>0, <1>a, <2>1, <2>3, <2>4, <3>1, <3>2, LedgerFrame
    <3> QED BY <3>2
  <2>6. RowsMatch'
    BY <1>3, <2>1, <2>3, <2>4 DEF RecordInv, RowsMatch, Writing, WorksOn
  <2>7. WorkerKnows'
    BY <2>1 DEF WorkerKnows
  <2> QED BY <1>3, <2>1, <2>5, <2>6, <2>7 DEF RecordInv, RecordsCounted
<1> QED BY <1>1, <1>4, <1>5, <1>6, <1>7, <1>8, <1>9, <1>10, <1>11 DEF Worker

(* Every step of the executor keeps the records accounted for.             *)
LEMMA ExecutorRecords ==
    ASSUME TypeOK, SlotInv, ShapeInv, MarkerInv, RecordInv,
           Trigger \/ Admit \/ Harvest \/ \E S \in SUBSET Event : ExpireCaptures(S)
    PROVE  RecordInv'
<1> USE DEF lifeVars, execVars, queueVars, workVars, diskVars
<1>0. /\ UNCHANGED <<wk, progress, removed, rows, durable>>
      /\ marker \in [Event -> SUBSET MarkerKinds]
      /\ outcome \in [Event -> {"new", "accepted", "rejected", "lost"}]
      /\ captured \in [Event -> Nat]
      /\ ex.pc \in ExBusy => ex.dir \in Event
      /\ WorkerKnows'
  <2>1. UNCHANGED <<wk, progress, rows, removed, durable>>
    BY DEF Trigger, RejectUnsynced, ReserveSlot, Admit, RefuseCapture, BeginCapture,
           EnqueueFirst, RefuseFirst, MarkRefused, ClearRefused, Harvest, EnqueuePost,
           ExpireCaptures
  <2> QED BY <2>1 DEF TypeOK, ExType, RecordInv, WorkerKnows
<1>a. /\ \A e, P : WorksOn(e, P)' <=> WorksOn(e, P)
      /\ \A e : (Merged(e)' <=> Merged(e)) /\ (Writing(e)' <=> Writing(e))
  BY <1>0 DEF WorksOn, Merged, Writing
(* The ledger of an event for which nothing is handed over.                *)
<1>b. ASSUME NEW e \in Event, captured'[e] = captured[e], Captured(e)' => Captured(e),
             \A i \in DOMAIN jobs' : jobs'[i].dir = e => i \in DOMAIN jobs /\ jobs[i] = jobs'[i],
             \A i \in DOMAIN jobs : i \in DOMAIN jobs' /\ jobs[i] = jobs'[i]
      PROVE  (Live(e)' => Live(e)) /\ (Live(e)' => \E a, b \in Nat : Ledger(e, a, b)')
  <2>1. PreLeft(e)' <=> PreLeft(e)
    BY <1>a, <1>b, <1>0 DEF PreLeft, Queued
  <2>2. Live(e)' => Live(e)
    BY <1>a, <1>b DEF Live
  <2>3. progress'[e] = progress[e] /\ wk'.job = wk.job
    BY <1>0
  <2> QED BY <1>a, <1>b, <2>1, <2>2, <2>3, LedgerFrame
<1>c. ASSUME \A e \in Event : Live(e)' => Live(e) \/ (rows[e] = 0 /\ progress[e] = NoProgress
                                                      /\ ~Writing(e))
      PROVE  RowsMatch'
  BY <1>0, <1>a, <1>c DEF RecordInv, RowsMatch, NoProgress
<1>d. ASSUME NEW e \in Event, outcome[e] = "new"
      PROVE  /\ \A i \in DOMAIN jobs : jobs[i].dir # e
             /\ ~WorksOn(e, BeforeMark) /\ ~WorksOn(e, {"prepare", "write"})
             /\ ~Writing(e) /\ ~Merged(e)
             /\ captured[e] = 0 /\ rows[e] = 0 /\ progress[e] = NoProgress
  BY <1>d DEF ShapeInv, OnlyAccepted, WorksOn, WkBusy, BeforeMark, Merged, Writing, MarkerInv,
              FreshIsEmpty
<1>e. ASSUME \A e \in Event : "complete" \in marker'[e] =>
                 /\ "complete" \in marker[e] /\ captured'[e] = captured[e]
                 /\ outcome[e] = "accepted" => outcome'[e] = "accepted"
      PROVE  CompleteIsWhole'
  BY <1>0, <1>e DEF RecordInv, CompleteIsWhole, MarkerInv, ClosedOnce
(* Steps that only answer a trigger or move a capture.                     *)
<1>1. ASSUME UNCHANGED <<captured, jobs, marker>>, \A e : Captured(e)' => Captured(e),
             \A e \in Event : outcome[e] = "accepted" => outcome'[e] = "accepted"
      PROVE  RecordInv'
  <2>1. RecordsCounted' /\ \A e \in Event : Live(e)' => Live(e)
    BY <1>b, <1>1 DEF RecordsCounted
  <2>2. RowsMatch' /\ CompleteIsWhole'
    BY <1>c, <1>e, <1>1, <2>1
  <2> QED BY <1>0, <2>1, <2>2 DEF RecordInv
<1>2. ASSUME NEW e \in Event,
             RejectUnsynced(e) \/ \E post \in BOOLEAN : ReserveSlot(e, post)
      PROVE  RecordInv'
  <2>1. /\ UNCHANGED <<captured, jobs, marker, activeCaptures, expired>> /\ outcome[e] = "new"
        /\ outcome' \in {outcome, [outcome EXCEPT ![e] = "rejected"]}
    BY <1>2 DEF RejectUnsynced, ReserveSlot
  <2> QED BY <1>0, <1>1, <2>1 DEF Captured
<1>3. CASE RefuseCapture \/ RefuseFirst
  <2>1. /\ UNCHANGED <<captured, jobs, marker, expired>> /\ activeCaptures' \subseteq activeCaptures
        /\ ex.pc \in {"reserved", "begun"}
        /\ outcome' = [outcome EXCEPT ![ex.dir] = "rejected"]
    BY <1>3 DEF RefuseCapture, RefuseFirst
  <2>2. outcome[ex.dir] = "new"
    BY <2>1 DEF SlotInv, CapturesAnswered
  <2> QED BY <1>0, <1>1, <2>1, <2>2 DEF Captured
<1>4. ASSUME NEW S \in SUBSET Event, ExpireCaptures(S) PROVE RecordInv'
  <2>1. /\ UNCHANGED <<captured, jobs, marker, outcome>>
        /\ activeCaptures' \cup expired' \subseteq activeCaptures \cup expired
    BY <1>4 DEF ExpireCaptures
  <2> QED BY <1>1, <2>1 DEF Captured
<1>5. CASE BeginCapture
  <2> DEFINE d == ex.dir
  <2>1. /\ ex.pc = "reserved" /\ UNCHANGED <<captured, jobs, outcome, expired>>
        /\ marker' = [marker EXCEPT ![d] = @ \cup {"pending"}]
        /\ activeCaptures' \subseteq activeCaptures \cup {d}
    BY <1>5 DEF BeginCapture
  <2>2. d \in Event /\ outcome[d] = "new"
    BY <1>0, <2>1 DEF ExBusy, SlotInv, CapturesAnswered
  <2>3. PICK e \in Event : e = d
    BY <2>2
  <2>4. Ledger(e, 0, 0)'
    <3>1. ~PreLeft(e)' /\ ~Merged(e)' /\ ~WorksOn(e, BeforeMark)'
      BY <1>a, <1>d, <2>1, <2>2, <2>3 DEF PreLeft, Queued
    <3>2. captured'[e] = 0 /\ progress'[e] = NoProgress /\ \A i \in DOMAIN jobs' : jobs'[i].dir # e
      BY <1>0, <1>d, <2>1, <2>2, <2>3
    <3> QED BY <3>1, <3>2 DEF Ledger, NoProgress
  <2>5. ASSUME NEW c \in Event, c # e
        PROVE  (Live(c)' => Live(c)) /\ (Live(c)' => \E a, b \in Nat : Ledger(c, a, b)')
    <3>1. Captured(c)' => Captured(c)
      BY <2>1, <2>3, <2>5 DEF Captured
    <3> QED BY <1>b, <2>1, <3>1
  <2>6. RecordsCounted'
    BY <2>4, <2>5 DEF RecordsCounted
  <2>7. RowsMatch'
    BY <1>c, <1>d, <2>2, <2>3, <2>5
  <2>8. CompleteIsWhole'
    BY <1>0, <1>e, <2>1
  <2> QED BY <1>0, <2>6, <2>7, <2>8 DEF RecordInv
<1>6. ASSUME NEW n \in Batch, EnqueueFirst(n) PROVE RecordInv'
  <2> DEFINE d == ex.dir
  <2>1. /\ ex.pc = "begun" /\ outcome' = [outcome EXCEPT ![d] = "accepted"]
        /\ jobs' = Append(jobs, [dir |-> d, size |-> n, final |-> ~ex.post])
        /\ captured' = [captured EXCEPT ![d] = @ + n]
        /\ UNCHANGED <<activeCaptures, expired, marker>>
    BY <1>6 DEF EnqueueFirst, Enqueue
  <2>2. /\ d \in Event /\ outcome[d] = "new" /\ marker[d] = {"pending"}
        /\ ex.post \in BOOLEAN /\ n \in Nat /\ expired = {}
    BY <1>0, <2>1, LimitsAssumption
       DEF ExBusy, SlotInv, CapturesAnswered, CallbacksOnlyWhenRunning, MarkerInv,
           ServedIsPending, TypeOK, ExType, Batch
  <2>a. PICK f \in BOOLEAN : f = ~ex.post
    BY <2>2
  <2>b. ex.post <=> f = FALSE
    BY <2>2, <2>a
  <2>3. /\ DOMAIN jobs' = DOMAIN jobs \cup {Len(jobs) + 1}
        /\ \A i \in DOMAIN jobs : jobs'[i] = jobs[i]
        /\ jobs'[Len(jobs) + 1] = [dir |-> d, size |-> n, final |-> f]
    <3>1. [dir |-> d, size |-> n, final |-> f] \in Job
      BY <2>2 DEF Job
    <3>2. jobs' = Append(jobs, [dir |-> d, size |-> n, final |-> f])
      BY <2>1, <2>a
    <3> QED BY <3>1, <3>2, JobAdded
  <2>4. PICK e \in Event : e = d
    BY <2>2
  <2>5. /\ \A i \in DOMAIN jobs' : jobs'[i].dir = e => jobs'[i].size = n /\ jobs'[i].final = f
        /\ Queued(e, FALSE)' <=> f = FALSE
        /\ captured'[e] = n /\ progress'[e] = NoProgress
        /\ ~WorksOn(e, BeforeMark)' /\ ~WorksOn(e, {"prepare", "write"})' /\ ~Merged(e)'
    <3>1. /\ \A i \in DOMAIN jobs : jobs[i].dir # e
          /\ captured[e] = 0 /\ progress[e] = NoProgress
          /\ ~WorksOn(e, BeforeMark) /\ ~WorksOn(e, {"prepare", "write"}) /\ ~Merged(e)
      BY <1>d, <2>2, <2>4
    <3>2. captured'[e] = n /\ progress'[e] = NoProgress
      BY <1>0, <2>1, <2>2, <2>4, <3>1
    <3>3. \A i \in DOMAIN jobs' : jobs'[i].dir = e => jobs'[i].size = n /\ jobs'[i].final = f
      BY <2>3, <3>1
    <3>4. Len(jobs) + 1 \in DOMAIN jobs' /\ jobs'[Len(jobs) + 1].dir = e
      BY <2>3, <2>4
    <3>5. Queued(e, FALSE)' <=> f = FALSE
      BY <3>3, <3>4 DEF Queued
    <3> QED BY <1>a, <3>1, <3>2, <3>3, <3>5
  <2>6. \E a, b \in Nat : Ledger(e, a, b)'
    <3>1. CASE f = FALSE
      <4>1. PreLeft(e)'
        BY <2>5, <3>1 DEF PreLeft
      <4>2. Ledger(e, n, 0)'
        BY <2>2, <2>5, <3>1, <4>1 DEF Ledger, NoProgress
      <4> QED BY <2>2, <4>2
    <3>2. CASE f = TRUE
      <4>1. ~PreLeft(e)'
        BY <2>5, <3>2 DEF PreLeft
      <4>2. ~Captured(e)'
        BY <2>1, <2>2, <2>4, <2>b, <3>2 DEF Captured, ShapeInv, OnlyAccepted
      <4>3. Ledger(e, 0, n)'
        <5>1. captured'[e] = 0 + n
          BY <2>2, <2>5
        <5>2. \A i \in DOMAIN jobs' :
                 jobs'[i].dir = e => jobs'[i].size = IF jobs'[i].final THEN n ELSE 0
          BY <2>5, <3>2
        <5>3. progress'[e].persisted = (IF PreLeft(e)' THEN 0 ELSE 0)
                                         + (IF Merged(e)' THEN n ELSE 0)
          BY <2>5, <4>1 DEF NoProgress
        <5> QED BY <2>5, <4>2, <5>1, <5>2, <5>3 DEF Ledger
      <4> QED BY <2>2, <4>3
    <3> QED BY <3>1, <3>2
  <2>7. ASSUME NEW c \in Event, c # e
        PROVE  (Live(c)' => Live(c)) /\ (Live(c)' => \E a, b \in Nat : Ledger(c, a, b)')
    <3>1. Captured(c)' => Captured(c)
      BY <2>1 DEF Captured
    <3>2. captured'[c] = captured[c]
      BY <1>0, <2>1, <2>4, <2>7
    <3>3. \A i \in DOMAIN jobs' : jobs'[i].dir = c => i \in DOMAIN jobs /\ jobs[i] = jobs'[i]
      BY <2>3, <2>4, <2>7
    <3> QED BY <1>b, <2>3, <3>1, <3>2, <3>3
  <2>8. RecordsCounted'
    BY <2>6, <2>7 DEF RecordsCounted
  <2>9. RowsMatch'
    BY <1>c, <1>d, <2>2, <2>4, <2>7
  <2>10. CompleteIsWhole'
    BY <1>0, <1>e, <2>1, <2>2
  <2> QED BY <1>0, <2>8, <2>9, <2>10 DEF RecordInv
<1>7. CASE MarkRefused \/ ClearRefused
  <2>1. UNCHANGED <<captured, jobs, outcome, activeCaptures, expired>>
    BY <1>7 DEF MarkRefused, ClearRefused
  <2>2. \A e \in Event : "complete" \in marker'[e] => "complete" \in marker[e]
    <3>1. \/ UNCHANGED marker
          \/ marker' = [marker EXCEPT ![ex.dir] = @ \cup {"failed"}]
          \/ marker' = [marker EXCEPT ![ex.dir] = @ \ {"pending", "complete"}]
      BY <1>7 DEF MarkRefused, ClearRefused
    <3> QED BY <1>0, <3>1
  <2>3. RecordsCounted' /\ \A e \in Event : Live(e)' => Live(e)
    BY <1>b, <2>1 DEF RecordsCounted, Captured
  <2>4. RowsMatch' /\ CompleteIsWhole'
    BY <1>c, <1>e, <2>1, <2>2, <2>3
  <2> QED BY <1>0, <2>3, <2>4 DEF RecordInv
<1>8. ASSUME NEW e \in Event, NEW n \in Batch, EnqueuePost(e, n) PROVE RecordInv'
  <2>1. /\ e \in expired /\ expired' = expired \ {e}
        /\ UNCHANGED <<activeCaptures, outcome>> /\ Enqueue(e, n, TRUE, TRUE)
    BY <1>8 DEF EnqueuePost
  <2>a. n \in Nat
    BY LimitsAssumption DEF Batch
  <2>2. EnqueueAccepts(TRUE) /\ n \in Nat
    BY <2>1, <2>a, HarvestAccepts
  <2>3. /\ captured' = [captured EXCEPT ![e] = @ + n] /\ UNCHANGED marker
        /\ jobs' = Append(jobs, [dir |-> e, size |-> n, final |-> TRUE])
    BY <1>8, <2>1, <2>2 DEF EnqueuePost, Enqueue
  <2>4. /\ DOMAIN jobs' = DOMAIN jobs \cup {Len(jobs) + 1}
        /\ \A i \in DOMAIN jobs : jobs'[i] = jobs[i]
        /\ jobs'[Len(jobs) + 1] = [dir |-> e, size |-> n, final |-> TRUE]
    <3>1. [dir |-> e, size |-> n, final |-> TRUE] \in Job
      BY DEF Job
    <3> QED BY <2>3, <3>1, JobAdded
  <2>5. /\ Captured(e) /\ Live(e) /\ marker[e] = {"pending"} /\ ~Captured(e)'
        /\ ~Queued(e, TRUE) /\ ~(WorksOn(e, WkBusy) /\ wk.job.final)
    BY <2>1 DEF Captured, Live, MarkerInv, LiveIsPending, ShapeInv, CaptureIsOpen
  <2>6. \E a, b \in Nat : Ledger(e, a, b)'
    <3>1. PICK a \in Nat, b \in Nat : Ledger(e, a, b)
      BY <2>5 DEF RecordInv, RecordsCounted
    <3>2. b = 0
      BY <2>5, <3>1 DEF Ledger
    <3>3. ~Merged(e)
      BY <2>5 DEF Merged, WorksOn, WkBusy, ShapeInv, JobsInOrder
    <3>4. PreLeft(e)' <=> PreLeft(e)
      <4>1. Queued(e, FALSE)' <=> Queued(e, FALSE)
        BY <2>4 DEF Queued
      <4> QED BY <1>0, <1>a, <4>1 DEF PreLeft
    <3>5. \A i \in DOMAIN jobs : jobs[i].dir = e => ~jobs[i].final /\ jobs[i].size = a
      <4>a. \A i \in DOMAIN jobs : jobs[i] \in Job
        BY DEF TypeOK
      <4>1. \A i \in DOMAIN jobs : jobs[i].final \in BOOLEAN
        BY <4>a DEF Job
      <4> QED BY <2>5, <3>1, <4>1 DEF Queued, Ledger
    <3>6. WorksOn(e, BeforeMark) => ~wk.job.final /\ wk.job.size = a
      BY <2>5, <3>1 DEF Ledger, WorksOn, BeforeMark, WkBusy
    <3>7. captured'[e] = a + n /\ progress'[e] = progress[e]
      BY <1>0, <2>2, <2>3, <3>1, <3>2 DEF Ledger
    <3>8. \A i \in DOMAIN jobs' :
             jobs'[i].dir = e => jobs'[i].size = IF jobs'[i].final THEN n ELSE a
      BY <2>4, <3>5
    <3>9. ~progress'[e].failed => progress'[e].persisted = (IF PreLeft(e)' THEN 0 ELSE a) + 0
      BY <3>1, <3>3, <3>4, <3>7 DEF Ledger
    <3>10. Ledger(e, a, n)'
      BY <1>0, <1>a, <2>5, <3>3, <3>6, <3>7, <3>8, <3>9 DEF Ledger
    <3> QED BY <2>2, <3>10
  <2>7. ASSUME NEW c \in Event, c # e
        PROVE  (Live(c)' => Live(c)) /\ (Live(c)' => \E a, b \in Nat : Ledger(c, a, b)')
    <3>1. Captured(c)' => Captured(c)
      BY <2>1 DEF Captured
    <3>2. captured'[c] = captured[c]
      BY <1>0, <2>3, <2>7
    <3>3. \A i \in DOMAIN jobs' : jobs'[i].dir = c => i \in DOMAIN jobs /\ jobs[i] = jobs'[i]
      BY <2>4, <2>7
    <3> QED BY <1>b, <2>4, <3>1, <3>2, <3>3
  <2>8. RecordsCounted'
    BY <2>6, <2>7 DEF RecordsCounted
  <2>9. RowsMatch'
    BY <1>c, <2>5, <2>7
  <2>10. CompleteIsWhole'
    BY <1>0, <1>e, <2>1, <2>3, <2>5
  <2> QED BY <1>0, <2>8, <2>9, <2>10 DEF RecordInv
<1> QED BY <1>2, <1>3, <1>4, <1>5, <1>6, <1>7, <1>8 DEF Trigger, Admit, Harvest

(* So do the end of the process and the next start: a power loss takes     *)
(* only rows that no .complete vouches for.                                *)
LEMMA LifeRecords ==
    ASSUME TypeOK, SlotInv, ShapeInv, MarkerInv, RecordInv,
           \/ Shutdown \/ Exit \/ Crash \/ Restart \/ Start
           \/ \E e \in Event, left \in SUBSET Terminal : CrashInSweep(e, left)
    PROVE  RecordInv'
<1> USE DEF lifeVars, execVars, queueVars, workVars, diskVars
<1>0. /\ outcome \in [Event -> {"new", "accepted", "rejected", "lost"}]
      /\ marker \in [Event -> SUBSET MarkerKinds]
      /\ ex.pc \in ExBusy => ex.dir \in Event
  BY DEF TypeOK, ExType
<1>1. CASE Shutdown
  <2>1. /\ activeCaptures' = {} /\ expired' = {} /\ expired = {}
        /\ UNCHANGED <<outcome, captured, jobs, wk, progress, marker, removed, rows, durable>>
    BY <1>1 DEF Shutdown
  <2>2. \A e : (Live(e)' => Live(e)) /\ ~Captured(e)'
    BY <2>1 DEF Live, WorksOn, Captured
  <2>3. ASSUME NEW e \in Event PROVE Live(e)' => \E a, b \in Nat : Ledger(e, a, b)'
    <3>1. (PreLeft(e)' <=> PreLeft(e)) /\ (Merged(e)' <=> Merged(e))
          /\ (WorksOn(e, BeforeMark)' <=> WorksOn(e, BeforeMark))
      BY <2>1 DEF PreLeft, Merged, WorksOn, Queued
    <3> QED BY <2>1, <2>2, <3>1, LedgerFrame
  <2>4. RowsMatch' /\ WorkerKnows' /\ CompleteIsWhole'
    BY <2>1, <2>2 DEF RecordInv, RowsMatch, WorkerKnows, CompleteIsWhole, Writing, WorksOn
  <2> QED BY <2>3, <2>4 DEF RecordInv, RecordsCounted
<1>2. ASSUME activeCaptures' = {}, expired' = {}, jobs' = <<>>, wk'.pc = "idle",
             CompleteIsWhole'
      PROVE  RecordInv'
  <2>1. \A e : ~Live(e)'
    BY <1>2 DEF Live, WorksOn, Captured, BeforeMark
  <2> QED BY <1>2, <2>1 DEF RecordInv, RecordsCounted, RowsMatch, WorkerKnows
<1>3. CASE Exit
  <2>1. ForgetMemory /\ UNCHANGED <<outcome, captured, marker, removed, rows, durable>>
    BY <1>3 DEF Exit
  <2>2. CompleteIsWhole'
    BY <2>1 DEF RecordInv, CompleteIsWhole
  <2> QED BY <1>2, <2>1, <2>2 DEF ForgetMemory, WkIdle
<1>4. ASSUME Die
      PROVE  /\ ForgetMemory /\ UNCHANGED captured
             /\ \A e \in Event : outcome[e] = "accepted" => outcome'[e] = "accepted"
  <2>1. ex.pc \in {"reserved", "begun"} => ex.dir \in Event /\ outcome[ex.dir] = "new"
    BY <1>0 DEF ExBusy, SlotInv, CapturesAnswered
  <2> QED BY <1>0, <1>4, <2>1 DEF Die
<1>5. CASE Crash
  <2>1. Die /\ rows' \in {rows, durable} /\ UNCHANGED <<marker, removed, durable>>
    BY <1>5 DEF Crash
  <2>2. CompleteIsWhole'
    BY <1>4, <2>1 DEF RecordInv, CompleteIsWhole
  <2> QED BY <1>2, <1>4, <2>1, <2>2 DEF ForgetMemory, WkIdle
<1>6. ASSUME NEW e \in Event, NEW left \in SUBSET Terminal, CrashInSweep(e, left)
      PROVE  RecordInv'
  <2>1. Die /\ Delete({e}, left)
    BY <1>6 DEF CrashInSweep
  <2>2. CompleteIsWhole'
    BY <1>4, <2>1 DEF Delete, RecordInv, CompleteIsWhole
  <2> QED BY <1>2, <1>4, <2>1, <2>2 DEF ForgetMemory, WkIdle
<1>7. CASE Restart \/ Start
  <2>1. /\ node \in {"down", "starting"}
        /\ UNCHANGED <<activeCaptures, expired, outcome, captured, jobs, wk, removed, rows,
                       durable>>
        /\ \/ UNCHANGED marker
           \/ \E e \in Event : marker' = [marker EXCEPT ![e] =
                  IF @ \cap Terminal # {} THEN @ \ {"pending"} ELSE {"failed"}]
    BY <1>7 DEF Restart, Start, StartSpinning, ReconcileDir
  <2>2. \A e \in Event : "complete" \in marker'[e] => "complete" \in marker[e]
    BY <1>0, <2>1
  <2>3. CompleteIsWhole'
    BY <2>1, <2>2 DEF RecordInv, CompleteIsWhole
  <2>4. activeCaptures = {} /\ expired = {} /\ jobs = <<>> /\ wk.pc = "idle"
    BY <2>1 DEF ShapeInv, WorkerDown, SlotInv, CallbacksOnlyWhenRunning
  <2> QED BY <1>2, <2>1, <2>3, <2>4
<1> QED BY <1>1, <1>3, <1>5, <1>6, <1>7

(***************************************************************************)
(* The theorems                                                            *)
(***************************************************************************)

(* The three layers together hold in every reachable state.                *)
THEOREM TransactionSafe == Spec => [](MarkerInv /\ RecordInv)
<1>1. Init => MarkerInv /\ RecordInv
  <2> SUFFICES ASSUME Init PROVE MarkerInv /\ RecordInv
    OBVIOUS
  <2>1. /\ \A e \in Event : marker[e] = {} /\ rows[e] = 0 /\ durable[e] = 0
                            /\ captured[e] = 0 /\ progress[e] = NoProgress
        /\ removed = {} /\ node = "running" /\ ex.pc = "idle" /\ wk.pc = "idle"
        /\ activeCaptures = {} /\ expired = {} /\ jobs = <<>>
    BY DEF Init, ExIdle, WkIdle
  <2>2. \A e : ~Live(e)
    BY <2>1 DEF Live, WorksOn, Captured, BeforeMark
  <2>3. MarkerInv
    BY <2>1, <2>2 DEF MarkerInv, LiveIsPending, ServedIsPending, FreshIsEmpty, ClosedOnce,
                      StartSeesPending, PendingHasOwner, Terminal
  <2>4. RecordInv
    BY <2>1, <2>2 DEF RecordInv, RecordsCounted, RowsMatch, WorkerKnows, CompleteIsWhole
  <2> QED BY <2>3, <2>4
<1>2. TypeOK /\ SlotInv /\ ShapeInv /\ MarkerInv /\ RecordInv /\ [Next]_vars
        => MarkerInv' /\ RecordInv'
  <2> SUFFICES ASSUME TypeOK, SlotInv, ShapeInv, MarkerInv, RecordInv, [Next]_vars
               PROVE  MarkerInv' /\ RecordInv'
    OBVIOUS
  <2>1. CASE UNCHANGED vars
    <3> USE <2>1 DEF vars, lifeVars, execVars, queueVars, workVars, diskVars
    <3>1. \A e : (Live(e)' <=> Live(e)) /\ (Outstanding(e)' <=> Outstanding(e))
      BY DEF Live, WorksOn, Captured, Outstanding
    <3>2. MarkerInv'
      BY <3>1 DEF MarkerInv, LiveIsPending, ServedIsPending, FreshIsEmpty, ClosedOnce,
                  StartSeesPending, PendingHasOwner
    <3>3. ASSUME NEW e \in Event PROVE Live(e)' => \E a, b \in Nat : Ledger(e, a, b)'
      BY <3>1, LedgerFrame DEF PreLeft, Merged, WorksOn, Queued, Captured
    <3>4. RecordInv'
      BY <3>1, <3>3 DEF RecordInv, RecordsCounted, RowsMatch, WorkerKnows, CompleteIsWhole,
                        Writing, WorksOn
    <3> QED BY <3>2, <3>4
  <2>2. MarkerInv' \/ UNCHANGED vars
    BY WorkerMarkers, ExecutorMarkers, LifeMarkers DEF Next
  <2>3. RecordInv' \/ UNCHANGED vars
    BY WorkerRecords, ExecutorRecords, LifeRecords DEF Next
  <2> QED BY <2>1, <2>2, <2>3
<1> QED BY <1>1, <1>2, TypeCorrect, SlotsSafe, JobsWellFormed, PTL DEF Spec

(* Whoever has work left for an event can be seen on disk: the directory   *)
(* carries .pending, or nothing at all while its trigger holds a slot.     *)
LEMMA OutstandingIsVisible ==
    ASSUME TypeOK, SlotInv, ShapeInv, MarkerInv, NEW e \in Event, Outstanding(e)
    PROVE  "pending" \in marker[e] \/ (marker[e] = {} /\ e \notin removed)
<1>1. CASE Live(e)
  BY <1>1 DEF MarkerInv, LiveIsPending
<1>2. CASE wk.pc # "retain" /\ wk.job.dir = e /\ ~Live(e)
  <2>1. wk.pc = "clear"
    BY <1>2, NoneAssumption DEF TypeOK, WkType, WkIdle, WkBusy, Live, WorksOn, BeforeMark
  <2> QED BY <1>2, <2>1 DEF MarkerInv, LiveIsPending
<1>3. CASE ex.dir = e
  <2>1. ex.pc \in ExBusy
    BY <1>3, NoneAssumption DEF TypeOK, ExType, ExIdle
  <2>2. CASE ex.pc = "reserved"
    BY <1>3, <2>2 DEF SlotInv, CapturesAnswered, MarkerInv, FreshIsEmpty
  <2>3. CASE ex.pc # "reserved"
    BY <1>3, <2>1, <2>3 DEF ExBusy, MarkerInv, ServedIsPending
  <2> QED BY <2>2, <2>3
<1> QED BY <1>1, <1>2, <1>3 DEF Outstanding, Live, Captured

(* .complete on disk means that every record captured for the event has a  *)
(* durable manifest row, whatever fails, crashes or is refused.            *)
THEOREM CompleteMeansWhole == Spec => []CompleteIsWhole
<1>1. RecordInv => CompleteIsWhole
  BY DEF RecordInv
<1> QED BY <1>1, TransactionSafe, PTL

(* A directory of a running node whose markers can be written always has,  *)
(* while it is pending, somebody who will close it.                        *)
THEOREM PendingIsOwned == Spec => []PendingHasOwner
<1>1. MarkerInv => PendingHasOwner
  BY DEF MarkerInv
<1> QED BY <1>1, TransactionSafe, PTL

(* Nothing is ever written to a directory that retention has deleted.      *)
THEOREM DeletedStaysGone == Spec => []RemovedStaysGone
<1>1. TypeOK /\ SlotInv /\ ShapeInv /\ MarkerInv => RemovedStaysGone
  <2> SUFFICES ASSUME TypeOK, SlotInv, ShapeInv, MarkerInv, NEW e \in removed
               PROVE  rows[e] = 0 /\ "pending" \notin marker[e] /\ ~Outstanding(e)
    BY DEF RemovedStaysGone
  <2>1. e \in Event
    BY DEF TypeOK
  <2> QED BY <2>1, OutstandingIsVisible DEF MarkerInv, ClosedOnce
<1> QED BY <1>1, TypeCorrect, SlotsSafe, JobsWellFormed, TransactionSafe, PTL

(* Retention, which sees only markers, never picks a directory that a      *)
(* capture, a queued job, the worker or a trigger still needs.             *)
THEOREM SweepSparesTheLive == Spec => SweepSparesLive
<1>1. TypeOK /\ SlotInv /\ ShapeInv /\ MarkerInv /\ [Next]_vars =>
        [\A e \in removed' \ removed : ~Outstanding(e)]_vars
  <2> SUFFICES ASSUME TypeOK, SlotInv, ShapeInv, MarkerInv, Next, NEW e \in removed' \ removed
               PROVE  ~Outstanding(e)
    OBVIOUS
  <2> USE DEF lifeVars, execVars, queueVars, workVars, diskVars
  <2>1. e \in Deletable
    <3>1. ASSUME NEW S \in SUBSET Event, Sweep(S) PROVE e \in Deletable
      BY <3>1 DEF Sweep, Delete
    <3>2. ASSUME NEW d \in Event, NEW left \in SUBSET Terminal, CrashInSweep(d, left)
          PROVE  e \in Deletable
      BY <3>2 DEF CrashInSweep, Delete
    <3>3. Worker \/ \E d \in Event, left \in SUBSET Terminal : CrashInSweep(d, left)
      <4>1. UNCHANGED removed \/ Worker
              \/ \E d \in Event, left \in SUBSET Terminal : CrashInSweep(d, left)
        BY DEF Next, Trigger, RejectUnsynced, ReserveSlot, Admit, RefuseCapture,
               BeginCapture, EnqueueFirst, RefuseFirst, MarkRefused, ClearRefused, Harvest,
               EnqueuePost, ExpireCaptures, Shutdown, Exit, Crash, Restart, Start,
               ReconcileDir, StartSpinning
      <4> QED BY <4>1
    <3>4. CASE Worker
      <4>1. \E S \in SUBSET Event : PrepareJob(S) \/ RetireEvent(S)
        BY <3>4 DEF Worker, PopJob, WriteRecord, LoseRecord, FinishJob, SealEvent,
                    MarkEvent, ClearPending
      <4> QED BY <3>1, <4>1 DEF PrepareJob, RetireEvent
    <3> QED BY <3>2, <3>3, <3>4
  <2>2. "pending" \notin marker[e] /\ marker[e] # {} /\ e \in Event
    BY <2>1 DEF Deletable
  <2> QED BY <2>2, OutstandingIsVisible
<1> QED BY <1>1, TypeCorrect, SlotsSafe, JobsWellFormed, TransactionSafe, PTL
        DEF Spec, SweepSparesLive

-----------------------------------------------------------------------------
(***************************************************************************)
(* The recording path implements EventTransaction: under the status read   *)
(* off the marker files every step is a step of the transaction or leaves  *)
(* it unchanged.                                                           *)
(***************************************************************************)

(* How the markers of a directory determine its status.                    *)
LEMMA StatusIs ==
    ASSUME NEW e
    PROVE  /\ e \in removed => Status(e) = "deleted"
           /\ e \notin removed /\ "complete" \in marker[e] => Status(e) = "complete"
           /\ e \notin removed /\ "complete" \notin marker[e] /\ "failed" \in marker[e]
                => Status(e) = "failed"
           /\ e \notin removed /\ marker[e] = {"pending"} => Status(e) = "open"
           /\ e \notin removed /\ marker[e] = {} => Status(e) = "none"
<1>1. {"pending"} # {} /\ "complete" \notin {"pending"} /\ "failed" \notin {"pending"}
  OBVIOUS
<1> QED BY <1>1 DEF Status

(* An event that is live or whose first batch is being admitted is open.   *)
LEMMA OpenEvents ==
    ASSUME TypeOK, MarkerInv, NEW e \in Event, marker[e] = {"pending"}
    PROVE  e \notin removed /\ Status(e) = "open"
<1>1. e \notin removed
  BY DEF MarkerInv, ClosedOnce
<1> QED BY <1>1, StatusIs

(* A step that keeps the status, the promise and what complete directories *)
(* hold is no step of the transaction.                                     *)
LEMMA Stutters ==
    ASSUME UNCHANGED captured,
           \A e \in Event : /\ Status(e)' = Status(e)
                            /\ Status(e) = "complete" => durable'[e] = durable[e]
    PROVE  UNCHANGED Transaction!vars
  BY DEF Transaction!vars

(* Writing a terminal marker into an open directory fails or completes it. *)
(* That a completed one stores what was promised is CompleteIsWhole.       *)
LEMMA Closes ==
    ASSUME TypeOK, MarkerInv, CompleteIsWhole', UNCHANGED <<captured, removed, durable>>,
           NEW e \in Event, marker[e] = {"pending"}, NEW k \in Terminal,
           NEW M \in SUBSET {"pending", k}, k \in M, marker' = [marker EXCEPT ![e] = M]
    PROVE  Transaction!Next
<1>1. e \notin removed /\ Status(e) = "open"
  BY OpenEvents
<1>2. marker'[e] = M /\ \A f \in Event \ {e} : marker'[f] = marker[f]
  BY DEF TypeOK
<1>3. Status(e)' = k
  BY <1>1, <1>2 DEF Status, Terminal
<1>4. \A f \in Event : Status(f)' = IF f = e THEN k ELSE Status(f)
  BY <1>2, <1>3 DEF Status
<1>5. CASE k = "complete"
  <2>1. captured[e] > 0 /\ durable[e] = captured[e]
    BY <1>1, <1>2, <1>5 DEF CompleteIsWhole
  <2> QED BY <1>1, <1>4, <1>5, <2>1 DEF Transaction!Next, Transaction!Complete
<1>6. CASE k = "failed"
  BY <1>1, <1>4, <1>6 DEF Transaction!Next, Transaction!Fail
<1> QED BY <1>5, <1>6 DEF Terminal

(* A sweep deletes the closed directories that were still there.           *)
LEMMA Deletes ==
    ASSUME TypeOK, NEW S \in SUBSET Event, S \subseteq Deletable, NEW left, Delete(S, left),
           UNCHANGED captured
    PROVE  Transaction!Next \/ UNCHANGED Transaction!vars
<1>1. \A e \in Event : Status(e)' = IF e \in S THEN "deleted" ELSE Status(e)
  BY DEF Delete, Status
<1>2. \A e \in S \ removed : Status(e) \in {"complete", "failed"}
  BY DEF Deletable, Terminal, Status
<1>3. \A e \in removed : Status(e) = "deleted"
  BY DEF Status
<1>4. \A e \in Event \ S : durable'[e] = durable[e]
  BY DEF Delete
<1>5. CASE S \subseteq removed
  BY <1>1, <1>3, <1>4, <1>5, Stutters
<1>6. CASE S \ removed # {}
  <2>1. PICK T \in (SUBSET Event) \ {{}} : T = S \ removed
    BY <1>6
  <2>2. \A e \in Event : Status(e)' = IF e \in T THEN "deleted" ELSE Status(e)
    BY <1>1, <1>3, <2>1
  <2>3. \A e \in T : Status(e) \in {"complete", "failed"}
    BY <1>2, <2>1
  <2>4. \A e \in Event : (IF Status(e)' = "complete" THEN durable'[e] ELSE 0)
                         = IF e \in T THEN 0
                           ELSE IF Status(e) = "complete" THEN durable[e] ELSE 0
    BY <1>1, <1>3, <1>4, <2>1
  <2>5. Transaction!Delete(T)
    BY <2>2, <2>3, <2>4 DEF Transaction!Delete
  <2> QED BY <2>5 DEF Transaction!Next
<1> QED BY <1>5, <1>6

(* Handing over a batch is a promise to an open event, and none if it is   *)
(* empty.                                                                  *)
LEMMA Promises ==
    ASSUME TypeOK, MarkerInv, UNCHANGED <<marker, removed, durable>>,
           NEW e \in Event, marker[e] = {"pending"}, NEW n \in Batch,
           captured' = [captured EXCEPT ![e] = @ + n]
    PROVE  Transaction!Next \/ UNCHANGED Transaction!vars
<1>1. Status(e) = "open"
  BY OpenEvents
<1>2. \A f \in Event : Status(f)' = Status(f)
  BY DEF Status
<1>3. CASE n = 0
  <2>1. captured' = captured
    BY <1>3 DEF TypeOK
  <2> QED BY <1>2, <2>1, Stutters
<1>4. CASE n # 0
  <2>1. n \in 1 .. MaxBatch
    BY <1>4, LimitsAssumption DEF Batch
  <2>2. Transaction!Promise(e, n)
    BY <1>1, <1>2 DEF Transaction!Promise
  <2> QED BY <2>1, <2>2 DEF Transaction!Next
<1> QED BY <1>3, <1>4

(* The recording path implements the transaction: the trigger opens the    *)
(* directory, the two batches are promises to it, the worker or, after a   *)
(* refusal or a crash, somebody else closes it, retention deletes it.      *)
THEOREM RecordingImplementsTransaction == Spec => ImplementsTransaction
<1>1. Init => Transaction!Init
  <2> SUFFICES ASSUME Init PROVE Transaction!Init
    OBVIOUS
  <2>1. \A e \in Event : Status(e) = "none"
    BY DEF Init, Status
  <2> QED BY <2>1 DEF Init, Transaction!Init
<1>2. TypeOK /\ SlotInv /\ ShapeInv /\ MarkerInv /\ RecordInv' /\ [Next]_vars
        => [Transaction!Next]_(Transaction!vars)
  <2> SUFFICES ASSUME TypeOK, SlotInv, ShapeInv, MarkerInv, RecordInv', [Next]_vars
               PROVE  Transaction!Next \/ UNCHANGED Transaction!vars
    OBVIOUS
  <2> USE DEF lifeVars, execVars, queueVars, workVars, diskVars
  <2>1. CompleteIsWhole'
    BY DEF RecordInv
  <2>2. CASE UNCHANGED <<marker, removed, captured, durable>>
    BY <2>2, Stutters DEF Status
  <2>3. CASE BeginCapture
    <3>1. PICK e \in Event : e = ex.dir
      BY <2>3 DEF BeginCapture, TypeOK, ExType, ExBusy
    <3>2. marker[e] = {} /\ e \notin removed
      BY <2>3, <3>1 DEF BeginCapture, SlotInv, CapturesAnswered, MarkerInv, FreshIsEmpty
    <3>3. marker'[e] = {"pending"} /\ \A f \in Event \ {e} : marker'[f] = marker[f]
      BY <2>3, <3>1, <3>2 DEF BeginCapture, TypeOK
    <3>4. UNCHANGED <<captured, removed, durable>>
      BY <2>3 DEF BeginCapture
    <3>5. Status(e) = "none" /\ Status(e)' = "open"
      BY <3>2, <3>3, <3>4 DEF Status
    <3>6. \A f \in Event : Status(f)' = IF f = e THEN "open" ELSE Status(f)
      BY <3>3, <3>4, <3>5 DEF Status
    <3>7. Transaction!Open(e)
      BY <3>4, <3>5, <3>6 DEF Transaction!Open
    <3> QED BY <3>7 DEF Transaction!Next
  <2>4. CASE \E n \in Batch : EnqueueFirst(n)
    <3>1. PICK e \in Event : e = ex.dir
      BY <2>4 DEF EnqueueFirst, TypeOK, ExType, ExBusy
    <3>2. marker[e] = {"pending"}
      BY <2>4, <3>1 DEF EnqueueFirst, MarkerInv, ServedIsPending
    <3> QED BY <2>4, <3>1, <3>2, Promises DEF EnqueueFirst
  <2>5. CASE MarkRefused /\ marker' # marker
    <3>1. PICK e \in Event : e = ex.dir
      BY <2>5 DEF MarkRefused, TypeOK, ExType, ExBusy
    <3>2. marker[e] = {"pending"}
      BY <2>5, <3>1 DEF MarkRefused, MarkerInv, ServedIsPending
    <3>3. marker' = [marker EXCEPT ![e] = {"pending", "failed"}]
      BY <2>5, <3>1, <3>2 DEF MarkRefused, TypeOK
    <3>4. UNCHANGED <<captured, removed, durable>> /\ "failed" \in Terminal
      BY <2>5 DEF MarkRefused, Terminal
    <3> QED BY <2>1, <3>2, <3>3, <3>4, Closes, ZenonT(40)
  <2>6. CASE ClearRefused
    <3>1. PICK e \in Event : e = ex.dir
      BY <2>6 DEF ClearRefused, TypeOK, ExType, ExBusy
    <3>2. marker[e] = {"pending", "failed"}
      BY <2>6, <3>1 DEF ClearRefused, MarkerInv, ServedIsPending
    <3>3. marker'[e] = {"failed"} /\ \A f \in Event \ {e} : marker'[f] = marker[f]
      BY <2>6, <3>1, <3>2 DEF ClearRefused, TypeOK
    <3>4. UNCHANGED <<captured, removed, durable>>
      BY <2>6 DEF ClearRefused
    <3>5. \A f \in Event : Status(f)' = Status(f)
      BY <3>2, <3>3, <3>4 DEF Status
    <3> QED BY <3>4, <3>5, Stutters
  <2>7. CASE Harvest
    <3>1. PICK e \in Event, n \in Batch : EnqueuePost(e, n)
      BY <2>7 DEF Harvest
    <3>2. marker[e] = {"pending"}
      BY <3>1 DEF EnqueuePost, MarkerInv, LiveIsPending, Live, Captured
    <3>3. CASE EnqueueAccepts(TRUE)
      BY <3>1, <3>2, <3>3, Promises DEF EnqueuePost
    <3>4. CASE ~EnqueueAccepts(TRUE)
      <4>1. UNCHANGED <<captured, removed, durable>> /\ "failed" \in Terminal
            /\ marker' = [marker EXCEPT ![e] = {"failed"}]
        BY <3>1, <3>4 DEF EnqueuePost, Terminal
      <4> QED BY <2>1, <3>2, <4>1, Closes
    <3> QED BY <3>3, <3>4
  <2>8. CASE \E S \in SUBSET Event : PrepareJob(S) \/ RetireEvent(S)
    BY <2>8, Deletes DEF PrepareJob, RetireEvent, Sweep
  <2>9. CASE FinishJob
    <3>1. PICK e \in Event : e = wk.job.dir
      BY <2>9 DEF FinishJob, TypeOK, WkType, WkBusy
    <3>2. marker[e] = {"pending"}
      BY <2>9, <3>1 DEF FinishJob, MarkerInv, LiveIsPending, Live, WorksOn, BeforeMark
    <3>3. Status(e) = "open"
      BY <3>2, OpenEvents
    <3>4. UNCHANGED <<marker, removed, captured>>
          /\ \A f \in Event \ {e} : durable'[f] = durable[f]
      BY <2>9, <3>1 DEF FinishJob, TypeOK
    <3>5. \A f \in Event : Status(f)' = Status(f)
      BY <3>4 DEF Status
    <3> QED BY <3>3, <3>4, <3>5, Stutters
  <2>10. CASE MarkEvent /\ marker' # marker
    <3>1. PICK e \in Event : e = wk.job.dir
      BY <2>10 DEF MarkEvent, TypeOK, WkType, WkBusy
    <3>2. marker[e] = {"pending"}
      BY <2>10, <3>1 DEF MarkEvent, MarkerInv, LiveIsPending, Live, WorksOn, BeforeMark
    <3>3. PICK k \in Terminal : marker' = [marker EXCEPT ![e] = @ \cup {k}]
      BY <2>10, <3>1 DEF MarkEvent, Terminal
    <3>4. marker' = [marker EXCEPT ![e] = {"pending", k}]
      BY <3>2, <3>3 DEF TypeOK
    <3>5. UNCHANGED <<captured, removed, durable>>
      BY <2>10 DEF MarkEvent
    <3>6. {"pending", k} \in SUBSET {"pending", k} /\ k \in {"pending", k}
      OBVIOUS
    <3> QED BY <2>1, <3>2, <3>4, <3>5, <3>6, Closes
  <2>11. CASE ClearPending
    <3>1. PICK e \in Event : e = wk.job.dir
      BY <2>11 DEF ClearPending, TypeOK, WkType, WkBusy
    <3>2. PICK k \in Terminal : k = IF wk.ok THEN "complete" ELSE "failed"
      BY DEF Terminal
    <3>3. marker[e] = {"pending", k}
      BY <2>11, <3>1, <3>2 DEF ClearPending, MarkerInv, LiveIsPending
    <3>4. marker'[e] = {k} /\ \A f \in Event \ {e} : marker'[f] = marker[f]
      BY <2>11, <3>1, <3>2, <3>3 DEF ClearPending, TypeOK
    <3>5. UNCHANGED <<captured, removed, durable>>
      BY <2>11 DEF ClearPending
    <3>6. \A f \in Event : Status(f)' = Status(f)
      BY <3>3, <3>4, <3>5 DEF Status, Terminal
    <3> QED BY <3>5, <3>6, Stutters
  <2>12. CASE \E e \in Event, left \in SUBSET Terminal : CrashInSweep(e, left)
    BY <2>12, Deletes DEF CrashInSweep, Die
  <2>13. CASE (\E e \in Event : ReconcileDir(e)) /\ marker' # marker
    <3>1. PICK e \in Event : ReconcileDir(e)
      BY <2>13
    <3>2. UNCHANGED <<captured, removed, durable>>
          /\ "pending" \in marker[e]
      BY <3>1 DEF ReconcileDir, MarkerInv, StartSeesPending
    <3>3. CASE marker[e] \cap Terminal = {}
      <4>1. marker[e] = {"pending"}
        BY <3>2, <3>3 DEF TypeOK, MarkerKinds, Terminal
      <4>2. marker' = [marker EXCEPT ![e] = {"failed"}] /\ "failed" \in Terminal
        BY <2>13, <3>1, <3>3 DEF ReconcileDir, Terminal, TypeOK
      <4> QED BY <2>1, <3>2, <4>1, <4>2, Closes
    <3>4. CASE marker[e] \cap Terminal # {}
      <4>1. marker'[e] = marker[e] \ {"pending"} /\ \A f \in Event \ {e} : marker'[f] = marker[f]
        BY <3>1, <3>4 DEF ReconcileDir, TypeOK
      <4>2. \A f \in Event : Status(f)' = Status(f)
        BY <3>2, <3>4, <4>1 DEF Status, Terminal
      <4> QED BY <3>2, <4>2, Stutters
    <3> QED BY <3>3, <3>4
  <2>14. CASE Next /\ ~UNCHANGED <<marker, removed, captured, durable>>
    <3>1. ~Trigger /\ ~(\E S \in SUBSET Event : ExpireCaptures(S)) /\ ~Shutdown /\ ~Exit
          /\ ~Crash /\ ~Restart /\ ~StartSpinning
      BY <2>14 DEF Trigger, RejectUnsynced, ReserveSlot, ExpireCaptures, Shutdown, Exit,
                   Crash, Die, Restart, StartSpinning
    <3>2. Admit => BeginCapture \/ (\E n \in Batch : EnqueueFirst(n))
                     \/ (MarkRefused /\ marker' # marker) \/ ClearRefused
      BY <2>14 DEF Admit, RefuseCapture, RefuseFirst, MarkRefused
    <3>3. Worker => (\E S \in SUBSET Event : PrepareJob(S) \/ RetireEvent(S)) \/ FinishJob
                      \/ (MarkEvent /\ marker' # marker) \/ ClearPending
      BY <2>14 DEF Worker, PopJob, WriteRecord, LoseRecord, SealEvent, MarkEvent
    <3>4. Start => (\E e \in Event : ReconcileDir(e)) /\ marker' # marker
      BY <2>14, <3>1 DEF Start, ReconcileDir
    <3> QED BY <2>3, <2>4, <2>5, <2>6, <2>7, <2>8, <2>9, <2>10, <2>11, <2>12, <2>13, <2>14,
               <3>1, <3>2, <3>3, <3>4 DEF Next
  <2> QED BY <2>2, <2>14 DEF vars
<1> QED BY <1>1, <1>2, TypeCorrect, SlotsSafe, JobsWellFormed, TransactionSafe, PTL
        DEF Spec, ImplementsTransaction, Transaction!Spec
=============================================================================
