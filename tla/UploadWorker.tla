---------------------------- MODULE UploadWorker ----------------------------
(***************************************************************************)
(* UploadWorker: one thread scans the record root, leases a finished event *)
(* directory with .uploading, sends it file by file over UploadStore and   *)
(* writes .uploaded; failed attempts are retried with a backoff and end in *)
(* .upload_failed.  Retention, on another thread, deletes what was         *)
(* uploaded, entry by entry, while the upload thread goes on.              *)
(***************************************************************************)
EXTENDS UploadRpc

CONSTANTS MaxRetries,    \* upload_max_retries, 0 for no limit
          Rescan,        \* upload_failed_rescan_period_ms > 0
          Deletes,       \* a retention policy is set
          MaxSenderEnds  \* bound: stops and crashes of the sending process

ASSUME UploaderAssumption == /\ MaxRetries \in Nat /\ Rescan \in BOOLEAN
                             /\ Deletes \in BOOLEAN
                             /\ MaxSenderEnds \in Nat

VARIABLES
    snd,       \* worker thread: [pc, dir, waiting, left, off, sent, ok]
    todo,      \* candidates of this scan that are still to be uploaded
    attempts,  \* RetryState::attempts, counted up to MaxRetries
    fresh,     \* times that have not run out: a lease, a backoff, .upload_failed
    marks,     \* marker files of each directory
    src,       \* files of each directory
    spotted,   \* directories a sweep has seen without .uploading
    deleting,  \* the directory remove_all is at work on, if any
    recorded,  \* directories the recorder has completed
    ends       \* stops and crashes of the process so far

retentionVars == <<spotted, deleting>>
workerVars == <<snd, todo, attempts, fresh, marks, src, retentionVars, recorded, ends>>

MarkKinds == {"complete", "uploading", "uploaded", "upload_failed"}
Stages == {"begin", "chunk", "end"}
Timers == {"lease", "backoff", "failed"}

Thread(pc) == [pc |-> pc, dir |-> "none", waiting |-> FALSE, left |-> {}, off |-> 0,
            sent |-> 0, ok |-> FALSE]

WorkerInit ==
    /\ snd = Thread("rest") /\ todo = {} /\ attempts = [d \in Dir |-> 0] /\ fresh = {}
    /\ marks = [d \in Dir |-> {}] /\ src = [d \in Dir |-> {}]
    /\ spotted = {} /\ deleting = {} /\ recorded = {}
    /\ ends = 0

Total(files) == Amount([f \in files |-> Size[f]])

(***************************************************************************)
(* run: scan, then one upload after the other                              *)
(***************************************************************************)

LeaseHeld(d) == "uploading" \in marks[d]

(* leaseActive: a lease counts while it is younger than its timeout.       *)
LeaseActive(d) == "uploading" \in marks[d] /\ <<d, "lease">> \in fresh

(* findUploadCandidates: a stale lease is removed from any directory, an   *)
(* old .upload_failed from the directories it holds back.                  *)
Unuploaded(d) == ~LeaseActive(d) /\ "complete" \in marks[d] /\ "uploaded" \notin marks[d]
HeldBack(d) == "upload_failed" \in marks[d] /\ (~Rescan \/ <<d, "failed">> \in fresh)
Candidate(d) == Unuploaded(d) /\ ~HeldBack(d)

(* Candidates that still back off, judged by the time of the scan, are     *)
(* left for a later scan.                                                  *)
Scan ==
    /\ snd.pc = "rest"
    /\ marks' = [d \in Dir |->
           marks[d] \ ((IF LeaseActive(d) THEN {} ELSE {"uploading"}) \cup
                       (IF Candidate(d) THEN {"upload_failed"} ELSE {}))]
    /\ todo' = {d \in Dir : Candidate(d) /\ <<d, "backoff">> \notin fresh}
    /\ snd' = Thread("pick")
    /\ UNCHANGED <<attempts, fresh, src, retentionVars, recorded, ends, rpcVars>>

EndScan ==
    /\ snd.pc = "pick" /\ todo = {}
    /\ snd' = Thread("rest")
    /\ UNCHANGED <<todo, attempts, fresh, marks, src, retentionVars, recorded, ends, rpcVars>>

(* acquireLease, collectFiles and transferIdFor.  An empty directory is    *)
(* not transferred; the lease or the id may not be writable.               *)
StartUpload(d) ==
    /\ snd.pc = "pick" /\ d \in todo
    /\ todo' = todo \ {d}
    /\ \/ /\ marks' = [marks EXCEPT ![d] = @ \cup {"uploading"}]
          /\ fresh' = fresh \cup {<<d, "lease">>}
          /\ \/ /\ snd' = [Thread(IF src[d] = {} THEN "release" ELSE "begin")
                              EXCEPT !.dir = d, !.left = src[d]]
                /\ UNCHANGED faults
             \/ Fault /\ snd' = [Thread("release") EXCEPT !.dir = d]
       \/ /\ Fault
          /\ snd' = [Thread("release") EXCEPT !.dir = d]
          /\ UNCHANGED <<marks, fresh>>
    /\ UNCHANGED <<attempts, src, retentionVars, recorded, ends, net, held, reply, serving>>

(***************************************************************************)
(* transferDirectory                                                       *)
(***************************************************************************)

NextFile == CHOOSE f \in snd.left : TRUE

Request == CASE snd.pc = "begin" -> Begin(snd.dir, Cardinality(snd.left), Total(snd.left))
             [] snd.pc = "chunk" -> Chunk(snd.dir, NextFile, snd.off)
             [] OTHER -> End(snd.dir)

(* A file that retention has deleted since collectFiles: its size cannot   *)
(* be asked for BEGIN, or it cannot be opened for its first chunk.  What   *)
(* is open can be read to its end.                                         *)
Vanished == \/ snd.pc = "begin" /\ ~(snd.left \subseteq src[snd.dir])
            \/ snd.pc = "chunk" /\ snd.off = 0 /\ NextFile \notin src[snd.dir]

(* call(): without a discovered service it fails at once.  BEGIN may have  *)
(* asked for the sizes before a file vanished.                             *)
Call ==
    /\ snd.pc \in Stages /\ ~snd.waiting
    /\ Vanished => snd.pc = "begin"
    /\ IF serving
       THEN Send(Request) /\ snd' = [snd EXCEPT !.waiting = TRUE]
       ELSE snd' = [snd EXCEPT !.pc = "release"] /\ UNCHANGED rpcVars
    /\ UNCHANGED <<todo, attempts, fresh, marks, src, retentionVars, recorded, ends>>

(* The stage after a request that succeeded: the next chunk, the next file *)
(* if the size of this one is what it was, END, or .uploaded if END        *)
(* confirms the bytes that were sent.                                      *)
Advanced ==
    LET f == NextFile
        more == snd.off + 1 < Size[f]
        left == IF more THEN snd.left ELSE snd.left \ {f}
        next == IF ~more /\ f \notin src[snd.dir] THEN "release"
                ELSE IF left = {} THEN "end" ELSE "chunk"
    IN CASE snd.pc = "begin" -> [snd EXCEPT !.pc = "chunk"]
         [] snd.pc = "chunk" -> [snd EXCEPT !.pc = next, !.left = left,
                                            !.off = IF more THEN @ + 1 ELSE 0,
                                            !.sent = IF Size[f] = 0 THEN @ ELSE @ + 1]
         [] OTHER -> [snd EXCEPT !.pc = IF reply.bytes = snd.sent THEN "mark" ELSE "release"]

GetReply ==
    /\ snd.waiting /\ reply.there
    /\ snd' = [IF reply.ok THEN Advanced ELSE [snd EXCEPT !.pc = "release"]
                   EXCEPT !.waiting = FALSE]
    /\ reply' = NoReply
    /\ UNCHANGED <<net, held, serving, faults>>
    /\ UNCHANGED <<todo, attempts, fresh, marks, src, retentionVars, recorded, ends>>

(* As Timeout below, still waiting for the call.                           *)
TimeoutWaiting ==
    /\ snd.waiting /\ ~reply.there
    /\ IF AnswerDue THEN Fault ELSE UNCHANGED faults
    /\ Forsake
    /\ snd' = [snd EXCEPT !.pc = "release"]
    /\ UNCHANGED <<todo, attempts, fresh, marks, src, retentionVars, recorded, ends>>

(* upload_timeout_s without an answer: there will be none, or it is late.  *)
Timeout ==
    /\ snd.waiting /\ ~reply.there
    /\ IF AnswerDue THEN Fault ELSE UNCHANGED faults
    /\ Forsake
    /\ snd' = [snd EXCEPT !.pc = "release", !.waiting = FALSE]
    /\ UNCHANGED <<todo, attempts, fresh, marks, src, retentionVars, recorded, ends>>

(* A file has vanished, or cannot be read or has changed its size.         *)
ReadFails ==
    /\ ~snd.waiting
    /\ \/ Vanished /\ UNCHANGED faults
       \/ snd.pc = "chunk" /\ ~Vanished /\ Fault
    /\ snd' = [snd EXCEPT !.pc = "release"]
    /\ UNCHANGED <<net, held, reply, serving>>
    /\ UNCHANGED <<todo, attempts, fresh, marks, src, retentionVars, recorded, ends>>

(* .uploaded is written, or cannot be.                                     *)
WriteUploaded ==
    /\ snd.pc = "mark"
    /\ \/ /\ marks' = [marks EXCEPT ![snd.dir] = @ \cup {"uploaded"}]
          /\ snd' = [snd EXCEPT !.pc = "release", !.ok = TRUE]
          /\ UNCHANGED faults
       \/ Fault /\ snd' = [snd EXCEPT !.pc = "release"] /\ UNCHANGED marks
    /\ UNCHANGED <<net, held, reply, serving>>
    /\ UNCHANGED <<todo, attempts, fresh, src, retentionVars, recorded, ends>>

(* The lease guard, then the accounting of run: a success forgets the      *)
(* retries; a failure counts one, and the last one writes .upload_failed   *)
(* (whose own failure leaves the directory to the backoff).                *)
Release ==
    LET d == snd.dir
        count == IF attempts[d] < MaxRetries THEN attempts[d] + 1 ELSE attempts[d]
        last == MaxRetries > 0 /\ count >= MaxRetries
        freed == [marks EXCEPT ![d] = @ \ {"uploading"}]
        rest == fresh \ ({d} \X Timers)
        GiveUp == /\ marks' = [freed EXCEPT ![d] = @ \cup {"upload_failed"}]
                  /\ fresh' = rest \cup {<<d, "failed">>}
                  /\ attempts' = [attempts EXCEPT ![d] = 0]
        BackOff == /\ marks' = freed
                   /\ fresh' = rest \cup {<<d, "backoff">>}
                   /\ attempts' = [attempts EXCEPT ![d] = count]
        Forget == /\ marks' = freed /\ fresh' = rest
                  /\ attempts' = [attempts EXCEPT ![d] = 0]
    IN /\ snd.pc = "release"
       /\ snd' = Thread("pick")
       /\ \/ snd.ok /\ Forget /\ UNCHANGED faults
          \/ ~snd.ok /\ last /\ GiveUp /\ UNCHANGED faults
          \/ ~snd.ok /\ last /\ BackOff /\ Fault
          \/ ~snd.ok /\ ~last /\ BackOff /\ UNCHANGED faults
       /\ UNCHANGED <<net, held, reply, serving>>
       /\ UNCHANGED <<todo, src, retentionVars, recorded, ends>>

(* A lease, a backoff or the rescan period of .upload_failed runs out.     *)
Elapse(x) ==
    /\ x \in fresh
    /\ fresh' = fresh \ {x}
    /\ UNCHANGED <<snd, todo, attempts, marks, src, retentionVars, recorded, ends, rpcVars>>

(***************************************************************************)
(* The rest of the sending process                                         *)
(***************************************************************************)

(* The recorder completes an event directory.                              *)
Record(d) ==
    /\ d \notin recorded /\ snd.pc # "down"
    /\ recorded' = recorded \cup {d}
    /\ marks' = [marks EXCEPT ![d] = {"complete"}]
    /\ src' = [src EXCEPT ![d] = File]
    /\ UNCHANGED <<snd, todo, attempts, fresh, retentionVars, ends, rpcVars>>

(* collectEventDirs looks for .uploading ...                               *)
Spot(d) ==
    /\ Deletes /\ snd.pc # "down" /\ deleting = {}
    /\ marks[d] # {} /\ "uploading" \notin marks[d]
    /\ spotted' = spotted \cup {d}
    /\ UNCHANGED <<snd, todo, attempts, fresh, marks, src, deleting, recorded, ends, rpcVars>>

(* As below, without protectUnuploaded.                                    *)
ExpendableUnprotected(d) == d \in spotted /\ "complete" \in marks[d]

(* ... and a little later for .complete and, as upload_enabled sets        *)
(* protectUnuploaded, .uploaded.                                           *)
Expendable(d) == d \in spotted /\ {"complete", "uploaded"} \subseteq marks[d]

(***************************************************************************)
(* deleteDir: remove_all unlinks one entry after the other, in the order   *)
(* the file system lists them.  The upload thread reads and writes markers *)
(* meanwhile, and takes the directory for a candidate again when .uploaded *)
(* is gone and .complete is not.                                           *)
(***************************************************************************)

StartDelete(d) ==
    /\ snd.pc # "down" /\ deleting = {} /\ Expendable(d)
    /\ deleting' = {d} /\ spotted' = spotted \ {d}
    /\ UNCHANGED <<snd, todo, attempts, fresh, marks, src, recorded, ends, rpcVars>>

DeleteMark(d, mark) ==
    /\ d \in deleting /\ mark \in marks[d]
    /\ marks' = [marks EXCEPT ![d] = @ \ {mark}]
    /\ UNCHANGED <<snd, todo, attempts, fresh, src, retentionVars, recorded, ends, rpcVars>>

DeleteFile(d, f) ==
    /\ d \in deleting /\ f \in src[d]
    /\ src' = [src EXCEPT ![d] = @ \ {f}]
    /\ UNCHANGED <<snd, todo, attempts, fresh, marks, retentionVars, recorded, ends, rpcVars>>

(* The directory goes last; it stays with the markers the upload thread    *)
(* wrote behind the iteration.  A failing unlink ends it anywhere.         *)
EndDelete(d) ==
    /\ d \in deleting
    /\ deleting' = {}
    /\ \/ src[d] = {} /\ "complete" \notin marks[d] /\ UNCHANGED faults
       \/ Fault
    /\ UNCHANGED <<snd, todo, attempts, fresh, marks, src, spotted, recorded, ends>>
    /\ UNCHANGED <<net, held, reply, serving>>

(* The thread is gone and with it its memory.                              *)
EndOfWorker ==
    /\ ends < MaxSenderEnds /\ ends' = ends + 1
    /\ snd' = Thread("down") /\ todo' = {} /\ attempts' = [d \in Dir |-> 0]
    /\ fresh' = {x \in fresh : x[2] # "backoff"}
    /\ spotted' = {} /\ deleting' = {}
    /\ Forsake
    /\ UNCHANGED <<src, recorded, faults>>

(* stop(): the thread leaves a call or its loop, the guard the lease; the  *)
(* process ends when its sweep is over as well.                            *)
StopWorker ==
    /\ deleting = {}
    /\ snd.pc \in {"rest", "pick"} \/ snd.waiting
    /\ EndOfWorker
    /\ marks' = IF snd.waiting THEN [marks EXCEPT ![snd.dir] = @ \ {"uploading"}] ELSE marks

(* A crash leaves the lease behind, and what is left of a deletion.        *)
CrashWorker == snd.pc # "down" /\ EndOfWorker /\ UNCHANGED marks

StartWorker ==
    /\ snd.pc = "down"
    /\ snd' = Thread("rest")
    /\ UNCHANGED <<todo, attempts, fresh, marks, src, retentionVars, recorded, ends, rpcVars>>

Upload == \/ Scan \/ EndScan \/ (\E d \in Dir : StartUpload(d)) \/ Call \/ GetReply
          \/ Timeout \/ ReadFails \/ WriteUploaded \/ Release

WorkerNext ==
    \/ Upload
    \/ \E x \in Dir \X Timers : Elapse(x)
    \/ \E d \in Dir : Record(d) \/ Spot(d) \/ StartDelete(d) \/ EndDelete(d)
    \/ \E d \in Dir, mark \in MarkKinds : DeleteMark(d, mark)
    \/ \E d \in Dir, f \in File : DeleteFile(d, f)
    \/ StopWorker \/ CrashWorker \/ StartWorker
=============================================================================
