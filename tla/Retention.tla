----------------------------- MODULE Retention -----------------------------
(***************************************************************************)
(* DiskSpaceManager: a sweep collects the event directories that may be    *)
(* deleted, oldest first, deletes those older than retention_days and then *)
(* as many as retention_max_capacity_mb asks for.  It runs on the storage  *)
(* worker's thread; triggers create directories and the upload worker      *)
(* changes markers meanwhile.                                              *)
(***************************************************************************)
EXTENDS Naturals, Sequences, FiniteSets, SequencesExt

CONSTANTS
    Dir,            \* event directories
    Bytes,          \* size of each directory
    MaxCapacity,    \* retention_max_capacity_mb, 0 disables the policy
    RetentionAge,   \* retention_days, 0 disables the policy
    MinFree,        \* disk_min_free_mb, 0 disables the check
    DiskBytes,      \* size of the disk
    Protect,        \* protectUnuploaded
    MaxTime         \* bound: time

ASSUME RetentionAssumption ==
    /\ IsFiniteSet(Dir) /\ Bytes \in [Dir -> 0 .. DiskBytes] /\ Protect \in BOOLEAN
    /\ MaxTime \in Nat \ {0}
    /\ {MaxCapacity, RetentionAge, MinFree, DiskBytes} \subseteq Nat

VARIABLES
    now,      \* the clock
    present,  \* directories on disk
    stamp,    \* the time in each directory's name
    marks,    \* marker files of each directory
    last,     \* when the last sweep ran
    sweep,    \* the sweep: where it is, the directories it has not looked at,
              \* the one it is looking at, what it found, its list, ...
    refused   \* a write was refused for want of space

diskVars == <<present, stamp, marks>>
vars == <<now, diskVars, last, sweep, refused>>

MarkKinds == {"pending", "complete", "failed", "uploading", "uploaded"}
Idle == [pc |-> "idle", unseen |-> {}, looked |-> {}, found |-> {}, left |-> <<>>,
         kept |-> <<>>, total |-> 0, stuck |-> {}, cutoff |-> 0, write |-> FALSE]

(* The size of several directories: the number of their bytes.             *)
BytesOf(S) == {b \in S \X (1 .. DiskBytes) : b[2] <= Bytes[b[1]]}
Total(S) == Cardinality(BytesOf(S))
Available == DiskBytes - Total(present)

Init ==
    /\ now = 1 /\ present = {} /\ stamp = [d \in Dir |-> 0] /\ marks = [d \in Dir |-> {}]
    /\ last = 0 /\ sweep = Idle /\ refused = FALSE

(***************************************************************************)
(* The other actors                                                        *)
(***************************************************************************)

(* A trigger is accepted; the directory will have its full size.           *)
Create(d) ==
    /\ stamp[d] = 0 /\ Bytes[d] <= Available
    /\ present' = present \cup {d}
    /\ stamp' = [stamp EXCEPT ![d] = now]
    /\ marks' = [marks EXCEPT ![d] = {"pending"}]
    /\ UNCHANGED <<now, last, sweep, refused>>

SetMarks(d, m) ==
    /\ d \in present
    /\ marks' = [marks EXCEPT ![d] = m]
    /\ UNCHANGED <<now, present, stamp, last, sweep, refused>>

(* The storage worker closes the event, never during its own sweep.        *)
Close(d, r) == sweep = Idle /\ marks[d] = {"pending"} /\ SetMarks(d, {r})

(* The upload worker leases a complete directory, writes .uploaded when    *)
(* the transfer succeeded, and then, or when it failed, lets it go.        *)
Lease(d) == Protect /\ marks[d] = {"complete"} /\ SetMarks(d, {"complete", "uploading"})
WriteUploaded(d) == /\ "uploading" \in marks[d] /\ "uploaded" \notin marks[d]
                    /\ SetMarks(d, marks[d] \cup {"uploaded"})
Unlease(d) == "uploading" \in marks[d] /\ SetMarks(d, marks[d] \ {"uploading"})

Tick == now < MaxTime /\ now' = now + 1 /\ UNCHANGED <<diskVars, last, sweep, refused>>

(***************************************************************************)
(* enforceRetention                                                        *)
(***************************************************************************)

PolicyEnabled == RetentionAge > 0 \/ MaxCapacity > 0

(* The iteration begins over the directories there are; one made later is  *)
(* pending for as long as the sweep lasts.                                 *)
Begun(write) == [Idle EXCEPT !.pc = "collect", !.unseen = present, !.write = write]

(* As the sweep below, storing when the next one is due.                   *)
StartSweepDue ==
    /\ sweep = Idle /\ PolicyEnabled /\ now > last
    /\ sweep' = Begun(FALSE)
    /\ last' = now + 1
    /\ UNCHANGED <<now, diskVars, refused>>

(* The sweep after an event was closed, at most once per clock tick        *)
(* (disk_cleanup_interval_seconds).                                        *)
StartSweep ==
    /\ sweep = Idle /\ PolicyEnabled /\ now > last
    /\ sweep' = Begun(FALSE)
    /\ last' = now
    /\ UNCHANGED <<now, diskVars, refused>>

(* prepareForWrite finds too little space: it forces a sweep, which is     *)
(* nothing without a policy.                                               *)
PrepareForWrite ==
    /\ sweep = Idle /\ MinFree > 0 /\ Available < MinFree
    /\ sweep' = IF PolicyEnabled THEN Begun(TRUE)
                ELSE [Idle EXCEPT !.pc = "done", !.write = TRUE]
    /\ last' = IF PolicyEnabled THEN now ELSE last
    /\ UNCHANGED <<now, diskVars, refused>>

(***************************************************************************)
(* collectEventDirs looks for the markers of one directory after the       *)
(* other: first for those of a writer or an uploader, then for those that  *)
(* say it is finished.  The uploader may write its markers in between.     *)
(***************************************************************************)

InUse(d) == marks[d] \cap {"pending", "uploading"} # {}

Examine(d) ==
    /\ sweep.pc = "collect" /\ sweep.looked = {} /\ d \in sweep.unseen
    /\ sweep' = [sweep EXCEPT !.unseen = @ \ {d}, !.looked = IF InUse(d) THEN {} ELSE {d}]
    /\ UNCHANGED <<now, diskVars, last, refused>>

(* As below, without protectUnuploaded.                                    *)
MayGoUnprotected(d) == marks[d] \cap {"complete", "failed"} # {}

MayGo(d) ==
    /\ marks[d] \cap {"complete", "failed"} # {}
    /\ Protect /\ "complete" \in marks[d] => "uploaded" \in marks[d]

Collect(d) ==
    /\ sweep.pc = "collect" /\ d \in sweep.looked
    /\ sweep' = [sweep EXCEPT !.looked = {},
                              !.found = IF MayGo(d) THEN @ \cup {d} ELSE @]
    /\ UNCHANGED <<now, diskVars, last, refused>>

Newer(d, e) == stamp[d] > stamp[e]
Older(d, e) == stamp[d] < stamp[e]

(* The lists std::sort may return; directories of one time in any order.   *)
Sorted(S) == {list \in SetToSeqs(S) :
                 \A i, j \in DOMAIN list : i < j => ~Older(list[j], list[i])}

Cutoff == IF now > RetentionAge THEN now - RetentionAge ELSE 0

EndCollect ==
    /\ sweep.pc = "collect" /\ sweep.unseen = {} /\ sweep.looked = {}
    /\ \E list \in Sorted(sweep.found) :
           sweep' = [sweep EXCEPT !.pc = "age", !.left = list, !.cutoff = Cutoff]
    /\ UNCHANGED <<now, diskVars, last, refused>>

(***************************************************************************)
(* The two passes over the list                                            *)
(***************************************************************************)

(* deleteDir, as the moment at which it begins (UploadWorker has the       *)
(* deletion entry by entry, and what the uploader may do meanwhile).       *)
DeleteDir(d) == /\ present' = present \ {d}
                /\ marks' = [marks EXCEPT ![d] = {}]
                /\ UNCHANGED <<now, stamp, last, refused>>

HeadTooOld == IF RetentionAge > 0 /\ sweep.left # <<>>
              THEN stamp[Head(sweep.left)] < sweep.cutoff ELSE FALSE

(* The directories past the age limit, oldest first; one that cannot be    *)
(* deleted stays in the list.                                              *)
AgeStep ==
    LET d == Head(sweep.left)
        rest == Tail(sweep.left)
    IN /\ sweep.pc = "age" /\ HeadTooOld
       /\ \/ DeleteDir(d) /\ sweep' = [sweep EXCEPT !.left = rest]
          \/ /\ sweep' = [sweep EXCEPT !.left = rest, !.kept = Append(@, d),
                                       !.stuck = @ \cup {d}]
             /\ UNCHANGED <<now, diskVars, last, refused>>

(* The sizes are taken of the directories that are left in the list.       *)
AgeDone ==
    /\ sweep.pc = "age" /\ ~HeadTooOld
    /\ LET list == sweep.kept \o sweep.left
       IN sweep' = [sweep EXCEPT !.pc = IF MaxCapacity > 0 THEN "capacity" ELSE "done",
                                 !.left = list, !.kept = <<>>,
                                 !.total = Total(ToSet(list))]
    /\ UNCHANGED <<now, diskVars, last, refused>>

OverCapacityByTwo == sweep.total > MaxCapacity + 1
OverCapacity == sweep.total > MaxCapacity

(* A directory that cannot be deleted still counts; the total is unsigned  *)
(* and stops at zero.                                                      *)
CapacityStep ==
    LET d == Head(sweep.left)
        rest == Tail(sweep.left)
    IN /\ sweep.pc = "capacity" /\ sweep.left # <<>> /\ OverCapacity
       /\ \/ /\ DeleteDir(d)
             /\ sweep' = [sweep EXCEPT !.left = rest,
                                       !.total = IF @ > Bytes[d] THEN @ - Bytes[d] ELSE 0]
          \/ /\ sweep' = [sweep EXCEPT !.left = rest, !.stuck = @ \cup {d}]
             /\ UNCHANGED <<now, diskVars, last, refused>>

CapacityDone ==
    /\ sweep.pc = "capacity" /\ (sweep.left = <<>> \/ ~OverCapacity)
    /\ sweep' = [sweep EXCEPT !.pc = "done"]
    /\ UNCHANGED <<now, diskVars, last, refused>>

(* Back in run(), or in prepareForWrite, which looks at the space again.   *)
EndSweep ==
    /\ sweep.pc = "done"
    /\ refused' = (sweep.write /\ Available < MinFree)
    /\ sweep' = Idle
    /\ UNCHANGED <<now, diskVars, last>>

Sweep == \/ StartSweep \/ PrepareForWrite
         \/ \E d \in Dir : Examine(d) \/ Collect(d)
         \/ EndCollect \/ AgeStep \/ AgeDone \/ CapacityStep \/ CapacityDone \/ EndSweep

Next == \/ Sweep
        \/ \E d \in Dir : Create(d) \/ Lease(d) \/ WriteUploaded(d) \/ Unlease(d)
        \/ \E d \in Dir, r \in {"complete", "failed"} : Close(d, r)
        \/ Tick

Spec == Init /\ [][Next]_vars

(***************************************************************************)
(* Properties                                                              *)
(***************************************************************************)

TypeOK ==
    /\ now \in 1 .. MaxTime /\ last \in 0 .. MaxTime
    /\ present \subseteq Dir
    /\ stamp \in [Dir -> 0 .. MaxTime]
    /\ marks \in [Dir -> SUBSET MarkKinds]
    /\ sweep.total \in Nat
    /\ sweep.stuck \subseteq Dir

(* When a sweep ends, the policy holds for what it found: no directory is  *)
(* past the age limit and all of them fit the capacity, unless deleting    *)
(* failed.                                                                 *)
SweepMeetsPolicy ==
    sweep.pc = "done" =>
        LET survivors == sweep.found \cap present
        IN /\ RetentionAge > 0 => \A d \in survivors \ sweep.stuck : stamp[d] >= sweep.cutoff
           /\ MaxCapacity > 0 => Total(survivors) <= MaxCapacity \/ survivors \subseteq sweep.stuck

(* A directory is only deleted if it is past the age limit, or if what can *)
(* be deleted exceeds the capacity and everything older is gone or could   *)
(* not be deleted.                                                         *)
DeletesOldestFirst ==
    [][\A d \in present \ present' :
          LET survivors == sweep.found \cap present
          IN \/ RetentionAge > 0 /\ stamp[d] + RetentionAge < now
             \/ /\ Total(survivors) > MaxCapacity
                /\ \A e \in survivors \ sweep.stuck : stamp[e] >= stamp[d]]_vars

(* Whatever the upload worker does while the sweep reads the markers one   *)
(* after the other, what is deleted is closed and, when uploads are        *)
(* enabled, delivered or failed.  A lease may still be there, but only of  *)
(* an upload that is confirmed: .uploading was not seen because it was not *)
(* there yet, and .uploaded was there when it was looked for.              *)
Finished == IF Protect THEN {"uploaded", "failed"} ELSE {"complete", "failed"}

DeletesOnlyFinished ==
    [][\A d \in present \ present' :
          /\ marks[d] \cap Finished # {} /\ "pending" \notin marks[d]
          /\ "uploading" \in marks[d] => "uploaded" \in marks[d]]_vars
=============================================================================
