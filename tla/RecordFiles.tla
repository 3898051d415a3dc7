----------------------------- MODULE RecordFiles -----------------------------
(***************************************************************************)
(* The files of one event directory as RawStorageWorker writes them: the   *)
(* record files, their converted copies, manifest.csv, pairs.csv and at    *)
(* last manifest.sha256.  The worker's queue and the event's markers are   *)
(* Recording's subject; here every job is there from the start, and each   *)
(* write may fail.                                                         *)
(*                                                                         *)
(* A frame is [sensor, stamp, form]: form is "good"; "odd", an encoding    *)
(* that cannot be converted; "bad", fields that contradict each other; or  *)
(* "huge", more than kMaxRecordBytes once serialized.                      *)
(* A file is named [sensor, stamp, dup, kind], dup being the suffix that   *)
(* keeps apart frames of one stamp; its content is the frame, if whole.    *)
(***************************************************************************)
EXTENDS Naturals, Sequences, SequencesExt, FiniteSets, Functions

CONSTANTS Batches,    \* the jobs of an event: sequences of frames, the last job last
          Options,    \* [compress, keepRaw, convert, sensors] of its jobs
          MaxFaults   \* bound: writes that fail

Frame == [sensor : {"camera", "lidar"}, stamp : Nat, form : {"good", "odd", "bad", "huge"}]

ASSUME FilesAssumption ==
    /\ MaxFaults \in Nat
    /\ \A b \in Batches : b \in Seq(Seq(Frame)) /\ b # <<>>
    /\ \A o \in Options : /\ {o.compress, o.keepRaw, o.convert} \subseteq BOOLEAN
                          /\ o.sensors \subseteq {"camera", "lidar"}

VARIABLES
    jobs,      \* frames still to write, job by job
    option,    \* the options of the jobs
    files,     \* content of each file; manifest.csv and pairs.csv apart
    rows,      \* the rows of manifest.csv
    pairs,     \* pairs.csv: "none", "whole" or "damaged"
    sums,      \* manifest.sha256: what each listed file held, or NoSums
    outcome,   \* [started, failed, persisted, state] of the event
    faults,    \* writes that have failed
    handed,    \* history: frames of the jobs that the options ask for
    seal       \* history: manifest.sha256 as it was written

filesVars == <<jobs, option, files, rows, pairs, sums, outcome, faults, handed, seal>>

NoFiles == [n \in {} |-> {}]
NoSums == [there |-> FALSE, files |-> NoFiles, rows |-> <<>>, pairs |-> "none", garbled |-> FALSE]

FilesInit ==
    /\ \E b \in Batches, o \in Options :
           /\ jobs = b /\ option = o
           /\ handed = {f \in UNION {ToSet(b[i]) : i \in DOMAIN b} : f.sensor \in o.sensors}
    /\ files = NoFiles /\ rows = <<>> /\ pairs = "none" /\ sums = NoSums /\ seal = NoSums
    /\ outcome = [started |-> FALSE, failed |-> FALSE, persisted |-> 0, state |-> "pending"]
    /\ faults = 0

Name(f, dup, kind) == [sensor |-> f.sensor, stamp |-> f.stamp, dup |-> dup, kind |-> kind]
Holding(f) == [frame |-> f, whole |-> TRUE]

(* The name is taken from the stamp alone.                                 *)
FirstName(f) == 0

(* The first suffix whose .bin and .bin.zst do not exist yet.              *)
FreshName(f) ==
    CHOOSE d \in 0..Cardinality(DOMAIN files) :
        /\ \A k \in {"bin", "zst"} : Name(f, d, k) \notin DOMAIN files
        /\ \A e \in 0..(d - 1) : \E k \in {"bin", "zst"} : Name(f, e, k) \in DOMAIN files

(* writeAtomically: the whole file appears under its name, or nothing.     *)
With(fs, n, f) == [m \in DOMAIN fs \union {n} |-> IF m = n THEN Holding(f) ELSE fs[m]]

(* convertImage refuses an image whose fields contradict each other and an *)
(* encoding it does not know; convertPointCloud leaves every cloud to PCL. *)
(* Encoding and writing may fail, and OpenCV and PCL may throw.            *)
Conversions(f) ==
    IF ~option.convert \/ (f.sensor = "camera" /\ f.form \in {"odd", "bad"})
    THEN {"none"}
    ELSE {"copy", "none", "throw"}

(* What each step costs in failed writes.                                  *)
Cost(failures) == Cardinality({i \in DOMAIN failures : failures[i]})
Spend(failures) ==
    /\ faults + Cost(failures) <= MaxFaults
    /\ faults' = faults + Cost(failures)

(* The head of writeJob: space, directory and manifest.csv; then the rows  *)
(* of pairs.csv, whose loss does not stop the job.                         *)
StartJob ==
    /\ jobs # <<>> /\ ~outcome.started
    /\ \E step \in {"refused", "no pairs", "pairs", "pairs lost"} :
       /\ Spend(<<step \in {"refused", "pairs lost"}>>)
       /\ outcome' = [outcome EXCEPT !.started = TRUE,
                                     !.failed = @ \/ step \in {"refused", "pairs lost"}]
       /\ pairs' = IF step = "pairs" THEN "whole" ELSE pairs
       /\ jobs' = IF step = "refused" THEN <<<<>>>> \o Tail(jobs) ELSE jobs
    /\ UNCHANGED <<option, files, rows, sums, handed, seal>>

SkipRecord == jobs' = <<Tail(Head(jobs))>> \o Tail(jobs)
DropJob == jobs' = <<<<>>>> \o Tail(jobs)

(* A lost record is only logged.                                           *)
RecordLostQuietly == UNCHANGED outcome

(* The event fails, whatever else is written.                              *)
RecordLost == outcome' = [outcome EXCEPT !.failed = TRUE]

(* One round of the record loop.  A compressed file that cannot be written *)
(* leaves the raw one; without a file there is no row; a conversion that   *)
(* fails leaves an empty column; a row that fails ends the job.            *)
WriteRecord ==
    /\ jobs # <<>> /\ outcome.started /\ Head(jobs) # <<>>
    /\ LET f == Head(Head(jobs))
           dup == FreshName(f) IN
       IF f.sensor \notin option.sensors
       THEN SkipRecord /\ UNCHANGED <<files, rows, outcome, faults>>
       ELSE
       \E noZst, noRaw, noRow \in BOOLEAN, copy \in Conversions(f) :
         LET zst   == option.compress /\ ~noZst
             raw   == ~zst \/ option.keepRaw
             zsted == IF zst THEN With(files, Name(f, dup, "zst"), f) ELSE files
             rawed == IF raw /\ ~noRaw THEN With(zsted, Name(f, dup, "bin"), f) ELSE zsted
             done  == IF copy = "copy" THEN With(rawed, Name(f, dup, "copy"), f) ELSE rawed
         IN /\ noZst => option.compress
            /\ Spend(<<noZst, noRaw, noRow>>)
            /\ \/ /\ raw /\ noRaw /\ ~noRow /\ copy = "none"
                  /\ files' = rawed /\ SkipRecord /\ RecordLost /\ UNCHANGED rows
               \/ /\ ~noRaw /\ ~noRow /\ copy = "throw"
                  /\ files' = rawed /\ DropJob /\ RecordLost /\ UNCHANGED rows
               \/ /\ ~noRaw /\ noRow /\ copy # "throw"
                  /\ files' = done /\ DropJob /\ RecordLost /\ UNCHANGED rows
               \/ /\ ~noRaw /\ ~noRow /\ copy # "throw"
                  /\ files' = done /\ SkipRecord
                  /\ rows' = Append(rows,
                        [sensor |-> f.sensor, stamp |-> f.stamp, torn |-> FALSE,
                         file |-> Name(f, dup, IF zst THEN "zst" ELSE "bin")])
                  /\ outcome' = [outcome EXCEPT !.persisted = @ + 1]
    /\ UNCHANGED <<option, pairs, sums, handed, seal>>

(* The subdirectories of the copies are not entered.                       *)
FlatListing ==
    [there |-> TRUE, rows |-> rows, pairs |-> pairs, garbled |-> FALSE,
     files |-> Restrict(files, {n \in DOMAIN files : n.kind # "copy"})]

(* writeChecksumManifest lists what is in the directory.                   *)
Listing == [there |-> TRUE, files |-> files, rows |-> rows, pairs |-> pairs, garbled |-> FALSE]

(* The end of writeJob, and run up to the marker: the last job seals the   *)
(* event, if all went well and there is something to seal.                 *)
FinishJob ==
    /\ jobs # <<>> /\ outcome.started /\ Head(jobs) = <<>>
    /\ jobs' = Tail(jobs)
    /\ \E lost, unsealed \in BOOLEAN :
       LET last == Len(jobs) = 1
           ok   == ~outcome.failed /\ ~lost /\ (last => outcome.persisted > 0)
       IN  /\ Spend(<<lost, unsealed>>)
           /\ unsealed => last /\ ok
           /\ sums' = IF last /\ ok /\ ~unsealed THEN Listing ELSE sums
           /\ outcome' = [outcome EXCEPT !.started = FALSE, !.failed = ~ok \/ unsealed]
    /\ seal' = sums'
    /\ UNCHANGED <<option, files, rows, pairs, handed>>

(* .complete or .failed; an event whose .complete cannot be written is     *)
(* failed although it is sealed.  (If .failed cannot be written either it  *)
(* stays pending: the step is not taken.)                                  *)
MarkEvent ==
    /\ jobs = <<>> /\ outcome.state = "pending"
    /\ \E unmarked \in BOOLEAN :
       /\ unmarked => ~outcome.failed
       /\ Spend(<<unmarked>>)
       /\ outcome' = [outcome EXCEPT !.state =
                          IF outcome.failed \/ unmarked THEN "failed" ELSE "complete"]
    /\ UNCHANGED <<jobs, option, files, rows, pairs, sums, handed, seal>>

FilesNext == StartJob \/ WriteRecord \/ FinishJob \/ MarkEvent
=============================================================================
