---------------------------- MODULE RecordReader ----------------------------
(***************************************************************************)
(* record_reader, a program of its own that reads an event directory back: *)
(* export, then verify, each if asked for.  It may run while the recorder  *)
(* still writes, and after the recorder is done files may be damaged (a    *)
(* bad disk, a copy that broke off, a directory half deleted).             *)
(***************************************************************************)
EXTENDS RecordFiles

CONSTANTS Commands,   \* command lines: [verify, export, sensor, limit]
          MaxDamage   \* bound: accidents that befall the finished directory

(* sensor is "both" without --sensor, limit is 0 without --limit.  With    *)
(* neither --verify nor --export the program only prints.                  *)
ASSUME ReaderAssumption ==
    /\ MaxDamage \in Nat
    /\ \A c \in Commands : c.verify \/ c.export
    /\ Commands \subseteq [verify : BOOLEAN, export : BOOLEAN, limit : Nat,
                           sensor : {"both", "camera", "lidar"}]

VARIABLES
    reader,    \* the program: [at, opt, listed, bad, exit, out,
               \* unwritten, verified]; unwritten is history: a write failed
    damage,    \* accidents so far
    start      \* history: the directory when the reader started

readerVars == <<reader, start>>
vars == <<filesVars, readerVars, damage>>

NoCommand == [verify |-> FALSE, export |-> FALSE, limit |-> 0, sensor |-> "both"]
Idle == [at |-> "idle", opt |-> NoCommand, listed |-> NoSums, bad |-> FALSE, exit |-> 0,
         out |-> NoFiles, unwritten |-> FALSE, verified |-> FALSE]

Unread == [sealed |-> FALSE, data |-> FALSE, sums |-> FALSE, damage |-> 0]

Init == FilesInit /\ reader = Idle /\ damage = 0 /\ start = Unread

(* Each listed file, then the set of the files there.                      *)
MatchesListing(listed) ==
    /\ files = listed.files /\ rows = listed.rows /\ pairs = listed.pairs

StartReader(c) ==
    /\ reader.at = "idle"
    /\ reader' = [Idle EXCEPT !.at = IF c.export THEN "export" ELSE "sums", !.opt = c]
    /\ start' = [sealed |-> seal.there,
                 damage |-> damage,
                 data   |-> ~MatchesListing(seal), sums |-> sums # seal]
    /\ UNCHANGED <<filesVars, damage>>

Wanted(r) == reader.opt.sensor \in {"both", r.sensor}

(* readManifest: a row that does not parse is left out.                    *)
Entries == {r \in ToSet(rows) : ~r.torn}

(* loadRecordBytes and deserializeMessage.  A record above kMaxRecordBytes *)
(* is refused, which nothing stops the recorder from writing.  The         *)
(* checksum of a zstd frame shows any damage; a damaged raw file may still *)
(* parse (luck).                                                           *)
Readable(r, luck) ==
    /\ r.file \in DOMAIN files
    /\ IF files[r.file].whole THEN files[r.file].frame.form # "huge"
                              ELSE r.file.kind = "bin" /\ luck

(* exportImage refuses what convertImage refuses.  exportPointCloud leaves *)
(* it to PCL, which may or may not cope with contradictory fields.         *)
Exportable(f, luck) ==
    \/ f.form \in {"good", "huge"}
    \/ f.sensor = "lidar" /\ (f.form = "odd" \/ luck)

(* The directory to export to cannot be made; or OpenCV or PCL throws,     *)
(* which nothing catches: exit code 1 stands for this end too.             *)
ExportRefused ==
    /\ reader.at = "export"
    /\ reader' = [reader EXCEPT !.at = "done", !.exit = 1]
    /\ UNCHANGED <<filesVars, damage, start>>

(* A file that cannot be written goes unnoticed.                           *)
NotWrittenQuietly(acc, name) ==
    [acc EXCEPT !.unwritten = TRUE, !.out = [n \in DOMAIN @ \ {name} |-> @[n]]]

(* imwrite or savePCDFileBinary fails: there is no file of that name then. *)
NotWritten(acc, name) ==
    [acc EXCEPT !.exit = 2, !.unwritten = TRUE,
                !.out = [n \in DOMAIN @ \ {name} |-> @[n]]]

(* One round of the export loop, acc being what the rounds before left.    *)
(* The limit counts what was exported; a file is named after sensor and    *)
(* stamp, so a second frame of a stamp replaces the first.                 *)
ExportRow(acc, r, luck, lost) ==
    LET name   == [sensor |-> r.sensor, stamp |-> r.stamp]
        enough == reader.opt.limit # 0 /\ acc.count >= reader.opt.limit
    IN  IF r \notin Entries \/ ~Wanted(r) \/ enough THEN acc
        ELSE IF ~Readable(r, luck) \/ ~Exportable(files[r.file].frame, luck)
        THEN [acc EXCEPT !.exit = 2]
        ELSE IF r \in lost THEN NotWritten(acc, name)
        ELSE [acc EXCEPT
                 !.count = @ + 1,
                 !.out = [n \in DOMAIN @ \union {name} |->
                              IF n = name THEN files[r.file] ELSE @[n]]]

(* The loop over the rows of manifest.csv; the files of the rows in lost   *)
(* cannot be written.                                                      *)
ExportRows(luck, lost) ==
    LET after[n \in 0..Len(rows)] ==
            IF n = 0 THEN [count |-> 0, exit |-> 0, unwritten |-> FALSE, out |-> NoFiles]
            ELSE ExportRow(after[n - 1], rows[n], luck, lost)
    IN  after[Len(rows)]

Export ==
    /\ reader.at = "export"
    /\ \E luck \in BOOLEAN, lost \in SUBSET ToSet(rows) :
       LET end == ExportRows(luck, lost)
       IN  reader' = [reader EXCEPT !.exit = end.exit, !.out = end.out,
                                    !.unwritten = end.unwritten,
                                    !.at = IF reader.opt.verify THEN "sums" ELSE "done"]
    /\ UNCHANGED <<filesVars, damage, start>>

(* The first half of verifyChecksumManifest: the lines of manifest.sha256. *)
ReadSums ==
    /\ reader.at = "sums"
    /\ reader' = [reader EXCEPT !.at = "compare", !.listed = sums,
                                !.bad = ~sums.there \/ sums.garbled]
    /\ UNCHANGED <<filesVars, damage, start>>

(* The second half, over the files.                                        *)
Compare ==
    /\ reader.at = "compare"
    /\ reader' = [reader EXCEPT !.at = "entries", !.bad = @ \/ ~MatchesListing(reader.listed)]
    /\ UNCHANGED <<filesVars, damage, start>>

(* The fields of a message that verifyEventDirectory looks at.             *)
Consistent(f) == f.form # "bad"

(* The rest of verifyEventDirectory, and the exit code.  No entry of the   *)
(* sensor asked for is a failure too.                                      *)
VerifyEntries ==
    /\ reader.at = "entries"
    /\ \E luck \in BOOLEAN :
       LET mine == {r \in Entries : Wanted(r)}
           ok == /\ ~reader.bad /\ Entries = ToSet(rows) /\ mine # {}
                 /\ \A r \in mine : Readable(r, luck) /\ Consistent(files[r.file].frame)
       IN  reader' = [reader EXCEPT !.at = "done", !.verified = ok,
                                    !.exit = IF ok THEN @ ELSE 2]
    /\ UNCHANGED <<filesVars, damage, start>>

(***************************************************************************)
(* Accidents, once the recorder has sealed the directory and marked it;    *)
(* those that come after the reader has ended show nothing.                *)
(***************************************************************************)

LoseFile ==
    \E n \in DOMAIN files \intersect DOMAIN seal.files :
        /\ files' = [m \in DOMAIN files \ {n} |-> files[m]]
        /\ UNCHANGED <<rows, pairs, sums>>

SpoilFile ==
    \E n \in DOMAIN files :
        /\ files[n].whole
        /\ files' = [files EXCEPT ![n].whole = FALSE]
        /\ UNCHANGED <<rows, pairs, sums>>

StrayFile ==
    /\ files' = With(files, [sensor |-> "camera", stamp |-> 0, dup |-> 0, kind |-> "bin"],
                     [sensor |-> "camera", stamp |-> 0, form |-> "good"])
    /\ files' # files
    /\ UNCHANGED <<rows, pairs, sums>>

SpoilRows ==
    /\ rows # <<>>
    /\ rows' \in {SubSeq(rows, 1, Len(rows) - 1), [rows EXCEPT ![Len(rows)].torn = TRUE]}
    /\ rows' # rows
    /\ UNCHANGED <<files, pairs, sums>>

SpoilPairs ==
    /\ pairs # "none" /\ pairs' \in {"none", "damaged"} \ {pairs}
    /\ UNCHANGED <<files, rows, sums>>

(* manifest.sha256 is lost, broken inside a line, or cut after a line.     *)
SpoilSums ==
    /\ sums.there
    /\ \/ sums' = NoSums
       \/ sums' = [sums EXCEPT !.garbled = TRUE]
       \/ \E n \in DOMAIN sums.files :
              sums' = [sums EXCEPT !.files = [m \in DOMAIN @ \ {n} |-> @[m]]]
    /\ sums' # sums
    /\ UNCHANGED <<files, rows, pairs>>

Accident ==
    /\ seal.there /\ outcome.state # "pending"
    /\ reader.at # "done" /\ damage < MaxDamage
    /\ damage' = damage + 1
    /\ LoseFile \/ SpoilFile \/ StrayFile \/ SpoilRows \/ SpoilPairs \/ SpoilSums
    /\ UNCHANGED <<jobs, option, outcome, faults, handed, seal, readerVars>>

Write == FilesNext /\ UNCHANGED <<readerVars, damage>>

Next == Write \/ (\E c \in Commands : StartReader(c)) \/ ExportRefused \/ Export \/ ReadSums
        \/ Compare \/ VerifyEntries \/ Accident

Spec == Init /\ [][Next]_vars

-----------------------------------------------------------------------------
(***************************************************************************)
(* Properties                                                              *)
(***************************************************************************)

(* The type invariant: every row names a file of its own frame's sensor    *)
(* and stamp, and no two rows name the same file.                          *)
TypeOK ==
    /\ outcome.state \in {"pending", "complete", "failed"}
    /\ faults \in 0..MaxFaults /\ damage \in 0..MaxDamage
    /\ reader.at \in {"idle", "export", "sums", "compare", "entries", "done"}
    /\ reader.exit \in 0..2 /\ pairs \in {"none", "whole", "damaged"}
    /\ \A i \in DOMAIN rows : /\ rows[i].file.sensor = rows[i].sensor
                              /\ rows[i].file.stamp = rows[i].stamp
    /\ \A i, j \in DOMAIN rows : rows[i].file = rows[j].file => i = j

Verified == reader.at = "done" /\ reader.opt.verify /\ reader.exit # 1

Asked == {f \in handed : reader.opt.sensor \in {"both", f.sensor}}

(* Verifying a sealed directory that nothing has befallen succeeds if the  *)
(* sensor asked for has records, and all came from it with fields that fit *)
(* each other and below the limit on the size of a record: whatever        *)
(* options they were written with, however often a compressed or converted *)
(* file could not be written, and even if .complete could not.             *)
WrittenReadsBack ==
    Verified /\ start.sealed /\ damage = 0 =>
        (Asked # {} /\ (\A f \in Asked : f.form \in {"good", "odd"}) => reader.verified)

(* What can be written can be read back, whatever the sensor sent: the     *)
(* promise of USER_GUIDE.md and of the head of record_io.hpp.              *)
WrittenIsAccepted ==
    Verified /\ start.sealed /\ damage = 0 => (Asked # {} => reader.verified)

(* Exit code 0 means whole: the recorder had sealed the directory, and     *)
(* every frame it was given is stored in a file and listed in a row, at    *)
(* whatever moment of the recording the reader started; and if it started  *)
(* on a sealed directory that nothing befell while it ran, no accident     *)
(* before had hit the files alone or manifest.sha256 alone (a cut of       *)
(* manifest.sha256 between two lines that fits the files lost is beyond    *)
(* it).                                                                    *)
ExitZeroMeansWhole ==
    Verified /\ reader.verified =>
        /\ seal.there
        /\ \A f \in handed : \E n \in DOMAIN seal.files :
               /\ seal.files[n] = Holding(f)
               /\ \E r \in ToSet(seal.rows) : r.file = n
        /\ start.sealed /\ start.damage = damage => (start.data <=> start.sums)

Exported == /\ reader.opt.export /\ reader.exit # 1
            /\ reader.at = "sums" \/ (reader.at = "done" /\ ~reader.opt.verify)

(* Exporting a sealed directory that nothing has befallen ends with 0 if   *)
(* every frame of the sensor asked for can be shown and every file could   *)
(* be written; and 0 without a limit means that there is a file for every  *)
(* stamp of that sensor, holding a frame of that stamp.  Of several frames *)
(* of one stamp only one file is left: the names lack the suffix that the  *)
(* record files have.                                                      *)
ExportCoversStamps ==
    Exported /\ start.sealed /\ damage = 0 =>
        /\ (\A f \in Asked : f.form = "good") /\ ~reader.unwritten => reader.exit = 0
        /\ reader.exit = 0 /\ reader.opt.limit = 0 =>
               \A f \in Asked : \E n \in DOMAIN reader.out :
                   /\ n.sensor = f.sensor /\ n.stamp = f.stamp
                   /\ reader.out[n].frame \in {g \in Asked : g.stamp = f.stamp}
=============================================================================
