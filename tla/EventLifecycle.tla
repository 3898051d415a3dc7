--------------------------- MODULE EventLifecycle ---------------------------
(***************************************************************************)
(* The status channel of datacache_node: an accepted trigger gets an entry *)
(* in eventLifecycles_, and a timer looks at the marker files of its       *)
(* directory to publish STORED, UPLOADED and the failures.  The recorder,  *)
(* the upload worker and retention change the markers meanwhile, on their  *)
(* own threads; they appear here by what they do to the markers.           *)
(* keyboard_trigger_node listens: it keeps an entry for every key it sent  *)
(* on, until a status ends it.                                             *)
(***************************************************************************)
EXTENDS Naturals, Sequences, FiniteSets, SequencesExt

CONSTANTS Capture,        \* captures, one per accepted trigger
          Keyed,          \* those triggered by a key of keyboard_trigger_node
          MaxGiveUps      \* bound: times the uploader gives up on each capture

ASSUME LifecycleAssumption ==
    MaxGiveUps \in [Capture -> Nat] /\ Keyed \subseteq Capture /\ "none" \notin Capture

VARIABLES
    config,   \* [upload, retry, wait]: uploadEnabled_, uploadFailureAutoRetry_
              \* and the keyboard's waitForUpload_
    entry,    \* eventLifecycles_: [there, stored, uploadFailure]
    overdue,  \* accepted more than five minutes ago
    poll,     \* the timer callback: [at, look, seen]
    log,      \* statuses published for each capture
    key,      \* its key: "up", "noted" in pending_, then also "sent"; or "gone"
    replaced, \* history: captures whose entry a later trigger of their id took
    result,   \* how the recording of each capture ended
    marks,    \* marker files of each directory
    giveUps   \* times the uploader has given up on each capture

filesVars == <<result, marks, giveUps>>
channelVars == <<entry, overdue, poll, log, key, replaced>>
vars == <<config, channelVars, filesVars>>

(* The markers in the order in which pollEventLifecycles looks for them.   *)
Order == <<"complete", "failed", "uploaded", "upload_failed">>
Marks == ToSet(Order)

NoEntry == [there |-> FALSE, stored |-> FALSE, uploadFailure |-> FALSE]
NoPoll == [at |-> "none", look |-> 0, seen |-> {}]

(* createUploader: without uploads the retry flag keeps its default, TRUE.  *)
Configs == {c \in [upload : BOOLEAN, retry : BOOLEAN, wait : BOOLEAN] : c.upload \/ c.retry}

Init ==
    /\ config \in Configs
    /\ entry = [c \in Capture |-> NoEntry] /\ overdue = {} /\ poll = NoPoll
    /\ log = [c \in Capture |-> <<>>] /\ replaced = {}
    /\ key = [c \in Capture |-> IF c \in Keyed THEN "up" ELSE "gone"]
    /\ result = [c \in Capture |-> "none"]
    /\ marks = [c \in Capture |-> {}] /\ giveUps = [c \in Capture |-> 0]

(***************************************************************************)
(* keyboard_trigger_node                                                   *)
(***************************************************************************)

(* handleKey and sendTrigger: the entry is made, then the signal published.*)
NotePending(c) == key[c] = "up" /\ key' = [key EXCEPT ![c] = "noted"]
PublishSignal(c) == key[c] = "noted" /\ key' = [key EXCEPT ![c] = "sent"]

(* The statuses on which handleStatus erases the entry.                    *)
Ends(s) == \/ s \in {"UPLOADED", "REJECTED", "RECORD_FAILED", "UPLOAD_FAILED"}
           \/ s = "STORED" /\ ~config.wait

(* Publishing statuses about c.  The topic is reliable and pending_ changes*)
(* with nothing else but the timeout below, so handleStatus is taken along.*)
Publish(c, statuses) ==
    /\ log' = [log EXCEPT ![c] = @ \o statuses]
    /\ key' = [key EXCEPT ![c] =
                  IF @ = "sent" /\ \E s \in ToSet(statuses) : Ends(s) THEN "gone" ELSE @]

(* prunePending: the entry is older than pending_timeout_ms.               *)
PrunePending(c) == key[c] = "sent" /\ key' = [key EXCEPT ![c] = "gone"]

Keyboard(c) == /\ NotePending(c) \/ PublishSignal(c) \/ PrunePending(c)
               /\ UNCHANGED <<config, entry, overdue, poll, log, replaced, filesVars>>

(***************************************************************************)
(* The end of handleTrigger, on the same executor as the timer.            *)
(***************************************************************************)

Arrived(c) == poll = NoPoll /\ result[c] = "none" /\ key[c] \notin {"up", "noted"}

(* An accepted trigger.  Its id may be that of an earlier one which has    *)
(* left the table of answers but not eventLifecycles_.                     *)
Accept(c) ==
    /\ Arrived(c)
    /\ result' = [result EXCEPT ![c] = "open"]
    /\ Publish(c, <<"ACCEPTED">>)
    /\ \E old \in {{}} \cup {{o} : o \in {o \in Capture : entry[o].there}} :
           /\ entry' = [o \in Capture |-> IF o = c THEN [NoEntry EXCEPT !.there = TRUE]
                                          ELSE IF o \in old THEN NoEntry ELSE entry[o]]
           /\ replaced' = replaced \cup old
    /\ UNCHANGED <<config, overdue, poll, marks, giveUps>>

(* A trigger that the router (invalid, duplicate, cooling down, service    *)
(* away) or the service turns down.  RECEIVED, which nobody acts on, is    *)
(* left out.                                                               *)
Reject(c) ==
    /\ Arrived(c)
    /\ result' = [result EXCEPT ![c] = "refused"]
    /\ Publish(c, <<"REJECTED">>)
    /\ UNCHANGED <<config, entry, overdue, poll, replaced, marks, giveUps>>

(***************************************************************************)
(* pollEventLifecycles                                                     *)
(***************************************************************************)

(* As below, for a capture that has no entry any more.                     *)
StartPollAnyway(c) ==
    /\ poll = NoPoll /\ result[c] # "none"
    /\ poll' = [at |-> c, look |-> 1, seen |-> {}]
    /\ UNCHANGED <<config, entry, overdue, log, key, replaced, filesVars>>

(* The entry the callback turns to.                                        *)
StartPoll(c) ==
    /\ poll = NoPoll /\ entry[c].there
    /\ poll' = [at |-> c, look |-> 1, seen |-> {}]
    /\ UNCHANGED <<config, entry, overdue, log, key, replaced, filesVars>>

(* One exists() after the other.                                           *)
Look ==
    /\ poll.at \in Capture /\ poll.look <= Len(Order)
    /\ poll' = [poll EXCEPT !.look = @ + 1,
                            !.seen = @ \cup (marks[poll.at] \cap {Order[poll.look]})]
    /\ UNCHANGED <<config, entry, overdue, log, key, replaced, filesVars>>

(* As below, only when uploads are enabled.                                *)
TimedOutUploading(seen, late) == config.upload /\ "complete" \notin seen /\ late

(* The recording has not been completed in five minutes.                   *)
TimedOut(seen, late) == "complete" \notin seen /\ late

(* What is published and what becomes of the entry, from what was seen.    *)
Verdict(e, seen, late) ==
    LET stored == e.stored \/ "complete" \in seen
        newFailure == "upload_failed" \in seen /\ ~e.uploadFailure
        Stored == IF "complete" \in seen /\ ~e.stored THEN <<"STORED">> ELSE <<>>
        Keep(out) == [say |-> Stored \o out, entry |->
                         [there |-> TRUE, stored |-> stored,
                          uploadFailure |-> "upload_failed" \in seen]]
        Drop(out) == [say |-> Stored \o out, entry |-> NoEntry]
        Failure == IF newFailure THEN <<"UPLOAD_RETRYING">> ELSE <<>>
    IN CASE "failed" \in seen -> Drop(<<"RECORD_FAILED">>)
         [] "failed" \notin seen /\ "uploaded" \in seen -> Drop(<<"UPLOADED">>)
         [] seen \cap {"failed", "uploaded"} = {} /\ newFailure /\ ~config.retry
              -> Drop(<<"UPLOAD_FAILED">>)
         [] OTHER ->
              IF ~config.upload /\ stored THEN Drop(Failure)
              ELSE IF TimedOut(seen, late) THEN Drop(Failure \o <<"RECORD_FAILED">>)
              ELSE Keep(Failure)

(* As Decide below, without erasing the entry ...                          *)
DecideWithoutErase ==
    LET c == poll.at
        v == Verdict(entry[c], poll.seen, c \in overdue)
    IN /\ c \in Capture /\ poll.look > Len(Order)
       /\ entry' = [entry EXCEPT ![c] = IF v.entry.there THEN v.entry ELSE @]
       /\ Publish(c, v.say)
       /\ poll' = NoPoll
       /\ UNCHANGED <<config, overdue, replaced, filesVars>>

(* ... and without remembering that the upload failure was announced.      *)
DecideForgetfully ==
    LET c == poll.at
        v == Verdict(entry[c], poll.seen, c \in overdue)
    IN /\ c \in Capture /\ poll.look > Len(Order)
       /\ entry' = [entry EXCEPT ![c] = [v.entry EXCEPT !.uploadFailure = FALSE]]
       /\ Publish(c, v.say)
       /\ poll' = NoPoll
       /\ UNCHANGED <<config, overdue, replaced, filesVars>>

(* The statuses are published and the entry updated or erased.             *)
Decide ==
    LET c == poll.at
        v == Verdict(entry[c], poll.seen, c \in overdue)
    IN /\ c \in Capture /\ poll.look > Len(Order)
       /\ entry' = [entry EXCEPT ![c] = v.entry]
       /\ Publish(c, v.say)
       /\ poll' = NoPoll
       /\ UNCHANGED <<config, overdue, replaced, filesVars>>

(* Five minutes have passed since the trigger was accepted.                *)
GrowOverdue(c) ==
    /\ entry[c].there /\ c \notin overdue
    /\ overdue' = overdue \cup {c}
    /\ UNCHANGED <<config, entry, poll, log, key, replaced, filesVars>>

(***************************************************************************)
(* The other threads, as far as the markers show it                        *)
(***************************************************************************)

SetMarks(c, m) == marks' = [marks EXCEPT ![c] = m] /\ UNCHANGED <<config, channelVars>>

(* As below, with .complete left beside .failed.                           *)
CloseLeavingComplete(c, r) ==
    /\ result[c] = "open"
    /\ result' = [result EXCEPT ![c] = r]
    /\ SetMarks(c, {"complete", r})
    /\ UNCHANGED giveUps

(* RawStorageWorker closes the event.                                      *)
CloseRecording(c, r) ==
    /\ result[c] = "open"
    /\ result' = [result EXCEPT ![c] = r]
    /\ SetMarks(c, {r})
    /\ UNCHANGED giveUps

(* UploadWorker succeeds, or gives up, or takes the directory up again.    *)
Unuploaded(c) == config.upload /\ "complete" \in marks[c] /\ "uploaded" \notin marks[c]

FinishUpload(c) ==
    /\ Unuploaded(c) /\ "upload_failed" \notin marks[c]
    /\ SetMarks(c, marks[c] \cup {"uploaded"})
    /\ UNCHANGED <<result, giveUps>>

GiveUpUpload(c) ==
    /\ Unuploaded(c) /\ "upload_failed" \notin marks[c]
    /\ giveUps[c] < MaxGiveUps[c]
    /\ giveUps' = [giveUps EXCEPT ![c] = @ + 1]
    /\ SetMarks(c, marks[c] \cup {"upload_failed"})
    /\ UNCHANGED result

RescanUpload(c) ==
    /\ config.retry /\ Unuploaded(c) /\ "upload_failed" \in marks[c]
    /\ SetMarks(c, marks[c] \ {"upload_failed"})
    /\ UNCHANGED <<result, giveUps>>

(* DiskSpaceManager deletes a closed directory.                            *)
DeleteDirectory(c) ==
    /\ marks[c] \cap {"complete", "failed"} # {} /\ ~Unuploaded(c)
    /\ SetMarks(c, {})
    /\ UNCHANGED <<result, giveUps>>

Poll == (\E c \in Capture : StartPoll(c)) \/ Look \/ Decide

Outside(c) == \/ \E r \in {"complete", "failed"} : CloseRecording(c, r)
              \/ FinishUpload(c) \/ GiveUpUpload(c) \/ RescanUpload(c)
              \/ DeleteDirectory(c)

Next == \/ Poll
        \/ \E c \in Capture : \/ Keyboard(c) \/ Accept(c) \/ Reject(c)
                              \/ GrowOverdue(c) \/ Outside(c)

Spec == Init /\ [][Next]_vars

(* The timer visits every entry; time passes; uploads come to an end, as   *)
(* they do while the receiver answers.  A recording may never be closed.   *)
FairSpec ==
    /\ Spec
    /\ WF_vars(Look) /\ WF_vars(Decide)
    /\ \A c \in Capture : /\ SF_vars(StartPoll(c)) /\ WF_vars(GrowOverdue(c))
                          /\ WF_vars(FinishUpload(c) \/ GiveUpUpload(c))
                          /\ WF_vars(RescanUpload(c))

(***************************************************************************)
(* Properties                                                              *)
(***************************************************************************)

Verdicts == {"RECORD_FAILED", "UPLOADED", "UPLOAD_FAILED"}

TypeOK ==
    /\ config \in Configs
    /\ entry \in [Capture -> [there : BOOLEAN, stored : BOOLEAN, uploadFailure : BOOLEAN]]
    /\ overdue \cup replaced \subseteq Capture
    /\ key \in [Capture -> {"up", "noted", "sent", "gone"}]
    /\ poll.at = "none" \/ entry[poll.at].there
    /\ poll.look \in 0 .. Len(Order) + 1 /\ poll.seen \subseteq Marks
    /\ result \in [Capture -> {"none", "refused", "open", "complete", "failed"}]
    /\ marks \in [Capture -> SUBSET Marks]
    /\ \A c \in Capture : giveUps[c] \in 0 .. MaxGiveUps[c]

Said(c, s) == \E i \in DOMAIN log[c] : log[c][i] = s

(* Although the markers are read one by one while other threads write and  *)
(* delete them, the statuses of a capture are a lifecycle: ACCEPTED first, *)
(* STORED at most once, one verdict, and nothing after the verdict.        *)
LifecycleShape ==
    \A c \in Capture : log[c] # <<>> =>
        /\ log[c][1] = "ACCEPTED" \/ log[c] = <<"REJECTED">>
        /\ \A i, j \in DOMAIN log[c] :
               /\ log[c][i] = "STORED" /\ log[c][j] = "STORED" => i = j
               /\ log[c][i] \in Verdicts => i = Len(log[c]) /\ ~entry[c].there

(* A recording that failed is never reported as stored or uploaded, and an *)
(* upload is never reported before the recording is complete.              *)
GoodNewsIsTrue ==
    \A c \in Capture :
        Said(c, "STORED") \/ Said(c, "UPLOADED") => result[c] = "complete"

Announced(c) == {i \in DOMAIN log[c] : log[c][i] = "UPLOAD_RETRYING"}

(* A retry is announced once each time the uploader gives up, not at every *)
(* poll.                                                                   *)
RetryAnnouncedOnce == \A c \in Capture : Cardinality(Announced(c)) <= giveUps[c]

(* Every accepted trigger is brought to an end, whatever order the threads *)
(* work in: its entry leaves the table with STORED or a verdict, and with  *)
(* it the entry of the keyboard, which the timeout need not remove (it     *)
(* must where the keyboard waits for uploads and there are none).  Only an *)
(* id used again before the end leaves the first capture without one.      *)
EveryTriggerConcluded ==
    \A c \in Capture :
        entry[c].there ~> \/ c \in replaced
                          \/ /\ ~entry[c].there
                             /\ Said(c, "STORED") \/ \E v \in Verdicts : Said(c, v)
                             /\ key[c] = "gone" \/ (config.wait /\ ~config.upload)

(* The README's lifecycle: a recording reported as STORED is not reported  *)
(* as RECORD_FAILED afterwards.                                            *)
FailureIsTrue ==
    \A c \in Capture : Said(c, "RECORD_FAILED") => ~Said(c, "STORED")
=============================================================================
