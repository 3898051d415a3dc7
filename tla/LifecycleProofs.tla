-------------------------- MODULE LifecycleProofs --------------------------
(***************************************************************************)
(* Proofs about the status channel.  What pollEventLifecycles decides is   *)
(* first described by a lemma about Verdict alone; the invariant then says *)
(* how a capture's log, its entry, its markers and the half-finished look  *)
(* at them belong together.                                                *)
(***************************************************************************)
EXTENDS EventLifecycle, FiniteSetTheorems, TLAPS

(***************************************************************************)
(* The inductive invariant                                                 *)
(***************************************************************************)

Entry == [there : BOOLEAN, stored : BOOLEAN, uploadFailure : BOOLEAN]
Statuses == {"ACCEPTED", "REJECTED", "STORED", "UPLOAD_RETRYING"} \cup Verdicts

ChannelTypes ==
    /\ config \in Configs
    /\ entry \in [Capture -> Entry]
    /\ overdue \subseteq Capture /\ replaced \subseteq Capture
    /\ key \in [Capture -> {"up", "noted", "sent", "gone"}]
    /\ log \in [Capture -> Seq(Statuses)]

FileTypes ==
    /\ result \in [Capture -> {"none", "refused", "open", "complete", "failed"}]
    /\ marks \in [Capture -> SUBSET Marks]
    /\ \A c \in Capture : giveUps[c] \in 0 .. MaxGiveUps[c]
    /\ DOMAIN giveUps = Capture

(* The callback is at rest, or at an entry that is still there.            *)
PollTypes ==
    \/ poll = NoPoll
    \/ /\ poll \in [at : Capture, look : 1 .. 5, seen : SUBSET Marks]
       /\ entry[poll.at].there

LifecycleTypes == ChannelTypes /\ FileTypes /\ PollTypes

(* Markers, and what was seen of them, come from how the recording ended.  *)
MarksAreTrue ==
    /\ \A c \in Capture :
           /\ result[c] \in {"none", "refused", "open"} => marks[c] = {}
           /\ marks[c] \cap {"complete", "uploaded"} # {} => result[c] = "complete"
    /\ poll # NoPoll /\ poll.seen \cap {"complete", "uploaded"} # {}
           => result[poll.at] = "complete"

(* An entry is there between ACCEPTED and the verdict, and remembers that  *)
(* STORED was said.                                                        *)
EntryMatchesLog ==
    \A c \in Capture :
        /\ result[c] = "none" => log[c] = <<>> /\ ~entry[c].there
        /\ entry[c].there => /\ log[c] # <<>> /\ log[c][1] = "ACCEPTED"
                             /\ \A i \in DOMAIN log[c] :
                                    /\ log[c][i] \notin Verdicts
                                    /\ log[c][i] = "STORED" => entry[c].stored

ShapeInv == MarksAreTrue /\ EntryMatchesLog /\ LifecycleShape /\ GoodNewsIsTrue

(* A failure of the uploader that is not announced yet has been counted.   *)
Unannounced(c) ==
    \/ entry[c].there /\ ~entry[c].uploadFailure /\ "upload_failed" \in marks[c]
    \/ entry[c].there /\ ~entry[c].uploadFailure /\ poll.at = c /\ "upload_failed" \in poll.seen
    \/ /\ poll.at = c /\ poll.look = 5
       /\ "upload_failed" \notin poll.seen /\ "upload_failed" \in marks[c]

RetryInv ==
    \A c \in Capture :
        /\ Cardinality(Announced(c)) <= giveUps[c]
        /\ Unannounced(c) => Cardinality(Announced(c)) + 1 <= giveUps[c]

(***************************************************************************)
(* What pollEventLifecycles decides                                        *)
(***************************************************************************)

(* The statuses of one decision: STORED first and only once, a verdict     *)
(* last and only with the end of the entry, each for what was seen.        *)
Says(say, e, seen, new) ==
    /\ say \in Seq(Statuses \ {"ACCEPTED", "REJECTED"})
    /\ \A k \in DOMAIN say :
           /\ say[k] = "STORED" => /\ k = 1 /\ "complete" \in seen /\ ~e.stored
                                   /\ new.there => new.stored
           /\ say[k] \in Verdicts => k = Len(say) /\ ~new.there
           /\ say[k] = "UPLOADED" => "uploaded" \in seen
           /\ say[k] = "UPLOAD_RETRYING" => "upload_failed" \in seen /\ ~e.uploadFailure
    /\ \A k, l \in DOMAIN say : say[k] = "UPLOAD_RETRYING" /\ say[l] = "UPLOAD_RETRYING" => k = l

(* Where the elements of a concatenation come from.                        *)
LEMMA Joined ==
    ASSUME NEW S, NEW s \in Seq(S), NEW t \in Seq(S)
    PROVE  /\ s \o t \in Seq(S) /\ Len(s \o t) = Len(s) + Len(t)
           /\ DOMAIN (s \o t) = 1 .. Len(s) + Len(t)
           /\ \A k \in 1 .. Len(s) : (s \o t)[k] = s[k]
           /\ \A k \in 1 .. Len(t) : (s \o t)[Len(s) + k] = t[k]
           /\ \A k \in DOMAIN (s \o t) :
                  \/ k \in DOMAIN s /\ (s \o t)[k] = s[k]
                  \/ \E l \in DOMAIN t : k = Len(s) + l /\ (s \o t)[k] = t[l]
<1>1. /\ s \o t \in Seq(S) /\ Len(s \o t) = Len(s) + Len(t)
      /\ \A k \in 1 .. Len(s) : (s \o t)[k] = s[k]
      /\ \A k \in 1 .. Len(t) : (s \o t)[Len(s) + k] = t[k]
  OBVIOUS
<1>2. /\ Len(s) \in Nat /\ Len(t) \in Nat /\ DOMAIN (s \o t) = 1 .. Len(s) + Len(t)
      /\ DOMAIN s = 1 .. Len(s) /\ DOMAIN t = 1 .. Len(t)
  BY <1>1
<1>3. ASSUME NEW k \in 1 .. Len(s) + Len(t), k \notin 1 .. Len(s)
      PROVE  \E l \in 1 .. Len(t) : k = Len(s) + l
  <2>1. k - Len(s) \in 1 .. Len(t) /\ k = Len(s) + (k - Len(s))
    BY <1>2, <1>3
  <2> QED BY <2>1
<1>4. ASSUME NEW k \in DOMAIN (s \o t)
      PROVE  \/ k \in DOMAIN s /\ (s \o t)[k] = s[k]
             \/ \E l \in DOMAIN t : k = Len(s) + l /\ (s \o t)[k] = t[l]
  <2>1. CASE k \in 1 .. Len(s)
    BY <1>1, <1>2, <2>1
  <2>2. CASE k \notin 1 .. Len(s)
    <3>1. PICK l \in 1 .. Len(t) : k = Len(s) + l
      BY <1>2, <1>3, <2>2
    <3>2. (s \o t)[k] = t[l] /\ l \in DOMAIN t
      BY <1>1, <1>2, <3>1
    <3> QED BY <3>1, <3>2
  <2> QED BY <2>1, <2>2
<1> QED BY <1>1, <1>2, <1>4

(* STORED, the news of a retry and a verdict, in this order.               *)
LEMMA SaidInOrder ==
    ASSUME NEW e, NEW seen, NEW n, NEW w \in Verdicts,
           NEW s \in {<<>>, <<"STORED">>}, NEW f \in {<<>>, <<"UPLOAD_RETRYING">>},
           NEW x \in {<<>>, <<w>>},
           s # <<>> => "complete" \in seen /\ ~e.stored /\ (n.there => n.stored),
           f # <<>> => "upload_failed" \in seen /\ ~e.uploadFailure,
           x # <<>> => ~n.there /\ (w = "UPLOADED" => "uploaded" \in seen)
    PROVE  Says(s \o (f \o x), e, seen, n)
<1> DEFINE S == Statuses \ {"ACCEPTED", "REJECTED"}
<1>1. "STORED" \in S /\ "UPLOAD_RETRYING" \in S /\ w \in S
  BY DEF Statuses, Verdicts
<1> HIDE DEF S
<1>2. /\ s \in Seq(S) /\ Len(s) \in {0, 1} /\ DOMAIN s = 1 .. Len(s)
      /\ \A k \in DOMAIN s : k = 1 /\ s[k] = "STORED" /\ s # <<>>
  <2>1. CASE s = <<>>
    BY <2>1
  <2>2. CASE s = <<"STORED">>
    BY <1>1, <2>2
  <2> QED BY <2>1, <2>2
<1>3. /\ f \in Seq(S) /\ Len(f) \in {0, 1} /\ DOMAIN f = 1 .. Len(f)
      /\ \A k \in DOMAIN f : k = 1 /\ f[k] = "UPLOAD_RETRYING" /\ f # <<>>
  <2>1. CASE f = <<>>
    BY <2>1
  <2>2. CASE f = <<"UPLOAD_RETRYING">>
    BY <1>1, <2>2
  <2> QED BY <2>1, <2>2
<1>4. /\ x \in Seq(S) /\ Len(x) \in {0, 1} /\ DOMAIN x = 1 .. Len(x)
      /\ \A k \in DOMAIN x : k = 1 /\ Len(x) = 1 /\ x[k] = w /\ x # <<>>
  <2>1. CASE x = <<>>
    BY <2>1
  <2>2. CASE x = <<w>>
    BY <1>1, <2>2
  <2> QED BY <2>1, <2>2
<1>5. /\ f \o x \in Seq(S) /\ Len(f \o x) = Len(f) + Len(x)
      /\ \A k \in DOMAIN (f \o x) :
             \/ k = 1 /\ f # <<>> /\ (f \o x)[k] = "UPLOAD_RETRYING"
             \/ k = Len(f \o x) /\ x # <<>> /\ (f \o x)[k] = w
  <2>1. /\ f \o x \in Seq(S) /\ Len(f \o x) = Len(f) + Len(x)
        /\ \A k \in DOMAIN (f \o x) :
               \/ k \in DOMAIN f /\ (f \o x)[k] = f[k]
               \/ \E l \in DOMAIN x : k = Len(f) + l /\ (f \o x)[k] = x[l]
    BY <1>3, <1>4, Joined
  <2> QED BY <1>3, <1>4, <2>1
<1>6. PICK g \in Seq(S) : g = f \o x
  BY <1>5
<1> DEFINE say == s \o g
<1>g. /\ Len(g) = Len(f) + Len(x) /\ DOMAIN g = 1 .. Len(g)
      /\ \A k \in DOMAIN g : \/ k = 1 /\ f # <<>> /\ g[k] = "UPLOAD_RETRYING"
                             \/ k = Len(g) /\ x # <<>> /\ g[k] = w
  BY <1>5, <1>6
<1>s. /\ say \in Seq(S) /\ Len(say) = Len(s) + Len(g) /\ DOMAIN say = 1 .. Len(say)
      /\ \A k \in DOMAIN say :
             \/ k = 1 /\ s # <<>> /\ say[k] = "STORED"
             \/ k = Len(s) + 1 /\ f # <<>> /\ say[k] = "UPLOAD_RETRYING"
             \/ k = Len(say) /\ x # <<>> /\ say[k] = w
  <2>1. /\ say \in Seq(S) /\ Len(say) = Len(s) + Len(g) /\ DOMAIN say = 1 .. Len(say)
        /\ \A k \in DOMAIN say :
               \/ k \in DOMAIN s /\ say[k] = s[k]
               \/ \E l \in DOMAIN g : k = Len(s) + l /\ say[k] = g[l]
    BY <1>2, Joined
  <2> HIDE DEF say
  <2>2. ASSUME NEW k \in DOMAIN say, NEW l \in DOMAIN g, k = Len(s) + l, say[k] = g[l]
        PROVE  \/ k = Len(s) + 1 /\ f # <<>> /\ say[k] = "UPLOAD_RETRYING"
               \/ k = Len(say) /\ x # <<>> /\ say[k] = w
    BY <1>g, <2>1, <2>2
  <2>3. ASSUME NEW k \in DOMAIN say, k \in DOMAIN s, say[k] = s[k]
        PROVE  k = 1 /\ s # <<>> /\ say[k] = "STORED"
    BY <1>2, <2>3
  <2> QED BY <2>1, <2>2, <2>3
<1> HIDE DEF say
<1>7. w # "STORED" /\ w # "UPLOAD_RETRYING"
  BY DEF Verdicts
<1>8. \A k \in DOMAIN say :
         /\ say[k] = "STORED" => k = 1 /\ s # <<>>
         /\ say[k] = "UPLOAD_RETRYING" => k = Len(s) + 1 /\ f # <<>>
         /\ say[k] \in Verdicts => k = Len(say) /\ x # <<>> /\ say[k] = w
  BY <1>7, <1>s DEF Verdicts
<1> QED BY <1>6, <1>8, <1>s DEF Says, say, S

(* A decision says STORED first and once, a verdict last, and only what    *)
(* was seen; the entry remembers what it must.                             *)
LEMMA Decides ==
    ASSUME NEW e \in Entry, NEW seen, NEW late
    PROVE  LET v == Verdict(e, seen, late)
           IN /\ v.entry \in Entry
              /\ Says(v.say, e, seen, v.entry)
              /\ v.entry.there =>
                     /\ e.stored => v.entry.stored
                     /\ v.entry.uploadFailure <=> "upload_failed" \in seen
<1> DEFINE stored == e.stored \/ "complete" \in seen
           newFailure == "upload_failed" \in seen /\ ~e.uploadFailure
           Stored == IF "complete" \in seen /\ ~e.stored THEN <<"STORED">> ELSE <<>>
           Failure == IF newFailure THEN <<"UPLOAD_RETRYING">> ELSE <<>>
           kept == [there |-> TRUE, stored |-> stored, uploadFailure |-> "upload_failed" \in seen]
           v == Verdict(e, seen, late)
<1>1. \/ "failed" \in seen /\ v = [say |-> Stored \o <<"RECORD_FAILED">>, entry |-> NoEntry]
      \/ "uploaded" \in seen /\ v = [say |-> Stored \o <<"UPLOADED">>, entry |-> NoEntry]
      \/ v = [say |-> Stored \o <<"UPLOAD_FAILED">>, entry |-> NoEntry]
      \/ v = [say |-> Stored \o Failure, entry |-> NoEntry]
      \/ v = [say |-> Stored \o (Failure \o <<"RECORD_FAILED">>), entry |-> NoEntry]
      \/ v = [say |-> Stored \o Failure, entry |-> kept]
  BY DEF Verdict
<1>2. NoEntry \in Entry /\ ~NoEntry.there
  BY DEF NoEntry, Entry
<1>3. /\ kept \in Entry /\ kept.there /\ (e.stored => kept.stored)
      /\ kept.uploadFailure <=> "upload_failed" \in seen
      /\ "complete" \in seen => kept.stored
  <2>1. kept \in Entry
    BY DEF Entry
  <2>2. kept.there /\ (e.stored => kept.stored) /\ ("complete" \in seen => kept.stored)
    OBVIOUS
  <2>3. kept.uploadFailure <=> "upload_failed" \in seen
    OBVIOUS
  <2> QED BY <2>1, <2>2, <2>3
<1>4. /\ Stored \in {<<>>, <<"STORED">>} /\ Failure \in {<<>>, <<"UPLOAD_RETRYING">>}
      /\ Stored # <<>> => "complete" \in seen /\ ~e.stored
      /\ Failure # <<>> => "upload_failed" \in seen /\ ~e.uploadFailure
  OBVIOUS
<1> HIDE DEF v, stored, kept, Stored, Failure
<1>5. /\ \A w \in Verdicts : <<>> \o <<w>> = <<w>>
      /\ <<>> \o <<>> = <<>> /\ <<"UPLOAD_RETRYING">> \o <<>> = <<"UPLOAD_RETRYING">>
  OBVIOUS
<1>6. ASSUME NEW w \in Verdicts, w = "UPLOADED" => "uploaded" \in seen
      PROVE  Says(Stored \o <<w>>, e, seen, NoEntry)
  <2>1. Says(Stored \o (<<>> \o <<w>>), e, seen, NoEntry)
    BY <1>2, <1>4, <1>6, SaidInOrder
  <2> QED BY <1>5, <2>1
<1>7. ASSUME NEW n \in {NoEntry, kept} PROVE Says(Stored \o Failure, e, seen, n)
  <2>1. Stored # <<>> /\ n.there => n.stored
    BY <1>2, <1>3, <1>4
  <2>2. "UPLOADED" \in Verdicts
    BY DEF Verdicts
  <2>3. Says(Stored \o (Failure \o <<>>), e, seen, n)
    BY <1>4, <2>1, <2>2, SaidInOrder
  <2>4. Failure \o <<>> = Failure
    BY <1>4, <1>5
  <2> QED BY <2>3, <2>4
<1>8. Says(Stored \o (Failure \o <<"RECORD_FAILED">>), e, seen, NoEntry)
  <2>1. "RECORD_FAILED" \in Verdicts
    BY DEF Verdicts
  <2> QED BY <1>2, <1>4, <2>1, SaidInOrder
<1>9. v.entry \in Entry /\ Says(v.say, e, seen, v.entry)
  <2>1. PICK say, new : /\ v = [say |-> say, entry |-> new]
                        /\ \/ new = NoEntry /\ \E w \in Verdicts :
                                   say = Stored \o <<w>> /\ (w = "UPLOADED" => "uploaded" \in seen)
                           \/ new \in {NoEntry, kept} /\ say = Stored \o Failure
                           \/ new = NoEntry /\ say = Stored \o (Failure \o <<"RECORD_FAILED">>)
    <3>1. {"RECORD_FAILED", "UPLOADED", "UPLOAD_FAILED"} \subseteq Verdicts
      BY DEF Verdicts
    <3> QED BY <1>1, <3>1
  <2>2. new \in Entry /\ Says(say, e, seen, new)
    <3>1. CASE new = NoEntry /\ \E w \in Verdicts :
                                   say = Stored \o <<w>> /\ (w = "UPLOADED" => "uploaded" \in seen)
      <4>1. PICK w \in Verdicts :
                say = Stored \o <<w>> /\ (w = "UPLOADED" => "uploaded" \in seen)
        BY <3>1
      <4>2. Says(Stored \o <<w>>, e, seen, NoEntry)
        BY <1>6, <4>1
      <4> QED BY <1>2, <3>1, <4>1, <4>2
    <3>2. CASE new \in {NoEntry, kept} /\ say = Stored \o Failure
      BY <1>2, <1>3, <1>7, <3>2
    <3>3. CASE new = NoEntry /\ say = Stored \o (Failure \o <<"RECORD_FAILED">>)
      BY <1>2, <1>8, <3>3
    <3> QED BY <2>1, <3>1, <3>2, <3>3
  <2> QED BY <2>1, <2>2
<1>10. v.entry.there => /\ e.stored => v.entry.stored
                        /\ v.entry.uploadFailure <=> "upload_failed" \in seen
  BY <1>1, <1>2, <1>3
<1> QED BY <1>9, <1>10 DEF v

(***************************************************************************)
(* Types                                                                   *)
(***************************************************************************)

(* The markers pollEventLifecycles looks for, in their order.              *)
LEMMA OrderIs ==
    /\ Len(Order) = 4 /\ Marks = {"complete", "failed", "uploaded", "upload_failed"}
    /\ \A k \in 1 .. 4 : Order[k] \in Marks
    /\ Order[4] = "upload_failed"
    /\ \A k \in 1 .. 4 : Order[k] = "upload_failed" => k = 4
BY DEF Order, Marks, ToSet

(* What a decision does: the entry and the log of one capture.             *)
LEMMA DecideStep ==
    ASSUME LifecycleTypes, Decide
    PROVE  \E c \in Capture, say \in Seq(Statuses), new \in Entry :
               /\ c = poll.at /\ poll.look = 5 /\ poll # NoPoll /\ entry[c].there
               /\ entry[c] \in Entry
               /\ entry' = [entry EXCEPT ![c] = new]
               /\ log' = [log EXCEPT ![c] = @ \o say]
               /\ poll' = NoPoll
               /\ Says(say, entry[c], poll.seen, new)
               /\ new.there => /\ entry[c].stored => new.stored
                               /\ new.uploadFailure <=> "upload_failed" \in poll.seen
<1>1. PICK c \in Capture : c = poll.at
  BY DEF Decide
<1>2. entry[c] \in Entry
  BY DEF LifecycleTypes, ChannelTypes
<1>3. poll # NoPoll /\ poll.look = 5 /\ entry[c].there
  <2>1. poll # NoPoll
    BY <1>1, LifecycleAssumption DEF NoPoll
  <2>2. poll.look \in 1 .. 5 /\ entry[c].there
    BY <1>1, <2>1 DEF LifecycleTypes, PollTypes
  <2> QED BY <2>1, <2>2, OrderIs DEF Decide
<1>4. PICK v : v = Verdict(entry[c], poll.seen, c \in overdue)
  OBVIOUS
<1>5. /\ entry' = [entry EXCEPT ![c] = v.entry]
      /\ log' = [log EXCEPT ![c] = @ \o v.say]
      /\ poll' = NoPoll
  BY <1>1, <1>4 DEF Decide, Publish
<1>6. /\ v.entry \in Entry /\ Says(v.say, entry[c], poll.seen, v.entry)
      /\ v.entry.there => /\ entry[c].stored => v.entry.stored
                          /\ v.entry.uploadFailure <=> "upload_failed" \in poll.seen
  BY <1>2, <1>4, Decides
<1>7. PICK say \in Seq(Statuses) : say = v.say
  BY <1>6 DEF Says
<1>8. PICK new \in Entry : new = v.entry
  BY <1>6
<1>9. /\ entry' = [entry EXCEPT ![c] = new]
      /\ log' = [log EXCEPT ![c] = @ \o say]
      /\ poll' = NoPoll
  BY <1>5, <1>7, <1>8
<1>10. Says(say, entry[c], poll.seen, new)
  BY <1>6, <1>7, <1>8
<1>11. new.there => /\ entry[c].stored => new.stored
                    /\ new.uploadFailure <=> "upload_failed" \in poll.seen
  BY <1>6, <1>8
<1> QED BY <1>1, <1>2, <1>3, <1>9, <1>10, <1>11

(* The steps of the other threads leave the channel alone.                 *)
LEMMA OutsideSteps ==
    ASSUME NEW c \in Capture, Outside(c)
    PROVE  UNCHANGED <<config, channelVars>>
BY DEF Outside, CloseRecording, FinishUpload, GiveUpUpload, RescanUpload, DeleteDirectory,
       SetMarks

(* Every state of every behaviour has the types of the model.              *)
THEOREM LifecycleTyped == Spec => []LifecycleTypes
<1> USE LifecycleAssumption
<1>1. Init => LifecycleTypes
  BY DEF Init, NoEntry, LifecycleTypes, ChannelTypes, FileTypes, PollTypes, Entry
<1>2. LifecycleTypes /\ [Next]_vars => LifecycleTypes'
  <2> SUFFICES ASSUME LifecycleTypes, [Next]_vars PROVE LifecycleTypes'
    OBVIOUS
  <2> USE DEF LifecycleTypes
  <2>1. CASE \E c \in Capture : StartPoll(c)
    <3>1. PICK c \in Capture : StartPoll(c)
      BY <2>1
    <3>2. UNCHANGED <<config, entry, overdue, log, key, replaced, filesVars>>
      BY <3>1 DEF StartPoll
    <3>3. PollTypes'
      BY <3>1 DEF StartPoll, PollTypes
    <3> QED BY <3>2, <3>3 DEF ChannelTypes, FileTypes, filesVars
  <2>2. CASE Look
    <3>1. UNCHANGED <<config, entry, overdue, log, key, replaced, filesVars>>
      BY <2>2 DEF Look
    <3>2. poll # NoPoll
      BY <2>2 DEF Look, NoPoll
    <3>3. /\ poll \in [at : Capture, look : 1 .. 5, seen : SUBSET Marks] /\ entry[poll.at].there
          /\ poll.look \in 1 .. 4
      BY <2>2, <3>2, OrderIs DEF Look, PollTypes
    <3>4. PollTypes'
      <4>1. PICK m : m = Order[poll.look]
        OBVIOUS
      <4>2. m \in Marks
        BY <3>3, <4>1, OrderIs
      <4>3. poll' = [poll EXCEPT !.look = @ + 1, !.seen = @ \cup (marks[poll.at] \cap {m})]
        BY <2>2, <4>1 DEF Look
      <4>4. poll' \in [at : Capture, look : 1 .. 5, seen : SUBSET Marks] /\ poll'.at = poll.at
        <5>1. PICK n \in 1 .. 5 : n = poll.look + 1
          BY <3>3
        <5>2. PICK s \in SUBSET Marks : s = poll.seen \cup (marks[poll.at] \cap {m})
          BY <3>3, <4>2
        <5>3. poll' = [poll EXCEPT !.look = n, !.seen = s]
          BY <3>3, <4>3, <5>1, <5>2
        <5> QED BY <3>3, <5>3
      <4> QED BY <3>1, <3>3, <4>4 DEF PollTypes
    <3> QED BY <3>1, <3>4 DEF ChannelTypes, FileTypes, filesVars
  <2>3. CASE Decide
    <3>1. PICK c \in Capture, say \in Seq(Statuses), new \in Entry :
               /\ entry' = [entry EXCEPT ![c] = new]
               /\ log' = [log EXCEPT ![c] = @ \o say]
               /\ poll' = NoPoll
               /\ Says(say, entry[c], poll.seen, new)
      BY <2>3, DecideStep
    <3>2. log' \in [Capture -> Seq(Statuses)]
      <4>1. log[c] \o say \in Seq(Statuses)
        BY Joined DEF ChannelTypes
      <4> QED BY <3>1, <4>1 DEF ChannelTypes
    <3>3. key' \in [Capture -> {"up", "noted", "sent", "gone"}]
      BY <2>3 DEF Decide, Publish, ChannelTypes
    <3>4. UNCHANGED <<config, overdue, replaced, filesVars>>
      BY <2>3 DEF Decide
    <3>5. entry' \in [Capture -> Entry] /\ PollTypes'
      BY <3>1 DEF ChannelTypes, PollTypes
    <3> QED BY <3>2, <3>3, <3>4, <3>5 DEF ChannelTypes, FileTypes, filesVars
  <2>4. ASSUME NEW c \in Capture, Keyboard(c) PROVE LifecycleTypes'
    <3>1. key' \in [Capture -> {"up", "noted", "sent", "gone"}]
      BY <2>4 DEF Keyboard, NotePending, PublishSignal, PrunePending, ChannelTypes
    <3>2. UNCHANGED <<config, entry, overdue, poll, log, replaced, filesVars>>
      BY <2>4 DEF Keyboard
    <3> QED BY <3>1, <3>2 DEF ChannelTypes, FileTypes, PollTypes, filesVars
  <2>5. ASSUME NEW c \in Capture, Accept(c) \/ Reject(c) PROVE LifecycleTypes'
    <3>1. /\ poll = NoPoll /\ poll' = poll /\ UNCHANGED <<config, overdue, marks, giveUps>>
          /\ result' \in [Capture -> {"none", "refused", "open", "complete", "failed"}]
      BY <2>5 DEF Accept, Reject, Arrived, FileTypes
    <3>2. key' \in [Capture -> {"up", "noted", "sent", "gone"}]
      BY <2>5 DEF Accept, Reject, Publish, ChannelTypes
    <3>3. log' \in [Capture -> Seq(Statuses)]
      <4>1. PICK s \in {"ACCEPTED", "REJECTED"} : log' = [log EXCEPT ![c] = @ \o <<s>>]
        BY <2>5 DEF Accept, Reject, Publish
      <4>2. <<s>> \in Seq(Statuses)
        BY DEF Statuses
      <4>3. log[c] \o <<s>> \in Seq(Statuses)
        BY <4>2, Joined DEF ChannelTypes
      <4> QED BY <4>1, <4>3 DEF ChannelTypes
    <3>4. entry' \in [Capture -> Entry] /\ replaced' \subseteq Capture
      <4>1. CASE Reject(c)
        BY <4>1 DEF Reject, ChannelTypes
      <4>2. CASE Accept(c)
        <5>1. PICK old \in SUBSET Capture :
                  /\ entry' = [o \in Capture |-> IF o = c THEN [NoEntry EXCEPT !.there = TRUE]
                                                 ELSE IF o \in old THEN NoEntry ELSE entry[o]]
                  /\ replaced' = replaced \cup old
          BY <4>2 DEF Accept
        <5>2. NoEntry \in Entry /\ [NoEntry EXCEPT !.there = TRUE] \in Entry
          BY DEF NoEntry, Entry
        <5> QED BY <5>1, <5>2 DEF ChannelTypes
      <4> QED BY <2>5, <4>1, <4>2
    <3> QED BY <3>1, <3>2, <3>3, <3>4 DEF ChannelTypes, FileTypes, PollTypes
  <2>6. ASSUME NEW c \in Capture, GrowOverdue(c) PROVE LifecycleTypes'
    BY <2>6 DEF GrowOverdue, ChannelTypes, FileTypes, PollTypes, filesVars
  <2>7. ASSUME NEW c \in Capture, Outside(c) PROVE LifecycleTypes'
    <3>1. ChannelTypes' /\ PollTypes'
      BY <2>7, OutsideSteps DEF channelVars, ChannelTypes, PollTypes
    <3>2. PICK m \in SUBSET Marks : marks' = [marks EXCEPT ![c] = m]
      BY <2>7, OrderIs DEF Outside, CloseRecording, FinishUpload, GiveUpUpload, RescanUpload,
                           DeleteDirectory, SetMarks, FileTypes
    <3>3. result' \in [Capture -> {"none", "refused", "open", "complete", "failed"}]
      BY <2>7 DEF Outside, CloseRecording, FinishUpload, GiveUpUpload, RescanUpload,
                  DeleteDirectory, FileTypes
    <3>4. \A d \in Capture : giveUps'[d] \in 0 .. MaxGiveUps[d]
      BY <2>7 DEF Outside, CloseRecording, FinishUpload, GiveUpUpload, RescanUpload,
                  DeleteDirectory, FileTypes
    <3>5. DOMAIN giveUps' = Capture
      BY <2>7 DEF Outside, CloseRecording, FinishUpload, GiveUpUpload, RescanUpload,
                  DeleteDirectory, FileTypes
    <3> QED BY <3>1, <3>2, <3>3, <3>4, <3>5 DEF FileTypes
  <2>8. CASE UNCHANGED vars
    BY <2>8 DEF vars, channelVars, filesVars, ChannelTypes, FileTypes, PollTypes
  <2> QED BY <2>1, <2>2, <2>3, <2>4, <2>5, <2>6, <2>7, <2>8 DEF Next, Poll
<1> QED BY <1>1, <1>2, PTL DEF Spec

(* The type invariant that the run checks.                                 *)
THEOREM LifecycleTypeOK == Spec => []TypeOK
<1>1. LifecycleTypes => TypeOK
  BY OrderIs DEF LifecycleTypes, ChannelTypes, FileTypes, PollTypes, NoPoll, Entry, TypeOK
<1> QED BY <1>1, LifecycleTyped, PTL

(***************************************************************************)
(* The shape of a lifecycle, and its truth                                 *)
(***************************************************************************)

(* Markers are about the result, which does not change once it is known,   *)
(* also where they are looked at one by one.                               *)
LEMMA MarksStep ==
    ASSUME LifecycleTypes, LifecycleTypes', MarksAreTrue, [Next]_vars
    PROVE  MarksAreTrue' /\ \A c \in Capture : result[c] = "complete" => result'[c] = "complete"
<1> USE LifecycleAssumption
<1>1. ASSUME NEW c \in Capture, StartPoll(c)
      PROVE  MarksAreTrue' /\ result' = result
  <2>1. UNCHANGED filesVars /\ poll'.seen = {}
    BY <1>1 DEF StartPoll
  <2> QED BY <2>1 DEF filesVars, MarksAreTrue
<1>2. CASE Look
  <2>1. UNCHANGED filesVars /\ poll # NoPoll /\ poll.at \in Capture
    BY <1>2 DEF Look, NoPoll
  <2>2. poll \in [at : Capture, look : 1 .. 5, seen : SUBSET Marks]
    BY <2>1 DEF LifecycleTypes, PollTypes
  <2>3. poll'.at = poll.at /\ poll'.seen \subseteq poll.seen \cup marks[poll.at]
    BY <1>2, <2>2 DEF Look
  <2>4. poll'.seen \cap {"complete", "uploaded"} # {} => result[poll.at] = "complete"
    BY <2>1, <2>3 DEF MarksAreTrue
  <2> QED BY <2>1, <2>3, <2>4 DEF MarksAreTrue, filesVars
<1>3. CASE Decide
  <2>1. UNCHANGED filesVars /\ poll' = NoPoll
    BY <1>3 DEF Decide
  <2> QED BY <2>1 DEF MarksAreTrue, filesVars
<1>4. ASSUME NEW c \in Capture, Accept(c) \/ Reject(c)
      PROVE  MarksAreTrue' /\ \A d \in Capture : result[d] = "complete" => result'[d] = "complete"
  <2>1. PICK r \in {"open", "refused"} : result' = [result EXCEPT ![c] = r]
    BY <1>4 DEF Accept, Reject
  <2>2. result[c] = "none" /\ poll = NoPoll /\ poll' = poll /\ marks' = marks
    BY <1>4 DEF Accept, Reject, Arrived
  <2>3. marks[c] = {}
    BY <2>2 DEF MarksAreTrue
  <2>4. \A d \in Capture : result'[d] = IF d = c THEN r ELSE result[d]
    BY <2>1 DEF LifecycleTypes, FileTypes
  <2> QED BY <2>2, <2>3, <2>4 DEF MarksAreTrue
<1>5. ASSUME NEW c \in Capture, Outside(c)
      PROVE  MarksAreTrue' /\ \A d \in Capture : result[d] = "complete" => result'[d] = "complete"
  <2>1. poll' = poll
    BY <1>5, OutsideSteps DEF channelVars
  <2>2. \A d \in Capture : \/ result'[d] = result[d]
                           \/ d = c /\ result[d] = "open" /\ result'[d] \in {"complete", "failed"}
    BY <1>5 DEF Outside, CloseRecording, FinishUpload, GiveUpUpload, RescanUpload,
                DeleteDirectory, LifecycleTypes, FileTypes
  <2>3. \A d \in Capture \ {c} : marks'[d] = marks[d] /\ result'[d] = result[d]
    BY <1>5 DEF Outside, CloseRecording, FinishUpload, GiveUpUpload, RescanUpload,
                DeleteDirectory, SetMarks, LifecycleTypes, FileTypes
  <2>4. \/ \E r \in {"complete", "failed"} : marks'[c] = {r} /\ result'[c] = r
        \/ marks'[c] = {} /\ result'[c] = result[c]
        \/ /\ marks[c] \cap {"complete", "failed"} # {} /\ result'[c] = result[c]
           /\ marks'[c] \subseteq marks[c] \cup {"uploaded", "upload_failed"}
           /\ "uploaded" \in marks'[c] => "complete" \in marks[c]
    <3>1. ASSUME NEW r \in {"complete", "failed"}, CloseRecording(c, r)
          PROVE  marks'[c] = {r} /\ result'[c] = r
      BY <3>1 DEF CloseRecording, SetMarks, LifecycleTypes, FileTypes
    <3>2. CASE DeleteDirectory(c)
      BY <3>2 DEF DeleteDirectory, SetMarks, LifecycleTypes, FileTypes
    <3>3. CASE FinishUpload(c)
      BY <3>3 DEF FinishUpload, Unuploaded, SetMarks, LifecycleTypes, FileTypes
    <3>4. CASE GiveUpUpload(c)
      BY <3>4 DEF GiveUpUpload, Unuploaded, SetMarks, LifecycleTypes, FileTypes
    <3>5. CASE RescanUpload(c)
      BY <3>5 DEF RescanUpload, Unuploaded, SetMarks, LifecycleTypes, FileTypes
    <3> QED BY <1>5, <3>1, <3>2, <3>3, <3>4, <3>5 DEF Outside
  <2>5. /\ result'[c] \in {"none", "refused", "open"} => marks'[c] = {}
        /\ marks'[c] \cap {"complete", "uploaded"} # {} => result'[c] = "complete"
    BY <2>2, <2>4 DEF MarksAreTrue
  <2>6. poll # NoPoll => poll.at \in Capture
    BY DEF LifecycleTypes, PollTypes
  <2>7. \A d \in Capture : /\ result'[d] \in {"none", "refused", "open"} => marks'[d] = {}
                           /\ marks'[d] \cap {"complete", "uploaded"} # {}
                                  => result'[d] = "complete"
    BY <2>3, <2>5 DEF MarksAreTrue
  <2> QED BY <2>1, <2>2, <2>6, <2>7 DEF MarksAreTrue
<1>6. CASE UNCHANGED <<poll, filesVars>>
  BY <1>6 DEF MarksAreTrue, filesVars
<1> QED BY <1>1, <1>2, <1>3, <1>4, <1>5, <1>6
        DEF Next, Poll, Keyboard, GrowOverdue, vars, channelVars, filesVars

(* The log of a capture with its entry, through a decision.                *)
LEMMA DecisionShape ==
    ASSUME NEW L \in Seq(Statuses), NEW say \in Seq(Statuses), NEW e \in Entry, NEW new \in Entry,
           NEW seen, Says(say, e, seen, new),
           e.stored /\ new.there => new.stored, L # <<>>, L[1] = "ACCEPTED",
           \A i \in DOMAIN L : L[i] \notin Verdicts /\ (L[i] = "STORED" => e.stored),
           \A i, j \in DOMAIN L : L[i] = "STORED" /\ L[j] = "STORED" => i = j
    PROVE  LET M == L \o say
           IN /\ M # <<>> /\ M[1] = "ACCEPTED" /\ M \in Seq(Statuses)
              /\ \A i, j \in DOMAIN M : M[i] = "STORED" /\ M[j] = "STORED" => i = j
              /\ \A i \in DOMAIN M :
                     /\ M[i] \in Verdicts => i = Len(M) /\ ~new.there
                     /\ M[i] = "STORED" => /\ new.there => new.stored
                                           /\ e.stored \/ "complete" \in seen
                     /\ M[i] = "UPLOADED" => "uploaded" \in seen
<1> DEFINE M == L \o say
<1>1. /\ M \in Seq(Statuses) /\ Len(M) = Len(L) + Len(say) /\ DOMAIN M = 1 .. Len(M)
      /\ \A k \in DOMAIN M : \/ k \in DOMAIN L /\ M[k] = L[k]
                             \/ \E l \in DOMAIN say : k = Len(L) + l /\ M[k] = say[l]
      /\ \A k \in 1 .. Len(L) : M[k] = L[k]
  BY Joined
<1>2. Len(L) \in Nat /\ Len(L) >= 1 /\ DOMAIN L = 1 .. Len(L) /\ DOMAIN say = 1 .. Len(say)
      /\ Len(say) \in Nat
  OBVIOUS
<1> HIDE DEF M
<1>3. M # <<>> /\ M[1] = "ACCEPTED"
  BY <1>1, <1>2
<1>4. \A l \in DOMAIN say :
          /\ say[l] = "STORED" => /\ l = 1 /\ "complete" \in seen /\ ~e.stored
                                  /\ new.there => new.stored
          /\ say[l] \in Verdicts => l = Len(say) /\ ~new.there
          /\ say[l] = "UPLOADED" => "uploaded" \in seen
  BY DEF Says
<1>5. "UPLOADED" \in Verdicts
  BY DEF Verdicts
<1>6. ASSUME NEW k \in DOMAIN M
      PROVE  /\ M[k] \in Verdicts => k = Len(M) /\ ~new.there
             /\ M[k] = "STORED" => /\ new.there => new.stored
                                   /\ e.stored \/ "complete" \in seen
             /\ M[k] = "UPLOADED" => "uploaded" \in seen
  <2>1. CASE k \in DOMAIN L /\ M[k] = L[k]
    BY <1>5, <2>1
  <2>2. ASSUME NEW l \in DOMAIN say, k = Len(L) + l, M[k] = say[l]
        PROVE  /\ M[k] \in Verdicts => k = Len(M) /\ ~new.there
               /\ M[k] = "STORED" => /\ new.there => new.stored
                                     /\ e.stored \/ "complete" \in seen
               /\ M[k] = "UPLOADED" => "uploaded" \in seen
    BY <1>1, <1>4, <2>2
  <2> QED BY <1>1, <2>1, <2>2
<1>7. \A i, j \in DOMAIN M : M[i] = "STORED" /\ M[j] = "STORED" => i = j
  <2>1. CASE e.stored
    <3>1. \A i \in DOMAIN M : M[i] = "STORED" => i \in DOMAIN L /\ M[i] = L[i]
      BY <1>1, <1>4, <2>1
    <3> QED BY <3>1
  <2>2. CASE ~e.stored
    <3>1. \A i \in DOMAIN M : M[i] = "STORED" => i = Len(L) + 1
      BY <1>1, <1>4, <2>2
    <3> QED BY <3>1
  <2> QED BY <2>1, <2>2
<1> QED BY <1>1, <1>3, <1>6, <1>7 DEF M

(* The log, the entry and the result of every capture stay in agreement.   *)
LEMMA ShapeStep ==
    ASSUME LifecycleTypes, LifecycleTypes', ShapeInv, [Next]_vars
    PROVE  ShapeInv'
<1> USE LifecycleAssumption
<1>0. MarksAreTrue' /\ \A c \in Capture : result[c] = "complete" => result'[c] = "complete"
  BY MarksStep DEF ShapeInv
<1> SUFFICES ASSUME NEW d \in Capture
             PROVE  /\ result'[d] = "none" => log'[d] = <<>> /\ ~entry'[d].there
                    /\ entry'[d].there => /\ log'[d] # <<>> /\ log'[d][1] = "ACCEPTED"
                                          /\ \A i \in DOMAIN log'[d] :
                                                /\ log'[d][i] \notin Verdicts
                                                /\ log'[d][i] = "STORED" => entry'[d].stored
                    /\ log'[d] # <<>> =>
                          /\ log'[d][1] = "ACCEPTED" \/ log'[d] = <<"REJECTED">>
                          /\ \A i, j \in DOMAIN log'[d] :
                                /\ log'[d][i] = "STORED" /\ log'[d][j] = "STORED" => i = j
                                /\ log'[d][i] \in Verdicts => i = Len(log'[d]) /\ ~entry'[d].there
                    /\ \A i \in DOMAIN log'[d] :
                          log'[d][i] \in {"STORED", "UPLOADED"} => result'[d] = "complete"
  BY <1>0 DEF ShapeInv, EntryMatchesLog, LifecycleShape, GoodNewsIsTrue, Said
<1>1. CASE /\ log'[d] = log[d] /\ (entry'[d] = entry[d] \/ ~entry'[d].there)
           /\ result'[d] = "none" => result[d] = "none"
  <2>1. entry'[d].there => entry[d].there /\ entry'[d] = entry[d]
    BY <1>1
  <2>2. result'[d] = "none" => log'[d] = <<>> /\ ~entry'[d].there
    BY <1>1, <2>1 DEF ShapeInv, EntryMatchesLog
  <2>3. entry'[d].there => /\ log'[d] # <<>> /\ log'[d][1] = "ACCEPTED"
                           /\ \A i \in DOMAIN log'[d] :
                                 /\ log'[d][i] \notin Verdicts
                                 /\ log'[d][i] = "STORED" => entry'[d].stored
    BY <1>1, <2>1 DEF ShapeInv, EntryMatchesLog
  <2>4. log'[d] # <<>> =>
           /\ log'[d][1] = "ACCEPTED" \/ log'[d] = <<"REJECTED">>
           /\ \A i, j \in DOMAIN log'[d] :
                 /\ log'[d][i] = "STORED" /\ log'[d][j] = "STORED" => i = j
                 /\ log'[d][i] \in Verdicts => i = Len(log'[d]) /\ ~entry'[d].there
    BY <1>1, <2>1 DEF ShapeInv, LifecycleShape
  <2>5. \A i \in DOMAIN log'[d] :
           log'[d][i] \in {"STORED", "UPLOADED"} => result'[d] = "complete"
    BY <1>0, <1>1 DEF ShapeInv, GoodNewsIsTrue, Said
  <2> QED BY <2>2, <2>3, <2>4, <2>5
<1>2. CASE Decide
  <2>1. PICK c \in Capture, say \in Seq(Statuses), new \in Entry :
               /\ c = poll.at /\ poll.look = 5 /\ poll # NoPoll /\ entry[c].there
               /\ entry[c] \in Entry
               /\ entry' = [entry EXCEPT ![c] = new]
               /\ log' = [log EXCEPT ![c] = @ \o say]
               /\ poll' = NoPoll
               /\ Says(say, entry[c], poll.seen, new)
               /\ new.there => /\ entry[c].stored => new.stored
                               /\ new.uploadFailure <=> "upload_failed" \in poll.seen
    BY <1>2, DecideStep
  <2>2. result' = result
    BY <1>2 DEF Decide, filesVars
  <2>3. CASE d # c
    BY <1>1, <2>1, <2>2, <2>3 DEF LifecycleTypes, ChannelTypes
  <2>4. CASE d = c
    <3>1. log'[d] = log[d] \o say /\ entry'[d] = new /\ log[d] \in Seq(Statuses)
      BY <2>1, <2>4 DEF LifecycleTypes, ChannelTypes
    <3>2. PICK L \in Seq(Statuses) : L = log[d]
      BY <3>1
    <3>3. PICK e \in Entry : e = entry[d]
      BY <2>1, <2>4
    <3>4. /\ L # <<>> /\ L[1] = "ACCEPTED" /\ result[d] # "none"
          /\ \A i \in DOMAIN L : L[i] \notin Verdicts /\ (L[i] = "STORED" => e.stored)
      BY <2>1, <2>4, <3>2, <3>3 DEF ShapeInv, EntryMatchesLog
    <3>5. \A i, j \in DOMAIN L : L[i] = "STORED" /\ L[j] = "STORED" => i = j
      BY <3>2, <3>4 DEF ShapeInv, LifecycleShape
    <3>6. PICK M : M = L \o say
      OBVIOUS
    <3>7. /\ Says(say, e, poll.seen, new) /\ (e.stored /\ new.there => new.stored)
      BY <2>1, <2>4, <3>3
    <3>8. /\ M # <<>> /\ M[1] = "ACCEPTED" /\ M \in Seq(Statuses)
          /\ \A i, j \in DOMAIN M : M[i] = "STORED" /\ M[j] = "STORED" => i = j
          /\ \A i \in DOMAIN M :
                 /\ M[i] \in Verdicts => i = Len(M) /\ ~new.there
                 /\ M[i] = "STORED" => /\ new.there => new.stored
                                       /\ e.stored \/ "complete" \in poll.seen
                 /\ M[i] = "UPLOADED" => "uploaded" \in poll.seen
      <4>1. PICK seen : seen = poll.seen
        OBVIOUS
      <4>2. Says(say, e, seen, new)
        BY <3>7, <4>1
      <4> HIDE DEF Says
      <4>3. LET N == L \o say
            IN /\ N # <<>> /\ N[1] = "ACCEPTED" /\ N \in Seq(Statuses)
               /\ \A i, j \in DOMAIN N : N[i] = "STORED" /\ N[j] = "STORED" => i = j
               /\ \A i \in DOMAIN N :
                      /\ N[i] \in Verdicts => i = Len(N) /\ ~new.there
                      /\ N[i] = "STORED" => /\ new.there => new.stored
                                            /\ e.stored \/ "complete" \in seen
                      /\ N[i] = "UPLOADED" => "uploaded" \in seen
        BY <3>4, <3>5, <3>7, <4>2, DecisionShape, ZenonT(30)
      <4> QED BY <3>6, <4>1, <4>3, ZenonT(30)
    <3>9. \A i \in DOMAIN M : M[i] \in {"STORED", "UPLOADED"} => result[d] = "complete"
      <4>1. poll.seen \cap {"complete", "uploaded"} # {} => result[d] = "complete"
        BY <2>1, <2>4 DEF ShapeInv, MarksAreTrue
      <4>2. \A i \in DOMAIN L : L[i] = "STORED" => result[d] = "complete"
        BY <3>2 DEF ShapeInv, GoodNewsIsTrue, Said
      <4>3. \A i \in DOMAIN M : M[i] = "UPLOADED" => result[d] = "complete"
        BY <3>8, <4>1
      <4>4. \A i \in DOMAIN M : M[i] = "STORED" => result[d] = "complete"
        <5> SUFFICES ASSUME NEW k \in DOMAIN M, M[k] = "STORED" PROVE result[d] = "complete"
          OBVIOUS
        <5>1. \/ k \in DOMAIN L /\ M[k] = L[k]
              \/ \E l \in DOMAIN say : k = Len(L) + l /\ M[k] = say[l]
          BY <3>6, Joined
        <5>2. \A l \in DOMAIN say : say[l] = "STORED" => "complete" \in poll.seen
          BY <3>7 DEF Says
        <5> QED BY <4>1, <4>2, <5>1, <5>2
      <4> QED BY <4>3, <4>4
    <3>10. log'[d] = M /\ entry'[d] = new /\ result'[d] = result[d]
      BY <2>2, <3>1, <3>2, <3>6
    <3> QED BY <3>4, <3>8, <3>9, <3>10
  <2> QED BY <2>3, <2>4
<1>3. ASSUME NEW c \in Capture, Accept(c) \/ Reject(c), d = c
      PROVE  /\ result'[d] # "none" /\ (entry'[d].there => log'[d] = <<"ACCEPTED">>)
             /\ log'[d] = <<"ACCEPTED">> \/ log'[d] = <<"REJECTED">>
  <2>1. result[c] = "none" /\ log[c] = <<>> /\ ~entry[c].there
    BY <1>3 DEF Accept, Reject, Arrived, ShapeInv, EntryMatchesLog
  <2>2. <<>> \o <<"ACCEPTED">> = <<"ACCEPTED">> /\ <<>> \o <<"REJECTED">> = <<"REJECTED">>
    OBVIOUS
  <2>3. CASE Accept(c)
    BY <1>3, <2>1, <2>2, <2>3 DEF Accept, Publish, LifecycleTypes, ChannelTypes, FileTypes
  <2>4. CASE Reject(c)
    BY <1>3, <2>1, <2>2, <2>4 DEF Reject, Publish, LifecycleTypes, ChannelTypes, FileTypes
  <2> QED BY <1>3, <2>3, <2>4
<1>4. ASSUME NEW c \in Capture, Accept(c) \/ Reject(c), d # c
      PROVE  /\ log'[d] = log[d] /\ result'[d] = result[d]
             /\ entry'[d] = entry[d] \/ ~entry'[d].there
  <2>1. log'[d] = log[d] /\ result'[d] = result[d]
    BY <1>4 DEF Accept, Reject, Publish, LifecycleTypes, ChannelTypes, FileTypes
  <2>2. CASE Accept(c)
    <3>1. PICK old : entry' = [o \in Capture |-> IF o = c THEN [NoEntry EXCEPT !.there = TRUE]
                                                 ELSE IF o \in old THEN NoEntry ELSE entry[o]]
      BY <2>2 DEF Accept
    <3>2. ~NoEntry.there
      BY DEF NoEntry
    <3> QED BY <1>4, <2>1, <3>1, <3>2
  <2>3. CASE Reject(c)
    BY <2>1, <2>3 DEF Reject
  <2> QED BY <1>4, <2>2, <2>3
<1>5. ASSUME NEW c \in Capture, Outside(c)
      PROVE  log' = log /\ entry' = entry /\ (result'[d] = "none" => result[d] = "none")
  <2>1. log' = log /\ entry' = entry
    BY <1>5, OutsideSteps DEF channelVars
  <2>2. result'[d] = "none" => result[d] = "none"
    BY <1>5 DEF Outside, CloseRecording, FinishUpload, GiveUpUpload, RescanUpload,
                DeleteDirectory, LifecycleTypes, FileTypes
  <2> QED BY <2>1, <2>2
<1>6. ASSUME log'[d] = <<"ACCEPTED">> \/ log'[d] = <<"REJECTED">>,
             entry'[d].there => log'[d] = <<"ACCEPTED">>, result'[d] # "none"
      PROVE  /\ entry'[d].there => /\ log'[d] # <<>> /\ log'[d][1] = "ACCEPTED"
                                   /\ \A i \in DOMAIN log'[d] :
                                         /\ log'[d][i] \notin Verdicts
                                         /\ log'[d][i] = "STORED" => entry'[d].stored
             /\ log'[d] # <<>> =>
                   /\ log'[d][1] = "ACCEPTED" \/ log'[d] = <<"REJECTED">>
                   /\ \A i, j \in DOMAIN log'[d] :
                         /\ log'[d][i] = "STORED" /\ log'[d][j] = "STORED" => i = j
                         /\ log'[d][i] \in Verdicts => i = Len(log'[d]) /\ ~entry'[d].there
             /\ \A i \in DOMAIN log'[d] :
                   log'[d][i] \in {"STORED", "UPLOADED"} => result'[d] = "complete"
  <2>1. \A i \in DOMAIN log'[d] : log'[d][i] \in {"ACCEPTED", "REJECTED"}
    BY <1>6
  <2>2. entry'[d].there => log'[d] # <<>> /\ log'[d][1] = "ACCEPTED"
    BY <1>6
  <2>3. log'[d][1] = "ACCEPTED" \/ log'[d] = <<"REJECTED">>
    BY <1>6
  <2> QED BY <2>1, <2>2, <2>3 DEF Verdicts
<1>7. CASE UNCHANGED <<log, entry, result>>
  BY <1>1, <1>7
<1> QED BY <1>1, <1>2, <1>3, <1>4, <1>5, <1>6, <1>7
        DEF Next, Poll, StartPoll, Look, Keyboard, GrowOverdue, vars, channelVars, filesVars

(* The invariant of the status channel.                                    *)
THEOREM LifecycleSafe == Spec => []ShapeInv
<1>1. Init => ShapeInv
  BY DEF Init, NoEntry, NoPoll, ShapeInv, MarksAreTrue, EntryMatchesLog, LifecycleShape,
         GoodNewsIsTrue, Said
<1>2. LifecycleTypes /\ LifecycleTypes' /\ ShapeInv /\ [Next]_vars => ShapeInv'
  BY ShapeStep
<1> QED BY <1>1, <1>2, LifecycleTyped, PTL DEF Spec

(* The statuses of a capture are a lifecycle: ACCEPTED first, STORED at    *)
(* most once, one verdict and nothing after it.                            *)
THEOREM StatusesFormALifecycle == Spec => []LifecycleShape
<1>1. ShapeInv => LifecycleShape
  BY DEF ShapeInv
<1> QED BY <1>1, LifecycleSafe, PTL

(* Only a complete recording is reported as stored or uploaded.            *)
THEOREM GoodNewsStaysTrue == Spec => []GoodNewsIsTrue
<1>1. ShapeInv => GoodNewsIsTrue
  BY DEF ShapeInv
<1> QED BY <1>1, LifecycleSafe, PTL

(***************************************************************************)
(* The announcements of retries                                            *)
(***************************************************************************)

(* There are finitely many announcements.                                  *)
LEMMA AnnouncedFinite ==
    ASSUME LifecycleTypes, NEW c \in Capture
    PROVE  IsFiniteSet(Announced(c)) /\ Cardinality(Announced(c)) \in Nat
<1>1. log[c] \in Seq(Statuses)
  BY DEF LifecycleTypes, ChannelTypes
<1>2. Announced(c) \subseteq 1 .. Len(log[c]) /\ Len(log[c]) \in Nat
  BY <1>1 DEF Announced
<1>3. IsFiniteSet(1 .. Len(log[c]))
  BY <1>2, FS_Interval
<1>4. IsFiniteSet(Announced(c))
  BY <1>2, <1>3, FS_Subset
<1> QED BY <1>4, FS_CardinalityType

(* A decision announces at most one retry, and only a new one.             *)
LEMMA AnnounceOnce ==
    ASSUME LifecycleTypes, NEW c \in Capture, NEW say \in Seq(Statuses), NEW e, NEW new, NEW seen,
           Says(say, e, seen, new), log'[c] = log[c] \o say
    PROVE  \/ Announced(c)' = Announced(c)
           \/ /\ "upload_failed" \in seen /\ ~e.uploadFailure
              /\ Cardinality(Announced(c)') = Cardinality(Announced(c)) + 1
<1>1. PICK L \in Seq(Statuses) : L = log[c]
  BY DEF LifecycleTypes, ChannelTypes
<1>2. PICK M : M = L \o say
  OBVIOUS
<1>3. /\ M \in Seq(Statuses) /\ DOMAIN M = 1 .. Len(L) + Len(say)
      /\ \A k \in 1 .. Len(L) : M[k] = L[k]
      /\ \A k \in 1 .. Len(say) : M[Len(L) + k] = say[k]
      /\ \A k \in DOMAIN M : \/ k \in DOMAIN L /\ M[k] = L[k]
                             \/ \E l \in DOMAIN say : k = Len(L) + l /\ M[k] = say[l]
  BY <1>2, Joined
<1>4. DOMAIN L = 1 .. Len(L) /\ DOMAIN say = 1 .. Len(say) /\ Len(L) \in Nat /\ Len(say) \in Nat
  OBVIOUS
<1>5. PICK A : A = {i \in DOMAIN L : L[i] = "UPLOAD_RETRYING"}
  OBVIOUS
<1>6. PICK B : B = {i \in DOMAIN M : M[i] = "UPLOAD_RETRYING"}
  OBVIOUS
<1>7. A = Announced(c) /\ B = Announced(c)'
  BY <1>1, <1>2, <1>5, <1>6 DEF Announced
<1>8. CASE \A l \in DOMAIN say : say[l] # "UPLOAD_RETRYING"
  <2>1. B = A
    BY <1>3, <1>4, <1>5, <1>6, <1>8
  <2> QED BY <1>7, <2>1
<1>9. ASSUME NEW l \in DOMAIN say, say[l] = "UPLOAD_RETRYING"
      PROVE  /\ "upload_failed" \in seen /\ ~e.uploadFailure
             /\ Cardinality(B) = Cardinality(A) + 1
  <2>1. "upload_failed" \in seen /\ ~e.uploadFailure
    BY <1>9 DEF Says
  <2>2. \A k \in DOMAIN say : say[k] = "UPLOAD_RETRYING" => k = l
    BY <1>9 DEF Says
  <2>3. B = A \cup {Len(L) + l}
    <3>1. \A k \in B : k \in A \/ k = Len(L) + l
      BY <1>3, <1>5, <1>6, <2>2
    <3>2. \A k \in A : k \in B
      BY <1>3, <1>4, <1>5, <1>6
    <3>3. Len(L) + l \in B
      BY <1>3, <1>4, <1>6, <1>9
    <3> QED BY <3>1, <3>2, <3>3
  <2>4. Len(L) + l \notin A
    BY <1>4, <1>5
  <2>5. IsFiniteSet(A)
    BY <1>7, AnnouncedFinite
  <2> QED BY <2>1, <2>3, <2>4, <2>5, FS_AddElement
<1> QED BY <1>7, <1>8, <1>9

(* The uploader has given up once more than was announced as long as a     *)
(* failure is not announced.                                               *)
LEMMA RetryStep ==
    ASSUME LifecycleTypes, LifecycleTypes', ShapeInv, RetryInv, [Next]_vars
    PROVE  RetryInv'
<1> USE LifecycleAssumption
<1> SUFFICES ASSUME NEW d \in Capture
             PROVE  /\ (Cardinality(Announced(d)) <= giveUps[d])'
                    /\ (Unannounced(d) => Cardinality(Announced(d)) + 1 <= giveUps[d])'
  BY DEF RetryInv
<1>0. PICK n \in Nat : n = Cardinality(Announced(d))
  BY AnnouncedFinite
<1>1. PICK g \in Nat : g = giveUps[d]
  BY DEF LifecycleTypes, FileTypes
<1>2. n <= g /\ (Unannounced(d) => n + 1 <= g)
  BY <1>0, <1>1 DEF RetryInv
<1>3. "none" # d
  OBVIOUS
<1>4. CASE Decide
  <2>1. PICK c \in Capture, say \in Seq(Statuses), new \in Entry :
               /\ c = poll.at /\ poll.look = 5 /\ poll # NoPoll /\ entry[c].there
               /\ entry[c] \in Entry
               /\ entry' = [entry EXCEPT ![c] = new]
               /\ log' = [log EXCEPT ![c] = @ \o say]
               /\ poll' = NoPoll
               /\ Says(say, entry[c], poll.seen, new)
               /\ new.there => /\ entry[c].stored => new.stored
                               /\ new.uploadFailure <=> "upload_failed" \in poll.seen
    BY <1>4, DecideStep
  <2>2. giveUps' = giveUps /\ marks' = marks
    BY <1>4 DEF Decide, filesVars
  <2>3. CASE d # c
    <3>1. log'[d] = log[d] /\ entry'[d] = entry[d] /\ poll'.at = "none"
      BY <2>1, <2>3 DEF LifecycleTypes, ChannelTypes, NoPoll
    <3>2. Announced(d)' = Announced(d)
      BY <3>1 DEF Announced
    <3>3. Unannounced(d)' => Unannounced(d)
      BY <1>3, <2>2, <3>1 DEF Unannounced
    <3> QED BY <1>0, <1>1, <1>2, <2>2, <3>2, <3>3
  <2>4. CASE d = c
    <3>1. log'[d] = log[d] \o say /\ entry'[d] = new /\ poll'.at = "none"
      BY <2>1, <2>4 DEF LifecycleTypes, ChannelTypes, NoPoll
    <3>2. \/ Announced(d)' = Announced(d)
          \/ /\ "upload_failed" \in poll.seen /\ ~entry[d].uploadFailure
             /\ Cardinality(Announced(d)') = Cardinality(Announced(d)) + 1
      BY <2>1, <2>4, <3>1, AnnounceOnce
    <3>3. Unannounced(d)' => /\ new.there /\ "upload_failed" \notin poll.seen
                             /\ "upload_failed" \in marks[d]
      BY <1>3, <2>1, <2>2, <3>1 DEF Unannounced
    <3>4. "upload_failed" \notin poll.seen /\ "upload_failed" \in marks[d] => Unannounced(d)
      BY <2>1, <2>4 DEF Unannounced
    <3>5. "upload_failed" \in poll.seen /\ ~entry[d].uploadFailure => Unannounced(d)
      BY <2>1, <2>4 DEF Unannounced
    <3>6. PICK m : m = Cardinality(Announced(d)')
      OBVIOUS
    <3>7. m <= g /\ (Unannounced(d)' => m + 1 <= g)
      BY <1>0, <1>2, <3>2, <3>3, <3>4, <3>5, <3>6
    <3> QED BY <1>1, <2>2, <3>6, <3>7
  <2> QED BY <2>3, <2>4
<1>5. CASE /\ Announced(d)' = Announced(d) /\ giveUps'[d] = giveUps[d]
           /\ Unannounced(d)' => Unannounced(d)
  BY <1>0, <1>1, <1>2, <1>5
<1>6. ASSUME NEW c \in Capture, StartPoll(c)
      PROVE  /\ Announced(d)' = Announced(d) /\ giveUps'[d] = giveUps[d]
             /\ Unannounced(d)' => Unannounced(d)
  <2>1. UNCHANGED <<entry, log, marks, giveUps>> /\ poll'.seen = {} /\ poll'.look = 1
    BY <1>6 DEF StartPoll, filesVars
  <2> QED BY <2>1 DEF Announced, Unannounced
<1>7. CASE Look
  <2>1. UNCHANGED <<entry, log, marks, giveUps>>
    BY <1>7 DEF Look, filesVars
  <2>2. poll # NoPoll
    BY <1>7 DEF Look, NoPoll
  <2>3. poll \in [at : Capture, look : 1 .. 5, seen : SUBSET Marks] /\ poll.look \in 1 .. 4
    BY <1>7, <2>2, OrderIs DEF Look, LifecycleTypes, PollTypes
  <2>4. /\ poll'.at = poll.at /\ poll'.look = poll.look + 1
        /\ poll'.seen = poll.seen \cup (marks[poll.at] \cap {Order[poll.look]})
    BY <1>7, <2>3 DEF Look
  <2>5. Unannounced(d)' => Unannounced(d)
    <3>1. "upload_failed" \in poll'.seen => "upload_failed" \in poll.seen \cup marks[poll.at]
      BY <2>4
    <3>2. poll'.look = 5 => "upload_failed" \in poll'.seen \/ "upload_failed" \notin marks[poll.at]
      <4>1. poll'.look = 5 => poll.look = 4
        BY <2>3, <2>4
      <4> QED BY <2>4, <4>1, OrderIs
    <3> QED BY <2>1, <2>4, <3>1, <3>2 DEF Unannounced
  <2>6. Announced(d)' = Announced(d) /\ giveUps'[d] = giveUps[d]
    BY <2>1 DEF Announced
  <2> QED BY <1>5, <2>5, <2>6
<1>8. ASSUME NEW c \in Capture, Accept(c) \/ Reject(c)
      PROVE  /\ (Cardinality(Announced(d)) <= giveUps[d])'
             /\ (Unannounced(d) => Cardinality(Announced(d)) + 1 <= giveUps[d])'
  <2>1. UNCHANGED <<poll, marks, giveUps>> /\ poll = NoPoll
    BY <1>8 DEF Accept, Reject, Arrived
  <2>2. poll.at = "none"
    BY <2>1 DEF NoPoll
  <2>3. CASE d # c
    <3>1. log'[d] = log[d]
      BY <1>8, <2>3 DEF Accept, Reject, Publish, LifecycleTypes, ChannelTypes
    <3>2. entry'[d] = entry[d] \/ ~entry'[d].there
      <4>1. CASE Accept(c)
        <5>1. PICK old : entry' = [o \in Capture |-> IF o = c THEN [NoEntry EXCEPT !.there = TRUE]
                                                     ELSE IF o \in old THEN NoEntry ELSE entry[o]]
          BY <4>1 DEF Accept
        <5>2. ~NoEntry.there
          BY DEF NoEntry
        <5> QED BY <2>3, <5>1, <5>2
      <4>2. CASE Reject(c)
        BY <4>2 DEF Reject
      <4> QED BY <1>8, <4>1, <4>2
    <3>3. Unannounced(d)' => Unannounced(d)
      BY <1>3, <2>1, <2>2, <3>2 DEF Unannounced
    <3> QED BY <1>5, <2>1, <3>1, <3>3 DEF Announced
  <2>4. CASE d = c
    <3>1. result[d] = "none" /\ marks[d] = {} /\ log[d] = <<>>
      BY <1>8, <2>4 DEF Accept, Reject, Arrived, ShapeInv, MarksAreTrue, EntryMatchesLog
    <3>2. log'[d] = <<>> \o <<"ACCEPTED">> \/ log'[d] = <<>> \o <<"REJECTED">>
      BY <1>8, <2>4, <3>1 DEF Accept, Reject, Publish, LifecycleTypes, ChannelTypes
    <3>3. \A i \in DOMAIN log'[d] : log'[d][i] # "UPLOAD_RETRYING"
      BY <3>2
    <3>4. Announced(d)' = {} /\ Announced(d) = {}
      BY <3>1, <3>3 DEF Announced
    <3>5. ~Unannounced(d)'
      BY <1>3, <2>1, <2>2, <3>1 DEF Unannounced
    <3> QED BY <1>5, <2>1, <3>4, <3>5
  <2> QED BY <2>3, <2>4
<1>9. ASSUME NEW c \in Capture, Outside(c)
      PROVE  /\ (Cardinality(Announced(d)) <= giveUps[d])'
             /\ (Unannounced(d) => Cardinality(Announced(d)) + 1 <= giveUps[d])'
  <2>1. UNCHANGED <<entry, log, poll>>
    BY <1>9, OutsideSteps DEF channelVars
  <2>2. Announced(d)' = Announced(d)
    BY <2>1 DEF Announced
  <2>3. \/ giveUps'[d] = giveUps[d] /\ ("upload_failed" \in marks'[d] => "upload_failed" \in marks[d])
        \/ giveUps'[d] = giveUps[d] + 1
    <3>1. ASSUME NEW r \in {"complete", "failed"}, CloseRecording(c, r)
          PROVE  giveUps' = giveUps /\ ("upload_failed" \in marks'[d] => "upload_failed" \in marks[d])
      BY <3>1 DEF CloseRecording, SetMarks, LifecycleTypes, FileTypes
    <3>2. CASE FinishUpload(c)
      BY <3>2 DEF FinishUpload, SetMarks, LifecycleTypes, FileTypes
    <3>3. CASE GiveUpUpload(c)
      BY <3>3 DEF GiveUpUpload, SetMarks, LifecycleTypes, FileTypes
    <3>4. CASE RescanUpload(c)
      BY <3>4 DEF RescanUpload, SetMarks, LifecycleTypes, FileTypes
    <3>5. CASE DeleteDirectory(c)
      BY <3>5 DEF DeleteDirectory, SetMarks, LifecycleTypes, FileTypes
    <3> QED BY <1>9, <3>1, <3>2, <3>3, <3>4, <3>5 DEF Outside
  <2>4. CASE giveUps'[d] = giveUps[d] /\ ("upload_failed" \in marks'[d] => "upload_failed" \in marks[d])
    <3>1. Unannounced(d)' => Unannounced(d)
      BY <2>1, <2>4 DEF Unannounced
    <3> QED BY <1>5, <2>2, <2>4, <3>1
  <2>5. CASE giveUps'[d] = giveUps[d] + 1
    <3>1. PICK h : h = giveUps'[d]
      OBVIOUS
    <3>2. n <= h /\ n + 1 <= h
      BY <1>1, <1>2, <2>5, <3>1
    <3> QED BY <1>0, <2>2, <3>1, <3>2
  <2> QED BY <2>3, <2>4, <2>5
<1>10. CASE UNCHANGED <<entry, log, poll, marks, giveUps>>
  BY <1>5, <1>10 DEF Announced, Unannounced
<1> QED BY <1>4, <1>5, <1>6, <1>7, <1>8, <1>9, <1>10
        DEF Next, Poll, Keyboard, GrowOverdue, vars, channelVars, filesVars

(* A retry is announced at most once for each time the uploader gives up.  *)
THEOREM RetriesAnnouncedOnce == Spec => []RetryAnnouncedOnce
<1> USE LifecycleAssumption
<1>1. Init => RetryInv
  <2> SUFFICES ASSUME Init, NEW c \in Capture
               PROVE  /\ Cardinality(Announced(c)) <= giveUps[c]
                      /\ Unannounced(c) => Cardinality(Announced(c)) + 1 <= giveUps[c]
    BY DEF RetryInv
  <2>1. Announced(c) = {} /\ giveUps[c] = 0
    BY DEF Init, Announced
  <2>2. ~Unannounced(c)
    BY DEF Init, NoEntry, NoPoll, Unannounced
  <2> QED BY <2>1, <2>2, FS_EmptySet
<1>2. LifecycleTypes /\ LifecycleTypes' /\ ShapeInv /\ RetryInv /\ [Next]_vars => RetryInv'
  BY RetryStep
<1>3. RetryInv => RetryAnnouncedOnce
  BY DEF RetryInv, RetryAnnouncedOnce
<1> QED BY <1>1, <1>2, <1>3, LifecycleTyped, LifecycleSafe, PTL DEF Spec
=============================================================================
