---------------------------- MODULE UploadProofs ----------------------------
(***************************************************************************)
(* Proofs about the upload path, for every set of directories and files,   *)
(* every limit and every number of faults and crashes: every answer        *)
(* belongs to the request that is waited for and, as long as an old copy   *)
(* can be put back, what the inbox shows is whole, retention disturbs no   *)
(* first upload, and no recording is lost end to end.                      *)
(***************************************************************************)
EXTENDS UploadSystem, FiniteSetTheorems, TLAPS

(***************************************************************************)
(* First layer: types.                                                     *)
(***************************************************************************)

Requests == [op : {"BEGIN", "FILE_CHUNK", "END"}, dir : Dir, file : File, off : Nat,
             files : Nat, bytes : Nat, live : BOOLEAN]

(* Chunks received of each file seen so far.                               *)
Gots == UNION {[S -> Nat] : S \in SUBSET File}

WireTypes ==
    /\ net \in Seq(Requests)
    /\ faults \in 0 .. MaxFaults

Sending == Stages \cup {"mark", "release"}

SenderTypes ==
    /\ snd \in [pc : Sending \cup {"rest", "pick", "down"}, dir : Dir \cup {"none"},
                waiting : BOOLEAN, left : SUBSET File, off : Nat, sent : Nat, ok : BOOLEAN]
    /\ snd.waiting => snd.pc \in Stages
    /\ snd.pc \in {"begin", "chunk"} => snd.left # {}

DiskTypes ==
    /\ todo \subseteq recorded /\ recorded \subseteq Dir
    /\ attempts \in [Dir -> 0 .. MaxRetries]
    /\ fresh \subseteq Dir \X Timers
    /\ marks \in [Dir -> SUBSET MarkKinds]
    /\ src \in [Dir -> SUBSET File]
    /\ spotted \subseteq Dir /\ deleting \subseteq recorded

InboxTypes ==
    /\ transfers \in [Dir -> [open : BOOLEAN, got : Gots, files : Nat, bytes : Nat]]
    /\ idle \subseteq Open(transfers)
    /\ publish \in [step : {"none", "clean", "aside", "place", "tidy"}, dir : Dir \cup {"none"}]
    /\ publish.step # "none" => publish.dir \in Dir
    /\ final \in [Dir -> SUBSET File] /\ backup \in [Dir -> SUBSET File]

(* A directory with markers was recorded, and the one being sent is no     *)
(* candidate any more.                                                     *)
KnownDirs ==
    /\ \A d \in Dir : marks[d] # {} => d \in recorded
    /\ snd.pc \in Sending => snd.dir \in recorded \ todo

UploadTypes == WireTypes /\ SenderTypes /\ DiskTypes /\ InboxTypes /\ KnownDirs

(***************************************************************************)
(* Second layer: the inbox and what is sent.                               *)
(***************************************************************************)

(* inbox/<event> is whole or absent at every step of publishing, and where *)
(* it is absent the backup, too, is whole or absent: a backup is only in   *)
(* pieces beside the copy that has replaced it.                            *)
InboxWhole ==
    /\ \A d \in Dir : /\ final[d] \in {{}, File}
                      /\ final[d] = {} => backup[d] \in {{}, File}
    /\ publish.step # "none" => DOMAIN transfers[publish.dir].got = File
    /\ publish.step = "place" => final[publish.dir] = {}
    /\ publish.step = "tidy" => final[publish.dir] = File
    /\ publish.step # "none" => serving

(* The backup is the only copy just while its event is being replaced, or  *)
(* after a crash until the receiver starts again.                          *)
BackupInUse ==
    serving => \A d \in Dir : final[d] = {} /\ backup[d] # {} =>
                   publish.dir = d /\ publish.step = "place"

(* What is being sent or will be has not been uploaded.                    *)
SentUnmarked ==
    /\ \A d \in todo : "uploaded" \notin marks[d]
    /\ snd.pc \in Stages \cup {"mark"} => "uploaded" \notin marks[snd.dir]

InboxInv == InboxWhole /\ BackupInUse /\ SentUnmarked

(***************************************************************************)
(* Third layer: which request an answer belongs to.                        *)
(***************************************************************************)

OpOf(pc) == IF pc = "begin" THEN "BEGIN" ELSE IF pc = "chunk" THEN "FILE_CHUNK" ELSE "END"

(* At most one request in flight is waited for, and it is the one of the   *)
(* sender's stage; once it is answered or held there is none.              *)
LiveRequest ==
    /\ \A i \in DOMAIN net : net[i].live =>
           /\ snd.waiting /\ ~reply.there /\ ~held
           /\ net[i].dir = snd.dir /\ net[i].op = OpOf(snd.pc)
    /\ \A i, j \in DOMAIN net : net[i].live /\ net[j].live => i = j

HeldEnd ==
    held => /\ snd.waiting /\ ~reply.there /\ snd.pc = "end"
            /\ publish.step # "none" /\ publish.dir = snd.dir

ReplyAwaited == reply.there => snd.waiting

CallInv == LiveRequest /\ HeldEnd /\ ReplyAwaited

(* END was answered with a success only for a copy that is there.          *)
SuccessIsKept ==
    /\ reply.there /\ reply.ok /\ snd.pc = "end" => Kept(snd.dir)
    /\ snd.pc = "mark" => Kept(snd.dir)

(* What is being deleted has been delivered, whatever its markers have     *)
(* become.                                                                 *)
DeletingIsKept == \A d \in deleting : Kept(d)

CopyInv == SuccessIsKept /\ UploadedIsKept /\ DeletingIsKept /\ DataNeverLost

(***************************************************************************)
(* Proof of the first layer                                                *)
(***************************************************************************)

(* The queue of requests after one was added, taken or forsaken.           *)
LEMMA NetSteps ==
    ASSUME net \in Seq(Requests)
    PROVE  /\ \A r \in Requests : Append(net, r) \in Seq(Requests)
           /\ net # <<>> => Head(net) \in Requests /\ Tail(net) \in Seq(Requests)
           /\ [i \in DOMAIN net |-> [net[i] EXCEPT !.live = FALSE]] \in Seq(Requests)
<1>1. \A i \in DOMAIN net : net[i] \in Requests
  OBVIOUS
<1>2. \A r \in Requests : [r EXCEPT !.live = FALSE] \in Requests
  BY DEF Requests
<1>3. [i \in DOMAIN net |-> [net[i] EXCEPT !.live = FALSE]] \in [1 .. Len(net) -> Requests]
  BY <1>1, <1>2
<1>4. [i \in DOMAIN net |-> [net[i] EXCEPT !.live = FALSE]] \in Seq(Requests)
  BY <1>3
<1> QED BY <1>4

(* Files of finite number and size have a finite number of chunks.         *)
LEMMA AmountTyped ==
    ASSUME NEW S, IsFiniteSet(S), NEW size \in [S -> Nat]
    PROVE  Amount(size) \in Nat
<1> DEFINE of == [f \in S |-> {f} \X (1 .. size[f])]
           parts == {{f} \X (1 .. size[f]) : f \in S}
<1>1. of \in Surjection(S, parts)
  <2>1. of \in [S -> parts]
    OBVIOUS
  <2>2. \A t \in parts : \E f \in S : of[f] = t
    OBVIOUS
  <2> QED BY <2>1, <2>2 DEF Surjection
<1>2. IsFiniteSet(parts)
  <2> HIDE DEF of, parts
  <2> QED BY <1>1, FS_Surjection
<1>3. ASSUME NEW f \in S PROVE IsFiniteSet({f} \X (1 .. size[f]))
  <2>1. PICK n \in Nat : n = size[f]
    OBVIOUS
  <2>2. IsFiniteSet({f}) /\ IsFiniteSet(1 .. n)
    <3>1. 1 \in Int /\ n \in Int
      OBVIOUS
    <3> QED BY <3>1, FS_Singleton, FS_Interval
  <2> QED BY <2>1, <2>2, FS_Product
<1>4. \A t \in parts : IsFiniteSet(t)
  BY <1>3
<1>5. IsFiniteSet(UNION parts)
  <2> HIDE DEF parts
  <2> QED BY <1>2, <1>4, FS_UNION
<1>6. UNION parts = Chunks(size)
  BY DEF Chunks
<1> QED BY <1>5, <1>6, FS_CardinalityType DEF Amount

(* What the sender declares at BEGIN is a number.                          *)
LEMMA TotalTyped ==
    ASSUME NEW files, files \subseteq File
    PROVE  Total(files) \in Nat
<1>1. IsFiniteSet(files)
  BY FilesAssumption, FS_Subset
<1>2. [f \in files |-> Size[f]] \in [files -> Nat]
  BY FilesAssumption
<1> QED BY <1>1, <1>2, AmountTyped DEF Total

(* So is what the receiver counts at END.                                  *)
LEMMA ReceivedTyped ==
    ASSUME NEW got \in Gots
    PROVE  Received(got) \in Nat
<1>1. PICK S \in SUBSET File : got \in [S -> Nat]
  BY DEF Gots
<1>2. IsFiniteSet(S)
  BY FilesAssumption, FS_Subset
<1> QED BY <1>1, <1>2, AmountTyped DEF Received

(* What the sender asks for is a request.                                  *)
LEMMA RequestTyped ==
    ASSUME UploadTypes, snd.pc \in Stages
    PROVE  Request \in Requests /\ Request.live /\ Request.dir = snd.dir
             /\ Request.op = OpOf(snd.pc)
<1>1. snd.dir \in Dir /\ snd.left \in SUBSET File /\ snd.off \in Nat
  BY DEF UploadTypes, KnownDirs, Sending, DiskTypes, SenderTypes
<1>2. IsFiniteSet(snd.left)
  BY <1>1, FilesAssumption, FS_Subset
<1>3. Cardinality(snd.left) \in Nat /\ Total(snd.left) \in Nat
  BY <1>1, <1>2, FS_CardinalityType, TotalTyped
<1>4. CASE snd.pc = "begin"
  <2>1. Request = Begin(snd.dir, Cardinality(snd.left), Total(snd.left))
    BY <1>4 DEF Request
  <2> QED BY <1>1, <1>3, <1>4, <2>1, FilesAssumption DEF Begin, Requests, OpOf
<1>5. CASE snd.pc = "chunk"
  <2>1. snd.left # {} /\ snd.left \in SUBSET File
    BY <1>5 DEF UploadTypes, SenderTypes
  <2>2. NextFile \in File
    BY <2>1 DEF NextFile
  <2>3. Request = Chunk(snd.dir, NextFile, snd.off)
    BY <1>5 DEF Request
  <2>4. Size[NextFile] \in Nat
    BY <2>2, FilesAssumption
  <2> QED BY <1>1, <1>5, <2>2, <2>3, <2>4 DEF Chunk, Requests, OpOf
<1>6. CASE snd.pc = "end"
  <2>1. Request = End(snd.dir)
    BY <1>6 DEF Request
  <2> QED BY <1>1, <1>6, <2>1, FilesAssumption DEF End, Requests, OpOf
<1> QED BY <1>4, <1>5, <1>6 DEF Stages

(* The sender after a request that succeeded.                              *)
LEMMA AdvancedTyped ==
    ASSUME UploadTypes, snd.pc \in Stages
    PROVE  /\ [Advanced EXCEPT !.waiting = FALSE] \in
                  [pc : Sending, dir : Dir \cup {"none"}, waiting : BOOLEAN,
                   left : SUBSET File, off : Nat, sent : Nat, ok : BOOLEAN]
           /\ Advanced.dir = snd.dir
           /\ Advanced.pc \in {"begin", "chunk"} => Advanced.left # {}
           /\ Advanced.pc \in {"begin", "chunk", "end", "mark", "release"}
           /\ Advanced.pc = "mark" => snd.pc = "end"
<1> DEFINE T == [pc : Sending \cup {"rest", "pick", "down"}, dir : Dir \cup {"none"},
                 waiting : BOOLEAN, left : SUBSET File, off : Nat, sent : Nat, ok : BOOLEAN]
<1>1. snd \in T /\ (snd.pc \in {"begin", "chunk"} => snd.left # {})
  BY DEF UploadTypes, SenderTypes
<1>2. CASE snd.pc = "begin"
  <2>1. Advanced = [snd EXCEPT !.pc = "chunk"]
    BY <1>2 DEF Advanced
  <2> QED BY <1>1, <1>2, <2>1 DEF Sending, Stages
<1>3. CASE snd.pc = "chunk"
  <2> DEFINE f == NextFile
             more == snd.off + 1 < Size[f]
             left == IF more THEN snd.left ELSE snd.left \ {f}
             pc == IF ~more /\ f \notin src[snd.dir] THEN "release"
                   ELSE IF left = {} THEN "end" ELSE "chunk"
             off == IF more THEN snd.off + 1 ELSE 0
             sent == IF Size[f] = 0 THEN snd.sent ELSE snd.sent + 1
  <2>1. Advanced = [snd EXCEPT !.pc = pc, !.left = left, !.off = off, !.sent = sent]
    BY <1>3 DEF Advanced
  <2>2. left \in SUBSET File /\ off \in Nat /\ sent \in Nat
    BY <1>1
  <2>3. pc \in {"chunk", "end", "release"} /\ (pc = "chunk" => left # {})
    OBVIOUS
  <2> HIDE DEF f, more, left, pc, off, sent
  <2> QED BY <1>1, <1>3, <2>1, <2>2, <2>3 DEF Sending, Stages
<1>4. CASE snd.pc = "end"
  <2>1. Advanced = [snd EXCEPT !.pc = IF reply.bytes = snd.sent THEN "mark" ELSE "release"]
    BY <1>4 DEF Advanced
  <2> QED BY <1>1, <1>4, <2>1 DEF Sending, Stages
<1> QED BY <1>2, <1>3, <1>4 DEF Stages

(* The wire after each way it is used.                                     *)
LEMMA WireSteps ==
    ASSUME WireTypes, faults' = faults \/ Fault
    PROVE  /\ UNCHANGED <<net, held, reply, serving>> => WireTypes'
           /\ Forsake => WireTypes'
           /\ \A r \in Requests : Send(r) => WireTypes'
<1>1. faults' \in 0 .. MaxFaults
  BY FaultsAssumption DEF WireTypes, Fault
<1>2. UNCHANGED <<net, held, reply, serving>> => WireTypes'
  BY <1>1 DEF WireTypes
<1>3. Forsake => WireTypes'
  <2>1. [i \in DOMAIN net |-> [net[i] EXCEPT !.live = FALSE]] \in Seq(Requests)
    BY NetSteps DEF WireTypes
  <2> QED BY <1>1, <2>1 DEF WireTypes, Forsake
<1>4. \A r \in Requests : Send(r) => WireTypes'
  BY <1>1, NetSteps DEF WireTypes, Send
<1> QED BY <1>2, <1>3, <1>4

(* The steps of the upload thread.                                         *)
LEMMA UploadStepTypes ==
    ASSUME UploadTypes, Upload, UNCHANGED recvVars
    PROVE  UploadTypes'
<1> USE DEF UploadTypes, rpcVars, retentionVars
<1>0. InboxTypes'
  BY DEF InboxTypes, Open, recvVars
<1>1. CASE Scan
  <2>1. WireTypes'
    BY <1>1, WireSteps DEF Scan
  <2>2. SenderTypes'
    BY <1>1 DEF Scan, SenderTypes, Thread, Sending, Stages
  <2>3. todo' \subseteq recorded
    BY <1>1 DEF Scan, Candidate, Unuploaded, KnownDirs
  <2>4. marks' \in [Dir -> SUBSET MarkKinds] /\ \A d \in Dir : marks'[d] \subseteq marks[d]
    BY <1>1 DEF Scan, DiskTypes
  <2>5. DiskTypes'
    BY <1>1, <2>3, <2>4 DEF Scan, DiskTypes
  <2>6. KnownDirs'
    BY <1>1, <2>4 DEF Scan, KnownDirs, Thread, Sending, Stages
  <2> QED BY <1>0, <2>1, <2>2, <2>5, <2>6
<1>2. CASE EndScan
  <2>1. WireTypes'
    BY <1>2, WireSteps DEF EndScan
  <2>2. SenderTypes' /\ DiskTypes' /\ KnownDirs'
    BY <1>2 DEF EndScan, SenderTypes, DiskTypes, KnownDirs, Thread, Sending, Stages
  <2> QED BY <1>0, <2>1, <2>2
<1>3. CASE \E d \in Dir : StartUpload(d)
  <2>1. PICK d \in Dir : StartUpload(d)
    BY <1>3
  <2>2. d \in recorded /\ src[d] \in SUBSET File
    BY <2>1 DEF StartUpload, DiskTypes
  <2>3. WireTypes'
    BY <2>1, WireSteps DEF StartUpload
  <2>4. \/ snd' = [Thread("release") EXCEPT !.dir = d]
        \/ snd' = [Thread("release") EXCEPT !.dir = d, !.left = src[d]]
        \/ src[d] # {} /\ snd' = [Thread("begin") EXCEPT !.dir = d, !.left = src[d]]
    BY <2>1 DEF StartUpload
  <2>5. SenderTypes' /\ snd'.dir = d /\ snd'.pc \in Sending
    <3>1. CASE snd' = [Thread("release") EXCEPT !.dir = d]
      BY <3>1 DEF SenderTypes, Thread, Sending, Stages
    <3>2. CASE snd' = [Thread("release") EXCEPT !.dir = d, !.left = src[d]]
      BY <2>2, <3>2 DEF SenderTypes, Thread, Sending, Stages
    <3>3. CASE src[d] # {} /\ snd' = [Thread("begin") EXCEPT !.dir = d, !.left = src[d]]
      BY <2>2, <3>3 DEF SenderTypes, Thread, Sending, Stages
    <3> QED BY <2>4, <3>1, <3>2, <3>3
  <2>6. fresh' \subseteq Dir \X Timers
    BY <2>1 DEF StartUpload, DiskTypes, Timers
  <2>7. /\ marks' \in [Dir -> SUBSET MarkKinds]
        /\ \A e \in Dir : e # d => marks'[e] = marks[e]
    BY <2>1 DEF StartUpload, DiskTypes, MarkKinds
  <2>8. DiskTypes'
    BY <2>1, <2>6, <2>7 DEF StartUpload, DiskTypes
  <2>9. KnownDirs'
    BY <2>1, <2>2, <2>5, <2>7 DEF StartUpload, KnownDirs
  <2> QED BY <1>0, <2>3, <2>5, <2>8, <2>9
<1>4. CASE Call
  <2>1. DiskTypes'
    BY <1>4 DEF Call, DiskTypes
  <2>2. CASE serving
    <3>1. WireTypes'
      BY <1>4, <2>2, RequestTyped, WireSteps DEF Call, Send
    <3>2. SenderTypes' /\ KnownDirs'
      BY <1>4, <2>2 DEF Call, SenderTypes, KnownDirs, Sending, Stages
    <3> QED BY <1>0, <2>1, <3>1, <3>2
  <2>3. CASE ~serving
    <3>1. WireTypes'
      BY <1>4, <2>3, WireSteps DEF Call
    <3>2. SenderTypes' /\ KnownDirs'
      BY <1>4, <2>3 DEF Call, SenderTypes, KnownDirs, Sending, Stages
    <3> QED BY <1>0, <2>1, <3>1, <3>2
  <2> QED BY <2>2, <2>3
<1>5. CASE GetReply
  <2>1. WireTypes'
    BY <1>5 DEF GetReply, WireTypes
  <2>2. DiskTypes' /\ snd.pc \in Stages
    BY <1>5 DEF GetReply, DiskTypes, SenderTypes
  <2>3. CASE reply.ok
    <3>1. snd' = [Advanced EXCEPT !.waiting = FALSE]
      BY <1>5, <2>3 DEF GetReply
    <3>2. PICK s : s = Advanced
      OBVIOUS
    <3>3. /\ [s EXCEPT !.waiting = FALSE] \in
                  [pc : Sending, dir : Dir \cup {"none"}, waiting : BOOLEAN,
                   left : SUBSET File, off : Nat, sent : Nat, ok : BOOLEAN]
          /\ s.dir = snd.dir
          /\ s.pc \in {"begin", "chunk"} => s.left # {}
          /\ s.pc \in Sending
      BY <2>2, <3>2, AdvancedTyped DEF Sending, Stages
    <3>4. snd' = [s EXCEPT !.waiting = FALSE]
      BY <3>1, <3>2
    <3>5. snd'.pc = s.pc /\ snd'.dir = s.dir /\ snd'.left = s.left /\ snd'.waiting = FALSE
      BY <3>3, <3>4
    <3>6. SenderTypes'
      BY <3>3, <3>4, <3>5 DEF SenderTypes, Sending, Stages
    <3>7. KnownDirs'
      BY <1>5, <2>2, <3>3, <3>5 DEF GetReply, KnownDirs, Sending
    <3> QED BY <1>0, <2>1, <2>2, <3>6, <3>7
  <2>4. CASE ~reply.ok
    <3>1. snd' = [[snd EXCEPT !.pc = "release"] EXCEPT !.waiting = FALSE]
      BY <1>5, <2>4 DEF GetReply
    <3>2. SenderTypes' /\ KnownDirs'
      BY <1>5, <2>2, <3>1 DEF GetReply, SenderTypes, KnownDirs, Sending, Stages
    <3> QED BY <1>0, <2>1, <2>2, <3>2
  <2> QED BY <2>3, <2>4
<1>6. CASE Timeout
  <2>1. WireTypes'
    BY <1>6, WireSteps DEF Timeout
  <2>2. SenderTypes' /\ KnownDirs' /\ DiskTypes'
    BY <1>6 DEF Timeout, SenderTypes, KnownDirs, DiskTypes, Sending, Stages
  <2> QED BY <1>0, <2>1, <2>2
<1>7. CASE ReadFails
  <2>1. WireTypes'
    BY <1>7, WireSteps DEF ReadFails
  <2>2. SenderTypes' /\ KnownDirs' /\ DiskTypes'
    BY <1>7 DEF ReadFails, Vanished, SenderTypes, KnownDirs, DiskTypes, Sending, Stages
  <2> QED BY <1>0, <2>1, <2>2
<1>8. CASE WriteUploaded
  <2>1. WireTypes'
    BY <1>8, WireSteps DEF WriteUploaded
  <2>2. SenderTypes' /\ snd'.dir = snd.dir /\ snd.pc \in Sending
    BY <1>8 DEF WriteUploaded, SenderTypes, Sending, Stages
  <2>3. /\ marks' \in [Dir -> SUBSET MarkKinds]
        /\ \A e \in Dir : e # snd.dir => marks'[e] = marks[e]
    BY <1>8 DEF WriteUploaded, DiskTypes, MarkKinds
  <2>4. DiskTypes'
    BY <1>8, <2>3 DEF WriteUploaded, DiskTypes
  <2>5. KnownDirs'
    BY <1>8, <2>2, <2>3 DEF WriteUploaded, KnownDirs
  <2> QED BY <1>0, <2>1, <2>2, <2>4, <2>5
<1>9. CASE Release
  <2>1. WireTypes'
    BY <1>9, WireSteps DEF Release
  <2>2. SenderTypes'
    BY <1>9 DEF Release, SenderTypes, Thread, Sending, Stages
  <2>3. snd.dir \in Dir /\ snd.dir \in recorded
    BY <1>9 DEF Release, KnownDirs, DiskTypes, Sending
  <2>4. /\ marks' \in [Dir -> SUBSET MarkKinds]
        /\ \A e \in Dir : e # snd.dir => marks'[e] = marks[e]
    BY <1>9 DEF Release, DiskTypes, MarkKinds
  <2>5. attempts' \in [Dir -> 0 .. MaxRetries]
    BY <1>9, <2>3, UploaderAssumption DEF Release, DiskTypes
  <2>6. fresh' \subseteq Dir \X Timers
    BY <1>9, <2>3 DEF Release, DiskTypes, Timers
  <2>7. DiskTypes'
    BY <1>9, <2>4, <2>5, <2>6 DEF Release, DiskTypes
  <2>8. KnownDirs'
    BY <1>9, <2>3, <2>4 DEF Release, KnownDirs, Thread, Sending, Stages
  <2> QED BY <1>0, <2>1, <2>2, <2>7, <2>8
<1> QED BY <1>1, <1>2, <1>3, <1>4, <1>5, <1>6, <1>7, <1>8, <1>9 DEF Upload

(* The rest of the sending process.                                        *)
LEMMA ProcessStepTypes ==
    ASSUME UploadTypes, WorkerNext, ~Upload, UNCHANGED recvVars
    PROVE  UploadTypes'
<1> USE DEF UploadTypes, rpcVars, retentionVars
<1>0. InboxTypes'
  BY DEF InboxTypes, Open, recvVars
<1>1. CASE \E x \in Dir \X Timers : Elapse(x)
  <2>1. WireTypes'
    BY <1>1, WireSteps DEF Elapse
  <2>2. SenderTypes' /\ DiskTypes' /\ KnownDirs'
    BY <1>1 DEF Elapse, SenderTypes, DiskTypes, KnownDirs
  <2> QED BY <1>0, <2>1, <2>2
<1>2. ASSUME NEW d \in Dir, Record(d) PROVE UploadTypes'
  <2>1. WireTypes'
    BY <1>2, WireSteps DEF Record
  <2>2. SenderTypes' /\ DiskTypes'
    BY <1>2 DEF Record, SenderTypes, DiskTypes, MarkKinds
  <2>3. KnownDirs'
    BY <1>2 DEF Record, DiskTypes, KnownDirs
  <2> QED BY <1>0, <2>1, <2>2, <2>3
<1>3. ASSUME NEW d \in Dir, Spot(d) PROVE UploadTypes'
  <2>1. WireTypes'
    BY <1>3, WireSteps DEF Spot
  <2>2. SenderTypes' /\ DiskTypes' /\ KnownDirs'
    BY <1>3 DEF Spot, SenderTypes, DiskTypes, KnownDirs
  <2> QED BY <1>0, <2>1, <2>2
<1>4. ASSUME NEW d \in Dir, StartDelete(d) \/ EndDelete(d) PROVE UploadTypes'
  <2>1. WireTypes'
    BY <1>4, WireSteps DEF StartDelete, EndDelete
  <2>2. d \in recorded
    BY <1>4 DEF StartDelete, EndDelete, Expendable, KnownDirs, DiskTypes
  <2>3. SenderTypes' /\ DiskTypes' /\ KnownDirs'
    BY <1>4, <2>2 DEF StartDelete, EndDelete, SenderTypes, DiskTypes, KnownDirs
  <2> QED BY <1>0, <2>1, <2>3
<1>7. ASSUME NEW d \in Dir, NEW mark \in MarkKinds, DeleteMark(d, mark) PROVE UploadTypes'
  <2>1. WireTypes'
    BY <1>7, WireSteps DEF DeleteMark
  <2>2. SenderTypes' /\ DiskTypes'
    BY <1>7 DEF DeleteMark, SenderTypes, DiskTypes
  <2>3. KnownDirs'
    BY <1>7 DEF DeleteMark, DiskTypes, KnownDirs
  <2> QED BY <1>0, <2>1, <2>2, <2>3
<1>8. ASSUME NEW d \in Dir, NEW g \in File, DeleteFile(d, g) PROVE UploadTypes'
  <2>1. WireTypes'
    BY <1>8, WireSteps DEF DeleteFile
  <2>2. SenderTypes' /\ DiskTypes' /\ KnownDirs'
    BY <1>8 DEF DeleteFile, SenderTypes, DiskTypes, KnownDirs
  <2> QED BY <1>0, <2>1, <2>2
<1>5. CASE StopWorker \/ CrashWorker
  <2>1. EndOfWorker /\ marks' \in [Dir -> SUBSET MarkKinds]
        /\ \A d \in Dir : marks'[d] \subseteq marks[d]
    BY <1>5 DEF StopWorker, CrashWorker, DiskTypes
  <2>2. WireTypes'
    BY <2>1, WireSteps DEF EndOfWorker
  <2>3. SenderTypes'
    BY <2>1 DEF EndOfWorker, SenderTypes, Thread, Stages
  <2>4. attempts' \in [Dir -> 0 .. MaxRetries]
    BY <2>1, UploaderAssumption DEF EndOfWorker
  <2>5. DiskTypes'
    BY <2>1, <2>4 DEF EndOfWorker, DiskTypes
  <2>6. KnownDirs'
    BY <2>1 DEF EndOfWorker, KnownDirs, Thread, Sending, Stages
  <2> QED BY <1>0, <2>2, <2>3, <2>5, <2>6
<1>6. CASE StartWorker
  <2>1. WireTypes'
    BY <1>6, WireSteps DEF StartWorker
  <2>2. SenderTypes' /\ DiskTypes' /\ KnownDirs'
    BY <1>6 DEF StartWorker, SenderTypes, DiskTypes, KnownDirs, Thread, Sending, Stages
  <2> QED BY <1>0, <2>1, <2>2
<1> QED BY <1>1, <1>2, <1>3, <1>4, <1>5, <1>6, <1>7, <1>8 DEF WorkerNext

(* A transfer table that gets one new entry, as DoBegin and DoChunk do.    *)
TransferTypes == [open : BOOLEAN, got : Gots, files : Nat, bytes : Nat]

LEMMA EmptyGot == <<>> \in Gots /\ NoTransfer \in TransferTypes
<1>1. <<>> \in [{} -> Nat]
  OBVIOUS
<1>2. <<>> \in Gots
  BY <1>1 DEF Gots
<1> QED BY <1>2 DEF NoTransfer, TransferTypes

(* Dropping idle transfers keeps the table well typed.                     *)
LEMMA PrunedTyped ==
    ASSUME InboxTypes
    PROVE  Pruned \in [Dir -> TransferTypes]
  BY EmptyGot DEF InboxTypes, Pruned, TransferTypes

(* What DoChunk stores is again a record of chunks.                        *)
LEMMA ChunkTyped ==
    ASSUME NEW got \in Gots, NEW f \in File, NEW n \in Nat
    PROVE  [g \in DOMAIN got \cup {f} |-> IF g # f THEN got[g] ELSE n] \in Gots
<1>1. PICK S \in SUBSET File : got \in [S -> Nat]
  BY DEF Gots
<1>2. [g \in DOMAIN got \cup {f} |-> IF g # f THEN got[g] ELSE n] \in [S \cup {f} -> Nat]
  BY <1>1
<1>3. S \cup {f} \in SUBSET File
  BY <1>1
<1> QED BY <1>2, <1>3 DEF Gots

(* The receiver's steps.                                                   *)
LEMMA ReceiverStepTypes ==
    ASSUME UploadTypes,
           \/ ServeRequest /\ UNCHANGED workerVars
           \/ (ReceiverCrash \/ ReceiverStart) /\ UNCHANGED workerVars
    PROVE  UploadTypes'
<1> USE DEF UploadTypes, rpcVars
<1>0. SenderTypes' /\ DiskTypes' /\ KnownDirs'
  BY DEF workerVars, retentionVars, SenderTypes, DiskTypes, KnownDirs
<1>1. CASE Dispatch
  <2> DEFINE r == Head(net)
             tr == Pruned
  <2>1. r \in Requests /\ Tail(net) \in Seq(Requests)
    BY <1>1, NetSteps DEF Dispatch, WireTypes
  <2>2. tr \in [Dir -> TransferTypes] /\ r.dir \in Dir
    BY <2>1, PrunedTyped DEF Requests
  <2>3. /\ net' = Tail(net) /\ idle' = {} /\ final' = final /\ backup' = backup
        /\ serving' = serving /\ faults' = faults
    BY <1>1 DEF Dispatch, DoBegin, DoChunk, DoEnd, Respond
  <2>4. WireTypes'
    BY <2>1, <2>3 DEF WireTypes
  <2>5. transfers' \in [Dir -> TransferTypes]
    <3>1. CASE r.op = "BEGIN" /\ DoBegin(tr, r)
      <4>1. [open |-> TRUE, got |-> <<>>, files |-> r.files, bytes |-> r.bytes] \in TransferTypes
        BY <2>1, EmptyGot DEF TransferTypes, Requests
      <4> QED BY <2>2, <3>1, <4>1 DEF DoBegin
    <3>2. CASE r.op = "FILE_CHUNK" /\ DoChunk(tr, r)
      <4>1. PICK t \in TransferTypes : t = tr[r.dir]
        BY <2>2
      <4>2. PICK g : g = t.got
        OBVIOUS
      <4>3. g \in Gots /\ \A f \in DOMAIN g : g[f] \in Nat
        BY <4>1, <4>2 DEF TransferTypes, Gots
      <4>4. \E n \in Nat : transfers' = [tr EXCEPT ![r.dir].got =
                [f \in DOMAIN g \cup {r.file} |-> IF f # r.file THEN g[f] ELSE n]]
        <5> DEFINE have == IF r.file \in DOMAIN g THEN g[r.file] ELSE 0
                   end == r.off + Length(r)
                   next == r.off = have /\ end <= r.bytes
                   n == IF next THEN end ELSE have
        <5>1. have \in Nat /\ end \in Nat
          BY <2>1, <4>3 DEF Length, Requests
        <5>2. n \in Nat
          BY <5>1
        <5>3. transfers' = [tr EXCEPT ![r.dir].got =
                  [f \in DOMAIN g \cup {r.file} |->
                      IF f # r.file THEN g[f] ELSE IF next THEN end ELSE have]]
          BY <3>2, <4>1, <4>2 DEF DoChunk
        <5>4. PICK k \in Nat : k = n
          BY <5>2
        <5>5. transfers' = [tr EXCEPT ![r.dir].got =
                  [f \in DOMAIN g \cup {r.file} |-> IF f # r.file THEN g[f] ELSE k]]
          BY <5>3, <5>4
        <5> QED BY <5>5
      <4>5. \A n \in Nat :
                [f \in DOMAIN g \cup {r.file} |-> IF f # r.file THEN g[f] ELSE n] \in Gots
        BY <2>1, <4>3, ChunkTyped DEF Requests
      <4>6. PICK h \in Gots : transfers' = [tr EXCEPT ![r.dir].got = h]
        BY <4>4, <4>5
      <4> QED BY <2>2, <4>1, <4>6 DEF TransferTypes
    <3>3. CASE transfers' = tr
      BY <2>2, <3>3
    <3> QED BY <1>1, <3>1, <3>2, <3>3 DEF Dispatch, DoEnd
  <2>6. \/ publish' = publish
        \/ publish' = [step |-> "clean", dir |-> r.dir]
    BY <1>1 DEF Dispatch, DoBegin, DoChunk, DoEnd
  <2>7. InboxTypes'
    BY <2>2, <2>3, <2>5, <2>6 DEF InboxTypes, TransferTypes, Open
  <2> QED BY <1>0, <2>4, <2>7
<1>2. CASE DropOldBackup \/ MoveAside
  <2>1. WireTypes'
    BY <1>2, WireSteps DEF DropOldBackup, MoveAside, BackupRemoved
  <2>2. InboxTypes'
    BY <1>2 DEF DropOldBackup, MoveAside, InboxTypes, At, GoTo, Open
  <2> QED BY <1>0, <2>1, <2>2
<1>8. CASE \E g \in File : RemoveBackupEntry(g)
  <2>1. WireTypes'
    BY <1>8, WireSteps DEF RemoveBackupEntry
  <2>3. PICK g \in File : RemoveBackupEntry(g)
    BY <1>8
  <2>4. /\ UNCHANGED <<transfers, idle, publish, final>> /\ publish.step # "none"
        /\ backup' = [backup EXCEPT ![publish.dir] = @ \ {g}]
    BY <2>3 DEF RemoveBackupEntry, At
  <2>5. publish.dir \in Dir /\ backup \in [Dir -> SUBSET File]
    BY <2>4 DEF InboxTypes
  <2>6. backup' \in [Dir -> SUBSET File]
    BY <2>4, <2>5
  <2>2. InboxTypes'
    BY <2>4, <2>6 DEF InboxTypes, Open
  <2> QED BY <1>0, <2>1, <2>2
<1>9. CASE AsideFails
  <2>1. WireTypes'
    BY <1>9, FaultsAssumption DEF AsideFails, RequestFails, WireTypes, Fault
  <2>2. InboxTypes'
    BY <1>9 DEF AsideFails, RequestFails, InboxTypes, Resting, Open
  <2> QED BY <1>0, <2>1, <2>2
<1>3. CASE PlaceStaging
  <2>1. WireTypes'
    BY <1>3, WireSteps DEF PlaceStaging
  <2>2. publish.dir \in Dir /\ DOMAIN transfers[publish.dir].got \in SUBSET File
    BY <1>3 DEF PlaceStaging, At, InboxTypes, Gots
  <2>3. InboxTypes'
    BY <1>3, <2>2 DEF PlaceStaging, InboxTypes, GoTo, Open
  <2> QED BY <1>0, <2>1, <2>3
<1>4. CASE PlaceFails
  <2>1. WireTypes'
    BY <1>4, FaultsAssumption DEF PlaceFails, RequestFails, WireTypes, Fault
  <2>2. InboxTypes'
    BY <1>4 DEF PlaceFails, RequestFails, InboxTypes, Resting, Open
  <2> QED BY <1>0, <2>1, <2>2
<1>5. CASE Conclude
  <2>1. WireTypes'
    BY <1>5, FaultsAssumption DEF Conclude, BackupRemoved, WireTypes, Fault
  <2>2. InboxTypes'
    BY <1>5, EmptyGot DEF Conclude, InboxTypes, Resting, Open, TransferTypes, NoTransfer
  <2> QED BY <1>0, <2>1, <2>2
<1>6. CASE ReceiverCrash
  <2>1. WireTypes'
    BY <1>6 DEF ReceiverCrash, WireTypes
  <2>2. InboxTypes'
    BY <1>6, EmptyGot DEF ReceiverCrash, InboxTypes, Resting, Open, TransferTypes
  <2> QED BY <1>0, <2>1, <2>2
<1>7. CASE ReceiverStart
  <2>1. WireTypes'
    BY <1>7, FaultsAssumption DEF ReceiverStart, WireTypes, Fault
  <2>2. backup' \in [Dir -> SUBSET File]
    <3>1. {} \in SUBSET File
      OBVIOUS
    <3> QED BY <1>7, <3>1 DEF ReceiverStart
  <2>3. InboxTypes'
    BY <1>7, <2>2 DEF ReceiverStart, InboxTypes, Open
  <2> QED BY <1>0, <2>1, <2>3
<1> QED BY <1>1, <1>2, <1>3, <1>4, <1>5, <1>6, <1>7, <1>8, <1>9 DEF ServeRequest

(* Every state of the upload path is well typed.                           *)
THEOREM UploadTyped == Spec => []UploadTypes
<1>1. Init => UploadTypes
  <2> SUFFICES ASSUME Init PROVE UploadTypes
    OBVIOUS
  <2> USE DEF Init
  <2>1. WireTypes
    BY FaultsAssumption DEF RpcInit, WireTypes
  <2>2. SenderTypes /\ KnownDirs
    BY DEF WorkerInit, SenderTypes, KnownDirs, Thread, Sending, Stages
  <2>3. DiskTypes
    BY UploaderAssumption DEF WorkerInit, DiskTypes
  <2>4. InboxTypes
    BY EmptyGot DEF ReceiverInit, InboxTypes, TransferTypes, Resting, Open
  <2> QED BY <2>1, <2>2, <2>3, <2>4 DEF UploadTypes
<1>2. UploadTypes /\ [Next]_vars => UploadTypes'
  <2> SUFFICES ASSUME UploadTypes, [Next]_vars PROVE UploadTypes'
    OBVIOUS
  <2>1. CASE WorkerNext /\ UNCHANGED recvVars
    BY <2>1, UploadStepTypes, ProcessStepTypes
  <2>2. CASE Receive \/ ((ReceiverCrash \/ ReceiverStart) /\ UNCHANGED workerVars)
    BY <2>2, ReceiverStepTypes DEF Receive
  <2>3. CASE GrowIdle
    <3>1. WireTypes'
      BY <2>3, WireSteps DEF GrowIdle, UploadTypes
    <3>2. SenderTypes' /\ DiskTypes' /\ KnownDirs'
      BY <2>3 DEF GrowIdle, UploadTypes, workerVars, retentionVars, SenderTypes, DiskTypes,
                  KnownDirs
    <3>3. InboxTypes'
      BY <2>3 DEF GrowIdle, TransferIdle, UploadTypes, InboxTypes, Open
    <3> QED BY <3>1, <3>2, <3>3 DEF UploadTypes
  <2>4. CASE (LoseRequest \/ LoseAnswer) /\ UNCHANGED <<workerVars, recvVars>>
    <3>1. WireTypes'
      <4>1. CASE LoseRequest
        <5>1. Tail(net) \in Seq(Requests)
          BY <4>1, NetSteps DEF LoseRequest, UploadTypes, WireTypes
        <5> QED BY <4>1, <5>1, FaultsAssumption DEF LoseRequest, UploadTypes, WireTypes, Fault
      <4>2. CASE LoseAnswer
        BY <4>2, FaultsAssumption DEF LoseAnswer, UploadTypes, WireTypes, Fault
      <4> QED BY <2>4, <4>1, <4>2
    <3>2. SenderTypes' /\ DiskTypes' /\ KnownDirs' /\ InboxTypes'
      BY <2>4 DEF UploadTypes, workerVars, retentionVars, recvVars, SenderTypes, DiskTypes, KnownDirs,
                  InboxTypes, Open
    <3> QED BY <3>1, <3>2 DEF UploadTypes
  <2>5. CASE UNCHANGED vars
    BY <2>5 DEF vars, workerVars, retentionVars, recvVars, rpcVars, UploadTypes, WireTypes, SenderTypes,
                DiskTypes, KnownDirs, InboxTypes, Open
  <2> QED BY <2>1, <2>2, <2>3, <2>4, <2>5 DEF Next
<1> QED BY <1>1, <1>2, PTL DEF Spec

(***************************************************************************)
(* Proof of the second layer                                               *)
(***************************************************************************)

(* A thread outside any upload.                                            *)
LEMMA ThreadIdle ==
    ASSUME NEW pc \in {"rest", "pick", "down"}
    PROVE  Thread(pc).pc \notin Sending /\ Thread(pc).waiting = FALSE
  BY DEF Thread, Sending, Stages

(* How the thread moves while it has a directory in hand.                  *)
LEMMA SenderMoves ==
    ASSUME UploadTypes, Call \/ GetReply \/ Timeout \/ ReadFails
    PROVE  /\ snd.pc \in Stages /\ snd'.dir = snd.dir
           /\ UNCHANGED <<todo, marks, src, deleting, recorded>>
           /\ snd'.pc = "mark" => GetReply /\ reply.ok /\ snd.pc = "end"
           /\ snd'.waiting => Call /\ serving /\ snd'.pc = snd.pc
<1>1. snd.pc \in Stages
  BY DEF Call, GetReply, Timeout, ReadFails, Vanished, Stages, UploadTypes, SenderTypes
<1>2. UNCHANGED <<todo, marks, src, deleting, recorded>>
  BY DEF Call, GetReply, Timeout, ReadFails, retentionVars
<1>3. CASE Call \/ Timeout \/ ReadFails
  <2>1. /\ snd'.dir = snd.dir
        /\ snd'.pc \in {snd.pc, "release"}
        /\ snd'.waiting => Call /\ serving /\ snd'.pc = snd.pc
    <3>1. CASE Call
      BY <3>1 DEF Call, UploadTypes, SenderTypes
    <3>2. CASE Timeout
      BY <3>2 DEF Timeout, UploadTypes, SenderTypes
    <3>3. CASE ReadFails
      BY <3>3 DEF ReadFails, UploadTypes, SenderTypes
    <3> QED BY <1>3, <3>1, <3>2, <3>3
  <2> QED BY <1>1, <1>2, <2>1 DEF Stages
<1>4. CASE GetReply
  <2>1. CASE reply.ok
    <3>1. PICK s : s = Advanced
      OBVIOUS
    <3>2. /\ [s EXCEPT !.waiting = FALSE] \in
                  [pc : Sending, dir : Dir \cup {"none"}, waiting : BOOLEAN,
                   left : SUBSET File, off : Nat, sent : Nat, ok : BOOLEAN]
          /\ s.dir = snd.dir
          /\ s.pc = "mark" => snd.pc = "end"
      BY <1>1, <3>1, AdvancedTyped
    <3>3. snd' = [s EXCEPT !.waiting = FALSE]
      BY <1>4, <2>1, <3>1 DEF GetReply
    <3>4. snd'.pc = s.pc /\ snd'.dir = s.dir /\ snd'.waiting = FALSE
      BY <3>2, <3>3
    <3> QED BY <1>1, <1>2, <1>4, <2>1, <3>2, <3>4
  <2>2. CASE ~reply.ok
    <3>1. snd' = [[snd EXCEPT !.pc = "release"] EXCEPT !.waiting = FALSE]
      BY <1>4, <2>2 DEF GetReply
    <3>2. snd'.pc = "release" /\ snd'.dir = snd.dir /\ snd'.waiting = FALSE
      BY <3>1 DEF UploadTypes, SenderTypes
    <3> QED BY <1>1, <1>2, <3>2
  <2> QED BY <2>1, <2>2
<1> QED BY <1>3, <1>4

(* Retention, from the beginning of a deletion to its end.                 *)
Deletion ==
    \/ \E d \in Dir : StartDelete(d) \/ EndDelete(d)
    \/ \E d \in Dir, mark \in MarkKinds : DeleteMark(d, mark)
    \/ \E d \in Dir, g \in File : DeleteFile(d, g)

(* It takes away markers and files of what it is deleting, and begins only *)
(* with what has .uploaded.                                                *)
LEMMA DeletionSteps ==
    ASSUME UploadTypes, Deletion
    PROVE  /\ UNCHANGED <<snd, todo, recorded, net, held, reply, serving>>
           /\ \A e \in Dir : marks'[e] \subseteq marks[e]
           /\ \A e \in Dir : e \notin deleting => src'[e] = src[e]
           /\ \A e \in deleting' : e \in deleting \/ "uploaded" \in marks[e]
<1> USE DEF rpcVars, retentionVars, UploadTypes, DiskTypes
<1>1. ASSUME NEW d \in Dir, StartDelete(d) \/ EndDelete(d)
      PROVE  /\ UNCHANGED <<snd, todo, recorded, net, held, reply, serving, marks, src>>
             /\ \A e \in deleting' : e \in deleting \/ "uploaded" \in marks[e]
  BY <1>1 DEF StartDelete, EndDelete, Expendable
<1>2. ASSUME NEW d \in Dir, NEW mark \in MarkKinds, DeleteMark(d, mark)
      PROVE  /\ UNCHANGED <<snd, todo, recorded, net, held, reply, serving, src, deleting>>
             /\ \A e \in Dir : marks'[e] \subseteq marks[e]
  BY <1>2 DEF DeleteMark
<1>3. ASSUME NEW d \in Dir, NEW g \in File, DeleteFile(d, g)
      PROVE  /\ UNCHANGED <<snd, todo, recorded, net, held, reply, serving, marks, deleting>>
             /\ \A e \in Dir : e \notin deleting => src'[e] = src[e]
  BY <1>3 DEF DeleteFile
<1> QED BY <1>1, <1>2, <1>3 DEF Deletion

(* Only a directory that is not being sent gets .uploaded.                 *)
LEMMA SentStep ==
    ASSUME UploadTypes, SentUnmarked, WorkerNext
    PROVE  SentUnmarked'
<1> USE DEF SentUnmarked
<1>1. CASE Scan
  <2>1. \A d \in todo' : d \in Dir /\ "uploaded" \notin marks[d] /\ marks'[d] \subseteq marks[d]
    BY <1>1 DEF Scan, Candidate, Unuploaded
  <2> QED BY <1>1, <2>1, ThreadIdle DEF Scan, Sending
<1>2. CASE EndScan
  BY <1>2, ThreadIdle DEF EndScan, Sending
<1>3. CASE \E d \in Dir : StartUpload(d)
  <2>1. PICK d \in Dir : StartUpload(d)
    BY <1>3
  <2>2. d \in todo /\ todo' \subseteq todo
    BY <2>1 DEF StartUpload
  <2>3. snd'.dir = d
    BY <2>1 DEF StartUpload, Thread
  <2>4. \A e \in Dir : marks'[e] \subseteq marks[e] \cup {"uploading"}
    BY <2>1 DEF StartUpload, UploadTypes, DiskTypes
  <2>5. todo \subseteq Dir
    BY DEF UploadTypes, DiskTypes
  <2> QED BY <2>2, <2>3, <2>4, <2>5
<1>4. CASE Call \/ GetReply \/ Timeout \/ ReadFails
  <2>1. snd.pc \in Stages /\ snd'.dir = snd.dir /\ UNCHANGED <<todo, marks>>
    BY <1>4, SenderMoves
  <2> QED BY <2>1
<1>5. CASE WriteUploaded
  <2>1. snd.dir \notin todo /\ todo' = todo
    BY <1>5 DEF WriteUploaded, UploadTypes, KnownDirs, Sending
  <2>2. snd'.pc = "release"
    BY <1>5 DEF WriteUploaded, UploadTypes, SenderTypes
  <2>3. \A e \in Dir : e # snd.dir => marks'[e] = marks[e]
    BY <1>5 DEF WriteUploaded, UploadTypes, DiskTypes
  <2>4. todo \subseteq Dir
    BY DEF UploadTypes, DiskTypes
  <2> QED BY <2>1, <2>2, <2>3, <2>4 DEF Stages
<1>6. CASE Release
  <2>1. todo' = todo /\ todo \subseteq Dir /\ snd' = Thread("pick")
    BY <1>6 DEF Release, UploadTypes, DiskTypes
  <2>2. \A e \in Dir : marks'[e] \subseteq marks[e] \cup {"upload_failed"}
    BY <1>6 DEF Release, UploadTypes, DiskTypes
  <2> QED BY <2>1, <2>2, ThreadIdle DEF Sending
<1>7. CASE (\E x \in Dir \X Timers : Elapse(x)) \/ (\E d \in Dir : Spot(d))
  BY <1>7 DEF Elapse, Spot
<1>8. CASE Deletion \/ \E d \in Dir : Record(d)
  <2>1. UNCHANGED <<snd, todo>> /\ todo \subseteq Dir
        /\ (snd.pc \in Stages \cup {"mark"} => snd.dir \in Dir)
    BY <1>8, DeletionSteps DEF Record, UploadTypes, DiskTypes, KnownDirs, Sending
  <2>2. \A e \in Dir : marks'[e] \subseteq marks[e] \cup {"complete"}
    BY <1>8, DeletionSteps DEF Record, UploadTypes, DiskTypes
  <2> QED BY <2>1, <2>2
<1>9. CASE StopWorker \/ CrashWorker
  <2>1. todo' = {} /\ snd' = Thread("down")
    BY <1>9 DEF StopWorker, CrashWorker, EndOfWorker
  <2> QED BY <2>1, ThreadIdle DEF Sending
<1>10. CASE StartWorker
  BY <1>10, ThreadIdle DEF StartWorker, Sending
<1> QED BY <1>1, <1>2, <1>3, <1>4, <1>5, <1>6, <1>7, <1>8, <1>9, <1>10
        DEF WorkerNext, Upload, Deletion

(* Publishing, step by step, and a crash between any two of them.          *)
LEMMA InboxStep ==
    ASSUME RestoreMayFail = FALSE, UploadTypes, InboxWhole, BackupInUse,
           ServeRequest \/ ReceiverCrash \/ ReceiverStart
    PROVE  InboxWhole' /\ BackupInUse'
<1> USE FilesAssumption DEF rpcVars
<1>0. /\ transfers \in [Dir -> TransferTypes]
      /\ publish \in [step : {"none", "clean", "aside", "place", "tidy"}, dir : Dir \cup {"none"}]
      /\ publish.step # "none" => publish.dir \in Dir
      /\ final \in [Dir -> SUBSET File] /\ backup \in [Dir -> SUBSET File]
  BY DEF UploadTypes, InboxTypes, TransferTypes
<1>1. CASE Dispatch
  <2> DEFINE r == Head(net)
             tr == Pruned
  <2>1. UNCHANGED <<final, backup, serving>> /\ publish.step = "none" /\ serving
    BY <1>1 DEF Dispatch, DoBegin, DoChunk, DoEnd, Respond
  <2>2. \/ publish' = publish
        \/ /\ publish' = [step |-> "clean", dir |-> r.dir]
           /\ transfers' = tr /\ Validates(tr[r.dir])
    BY <1>1 DEF Dispatch, DoBegin, DoChunk, DoEnd
  <2>3. publish'.step # "none" => DOMAIN transfers'[publish'.dir].got = File
    <3>1. Validates(tr[r.dir]) => DOMAIN tr[r.dir].got = File
      BY FilesAssumption DEF Validates
    <3> QED BY <2>1, <2>2, <3>1
  <2>4. publish'.step \in {"none", "clean"}
    BY <2>1, <2>2
  <2> QED BY <2>1, <2>3, <2>4 DEF InboxWhole, BackupInUse
<1>2. CASE DropOldBackup
  <2>1. /\ UNCHANGED <<transfers, final, backup, serving>> /\ serving
        /\ publish.step = "clean" /\ publish'.step = "aside" /\ publish'.dir = publish.dir
    BY <1>0, <1>2 DEF DropOldBackup, At, GoTo
  <2> QED BY <1>0, <2>1 DEF InboxWhole, BackupInUse
<1>9. CASE \E g \in File : RemoveBackupEntry(g)
  <2>1. PICK g \in File : RemoveBackupEntry(g)
    BY <1>9
  <2>2. /\ UNCHANGED <<transfers, publish, final, serving>> /\ serving
        /\ publish.step \in {"clean", "tidy"} /\ g \in backup[publish.dir]
        /\ backup' = [backup EXCEPT ![publish.dir] = @ \ {g}]
    BY <2>1 DEF RemoveBackupEntry, At
  <2>3. final[publish.dir] = File
    BY <1>0, <2>2 DEF InboxWhole, BackupInUse
  <2>4. \A d \in Dir : d # publish.dir => backup'[d] = backup[d]
    BY <1>0, <2>2
  <2> QED BY <1>0, <2>2, <2>3, <2>4 DEF InboxWhole, BackupInUse
<1>10. CASE AsideFails
  <2>1. /\ UNCHANGED <<transfers, final, backup, serving>> /\ publish.step = "aside"
        /\ publish'.step = "none"
    BY <1>10 DEF AsideFails, RequestFails, At, Resting
  <2> QED BY <2>1 DEF InboxWhole, BackupInUse
<1>3. CASE MoveAside
  <2>1. /\ UNCHANGED <<transfers, serving>> /\ serving
        /\ publish.step = "aside" /\ publish'.step = "place" /\ publish'.dir = publish.dir
        /\ backup' = [backup EXCEPT ![publish.dir] =
                      IF final[publish.dir] # {} THEN final[publish.dir] ELSE @]
        /\ final' = [final EXCEPT ![publish.dir] = {}]
        /\ publish.dir \in Dir
    BY <1>0, <1>3 DEF MoveAside, At, GoTo
  <2>2. /\ final'[publish.dir] = {} /\ backup'[publish.dir] \in {{}, File}
        /\ \A d \in Dir : d # publish.dir => final'[d] = final[d] /\ backup'[d] = backup[d]
    BY <1>0, <2>1 DEF InboxWhole
  <2>3. InboxWhole'
    BY <2>1, <2>2 DEF InboxWhole
  <2>4. BackupInUse'
    BY <2>1, <2>2 DEF BackupInUse
  <2> QED BY <2>3, <2>4
<1>4. CASE PlaceStaging
  <2>1. /\ UNCHANGED <<transfers, backup, serving>> /\ serving
        /\ publish.step = "place" /\ publish'.step = "tidy" /\ publish'.dir = publish.dir
        /\ final' = [final EXCEPT ![publish.dir] = DOMAIN transfers[publish.dir].got]
    BY <1>0, <1>4 DEF PlaceStaging, At, GoTo
  <2> QED BY <1>0, <2>1 DEF InboxWhole, BackupInUse
<1>5. CASE PlaceFails
  <2>1. /\ UNCHANGED <<transfers, serving>> /\ serving
        /\ publish.step = "place" /\ publish'.step = "none" /\ publish.dir \in Dir
        /\ final' = [final EXCEPT ![publish.dir] = backup[publish.dir]]
        /\ backup' = [backup EXCEPT ![publish.dir] = {}]
    BY <1>0, <1>5 DEF PlaceFails, RequestFails, At, Resting
  <2>2. /\ final'[publish.dir] \in {{}, File} /\ backup'[publish.dir] = {}
        /\ \A d \in Dir : d # publish.dir => final'[d] = final[d] /\ backup'[d] = backup[d]
    BY <1>0, <2>1 DEF InboxWhole
  <2>3. InboxWhole'
    BY <2>1, <2>2 DEF InboxWhole
  <2>4. BackupInUse'
    BY <2>1, <2>2 DEF BackupInUse
  <2> QED BY <2>3, <2>4
<1>6. CASE Conclude
  <2>1. /\ UNCHANGED <<final, backup, serving>> /\ serving
        /\ publish.step = "tidy" /\ publish'.step = "none"
    BY <1>6 DEF Conclude, At, Resting
  <2>2. final[publish.dir] # {}
    BY <2>1 DEF InboxWhole
  <2> QED BY <1>0, <2>1, <2>2 DEF InboxWhole, BackupInUse
<1>7. CASE ReceiverCrash
  <2>1. UNCHANGED <<final, backup>> /\ ~serving' /\ publish'.step = "none"
    BY <1>7 DEF ReceiverCrash, Resting
  <2> QED BY <2>1 DEF InboxWhole, BackupInUse
<1>8. CASE ReceiverStart
  <2>1. /\ UNCHANGED <<transfers, publish>>
        /\ final' = [d \in Dir |-> IF final[d] = {} THEN backup[d] ELSE final[d]]
        /\ \A d \in Dir : final[d] = {} => backup'[d] = {}
    BY <1>8 DEF ReceiverStart
  <2>2. publish.step = "none"
    BY <1>8 DEF ReceiverStart, InboxWhole
  <2>3. \A d \in Dir : /\ final'[d] \in {{}, File}
                      /\ final'[d] = {} => backup'[d] = {}
    BY <2>1 DEF InboxWhole
  <2> QED BY <2>1, <2>2, <2>3 DEF InboxWhole, BackupInUse
<1> QED BY <1>1, <1>2, <1>3, <1>4, <1>5, <1>6, <1>7, <1>8, <1>9, <1>10 DEF ServeRequest

(* The wire and the thread leave the receiver alone.                       *)
LEMMA WorkerKeepsServing == ASSUME WorkerNext PROVE serving' = serving
<1>1. Upload => serving' = serving
  BY DEF Upload, Scan, EndScan, StartUpload, Call, GetReply, Timeout, ReadFails, WriteUploaded,
         Release, Send, Forsake, rpcVars
<1>2. ~Upload => serving' = serving
  BY DEF WorkerNext, Elapse, Record, Spot, StartDelete, DeleteMark, DeleteFile, EndDelete,
         StopWorker, CrashWorker, EndOfWorker, StartWorker, Forsake, rpcVars
<1> QED BY <1>1, <1>2

(* The inbox is whole in every reachable state, whoever crashes when, and  *)
(* however much of a backup is left by a removal that was cut short or     *)
(* ignored its errors, provided putting an old copy back does not fail.    *)
THEOREM InboxSafe == RestoreMayFail = FALSE => (Spec => []InboxInv)
<1> SUFFICES ASSUME RestoreMayFail = FALSE PROVE Spec => []InboxInv
  OBVIOUS
<1>1. Init => InboxInv
  BY FilesAssumption DEF Init, RpcInit, WorkerInit, ReceiverInit, InboxInv, InboxWhole,
     BackupInUse, SentUnmarked, Resting, Thread, Stages
<1>2. UploadTypes /\ InboxInv /\ [Next]_vars => InboxInv'
  <2> SUFFICES ASSUME UploadTypes, InboxInv, [Next]_vars PROVE InboxInv'
    OBVIOUS
  <2>1. CASE WorkerNext /\ UNCHANGED recvVars
    <3>1. serving' = serving
      BY <2>1, WorkerKeepsServing
    <3> QED BY <2>1, <3>1, SentStep DEF InboxInv, InboxWhole, BackupInUse, recvVars
  <2>2. CASE (ServeRequest \/ ReceiverCrash \/ ReceiverStart) /\ UNCHANGED workerVars
    BY <2>2, InboxStep DEF InboxInv, SentUnmarked, workerVars
  <2>3. CASE GrowIdle \/ ((LoseRequest \/ LoseAnswer) /\ UNCHANGED <<workerVars, recvVars>>)
              \/ UNCHANGED vars
    <3>1. UNCHANGED <<transfers, publish, final, backup, serving, snd, todo, marks>>
      BY <2>3 DEF GrowIdle, TransferIdle, LoseRequest, LoseAnswer, vars, workerVars, recvVars,
                  rpcVars
    <3> QED BY <3>1 DEF InboxInv, InboxWhole, BackupInUse, SentUnmarked
  <2> QED BY <2>1, <2>2, <2>3 DEF Next, Receive
<1> QED BY <1>1, <1>2, UploadTyped, PTL DEF Spec

(* inbox/<event> is absent or the whole event at every moment, although    *)
(* half-deleted directories are uploaded, publishing takes four steps and  *)
(* backups are removed entry by entry, provided putting an old copy back   *)
(* does not fail.                                                          *)
THEOREM PublishedWhole == RestoreMayFail = FALSE => (Spec => []PublishedIsWhole)
<1>1. InboxInv => PublishedIsWhole
  BY DEF InboxInv, InboxWhole, PublishedIsWhole
<1> QED BY <1>1, InboxSafe, PTL

(***************************************************************************)
(* Proof of the third layer                                                *)
(***************************************************************************)

(* Where the requests are after the oldest one was taken.                  *)
LEMMA NetTail ==
    ASSUME UploadTypes, net # <<>>
    PROVE  /\ 1 \in DOMAIN net /\ Head(net) = net[1] /\ net[1] \in Requests
           /\ \A i \in DOMAIN Tail(net) :
                  i + 1 \in DOMAIN net /\ Tail(net)[i] = net[i + 1] /\ i \in Nat /\ i + 1 # 1
  BY DEF UploadTypes, WireTypes

(* Nothing on the wire concerns a thread that is not in a call.            *)
LEMMA Quiet ==
    ASSUME CallInv, ~snd.waiting
    PROVE  ~held /\ ~reply.there /\ \A i \in DOMAIN net : ~net[i].live
  BY DEF CallInv, LiveRequest, HeldEnd, ReplyAwaited

(* What the sending process does to the wire.                              *)
LEMMA WorkerWire ==
    ASSUME UploadTypes, WorkerNext
    PROVE  \/ Forsake
           \/ Call /\ serving
           \/ GetReply
           \/ UNCHANGED <<net, held, reply, snd>>
           \/ UNCHANGED <<net, held, reply>> /\ ~snd.waiting
<1> USE DEF rpcVars
<1>1. Upload => \/ Forsake
                \/ Call /\ serving
                \/ GetReply
                \/ UNCHANGED <<net, held, reply>> /\ ~snd.waiting
  <2>1. snd.waiting => snd.pc \in Stages
    BY DEF UploadTypes, SenderTypes
  <2>2. Scan \/ EndScan \/ (\E d \in Dir : StartUpload(d)) \/ WriteUploaded \/ Release
          => UNCHANGED <<net, held, reply>> /\ ~snd.waiting
    BY <2>1 DEF Scan, EndScan, StartUpload, WriteUploaded, Release, Stages
  <2>3. Call /\ ~serving => UNCHANGED <<net, held, reply>> /\ ~snd.waiting
    BY DEF Call
  <2>4. ReadFails => UNCHANGED <<net, held, reply>> /\ ~snd.waiting
    BY DEF ReadFails
  <2>5. Timeout => Forsake
    BY DEF Timeout
  <2> QED BY <2>2, <2>3, <2>4, <2>5 DEF Upload
<1>2. WorkerNext /\ ~Upload => \/ Forsake
                               \/ UNCHANGED <<net, held, reply, snd>>
                               \/ UNCHANGED <<net, held, reply>> /\ ~snd.waiting
  <2>1. Deletion => UNCHANGED <<net, held, reply, snd>>
    BY DeletionSteps
  <2> QED BY <2>1 DEF WorkerNext, Deletion, Elapse, Record, Spot, StopWorker, CrashWorker,
                      EndOfWorker, StartWorker, UploadTypes, SenderTypes, Stages
<1> QED BY <1>1, <1>2

(* The sending process.                                                    *)
LEMMA WorkerCalls ==
    ASSUME UploadTypes, CallInv, WorkerNext, UNCHANGED recvVars
    PROVE  CallInv'
<1> USE DEF rpcVars
<1>1. CASE Forsake
  <2>1. \A i \in DOMAIN net : net[i] \in Requests
    BY DEF UploadTypes, WireTypes
  <2>2. \A i \in DOMAIN net' : ~net'[i].live
    BY <1>1, <2>1 DEF Forsake, Requests
  <2>3. ~held' /\ ~reply'.there
    BY <1>1 DEF Forsake, NoReply
  <2> QED BY <2>2, <2>3 DEF CallInv, LiveRequest, HeldEnd, ReplyAwaited
<1>2. CASE Call /\ serving
  <2>1. ~snd.waiting /\ Send(Request) /\ snd.pc \in Stages
        /\ snd' = [snd EXCEPT !.waiting = TRUE]
    BY <1>2 DEF Call
  <2>2. ~held /\ \A i \in DOMAIN net : ~net[i].live
    BY <2>1, Quiet
  <2>3. snd'.waiting /\ snd'.pc = snd.pc /\ snd'.dir = snd.dir
    BY <2>1 DEF UploadTypes, SenderTypes
  <2>4. PICK q \in Requests : q = Request
    BY <2>1, RequestTyped
  <2>5. q.dir = snd.dir /\ q.op = OpOf(snd.pc)
    BY <2>1, <2>4, RequestTyped
  <2>6. net' = Append(net, q) /\ net \in Seq(Requests)
    BY <2>1, <2>4 DEF Send, UploadTypes, WireTypes
  <2>7. \A i \in DOMAIN net' : \/ i \in DOMAIN net /\ net'[i] = net[i]
                               \/ i = Len(net) + 1 /\ net'[i] = q
    <3>1. Len(net) \in Nat /\ DOMAIN net = 1 .. Len(net) /\ DOMAIN net' = 1 .. Len(net) + 1
      BY <2>6
    <3>2. net'[Len(net) + 1] = q /\ \A i \in 1 .. Len(net) : net'[i] = net[i]
      BY <2>6
    <3> QED BY <3>1, <3>2
  <2>8. ~held' /\ ~reply'.there
    BY <2>1, <2>2 DEF Send, NoReply
  <2>9. OpOf(snd.pc) = OpOf(snd.pc)'
    BY <2>3 DEF OpOf
  <2>10. LiveRequest'
    BY <2>2, <2>3, <2>5, <2>7, <2>8, <2>9 DEF LiveRequest
  <2> QED BY <2>8, <2>10 DEF CallInv, HeldEnd, ReplyAwaited
<1>3. CASE GetReply
  <2>1. ~held /\ \A i \in DOMAIN net : ~net[i].live
    BY <1>3 DEF GetReply, CallInv, LiveRequest, HeldEnd
  <2>2. UNCHANGED <<net, held>> /\ ~reply'.there
    BY <1>3 DEF GetReply, NoReply
  <2> QED BY <2>1, <2>2 DEF CallInv, LiveRequest, HeldEnd, ReplyAwaited
<1>4. CASE UNCHANGED <<net, held, reply>> /\ ~snd.waiting
  <2>1. ~held' /\ ~reply'.there /\ \A i \in DOMAIN net' : ~net'[i].live
    BY <1>4, Quiet
  <2> QED BY <2>1 DEF CallInv, LiveRequest, HeldEnd, ReplyAwaited
<1>5. CASE UNCHANGED <<net, held, reply, snd>>
  BY <1>5 DEF CallInv, LiveRequest, HeldEnd, ReplyAwaited, recvVars, OpOf
<1> QED BY <1>1, <1>2, <1>3, <1>4, <1>5, WorkerWire

(* The request that Dispatch takes, when somebody waits for it.            *)
LEMMA TakenAlone ==
    ASSUME UploadTypes, CallInv, net # <<>>, net' = Tail(net)
    PROVE  /\ \A i \in DOMAIN net' : net'[i].live =>
                  /\ snd.waiting /\ ~reply.there /\ ~held /\ ~Head(net).live
                  /\ net'[i].dir = snd.dir /\ net'[i].op = OpOf(snd.pc)
           /\ \A i, j \in DOMAIN net' : net'[i].live /\ net'[j].live => i = j
           /\ Head(net).live => /\ snd.waiting /\ ~reply.there /\ ~held
                                /\ Head(net).dir = snd.dir /\ Head(net).op = OpOf(snd.pc)
<1>1. /\ 1 \in DOMAIN net /\ Head(net) = net[1]
      /\ \A i \in DOMAIN net' :
             i + 1 \in DOMAIN net /\ net'[i] = net[i + 1] /\ i \in Nat /\ i + 1 # 1
  BY NetTail
<1>2. \A i \in DOMAIN net' : net'[i].live =>
          /\ snd.waiting /\ ~reply.there /\ ~held /\ ~Head(net).live
          /\ net'[i].dir = snd.dir /\ net'[i].op = OpOf(snd.pc)
  BY <1>1 DEF CallInv, LiveRequest
<1>3. ASSUME NEW i \in DOMAIN net', NEW j \in DOMAIN net', net'[i].live, net'[j].live
      PROVE  i = j
  <2>1. i + 1 = j + 1
    BY <1>1, <1>3 DEF CallInv, LiveRequest
  <2> QED BY <1>1, <2>1
<1>4. Head(net).live => /\ snd.waiting /\ ~reply.there /\ ~held
                        /\ Head(net).dir = snd.dir /\ Head(net).op = OpOf(snd.pc)
  BY <1>1 DEF CallInv, LiveRequest
<1> QED BY <1>2, <1>3, <1>4

(* The receiver: it answers the live request, holds a live END, or takes   *)
(* one that nobody waits for.                                              *)
LEMMA ReceiverCalls ==
    ASSUME UploadTypes, CallInv, UNCHANGED workerVars,
           ServeRequest \/ ReceiverCrash \/ ReceiverStart
    PROVE  CallInv'
<1> USE DEF rpcVars
<1>0. UNCHANGED snd /\ OpOf(snd.pc)' = OpOf(snd.pc)
  BY DEF workerVars, OpOf
<1>1. CASE Dispatch
  <2>1. publish.step = "none" /\ net # <<>> /\ net' = Tail(net)
    BY <1>1 DEF Dispatch
  <2>2. ~held
    BY <2>1 DEF CallInv, HeldEnd
  <2>3. /\ \A i \in DOMAIN net' : net'[i].live =>
               /\ snd.waiting /\ ~reply.there /\ ~held /\ ~Head(net).live
               /\ net'[i].dir = snd.dir /\ net'[i].op = OpOf(snd.pc)
        /\ \A i, j \in DOMAIN net' : net'[i].live /\ net'[j].live => i = j
        /\ Head(net).live => /\ snd.waiting /\ ~reply.there /\ ~held
                             /\ Head(net).dir = snd.dir /\ Head(net).op = OpOf(snd.pc)
    BY <2>1, TakenAlone
  <2>4. CASE /\ held' = Head(net).live /\ reply' = reply
             /\ publish' = [step |-> "clean", dir |-> Head(net).dir] /\ Head(net).op = "END"
    <3>1. held' => /\ snd.waiting /\ ~reply.there /\ snd.pc = "end"
                   /\ publish'.step # "none" /\ publish'.dir = snd.dir
      BY <2>3, <2>4 DEF OpOf, UploadTypes, SenderTypes, Stages
    <3>2. LiveRequest'
      BY <1>0, <2>3, <2>4 DEF LiveRequest
    <3> QED BY <1>0, <2>4, <3>1, <3>2 DEF CallInv, HeldEnd, ReplyAwaited
  <2>5. CASE held' = held /\ (~Head(net).live => reply' = reply)
    <3>1. LiveRequest'
      BY <1>0, <2>2, <2>3, <2>5 DEF LiveRequest
    <3>2. ReplyAwaited'
      BY <1>0, <2>3, <2>5 DEF CallInv, ReplyAwaited
    <3> QED BY <2>2, <2>5, <3>1, <3>2 DEF CallInv, HeldEnd
  <2>6. \/ /\ held' = Head(net).live /\ reply' = reply
           /\ publish' = [step |-> "clean", dir |-> Head(net).dir] /\ Head(net).op = "END"
        \/ held' = held /\ (~Head(net).live => reply' = reply)
    BY <1>1 DEF Dispatch, DoBegin, DoChunk, DoEnd, Respond
  <2> QED BY <2>4, <2>5, <2>6
<1>2. CASE DropOldBackup \/ MoveAside \/ PlaceStaging \/ \E g \in File : RemoveBackupEntry(g)
  <2>1. UNCHANGED <<net, held, reply>> /\ publish.step # "none"
        /\ publish'.step # "none" /\ publish'.dir = publish.dir
    BY <1>2 DEF DropOldBackup, MoveAside, PlaceStaging, RemoveBackupEntry, At, GoTo, UploadTypes,
                InboxTypes
  <2> QED BY <1>0, <2>1 DEF CallInv, LiveRequest, HeldEnd, ReplyAwaited
<1>3. CASE AsideFails \/ PlaceFails \/ Conclude
  <2>1. net' = net /\ ~held' /\ (~held => reply' = reply)
    BY <1>3 DEF AsideFails, PlaceFails, RequestFails, Conclude
  <2>2. LiveRequest'
    BY <1>0, <2>1 DEF CallInv, LiveRequest
  <2>3. ReplyAwaited'
    BY <1>0, <2>1 DEF CallInv, HeldEnd, ReplyAwaited
  <2> QED BY <2>1, <2>2, <2>3 DEF CallInv, HeldEnd
<1>4. CASE ReceiverCrash
  <2>1. net' = <<>> /\ ~held' /\ reply' = reply
    BY <1>4 DEF ReceiverCrash
  <2> QED BY <1>0, <2>1 DEF CallInv, LiveRequest, HeldEnd, ReplyAwaited
<1>5. CASE ReceiverStart
  BY <1>0, <1>5 DEF ReceiverStart, CallInv, LiveRequest, HeldEnd, ReplyAwaited
<1> QED BY <1>1, <1>2, <1>3, <1>4, <1>5 DEF ServeRequest

(* An answer always belongs to the request the sender waits for, whatever  *)
(* was lost, answered late or forsaken before.                             *)
THEOREM CallsPaired == Spec => []CallInv
<1>1. Init => CallInv
  BY DEF Init, RpcInit, WorkerInit, NoReply, CallInv, LiveRequest, HeldEnd, ReplyAwaited
<1>2. UploadTypes /\ CallInv /\ [Next]_vars => CallInv'
  <2> SUFFICES ASSUME UploadTypes, CallInv, [Next]_vars PROVE CallInv'
    OBVIOUS
  <2>1. CASE WorkerNext /\ UNCHANGED recvVars
    BY <2>1, WorkerCalls
  <2>2. CASE (ServeRequest \/ ReceiverCrash \/ ReceiverStart) /\ UNCHANGED workerVars
    BY <2>2, ReceiverCalls
  <2>3. CASE GrowIdle \/ UNCHANGED vars
    <3>1. UNCHANGED <<net, held, reply, snd, publish>>
      BY <2>3 DEF GrowIdle, TransferIdle, vars, workerVars, recvVars, rpcVars
    <3> QED BY <3>1 DEF CallInv, LiveRequest, HeldEnd, ReplyAwaited, OpOf
  <2>4. CASE (LoseRequest \/ LoseAnswer) /\ UNCHANGED <<workerVars, recvVars>>
    <3>1. UNCHANGED <<snd, publish, held>> /\ OpOf(snd.pc)' = OpOf(snd.pc)
      BY <2>4 DEF LoseRequest, LoseAnswer, workerVars, recvVars, OpOf
    <3>2. CASE LoseRequest
      <4>1. net # <<>> /\ net' = Tail(net) /\ reply' = reply
        BY <3>2 DEF LoseRequest
      <4>2. LiveRequest'
        BY <3>1, <4>1, TakenAlone DEF LiveRequest
      <4> QED BY <3>1, <4>1, <4>2 DEF CallInv, HeldEnd, ReplyAwaited
    <3>3. CASE LoseAnswer
      <4>1. net' = net /\ ~reply'.there
        BY <3>3 DEF LoseAnswer, NoReply
      <4> QED BY <3>1, <4>1 DEF CallInv, LiveRequest, HeldEnd, ReplyAwaited
    <3> QED BY <2>4, <3>2, <3>3
  <2> QED BY <2>1, <2>2, <2>3, <2>4 DEF Next, Receive
<1> QED BY <1>1, <1>2, UploadTyped, PTL DEF Spec

(***************************************************************************)
(* The copies                                                              *)
(***************************************************************************)

(* No step gives up the last copy, provided an old copy can be put back.   *)
LEMMA KeptStep ==
    ASSUME RestoreMayFail = FALSE, UploadTypes, InboxInv, [Next]_vars,
           NEW d \in Dir, Kept(d)
    PROVE  Kept(d)'
<1> USE DEF rpcVars
<1>0. /\ publish \in [step : {"none", "clean", "aside", "place", "tidy"}, dir : Dir \cup {"none"}]
      /\ publish.step # "none" => publish.dir \in Dir
      /\ final \in [Dir -> SUBSET File] /\ backup \in [Dir -> SUBSET File]
      /\ File # {} /\ final[d] \in {{}, File}
      /\ final[d] = File \/ (final[d] = {} /\ backup[d] = File)
  BY FilesAssumption DEF UploadTypes, InboxTypes, InboxInv, InboxWhole, Kept
<1>1. serving /\ ~(publish.dir = d /\ publish.step = "place") => final[d] = File
  BY <1>0 DEF InboxInv, BackupInUse
<1>2. CASE UNCHANGED <<final, backup>>
  BY <1>2 DEF Kept
<1>3. CASE \E g \in File : RemoveBackupEntry(g)
  <2>1. UNCHANGED final /\ serving /\ publish.step # "place"
    BY <1>3 DEF RemoveBackupEntry, At
  <2> QED BY <1>1, <2>1 DEF Kept
<1>4. CASE MoveAside
  <2>1. final[d] = File /\ d \in Dir
    BY <1>1, <1>4 DEF MoveAside, At
  <2>2. CASE publish.dir = d
    <3>1. backup'[d] = File
      BY <1>0, <1>4, <2>1, <2>2 DEF MoveAside
    <3> QED BY <3>1 DEF Kept
  <2>3. CASE publish.dir # d
    <3>1. final'[d] = File
      BY <1>0, <1>4, <2>1, <2>3 DEF MoveAside
    <3> QED BY <3>1 DEF Kept
  <2> QED BY <2>2, <2>3
<1>5. CASE PlaceStaging
  <2>1. DOMAIN transfers[publish.dir].got = File
    BY <1>5 DEF PlaceStaging, At, InboxInv, InboxWhole
  <2>2. backup' = backup /\ (final'[d] = final[d] \/ final'[d] = File)
    BY <1>0, <1>5, <2>1 DEF PlaceStaging
  <2> QED BY <2>2 DEF Kept
<1>6. CASE PlaceFails
  <2>1. /\ serving /\ publish.step = "place" /\ publish.dir \in Dir
        /\ final' = [final EXCEPT ![publish.dir] = backup[publish.dir]]
    BY <1>0, <1>6 DEF PlaceFails, At
  <2>2. CASE publish.dir = d
    <3>1. final[d] = {}
      BY <2>1, <2>2 DEF InboxInv, InboxWhole
    <3>2. final'[d] = File
      BY <1>0, <2>1, <2>2, <3>1
    <3> QED BY <3>2 DEF Kept
  <2>3. CASE publish.dir # d
    <3>1. final'[d] = File
      BY <1>0, <1>1, <2>1, <2>3
    <3> QED BY <3>1 DEF Kept
  <2> QED BY <2>2, <2>3
<1>8. CASE ReceiverStart
  <2>1. final'[d] = File
    BY <1>0, <1>8 DEF ReceiverStart
  <2> QED BY <2>1 DEF Kept
<1>9. \/ UNCHANGED <<final, backup>>
      \/ (\E g \in File : RemoveBackupEntry(g)) \/ MoveAside \/ PlaceStaging \/ PlaceFails
      \/ ReceiverStart
  BY DEF Next, Receive, ServeRequest, Dispatch, DropOldBackup, AsideFails, Conclude, GrowIdle,
         TransferIdle, ReceiverCrash, vars, recvVars
<1> QED BY <1>2, <1>3, <1>4, <1>5, <1>6, <1>8, <1>9

(* Publishing never gives up the copy the inbox has before the new one is  *)
(* in its place, with a failure or a crash in or after any of its steps;   *)
(* putting the old copy back must not fail (where it may, RetryKeepsCopy   *)
(* is violated).                                                           *)
THEOREM LastCopyKept == RestoreMayFail = FALSE => (Spec => LastCopySurvives)
<1> SUFFICES ASSUME RestoreMayFail = FALSE PROVE Spec => LastCopySurvives
  OBVIOUS
<1>1. UploadTypes /\ InboxInv /\ [Next]_vars => [\A d \in Dir : Kept(d) => Kept(d)']_vars
  BY KeptStep
<1> QED BY <1>1, UploadTyped, InboxSafe, PTL DEF Spec, LastCopySurvives

(* What a success of END and .uploaded mean, and what retention relies on. *)
LEMMA CopyStep ==
    ASSUME RestoreMayFail = FALSE, UploadTypes, InboxInv, CallInv, CopyInv, [Next]_vars
    PROVE  CopyInv'
<1> USE DEF rpcVars
<1>0. \A d \in Dir : Kept(d) => Kept(d)'
  BY KeptStep
<1>1. \A d \in Dir : "uploaded" \in marks'[d] =>
          "uploaded" \in marks[d] \/ (snd.pc = "mark" /\ d = snd.dir)
  <2>1. CASE Upload
    <3>1. CASE Scan
      BY <3>1 DEF Scan, UploadTypes, DiskTypes
    <3>2. CASE \E d \in Dir : StartUpload(d)
      <4>1. PICK d \in Dir : StartUpload(d)
        BY <3>2
      <4>2. \A e \in Dir : marks'[e] \subseteq marks[e] \cup {"uploading"}
        BY <4>1 DEF StartUpload, UploadTypes, DiskTypes
      <4> QED BY <4>2
    <3>3. CASE WriteUploaded
      BY <3>3 DEF WriteUploaded, UploadTypes, DiskTypes
    <3>4. CASE Release
      BY <3>4 DEF Release, UploadTypes, DiskTypes
    <3>5. CASE UNCHANGED marks
      BY <3>5
    <3> QED BY <2>1, <3>1, <3>2, <3>3, <3>4, <3>5
            DEF Upload, EndScan, Call, GetReply, Timeout, ReadFails
  <2>2. CASE WorkerNext /\ ~Upload
    BY <2>2, DeletionSteps DEF WorkerNext, Deletion, Elapse, Record, Spot, StopWorker, CrashWorker,
                               EndOfWorker, StartWorker, UploadTypes, DiskTypes
  <2>3. CASE UNCHANGED workerVars
    BY <2>3 DEF workerVars
  <2> QED BY <2>1, <2>2, <2>3 DEF Next, Receive, GrowIdle, vars
<1>2. UploadedIsKept'
  BY <1>0, <1>1 DEF CopyInv, UploadedIsKept, SuccessIsKept
<1>5. \/ UNCHANGED <<recorded, src, deleting>>
      \/ Deletion
      \/ \E e \in Dir : Record(e)
      \/ StopWorker \/ CrashWorker
  <2> USE DEF retentionVars
  <2>1. Upload => UNCHANGED <<recorded, src, deleting>>
    BY DEF Upload, Scan, EndScan, StartUpload, Call, GetReply, Timeout, ReadFails,
           WriteUploaded, Release
  <2>2. UNCHANGED workerVars => UNCHANGED <<recorded, src, deleting>>
    BY DEF workerVars
  <2>3. WorkerNext /\ ~Upload => \/ UNCHANGED <<recorded, src, deleting>>
                                 \/ Deletion \/ (\E e \in Dir : Record(e))
                                 \/ StopWorker \/ CrashWorker
    BY DEF WorkerNext, Deletion, Elapse, Spot, StartWorker
  <2> QED BY <2>1, <2>2, <2>3 DEF Next, Receive, GrowIdle, vars
<1>6. DeletingIsKept'
  <2> SUFFICES ASSUME NEW d \in deleting' PROVE Kept(d)'
    BY DEF DeletingIsKept
  <2>1. d \in deleting \/ (d \in Dir /\ "uploaded" \in marks[d])
    <3>1. CASE Deletion
      <4>1. deleting \subseteq Dir /\ \A e \in deleting' : e \in deleting \/ "uploaded" \in marks[e]
        BY <3>1, DeletionSteps DEF UploadTypes, DiskTypes
      <4>2. d \in Dir
        BY <3>1, <4>1 DEF Deletion, StartDelete, EndDelete, DeleteMark, DeleteFile, retentionVars
      <4> QED BY <4>1, <4>2
    <3>2. CASE StopWorker \/ CrashWorker
      BY <3>2 DEF StopWorker, CrashWorker, EndOfWorker
    <3>3. CASE \E e \in Dir : Record(e)
      BY <3>3 DEF Record, retentionVars
    <3> QED BY <1>5, <3>1, <3>2, <3>3
  <2>2. d \in Dir /\ Kept(d)
    BY <2>1 DEF CopyInv, DeletingIsKept, UploadedIsKept, UploadTypes, DiskTypes
  <2> QED BY <1>0, <2>2
<1>3. DataNeverLost'
  <2> SUFFICES ASSUME NEW d \in recorded' PROVE src'[d] = File \/ Kept(d)'
    BY DEF DataNeverLost
  <2>1. CASE UNCHANGED <<recorded, src, deleting>> \/ StopWorker \/ CrashWorker
    <3>1. UNCHANGED <<recorded, src>>
      BY <2>1 DEF StopWorker, CrashWorker, EndOfWorker
    <3> QED BY <1>0, <3>1 DEF CopyInv, DataNeverLost, UploadTypes, DiskTypes
  <2>2. ASSUME NEW e \in Dir, Record(e) PROVE src'[d] = File \/ Kept(d)'
    <3>1. d \in recorded \cup {e} /\ d \in Dir
      BY <2>2 DEF Record, UploadTypes, DiskTypes
    <3>2. src'[d] = IF d = e THEN File ELSE src[d]
      BY <2>2, <3>1 DEF Record, UploadTypes, DiskTypes
    <3> QED BY <1>0, <3>1, <3>2 DEF CopyInv, DataNeverLost
  <2>3. CASE Deletion
    <3>1. d \in recorded /\ d \in Dir /\ (d \notin deleting => src'[d] = src[d])
      BY <2>3, DeletionSteps DEF UploadTypes, DiskTypes
    <3> QED BY <1>0, <3>1 DEF CopyInv, DataNeverLost, DeletingIsKept
  <2> QED BY <1>5, <2>1, <2>2, <2>3
<1>4. SuccessIsKept'
  <2>0. (reply.there => snd.dir \in Dir) /\ (snd.pc = "mark" => snd.dir \in Dir)
    BY DEF CallInv, ReplyAwaited, UploadTypes, SenderTypes, KnownDirs, Sending, DiskTypes
  <2>1. CASE UNCHANGED <<snd, reply>>
    BY <1>0, <2>0, <2>1 DEF CopyInv, SuccessIsKept
  <2>2. CASE WorkerNext
    <3>1. ~(reply'.there /\ reply'.ok /\ snd'.pc = "end") \/ UNCHANGED <<snd, reply>>
      <4>1. Forsake \/ (Call /\ serving) \/ GetReply => ~reply'.there
        BY DEF Forsake, Call, Send, GetReply, NoReply
      <4>2. UNCHANGED <<net, held, reply>> /\ ~snd.waiting => ~reply'.there
        BY Quiet
      <4> QED BY <2>2, <4>1, <4>2, WorkerWire
    <3>2. snd'.pc = "mark" => (snd'.dir \in Dir /\ Kept(snd.dir)') \/ UNCHANGED snd
      <4>1. CASE Call \/ GetReply \/ Timeout \/ ReadFails
        <5> SUFFICES ASSUME snd'.pc = "mark" PROVE snd'.dir \in Dir /\ Kept(snd.dir)'
          OBVIOUS
        <5>1. snd'.dir = snd.dir /\ GetReply /\ reply.ok /\ snd.pc = "end"
          BY <4>1, SenderMoves
        <5>2. PICK d \in Dir : d = snd.dir /\ Kept(d)
          BY <2>0, <5>1 DEF GetReply, CopyInv, SuccessIsKept
        <5>3. Kept(d)'
          BY <1>0, <5>2
        <5> QED BY <5>1, <5>2, <5>3 DEF Kept
      <4>2. CASE Scan \/ EndScan \/ (\E d \in Dir : StartUpload(d)) \/ WriteUploaded \/ Release
        <5>1. CASE Scan
          BY <5>1 DEF Scan, Thread
        <5>2. CASE EndScan
          BY <5>2 DEF EndScan, Thread
        <5>3. CASE \E d \in Dir : StartUpload(d)
          BY <5>3 DEF StartUpload, Thread
        <5>4. CASE WriteUploaded
          BY <5>4 DEF WriteUploaded, UploadTypes, SenderTypes
        <5>5. CASE Release
          BY <5>5 DEF Release, Thread
        <5> QED BY <4>2, <5>1, <5>2, <5>3, <5>4, <5>5
      <4>3. CASE WorkerNext /\ ~Upload
        BY <4>3, DeletionSteps DEF WorkerNext, Deletion, Elapse, Record, Spot, StopWorker,
                                   CrashWorker, EndOfWorker, StartWorker, Thread
      <4> QED BY <2>2, <4>1, <4>2, <4>3 DEF Upload
    <3> SUFFICES ASSUME ~UNCHANGED <<snd, reply>> PROVE SuccessIsKept'
      BY <2>1
    <3>3. CASE snd' = snd
      <4>1. PICK e : e = snd.dir
        OBVIOUS
      <4>2. snd.pc = "mark" => Kept(e)'
        BY <1>0, <2>0, <4>1 DEF CopyInv, SuccessIsKept
      <4> QED BY <3>1, <3>3, <4>1, <4>2 DEF SuccessIsKept, Kept
    <3>4. CASE snd' # snd
      BY <3>1, <3>2, <3>4 DEF SuccessIsKept
    <3> QED BY <3>3, <3>4
  <2>3. CASE ServeRequest /\ UNCHANGED workerVars
    <3>1. snd' = snd
      BY <2>3 DEF workerVars
    <3>2. CASE Dispatch
      <4>1. net # <<>> /\ net' = Tail(net)
        BY <3>2 DEF Dispatch
      <4>2. Head(net).live => Head(net).op = OpOf(snd.pc)
        BY <4>1, TakenAlone
      <4>3. \/ reply' = reply
            \/ Head(net).live /\ Head(net).op # "END"
            \/ reply' = Answer(FALSE, Received(Pruned[Head(net).dir].got))
            \/ reply' = Answer(FALSE, 0)
        BY <3>2 DEF Dispatch, DoBegin, DoChunk, DoEnd, Respond
      <4>4. reply' = reply \/ snd.pc # "end" \/ ~reply'.ok
        BY <4>2, <4>3 DEF OpOf, Answer
      <4> QED BY <1>0, <2>0, <3>1, <4>4 DEF CopyInv, SuccessIsKept
    <3>3. CASE DropOldBackup \/ MoveAside \/ PlaceStaging \/ \E g \in File : RemoveBackupEntry(g)
      BY <2>1, <3>1, <3>3 DEF DropOldBackup, MoveAside, PlaceStaging, RemoveBackupEntry
    <3>4. CASE AsideFails \/ PlaceFails
      <4>1. reply' = reply \/ ~reply'.ok
        BY <3>4 DEF AsideFails, PlaceFails, RequestFails, Answer
      <4> QED BY <1>0, <2>0, <3>1, <4>1 DEF CopyInv, SuccessIsKept
    <3>5. CASE Conclude
      <4>1. reply' = reply \/ (held /\ publish.step = "tidy" /\ final' = final)
        BY <3>5 DEF Conclude, At
      <4>2. held /\ publish.step = "tidy" => final[snd.dir] = File
        BY DEF CallInv, HeldEnd, InboxInv, InboxWhole
      <4>3. reply' = reply \/ Kept(snd.dir)'
        BY <3>1, <4>1, <4>2 DEF Kept
      <4> QED BY <1>0, <2>0, <3>1, <4>3 DEF CopyInv, SuccessIsKept
    <3> QED BY <2>3, <3>2, <3>3, <3>4, <3>5 DEF ServeRequest
  <2>4. CASE LoseAnswer /\ UNCHANGED <<workerVars, recvVars>>
    <3>1. ~reply'.there /\ snd' = snd
      BY <2>4 DEF LoseAnswer, NoReply, workerVars
    <3> QED BY <1>0, <2>0, <3>1 DEF CopyInv, SuccessIsKept
  <2> QED BY <2>1, <2>2, <2>3, <2>4
          DEF Next, Receive, GrowIdle, ReceiverCrash, ReceiverStart, LoseRequest, workerVars, vars
<1> QED BY <1>2, <1>3, <1>4, <1>6 DEF CopyInv

(* From the moment a recording is complete a whole copy of it exists at    *)
(* the sender or in the inbox, whatever is lost, late, repeated or half    *)
(* deleted, and whoever crashes.  The invariant also says what a success   *)
(* of END and .uploaded mean.                                              *)
THEOREM CopiesSafe == RestoreMayFail = FALSE => (Spec => []CopyInv)
<1> SUFFICES ASSUME RestoreMayFail = FALSE PROVE Spec => []CopyInv
  OBVIOUS
<1>1. Init => CopyInv
  BY DEF Init, RpcInit, WorkerInit, NoReply, Thread, CopyInv, SuccessIsKept, UploadedIsKept,
         DeletingIsKept, DataNeverLost
<1>2. UploadTypes /\ InboxInv /\ CallInv /\ CopyInv /\ [Next]_vars => CopyInv'
  BY CopyStep
<1> QED BY <1>1, <1>2, UploadTyped, InboxSafe, CallsPaired, PTL DEF Spec

(* No recording is lost end to end.                                        *)
THEOREM NoRecordingLost == RestoreMayFail = FALSE => (Spec => []DataNeverLost)
<1>1. CopyInv => DataNeverLost
  BY DEF CopyInv
<1> QED BY <1>1, CopiesSafe, PTL

(* .uploaded, which lets retention delete, means the receiver has it all.  *)
THEOREM UploadedMeansKept == RestoreMayFail = FALSE => (Spec => []UploadedIsKept)
<1>1. CopyInv => UploadedIsKept
  BY DEF CopyInv
<1> QED BY <1>1, CopiesSafe, PTL

(* Retention, which reads the markers one by one while they change, never  *)
(* begins to delete the directory being sent, and takes files from a       *)
(* directory that is sent again only when the receiver has it all.         *)
THEOREM RetentionSparesUpload == RestoreMayFail = FALSE => (Spec => FirstUploadUndisturbed)
<1> SUFFICES ASSUME RestoreMayFail = FALSE PROVE Spec => FirstUploadUndisturbed
  OBVIOUS
<1>1. ASSUME UploadTypes, InboxInv, CopyInv, Next, snd.pc \in Stages \cup {"mark"}
      PROVE  \/ src'[snd.dir] = src[snd.dir] /\ (snd.dir \in deleting' => snd.dir \in deleting)
             \/ snd.dir \in deleting /\ Kept(snd.dir)
  <2> USE DEF retentionVars
  <2>1. "uploaded" \notin marks[snd.dir] /\ snd.dir \in recorded /\ snd.dir \in Dir
    BY <1>1 DEF InboxInv, SentUnmarked, UploadTypes, KnownDirs, Sending, DiskTypes
  <2>2. CASE Deletion
    <3>1. snd.dir \in deleting' => snd.dir \in deleting
      BY <1>1, <2>1, <2>2, DeletionSteps
    <3>2. snd.dir \notin deleting => src'[snd.dir] = src[snd.dir]
      BY <1>1, <2>1, <2>2, DeletionSteps
    <3> QED BY <1>1, <3>1, <3>2 DEF CopyInv, DeletingIsKept
  <2>3. ASSUME NEW d \in Dir, Record(d)
        PROVE  src'[snd.dir] = src[snd.dir] /\ deleting' = deleting
    BY <1>1, <2>1, <2>3 DEF Record, UploadTypes, DiskTypes
  <2>4. CASE StopWorker \/ CrashWorker
    BY <2>4 DEF StopWorker, CrashWorker, EndOfWorker
  <2>5. \/ UNCHANGED <<src, deleting>>
        \/ Deletion
        \/ \E d \in Dir : Record(d)
        \/ StopWorker \/ CrashWorker
    <3>1. Upload => UNCHANGED <<src, deleting>>
      BY DEF Upload, Scan, EndScan, StartUpload, Call, GetReply, Timeout, ReadFails,
             WriteUploaded, Release
    <3>2. UNCHANGED workerVars => UNCHANGED <<src, deleting>>
      BY DEF workerVars
    <3>3. WorkerNext /\ ~Upload => \/ UNCHANGED <<src, deleting>>
                                   \/ Deletion \/ (\E d \in Dir : Record(d))
                                   \/ StopWorker \/ CrashWorker
      BY DEF WorkerNext, Deletion, Elapse, Spot, StartWorker
    <3> QED BY <1>1, <3>1, <3>2, <3>3 DEF Next, Receive, GrowIdle
  <2> QED BY <2>2, <2>3, <2>4, <2>5
<1>2. UploadTypes /\ InboxInv /\ CopyInv /\ [Next]_vars
        => [snd.pc \in Stages \cup {"mark"} =>
              \/ src'[snd.dir] = src[snd.dir] /\ (snd.dir \in deleting' => snd.dir \in deleting)
              \/ snd.dir \in deleting /\ Kept(snd.dir)]_vars
  BY <1>1
<1> QED BY <1>2, UploadTyped, InboxSafe, CopiesSafe, PTL DEF Spec, FirstUploadUndisturbed

(***************************************************************************)
(* The type invariant                                                      *)
(***************************************************************************)

(* The bytes an answer confirms are a number: those of one file, or the    *)
(* sum over the files that were received.                                  *)
LEMMA ReplyStep ==
    ASSUME UploadTypes, reply.bytes \in Nat, [Next]_vars
    PROVE  reply'.bytes \in Nat
<1>1. ASSUME NEW a, a.bytes \in Nat, NEW live, Respond(live, a) PROVE reply'.bytes \in Nat
  BY <1>1 DEF Respond
<1>2. ASSUME NEW ok, NEW n \in Nat PROVE Answer(ok, n).bytes \in Nat
  BY DEF Answer
<1>3. NoReply.bytes \in Nat
  BY DEF NoReply
<1>4. CASE Dispatch
  <2>1. PICK r \in Requests : r = Head(net) /\ net # <<>>
    BY <1>4 DEF Dispatch, UploadTypes, WireTypes
  <2>2. PICK tr \in [Dir -> TransferTypes] : tr = Pruned
    BY PrunedTyped DEF UploadTypes
  <2>3. r.dir \in Dir /\ r.off \in Nat /\ r.bytes \in Nat /\ tr[r.dir].got \in Gots
    BY DEF Requests, TransferTypes
  <2>4. Received(tr[r.dir].got) \in Nat
    BY <2>3, ReceivedTyped
  <2>5. CASE DoBegin(tr, r)
    BY <1>1, <1>2, <2>5 DEF DoBegin
  <2>6. CASE DoChunk(tr, r)
    <3>1. PICK got \in Gots : got = tr[r.dir].got
      BY <2>3
    <3>2. PICK have \in Nat : have = IF r.file \in DOMAIN got THEN got[r.file] ELSE 0
      BY DEF Gots
    <3>3. PICK end \in Nat : end = r.off + Length(r)
      BY <2>3 DEF Length
    <3>4. \E ok, live : Respond(live, Answer(ok, end)) \/ Respond(live, Answer(ok, have))
      BY <2>6, <3>1, <3>2, <3>3 DEF DoChunk
    <3> QED BY <1>1, <1>2, <3>4
  <2>7. CASE DoEnd(tr, r)
    BY <1>1, <1>2, <2>4, <2>7 DEF DoEnd
  <2>8. CASE Respond(r.live, Answer(FALSE, 0))
    BY <1>1, <1>2, <2>8
  <2> QED BY <1>4, <2>1, <2>2, <2>5, <2>6, <2>7, <2>8 DEF Dispatch
<1>5. CASE Conclude
  <2>1. publish.dir \in Dir /\ transfers[publish.dir].got \in Gots
    BY <1>5 DEF Conclude, At, UploadTypes, InboxTypes
  <2>2. Received(transfers[publish.dir].got) \in Nat
    BY <2>1, ReceivedTyped
  <2>3. PICK n \in Nat : n = Received(transfers[publish.dir].got)
    BY <2>2
  <2>4. reply' = reply \/ reply' = Answer(TRUE, n)
    BY <1>5, <2>3 DEF Conclude
  <2> QED BY <1>2, <2>4
<1>6. CASE AsideFails \/ PlaceFails
  BY <1>2, <1>6 DEF AsideFails, PlaceFails, RequestFails
<1>7. CASE reply' = NoReply \/ reply' = reply
  BY <1>3, <1>7
<1>8. \/ reply' = NoReply \/ reply' = reply
      \/ Dispatch \/ Conclude \/ AsideFails \/ PlaceFails
  <2>1. CASE WorkerNext /\ UNCHANGED recvVars
    <3>1. CASE Call
      BY <3>1 DEF Call, Send, rpcVars
    <3>2. CASE GetReply \/ Timeout
      BY <3>2 DEF GetReply, Timeout, Forsake
    <3>3. CASE Scan \/ EndScan \/ (\E d \in Dir : StartUpload(d))
      BY <3>3 DEF Scan, EndScan, StartUpload, rpcVars
    <3>4. CASE ReadFails \/ WriteUploaded \/ Release
      BY <3>4 DEF ReadFails, WriteUploaded, Release
    <3>5. CASE \E x \in Dir \X Timers : Elapse(x)
      BY <3>5 DEF Elapse, rpcVars
    <3>6. CASE \E d \in Dir : Record(d) \/ Spot(d)
      BY <3>6 DEF Record, Spot, rpcVars
    <3>7. CASE Deletion
      BY <3>7, DeletionSteps
    <3>8. CASE StopWorker \/ CrashWorker \/ StartWorker
      BY <3>8 DEF StopWorker, CrashWorker, EndOfWorker, StartWorker, Forsake, rpcVars
    <3> QED BY <2>1, <3>1, <3>2, <3>3, <3>4, <3>5, <3>6, <3>7, <3>8
            DEF WorkerNext, Upload, Deletion
  <2>2. CASE Receive
    BY <2>2 DEF Receive, ServeRequest, RemoveBackupEntry, DropOldBackup, MoveAside, PlaceStaging,
                rpcVars
  <2>3. CASE GrowIdle
    BY <2>3 DEF GrowIdle
  <2>4. CASE ReceiverCrash \/ ReceiverStart
    BY <2>4 DEF ReceiverCrash, ReceiverStart
  <2>5. CASE LoseRequest \/ LoseAnswer
    BY <2>5 DEF LoseRequest, LoseAnswer
  <2>6. CASE UNCHANGED vars
    BY <2>6 DEF vars, rpcVars
  <2> QED BY <2>1, <2>2, <2>3, <2>4, <2>5, <2>6 DEF Next
<1> QED BY <1>4, <1>5, <1>6, <1>7, <1>8

(* The composition keeps the types of the service, of the sender's table   *)
(* and of the receiver's, byte counts included.                            *)
THEOREM UploadTypeOK == Spec => []TypeOK
<1>1. Init => reply.bytes \in Nat
  BY DEF Init, RpcInit, NoReply
<1>2. UploadTypes /\ reply.bytes \in Nat /\ [Next]_vars => (reply.bytes \in Nat)'
  BY ReplyStep
<1>3. UploadTypes /\ reply.bytes \in Nat => TypeOK
  <2> SUFFICES ASSUME UploadTypes, reply.bytes \in Nat PROVE TypeOK
    OBVIOUS
  <2>1. \A i \in DOMAIN net : net[i].op \in {"BEGIN", "FILE_CHUNK", "END"} /\ net[i].dir \in Dir
    <3>1. \A i \in DOMAIN net : net[i] \in Requests
      BY DEF UploadTypes, WireTypes
    <3> QED BY <3>1 DEF Requests
  <2>2. \A d \in Dir : DOMAIN transfers[d].got \subseteq File
    BY DEF UploadTypes, InboxTypes, Gots
  <2> QED BY <2>1, <2>2 DEF TypeOK, UploadTypes, WireTypes, SenderTypes, DiskTypes, InboxTypes, Sending
<1> QED BY <1>1, <1>2, <1>3, UploadTyped, PTL DEF Spec
=============================================================================
