-------------------------- MODULE RetentionProofs --------------------------
(***************************************************************************)
(* Proofs about the retention sweep: what it has found stays deletable     *)
(* whatever the other threads do between its looks at the markers and the  *)
(* deletion, its order is kept, and its running total is the size of what  *)
(* is left.                                                                *)
(***************************************************************************)
EXTENDS Retention, FiniteSetTheorems, TLAPS

(***************************************************************************)
(* The inductive invariant                                                 *)
(***************************************************************************)

DiskTypes ==
    /\ now \in 1 .. MaxTime /\ last \in 0 .. MaxTime
    /\ present \subseteq Dir
    /\ stamp \in [Dir -> 0 .. MaxTime]
    /\ marks \in [Dir -> SUBSET MarkKinds]

SweepTypes ==
    /\ sweep \in [pc : {"idle", "collect", "age", "capacity", "done"}, unseen : SUBSET Dir,
                  looked : SUBSET Dir, found : SUBSET Dir,
                  left : Seq(Dir), kept : Seq(Dir), total : Nat, stuck : SUBSET Dir,
                  cutoff : Nat, write : BOOLEAN]
    /\ sweep.pc = "idle" => sweep = Idle

RetentionTypes == DiskTypes /\ SweepTypes

Survivors == sweep.found \cap present

(* No directory twice, oldest first.                                       *)
Ordered(s) ==
    \A i, j \in DOMAIN s : i < j => s[i] # s[j] /\ stamp[s[i]] <= stamp[s[j]]

(* What the sweep found may be deleted until it is gone, and is not made   *)
(* again; only the lease of a confirmed upload may still be dropped.  What *)
(* the sweep is looking at was seen without .pending.                      *)
MayBeDeleted(d) ==
    /\ marks[d] \cap Finished # {} /\ "pending" \notin marks[d]
    /\ "uploading" \in marks[d] => "uploaded" \in marks[d]

FoundStaysFinished ==
    /\ \A d \in sweep.found \cup present : stamp[d] # 0
    /\ \A d \in Survivors : MayBeDeleted(d)
    /\ \A d \in present : "uploading" \in marks[d] => Protect /\ "failed" \notin marks[d]
    /\ \A d \in sweep.looked : "pending" \notin marks[d]
    /\ sweep.unseen \subseteq present /\ sweep.looked \subseteq present
    /\ sweep.pc \notin {"collect"} => sweep.unseen = {} /\ sweep.looked = {}

(* While it collects, nothing has been deleted yet.                        *)
CollectList ==
    sweep.pc = "collect" =>
        /\ sweep.found \subseteq present
        /\ sweep.kept = <<>> /\ sweep.stuck = {} /\ sweep.cutoff = 0

(* The list is what is left of it: in the age pass the directories that    *)
(* could not be deleted and those not looked at yet, oldest first ...      *)
AgeList ==
    sweep.pc = "age" =>
        /\ Ordered(sweep.kept) /\ Ordered(sweep.left)
        /\ Survivors = ToSet(sweep.kept) \cup ToSet(sweep.left)
        /\ sweep.stuck = ToSet(sweep.kept)
        /\ \A d \in ToSet(sweep.kept), e \in ToSet(sweep.left) :
               d # e /\ stamp[d] <= stamp[e]

(* ... and in the capacity pass what was neither deleted nor stuck.        *)
CapacityList ==
    sweep.pc = "capacity" =>
        /\ MaxCapacity > 0
        /\ Ordered(sweep.left)
        /\ ToSet(sweep.left) \subseteq Survivors
        /\ Survivors \ ToSet(sweep.left) \subseteq sweep.stuck
        /\ sweep.total = Total(Survivors)

(* The limit is of a time that has come, and the age pass enforces it.     *)
CutoffKept ==
    /\ sweep.cutoff = 0 \/ sweep.cutoff + RetentionAge <= now
    /\ sweep.pc \in {"capacity", "done"} /\ RetentionAge > 0
           => \A d \in Survivors \ sweep.stuck : stamp[d] >= sweep.cutoff

SweepInv == /\ FoundStaysFinished /\ CollectList /\ AgeList /\ CapacityList /\ CutoffKept
            /\ SweepMeetsPolicy

(***************************************************************************)
(* Sizes                                                                   *)
(***************************************************************************)

(* The bytes of several directories are finitely many.                     *)
LEMMA BytesFinite ==
    ASSUME NEW S, S \subseteq Dir
    PROVE  IsFiniteSet(BytesOf(S)) /\ Total(S) \in Nat
<1>1. IsFiniteSet(S)
  BY FS_Subset, RetentionAssumption DEF RetentionAssumption
<1>2. IsFiniteSet(1 .. DiskBytes)
  BY FS_Interval, RetentionAssumption DEF RetentionAssumption
<1>3. IsFiniteSet(S \X (1 .. DiskBytes))
  BY <1>1, <1>2, FS_Product
<1>4. BytesOf(S) \in SUBSET (S \X (1 .. DiskBytes))
  BY DEF BytesOf
<1>5. IsFiniteSet(BytesOf(S))
  BY <1>3, <1>4, FS_Subset
<1> QED BY <1>5, FS_CardinalityType DEF Total

(* Deleting a directory frees its own size: what totalBytes loses in the   *)
(* capacity pass, and it never has to stop at zero for it.                 *)
LEMMA TotalWithout ==
    ASSUME NEW S, S \subseteq Dir, NEW d \in S
    PROVE  Total(S) = Total(S \ {d}) + Bytes[d]
<1> DEFINE R == S \ {d}
           own == {d} \X (1 .. Bytes[d])
<1>1. Bytes[d] \in Nat /\ Bytes[d] <= DiskBytes /\ DiskBytes \in Nat
  BY RetentionAssumption DEF RetentionAssumption
<1>2. IsFiniteSet({d}) /\ Cardinality({d}) = 1
  BY FS_Singleton
<1>3. IsFiniteSet(1 .. Bytes[d]) /\ Cardinality(1 .. Bytes[d]) = Bytes[d]
  <2>1. PICK n \in Nat : n = Bytes[d]
    BY <1>1
  <2>2. IsFiniteSet(1 .. n) /\ Cardinality(1 .. n) = IF 1 > n THEN 0 ELSE n - 1 + 1
    BY FS_Interval
  <2>3. Cardinality(1 .. n) = n
    BY <2>2
  <2> QED BY <2>1, <2>2, <2>3
<1>4. IsFiniteSet(own) /\ Cardinality(own) = Bytes[d]
  <2>1. IsFiniteSet(own) /\ Cardinality(own) = Cardinality({d}) * Cardinality(1 .. Bytes[d])
    BY <1>2, <1>3, FS_Product
  <2>2. 1 * Bytes[d] = Bytes[d]
    BY <1>1
  <2> QED BY <1>2, <1>3, <2>1, <2>2
<1>5. IsFiniteSet(BytesOf(R)) /\ Total(R) \in Nat
  BY BytesFinite
<1>6. BytesOf(S) = BytesOf(R) \cup own
  <2>1. ASSUME NEW b \in BytesOf(S) PROVE b \in BytesOf(R) \cup own
    BY <1>1 DEF BytesOf
  <2>2. ASSUME NEW b \in BytesOf(R) PROVE b \in BytesOf(S)
    BY DEF BytesOf
  <2>3. ASSUME NEW b \in own PROVE b \in BytesOf(S)
    BY <1>1 DEF BytesOf
  <2> QED BY <2>1, <2>2, <2>3
<1>7. BytesOf(R) \cap own = {}
  BY DEF BytesOf
<1>8. Cardinality(BytesOf(R) \cap own) = 0
  BY <1>7, FS_EmptySet
<1>9. Cardinality(BytesOf(R) \cup own)
        = Cardinality(BytesOf(R)) + Cardinality(own) - Cardinality(BytesOf(R) \cap own)
  BY <1>4, <1>5, FS_Union
<1> QED BY <1>1, <1>4, <1>5, <1>6, <1>8, <1>9 DEF Total

(***************************************************************************)
(* Lists                                                                   *)
(***************************************************************************)

(* The sorted list holds what was found, all of it, each directory once    *)
(* and oldest first.                                                       *)
LEMMA SortedIs ==
    ASSUME RetentionTypes, NEW S, S \subseteq Dir, NEW list \in Sorted(S)
    PROVE  /\ list \in Seq(Dir)
           /\ ToSet(list) = S
           /\ Ordered(list)
<1> DEFINE n == Cardinality(S)
<1>1. IsFiniteSet(S) /\ n \in Nat
  <2>1. S \in SUBSET Dir
    OBVIOUS
  <2> QED BY <2>1, FS_Subset, FS_CardinalityType, RetentionAssumption DEF RetentionAssumption
<1>2. /\ list \in [1 .. n -> S]
      /\ \A i, j \in 1 .. n : i # j => list[i] # list[j]
      /\ \A i, j \in DOMAIN list : i < j => ~Older(list[j], list[i])
  BY DEF Sorted, SetToSeqs
<1>3. list \in Seq(Dir) /\ DOMAIN list = 1 .. n
  BY <1>1, <1>2
<1>4. ToSet(list) = S
  <2>1. list \in Injection(1 .. n, S)
    BY <1>2 DEF Injection, IsInjective
  <2>2. IsFiniteSet(1 .. n) /\ Cardinality(1 .. n) = n
    BY <1>1, FS_Interval
  <2>3. list \in Surjection(1 .. n, S)
    BY <1>1, <2>1, <2>2, FS_Injection
  <2> QED BY <1>2, <1>3, <2>3 DEF Surjection, ToSet
<1>5. Ordered(list)
  <2> SUFFICES ASSUME NEW i \in DOMAIN list, NEW j \in DOMAIN list, i < j
               PROVE  list[i] # list[j] /\ stamp[list[i]] <= stamp[list[j]]
    BY DEF Ordered
  <2>1. list[i] # list[j]
    BY <1>1, <1>2, <1>3
  <2>2. stamp[list[i]] \in Nat /\ stamp[list[j]] \in Nat
    <3>1. list[i] \in Dir /\ list[j] \in Dir
      <4>1. list \in Seq(Dir)
        BY <1>3
      <4> HIDE DEF n
      <4> QED BY <4>1, SMT
    <3> QED BY <3>1 DEF RetentionTypes, DiskTypes
  <2>3. ~(stamp[list[j]] < stamp[list[i]])
    BY <1>2 DEF Older
  <2> QED BY <2>1, <2>2, <2>3
<1> QED BY <1>3, <1>4, <1>5

(* The head of the list is its oldest directory, and is not in the rest.   *)
LEMMA HeadFirst ==
    ASSUME NEW s \in Seq(Dir), s # <<>>, Ordered(s)
    PROVE  /\ Head(s) \in Dir /\ Tail(s) \in Seq(Dir)
           /\ ToSet(s) = {Head(s)} \cup ToSet(Tail(s))
           /\ Head(s) \notin ToSet(Tail(s))
           /\ \A e \in ToSet(Tail(s)) : stamp[Head(s)] <= stamp[e]
           /\ Ordered(Tail(s))
<1> DEFINE t == Tail(s)
<1>1. /\ t \in Seq(Dir) /\ Head(s) \in Dir /\ Head(s) = s[1] /\ 1 \in DOMAIN s
      /\ \A m \in DOMAIN t : m + 1 \in DOMAIN s /\ t[m] = s[m + 1]
      /\ DOMAIN t \subseteq Nat \ {0}
  OBVIOUS
<1>2. \A k \in DOMAIN s : k = 1 \/ \E m \in DOMAIN t : k = m + 1
  <2> SUFFICES ASSUME NEW k \in DOMAIN s, k # 1 PROVE \E m \in DOMAIN t : k = m + 1
    OBVIOUS
  <2>1. k - 1 \in DOMAIN t /\ k = (k - 1) + 1
    OBVIOUS
  <2> QED BY <2>1
<1> HIDE DEF t
<1>3. ToSet(s) = {Head(s)} \cup ToSet(t)
  <2>1. ASSUME NEW k \in DOMAIN s PROVE s[k] \in {Head(s)} \cup ToSet(t)
    BY <1>1, <1>2 DEF ToSet
  <2>2. ASSUME NEW m \in DOMAIN t PROVE t[m] \in ToSet(s)
    BY <1>1 DEF ToSet
  <2>3. Head(s) \in ToSet(s)
    BY <1>1 DEF ToSet
  <2> QED BY <2>1, <2>2, <2>3 DEF ToSet
<1>4. \A m \in DOMAIN t : Head(s) # t[m] /\ stamp[Head(s)] <= stamp[t[m]]
  <2> SUFFICES ASSUME NEW m \in DOMAIN t
               PROVE  Head(s) # t[m] /\ stamp[Head(s)] <= stamp[t[m]]
    OBVIOUS
  <2>1. 1 < m + 1 /\ m + 1 \in DOMAIN s
    BY <1>1
  <2> QED BY <1>1, <2>1 DEF Ordered
<1>5. Ordered(t)
  <2> SUFFICES ASSUME NEW i \in DOMAIN t, NEW j \in DOMAIN t, i < j
               PROVE  t[i] # t[j] /\ stamp[t[i]] <= stamp[t[j]]
    BY DEF Ordered
  <2>1. i + 1 < j + 1 /\ i + 1 \in DOMAIN s /\ j + 1 \in DOMAIN s
    BY <1>1
  <2> QED BY <1>1, <2>1 DEF Ordered
<1> QED BY <1>1, <1>3, <1>4, <1>5 DEF ToSet, t

(* Appending a directory that is not older keeps the order.                *)
LEMMA AppendLast ==
    ASSUME NEW s \in Seq(Dir), NEW d \in Dir, Ordered(s),
           \A e \in ToSet(s) : e # d /\ stamp[e] <= stamp[d]
    PROVE  /\ Append(s, d) \in Seq(Dir)
           /\ ToSet(Append(s, d)) = ToSet(s) \cup {d}
           /\ Ordered(Append(s, d))
<1> DEFINE t == Append(s, d)
<1>1. /\ t \in Seq(Dir) /\ DOMAIN t = DOMAIN s \cup {Len(s) + 1} /\ t[Len(s) + 1] = d
      /\ \A m \in DOMAIN s : t[m] = s[m]
      /\ DOMAIN s = 1 .. Len(s) /\ Len(s) \in Nat
  OBVIOUS
<1> HIDE DEF t
<1>2. ToSet(t) = ToSet(s) \cup {d}
  BY <1>1 DEF ToSet
<1>3. Ordered(t)
  <2> SUFFICES ASSUME NEW i \in DOMAIN t, NEW j \in DOMAIN t, i < j
               PROVE  t[i] # t[j] /\ stamp[t[i]] <= stamp[t[j]]
    BY DEF Ordered
  <2>1. i \in DOMAIN s /\ t[i] = s[i] /\ s[i] \in ToSet(s)
    BY <1>1 DEF ToSet
  <2>2. CASE j \in DOMAIN s
    BY <1>1, <2>1, <2>2 DEF Ordered
  <2>3. CASE j = Len(s) + 1
    BY <1>1, <2>1, <2>3
  <2> QED BY <1>1, <2>2, <2>3
<1> QED BY <1>1, <1>2, <1>3 DEF t

(* Putting the directories that could not be deleted back in front of      *)
(* those that were not looked at keeps the order.                          *)
LEMMA PutBack ==
    ASSUME NEW s \in Seq(Dir), NEW t \in Seq(Dir), Ordered(s), Ordered(t),
           \A d \in ToSet(s), e \in ToSet(t) : d # e /\ stamp[d] <= stamp[e]
    PROVE  /\ s \o t \in Seq(Dir)
           /\ ToSet(s \o t) = ToSet(s) \cup ToSet(t)
           /\ Ordered(s \o t)
<1> DEFINE u == s \o t
<1>1. /\ u \in Seq(Dir) /\ Len(u) = Len(s) + Len(t)
      /\ \A k \in 1 .. Len(s) : u[k] = s[k]
      /\ \A k \in 1 .. Len(t) : u[Len(s) + k] = t[k]
  OBVIOUS
<1> HIDE DEF u
<1>2. /\ Len(s) \in Nat /\ Len(t) \in Nat /\ DOMAIN u = 1 .. Len(s) + Len(t)
      /\ DOMAIN s = 1 .. Len(s) /\ DOMAIN t = 1 .. Len(t)
  BY <1>1
<1>3. ASSUME NEW k \in DOMAIN u, k \notin DOMAIN s
      PROVE  \E l \in DOMAIN t : k = Len(s) + l
  <2>1. k - Len(s) \in 1 .. Len(t) /\ k = Len(s) + (k - Len(s))
    BY <1>2, <1>3
  <2> QED BY <1>2, <2>1
<1>4. ToSet(u) = ToSet(s) \cup ToSet(t)
  <2>1. ASSUME NEW k \in DOMAIN u PROVE u[k] \in ToSet(s) \cup ToSet(t)
    BY <1>1, <1>2, <1>3 DEF ToSet
  <2>2. ASSUME NEW k \in DOMAIN s PROVE s[k] \in ToSet(u)
    BY <1>1, <1>2 DEF ToSet
  <2>3. ASSUME NEW k \in DOMAIN t PROVE t[k] \in ToSet(u)
    <3>1. Len(s) + k \in DOMAIN u /\ u[Len(s) + k] = t[k]
      BY <1>1, <1>2
    <3> QED BY <3>1 DEF ToSet
  <2> QED BY <2>1, <2>2, <2>3 DEF ToSet
<1>5. Ordered(u)
  <2> SUFFICES ASSUME NEW i \in DOMAIN u, NEW j \in DOMAIN u, i < j
               PROVE  u[i] # u[j] /\ stamp[u[i]] <= stamp[u[j]]
    BY DEF Ordered
  <2>1. CASE j \in DOMAIN s
    <3>1. i \in DOMAIN s
      BY <1>2, <2>1
    <3> QED BY <1>1, <1>2, <2>1, <3>1 DEF Ordered
  <2>2. CASE j \notin DOMAIN s
    <3>1. PICK l \in DOMAIN t : j = Len(s) + l
      BY <1>3, <2>2
    <3>2. u[j] = t[l] /\ t[l] \in ToSet(t)
      BY <1>1, <1>2, <3>1 DEF ToSet
    <3>3. CASE i \in DOMAIN s
      BY <1>1, <1>2, <3>2, <3>3 DEF ToSet
    <3>4. CASE i \notin DOMAIN s
      <4>1. PICK k \in DOMAIN t : i = Len(s) + k
        BY <1>3, <3>4
      <4>2. k < l /\ u[i] = t[k]
        BY <1>1, <1>2, <3>1, <4>1
      <4> QED BY <3>2, <4>2 DEF Ordered
    <3> QED BY <3>3, <3>4
  <2> QED BY <2>1, <2>2
<1> QED BY <1>1, <1>4, <1>5 DEF u

(***************************************************************************)
(* The other actors                                                        *)
(***************************************************************************)

OtherActor == \/ \E d \in Dir : Create(d) \/ Lease(d) \/ WriteUploaded(d) \/ Unlease(d)
              \/ \E d \in Dir, r \in {"complete", "failed"} : Close(d, r)
              \/ Tick

(* What a trigger, the storage worker's close or the upload worker does    *)
(* during a sweep leaves what the sweep has found deletable: such a        *)
(* directory is not made again, is closed, and its uploader has nothing    *)
(* left to do but to drop its lease.  One that is being looked at does not *)
(* become pending, and only complete ones are leased.                            *)
LEMMA OthersLeaveFoundAlone ==
    ASSUME RetentionTypes, SweepInv, OtherActor
    PROVE  /\ sweep' = sweep /\ now' \in Nat /\ now <= now' /\ present \subseteq present'
           /\ \A d \in sweep.found : /\ d \in present' <=> d \in present
                                     /\ stamp'[d] = stamp[d]
           /\ \A d \in Survivors : MayBeDeleted(d)'
           /\ \A d \in present' : /\ stamp'[d] # 0
                                  /\ "uploading" \in marks'[d] => Protect /\ "failed" \notin marks'[d]
           /\ \A d \in sweep.looked : "pending" \notin marks'[d]
<1> USE RetentionAssumption DEF RetentionAssumption, RetentionTypes, DiskTypes
<1>1. sweep' = sweep /\ now' \in Nat /\ now <= now' /\ present \subseteq present'
  BY DEF OtherActor, Create, Lease, WriteUploaded, Unlease, Close, SetMarks, Tick, diskVars
<1>2. /\ \A d \in sweep.found \cup present : d \in Dir /\ stamp[d] # 0
      /\ \A d \in Survivors : d \in present /\ MayBeDeleted(d)
      /\ \A d \in present : "uploading" \in marks[d] => Protect /\ "failed" \notin marks[d]
      /\ \A d \in sweep.looked : d \in present /\ "pending" \notin marks[d]
  BY DEF SweepTypes, SweepInv, FoundStaysFinished, Survivors
<1> DEFINE Leave == /\ \A d \in sweep.found : /\ d \in present' <=> d \in present
                                              /\ stamp'[d] = stamp[d]
                    /\ \A d \in Survivors : MayBeDeleted(d)'
                    /\ \A d \in present' :
                           /\ stamp'[d] # 0
                           /\ "uploading" \in marks'[d] => Protect /\ "failed" \notin marks'[d]
                    /\ \A d \in sweep.looked : "pending" \notin marks'[d]
<1>4. ASSUME NEW e \in Dir, Create(e) PROVE Leave
  <2>1. \A d \in Dir : d # e => marks'[d] = marks[d] /\ stamp'[d] = stamp[d]
    BY <1>4 DEF Create
  <2>2. /\ marks'[e] = {"pending"} /\ stamp'[e] = now /\ now # 0 /\ stamp[e] = 0
        /\ present' = present \cup {e}
    BY <1>4 DEF Create
  <2>3. e \notin present /\ e \notin sweep.found
    BY <1>2, <2>2
  <2> QED BY <1>2, <2>1, <2>2, <2>3 DEF MayBeDeleted, Finished, Survivors
<1>5. ASSUME NEW e \in Dir, Lease(e) PROVE Leave
  <2>1. /\ \A d \in Dir : d # e => marks'[d] = marks[d]
        /\ marks[e] = {"complete"} /\ marks'[e] = {"complete", "uploading"} /\ Protect
        /\ UNCHANGED <<present, stamp>>
    BY <1>5 DEF Lease, SetMarks
  <2>2. e \notin Survivors
    BY <1>2, <2>1 DEF MayBeDeleted, Finished
  <2> QED BY <1>2, <2>1, <2>2 DEF MayBeDeleted, Finished
<1>6. ASSUME NEW e \in Dir, WriteUploaded(e) \/ Unlease(e) PROVE Leave
  <2>1. /\ \A d \in Dir : d # e => marks'[d] = marks[d]
        /\ "uploading" \in marks[e] /\ e \in present /\ UNCHANGED <<present, stamp>>
        /\ marks'[e] = marks[e] \cup {"uploaded"} \/ marks'[e] = marks[e] \ {"uploading"}
    BY <1>6 DEF WriteUploaded, Unlease, SetMarks
  <2>2. "failed" \notin marks[e]
    BY <1>2, <2>1
  <2> QED BY <1>2, <2>1, <2>2 DEF MayBeDeleted, Finished
<1>7. ASSUME NEW e \in Dir, NEW r \in {"complete", "failed"}, Close(e, r) PROVE Leave
  <2>1. /\ \A d \in Dir : d # e => marks'[d] = marks[d]
        /\ marks'[e] = {r} /\ UNCHANGED <<present, stamp>> /\ sweep = Idle
    BY <1>7 DEF Close, SetMarks
  <2>2. sweep.found = {} /\ sweep.looked = {} /\ Survivors = {}
    BY <2>1 DEF Idle, Survivors
  <2> QED BY <1>2, <2>1, <2>2
<1>8. CASE Tick
  BY <1>2, <1>8 DEF Tick, diskVars, MayBeDeleted, Finished
<1> QED BY <1>1, <1>4, <1>5, <1>6, <1>7, <1>8 DEF OtherActor

(* Hence they keep the invariant.                                          *)
LEMMA OthersKeepSweepInv ==
    ASSUME RetentionTypes, SweepInv, OtherActor
    PROVE  SweepInv'
<1> USE RetentionAssumption DEF RetentionAssumption, RetentionTypes, DiskTypes
<1>1. /\ sweep' = sweep /\ now' \in Nat /\ now <= now' /\ present \subseteq present'
      /\ \A d \in sweep.found : /\ d \in present' <=> d \in present
                                /\ stamp'[d] = stamp[d]
      /\ \A d \in Survivors : MayBeDeleted(d)'
      /\ \A d \in present' : /\ stamp'[d] # 0
                             /\ "uploading" \in marks'[d] => Protect /\ "failed" \notin marks'[d]
      /\ \A d \in sweep.looked : "pending" \notin marks'[d]
  BY OthersLeaveFoundAlone
<1>2. Survivors' = Survivors /\ Survivors \subseteq sweep.found
  BY <1>1 DEF Survivors
<1>3. FoundStaysFinished'
  BY <1>1, <1>2 DEF SweepInv, FoundStaysFinished
<1>0. CollectList'
  BY <1>1 DEF SweepInv, CollectList
<1>4. ASSUME NEW s, Ordered(s), ToSet(s) \subseteq Survivors
      PROVE  Ordered(s)'
  <2>1. \A i \in DOMAIN s : stamp'[s[i]] = stamp[s[i]]
    BY <1>1, <1>2, <1>4 DEF ToSet
  <2> QED BY <1>4, <2>1 DEF Ordered
<1>5. AgeList'
  <2> SUFFICES ASSUME sweep.pc = "age" PROVE AgeList'
    BY <1>1 DEF AgeList
  <2>1. Ordered(sweep.kept)' /\ Ordered(sweep.left)'
    BY <1>1, <1>4 DEF SweepInv, AgeList, Ordered
  <2> QED BY <1>1, <1>2, <2>1 DEF SweepInv, AgeList
<1>6. CapacityList'
  <2> SUFFICES ASSUME sweep.pc = "capacity" PROVE CapacityList'
    BY <1>1 DEF CapacityList
  <2>1. Ordered(sweep.left)'
    BY <1>1, <1>4 DEF SweepInv, CapacityList, Ordered
  <2> QED BY <1>1, <1>2, <2>1 DEF SweepInv, CapacityList
<1>7. CutoffKept'
  <2>1. PICK c \in Nat : c = sweep.cutoff
    BY DEF SweepTypes
  <2>2. c = 0 \/ c + RetentionAge <= now'
    BY <1>1, <2>1 DEF SweepInv, CutoffKept
  <2> QED BY <1>1, <1>2, <2>1, <2>2 DEF SweepInv, CutoffKept
<1>8. SweepMeetsPolicy'
  BY <1>1, <1>2 DEF SweepInv, SweepMeetsPolicy, Survivors
<1> QED BY <1>0, <1>3, <1>5, <1>6, <1>7, <1>8 DEF SweepInv

(***************************************************************************)
(* The sweep                                                               *)
(***************************************************************************)

(* A new sweep has found nothing yet.                                      *)
LEMMA BeginSweep ==
    ASSUME RetentionTypes, SweepInv, UNCHANGED <<now, diskVars>>, sweep = Idle,
           NEW write \in BOOLEAN, sweep' = Begun(write)
    PROVE  SweepTypes' /\ SweepInv'
<1> USE RetentionAssumption DEF RetentionAssumption, RetentionTypes, DiskTypes, diskVars
<1>1. sweep' = [pc |-> "collect", unseen |-> present, looked |-> {}, found |-> {},
                left |-> <<>>, kept |-> <<>>, total |-> 0, stuck |-> {}, cutoff |-> 0,
                write |-> write]
  BY DEF Begun, Idle
<1>2. SweepTypes'
  <2>1. <<>> \in Seq(Dir) /\ 0 \in Nat /\ {} \in SUBSET Dir /\ present \in SUBSET Dir
    OBVIOUS
  <2> QED BY <1>1, <2>1 DEF SweepTypes
<1>3. FoundStaysFinished'
  BY <1>1 DEF FoundStaysFinished, Survivors, SweepInv
<1>4. CollectList' /\ AgeList' /\ CapacityList' /\ CutoffKept' /\ SweepMeetsPolicy'
  BY <1>1 DEF CollectList, AgeList, CapacityList, CutoffKept, SweepMeetsPolicy
<1> QED BY <1>2, <1>3, <1>4 DEF SweepInv

(* Looking for the markers of the writer and of the uploader.              *)
LEMMA ExamineKeeps ==
    ASSUME RetentionTypes, SweepInv, NEW d \in Dir, Examine(d)
    PROVE  SweepTypes' /\ SweepInv'
<1> USE DEF RetentionTypes, DiskTypes, diskVars
<1>1. PICK looked \in SUBSET {d} :
          /\ sweep' = [sweep EXCEPT !.unseen = @ \ {d}, !.looked = looked]
          /\ looked # {} => ~InUse(d)
  BY DEF Examine
<1>2. /\ sweep.pc = "collect" /\ d \in sweep.unseen
      /\ UNCHANGED <<now, present, stamp, marks>>
  BY DEF Examine
<1>3. /\ sweep'.pc = "collect" /\ sweep'.unseen = sweep.unseen \ {d} /\ sweep'.looked = looked
      /\ sweep'.found = sweep.found /\ sweep'.kept = sweep.kept /\ sweep'.stuck = sweep.stuck
      /\ sweep'.cutoff = sweep.cutoff
  BY <1>1, <1>2 DEF SweepTypes
<1>4. SweepTypes'
  BY <1>1, <1>2 DEF SweepTypes
<1>5. FoundStaysFinished'
  BY <1>1, <1>2, <1>3 DEF FoundStaysFinished, SweepInv, Survivors, MayBeDeleted, Finished, InUse
<1>6. CollectList' /\ AgeList' /\ CapacityList' /\ CutoffKept' /\ SweepMeetsPolicy'
  BY <1>2, <1>3 DEF CollectList, AgeList, CapacityList, CutoffKept, SweepMeetsPolicy, SweepInv
<1> QED BY <1>4, <1>5, <1>6 DEF SweepInv

(* Looking for those that say the directory is finished: what is found now *)
(* may be deleted, although its lease may have been taken since.           *)
LEMMA CollectKeeps ==
    ASSUME RetentionTypes, SweepInv, NEW d \in Dir, Collect(d)
    PROVE  SweepTypes' /\ SweepInv'
<1> USE DEF RetentionTypes, DiskTypes, diskVars
<1>1. PICK found \in SUBSET Dir :
          /\ sweep' = [sweep EXCEPT !.looked = {}, !.found = found]
          /\ found = sweep.found \/ (found = sweep.found \cup {d} /\ MayGo(d))
  <2>1. sweep.found \in SUBSET Dir /\ sweep.found \cup {d} \in SUBSET Dir
    BY DEF SweepTypes
  <2>2. CASE MayGo(d)
    BY <2>1, <2>2 DEF Collect
  <2>3. CASE ~MayGo(d)
    BY <2>1, <2>3 DEF Collect
  <2> QED BY <2>2, <2>3
<1>2. /\ sweep.pc = "collect" /\ d \in sweep.looked
      /\ UNCHANGED <<now, present, stamp, marks>>
  BY DEF Collect
<1>3. /\ sweep'.pc = "collect" /\ sweep'.unseen = sweep.unseen /\ sweep'.looked = {}
      /\ sweep'.found = found /\ sweep'.kept = sweep.kept /\ sweep'.stuck = sweep.stuck
      /\ sweep'.cutoff = sweep.cutoff
  BY <1>1, <1>2 DEF SweepTypes
<1>4. SweepTypes'
  BY <1>1, <1>2 DEF SweepTypes
<1>5. d \in present /\ "pending" \notin marks[d]
  BY <1>2 DEF SweepInv, FoundStaysFinished
<1>6. FoundStaysFinished'
  <2>1. MayGo(d) => MayBeDeleted(d)
    BY <1>5 DEF MayGo, MayBeDeleted, Finished, SweepInv, FoundStaysFinished
  <2>2. \A e \in found \cap present : MayBeDeleted(e)
    BY <1>1, <2>1 DEF SweepInv, FoundStaysFinished, Survivors
  <2> QED BY <1>1, <1>2, <1>3, <1>5, <2>2
          DEF FoundStaysFinished, SweepInv, Survivors, MayBeDeleted, Finished
<1>7. CollectList'
  BY <1>1, <1>2, <1>3, <1>5 DEF CollectList, SweepInv
<1>8. AgeList' /\ CapacityList' /\ CutoffKept' /\ SweepMeetsPolicy'
  BY <1>2, <1>3 DEF AgeList, CapacityList, CutoffKept, SweepMeetsPolicy, SweepInv
<1> QED BY <1>4, <1>6, <1>7, <1>8 DEF SweepInv

(* The list of the passes is what was found, oldest first.                 *)
LEMMA EndCollectKeeps ==
    ASSUME RetentionTypes, SweepInv, EndCollect
    PROVE  SweepTypes' /\ SweepInv'
<1> USE RetentionAssumption DEF RetentionAssumption, RetentionTypes, DiskTypes, diskVars
<1>1. PICK list \in Sorted(sweep.found) :
          sweep' = [sweep EXCEPT !.pc = "age", !.left = list, !.cutoff = Cutoff]
  BY DEF EndCollect
<1>2. /\ sweep.pc = "collect" /\ sweep.unseen = {} /\ sweep.looked = {}
      /\ UNCHANGED <<now, present, stamp, marks>>
  BY DEF EndCollect
<1>3. list \in Seq(Dir) /\ ToSet(list) = sweep.found /\ Ordered(list)
  BY <1>1, SortedIs DEF SweepTypes
<1>4. PICK c \in Nat : c = Cutoff
  BY DEF Cutoff
<1>5. c = 0 \/ c + RetentionAge <= now
  BY <1>4 DEF Cutoff
<1>6. /\ sweep'.pc = "age" /\ sweep'.unseen = {} /\ sweep'.looked = {}
      /\ sweep'.found = sweep.found /\ sweep'.left = list /\ sweep'.kept = <<>>
      /\ sweep'.stuck = {} /\ sweep'.cutoff = c
  BY <1>1, <1>2, <1>4 DEF SweepTypes, SweepInv, CollectList
<1>7. SweepTypes'
  BY <1>1, <1>3, <1>4 DEF SweepTypes
<1>8. FoundStaysFinished'
  BY <1>2, <1>6 DEF FoundStaysFinished, SweepInv, Survivors, MayBeDeleted, Finished
<1>9. AgeList'
  <2>1. Ordered(sweep.left)' /\ Ordered(sweep.kept)'
    BY <1>2, <1>3, <1>6 DEF Ordered
  <2>2. ToSet(sweep'.kept) = {}
    BY <1>6 DEF ToSet
  <2>3. Survivors' = sweep.found
    BY <1>2, <1>6 DEF SweepInv, CollectList, Survivors
  <2> QED BY <1>3, <1>6, <2>1, <2>2, <2>3 DEF AgeList
<1>10. CollectList' /\ CapacityList' /\ CutoffKept' /\ SweepMeetsPolicy'
  BY <1>2, <1>5, <1>6 DEF CollectList, CapacityList, CutoffKept, SweepMeetsPolicy
<1> QED BY <1>7, <1>8, <1>9, <1>10 DEF SweepInv

(* A step that leaves the disk and the findings alone keeps what was found *)
(* deletable.                                                              *)
LEMMA FoundKept ==
    ASSUME RetentionTypes, SweepInv, UNCHANGED <<now, diskVars>>, sweep.pc # "collect",
           sweep'.found = sweep.found, sweep'.unseen = sweep.unseen, sweep'.looked = sweep.looked
    PROVE  FoundStaysFinished' /\ Survivors' = Survivors
BY DEF SweepInv, FoundStaysFinished, Survivors, diskVars, Finished, MayBeDeleted

(* So does deleting one directory, which then is no survivor.              *)
LEMMA FoundDeleted ==
    ASSUME RetentionTypes, SweepInv, NEW d \in Survivors, DeleteDir(d), sweep.pc # "collect",
           sweep'.found = sweep.found, sweep'.unseen = sweep.unseen, sweep'.looked = sweep.looked
    PROVE  /\ FoundStaysFinished' /\ Survivors' = Survivors \ {d}
           /\ UNCHANGED <<now, stamp>>
<1>1. Survivors' = Survivors \ {d} /\ UNCHANGED <<now, stamp>> /\ present' = present \ {d}
  BY DEF DeleteDir, Survivors
<1>2. \A e \in Dir : e # d => marks'[e] = marks[e]
  BY DEF DeleteDir, RetentionTypes, DiskTypes
<1>3. Survivors \subseteq Dir
  BY DEF Survivors, RetentionTypes, DiskTypes
<1> QED BY <1>1, <1>2, <1>3 DEF SweepInv, FoundStaysFinished, Finished, MayBeDeleted, RetentionTypes,
                                DiskTypes

(* A step of the age pass.                                                 *)
LEMMA AgeStepKeeps ==
    ASSUME RetentionTypes, SweepInv, AgeStep
    PROVE  SweepTypes' /\ SweepInv'
<1> USE DEF RetentionTypes, SweepTypes
<1>1. sweep.pc = "age" /\ sweep.left # <<>> /\ HeadTooOld
  BY DEF AgeStep, HeadTooOld
<1>2. PICK d, rest : d = Head(sweep.left) /\ rest = Tail(sweep.left)
  OBVIOUS
<1>3. PICK left \in Seq(Dir), kept \in Seq(Dir) : left = sweep.left /\ kept = sweep.kept
  OBVIOUS
<1>4. /\ Ordered(left) /\ Ordered(kept)
      /\ Survivors = ToSet(kept) \cup ToSet(left) /\ sweep.stuck = ToSet(kept)
      /\ \A a \in ToSet(kept), e \in ToSet(left) : a # e /\ stamp[a] <= stamp[e]
  BY <1>1, <1>3 DEF SweepInv, AgeList
<1>5. /\ d \in Dir /\ rest \in Seq(Dir) /\ ToSet(left) = {d} \cup ToSet(rest)
      /\ d \notin ToSet(rest) /\ (\A e \in ToSet(rest) : stamp[d] <= stamp[e]) /\ Ordered(rest)
  BY <1>1, <1>2, <1>3, <1>4, HeadFirst
<1>6. CASE DeleteDir(d) /\ sweep' = [sweep EXCEPT !.left = rest]
  <2>1. /\ sweep'.pc = "age" /\ sweep'.found = sweep.found /\ sweep'.left = rest
        /\ sweep'.unseen = sweep.unseen /\ sweep'.looked = sweep.looked
        /\ sweep'.kept = kept /\ sweep'.stuck = sweep.stuck /\ sweep'.cutoff = sweep.cutoff
    BY <1>1, <1>3, <1>6
  <2>2. FoundStaysFinished' /\ Survivors' = Survivors \ {d} /\ UNCHANGED <<now, stamp>>
    BY <1>1, <1>4, <1>5, <1>6, <2>1, FoundDeleted
  <2>3. SweepTypes'
    BY <1>1, <1>5, <1>6
  <2>4. AgeList'
    <3>1. Ordered(sweep.kept)' /\ Ordered(sweep.left)'
      BY <1>4, <1>5, <2>1, <2>2 DEF Ordered
    <3>2. Survivors' = ToSet(kept) \cup ToSet(rest)
      BY <1>4, <1>5, <2>2
    <3> QED BY <1>4, <1>5, <2>1, <2>2, <3>1, <3>2 DEF AgeList
  <2>5. CollectList' /\ CapacityList' /\ CutoffKept' /\ SweepMeetsPolicy'
    BY <2>1, <2>2 DEF CollectList, CapacityList, CutoffKept, SweepMeetsPolicy, SweepInv
  <2> QED BY <2>2, <2>3, <2>4, <2>5 DEF SweepInv
<1>7. CASE /\ sweep' = [sweep EXCEPT !.left = rest, !.kept = Append(@, d), !.stuck = @ \cup {d}]
           /\ UNCHANGED <<now, diskVars, last, refused>>
  <2>0. PICK more : more = Append(kept, d)
    OBVIOUS
  <2>1. /\ sweep'.pc = "age" /\ sweep'.found = sweep.found /\ sweep'.left = rest
        /\ sweep'.unseen = sweep.unseen /\ sweep'.looked = sweep.looked
        /\ sweep'.kept = more /\ sweep'.stuck = sweep.stuck \cup {d}
        /\ sweep'.cutoff = sweep.cutoff
    BY <1>1, <1>3, <1>7, <2>0
  <2>2. FoundStaysFinished' /\ Survivors' = Survivors /\ UNCHANGED <<now, stamp>>
    BY <1>1, <1>7, <2>1, FoundKept DEF diskVars
  <2>3. \A e \in ToSet(kept) : e # d /\ stamp[e] <= stamp[d]
    BY <1>4, <1>5
  <2>4. more \in Seq(Dir) /\ ToSet(more) = ToSet(kept) \cup {d} /\ Ordered(more)
    BY <1>4, <1>5, <2>0, <2>3, AppendLast
  <2>5. SweepTypes'
    BY <1>1, <1>3, <1>5, <1>7, <2>0, <2>4
  <2>6. AgeList'
    <3>1. Ordered(sweep.kept)' /\ Ordered(sweep.left)'
      BY <1>5, <2>1, <2>2, <2>4 DEF Ordered
    <3>2. Survivors' = ToSet(more) \cup ToSet(rest)
      BY <1>4, <1>5, <2>2, <2>4
    <3> QED BY <1>4, <1>5, <2>1, <2>2, <2>4, <3>1, <3>2 DEF AgeList
  <2>7. CollectList' /\ CapacityList' /\ CutoffKept' /\ SweepMeetsPolicy'
    BY <2>1, <2>2 DEF CollectList, CapacityList, CutoffKept, SweepMeetsPolicy, SweepInv
  <2> QED BY <2>2, <2>5, <2>6, <2>7 DEF SweepInv
<1> QED BY <1>2, <1>6, <1>7 DEF AgeStep

(* The end of the age pass: nothing that is left and could be deleted is   *)
(* past the limit, and the total is taken of what is left.                 *)
LEMMA AgeDoneKeeps ==
    ASSUME RetentionTypes, SweepInv, AgeDone
    PROVE  SweepTypes' /\ SweepInv'
<1> USE RetentionAssumption DEF RetentionTypes, SweepTypes, RetentionAssumption
<1>1. /\ sweep.pc = "age" /\ ~HeadTooOld /\ UNCHANGED <<now, diskVars>>
      /\ UNCHANGED <<present, stamp, marks>>
  BY DEF AgeDone, diskVars
<1>2. PICK left \in Seq(Dir), kept \in Seq(Dir) : left = sweep.left /\ kept = sweep.kept
  OBVIOUS
<1>3. /\ Ordered(left) /\ Ordered(kept)
      /\ Survivors = ToSet(kept) \cup ToSet(left) /\ sweep.stuck = ToSet(kept)
      /\ \A a \in ToSet(kept), e \in ToSet(left) : a # e /\ stamp[a] <= stamp[e]
  BY <1>1, <1>2 DEF SweepInv, AgeList
<1>4. PICK list : list = kept \o left
  OBVIOUS
<1>5. list \in Seq(Dir) /\ ToSet(list) = Survivors /\ Ordered(list)
  BY <1>3, <1>4, PutBack
<1>6. PICK total \in Nat : total = Total(ToSet(list))
  BY <1>5, BytesFinite DEF Survivors
<1>7. PICK pc \in {"capacity", "done"} : pc = IF MaxCapacity > 0 THEN "capacity" ELSE "done"
  OBVIOUS
<1>8. sweep' = [sweep EXCEPT !.pc = pc, !.left = list, !.kept = <<>>, !.total = total]
  BY <1>2, <1>4, <1>6, <1>7 DEF AgeDone
<1>9. /\ sweep'.pc = pc /\ sweep'.found = sweep.found /\ sweep'.left = list
      /\ sweep'.unseen = sweep.unseen /\ sweep'.looked = sweep.looked
      /\ sweep'.kept = <<>> /\ sweep'.stuck = sweep.stuck /\ sweep'.cutoff = sweep.cutoff
      /\ sweep'.total = total
  BY <1>8
<1>10. SweepTypes'
  <2>1. <<>> \in Seq(Dir)
    OBVIOUS
  <2>2. sweep' \in [pc : {"idle", "collect", "age", "capacity", "done"}, unseen : SUBSET Dir,
                    looked : SUBSET Dir, found : SUBSET Dir,
                    left : Seq(Dir), kept : Seq(Dir), total : Nat, stuck : SUBSET Dir,
                    cutoff : Nat, write : BOOLEAN]
    BY <1>5, <1>8, <2>1
  <2> QED BY <1>9, <2>2
<1>11. FoundStaysFinished' /\ Survivors' = Survivors
  BY <1>1, <1>9, FoundKept
<1>12. AgeList' /\ CollectList'
  BY <1>9 DEF AgeList, CollectList
<1>13. CapacityList'
  <2>1. Ordered(sweep.left)'
    BY <1>1, <1>5, <1>9 DEF Ordered
  <2> QED BY <1>5, <1>6, <1>7, <1>9, <1>11, <2>1 DEF CapacityList
<1>14. ASSUME RetentionAge > 0, NEW d \in Survivors \ sweep.stuck
       PROVE  stamp[d] >= sweep.cutoff
  <2>1. d \in ToSet(left) /\ left # <<>>
    BY <1>3 DEF ToSet
  <2>2. PICK first \in Dir : first = Head(left)
    BY <2>1
  <2>3. d = first \/ stamp[first] <= stamp[d]
    BY <1>3, <2>1, <2>2, HeadFirst
  <2>4. stamp[first] \in Nat /\ stamp[d] \in Nat /\ sweep.cutoff \in Nat
    BY <2>2 DEF DiskTypes, Survivors
  <2>5. ~(stamp[first] < sweep.cutoff)
    <3>1. sweep.left # <<>> /\ first = Head(sweep.left)
      BY <1>2, <2>1, <2>2
    <3> HIDE DEF RetentionTypes, SweepTypes, RetentionAssumption
    <3>2. ~(RetentionAge > 0 /\ sweep.left # <<>> /\ stamp[Head(sweep.left)] < sweep.cutoff)
      BY <1>1, ZenonT(30) DEF HeadTooOld
    <3> QED BY <1>14, <3>1, <3>2
  <2>6. PICK a \in Nat, b \in Nat, c \in Nat :
            a = stamp[first] /\ b = stamp[d] /\ c = sweep.cutoff
    BY <2>4, Zenon
  <2>7. (a = b \/ a <= b) /\ ~(a < c)
    BY <2>3, <2>5, <2>6, Zenon
  <2> HIDE DEF RetentionTypes, SweepTypes, RetentionAssumption
  <2>8. b >= c
    BY <2>7
  <2> QED BY <2>6, <2>8
<1>15. CutoffKept'
  BY <1>1, <1>9, <1>11, <1>14 DEF CutoffKept, SweepInv
<1>16. SweepMeetsPolicy'
  <2>1. MaxCapacity > 0 => pc # "done"
    BY <1>7
  <2> QED BY <1>1, <1>9, <1>11, <1>14, <2>1 DEF SweepMeetsPolicy, Survivors
<1> QED BY <1>10, <1>11, <1>12, <1>13, <1>15, <1>16 DEF SweepInv

(* A step of the capacity pass: the running total stays the size of what   *)
(* is left, stuck directories included.                                    *)
LEMMA CapacityStepKeeps ==
    ASSUME RetentionTypes, SweepInv, CapacityStep
    PROVE  SweepTypes' /\ SweepInv'
<1> USE DEF RetentionTypes, SweepTypes
<1>1. sweep.pc = "capacity" /\ sweep.left # <<>>
  BY DEF CapacityStep
<1>2. PICK left \in Seq(Dir) : left = sweep.left
  OBVIOUS
<1>3. PICK d, rest : d = Head(left) /\ rest = Tail(left)
  OBVIOUS
<1>4. /\ MaxCapacity > 0 /\ Ordered(left) /\ ToSet(left) \subseteq Survivors
      /\ Survivors \ ToSet(left) \subseteq sweep.stuck /\ sweep.total = Total(Survivors)
  BY <1>1, <1>2 DEF SweepInv, CapacityList
<1>5. /\ d \in Dir /\ rest \in Seq(Dir) /\ ToSet(left) = {d} \cup ToSet(rest)
      /\ d \notin ToSet(rest) /\ Ordered(rest)
  BY <1>1, <1>2, <1>3, <1>4, HeadFirst
<1>6. d \in Survivors /\ Survivors \subseteq Dir
  BY <1>4, <1>5 DEF Survivors
<1>7. CASE /\ DeleteDir(d)
           /\ sweep' = [sweep EXCEPT !.left = rest,
                                     !.total = IF @ > Bytes[d] THEN @ - Bytes[d] ELSE 0]
  <2>1. PICK total \in Nat : total = Total(Survivors \ {d})
    BY <1>6, BytesFinite
  <2>2. (IF sweep.total > Bytes[d] THEN sweep.total - Bytes[d] ELSE 0) = total
    <3>1. Bytes[d] \in Nat
      BY <1>5, RetentionAssumption DEF RetentionAssumption
    <3>2. Total(Survivors) = Total(Survivors \ {d}) + Bytes[d]
      BY <1>6, TotalWithout
    <3> QED BY <1>4, <2>1, <3>1, <3>2
  <2>3. sweep' = [sweep EXCEPT !.left = rest, !.total = total]
    BY <1>7, <2>2
  <2>4. /\ sweep'.pc = "capacity" /\ sweep'.found = sweep.found /\ sweep'.left = rest
        /\ sweep'.unseen = sweep.unseen /\ sweep'.looked = sweep.looked
        /\ sweep'.stuck = sweep.stuck /\ sweep'.cutoff = sweep.cutoff /\ sweep'.total = total
    BY <1>1, <2>3
  <2>5. FoundStaysFinished' /\ Survivors' = Survivors \ {d} /\ UNCHANGED <<now, stamp>>
    BY <1>1, <1>6, <1>7, <2>4, FoundDeleted
  <2>6. SweepTypes'
    BY <1>1, <1>5, <2>3
  <2>7. CapacityList'
    <3>1. Ordered(sweep.left)'
      BY <1>5, <2>4, <2>5 DEF Ordered
    <3>2. ToSet(rest) \subseteq Survivors \ {d}
      BY <1>4, <1>5
    <3> QED BY <1>4, <1>5, <2>1, <2>4, <2>5, <3>1, <3>2 DEF CapacityList
  <2>8. CollectList' /\ AgeList' /\ CutoffKept' /\ SweepMeetsPolicy'
    BY <1>1, <2>4, <2>5 DEF CollectList, AgeList, CutoffKept, SweepMeetsPolicy, SweepInv
  <2> QED BY <2>5, <2>6, <2>7, <2>8 DEF SweepInv
<1>8. CASE /\ sweep' = [sweep EXCEPT !.left = rest, !.stuck = @ \cup {d}]
           /\ UNCHANGED <<now, diskVars, last, refused>>
  <2>1. /\ sweep'.pc = "capacity" /\ sweep'.found = sweep.found /\ sweep'.left = rest
        /\ sweep'.unseen = sweep.unseen /\ sweep'.looked = sweep.looked
        /\ sweep'.stuck = sweep.stuck \cup {d} /\ sweep'.cutoff = sweep.cutoff
        /\ sweep'.total = sweep.total
    BY <1>1, <1>8
  <2>2. FoundStaysFinished' /\ Survivors' = Survivors /\ UNCHANGED <<now, stamp>>
    BY <1>1, <1>8, <2>1, FoundKept DEF diskVars
  <2>3. SweepTypes'
    BY <1>1, <1>5, <1>8
  <2>4. CapacityList'
    <3>1. Ordered(sweep.left)'
      BY <1>5, <2>1, <2>2 DEF Ordered
    <3> QED BY <1>4, <1>5, <2>1, <2>2, <3>1 DEF CapacityList
  <2>5. CollectList' /\ AgeList' /\ CutoffKept' /\ SweepMeetsPolicy'
    BY <1>1, <2>1, <2>2 DEF CollectList, AgeList, CutoffKept, SweepMeetsPolicy, SweepInv
  <2> QED BY <2>2, <2>3, <2>4, <2>5 DEF SweepInv
<1> QED BY <1>2, <1>3, <1>7, <1>8 DEF CapacityStep

(* The end of the capacity pass: what is left fits, or nothing more can be *)
(* deleted.                                                                *)
LEMMA CapacityDoneKeeps ==
    ASSUME RetentionTypes, SweepInv, CapacityDone
    PROVE  SweepTypes' /\ SweepInv'
<1> USE RetentionAssumption DEF RetentionTypes, SweepTypes, RetentionAssumption
<1>1. /\ sweep.pc = "capacity" /\ (sweep.left = <<>> \/ ~(sweep.total > MaxCapacity))
      /\ sweep' = [sweep EXCEPT !.pc = "done"] /\ UNCHANGED <<now, diskVars>>
      /\ UNCHANGED <<present, stamp, marks>>
  BY DEF CapacityDone, OverCapacity, diskVars
<1>2. /\ sweep'.pc = "done" /\ sweep'.found = sweep.found /\ sweep'.stuck = sweep.stuck
      /\ sweep'.unseen = sweep.unseen /\ sweep'.looked = sweep.looked
      /\ sweep'.cutoff = sweep.cutoff
  BY <1>1
<1>3. SweepTypes'
  BY <1>1
<1>4. FoundStaysFinished' /\ Survivors' = Survivors
  BY <1>1, <1>2, FoundKept
<1>5. CollectList' /\ AgeList' /\ CapacityList' /\ CutoffKept'
  BY <1>1, <1>2, <1>4 DEF CollectList, AgeList, CapacityList, CutoffKept, SweepInv
<1>6. Total(Survivors) <= MaxCapacity \/ Survivors \subseteq sweep.stuck
  <2>1. CASE sweep.left = <<>>
    BY <1>1, <2>1 DEF SweepInv, CapacityList, ToSet
  <2>2. CASE ~(sweep.total > MaxCapacity)
    BY <1>1, <2>2 DEF SweepInv, CapacityList
  <2> QED BY <1>1, <2>1, <2>2
<1>7. SweepMeetsPolicy'
  BY <1>1, <1>2, <1>4, <1>6 DEF SweepMeetsPolicy, Survivors, SweepInv, CutoffKept
<1> QED BY <1>3, <1>4, <1>5, <1>7 DEF SweepInv

(* A sweep that is over, or one that has no policy to enforce, has found   *)
(* nothing.                                                                *)
LEMMA NothingFound ==
    ASSUME RetentionTypes, SweepInv, UNCHANGED <<now, diskVars>>,
           \/ sweep' = Idle
           \/ ~PolicyEnabled /\ sweep' = [Idle EXCEPT !.pc = "done", !.write = TRUE]
    PROVE  SweepTypes' /\ SweepInv'
<1> USE RetentionAssumption DEF RetentionTypes, RetentionAssumption
<1>1. PICK pc \in {"idle", "done"}, write \in BOOLEAN :
          /\ sweep' = [pc |-> pc, unseen |-> {}, looked |-> {}, found |-> {}, left |-> <<>>,
                       kept |-> <<>>, total |-> 0, stuck |-> {}, cutoff |-> 0,
                       write |-> write]
          /\ pc = "idle" => write = FALSE
          /\ pc = "done" => ~PolicyEnabled
  <2>1. CASE sweep' = Idle
    <3>1. "idle" \in {"idle", "done"} /\ FALSE \in BOOLEAN /\ "idle" # "done"
      OBVIOUS
    <3> QED BY <2>1, <3>1 DEF Idle
  <2>2. CASE ~PolicyEnabled /\ sweep' = [Idle EXCEPT !.pc = "done", !.write = TRUE]
    <3>1. "done" \in {"idle", "done"} /\ TRUE \in BOOLEAN /\ "idle" # "done"
      OBVIOUS
    <3>2. sweep' = [pc |-> "done", unseen |-> {}, looked |-> {}, found |-> {}, left |-> <<>>,
                    kept |-> <<>>, total |-> 0, stuck |-> {}, cutoff |-> 0, write |-> TRUE]
      BY <2>2 DEF Idle
    <3> QED BY <2>2, <3>1, <3>2
  <2> QED BY <2>1, <2>2
<1>2. SweepTypes'
  <2>1. <<>> \in Seq(Dir) /\ 0 \in Nat /\ {} \in SUBSET Dir
    OBVIOUS
  <2>2. pc = "idle" => sweep' = Idle
    BY <1>1 DEF Idle
  <2> QED BY <1>1, <2>1, <2>2 DEF SweepTypes
<1>3. FoundStaysFinished' /\ Survivors' = {}
  BY <1>1 DEF SweepInv, FoundStaysFinished, Survivors, diskVars
<1>4. CollectList' /\ AgeList' /\ CapacityList' /\ CutoffKept' /\ SweepMeetsPolicy'
  BY <1>1, <1>3 DEF CollectList, AgeList, CapacityList, CutoffKept, SweepMeetsPolicy, PolicyEnabled
<1> QED BY <1>2, <1>3, <1>4 DEF SweepInv

(***************************************************************************)
(* The theorems                                                            *)
(***************************************************************************)

(* Every step keeps the types of the clock and of the disk.                *)
LEMMA DiskStep ==
    ASSUME RetentionTypes, SweepInv, Next
    PROVE  DiskTypes'
<1> USE RetentionAssumption DEF RetentionTypes, DiskTypes, RetentionAssumption, diskVars, MarkKinds
<1>1. CASE OtherActor
  BY <1>1 DEF OtherActor, Create, Lease, WriteUploaded, Unlease, Close, SetMarks, Tick
<1>2. CASE StartSweep
  BY <1>2 DEF StartSweep
<1>3. CASE PrepareForWrite
  BY <1>3 DEF PrepareForWrite
<1>4. CASE AgeStep
  BY <1>4 DEF AgeStep, DeleteDir
<1>5. CASE AgeDone
  BY <1>5 DEF AgeDone
<1>6. CASE CapacityStep
  BY <1>6 DEF CapacityStep, DeleteDir
<1>7. CASE CapacityDone \/ EndSweep
  BY <1>7 DEF CapacityDone, EndSweep
<1>8. CASE EndCollect \/ \E d \in Dir : Examine(d) \/ Collect(d)
  BY <1>8 DEF EndCollect, Examine, Collect
<1> QED BY <1>1, <1>2, <1>3, <1>4, <1>5, <1>6, <1>7, <1>8 DEF Next, Sweep, OtherActor

(* In every state of every behaviour, whatever the sizes, the limits and   *)
(* the other threads' steps between two looks at the markers and between   *)
(* two deletions: what the sweep found is closed, and delivered or failed  *)
(* when uploads are enabled, until it is deleted, its list is what is      *)
(* left, in order, its total is the size of what is left, and a sweep that *)
(* ends meets the policy.                                                  *)
THEOREM SweepSafe == Spec => [](RetentionTypes /\ SweepInv)
<1>1. Init => RetentionTypes /\ SweepInv
  <2> SUFFICES ASSUME Init PROVE RetentionTypes /\ SweepInv
    OBVIOUS
  <2>1. DiskTypes
    BY RetentionAssumption DEF Init, DiskTypes, RetentionAssumption
  <2>2. /\ sweep = Idle /\ sweep.pc = "idle" /\ sweep.found = {} /\ sweep.cutoff = 0
        /\ present = {}
    BY DEF Init, Idle
  <2>3. SweepTypes
    BY <2>2 DEF SweepTypes, Idle
  <2>4. SweepInv
    BY <2>2 DEF Idle, SweepInv, FoundStaysFinished, Survivors, CollectList, AgeList, CapacityList,
                CutoffKept, SweepMeetsPolicy
  <2> QED BY <2>1, <2>3, <2>4 DEF RetentionTypes
<1>2. RetentionTypes /\ SweepInv /\ [Next]_vars => RetentionTypes' /\ SweepInv'
  <2> SUFFICES ASSUME RetentionTypes, SweepInv, [Next]_vars PROVE RetentionTypes' /\ SweepInv'
    OBVIOUS
  <2>1. CASE Next
    <3>1. SweepTypes' /\ SweepInv'
      <4>1. CASE OtherActor
        <5>1. sweep' = sweep
          BY <4>1, OthersLeaveFoundAlone
        <5>2. SweepTypes'
          BY <5>1 DEF RetentionTypes, SweepTypes, Idle
        <5> QED BY <4>1, <5>2, OthersKeepSweepInv
      <4>2. CASE StartSweep
        <5>1. FALSE \in BOOLEAN
          OBVIOUS
        <5> QED BY <4>2, <5>1, BeginSweep DEF StartSweep
      <4>3. CASE PrepareForWrite
        <5>1. TRUE \in BOOLEAN
          OBVIOUS
        <5>2. CASE PolicyEnabled
          BY <4>3, <5>1, <5>2, BeginSweep DEF PrepareForWrite
        <5>3. CASE ~PolicyEnabled
          BY <4>3, <5>3, NothingFound DEF PrepareForWrite
        <5> QED BY <5>2, <5>3
      <4>4. CASE AgeStep
        BY <4>4, AgeStepKeeps
      <4>5. CASE AgeDone
        BY <4>5, AgeDoneKeeps
      <4>6. CASE CapacityStep
        BY <4>6, CapacityStepKeeps
      <4>7. CASE CapacityDone
        BY <4>7, CapacityDoneKeeps
      <4>8. CASE EndSweep
        BY <4>8, NothingFound DEF EndSweep
      <4>9. CASE EndCollect
        BY <4>9, EndCollectKeeps
      <4>10. CASE \E d \in Dir : Examine(d) \/ Collect(d)
        BY <4>10, ExamineKeeps, CollectKeeps
      <4> QED BY <2>1, <4>1, <4>2, <4>3, <4>4, <4>5, <4>6, <4>7, <4>8, <4>9, <4>10
              DEF Next, Sweep, OtherActor
    <3> QED BY <2>1, <3>1, DiskStep DEF RetentionTypes
  <2>2. CASE UNCHANGED vars
    <3>1. UNCHANGED <<now, present, stamp, marks, last, sweep>>
      BY <2>2 DEF vars, diskVars
    <3>2. RetentionTypes'
      BY <3>1 DEF RetentionTypes, DiskTypes, SweepTypes, Idle
    <3>3. /\ FoundStaysFinished' /\ CollectList' /\ AgeList' /\ CapacityList' /\ CutoffKept'
          /\ SweepMeetsPolicy'
      BY <3>1 DEF SweepInv, FoundStaysFinished, CollectList, AgeList, CapacityList, CutoffKept,
                  SweepMeetsPolicy, Survivors, Ordered, Finished, MayBeDeleted
    <3> QED BY <3>2, <3>3 DEF SweepInv
  <2> QED BY <2>1, <2>2
<1> QED BY <1>1, <1>2, PTL DEF Spec

(* The clock, the disk and the state of a sweep keep their types.          *)
THEOREM RetentionTypeOK == Spec => []TypeOK
<1>1. RetentionTypes => TypeOK
  BY DEF RetentionTypes, DiskTypes, SweepTypes, TypeOK
<1> QED BY <1>1, SweepSafe, PTL

(* A sweep that ends has enforced both limits on what it found, unless     *)
(* remove_all failed.                                                      *)
THEOREM PolicyIsMet == Spec => []SweepMeetsPolicy
<1>1. SweepInv => SweepMeetsPolicy
  BY DEF SweepInv
<1> QED BY <1>1, SweepSafe, PTL

(* A directory disappears only in a step of one of the sweep's passes, as  *)
(* the head of its list.                                                   *)
LEMMA WhoDeletes ==
    ASSUME RetentionTypes, SweepInv, [Next]_vars, NEW d \in present \ present'
    PROVE  /\ sweep.left # <<>> /\ d = Head(sweep.left) /\ d \in Survivors
           /\ \/ sweep.pc = "age" /\ HeadTooOld
              \/ sweep.pc = "capacity" /\ OverCapacity
<1>1. \/ AgeStep /\ DeleteDir(Head(sweep.left))
      \/ CapacityStep /\ DeleteDir(Head(sweep.left))
  BY DEF Next, Sweep, Create, Lease, WriteUploaded, Unlease, Close, SetMarks, Tick, StartSweep,
         PrepareForWrite, Examine, Collect, EndCollect, AgeStep, AgeDone, CapacityStep, CapacityDone, EndSweep, vars, diskVars
<1>2. d = Head(sweep.left)
  BY <1>1 DEF DeleteDir
<1>3. CASE AgeStep
  <2>1. sweep.pc = "age" /\ HeadTooOld /\ sweep.left # <<>>
    BY <1>3 DEF AgeStep, HeadTooOld
  <2>2. d \in ToSet(sweep.left)
    BY <1>2, <2>1, HeadFirst DEF SweepInv, AgeList, RetentionTypes, SweepTypes
  <2> QED BY <1>2, <2>1, <2>2 DEF SweepInv, AgeList
<1>4. CASE CapacityStep
  <2>1. sweep.pc = "capacity" /\ OverCapacity /\ sweep.left # <<>>
    BY <1>4 DEF CapacityStep
  <2>2. d \in ToSet(sweep.left)
    BY <1>2, <2>1, HeadFirst DEF SweepInv, CapacityList, RetentionTypes, SweepTypes
  <2> QED BY <1>2, <2>1, <2>2 DEF SweepInv, CapacityList
<1> QED BY <1>1, <1>3, <1>4

(* deleteDir is only called for a directory past the age limit, or while   *)
(* what may be deleted exceeds the capacity and everything older is gone   *)
(* or could not be deleted.                                                *)
THEOREM OldestGoFirst == Spec => DeletesOldestFirst
<1>1. ASSUME RetentionTypes, SweepInv, [Next]_vars, NEW d \in present \ present'
      PROVE  \/ RetentionAge > 0 /\ stamp[d] + RetentionAge < now
             \/ /\ Total(sweep.found \cap present) > MaxCapacity
                /\ \A e \in (sweep.found \cap present) \ sweep.stuck : stamp[e] >= stamp[d]
  <2>1. /\ sweep.left # <<>> /\ d = Head(sweep.left) /\ d \in Survivors
        /\ \/ sweep.pc = "age" /\ HeadTooOld
           \/ sweep.pc = "capacity" /\ OverCapacity
    BY <1>1, WhoDeletes
  <2>2. /\ \A e \in Survivors : stamp[e] \in Nat
        /\ sweep.cutoff \in Nat /\ now \in Nat /\ RetentionAge \in Nat
    BY <1>1, RetentionAssumption DEF RetentionTypes, DiskTypes, SweepTypes, Survivors,
                                     RetentionAssumption
  <2>3. CASE sweep.pc = "age" /\ HeadTooOld
    <3>1. RetentionAge > 0 /\ stamp[d] < sweep.cutoff
      BY <2>1, <2>3 DEF HeadTooOld
    <3>2. sweep.cutoff = 0 \/ sweep.cutoff + RetentionAge <= now
      BY <1>1 DEF SweepInv, CutoffKept
    <3> QED BY <2>1, <2>2, <3>1, <3>2
  <2>4. CASE sweep.pc = "capacity" /\ OverCapacity
    <3>1. Total(Survivors) > MaxCapacity
      BY <1>1, <2>4 DEF SweepInv, CapacityList, OverCapacity
    <3>2. ASSUME NEW e \in Survivors \ sweep.stuck PROVE stamp[e] >= stamp[d]
      <4>1. e \in ToSet(sweep.left) /\ Ordered(sweep.left) /\ sweep.left \in Seq(Dir)
        BY <1>1, <2>4 DEF SweepInv, CapacityList, RetentionTypes, SweepTypes
      <4>2. e = d \/ stamp[d] <= stamp[e]
        BY <2>1, <4>1, HeadFirst
      <4> QED BY <2>1, <2>2, <4>2
    <3> QED BY <3>1, <3>2 DEF Survivors
  <2> QED BY <2>1, <2>3, <2>4
<1>2. RetentionTypes /\ SweepInv /\ [Next]_vars
        => [\A d \in present \ present' :
               LET survivors == sweep.found \cap present
               IN \/ RetentionAge > 0 /\ stamp[d] + RetentionAge < now
                  \/ /\ Total(survivors) > MaxCapacity
                     /\ \A e \in survivors \ sweep.stuck : stamp[e] >= stamp[d]]_vars
  BY <1>1
<1> QED BY <1>2, SweepSafe, PTL DEF Spec, DeletesOldestFirst

(* Whatever the upload worker does between collectEventDirs' looks at the  *)
(* markers, and between them and the deletion, what is deleted is closed   *)
(* and, with uploads enabled, delivered or failed; if it is still leased,  *)
(* its upload is confirmed.                                                *)
THEOREM OnlyFinishedAreDeleted == Spec => DeletesOnlyFinished
<1>1. ASSUME RetentionTypes, SweepInv, [Next]_vars, NEW d \in present \ present'
      PROVE  /\ marks[d] \cap Finished # {} /\ "pending" \notin marks[d]
             /\ "uploading" \in marks[d] => "uploaded" \in marks[d]
  BY <1>1, WhoDeletes DEF SweepInv, FoundStaysFinished, MayBeDeleted
<1>2. RetentionTypes /\ SweepInv /\ [Next]_vars
        => [\A d \in present \ present' :
               /\ marks[d] \cap Finished # {} /\ "pending" \notin marks[d]
               /\ "uploading" \in marks[d] => "uploaded" \in marks[d]]_vars
  BY <1>1
<1> QED BY <1>2, SweepSafe, PTL DEF Spec, DeletesOnlyFinished
=============================================================================
