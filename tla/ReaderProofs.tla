---------------------------- MODULE ReaderProofs ----------------------------
(***************************************************************************)
(* Proofs about RecordReader: for every event, every option of its jobs,   *)
(* any number of failed writes and of accidents, and a reader started at   *)
(* any moment.                                                             *)
(***************************************************************************)
EXTENDS RecordReader, FiniteSetTheorems, WellFoundedInduction, TLAPS

(***************************************************************************)
(* The directory.                                                          *)
(***************************************************************************)

FileName == [sensor : {"camera", "lidar"}, stamp : Nat, dup : Nat, kind : {"bin", "zst", "copy"}]
Content == [frame : Frame, whole : BOOLEAN]
Row == [sensor : {"camera", "lidar"}, stamp : Nat, torn : BOOLEAN, file : FileName]

(* The files of a directory: finitely many, each with its content.         *)
FilesOk(fs) ==
    /\ fs \in [DOMAIN fs -> Content]
    /\ DOMAIN fs \subseteq FileName
    /\ IsFiniteSet(DOMAIN fs)

(* Every row names a file after its own sensor and stamp, and no other row *)
(* names it.                                                               *)
RowsOk(rs) ==
    /\ rs \in Seq(Row)
    /\ \A i \in DOMAIN rs : rs[i].file.sensor = rs[i].sensor /\ rs[i].file.stamp = rs[i].stamp
    /\ \A i, j \in DOMAIN rs : rs[i].file = rs[j].file => i = j

(* The row stands for a frame handed over: its file holds that frame.      *)
RowHolds(r, fs, f) ==
    /\ ~r.torn /\ r.file \in DOMAIN fs /\ r.file.kind # "copy" /\ fs[r.file] = Holding(f)
    /\ r.sensor = f.sensor /\ r.stamp = f.stamp

(* Every row stands for a frame handed over.                               *)
Faithful(fs, rs) == \A r \in ToSet(rs) : \E f \in handed : RowHolds(r, fs, f)

(* The frame has a row.                                                    *)
Stored(f, fs, rs) == \E r \in ToSet(rs) : RowHolds(r, fs, f)

(* A record with the fields of manifest.sha256.                            *)
ListingOk(s) ==
    /\ s = [there |-> s.there, files |-> s.files, rows |-> s.rows, pairs |-> s.pairs,
            garbled |-> s.garbled]
    /\ s.there \in BOOLEAN /\ s.garbled \in BOOLEAN

Typed ==
    /\ jobs \in Seq(Seq(Frame)) /\ option \in Options /\ handed \subseteq Frame
    /\ FilesOk(files) /\ RowsOk(rows) /\ pairs \in {"none", "whole", "damaged"}
    /\ ListingOk(sums) /\ ListingOk(seal)
    /\ outcome \in [started : BOOLEAN, failed : BOOLEAN, persisted : Nat,
                    state : {"pending", "complete", "failed"}]
    /\ faults \in 0..MaxFaults /\ damage \in 0..MaxDamage

(* The frame is in a job that is not done yet.                             *)
Coming(f, js) == \E i \in DOMAIN js : f \in ToSet(js[i])

(* While the recorder writes: nothing has befallen the directory, every    *)
(* row stands for a frame, and unless the event has failed every frame     *)
(* handed over is still to come or has its row.                            *)
Writing ==
    ~seal.there =>
        /\ damage = 0 /\ sums = NoSums /\ seal = NoSums
        /\ Faithful(files, rows)
        /\ outcome.state = "pending" /\ ~outcome.failed =>
               \A f \in handed : Coming(f, jobs) \/ Stored(f, files, rows)

(* When it has sealed it: manifest.sha256 was written over a directory     *)
(* that holds every frame, and the directory is still as it was unless an  *)
(* accident has befallen it.                                               *)
Sealed ==
    seal.there =>
        /\ ~seal.garbled
        /\ Faithful(seal.files, seal.rows)
        /\ \A f \in handed : Stored(f, seal.files, seal.rows)
        /\ damage = 0 => sums = seal /\ MatchesListing(seal)

FilesInv ==
    /\ Typed
    /\ \A f \in handed : f.sensor \in option.sensors
    /\ \A f \in Frame : Coming(f, jobs) /\ f.sensor \in option.sensors => f \in handed
    /\ outcome.state # "pending" \/ seal.there => jobs = <<>>
    /\ Writing /\ Sealed

(***************************************************************************)
(* The reader.                                                             *)
(***************************************************************************)

(* The reader started on a sealed directory, and nothing has befallen it   *)
(* since.                                                                  *)
Quiet == start.sealed /\ start.damage = damage

(* What manifest.sha256 says is what is there.                             *)
Agrees == sums.there /\ ~sums.garbled /\ MatchesListing(sums)

StartOk ==
    /\ start \in [sealed : BOOLEAN, data : BOOLEAN, sums : BOOLEAN, damage : Nat]
    /\ start.damage <= damage
    /\ start.sealed => seal.there
    /\ Quiet => (start.data <=> ~MatchesListing(seal)) /\ (start.sums <=> sums # seal)

(* The fields of the reader.                                               *)
Shaped(r) ==
    r = [at |-> r.at, opt |-> r.opt, listed |-> r.listed, bad |-> r.bad, exit |-> r.exit,
         out |-> r.out, unwritten |-> r.unwritten, verified |-> r.verified]

ReaderOk ==
    /\ Shaped(reader)
    /\ reader.at \in {"idle", "export", "sums", "compare", "entries", "done"}
    /\ reader.opt \in Commands \union {NoCommand}
    /\ reader.bad \in BOOLEAN /\ reader.verified \in BOOLEAN
    /\ reader.exit \in 0..2
    /\ reader.exit = 1 => reader.at = "done"
    /\ reader.at \in {"sums", "compare", "entries"} => reader.opt.verify

(* What verify has found out by each of its steps.                         *)
Verifying ==
    /\ reader.at = "compare" =>
           /\ ~reader.bad => reader.listed.there /\ seal.there
           /\ Quiet => /\ reader.listed = sums
                       /\ reader.bad <=> ~sums.there \/ sums.garbled
    /\ reader.at = "entries" =>
           /\ ~reader.bad => seal.there
           /\ Quiet => (reader.bad <=> ~Agrees)
    /\ Verified /\ reader.verified =>
           /\ seal.there
           /\ Quiet => Agrees

ReaderInv == StartOk /\ ReaderOk /\ Verifying /\ WrittenReadsBack /\ ExportCoversStamps

Inv == FilesInv /\ ReaderInv
-----------------------------------------------------------------------------
(***************************************************************************)
(* Operators of the model.                                                 *)
(***************************************************************************)

(* A set of naturals that is not empty has a least element.                *)
LEMMA LeastNumber ==
    ASSUME NEW T, T \subseteq Nat, T # {}
    PROVE  \E n \in T : \A m \in T : n <= m
<1> DEFINE R == OpToRel(<, Nat)
<1>1. IsWellFoundedOn(R, Nat)
    BY NatLessThanWellFounded
<1>2. \A x, y \in Nat : x < y => <<x, y>> \in R
    BY DEF OpToRel
<1> HIDE DEF R
<1>3. PICK n \in T : \A m \in T : ~(<<m, n>> \in R)
    BY <1>1, WFMin
<1>4. ASSUME NEW m \in T PROVE n <= m
  <2>1. m \in Nat /\ n \in Nat
      BY <1>3
  <2>2. ~(m < n)
      BY <1>2, <1>3, <2>1
  <2> QED BY <2>1, <2>2
<1> QED BY <1>3, <1>4

(* The fields of a file name.                                              *)
LEMMA NameFields ==
    ASSUME NEW f, NEW d, NEW k
    PROVE  /\ Name(f, d, k).sensor = f.sensor /\ Name(f, d, k).stamp = f.stamp
           /\ Name(f, d, k).dup = d /\ Name(f, d, k).kind = k
BY DEF Name

(* The search for a free name ends: one of the suffixes up to the number   *)
(* of files is free, and the first free one names no .bin and no .bin.zst  *)
(* that is there.                                                          *)
LEMMA FreshNameFree ==
    ASSUME FilesOk(files), NEW f \in Frame
    PROVE  /\ FreshName(f) \in Nat
           /\ \A k \in {"bin", "zst"} : Name(f, FreshName(f), k) \notin DOMAIN files
<1> DEFINE D == DOMAIN files
           c == Cardinality(D)
           Free(d) == \A k \in {"bin", "zst"} : Name(f, d, k) \notin D
           S == {d \in 0..c : Free(d)}
<1>1. IsFiniteSet(D) /\ c \in Nat
    BY FS_CardinalityType DEF FilesOk
<1>2. S # {}
  <2>1. SUFFICES ASSUME S = {} PROVE FALSE
      OBVIOUS
  <2> DEFINE g == [d \in 0..c |-> IF Name(f, d, "bin") \in D THEN Name(f, d, "bin")
                                  ELSE Name(f, d, "zst")]
  <2>2. \A d \in 0..c : ~Free(d)
      BY <2>1
  <2>3. g \in [0..c -> D]
      BY <2>2
  <2>4. \A d \in 0..c : g[d].dup = d
      BY NameFields
  <2> HIDE DEF g
  <2>5. IsFiniteSet(0..c) /\ Cardinality(0..c) = c + 1
    <3>1. 0 \in Int /\ c \in Int /\ ~(0 > c) /\ c - 0 + 1 = c + 1
        BY <1>1
    <3> HIDE DEF c
    <3> QED BY <3>1, FS_Interval
  <2>6. c < c + 1
      BY <1>1
  <2>7. PICK x, y \in 0..c : x # y /\ g[x] = g[y]
    <3> HIDE DEF D
    <3>1. Cardinality(D) < Cardinality(0..c)
        BY <2>5, <2>6
    <3> HIDE DEF c
    <3> QED BY <1>1, <2>3, <2>5, <3>1, FS_PigeonHole
  <2> QED BY <2>4, <2>7
<1>3. PICK d \in S : \A e \in S : d <= e
  <2>1. S \subseteq Nat
      BY <1>1
  <2> HIDE DEF S
  <2> QED BY <1>2, <2>1, LeastNumber
<1>4. \A e \in 0..(d - 1) : \E k \in {"bin", "zst"} : Name(f, e, k) \in DOMAIN files
  <2> SUFFICES ASSUME NEW e \in 0..(d - 1)
               PROVE  \E k \in {"bin", "zst"} : Name(f, e, k) \in DOMAIN files
      OBVIOUS
  <2>1. e \in 0..c /\ ~(d <= e)
      BY <1>1, <1>3
  <2>2. ~Free(e)
      BY <1>3, <2>1
  <2> QED BY <2>2
<1> DEFINE First(x) == /\ \A k \in {"bin", "zst"} : Name(f, x, k) \notin DOMAIN files
                       /\ \A e \in 0..(x - 1) : \E k \in {"bin", "zst"} : Name(f, e, k) \in DOMAIN files
<1>5. d \in 0..c /\ First(d)
    BY <1>3, <1>4
<1>6. FreshName(f) = CHOOSE x \in 0..c : First(x)
    BY DEF FreshName
<1> HIDE DEF First, c
<1>7. FreshName(f) \in 0..c /\ First(FreshName(f))
    BY <1>5, <1>6
<1> QED BY <1>1, <1>7 DEF First

(* A step costs a natural number of failed writes.                         *)
LEMMA CostTyped ==
    ASSUME NEW b, NEW n \in Nat, DOMAIN b = 1..n
    PROVE  Cost(b) \in Nat
<1> DEFINE F == {i \in DOMAIN b : b[i]}
<1>3. IsFiniteSet(1..n)
    BY FS_Interval
<1>4. F \in SUBSET (1..n)
    OBVIOUS
<1> HIDE DEF F
<1>5. IsFiniteSet(F)
    BY <1>3, <1>4, FS_Subset
<1>6. Cardinality(F) \in Nat
    BY <1>5, FS_CardinalityType
<1> QED BY <1>6 DEF Cost, F

(* The failures stay within their bound.                                   *)
LEMMA SpendTyped ==
    ASSUME NEW b, NEW n \in Nat, DOMAIN b = 1..n, faults \in 0..MaxFaults, Spend(b)
    PROVE  faults' \in 0..MaxFaults
<1>1. PICK c \in Nat : c = Cost(b)
    BY CostTyped
<1>2. faults + c <= MaxFaults /\ faults' = faults + c
    BY <1>1 DEF Spend
<1> QED BY <1>2, FilesAssumption

(* The same for a single write.                                            *)
LEMMA SpendOne ==
    ASSUME NEW b, faults \in 0..MaxFaults, Spend(<<b>>)
    PROVE  faults' \in 0..MaxFaults
<1>1. DOMAIN <<b>> = 1..1 /\ 1 \in Nat
    OBVIOUS
<1> QED BY <1>1, SpendTyped

(* A file more.                                                            *)
LEMMA WithFacts ==
    ASSUME NEW fs, FilesOk(fs), NEW n \in FileName, NEW f \in Frame
    PROVE  /\ FilesOk(With(fs, n, f))
           /\ DOMAIN With(fs, n, f) = DOMAIN fs \union {n}
           /\ With(fs, n, f)[n] = Holding(f)
           /\ \A m \in DOMAIN fs : m # n => With(fs, n, f)[m] = fs[m]
<1> DEFINE w == With(fs, n, f)
<1>1. DOMAIN w = DOMAIN fs \union {n}
    BY DEF With
<1>2. Holding(f) \in Content
    BY DEF Holding, Content
<1>3. w \in [DOMAIN w -> Content]
    BY <1>1, <1>2 DEF With, FilesOk
<1>4. IsFiniteSet(DOMAIN fs \union {n})
    BY FS_AddElement DEF FilesOk
<1>5. w[n] = Holding(f) /\ \A m \in DOMAIN fs : m # n => w[m] = fs[m]
    BY DEF With
<1> HIDE DEF w
<1>6. FilesOk(w)
    BY <1>1, <1>3, <1>4 DEF FilesOk
<1> QED BY <1>1, <1>5, <1>6 DEF w

(* The first job replaced by another.                                      *)
LEMMA NewHead ==
    ASSUME NEW J \in Seq(Seq(Frame)), J # <<>>, NEW h \in Seq(Frame)
    PROVE  /\ <<h>> \o Tail(J) \in Seq(Seq(Frame))
           /\ DOMAIN (<<h>> \o Tail(J)) = DOMAIN J
           /\ (<<h>> \o Tail(J))[1] = h
           /\ \A i \in DOMAIN J : i # 1 => (<<h>> \o Tail(J))[i] = J[i]
<1> DEFINE T == Tail(J)
<1>1. PICK n \in Nat : n = Len(J) /\ n > 0
    OBVIOUS
<1>2. T \in Seq(Seq(Frame)) /\ Len(T) = n - 1 /\ \A i \in 1..(n - 1) : T[i] = J[i + 1]
    BY <1>1
<1>3. DOMAIN J = 1..n
    BY <1>1
<1> HIDE DEF T
<1> DEFINE k == <<h>> \o T
<1>4. k \in Seq(Seq(Frame)) /\ Len(k) = n
    BY <1>1, <1>2
<1>5. k[1] = h
    BY <1>1, <1>2
<1>6. \A i \in 2..n : k[i] = T[i - 1]
    BY <1>1, <1>2
<1>7. \A i \in 2..n : T[i - 1] = J[i]
    BY <1>1, <1>2
<1>8. DOMAIN k = 1..n
    BY <1>1, <1>4
<1>9. \A i \in 1..n : i # 1 => i \in 2..n
    BY <1>1
<1> HIDE DEF k
<1> QED BY <1>3, <1>4, <1>5, <1>6, <1>7, <1>8, <1>9 DEF k, T

(* No frame comes anew when a part of the first job, or all of it, is done.*)
LEMMA NoneNew ==
    ASSUME NEW J \in Seq(Seq(Frame)), J # <<>>, NEW f
    PROVE  /\ Head(J) # <<>> /\ Coming(f, <<Tail(Head(J))>> \o Tail(J)) => Coming(f, J)
           /\ Coming(f, <<<<>>>> \o Tail(J)) => Coming(f, J)
           /\ Coming(f, Tail(J)) => Coming(f, J)
<1>1. PICK n \in Nat : n = Len(J) /\ n > 0 /\ DOMAIN J = 1..n
    OBVIOUS
<1>2. PICK g \in Seq(Frame) : g = Head(J) /\ g = J[1]
    OBVIOUS
<1>3. ASSUME NEW t \in Seq(Frame), ToSet(t) \subseteq ToSet(g), Coming(f, <<t>> \o Tail(J))
      PROVE  Coming(f, J)
  <2> DEFINE k == <<t>> \o Tail(J)
  <2>1. DOMAIN k = DOMAIN J /\ k[1] = t /\ \A i \in DOMAIN J : i # 1 => k[i] = J[i]
      BY <1>3, NewHead
  <2>2. PICK i \in DOMAIN k : f \in ToSet(k[i])
      BY <1>3 DEF Coming
  <2> HIDE DEF k
  <2>3. CASE i = 1
      BY <1>2, <1>3, <2>1, <2>2, <2>3 DEF Coming
  <2>4. CASE i # 1
      BY <2>1, <2>2, <2>4 DEF Coming
  <2> QED BY <2>3, <2>4
<1>4. ASSUME Head(J) # <<>>, Coming(f, <<Tail(Head(J))>> \o Tail(J)) PROVE Coming(f, J)
  <2>1. g # <<>>
      BY <1>2, <1>4
  <2>0. Tail(g) \in Seq(Frame)
      BY <2>1
  <2>2. PICK t \in Seq(Frame) : t = Tail(g)
      BY <2>0
  <2>3. DOMAIN t = 1..(Len(g) - 1) /\ \A m \in 1..(Len(g) - 1) : t[m] = g[m + 1]
      BY <2>1, <2>2
  <2>4. \A m \in 1..(Len(g) - 1) : m + 1 \in DOMAIN g
      OBVIOUS
  <2>5. ToSet(t) \subseteq ToSet(g)
      BY <2>3, <2>4 DEF ToSet
  <2>6. Coming(f, <<t>> \o Tail(J))
      BY <1>2, <1>4, <2>2
  <2> QED BY <1>3, <2>5, <2>6
<1>5. ASSUME Coming(f, <<<<>>>> \o Tail(J)) PROVE Coming(f, J)
  <2>1. <<>> \in Seq(Frame) /\ ToSet(<<>>) \subseteq ToSet(g)
      BY DEF ToSet
  <2> QED BY <1>3, <1>5, <2>1
<1>6. ASSUME Coming(f, Tail(J)) PROVE Coming(f, J)
  <2>1. DOMAIN Tail(J) = 1..(n - 1) /\ \A m \in 1..(n - 1) : Tail(J)[m] = J[m + 1]
      BY <1>1
  <2>2. PICK i \in 1..(n - 1) : f \in ToSet(Tail(J)[i])
      BY <1>6, <2>1 DEF Coming
  <2>3. i + 1 \in DOMAIN J /\ f \in ToSet(J[i + 1])
      BY <1>1, <2>1, <2>2
  <2> QED BY <2>3 DEF Coming
<1> QED BY <1>4, <1>5, <1>6

(* Past a record, and past an empty job, the others are still to come.     *)
LEMMA StillComing ==
    ASSUME NEW J \in Seq(Seq(Frame)), J # <<>>, NEW f, Coming(f, J)
    PROVE  /\ Head(J) # <<>> => f = Head(Head(J)) \/ Coming(f, <<Tail(Head(J))>> \o Tail(J))
           /\ Head(J) = <<>> => Coming(f, Tail(J))
<1>1. PICK i \in DOMAIN J : f \in ToSet(J[i])
    BY DEF Coming
<1>2. J[1] = Head(J) /\ Head(J) \in Seq(Frame) /\ 1 \in DOMAIN J
    OBVIOUS
<1>3. ASSUME Head(J) # <<>>, f # Head(Head(J)) PROVE Coming(f, <<Tail(Head(J))>> \o Tail(J))
  <2> DEFINE h == Tail(Head(J))
             k == <<h>> \o Tail(J)
  <2>1. h \in Seq(Frame)
      BY <1>2, <1>3
  <2>2. DOMAIN k = DOMAIN J /\ k[1] = h /\ \A j \in DOMAIN J : j # 1 => k[j] = J[j]
    <3> HIDE DEF h
    <3> QED BY <2>1, NewHead
  <2>0. SUFFICES Coming(f, k)
      OBVIOUS
  <2> HIDE DEF k
  <2>3. CASE i = 1
    <3>1. f \in ToSet(Head(J))
        BY <1>1, <1>2, <2>3
    <3>2. PICK g \in Seq(Frame) : g = Head(J)
        BY <1>2
    <3>3. PICK j \in 1..Len(g) : f = g[j]
        BY <3>1, <3>2 DEF ToSet
    <3>4. g # <<>> /\ f # g[1]
        BY <1>3, <3>2
    <3>5. j # 1
        BY <3>3, <3>4
    <3>6. j - 1 \in 1..(Len(g) - 1) /\ (j - 1) + 1 = j
        BY <3>3, <3>5
    <3>7. Len(Tail(g)) = Len(g) - 1 /\ DOMAIN Tail(g) = 1..(Len(g) - 1)
          /\ \A m \in 1..(Len(g) - 1) : Tail(g)[m] = g[m + 1]
        BY <3>4
    <3>8. Tail(g)[j - 1] = f /\ j - 1 \in DOMAIN Tail(g)
        BY <3>3, <3>6, <3>7
    <3>9. f \in ToSet(Tail(g))
        BY <3>8 DEF ToSet
    <3>10. f \in ToSet(k[1])
        BY <2>2, <3>2, <3>9
    <3> QED BY <1>2, <2>2, <3>10 DEF Coming
  <2>4. CASE i # 1
    <3> QED BY <1>1, <2>2, <2>4 DEF Coming
  <2> QED BY <2>3, <2>4
<1>4. ASSUME Head(J) = <<>> PROVE Coming(f, Tail(J))
  <2>1. i # 1
      BY <1>1, <1>2, <1>4 DEF ToSet
  <2>2. PICK n \in Nat : n = Len(J) /\ n > 0
      OBVIOUS
  <2>3. i \in 1..n /\ i - 1 \in 1..(n - 1) /\ (i - 1) + 1 = i
      BY <2>1, <2>2
  <2>4. DOMAIN Tail(J) = 1..(n - 1) /\ \A m \in 1..(n - 1) : Tail(J)[m] = J[m + 1]
      BY <2>2
  <2>5. i - 1 \in DOMAIN Tail(J) /\ Tail(J)[i - 1] = J[i]
      BY <2>3, <2>4
  <2> QED BY <1>1, <2>5 DEF Coming
<1> QED BY <1>3, <1>4

-----------------------------------------------------------------------------
(***************************************************************************)
(* The recorder.                                                           *)
(***************************************************************************)

(* Record files stay as they are; only converted copies may be replaced.   *)
Grown(fs, gs) ==
    /\ FilesOk(gs)
    /\ \A n \in DOMAIN fs : n.kind # "copy" => n \in DOMAIN gs /\ gs[n] = fs[n]

(* The files after each part of a round of the record loop.                *)
Zsted(f, dup, zst) == IF zst THEN With(files, Name(f, dup, "zst"), f) ELSE files
Rawed(f, dup, zst, raw) ==
    IF raw THEN With(Zsted(f, dup, zst), Name(f, dup, "bin"), f) ELSE Zsted(f, dup, zst)
Done(f, dup, zst, raw, copy) ==
    IF copy THEN With(Rawed(f, dup, zst, raw), Name(f, dup, "copy"), f)
    ELSE Rawed(f, dup, zst, raw)

(* The file that a row of the record names.                                *)
RecordName(f, dup, zst) == Name(f, dup, IF zst THEN "zst" ELSE "bin")

(* A round only adds record files, and the one that the row will name      *)
(* holds the frame.                                                        *)
LEMMA RoundFiles ==
    ASSUME FilesOk(files), NEW f \in Frame, NEW zst \in BOOLEAN, NEW raw \in BOOLEAN,
           NEW copy \in BOOLEAN
    PROVE  LET d == FreshName(f) IN
           /\ RecordName(f, d, zst) \in FileName
           /\ RecordName(f, d, zst) \notin DOMAIN files
           /\ Grown(files, Rawed(f, d, zst, raw))
           /\ Grown(files, Done(f, d, zst, raw, copy))
           /\ zst \/ raw => /\ RecordName(f, d, zst) \in DOMAIN Done(f, d, zst, raw, copy)
                            /\ Done(f, d, zst, raw, copy)[RecordName(f, d, zst)] = Holding(f)
<1>1. PICK d \in Nat : d = FreshName(f)
    BY FreshNameFree
<1>2. Name(f, d, "bin") \notin DOMAIN files /\ Name(f, d, "zst") \notin DOMAIN files
    BY <1>1, FreshNameFree
<1> DEFINE b == Name(f, d, "bin")
           z == Name(f, d, "zst")
           c == Name(f, d, "copy")
<1>3. /\ b \in FileName /\ z \in FileName /\ c \in FileName
      /\ b.kind = "bin" /\ z.kind = "zst" /\ c.kind = "copy"
    BY DEF Name, FileName, Frame
<1>4. b # z /\ b # c /\ z # c
    BY <1>3
<1>5. RecordName(f, d, zst) = IF zst THEN z ELSE b
    BY DEF RecordName
<1> HIDE DEF b, z, c
<1> DEFINE A == Zsted(f, d, zst)
           B == Rawed(f, d, zst, raw)
           C == Done(f, d, zst, raw, copy)
<1>6. A = (IF zst THEN With(files, z, f) ELSE files) /\ B = (IF raw THEN With(A, b, f) ELSE A)
      /\ C = IF copy THEN With(B, c, f) ELSE B
    BY DEF Zsted, Rawed, Done, b, z, c
<1> HIDE DEF A, B, C
<1>7. /\ FilesOk(A) /\ \A n \in DOMAIN files : n \in DOMAIN A /\ A[n] = files[n]
      /\ zst => z \in DOMAIN A /\ A[z] = Holding(f)
      /\ b \notin DOMAIN A
  <2>1. CASE zst
    <3>1. A = With(files, z, f)
        BY <1>6, <2>1
    <3>2. /\ FilesOk(A) /\ DOMAIN A = DOMAIN files \union {z} /\ A[z] = Holding(f)
          /\ \A m \in DOMAIN files : m # z => A[m] = files[m]
        BY <1>3, <3>1, WithFacts
    <3> QED BY <1>2, <1>4, <3>2 DEF b, z
  <2>2. CASE ~zst
      BY <1>2, <1>6, <2>2 DEF b, z
  <2> QED BY <2>1, <2>2
<1>8. /\ FilesOk(B) /\ \A n \in DOMAIN A : n \in DOMAIN B /\ B[n] = A[n]
      /\ raw => b \in DOMAIN B /\ B[b] = Holding(f)
  <2>1. CASE raw
    <3>1. B = With(A, b, f)
        BY <1>6, <2>1
    <3>0. FilesOk(A) /\ b \in FileName
        BY <1>3, <1>7
    <3>2. /\ FilesOk(B) /\ DOMAIN B = DOMAIN A \union {b} /\ B[b] = Holding(f)
          /\ \A m \in DOMAIN A : m # b => B[m] = A[m]
        BY <3>0, <3>1, WithFacts
    <3> QED BY <1>7, <3>2
  <2>2. CASE ~raw
      BY <1>6, <1>7, <2>2
  <2> QED BY <2>1, <2>2
<1>9. /\ FilesOk(C) /\ \A n \in DOMAIN B : n # c => n \in DOMAIN C /\ C[n] = B[n]
  <2>1. CASE copy
    <3>1. C = With(B, c, f)
        BY <1>6, <2>1
    <3>2. /\ FilesOk(C) /\ DOMAIN C = DOMAIN B \union {c}
          /\ \A m \in DOMAIN B : m # c => C[m] = B[m]
      <4>1. FilesOk(B) /\ c \in FileName
          BY <1>3, <1>8
      <4> QED BY <4>1, <3>1, WithFacts
    <3> QED BY <3>2
  <2>2. CASE ~copy
      BY <1>6, <1>8, <2>2
  <2> QED BY <2>1, <2>2
<1>10. Grown(files, B)
    BY <1>7, <1>8 DEF Grown
<1>11. Grown(files, C)
    BY <1>3, <1>7, <1>8, <1>9 DEF Grown
<1>12. zst \/ raw => /\ RecordName(f, d, zst) \in DOMAIN C
                     /\ C[RecordName(f, d, zst)] = Holding(f)
    BY <1>4, <1>5, <1>7, <1>8, <1>9
<1>13. RecordName(f, d, zst) \in FileName /\ RecordName(f, d, zst) \notin DOMAIN files
    BY <1>2, <1>3, <1>5 DEF b, z
<1> QED BY <1>1, <1>10, <1>11, <1>12, <1>13 DEF B, C

(* What a round does to the directory, to the job and to the event.        *)
WriteEffect(f) ==
    \/ f.sensor \notin option.sensors /\ SkipRecord /\ UNCHANGED <<files, rows, outcome>>
    \/ Grown(files, files') /\ (SkipRecord \/ DropJob) /\ RecordLost /\ UNCHANGED rows
    \/ /\ f.sensor \in option.sensors /\ Grown(files, files') /\ SkipRecord
       /\ outcome' = [outcome EXCEPT !.persisted = @ + 1]
       /\ \E r \in Row : /\ rows' = Append(rows, r) /\ RowHolds(r, files', f)
                         /\ r.file \notin DOMAIN files
                         /\ r.file.sensor = r.sensor /\ r.file.stamp = r.stamp

(* Each of the ways through a round has that effect.                       *)
LEMMA WriteCases ==
    ASSUME Typed, WriteRecord
    PROVE  /\ Head(jobs) \in Seq(Frame) /\ Head(Head(jobs)) \in Frame
           /\ WriteEffect(Head(Head(jobs)))
           /\ faults' \in 0..MaxFaults
<1>0. jobs # <<>> /\ Head(jobs) # <<>> /\ FilesOk(files) /\ jobs \in Seq(Seq(Frame))
      /\ option \in Options /\ faults \in 0..MaxFaults
    BY DEF WriteRecord, Typed
<1>1. Head(jobs) \in Seq(Frame)
    BY <1>0
<1> DEFINE f == Head(Head(jobs))
<1>2. f \in Frame
    BY <1>0, <1>1
<1>3. CASE f.sensor \notin option.sensors
  <2>1. SkipRecord /\ UNCHANGED <<files, rows, outcome, faults>>
      BY <1>2, <1>3 DEF WriteRecord
  <2> QED BY <1>0, <1>1, <1>2, <1>3, <2>1 DEF WriteEffect
<1>4. CASE f.sensor \in option.sensors
  <2> DEFINE dup == FreshName(f)
  <2>1. PICK noZst, noRaw, noRow \in BOOLEAN, copy \in Conversions(f) :
         LET zst   == option.compress /\ ~noZst
             raw   == ~zst \/ option.keepRaw
             zsted == IF zst THEN With(files, Name(f, dup, "zst"), f) ELSE files
             rawed == IF raw /\ ~noRaw THEN With(zsted, Name(f, dup, "bin"), f) ELSE zsted
             done  == IF copy = "copy" THEN With(rawed, Name(f, dup, "copy"), f) ELSE rawed
         IN /\ noZst => option.compress
            /\ Spend(<<noZst, noRaw, noRow>>)
            /\ \/ /\ raw /\ noRaw /\ ~noRow /\ copy = "none"
                  /\ files' = rawed /\ SkipRecord /\ RecordLost /\ UNCHANGED rows
               \/ /\ ~noRaw /\ ~noRow /\ copy = "throw"
                  /\ files' = rawed /\ DropJob /\ RecordLost /\ UNCHANGED rows
               \/ /\ ~noRaw /\ noRow /\ copy # "throw"
                  /\ files' = done /\ DropJob /\ RecordLost /\ UNCHANGED rows
               \/ /\ ~noRaw /\ ~noRow /\ copy # "throw"
                  /\ files' = done /\ SkipRecord
                  /\ rows' = Append(rows,
                        [sensor |-> f.sensor, stamp |-> f.stamp, torn |-> FALSE,
                         file |-> Name(f, dup, IF zst THEN "zst" ELSE "bin")])
                  /\ outcome' = [outcome EXCEPT !.persisted = @ + 1]
      BY <1>4, ZenonT(30) DEF WriteRecord
  <2> HIDE DEF f
  <2> DEFINE zst == option.compress /\ ~noZst
             raw == (~zst \/ option.keepRaw) /\ ~noRaw
             rawed == Rawed(f, dup, zst, raw)
             done == Done(f, dup, zst, raw, copy = "copy")
             row == [sensor |-> f.sensor, stamp |-> f.stamp, torn |-> FALSE,
                     file |-> RecordName(f, dup, zst)]
  <2>2. /\ Spend(<<noZst, noRaw, noRow>>)
        /\ \/ /\ files' \in {rawed, done} /\ (SkipRecord \/ DropJob) /\ RecordLost
              /\ UNCHANGED rows
           \/ /\ ~noRaw /\ files' = done /\ SkipRecord /\ rows' = Append(rows, row)
              /\ outcome' = [outcome EXCEPT !.persisted = @ + 1]
      BY <2>1 DEF Rawed, Done, Zsted, RecordName
  <2>3. zst \in BOOLEAN /\ raw \in BOOLEAN /\ (copy = "copy") \in BOOLEAN
      BY <1>0, FilesAssumption
  <2>4. faults' \in 0..MaxFaults
    <3>1. DOMAIN <<noZst, noRaw, noRow>> = 1..3 /\ 3 \in Nat
        OBVIOUS
    <3> QED BY <1>0, <2>2, <3>1, SpendTyped
  <2>5. ~noRaw => zst \/ raw
      OBVIOUS
  <2> HIDE DEF zst, raw
  <2>6. /\ RecordName(f, dup, zst) \in FileName
        /\ RecordName(f, dup, zst) \notin DOMAIN files
        /\ Grown(files, rawed) /\ Grown(files, done)
        /\ zst \/ raw => /\ RecordName(f, dup, zst) \in DOMAIN done
                         /\ done[RecordName(f, dup, zst)] = Holding(f)
      BY <1>0, <1>2, <2>3, RoundFiles
  <2>7. /\ RecordName(f, dup, zst).sensor = f.sensor /\ RecordName(f, dup, zst).stamp = f.stamp
        /\ RecordName(f, dup, zst).kind # "copy"
      BY NameFields DEF RecordName
  <2> HIDE DEF rawed, done, dup
  <2>8. /\ row.sensor = f.sensor /\ row.stamp = f.stamp /\ row.torn = FALSE
        /\ row.file = RecordName(f, dup, zst) /\ row \in Row
      BY <1>2, <2>6 DEF Row, Frame
  <2> HIDE DEF row
  <2>9. CASE /\ files' \in {rawed, done} /\ (SkipRecord \/ DropJob) /\ RecordLost
             /\ UNCHANGED rows
    <3>1. Grown(files, files')
        BY <2>6, <2>9
    <3>2. WriteEffect(f)
        BY <2>9, <3>1 DEF WriteEffect
    <3> QED BY <1>1, <1>2, <2>4, <3>2 DEF f
  <2>10. CASE /\ ~noRaw /\ files' = done /\ SkipRecord /\ rows' = Append(rows, row)
              /\ outcome' = [outcome EXCEPT !.persisted = @ + 1]
    <3>1. Grown(files, files')
        BY <2>6, <2>10
    <3>2. RowHolds(row, files', f)
        BY <2>5, <2>6, <2>7, <2>8, <2>10 DEF RowHolds
    <3>3. row.file \notin DOMAIN files /\ row.file.sensor = row.sensor /\ row.file.stamp = row.stamp
        BY <2>6, <2>7, <2>8
    <3>4. WriteEffect(f)
        BY <1>4, <2>8, <2>10, <3>1, <3>2, <3>3 DEF WriteEffect
    <3> QED BY <1>1, <1>2, <2>4, <3>4 DEF f
  <2> QED BY <2>2, <2>9, <2>10
<1> QED BY <1>3, <1>4

(* A row more, for a file that no row names.                               *)
LEMMA AppendRow ==
    ASSUME NEW rs, RowsOk(rs), NEW r \in Row, r.file.sensor = r.sensor, r.file.stamp = r.stamp,
           \A x \in ToSet(rs) : x.file # r.file
    PROVE  RowsOk(Append(rs, r)) /\ ToSet(Append(rs, r)) = ToSet(rs) \union {r}
<1> DEFINE a == Append(rs, r)
<1>1. rs \in Seq(Row)
    BY DEF RowsOk
<1>2. PICK n \in Nat : n = Len(rs) /\ DOMAIN rs = 1..n
    BY <1>1
<1>3. a \in Seq(Row) /\ DOMAIN a = 1..(n + 1) /\ a[n + 1] = r /\ \A i \in 1..n : a[i] = rs[i]
    BY <1>1, <1>2
<1> HIDE DEF a
<1>4. \A i \in 1..(n + 1) : i \in 1..n \/ i = n + 1
    BY <1>2
<1>5. \A i \in 1..n : i \in 1..(n + 1)
    BY <1>2
<1>6. n + 1 \in 1..(n + 1)
    BY <1>2
<1>7. ToSet(a) = ToSet(rs) \union {r}
  <2>1. ToSet(a) \subseteq ToSet(rs) \union {r}
      BY <1>2, <1>3, <1>4 DEF ToSet
  <2>2. ToSet(rs) \subseteq ToSet(a)
      BY <1>2, <1>3, <1>5 DEF ToSet
  <2>3. r \in ToSet(a)
      BY <1>3, <1>6 DEF ToSet
  <2> QED BY <2>1, <2>2, <2>3
<1>8. \A i \in 1..n : a[i].file.sensor = a[i].sensor /\ a[i].file.stamp = a[i].stamp
    BY <1>2, <1>3 DEF RowsOk
<1>9. \A i, j \in 1..n : a[i].file = a[j].file => i = j
    BY <1>2, <1>3 DEF RowsOk
<1>10. \A i \in 1..n : a[i].file # r.file
    BY <1>2, <1>3 DEF ToSet
<1>11. \A i \in DOMAIN a : a[i].file.sensor = a[i].sensor /\ a[i].file.stamp = a[i].stamp
    BY <1>3, <1>4, <1>8
<1>12. \A i, j \in DOMAIN a : a[i].file = a[j].file => i = j
    BY <1>3, <1>4, <1>9, <1>10
<1>13. RowsOk(a)
    BY <1>3, <1>11, <1>12 DEF RowsOk
<1> QED BY <1>7, <1>13 DEF a

(* What the recorder works on: a pending event.                            *)
LEMMA PendingFacts ==
    ASSUME FilesInv, jobs # <<>>
    PROVE  /\ outcome.state = "pending" /\ damage = 0 /\ sums = NoSums /\ seal = NoSums
           /\ Faithful(files, rows)
           /\ ~outcome.failed => \A f \in handed : Coming(f, jobs) \/ Stored(f, files, rows)
<1>1. outcome.state = "pending" /\ ~seal.there
    BY DEF FilesInv
<1> QED BY <1>1 DEF FilesInv, Writing

(* A round of the record loop.                                             *)
LEMMA WriteRecordKeeps ==
    ASSUME FilesInv, WriteRecord, UNCHANGED damage
    PROVE  FilesInv'
<1>1. /\ jobs # <<>> /\ Head(jobs) # <<>> /\ Typed
      /\ UNCHANGED <<option, pairs, sums, handed, seal>>
    BY DEF WriteRecord, FilesInv
<1>2. /\ outcome.state = "pending" /\ damage = 0 /\ sums = NoSums /\ seal = NoSums
      /\ Faithful(files, rows)
      /\ ~outcome.failed => \A f \in handed : Coming(f, jobs) \/ Stored(f, files, rows)
    BY <1>1, PendingFacts
<1> DEFINE h == Head(Head(jobs))
<1>3. Head(jobs) \in Seq(Frame) /\ h \in Frame /\ WriteEffect(h) /\ faults' \in 0..MaxFaults
    BY <1>1, WriteCases
<1>4. jobs \in Seq(Seq(Frame)) /\ FilesOk(files) /\ RowsOk(rows)
      /\ outcome \in [started : BOOLEAN, failed : BOOLEAN, persisted : Nat,
                      state : {"pending", "complete", "failed"}]
    BY <1>1 DEF Typed
<1>5. SkipRecord \/ DropJob
    BY <1>3 DEF WriteEffect
<1>6. jobs' \in Seq(Seq(Frame))
  <2>1. CASE SkipRecord
    <3>0. PICK g \in Seq(Frame) : g = Head(jobs) /\ g # <<>>
        BY <1>1, <1>3
    <3>1. Tail(g) \in Seq(Frame)
        BY <3>0
    <3>3. PICK t \in Seq(Frame) : t = Tail(g)
        BY <3>1
    <3>2. jobs' = <<t>> \o Tail(jobs)
        BY <2>1, <3>0, <3>3 DEF SkipRecord
    <3> QED BY <1>1, <1>4, <3>2, NewHead
  <2>2. CASE DropJob
    <3>1. <<>> \in Seq(Frame)
        OBVIOUS
    <3>2. jobs' = <<<<>>>> \o Tail(jobs)
        BY <2>2 DEF DropJob
    <3> QED BY <1>1, <1>4, <3>1, <3>2, NewHead
  <2> QED BY <1>5, <2>1, <2>2
<1>7. ASSUME SkipRecord, NEW f, Coming(f, jobs) PROVE f = h \/ Coming(f, jobs')
  <2>1. jobs' = <<Tail(Head(jobs))>> \o Tail(jobs)
      BY <1>7 DEF SkipRecord
  <2> QED BY <1>1, <1>4, <1>7, <2>1, StillComing
<1>8. ASSUME Grown(files, files'), NEW r, NEW f, RowHolds(r, files, f)
      PROVE  RowHolds(r, files', f)
    BY <1>8 DEF Grown, RowHolds
<1> HIDE DEF h
<1>9. /\ FilesOk(files') /\ RowsOk(rows') /\ Faithful(files, rows)'
      /\ outcome' \in [started : BOOLEAN, failed : BOOLEAN, persisted : Nat,
                       state : {"pending", "complete", "failed"}]
      /\ outcome'.state = "pending"
      /\ ~outcome'.failed => \A f \in handed : Coming(f, jobs') \/ Stored(f, files', rows')
  <2>1. CASE h.sensor \notin option.sensors /\ SkipRecord /\ UNCHANGED <<files, rows, outcome>>
    <3>1. h \notin handed
        BY <2>1 DEF FilesInv
    <3>2. Faithful(files, rows)'
        BY <1>1, <1>2, <2>1 DEF Faithful
    <3> QED BY <1>2, <1>4, <1>7, <2>1, <3>1, <3>2
  <2>2. CASE Grown(files, files') /\ (SkipRecord \/ DropJob) /\ RecordLost /\ UNCHANGED rows
    <3>1. Faithful(files, rows)'
        BY <1>1, <1>2, <1>8, <2>2 DEF Faithful
    <3>2. FilesOk(files')
        BY <2>2 DEF Grown
    <3>3. outcome' = [outcome EXCEPT !.failed = TRUE]
        BY <2>2 DEF RecordLost
    <3> QED BY <1>2, <1>4, <2>2, <3>1, <3>2, <3>3
  <2>3. CASE /\ h.sensor \in option.sensors /\ Grown(files, files') /\ SkipRecord
             /\ outcome' = [outcome EXCEPT !.persisted = @ + 1]
             /\ \E r \in Row : /\ rows' = Append(rows, r) /\ RowHolds(r, files', h)
                               /\ r.file \notin DOMAIN files
                               /\ r.file.sensor = r.sensor /\ r.file.stamp = r.stamp
    <3>1. PICK r \in Row : /\ rows' = Append(rows, r) /\ RowHolds(r, files', h)
                           /\ r.file \notin DOMAIN files
                           /\ r.file.sensor = r.sensor /\ r.file.stamp = r.stamp
        BY <2>3
    <3>2. \A x \in ToSet(rows) : x.file # r.file
        BY <1>2, <3>1 DEF Faithful, RowHolds
    <3>3. RowsOk(rows') /\ ToSet(rows') = ToSet(rows) \union {r}
        BY <1>4, <3>1, <3>2, AppendRow
    <3>4. \A x \in ToSet(rows) : \E f \in handed : RowHolds(x, files', f)
        BY <1>2, <1>8, <2>3 DEF Faithful
    <3>5. h \in handed
      <4>1. 1 \in DOMAIN jobs /\ jobs[1] = Head(jobs)
          BY <1>1, <1>4
      <4>2. PICK g \in Seq(Frame) : g = Head(jobs) /\ g # <<>>
          BY <1>1, <1>3
      <4>3. 1 \in DOMAIN g /\ h = g[1]
          BY <4>2 DEF h
      <4>4. h \in ToSet(jobs[1])
          BY <4>1, <4>2, <4>3 DEF ToSet
      <4> QED BY <1>3, <2>3, <4>1, <4>4 DEF FilesInv, Coming
    <3>6. Faithful(files, rows)'
        BY <1>1, <3>1, <3>3, <3>4, <3>5 DEF Faithful
    <3>7. \A f \in handed : Stored(f, files, rows) => Stored(f, files', rows')
        BY <1>8, <2>3, <3>3 DEF Stored
    <3>8. Stored(h, files', rows')
        BY <3>1, <3>3 DEF Stored
    <3>9. FilesOk(files')
        BY <2>3 DEF Grown
    <3>10. /\ outcome' \in [started : BOOLEAN, failed : BOOLEAN, persisted : Nat,
                           state : {"pending", "complete", "failed"}]
          /\ outcome'.state = outcome.state /\ outcome'.failed = outcome.failed
      <4>1. PICK p \in Nat : p = outcome.persisted + 1
          BY <1>4
      <4>2. outcome' = [outcome EXCEPT !.persisted = p]
          BY <2>3, <4>1
      <4> QED BY <1>4, <4>2
    <3>11. ~outcome.failed => \A f \in handed : Coming(f, jobs') \/ Stored(f, files', rows')
        BY <1>2, <1>7, <2>3, <3>7, <3>8
    <3> QED BY <1>2, <3>3, <3>6, <3>9, <3>10, <3>11
  <2> QED BY <1>3, <2>1, <2>2, <2>3 DEF WriteEffect
<1>10. Typed'
    BY <1>1, <1>3, <1>6, <1>9 DEF Typed
<1>11. Writing'
    BY <1>1, <1>2, <1>9 DEF Writing
<1>12. Sealed' /\ ~seal'.there
    BY <1>1, <1>2 DEF Sealed, NoSums
<1>13. \A f \in Frame : Coming(f, jobs') => Coming(f, jobs)
    BY <1>1, <1>4, <1>5, NoneNew DEF SkipRecord, DropJob
<1>14. \A f \in Frame : Coming(f, jobs') /\ f.sensor \in option.sensors => f \in handed
    BY <1>13 DEF FilesInv
<1>15. \A f \in handed : f.sensor \in option.sensors
    BY DEF FilesInv
<1> QED BY <1>1, <1>9, <1>10, <1>11, <1>12, <1>14, <1>15 DEF FilesInv

(* The head of a job.                                                      *)
LEMMA StartJobKeeps ==
    ASSUME FilesInv, StartJob, UNCHANGED damage
    PROVE  FilesInv'
<1>1. jobs # <<>> /\ Typed /\ UNCHANGED <<option, files, rows, sums, handed, seal>>
    BY DEF StartJob, FilesInv
<1>2. /\ outcome.state = "pending" /\ damage = 0 /\ sums = NoSums /\ seal = NoSums
      /\ Faithful(files, rows)
      /\ ~outcome.failed => \A f \in handed : Coming(f, jobs) \/ Stored(f, files, rows)
    BY <1>1, PendingFacts
<1>3. PICK step \in {"refused", "no pairs", "pairs", "pairs lost"} :
       /\ Spend(<<step \in {"refused", "pairs lost"}>>)
       /\ outcome' = [outcome EXCEPT !.started = TRUE,
                                     !.failed = @ \/ step \in {"refused", "pairs lost"}]
       /\ pairs' = IF step = "pairs" THEN "whole" ELSE pairs
       /\ jobs' = IF step = "refused" THEN <<<<>>>> \o Tail(jobs) ELSE jobs
    BY DEF StartJob
<1>4. jobs \in Seq(Seq(Frame))
      /\ outcome \in [started : BOOLEAN, failed : BOOLEAN, persisted : Nat,
                      state : {"pending", "complete", "failed"}]
      /\ faults \in 0..MaxFaults /\ pairs \in {"none", "whole", "damaged"}
    BY <1>1 DEF Typed
<1>5. faults' \in 0..MaxFaults
  <2> DEFINE b == step \in {"refused", "pairs lost"}
  <2>2. Spend(<<b>>)
      BY <1>3
  <2> HIDE DEF b
  <2> QED BY <1>4, <2>2, SpendOne
<1>6. jobs' \in Seq(Seq(Frame)) /\ \A f \in Frame : Coming(f, jobs') => Coming(f, jobs)
  <2>1. CASE step = "refused"
    <3>1. jobs' = <<<<>>>> \o Tail(jobs) /\ <<>> \in Seq(Frame)
        BY <1>3, <2>1
    <3> QED BY <1>1, <1>4, <3>1, NewHead, NoneNew
  <2>2. CASE step # "refused"
      BY <1>3, <1>4, <2>2
  <2> QED BY <2>1, <2>2
<1>7. /\ outcome' \in [started : BOOLEAN, failed : BOOLEAN, persisted : Nat,
                       state : {"pending", "complete", "failed"}]
      /\ outcome'.state = "pending"
      /\ ~outcome'.failed => ~outcome.failed /\ step # "refused"
    BY <1>2, <1>3, <1>4
<1>8. ~outcome'.failed => \A f \in handed : Coming(f, jobs') \/ Stored(f, files, rows)
    BY <1>2, <1>3, <1>7
<1>9. pairs' \in {"none", "whole", "damaged"}
    BY <1>3, <1>4
<1>10. Typed'
    BY <1>1, <1>5, <1>6, <1>7, <1>9 DEF Typed
<1>11. Faithful(files, rows)'
    BY <1>1, <1>2 DEF Faithful
<1>12. Writing'
    BY <1>1, <1>2, <1>7, <1>8, <1>11 DEF Writing
<1>13. Sealed' /\ ~seal'.there
    BY <1>1, <1>2 DEF Sealed, NoSums
<1>14. \A f \in Frame : Coming(f, jobs') /\ f.sensor \in option.sensors => f \in handed
    BY <1>6 DEF FilesInv
<1>15. \A f \in handed : f.sensor \in option.sensors
    BY DEF FilesInv
<1> QED BY <1>1, <1>7, <1>10, <1>12, <1>13, <1>14, <1>15 DEF FilesInv

(* The end of a job: the last one seals a directory that holds every       *)
(* frame.                                                                  *)
LEMMA FinishJobKeeps ==
    ASSUME FilesInv, FinishJob, UNCHANGED damage
    PROVE  FilesInv'
<1>1. /\ jobs # <<>> /\ Head(jobs) = <<>> /\ Typed /\ UNCHANGED <<option, files, rows, pairs, handed>>
      /\ jobs' = Tail(jobs) /\ seal' = sums'
    BY DEF FinishJob, FilesInv
<1>2. /\ outcome.state = "pending" /\ damage = 0 /\ sums = NoSums /\ seal = NoSums
      /\ Faithful(files, rows)
      /\ ~outcome.failed => \A f \in handed : Coming(f, jobs) \/ Stored(f, files, rows)
    BY <1>1, PendingFacts
<1>3. PICK lost, unsealed \in BOOLEAN :
       LET last == Len(jobs) = 1
           ok   == ~outcome.failed /\ ~lost /\ (last => outcome.persisted > 0)
       IN  /\ Spend(<<lost, unsealed>>)
           /\ unsealed => last /\ ok
           /\ sums' = IF last /\ ok /\ ~unsealed THEN Listing ELSE sums
           /\ outcome' = [outcome EXCEPT !.started = FALSE, !.failed = ~ok \/ unsealed]
    BY DEF FinishJob
<1>4. jobs \in Seq(Seq(Frame))
      /\ outcome \in [started : BOOLEAN, failed : BOOLEAN, persisted : Nat,
                      state : {"pending", "complete", "failed"}]
      /\ faults \in 0..MaxFaults
    BY <1>1 DEF Typed
<1>5. faults' \in 0..MaxFaults
  <2>1. DOMAIN <<lost, unsealed>> = 1..2 /\ 2 \in Nat
      OBVIOUS
  <2>2. Spend(<<lost, unsealed>>)
      BY <1>3
  <2> QED BY <1>4, <2>1, <2>2, SpendTyped
<1>6. jobs' \in Seq(Seq(Frame)) /\ (Len(jobs) = 1 <=> jobs' = <<>>)
  <2>1. jobs' \in Seq(Seq(Frame)) /\ Len(jobs') = Len(jobs) - 1
      BY <1>1, <1>4
  <2>2. Len(jobs) = 1 <=> Len(jobs') = 0
      BY <2>1
  <2>3. Len(jobs') = 0 => jobs' = <<>>
      BY <2>1
  <2>4. jobs' = <<>> => Len(jobs') = 0
      OBVIOUS
  <2> QED BY <2>1, <2>2, <2>3, <2>4
<1>7. \A f \in Frame : Coming(f, jobs') => Coming(f, jobs)
    BY <1>1, <1>4, NoneNew
<1>8. \A f : Coming(f, jobs) => Coming(f, jobs')
    BY <1>1, <1>4, StillComing
<1>9. Faithful(files, rows)'
    BY <1>1, <1>2 DEF Faithful
<1>10. PICK b \in BOOLEAN :
          /\ outcome' = [outcome EXCEPT !.started = FALSE, !.failed = b]
          /\ ~b => ~outcome.failed
          /\ \/ sums' = Listing /\ jobs' = <<>> /\ ~b
             \/ sums' = sums /\ (jobs' = <<>> => b)
  <2> DEFINE ok == ~outcome.failed /\ ~lost /\ (Len(jobs) = 1 => outcome.persisted > 0)
  <2>1. PICK b \in BOOLEAN : b = (~ok \/ unsealed)
      OBVIOUS
  <2>2. outcome' = [outcome EXCEPT !.started = FALSE, !.failed = b] /\ (~b => ~outcome.failed)
      BY <1>3, <2>1
  <2>3. CASE Len(jobs) = 1 /\ ok /\ ~unsealed
      BY <1>3, <1>6, <2>1, <2>2, <2>3
  <2>4. CASE Len(jobs) = 1 /\ ~(ok /\ ~unsealed)
    <3>1. sums' = sums /\ b
        BY <1>3, <2>1, <2>4
    <3> QED BY <2>2, <3>1
  <2>5. CASE Len(jobs) # 1
    <3>1. sums' = sums
        BY <1>3, <2>5
    <3>2. jobs' # <<>>
        BY <1>6, <2>5
    <3> QED BY <2>2, <3>1, <3>2
  <2> QED BY <2>3, <2>4, <2>5
<1>11. ListingOk(sums) /\ ListingOk(Listing)
    BY <1>1 DEF Typed, ListingOk, Listing
<1>12. ListingOk(sums') /\ ListingOk(seal')
    BY <1>1, <1>10, <1>11
<1>13. /\ outcome' \in [started : BOOLEAN, failed : BOOLEAN, persisted : Nat,
                        state : {"pending", "complete", "failed"}]
       /\ outcome'.state = "pending" /\ outcome'.failed = b
    BY <1>2, <1>4, <1>10
<1>14. Typed'
    BY <1>1, <1>5, <1>6, <1>12, <1>13 DEF Typed
<1>15. Writing' /\ Sealed' /\ (seal'.there => jobs' = <<>>)
  <2>1. CASE sums' = Listing /\ jobs' = <<>> /\ ~b
    <3>1. \A f \in handed : ~Coming(f, jobs)
        BY <1>8, <2>1 DEF Coming
    <3>2. \A f \in handed : Stored(f, files, rows)
        BY <1>2, <1>10, <2>1, <3>1
    <3>3. /\ seal'.there /\ ~seal'.garbled /\ seal'.files = files /\ seal'.rows = rows
          /\ seal'.pairs = pairs
        BY <1>1, <2>1 DEF Listing
    <3>4. Faithful(seal.files, seal.rows)'
        BY <1>1, <1>2, <3>3 DEF Faithful
    <3>5. Sealed'
        BY <1>1, <3>2, <3>3, <3>4 DEF Sealed, MatchesListing
    <3>6. Writing'
        BY <3>3 DEF Writing
    <3> QED BY <2>1, <3>5, <3>6
  <2>2. CASE sums' = sums /\ (jobs' = <<>> => b)
    <3>1. ~seal'.there /\ seal' = NoSums /\ sums' = NoSums
        BY <1>1, <1>2, <2>2 DEF NoSums
    <3>2. ~b => \A f \in handed : Coming(f, jobs') \/ Stored(f, files, rows)
        BY <1>2, <1>8, <1>10
    <3>3. Writing'
        BY <1>1, <1>2, <1>9, <1>13, <3>1, <3>2 DEF Writing
    <3> QED BY <3>1, <3>3 DEF Sealed
  <2> QED BY <1>10, <2>1, <2>2
<1>16. \A f \in Frame : Coming(f, jobs') /\ f.sensor \in option.sensors => f \in handed
    BY <1>7 DEF FilesInv
<1>17. \A f \in handed : f.sensor \in option.sensors
    BY DEF FilesInv
<1> QED BY <1>1, <1>13, <1>14, <1>15, <1>16, <1>17 DEF FilesInv

(* The marker changes nothing of what is stored.                           *)
LEMMA MarkEventKeeps ==
    ASSUME FilesInv, MarkEvent, UNCHANGED damage
    PROVE  FilesInv'
<1>1. /\ UNCHANGED <<jobs, option, files, rows, pairs, sums, handed, seal>>
      /\ jobs = <<>> /\ outcome.state = "pending"
    BY DEF MarkEvent
<1>2. PICK unmarked \in BOOLEAN :
          /\ Spend(<<unmarked>>)
          /\ outcome' = [outcome EXCEPT !.state =
                             IF outcome.failed \/ unmarked THEN "failed" ELSE "complete"]
    BY DEF MarkEvent
<1>3. /\ outcome \in [started : BOOLEAN, failed : BOOLEAN, persisted : Nat,
                      state : {"pending", "complete", "failed"}]
      /\ faults \in 0..MaxFaults
    BY DEF FilesInv, Typed
<1>4. faults' \in 0..MaxFaults
    BY <1>2, <1>3, SpendOne
<1>5. /\ outcome' \in [started : BOOLEAN, failed : BOOLEAN, persisted : Nat,
                       state : {"pending", "complete", "failed"}]
      /\ outcome'.state # "pending"
    BY <1>2, <1>3
<1>6. Typed'
    BY <1>1, <1>4, <1>5 DEF FilesInv, Typed
<1>7. Writing'
    BY <1>1, <1>5 DEF FilesInv, Writing, Faithful, RowHolds
<1>8. Sealed'
    BY <1>1 DEF FilesInv, Sealed, Faithful, Stored, RowHolds, MatchesListing
<1> QED BY <1>1, <1>6, <1>7, <1>8 DEF FilesInv

(* Nothing of the directory changes.                                       *)
LEMMA FilesUnchanged ==
    ASSUME FilesInv, UNCHANGED <<filesVars, damage>>
    PROVE  FilesInv'
<1>1. /\ UNCHANGED <<jobs, option, files, rows, pairs, sums, outcome, faults, handed, seal>>
      /\ UNCHANGED damage
    BY DEF filesVars
<1>2. Typed'
    BY <1>1 DEF FilesInv, Typed
<1>3. Writing'
    BY <1>1 DEF FilesInv, Writing, Faithful, Stored, RowHolds
<1>4. Sealed'
    BY <1>1 DEF FilesInv, Sealed, Faithful, Stored, RowHolds, MatchesListing
<1> QED BY <1>1, <1>2, <1>3, <1>4 DEF FilesInv

(* What each accident leaves is still a directory.                         *)
LEMMA AccidentTyped ==
    ASSUME Typed, LoseFile \/ SpoilFile \/ StrayFile \/ SpoilRows \/ SpoilPairs \/ SpoilSums
    PROVE  /\ FilesOk(files') /\ RowsOk(rows') /\ pairs' \in {"none", "whole", "damaged"}
           /\ ListingOk(sums')
<1>0. FilesOk(files) /\ RowsOk(rows) /\ pairs \in {"none", "whole", "damaged"} /\ ListingOk(sums)
    BY DEF Typed
<1>1. CASE LoseFile
  <2>1. PICK n \in DOMAIN files : files' = [m \in DOMAIN files \ {n} |-> files[m]]
      BY <1>1 DEF LoseFile
  <2>2. DOMAIN files' = DOMAIN files \ {n} /\ files' \in [DOMAIN files' -> Content]
      BY <1>0, <2>1 DEF FilesOk
  <2>3. IsFiniteSet(DOMAIN files \ {n})
      BY <1>0, FS_RemoveElement DEF FilesOk
  <2>4. FilesOk(files')
      BY <1>0, <2>2, <2>3 DEF FilesOk
  <2> QED BY <1>0, <1>1, <2>4 DEF LoseFile
<1>2. CASE SpoilFile
  <2>1. PICK n \in DOMAIN files : files' = [files EXCEPT ![n].whole = FALSE]
      BY <1>2 DEF SpoilFile
  <2>2. PICK c \in Content : c = [files[n] EXCEPT !.whole = FALSE]
      BY <1>0, <2>1 DEF FilesOk, Content
  <2>3. files' = [files EXCEPT ![n] = c]
      BY <2>1, <2>2
  <2>4. DOMAIN files' = DOMAIN files /\ files' \in [DOMAIN files -> Content]
      BY <1>0, <2>3 DEF FilesOk
  <2>5. FilesOk(files')
      BY <1>0, <2>4 DEF FilesOk
  <2> QED BY <1>0, <1>2, <2>5 DEF SpoilFile
<1>3. CASE StrayFile
  <2> DEFINE n == [sensor |-> "camera", stamp |-> 0, dup |-> 0, kind |-> "bin"]
             f == [sensor |-> "camera", stamp |-> 0, form |-> "good"]
  <2>1. n \in FileName /\ f \in Frame
      BY DEF FileName, Frame
  <2>2. files' = With(files, n, f)
      BY <1>3 DEF StrayFile
  <2> HIDE DEF n, f
  <2>3. FilesOk(files')
      BY <1>0, <2>1, <2>2, WithFacts
  <2> QED BY <1>0, <1>3, <2>3 DEF StrayFile
<1>4. CASE SpoilRows
  <2>1. rows # <<>> /\ rows \in Seq(Row)
      BY <1>0, <1>4 DEF SpoilRows, RowsOk
  <2>2. PICK n \in Nat : n = Len(rows) /\ n > 0 /\ DOMAIN rows = 1..n
      BY <2>1
  <2>3. CASE rows' = SubSeq(rows, 1, n - 1)
    <3>1. rows' \in Seq(Row) /\ Len(rows') = n - 1 /\ \A i \in 1..(n - 1) : rows'[i] = rows[i]
        BY <2>1, <2>2, <2>3
    <3>2. DOMAIN rows' = 1..(n - 1) /\ \A i \in 1..(n - 1) : i \in DOMAIN rows
        BY <2>2, <3>1
    <3> QED BY <1>0, <1>4, <3>1, <3>2 DEF RowsOk, SpoilRows
  <2>4. CASE rows' = [rows EXCEPT ![n].torn = TRUE]
    <3>0. n \in DOMAIN rows
        BY <2>2
    <3>7. PICK x \in Row : x = rows[n]
        BY <2>1, <3>0
    <3>8. [x EXCEPT !.torn = TRUE] \in Row
        BY DEF Row
    <3>1. PICK r \in Row : r = [rows[n] EXCEPT !.torn = TRUE]
        BY <3>7, <3>8
    <3>2. r.file = rows[n].file /\ r.sensor = rows[n].sensor /\ r.stamp = rows[n].stamp
      <4>1. r = [x EXCEPT !.torn = TRUE]
          BY <3>1, <3>7
      <4> QED BY <3>7, <4>1 DEF Row
    <3>3. rows' = [rows EXCEPT ![n] = r]
        BY <2>4, <3>1
    <3>4. rows' \in Seq(Row) /\ DOMAIN rows' = DOMAIN rows
          /\ \A i \in DOMAIN rows : rows'[i] = IF i = n THEN r ELSE rows[i]
        BY <2>1, <3>0, <3>3
    <3>5. \A i \in DOMAIN rows : rows'[i].file = rows[i].file /\ rows'[i].sensor = rows[i].sensor
                                 /\ rows'[i].stamp = rows[i].stamp
        BY <3>2, <3>4
    <3>6. RowsOk(rows')
        BY <1>0, <3>4, <3>5 DEF RowsOk
    <3> QED BY <1>0, <1>4, <3>6 DEF SpoilRows
  <2> QED BY <1>4, <2>2, <2>3, <2>4 DEF SpoilRows
<1>5. CASE SpoilPairs
    BY <1>0, <1>5 DEF SpoilPairs
<1>6. CASE SpoilSums
  <2>1. CASE sums' = NoSums
    <3>1. ListingOk(NoSums)
        BY DEF ListingOk, NoSums
    <3> QED BY <1>0, <1>6, <2>1, <3>1 DEF SpoilSums
  <2>2. CASE sums' = [sums EXCEPT !.garbled = TRUE]
    <3>1. ListingOk(sums')
        BY <1>0, <2>2 DEF ListingOk
    <3> QED BY <1>0, <1>6, <3>1 DEF SpoilSums
  <2>3. CASE \E n \in DOMAIN sums.files :
              sums' = [sums EXCEPT !.files = [m \in DOMAIN @ \ {n} |-> @[m]]]
    <3>1. PICK fs : sums' = [sums EXCEPT !.files = fs]
        BY <2>3
    <3>2. ListingOk(sums')
        BY <1>0, <3>1 DEF ListingOk
    <3> QED BY <1>0, <1>6, <3>2 DEF SpoilSums
  <2> QED BY <1>6, <2>1, <2>2, <2>3 DEF SpoilSums
<1> QED BY <1>1, <1>2, <1>3, <1>4, <1>5, <1>6

(* An accident.                                                            *)
LEMMA AccidentKeeps ==
    ASSUME FilesInv, Accident
    PROVE  FilesInv' /\ damage' = damage + 1 /\ damage' > 0
<1>1. /\ seal.there /\ damage < MaxDamage /\ damage' = damage + 1
      /\ LoseFile \/ SpoilFile \/ StrayFile \/ SpoilRows \/ SpoilPairs \/ SpoilSums
      /\ UNCHANGED <<jobs, option, outcome, faults, handed, seal>>
    BY DEF Accident
<1>2. Typed /\ damage \in 0..MaxDamage
    BY DEF FilesInv, Typed
<1>3. damage' \in 0..MaxDamage /\ damage' # 0 /\ damage' > 0
    BY <1>1, <1>2, ReaderAssumption
<1>4. /\ FilesOk(files') /\ RowsOk(rows') /\ pairs' \in {"none", "whole", "damaged"}
      /\ ListingOk(sums')
    BY <1>1, <1>2, AccidentTyped
<1>5. Typed'
    BY <1>1, <1>2, <1>3, <1>4 DEF Typed
<1>6. Writing'
    BY <1>1 DEF Writing
<1>7. Sealed'
    BY <1>1, <1>3 DEF FilesInv, Sealed, Faithful, Stored, RowHolds
<1> QED BY <1>1, <1>3, <1>5, <1>6, <1>7 DEF FilesInv

(* The recorder starts with an empty directory and all of its jobs.        *)
LEMMA FilesStart == Init => FilesInv
<1> SUFFICES ASSUME Init PROVE FilesInv
    OBVIOUS
<1>1. PICK b \in Batches, o \in Options :
          /\ jobs = b /\ option = o
          /\ handed = {f \in UNION {ToSet(b[i]) : i \in DOMAIN b} : f.sensor \in o.sensors}
    BY DEF Init, FilesInit
<1>2. /\ files = NoFiles /\ rows = <<>> /\ pairs = "none" /\ sums = NoSums /\ seal = NoSums
      /\ outcome = [started |-> FALSE, failed |-> FALSE, persisted |-> 0, state |-> "pending"]
      /\ faults = 0 /\ damage = 0
    BY DEF Init, FilesInit
<1>3. jobs \in Seq(Seq(Frame)) /\ option \in Options
    BY <1>1, FilesAssumption
<1>4. \A f : f \in handed <=> Coming(f, jobs) /\ f.sensor \in option.sensors
    BY <1>1 DEF Coming
<1>5. \A f : Coming(f, jobs) => f \in Frame
    BY <1>3 DEF Coming, ToSet
<1>6. FilesOk(files)
  <2>1. DOMAIN files = {} /\ files \in [{} -> Content]
      BY <1>2 DEF NoFiles
  <2>2. IsFiniteSet({})
      BY FS_EmptySet
  <2> QED BY <2>1, <2>2 DEF FilesOk
<1>7. RowsOk(rows) /\ ToSet(rows) = {}
    BY <1>2 DEF RowsOk, ToSet
<1>8. ListingOk(sums) /\ ListingOk(seal)
    BY <1>2 DEF ListingOk, NoSums
<1>9. Typed
    BY <1>2, <1>3, <1>4, <1>5, <1>6, <1>7, <1>8, FilesAssumption, ReaderAssumption DEF Typed
<1>10. Writing
    BY <1>2, <1>4, <1>7 DEF Writing, Faithful
<1>11. Sealed /\ ~seal.there
    BY <1>2 DEF Sealed, NoSums
<1> QED BY <1>2, <1>4, <1>9, <1>10, <1>11 DEF FilesInv

(* The directory, whatever the recorder, the reader and accidents do.      *)
LEMMA FilesStep == FilesInv /\ [Next]_vars => FilesInv'
<1> SUFFICES ASSUME FilesInv, [Next]_vars PROVE FilesInv'
    OBVIOUS
<1>1. CASE Write
    BY <1>1, StartJobKeeps, WriteRecordKeeps, FinishJobKeeps, MarkEventKeeps
       DEF Write, FilesNext
<1>2. CASE Accident
    BY <1>2, AccidentKeeps
<1>3. CASE UNCHANGED <<filesVars, damage>>
    BY <1>3, FilesUnchanged
<1>4. Write \/ Accident \/ UNCHANGED <<filesVars, damage>>
    BY DEF Next, vars, StartReader, ExportRefused, Export, ReadSums, Compare, VerifyEntries
<1> QED BY <1>1, <1>2, <1>3, <1>4

(* FilesInv holds in every state.                                          *)
LEMMA FilesAlways == Spec => []FilesInv
BY FilesStart, FilesStep, PTL DEF Spec

-----------------------------------------------------------------------------
(***************************************************************************)
(* The export loop, by induction on its rounds.                            *)
(***************************************************************************)

(* The name that a frame is exported under.                                *)
ShownAs(x) == [sensor |-> x.sensor, stamp |-> x.stamp]

AccOk(acc) ==
    /\ acc = [count |-> acc.count, exit |-> acc.exit, unwritten |-> acc.unwritten,
              out |-> acc.out]
    /\ acc.exit \in {0, 2} /\ acc.unwritten \in BOOLEAN

(* Every file exported shows a frame of its name's sensor and stamp.       *)
Shown(acc) == \A n \in DOMAIN acc.out : \E g \in Asked : n = ShownAs(g) /\ acc.out[n].frame = g

(* What a round does with a row that stands for a frame.                   *)
RoundEffect(acc, new, r) ==
    /\ Shown(new)
    /\ new.exit = 0 => acc.exit = 0 /\ DOMAIN acc.out \subseteq DOMAIN new.out
    /\ ~new.unwritten => ~acc.unwritten
    /\ new.exit = 0 /\ reader.opt.limit = 0 /\ Wanted(r) => ShownAs(r) \in DOMAIN new.out
    /\ (\A f \in Asked : f.form = "good") /\ ~new.unwritten /\ acc.exit = 0 => new.exit = 0

(* The loop has a result for each number of rounds.                        *)
LEMMA ExportLoop ==
    ASSUME NEW luck, NEW lost, Len(rows) \in Nat
    PROVE  \E after : /\ after[0] = [count |-> 0, exit |-> 0, unwritten |-> FALSE, out |-> NoFiles]
                      /\ \A n \in 1..Len(rows) :
                             after[n] = ExportRow(after[n - 1], rows[n], luck, lost)
                      /\ ExportRows(luck, lost) = after[Len(rows)]
<1> DEFINE N == Len(rows)
           w == [count |-> 0, exit |-> 0, unwritten |-> FALSE, out |-> NoFiles]
           Round(g, n) == ExportRow(g, rows[n], luck, lost)
           Runs(g, m) == g = [n \in 0..m |-> IF n = 0 THEN w ELSE Round(g[n - 1], n)]
           Bad == {m \in 0..N : ~ \E g : Runs(g, m)}
<1>0. N \in Nat
    OBVIOUS
<1> HIDE DEF N, Round, w
<1>1. Bad = {}
  <2>1. SUFFICES ASSUME Bad # {} PROVE FALSE
      OBVIOUS
  <2>2. PICK m \in Bad : \A k \in Bad : m <= k
    <3>1. Bad \subseteq Nat
        BY <1>0
    <3> HIDE DEF Bad
    <3> QED BY <2>1, <3>1, LeastNumber
  <2>3. CASE m = 0
    <3>1. Runs([n \in 0..0 |-> w], 0)
        OBVIOUS
    <3> QED BY <2>3, <3>1
  <2>4. CASE m # 0
    <3>0. m \in 0..N
        BY <2>2
    <3>4. m - 1 \in 0..N /\ ~(m <= m - 1)
        BY <1>0, <2>4, <3>0
    <3>1. m - 1 \in 0..N /\ m - 1 \notin Bad
      <4> HIDE DEF Bad
      <4> QED BY <2>2, <3>4
    <3>2. PICK g : Runs(g, m - 1)
        BY <3>1
    <3> DEFINE h == [n \in 0..m |-> IF n = m THEN Round(g[m - 1], m) ELSE g[n]]
    <3>3. Runs(h, m)
      <4>1. ASSUME NEW n \in 0..m
            PROVE  h[n] = IF n = 0 THEN w ELSE Round(h[n - 1], n)
        <5>1. CASE n = m
          <6>1. h[n] = Round(g[m - 1], m)
              BY <5>1, <4>1
          <6>2. h[n - 1] = g[m - 1]
              BY <5>1, <4>1, <3>1, <2>4
          <6> QED BY <5>1, <6>1, <6>2, <2>4
        <5>2. CASE n # m
          <6>1. n \in 0..(m - 1)
              BY <4>1, <5>2, <3>1
          <6>2. h[n] = g[n]
              BY <5>2, <4>1
          <6>3. n # 0 => h[n - 1] = g[n - 1]
              BY <6>1, <4>1, <3>1
          <6>4. g[n] = IF n = 0 THEN w ELSE Round(g[n - 1], n)
              BY <3>2, <6>1
          <6> QED BY <6>2, <6>3, <6>4
        <5> QED BY <5>1, <5>2
      <4> QED BY <4>1
    <3> QED BY <3>3
  <2> QED BY <2>3, <2>4
<1>2. \E g : Runs(g, N)
    BY <1>0, <1>1
<1> DEFINE k == CHOOSE g : Runs(g, N)
<1>3. Runs(k, N)
    BY <1>2
<1>4. ExportRows(luck, lost) = k[N]
    BY DEF ExportRows, N, Round, w
<1> HIDE DEF k
<1>5. k[0] = w
    BY <1>0, <1>3
<1>6. \A n \in 1..N : k[n] = Round(k[n - 1], n)
  <2> SUFFICES ASSUME NEW n \in 1..N PROVE k[n] = Round(k[n - 1], n)
      OBVIOUS
  <2>1. n \in 0..N /\ n # 0
      BY <1>0
  <2> QED BY <1>3, <2>1
<1> QED BY <1>4, <1>5, <1>6 DEF N, Round, w

(* One round.                                                              *)
LEMMA ExportRowKeeps ==
    ASSUME NEW luck, NEW lost, NEW acc, AccOk(acc), NEW r
    PROVE  /\ AccOk(ExportRow(acc, r, luck, lost))
           /\ /\ Shown(acc) /\ r \in ToSet(rows)
              /\ \E f \in handed : RowHolds(r, files, f)
              => RoundEffect(acc, ExportRow(acc, r, luck, lost), r)
<1> DEFINE name == [sensor |-> r.sensor, stamp |-> r.stamp]
           enough == reader.opt.limit # 0 /\ acc.count >= reader.opt.limit
           more == [n \in DOMAIN acc.out \union {name} |->
                        IF n = name THEN files[r.file] ELSE acc.out[n]]
           new == ExportRow(acc, r, luck, lost)
<1>1. CASE r \notin Entries \/ ~Wanted(r) \/ enough
  <2>1. new = acc
      BY <1>1 DEF ExportRow
  <2>2. ASSUME Shown(acc), r \in ToSet(rows), NEW f \in handed, RowHolds(r, files, f)
        PROVE  RoundEffect(acc, acc, r)
    <3>1. r \in Entries
        BY <2>2 DEF Entries, RowHolds
    <3>2. ~Wanted(r) \/ reader.opt.limit # 0
        BY <1>1, <3>1
    <3> QED BY <2>2, <3>2 DEF RoundEffect
  <2> HIDE DEF new
  <2> QED BY <2>1, <2>2 DEF new
<1>2. CASE /\ ~(r \notin Entries \/ ~Wanted(r) \/ enough)
           /\ ~Readable(r, luck) \/ ~Exportable(files[r.file].frame, luck)
  <2>1. new = [acc EXCEPT !.exit = 2]
      BY <1>2 DEF ExportRow
  <2> HIDE DEF new
  <2>2. AccOk(new) /\ new.out = acc.out /\ new.exit = 2 /\ new.unwritten = acc.unwritten
      BY <2>1 DEF AccOk
  <2>3. ASSUME Shown(acc), r \in ToSet(rows), NEW f \in handed, RowHolds(r, files, f)
        PROVE  RoundEffect(acc, new, r)
    <3>1. files[r.file].whole /\ files[r.file].frame = f /\ r.file \in DOMAIN files
        BY <2>3 DEF RowHolds, Holding
    <3>2. f.form # "huge" => Readable(r, luck)
        BY <3>1 DEF Readable
    <3>3. f.form = "huge" \/ ~Exportable(f, luck)
        BY <1>2, <3>1, <3>2
    <3>4. f.form # "good"
        BY <3>3 DEF Exportable
    <3>5. Wanted(r)
        BY <1>2
    <3>6. f \in Asked
        BY <2>3, <3>5 DEF Asked, Wanted, RowHolds
    <3>7. Shown(new)
        BY <2>2, <2>3 DEF Shown
    <3> QED BY <2>2, <3>4, <3>6, <3>7 DEF RoundEffect
  <2> QED BY <2>2, <2>3 DEF new
<1>3. CASE /\ ~(r \notin Entries \/ ~Wanted(r) \/ enough)
           /\ ~(~Readable(r, luck) \/ ~Exportable(files[r.file].frame, luck))
           /\ r \notin lost
  <2>1. new = [acc EXCEPT !.count = acc.count + 1, !.out = more]
      BY <1>3 DEF ExportRow
  <2>2. DOMAIN more = DOMAIN acc.out \union {name} /\ more[name] = files[r.file]
        /\ \A n \in DOMAIN acc.out : n # name => more[n] = acc.out[n]
      OBVIOUS
  <2> HIDE DEF new, more
  <2>3. PICK c : c = acc.count + 1
      OBVIOUS
  <2>4. new = [acc EXCEPT !.count = c, !.out = more]
      BY <2>1, <2>3
  <2>5. AccOk(new) /\ new.out = more /\ new.exit = acc.exit /\ new.unwritten = acc.unwritten
      BY <2>4 DEF AccOk
  <2>6. ASSUME Shown(acc), r \in ToSet(rows), NEW f \in handed, RowHolds(r, files, f)
        PROVE  RoundEffect(acc, new, r)
    <3>1. files[r.file].frame = f
        BY <2>6 DEF RowHolds, Holding
    <3>2. name = ShownAs(f) /\ name = ShownAs(r)
        BY <2>6 DEF RowHolds, ShownAs
    <3>3. f \in Asked
        BY <1>3, <2>6 DEF Asked, Wanted, RowHolds
    <3> HIDE DEF name
    <3>4. Shown(new)
      <4> SUFFICES ASSUME NEW n \in DOMAIN new.out
                   PROVE  \E g \in Asked : n = ShownAs(g) /\ new.out[n].frame = g
          BY DEF Shown
      <4>1. CASE n = name
          BY <2>2, <2>5, <3>1, <3>2, <3>3, <4>1
      <4>2. CASE n # name
          BY <2>2, <2>5, <2>6, <4>2 DEF Shown
      <4> QED BY <4>1, <4>2
    <3>5. DOMAIN acc.out \subseteq DOMAIN new.out /\ name \in DOMAIN new.out
        BY <2>2, <2>5
    <3> QED BY <2>5, <3>2, <3>4, <3>5 DEF RoundEffect
  <2> QED BY <2>5, <2>6 DEF new
<1>4. CASE /\ ~(r \notin Entries \/ ~Wanted(r) \/ enough)
           /\ ~(~Readable(r, luck) \/ ~Exportable(files[r.file].frame, luck))
           /\ r \in lost
  <2> DEFINE fewer == [n \in DOMAIN acc.out \ {name} |-> acc.out[n]]
  <2>1. new = [acc EXCEPT !.exit = 2, !.unwritten = TRUE, !.out = fewer]
      BY <1>4 DEF ExportRow, NotWritten
  <2>2. DOMAIN fewer \subseteq DOMAIN acc.out /\ \A n \in DOMAIN fewer : fewer[n] = acc.out[n]
      OBVIOUS
  <2> HIDE DEF new, fewer
  <2>3. AccOk(new) /\ new.out = fewer /\ new.exit = 2 /\ new.unwritten
      BY <2>1 DEF AccOk
  <2>4. ASSUME Shown(acc) PROVE RoundEffect(acc, new, r)
    <3>1. Shown(new)
        BY <2>2, <2>3, <2>4 DEF Shown
    <3> QED BY <2>3, <3>1 DEF RoundEffect
  <2> QED BY <2>3, <2>4 DEF new
<1> QED BY <1>1, <1>2, <1>3, <1>4

(* What the export leaves behind, and its exit code.                       *)
LEMMA ExportFacts ==
    ASSUME RowsOk(rows), NEW luck, NEW lost
    PROVE  LET end == ExportRows(luck, lost) IN
           /\ end.exit \in {0, 2} /\ end.unwritten \in BOOLEAN
           /\ Faithful(files, rows) =>
                  /\ Shown(end)
                  /\ (\A f \in Asked : f.form = "good") /\ ~end.unwritten => end.exit = 0
                  /\ end.exit = 0 /\ reader.opt.limit = 0 =>
                         \A r \in ToSet(rows) : Wanted(r) => ShownAs(r) \in DOMAIN end.out
<1>1. PICK N \in Nat : N = Len(rows) /\ DOMAIN rows = 1..N
    BY DEF RowsOk
<1> DEFINE w == [count |-> 0, exit |-> 0, unwritten |-> FALSE, out |-> NoFiles]
<1>2. PICK acc : /\ acc[0] = w
                 /\ \A n \in 1..N : acc[n] = ExportRow(acc[n - 1], rows[n], luck, lost)
                 /\ ExportRows(luck, lost) = acc[N]
    BY <1>1, ExportLoop
<1> DEFINE Good(n) ==
               /\ Shown(acc[n])
               /\ (\A f \in Asked : f.form = "good") /\ ~acc[n].unwritten => acc[n].exit = 0
               /\ acc[n].exit = 0 /\ reader.opt.limit = 0 =>
                      \A i \in 1..n : Wanted(rows[i]) => ShownAs(rows[i]) \in DOMAIN acc[n].out
           Ok(n) == AccOk(acc[n]) /\ (Faithful(files, rows) => Good(n))
           Bad == {n \in 0..N : ~Ok(n)}
<1>3. Ok(0)
  <2>1. w.exit = 0 /\ DOMAIN w.out = {} /\ AccOk(w)
      BY DEF AccOk, NoFiles
  <2>2. Shown(w)
      BY <2>1 DEF Shown
  <2> HIDE DEF w
  <2> QED BY <1>2, <2>1, <2>2
<1>4. ASSUME NEW m \in 1..N, Ok(m - 1) PROVE Ok(m)
  <2>1. PICK a : a = acc[m - 1]
      OBVIOUS
  <2>2. PICK b : b = acc[m]
      OBVIOUS
  <2>3. b = ExportRow(a, rows[m], luck, lost)
      BY <1>2, <2>1, <2>2
  <2>4. AccOk(a)
      BY <1>4, <2>1
  <2>5. AccOk(b)
      BY <2>3, <2>4, ExportRowKeeps
  <2>6. ASSUME Faithful(files, rows) PROVE Good(m)
    <3>1. Shown(a) /\ rows[m] \in ToSet(rows)
        BY <1>1, <1>4, <2>1, <2>6 DEF ToSet
    <3>2. \E f \in handed : RowHolds(rows[m], files, f)
        BY <2>6, <3>1 DEF Faithful
    <3>3. RoundEffect(a, b, rows[m])
        BY <2>3, <2>4, <3>1, <3>2, ExportRowKeeps
    <3>4. Shown(b)
        BY <3>3 DEF RoundEffect
    <3>5. (\A f \in Asked : f.form = "good") /\ ~b.unwritten => b.exit = 0
        BY <1>4, <2>1, <2>6, <3>3 DEF RoundEffect
    <3>6. ASSUME b.exit = 0, reader.opt.limit = 0, NEW i \in 1..m, Wanted(rows[i])
          PROVE  ShownAs(rows[i]) \in DOMAIN b.out
      <4>1. CASE i = m
          BY <3>3, <3>6, <4>1 DEF RoundEffect
      <4>2. CASE i # m
        <5>1. i \in 1..(m - 1)
            BY <3>6, <4>2
        <5>2. a.exit = 0 /\ DOMAIN a.out \subseteq DOMAIN b.out
            BY <3>3, <3>6 DEF RoundEffect
        <5>3. ShownAs(rows[i]) \in DOMAIN a.out
            BY <1>4, <2>1, <2>6, <3>6, <5>1, <5>2
        <5> QED BY <5>2, <5>3
      <4> QED BY <4>1, <4>2
    <3> QED BY <2>2, <3>4, <3>5, <3>6
  <2> HIDE DEF Good
  <2> QED BY <2>2, <2>5, <2>6
<1>5. Bad = {}
  <2> HIDE DEF Ok
  <2>1. SUFFICES ASSUME Bad # {} PROVE FALSE
      OBVIOUS
  <2>2. Bad \subseteq Nat
      BY <1>1
  <2>3. PICK m \in Bad : \A k \in Bad : m <= k
    <3> HIDE DEF Bad
    <3> QED BY <2>1, <2>2, LeastNumber
  <2>4. m \in 0..N /\ ~Ok(m)
      BY <2>3
  <2>5. m # 0
      BY <1>3, <2>4
  <2>6. m \in 1..N /\ m - 1 \in 0..N /\ ~(m <= m - 1)
      BY <1>1, <2>4, <2>5
  <2>7. m - 1 \notin Bad
    <3> HIDE DEF Bad
    <3> QED BY <2>3, <2>6
  <2>8. Ok(m - 1)
      BY <2>6, <2>7
  <2> QED BY <1>4, <2>4, <2>6, <2>8
<1>6. Ok(N)
  <2> HIDE DEF Ok
  <2> QED BY <1>1, <1>5
<1>7. PICK e : e = acc[N]
    OBVIOUS
<1>8. e.exit \in {0, 2} /\ e.unwritten \in BOOLEAN
    BY <1>6, <1>7 DEF AccOk
<1>9. ASSUME Faithful(files, rows)
      PROVE  /\ Shown(e)
             /\ (\A f \in Asked : f.form = "good") /\ ~e.unwritten => e.exit = 0
             /\ e.exit = 0 /\ reader.opt.limit = 0 =>
                    \A r \in ToSet(rows) : Wanted(r) => ShownAs(r) \in DOMAIN e.out
    BY <1>1, <1>6, <1>7, <1>9 DEF ToSet
<1> HIDE DEF Ok, Good
<1> QED BY <1>2, <1>7, <1>8, <1>9

-----------------------------------------------------------------------------
(***************************************************************************)
(* The reader's steps.                                                     *)
(***************************************************************************)

(* A sealed directory that nothing has befallen.                           *)
LEMMA WholeDirectory ==
    ASSUME FilesInv, seal.there, damage = 0
    PROVE  /\ sums = seal /\ Agrees
           /\ RowsOk(rows) /\ Faithful(files, rows)
           /\ \A f \in handed : Stored(f, files, rows)
<1>1. /\ seal.there /\ ~seal.garbled /\ Faithful(seal.files, seal.rows)
      /\ \A f \in handed : Stored(f, seal.files, seal.rows)
      /\ sums = seal /\ MatchesListing(seal)
    BY DEF FilesInv, Sealed
<1>2. files = seal.files /\ rows = seal.rows /\ MatchesListing(sums)
    BY <1>1 DEF MatchesListing
<1> QED BY <1>1, <1>2 DEF Agrees, FilesInv, Typed

(* Only the reader moves.                                                  *)
LEMMA OnlyReader ==
    ASSUME StartOk, UNCHANGED <<filesVars, damage, start>>
    PROVE  StartOk' /\ (Quiet' <=> Quiet) /\ (Agrees' <=> Agrees)
<1>1. UNCHANGED <<files, rows, pairs, sums, seal, outcome, damage, start>>
    BY DEF filesVars
<1>2. (Quiet' <=> Quiet) /\ (Agrees' <=> Agrees)
    BY <1>1 DEF Quiet, Agrees, MatchesListing
<1>3. MatchesListing(seal)' <=> MatchesListing(seal)
    BY <1>1 DEF MatchesListing
<1> QED BY <1>1, <1>2, <1>3 DEF StartOk

(* On a directory that nothing has befallen since the reader started on    *)
(* it, nothing had befallen it before either if nothing ever has.          *)
LEMMA QuietFromStart ==
    ASSUME FilesInv, StartOk, start.sealed, damage = 0
    PROVE  Quiet /\ seal.there
<1>1. start.damage \in Nat /\ start.damage <= 0
    BY DEF StartOk
<1>2. start.damage = damage
    BY <1>1
<1> QED BY <1>2 DEF Quiet, StartOk

(* The reader starts.                                                      *)
LEMMA ReaderStart == Init => ReaderInv
<1> SUFFICES ASSUME Init PROVE ReaderInv
    OBVIOUS
<1>1. reader = Idle /\ start = Unread /\ damage = 0
    BY DEF Init
<1>2. StartOk
    BY <1>1 DEF StartOk, Unread, Quiet
<1>3. /\ reader.at = "idle" /\ reader.opt = NoCommand /\ reader.bad = FALSE
      /\ reader.exit = 0 /\ reader.verified = FALSE
    BY <1>1 DEF Idle
<1>4. ReaderOk
    BY <1>1, <1>3 DEF ReaderOk, Idle, Shaped
<1>5. Verifying /\ WrittenReadsBack /\ ExportCoversStamps
    BY <1>3 DEF Verifying, WrittenReadsBack, ExportCoversStamps, Verified, Exported
<1> QED BY <1>2, <1>4, <1>5 DEF ReaderInv

(* While the recorder writes, the reader can have accepted nothing.        *)
LEMMA ReaderDuringWrite ==
    ASSUME FilesInv, ReaderInv, Write, jobs # <<>>
    PROVE  ReaderInv'
<1>1. UNCHANGED <<reader, start, damage>>
    BY DEF Write, readerVars
<1>2. ~seal.there
    BY DEF FilesInv
<1>3. ~start.sealed
    BY <1>2 DEF ReaderInv, StartOk
<1>4. /\ reader.at \in {"compare", "entries"} => reader.bad
      /\ ~(Verified /\ reader.verified)
    BY <1>2 DEF ReaderInv, Verifying, ReaderOk
<1>5. ~start'.sealed /\ ~Quiet'
    BY <1>1, <1>3 DEF Quiet
<1>6. StartOk'
    BY <1>1, <1>5 DEF ReaderInv, StartOk
<1>7. ReaderOk'
    BY <1>1 DEF ReaderInv, ReaderOk
<1>8. Verifying'
    BY <1>1, <1>4, <1>5 DEF Verifying, Verified
<1>9. WrittenReadsBack' /\ ExportCoversStamps'
    BY <1>5 DEF WrittenReadsBack, ExportCoversStamps
<1> QED BY <1>6, <1>7, <1>8, <1>9 DEF ReaderInv

(* The marker is written: the reader does not look at it.                  *)
LEMMA ReaderDuringMark ==
    ASSUME ReaderInv, MarkEvent, UNCHANGED <<readerVars, damage>>
    PROVE  ReaderInv'
<1>1. UNCHANGED <<files, rows, pairs, sums, seal, handed, reader, start, damage>>
    BY DEF MarkEvent, readerVars
<1>2. (Quiet' <=> Quiet) /\ (Agrees' <=> Agrees) /\ (MatchesListing(seal)' <=> MatchesListing(seal))
    BY <1>1 DEF Quiet, Agrees, MatchesListing
<1>3. StartOk' /\ ReaderOk'
    BY <1>1, <1>2 DEF ReaderInv, StartOk, ReaderOk
<1>4. Verifying'
    BY <1>1, <1>2 DEF ReaderInv, Verifying, Verified
<1>5. WrittenReadsBack' /\ ExportCoversStamps'
    BY <1>1 DEF ReaderInv, WrittenReadsBack, ExportCoversStamps, Verified, Exported, Asked
<1> QED BY <1>3, <1>4, <1>5 DEF ReaderInv

(* An accident ends the quiet.                                             *)
LEMMA ReaderAfterAccident ==
    ASSUME FilesInv, ReaderInv, Accident
    PROVE  ReaderInv'
<1>1. UNCHANGED <<reader, start, seal>> /\ damage' = damage + 1 /\ damage' > 0
    BY AccidentKeeps DEF Accident, readerVars
<1>2. damage \in Nat /\ start.damage \in Nat /\ start.damage <= damage
    BY DEF FilesInv, Typed, ReaderInv, StartOk
<1>3. start'.damage <= damage' /\ start'.damage # damage' /\ damage' # 0
    BY <1>1, <1>2
<1>4. ~Quiet'
    BY <1>3 DEF Quiet
<1>5. StartOk'
    BY <1>1, <1>3, <1>4 DEF ReaderInv, StartOk
<1>6. ReaderOk'
    BY <1>1 DEF ReaderInv, ReaderOk
<1>7. Verifying'
    BY <1>1, <1>4 DEF ReaderInv, Verifying, Verified
<1>8. WrittenReadsBack' /\ ExportCoversStamps'
    BY <1>3 DEF WrittenReadsBack, ExportCoversStamps
<1> QED BY <1>5, <1>6, <1>7, <1>8 DEF ReaderInv

(* The command line is read.                                               *)
LEMMA ReaderStarts ==
    ASSUME FilesInv, ReaderInv, NEW c \in Commands, StartReader(c)
    PROVE  ReaderInv'
<1>1. /\ reader' = [Idle EXCEPT !.at = IF c.export THEN "export" ELSE "sums", !.opt = c]
      /\ start' = [sealed |-> seal.there, damage |-> damage,
                   data   |-> ~MatchesListing(seal), sums |-> sums # seal]
      /\ UNCHANGED <<files, rows, pairs, sums, seal, outcome, handed, damage>>
    BY DEF StartReader, filesVars
<1>2. /\ reader'.at = (IF c.export THEN "export" ELSE "sums") /\ reader'.opt = c
      /\ reader'.bad = FALSE /\ reader'.exit = 0 /\ reader'.verified = FALSE
      /\ Shaped(reader')
    BY <1>1 DEF Idle, Shaped
<1>3. c.verify \/ c.export
    BY ReaderAssumption
<1>4. ReaderOk'
  <2>1. /\ reader'.at \in {"export", "sums"} /\ reader'.opt \in Commands \union {NoCommand}
        /\ reader'.bad \in BOOLEAN /\ reader'.verified \in BOOLEAN /\ reader'.exit = 0
      BY <1>2
  <2>2. reader'.at \in {"sums", "compare", "entries"} => reader'.opt.verify
    <3>1. CASE c.export
        BY <1>2, <3>1
    <3>2. CASE ~c.export
        BY <1>2, <1>3, <3>2
    <3> QED BY <3>1, <3>2
  <2> QED BY <1>2, <2>1, <2>2 DEF ReaderOk
<1>5. damage \in Nat /\ seal.there \in BOOLEAN
    BY DEF FilesInv, Typed, ListingOk
<1>6. StartOk'
  <2>1. /\ start'.sealed = seal.there /\ start'.damage = damage
        /\ start'.data = ~MatchesListing(seal) /\ start'.sums = (sums # seal)
        /\ start' \in [sealed : BOOLEAN, data : BOOLEAN, sums : BOOLEAN, damage : Nat]
      BY <1>1, <1>5
  <2>2. MatchesListing(seal)' <=> MatchesListing(seal)
      BY <1>1 DEF MatchesListing
  <2>3. start'.damage <= damage'
      BY <1>1, <1>5, <2>1
  <2> QED BY <1>1, <2>1, <2>2, <2>3 DEF StartOk
<1>7. Verifying' /\ WrittenReadsBack'
    BY <1>2 DEF Verifying, WrittenReadsBack, Verified
<1>8. ~Exported'
    BY <1>2 DEF Exported
<1> QED BY <1>4, <1>6, <1>7, <1>8 DEF ReaderInv, ExportCoversStamps

(* The export cannot be made.                                              *)
LEMMA ReaderRefused ==
    ASSUME FilesInv, ReaderInv, ExportRefused
    PROVE  ReaderInv'
<1>1. /\ reader.at = "export" /\ reader' = [reader EXCEPT !.at = "done", !.exit = 1]
      /\ UNCHANGED <<filesVars, damage, start>>
    BY DEF ExportRefused
<1>2. StartOk'
    BY <1>1, OnlyReader DEF ReaderInv
<1>3. ReaderOk' /\ reader'.at = "done" /\ reader'.exit = 1
  <2>1. Shaped(reader)
      BY DEF ReaderInv, ReaderOk
  <2>2. /\ Shaped(reader') /\ reader'.at = "done" /\ reader'.exit = 1
        /\ reader'.opt = reader.opt /\ reader'.bad = reader.bad
        /\ reader'.verified = reader.verified
      BY <1>1, <2>1 DEF Shaped
  <2> QED BY <2>2 DEF ReaderInv, ReaderOk
<1>4. Verifying' /\ WrittenReadsBack' /\ ExportCoversStamps'
    BY <1>3 DEF Verifying, WrittenReadsBack, ExportCoversStamps, Verified, Exported
<1> QED BY <1>2, <1>3, <1>4 DEF ReaderInv

(* The export loop runs.                                                   *)
LEMMA ReaderExports ==
    ASSUME FilesInv, ReaderInv, Export
    PROVE  ReaderInv'
<1>1. PICK luck \in BOOLEAN, lost \in SUBSET ToSet(rows) :
        reader' = [reader EXCEPT !.exit = ExportRows(luck, lost).exit,
                                 !.out = ExportRows(luck, lost).out,
                                 !.unwritten = ExportRows(luck, lost).unwritten,
                                 !.at = IF reader.opt.verify THEN "sums" ELSE "done"]
    BY DEF Export
<1>2. reader.at = "export" /\ UNCHANGED <<filesVars, damage, start>>
    BY DEF Export
<1>3. RowsOk(rows) /\ Shaped(reader) /\ reader.exit # 1
    BY <1>2 DEF FilesInv, Typed, ReaderInv, ReaderOk
<1>4. PICK end : end = ExportRows(luck, lost)
    OBVIOUS
<1>5. /\ end.exit \in {0, 2} /\ end.unwritten \in BOOLEAN
      /\ Faithful(files, rows) =>
             /\ Shown(end)
             /\ (\A f \in Asked : f.form = "good") /\ ~end.unwritten => end.exit = 0
             /\ end.exit = 0 /\ reader.opt.limit = 0 =>
                    \A r \in ToSet(rows) : Wanted(r) => ShownAs(r) \in DOMAIN end.out
    BY <1>3, <1>4, ExportFacts
<1>6. reader' = [reader EXCEPT !.exit = end.exit, !.out = end.out,
                               !.unwritten = end.unwritten,
                               !.at = IF reader.opt.verify THEN "sums" ELSE "done"]
    BY <1>1, <1>4
<1>7. /\ Shaped(reader') /\ reader'.exit = end.exit /\ reader'.out = end.out
      /\ reader'.unwritten = end.unwritten
      /\ reader'.at = (IF reader.opt.verify THEN "sums" ELSE "done")
      /\ reader'.opt = reader.opt /\ reader'.bad = reader.bad
      /\ reader'.verified = reader.verified
    BY <1>3, <1>6 DEF Shaped
<1>8. ReaderOk'
    BY <1>5, <1>7 DEF ReaderInv, ReaderOk
<1>9. StartOk'
    BY <1>2, OnlyReader DEF ReaderInv
<1>10. Verifying' /\ WrittenReadsBack'
    BY <1>7 DEF Verifying, WrittenReadsBack, Verified
<1>11. ExportCoversStamps'
  <2>1. SUFFICES ASSUME start.sealed, damage = 0
                 PROVE  /\ (\A f \in Asked : f.form = "good") /\ ~end.unwritten => end.exit = 0
                        /\ end.exit = 0 /\ reader.opt.limit = 0 =>
                               \A f \in Asked : \E n \in DOMAIN end.out :
                                   /\ n.sensor = f.sensor /\ n.stamp = f.stamp
                                   /\ end.out[n].frame \in {g \in Asked : g.stamp = f.stamp}
      BY <1>2, <1>7 DEF ExportCoversStamps, Asked, filesVars
  <2>2. Faithful(files, rows) /\ \A f \in handed : Stored(f, files, rows)
      BY <2>1, QuietFromStart, WholeDirectory DEF ReaderInv
  <2>3. ASSUME end.exit = 0, reader.opt.limit = 0, NEW f \in Asked
        PROVE  \E n \in DOMAIN end.out :
                   /\ n.sensor = f.sensor /\ n.stamp = f.stamp
                   /\ end.out[n].frame \in {g \in Asked : g.stamp = f.stamp}
    <3>1. PICK r \in ToSet(rows) : RowHolds(r, files, f)
        BY <2>2 DEF Asked, Stored
    <3>2. Wanted(r) /\ ShownAs(r) = ShownAs(f)
        BY <3>1 DEF RowHolds, Wanted, Asked, ShownAs
    <3>3. PICK n \in DOMAIN end.out : n = ShownAs(f)
        BY <1>5, <2>2, <2>3, <3>1, <3>2
    <3>4. PICK g \in Asked : n = ShownAs(g) /\ end.out[n].frame = g
        BY <1>5, <2>2 DEF Shown
    <3>5. n.sensor = f.sensor /\ n.stamp = f.stamp /\ n.stamp = g.stamp
        BY <3>3, <3>4 DEF ShownAs
    <3> QED BY <3>4, <3>5
  <2> QED BY <1>5, <2>2, <2>3
<1> QED BY <1>8, <1>9, <1>10, <1>11 DEF ReaderInv

(* manifest.sha256 is read.                                                *)
LEMMA ReaderReadsSums ==
    ASSUME FilesInv, ReaderInv, ReadSums
    PROVE  ReaderInv'
<1>1. /\ reader.at = "sums" /\ UNCHANGED <<filesVars, damage, start>>
      /\ reader' = [reader EXCEPT !.at = "compare", !.listed = sums,
                                  !.bad = ~sums.there \/ sums.garbled]
    BY DEF ReadSums
<1>2. Shaped(reader) /\ reader.opt.verify /\ reader.exit \in {0, 2}
    BY <1>1 DEF ReaderInv, ReaderOk
<1>3. /\ Shaped(reader') /\ reader'.at = "compare" /\ reader'.listed = sums
      /\ reader'.bad = (~sums.there \/ sums.garbled) /\ reader'.opt = reader.opt
      /\ reader'.exit = reader.exit /\ reader'.verified = reader.verified
    BY <1>1, <1>2 DEF Shaped
<1>4. StartOk'
    BY <1>1, OnlyReader DEF ReaderInv
<1>5. ReaderOk'
    BY <1>2, <1>3 DEF ReaderInv, ReaderOk
<1>6. sums.there => seal.there
    BY DEF FilesInv, Writing, NoSums
<1>7. sums' = sums /\ seal' = seal
    BY <1>1 DEF filesVars
<1>8. Verifying'
    BY <1>3, <1>6, <1>7 DEF Verifying, Verified
<1>9. WrittenReadsBack' /\ ExportCoversStamps'
    BY <1>3 DEF WrittenReadsBack, Verified, ExportCoversStamps, Exported
<1> QED BY <1>4, <1>5, <1>8, <1>9 DEF ReaderInv

(* The files are compared.                                                 *)
LEMMA ReaderCompares ==
    ASSUME FilesInv, ReaderInv, Compare
    PROVE  ReaderInv'
<1>1. /\ reader.at = "compare" /\ UNCHANGED <<filesVars, damage, start>>
      /\ reader' = [reader EXCEPT !.at = "entries",
                                  !.bad = @ \/ ~MatchesListing(reader.listed)]
    BY DEF Compare
<1>2. Shaped(reader) /\ reader.opt.verify /\ reader.exit \in {0, 2} /\ reader.bad \in BOOLEAN
    BY <1>1 DEF ReaderInv, ReaderOk
<1>3. /\ Shaped(reader') /\ reader'.at = "entries"
      /\ reader'.bad = (reader.bad \/ ~MatchesListing(reader.listed)) /\ reader'.opt = reader.opt
      /\ reader'.exit = reader.exit /\ reader'.verified = reader.verified
    BY <1>1, <1>2 DEF Shaped
<1>4. StartOk' /\ (Quiet' <=> Quiet) /\ (Agrees' <=> Agrees)
    BY <1>1, OnlyReader DEF ReaderInv
<1>5. ReaderOk'
    BY <1>2, <1>3 DEF ReaderInv, ReaderOk
<1>6. /\ ~reader.bad => seal.there
      /\ Quiet => reader.listed = sums /\ (reader.bad <=> ~sums.there \/ sums.garbled)
    BY <1>1 DEF ReaderInv, Verifying
<1>7. Quiet => (reader'.bad <=> ~Agrees)
    BY <1>3, <1>6 DEF Agrees
<1>8. seal' = seal
    BY <1>1 DEF filesVars
<1>9. Verifying'
    BY <1>3, <1>4, <1>6, <1>7, <1>8 DEF Verifying, Verified
<1>10. WrittenReadsBack' /\ ExportCoversStamps'
    BY <1>3 DEF WrittenReadsBack, Verified, ExportCoversStamps, Exported
<1> QED BY <1>4, <1>5, <1>9, <1>10 DEF ReaderInv

(* The entries are read, and the exit code is settled.                     *)
LEMMA ReaderVerifies ==
    ASSUME FilesInv, ReaderInv, VerifyEntries
    PROVE  ReaderInv'
<1> DEFINE mine == {r \in Entries : Wanted(r)}
           ok(luck) == /\ ~reader.bad /\ Entries = ToSet(rows) /\ mine # {}
                       /\ \A r \in mine : Readable(r, luck) /\ Consistent(files[r.file].frame)
<1>1. PICK luck \in BOOLEAN :
          reader' = [reader EXCEPT !.at = "done", !.verified = ok(luck),
                                   !.exit = IF ok(luck) THEN @ ELSE 2]
    BY DEF VerifyEntries
<1>2. reader.at = "entries" /\ UNCHANGED <<filesVars, damage, start>>
    BY DEF VerifyEntries
<1>3. Shaped(reader) /\ reader.opt.verify /\ reader.exit \in {0, 2} /\ reader.bad \in BOOLEAN
    BY <1>2 DEF ReaderInv, ReaderOk
<1>4. PICK o \in BOOLEAN : o = ok(luck)
    OBVIOUS
<1>5. (o => ~reader.bad) /\ reader' = [reader EXCEPT !.at = "done", !.verified = o,
                                                     !.exit = IF o THEN reader.exit ELSE 2]
    BY <1>1, <1>4
<1>6. /\ Shaped(reader') /\ reader'.at = "done" /\ reader'.verified = o
      /\ reader'.exit \in {0, 2} /\ reader'.opt = reader.opt /\ reader'.bad = reader.bad
    BY <1>3, <1>5 DEF Shaped
<1>7. StartOk' /\ (Quiet' <=> Quiet) /\ (Agrees' <=> Agrees)
    BY <1>2, OnlyReader DEF ReaderInv
<1>8. ReaderOk'
    BY <1>3, <1>6 DEF ReaderInv, ReaderOk
<1>9. (~reader.bad => seal.there) /\ (Quiet => (reader.bad <=> ~Agrees))
    BY <1>2 DEF ReaderInv, Verifying
<1>10. seal' = seal
    BY <1>2 DEF filesVars
<1>11. Verifying'
    BY <1>5, <1>6, <1>7, <1>9, <1>10 DEF Verifying, Verified
<1>12. ExportCoversStamps'
    BY <1>3, <1>6 DEF ExportCoversStamps, Exported
<1>13. ASSUME start.sealed, damage = 0
       PROVE  Asked # {} /\ (\A f \in Asked : f.form \in {"good", "odd"}) => ok(luck)
  <2>1. Quiet /\ seal.there
      BY <1>13, QuietFromStart DEF ReaderInv
  <2>2. Agrees /\ Faithful(files, rows) /\ \A f \in handed : Stored(f, files, rows)
      BY <1>13, <2>1, WholeDirectory
  <2>3. ~reader.bad
      BY <1>9, <2>1, <2>2
  <2>4. Entries = ToSet(rows)
      BY <2>2 DEF Entries, Faithful, RowHolds
  <2>5. ASSUME NEW r \in mine, \A f \in Asked : f.form # "huge" /\ Consistent(f)
        PROVE  Readable(r, luck) /\ Consistent(files[r.file].frame)
    <3>1. PICK f \in handed : RowHolds(r, files, f)
        BY <2>2, <2>4 DEF Faithful
    <3>2. f \in Asked
        BY <2>5, <3>1 DEF Asked, Wanted, RowHolds
    <3>3. r.file \in DOMAIN files /\ files[r.file].frame = f /\ files[r.file].whole
        BY <3>1 DEF RowHolds, Holding
    <3>4. f.form # "huge" /\ Consistent(f)
        BY <2>5, <3>2
    <3> QED BY <3>3, <3>4 DEF Readable
  <2>6. ASSUME NEW f \in Asked PROVE \E r \in mine : files[r.file].frame = f
    <3>1. PICK r \in ToSet(rows) : RowHolds(r, files, f)
        BY <2>2 DEF Asked, Stored
    <3>2. r \in mine
        BY <2>4, <3>1 DEF Asked, Wanted, RowHolds
    <3>3. files[r.file].frame = f
        BY <3>1 DEF RowHolds, Holding
    <3> QED BY <3>2, <3>3
  <2>7. ASSUME Asked # {}, \A f \in Asked : f.form \in {"good", "odd"} PROVE ok(luck)
    <3>1. \A f \in Asked : f.form # "huge" /\ Consistent(f)
        BY <2>7 DEF Consistent
    <3>2. mine # {}
        BY <2>6, <2>7
    <3>3. \A r \in mine : Readable(r, luck) /\ Consistent(files[r.file].frame)
        BY <2>5, <3>1
    <3> HIDE DEF mine
    <3> QED BY <2>3, <2>4, <3>2, <3>3
  <2> QED BY <2>7
<1>14. WrittenReadsBack'
  <2>1. SUFFICES ASSUME start.sealed, damage = 0
                 PROVE  Asked # {} /\ (\A f \in Asked : f.form \in {"good", "odd"}) => o
      BY <1>2, <1>6 DEF WrittenReadsBack, Asked, filesVars
  <2> HIDE DEF ok
  <2> QED BY <1>4, <1>13, <2>1
<1> QED BY <1>7, <1>8, <1>11, <1>12, <1>14 DEF ReaderInv

(* Nothing moves.                                                          *)
LEMMA ReaderStutters ==
    ASSUME ReaderInv, UNCHANGED vars
    PROVE  ReaderInv'
<1>1. UNCHANGED <<filesVars, damage, start>> /\ UNCHANGED <<reader, handed, sums, seal>>
    BY DEF vars, readerVars, filesVars
<1>2. StartOk' /\ (Quiet' <=> Quiet) /\ (Agrees' <=> Agrees)
    BY <1>1, OnlyReader DEF ReaderInv
<1>3. ReaderOk'
    BY <1>1 DEF ReaderInv, ReaderOk
<1>4. Verifying'
    BY <1>1, <1>2 DEF ReaderInv, Verifying, Verified
<1>5. WrittenReadsBack'
    BY <1>1 DEF ReaderInv, WrittenReadsBack, Verified, Asked
<1>6. ExportCoversStamps'
    BY <1>1 DEF ReaderInv, ExportCoversStamps, Exported, Asked
<1> QED BY <1>2, <1>3, <1>4, <1>5, <1>6 DEF ReaderInv

(* Whatever happens next.                                                  *)
LEMMA ReaderStep == FilesInv /\ ReaderInv /\ [Next]_vars => ReaderInv'
<1> SUFFICES ASSUME FilesInv, ReaderInv, [Next]_vars PROVE ReaderInv'
    OBVIOUS
<1>1. CASE Write
  <2>1. jobs # <<>> \/ (MarkEvent /\ UNCHANGED <<readerVars, damage>>)
      BY <1>1 DEF Write, FilesNext, StartJob, WriteRecord, FinishJob
  <2> QED BY <1>1, <2>1, ReaderDuringWrite, ReaderDuringMark
<1>2. CASE \E c \in Commands : StartReader(c)
    BY <1>2, ReaderStarts
<1>3. CASE ExportRefused
    BY <1>3, ReaderRefused
<1>4. CASE Export
    BY <1>4, ReaderExports
<1>5. CASE ReadSums
    BY <1>5, ReaderReadsSums
<1>6. CASE Compare
    BY <1>6, ReaderCompares
<1>7. CASE VerifyEntries
    BY <1>7, ReaderVerifies
<1>8. CASE Accident
    BY <1>8, ReaderAfterAccident
<1>9. CASE UNCHANGED vars
    BY <1>9, ReaderStutters
<1> QED BY <1>1, <1>2, <1>3, <1>4, <1>5, <1>6, <1>7, <1>8, <1>9 DEF Next

(* The inductive invariant holds in every state.                           *)
LEMMA InvAlways == Spec => []Inv
<1>1. Init => Inv
    BY FilesStart, ReaderStart DEF Inv
<1>2. Inv /\ [Next]_vars => Inv'
    BY FilesStep, ReaderStep DEF Inv
<1> QED BY <1>1, <1>2, PTL DEF Spec

-----------------------------------------------------------------------------
(***************************************************************************)
(* Theorems                                                                *)
(***************************************************************************)

(* Type correctness, with what writeJob's search for a free name is for:   *)
(* no two rows of manifest.csv ever name the same file, and each names one *)
(* of its own sensor and stamp.                                            *)
THEOREM ReaderTyped == Spec => []TypeOK
<1>1. Inv => TypeOK
  <2> SUFFICES ASSUME Inv PROVE TypeOK
      OBVIOUS
  <2>1. /\ outcome.state \in {"pending", "complete", "failed"}
        /\ faults \in 0..MaxFaults /\ damage \in 0..MaxDamage
        /\ pairs \in {"none", "whole", "damaged"} /\ RowsOk(rows)
      BY DEF Inv, FilesInv, Typed
  <2>2. /\ reader.at \in {"idle", "export", "sums", "compare", "entries", "done"}
        /\ reader.exit \in 0..2
      BY DEF Inv, ReaderInv, ReaderOk
  <2> QED BY <2>1, <2>2 DEF TypeOK, RowsOk
<1> QED BY <1>1, InvAlways, PTL

(* What is written reads back: --verify of a sealed directory that nothing *)
(* has befallen accepts records of the sensor asked for whose fields fit   *)
(* each other and whose size is within the reader's limit.                 *)
THEOREM WhatIsWrittenReadsBack == Spec => []WrittenReadsBack
<1>1. Inv => WrittenReadsBack
    BY DEF Inv, ReaderInv
<1> QED BY <1>1, InvAlways, PTL

(* Exit code 0 means whole, at whatever moment of the recording the reader *)
(* started and however many accidents there were.                          *)
THEOREM ExitZeroIsWhole == Spec => []ExitZeroMeansWhole
<1>1. Inv => ExitZeroMeansWhole
  <2> SUFFICES ASSUME Inv, Verified, reader.verified
               PROVE  /\ seal.there
                      /\ \A f \in handed : \E n \in DOMAIN seal.files :
                             /\ seal.files[n] = Holding(f)
                             /\ \E r \in ToSet(seal.rows) : r.file = n
                      /\ start.sealed /\ start.damage = damage => (start.data <=> start.sums)
      BY DEF ExitZeroMeansWhole
  <2>1. seal.there /\ (Quiet => Agrees)
      BY DEF Inv, ReaderInv, Verifying
  <2>2. ASSUME NEW f \in handed
        PROVE  \E n \in DOMAIN seal.files : /\ seal.files[n] = Holding(f)
                                            /\ \E r \in ToSet(seal.rows) : r.file = n
    <3>1. Stored(f, seal.files, seal.rows)
        BY <2>1 DEF Inv, FilesInv, Sealed
    <3>2. PICK r \in ToSet(seal.rows) : r.file \in DOMAIN seal.files
                                        /\ seal.files[r.file] = Holding(f)
        BY <3>1 DEF Stored, RowHolds
    <3> QED BY <3>2
  <2>3. ASSUME start.sealed, start.damage = damage PROVE start.data <=> start.sums
    <3>1. (start.data <=> ~MatchesListing(seal)) /\ (start.sums <=> sums # seal)
        BY <2>3 DEF Inv, ReaderInv, StartOk, Quiet
    <3>2. Agrees
        BY <2>1, <2>3 DEF Quiet
    <3>3. ASSUME sums = seal PROVE MatchesListing(seal)
        BY <3>2, <3>3 DEF Agrees
    <3>4. ASSUME MatchesListing(seal) PROVE sums = seal
      <4>1. /\ sums.files = seal.files /\ sums.rows = seal.rows /\ sums.pairs = seal.pairs
            /\ sums.there /\ ~sums.garbled
          BY <3>2, <3>4 DEF Agrees, MatchesListing
      <4>2. ListingOk(sums) /\ ListingOk(seal) /\ seal.there /\ ~seal.garbled
          BY <2>1 DEF Inv, FilesInv, Typed, Sealed
      <4> QED BY <4>1, <4>2 DEF ListingOk
    <3> QED BY <3>1, <3>3, <3>4
  <2> QED BY <2>1, <2>2, <2>3
<1> QED BY <1>1, InvAlways, PTL

(* Exporting a sealed directory that nothing has befallen: only a record   *)
(* that cannot be shown or a file that cannot be written ends it with 2,   *)
(* and 0 without a limit leaves a file for every stamp.                    *)
THEOREM ExportLeavesNoStampOut == Spec => []ExportCoversStamps
<1>1. Inv => ExportCoversStamps
    BY DEF Inv, ReaderInv
<1> QED BY <1>1, InvAlways, PTL

(* A record is never lost silently: once manifest.sha256 has been written, *)
(* what it lists holds every frame of the jobs that the options ask for,   *)
(* and every row stands for one of them, until an accident.                *)
THEOREM SealedHoldsEverything ==
    Spec => [](seal.there =>
                   /\ \A f \in handed : Stored(f, seal.files, seal.rows)
                   /\ Faithful(seal.files, seal.rows)
                   /\ damage = 0 => sums = seal /\ MatchesListing(seal))
<1>1. Inv => (seal.there =>
                  /\ \A f \in handed : Stored(f, seal.files, seal.rows)
                  /\ Faithful(seal.files, seal.rows)
                  /\ damage = 0 => sums = seal /\ MatchesListing(seal))
    BY DEF Inv, FilesInv, Sealed
<1> QED BY <1>1, InvAlways, PTL
=============================================================================
