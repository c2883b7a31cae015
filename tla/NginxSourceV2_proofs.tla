------------------------ MODULE NginxSourceV2_proofs ------------------------
(***************************************************************************)
(* One nginx lane for any number of files, lines, payloads, faults and       *)
(* requests in flight.  What carries the proof is that the ledger between     *)
(* the confirmed offset and the accepted one is a partition whose cuts the   *)
(* saved cursor knows, that a registration Monitor has not acknowledged is   *)
(* the only one it can still accept, and that a marker is cleared only when  *)
(* both ends are at the same offset.                                         *)
(***************************************************************************)
EXTENDS NginxSourceV2, FiniteSetTheorems, SequenceTheorems, TLAPS

NginxConstants ==
  /\ MaxFiles \in Nat \ {0} /\ MaxSize \in Nat \ {0} /\ Turns \in Nat \ {0}
  /\ Deletable \subseteq File

-----------------------------------------------------------------------------
(* The inductive invariant, in the parts that a step disturbs together.      *)

\* Steps of a cycle behind the registration, and those that are about one file.
Working == {"recover", "ask", "rows", "confirm", "select", "post"}
OnFile == {"ask", "rows", "confirm", "post"}
\* The values the state consists of.
Manifests == [files : Seq(File), cuts : Seq(Nat)]
Stages == {"none", "active", "quiescent", "missing", "retired"}
Entries == [acked : 0 .. MaxSize, obs : 0 .. MaxSize, st : Stages, pend : BOOLEAN,
            seen : 0 .. MaxFiles]
Cursors == [order : Seq(File), man : Manifests, cur : 0 .. MaxFiles, rr : 0 .. (Turns - 1),
            f : [File -> Entries]]
Rows == [f : File, s : 0 .. MaxSize, e : 0 .. MaxSize, p : Payload]
Directories == [size : [File -> 0 .. MaxSize], cur : File, fd : File, present : SUBSET File,
                bound : 0 .. MaxFiles, released : SUBSET File, proofs : 0 .. MaxFiles]
Servers == [man : Manifests, next : [File -> 0 .. MaxSize], conf : [File -> 0 .. MaxSize],
            ranges : SUBSET Rows, count : [File -> [1 .. MaxSize -> Nat]]]
Jobs == [f : File \cup {0}, e : 0 .. MaxSize, ctx : {"none", "ensure", "post"}]
Requests == [t : {"manifest"}, files : Seq(File)]
            \cup [t : {"files"}, prev : Manifests, files : Seq(File)]
            \cup [t : {"range"}, f : File, s : 0 .. MaxSize, e : 0 .. MaxSize, p : Payload]
            \cup [t : {"confirm"}, f : File, at : 0 .. MaxSize]

Shape ==
  /\ dir \in Directories /\ srv \in Servers /\ net \subseteq Requests
  /\ disk \in Cursors /\ w \in Cursors /\ job \in Jobs /\ reply \in {"none", "ok", "refused"}
  /\ pc \in {"idle", "manifest", "resume", "files"} \cup Working

\* The files are numbered as they were created, and the hook has run once for each it released.
Numbered ==
  /\ dir.cur \in dir.present /\ \A f \in dir.present : f <= dir.cur
  /\ dir.fd \in {dir.cur - 1, dir.cur} /\ dir.proofs < dir.fd /\ dir.bound <= dir.cur
  /\ \A f \in Tracked(disk) : f <= dir.cur

\* No row of the ledger lies across this offset.
Cut(f, o) == \A r \in Ranges(f) : ~ (r.s < o /\ o < r.e)

\* The ledger covers what is counted and not confirmed, once.
Covers(f) ==
  /\ \A r \in Ranges(f) : srv.conf[f] <= r.s /\ r.s < r.e /\ r.e <= srv.next[f]
  /\ \A o \in srv.conf[f] .. (srv.next[f] - 1) : \E r \in Ranges(f) : r.s <= o /\ o < r.e
  /\ \A r, q \in Ranges(f) : r.s < q.e /\ q.s < r.e => r = q

\* The watermarks of a file with this entry in a cursor, from Monitor's pruned rows to nginx's
\* file: the entry is at an end of a row, and without a marker all it acknowledges is confirmed.
Sound(f, x) ==
  /\ srv.conf[f] <= x.acked /\ x.acked <= srv.next[f]
  /\ srv.next[f] <= x.obs /\ x.obs <= dir.size[f]
  /\ Cut(f, x.acked)
  /\ ~x.pend => srv.conf[f] = x.acked
  /\ x.st = "retired" => ~x.pend

Ordered(f) == Sound(f, disk.f[f]) /\ (f \notin Tracked(disk) => disk.f[f] = NoEntry)

\* The manifest of a cursor lists the files it tracks up to some place.
Prefix(c) == Len(c.man.files) <= Len(c.order) /\ c.man.files = SubSeq(c.order, 1, Len(c.man.files))

\* Monitor's files are those of the saved manifest, or with the registration that is under way.
Registered ==
  /\ Prefix(disk)
  /\ disk.man # NoManifest <=> disk.man.files # <<>>
  /\ \/ srv.man = disk.man
     \/ Unregistered(disk) # <<>> /\ srv.man = Extended(disk.man, Unregistered(disk))
  /\ disk = NoCursor => net = {} /\ pc = "idle"
  /\ disk # NoCursor => disk.order # <<>>
  /\ dir.cur \in Tracked(disk) => disk.order[Len(disk.order)] = dir.cur

\* What a request says of the cursor: a registration is the present one or too old to do anything.
Sent(m) ==
  /\ m.t = "manifest" => (disk.man = NoManifest => m.files = disk.order)
  /\ m.t = "files" =>
       /\ disk.man # NoManifest
       /\ \/ Len(m.prev.files) < Len(disk.man.files)
          \/ m.prev = disk.man /\ m.files = Unregistered(disk) /\ m.files # <<>>
  /\ m.t = "range" => m.s < m.e /\ m.e <= disk.f[m.f].obs
  /\ m.t = "confirm" => m.at <= disk.f[m.f].acked

\* The working copy differs from the saved cursor in markers that are cleared already.
Copied ==
  /\ w.order = disk.order /\ w.man = disk.man /\ w.cur = disk.cur /\ w.rr = disk.rr
  /\ \A f \in File :
       /\ w.f[f] = [disk.f[f] EXCEPT !.pend = w.f[f].pend]
       /\ w.f[f].pend => disk.f[f].pend
       /\ Sound(f, w.f[f])

\* What each step of a cycle knows.
Registering ==
  /\ pc = "manifest" =>
       /\ disk.man = NoManifest /\ await = [t |-> "manifest", files |-> disk.order]
       /\ reply # "refused" /\ (reply = "ok" => srv.man = Extended(NoManifest, disk.order))
  /\ pc = "resume" => disk.man # NoManifest
  /\ pc = "files" =>
       /\ disk.man # NoManifest /\ Unregistered(disk) # <<>>
       /\ await = [t |-> "files", prev |-> disk.man, files |-> Unregistered(disk)]
       /\ reply # "refused" /\ (reply = "ok" => srv.man = Extended(disk.man, Unregistered(disk)))
  /\ pc \in Working => disk.man # NoManifest /\ disk.man.files = disk.order
  /\ pc \in {"files"} \cup Working => disk.cur = disk.order[Len(disk.order)]

Delivering ==
  /\ pc \in OnFile => job.f \in Tracked(disk) /\ w.f[job.f].pend
  /\ pc = "rows" =>
       disk.f[job.f].acked < job.e /\ job.e <= srv.next[job.f] /\ Cut(job.f, job.e)
  /\ pc = "confirm" =>
       /\ job.e = disk.f[job.f].acked /\ await = ConfirmMsg(job.f, job.e)
       /\ reply # "refused" /\ (reply = "ok" => srv.conf[job.f] = job.e)
  /\ pc = "post" =>
       /\ disk.f[job.f].acked < job.e
       /\ \E p \in Payload :
            await = [t |-> "range", f |-> job.f, s |-> disk.f[job.f].acked, e |-> job.e, p |-> p]
       /\ reply = "ok" => job.e <= srv.next[job.f] /\ Cut(job.f, job.e)
  /\ pc = "select" => Pending(w) = {}

LaneInv ==
  /\ Shape /\ Numbered /\ Registered
  /\ CountedOnce
  /\ \A f \in File : Covers(f) /\ Ordered(f)
  /\ \A m \in net : Sent(m)
  /\ pc # "idle" => Copied
  /\ Registering /\ Delivering
\* What a step does to the acknowledged offsets: nothing, or it moves one of them over what
\* Monitor has counted.
Kept == \A f \in File : disk'.f[f].acked = disk.f[f].acked
Acknowledges ==
  \E g \in File : \E e \in (disk.f[g].acked + 1) .. srv.next[g] :
    \A f \in File : disk'.f[f].acked = IF f = g THEN e ELSE disk.f[f].acked
-----------------------------------------------------------------------------
(* Sets and sequences of files.                                              *)

\* A set of numbers that is not empty has a least one.
LEMMA Least == ASSUME NEW S \in SUBSET Nat, S # {} PROVE \E x \in S : \A y \in S : x <= y
  <1> DEFINE R == {ss \in Nat \X Nat : ss[1] < ss[2]}
  <1>1. IsWellFoundedOn(R, Nat)
    BY ONLY NatLessThanWellFounded, Zenon DEF OpToRel
  <1>2. PICK x \in S : \A y \in S : ~ (<<y, x>> \in R)
    <2> HIDE DEF R
    <2> QED
      BY <1>1, WFMin
  <1>3. ASSUME NEW y \in S PROVE x <= y
    <2>1. \A a, b \in Nat : a < b => <<a, b>> \in R
      OBVIOUS
    <2>2. ~ (<<y, x>> \in R)
      BY <1>2
    <2> HIDE DEF R
    <2> QED
      BY <2>1, <2>2
  <1> QED
    BY <1>3

\* The elements of a sequence.
LEMMA ElemsIn == ASSUME NEW S, NEW s \in Seq(S) PROVE Elems(s) \subseteq S
  BY DEF Elems

\* The elements of two sequences joined are those of both.
LEMMA ElemsJoined ==
  ASSUME NEW S, NEW s \in Seq(S), NEW t \in Seq(S)
  PROVE  Elems(s \o t) = Elems(s) \cup Elems(t)
  <1>1. /\ Len(s \o t) = Len(s) + Len(t) /\ Len(s) \in Nat /\ Len(t) \in Nat
        /\ \A i \in 1 .. Len(s) + Len(t) :
              (s \o t)[i] = IF i <= Len(s) THEN s[i] ELSE t[i - Len(s)]
    BY ConcatProperties, LenProperties
  <1>2. ASSUME NEW x \in Elems(s) PROVE x \in Elems(s \o t)
    BY <1>1, <1>2 DEF Elems
  <1>3. ASSUME NEW x \in Elems(t) PROVE x \in Elems(s \o t)
    <2>1. PICK i \in 1 .. Len(t) : x = t[i]
      BY <1>3 DEF Elems
    <2>2. i + Len(s) \in 1 .. Len(s) + Len(t) /\ (s \o t)[i + Len(s)] = x
      BY <1>1, <2>1
    <2> QED
      BY <1>1, <2>2 DEF Elems
  <1>4. ASSUME NEW x \in Elems(s \o t) PROVE x \in Elems(s) \cup Elems(t)
    <2>1. PICK i \in 1 .. Len(s) + Len(t) : x = (s \o t)[i]
      BY <1>1, <1>4 DEF Elems
    <2>2. CASE i <= Len(s)
      BY <1>1, <2>1, <2>2 DEF Elems
    <2>3. CASE i > Len(s)
      <3>1. i - Len(s) \in 1 .. Len(t) /\ x = t[i - Len(s)]
        BY <1>1, <2>1, <2>3
      <3> QED
        BY <3>1 DEF Elems
    <2> QED
      BY <1>1, <2>1, <2>2, <2>3
  <1> QED
    BY <1>2, <1>3, <1>4

\* The last element of two sequences joined is that of the second.
LEMMA LastJoined ==
  ASSUME NEW S, NEW s \in Seq(S), NEW t \in Seq(S), t # <<>>
  PROVE  (s \o t)[Len(s \o t)] = t[Len(t)]
  <1>1. Len(t) \in Nat /\ Len(t) # 0 /\ Len(s) \in Nat
    BY LenProperties, EmptySeq
  <1>2. /\ Len(s \o t) = Len(s) + Len(t)
        /\ (s \o t)[Len(s) + Len(t)] = t[Len(s) + Len(t) - Len(s)]
    <2>1. Len(s) + Len(t) \in 1 .. Len(s) + Len(t) /\ ~ (Len(s) + Len(t) <= Len(s))
      BY <1>1
    <2> QED
      BY <2>1, ConcatProperties
  <1>3. Len(s) + Len(t) - Len(s) = Len(t)
    BY <1>1
  <1> QED
    BY <1>2, <1>3

\* A set of files, listed in the order of their numbers, is listed whole.
LEMMA Listed ==
  ASSUME NginxConstants, NEW S \in SUBSET File
  PROVE  /\ InOrder(S) \in Seq(S) /\ InOrder(S) \in Seq(File)
         /\ Elems(InOrder(S)) = S
         /\ InOrder(S) = <<>> <=> S = {}
  <1> DEFINE Below(x) == {y \in S : y <= x}
             n == Cardinality(S)
             rank == [x \in S |-> Cardinality(Below(x))]
  <1>1. IsFiniteSet(S) /\ n \in Nat
    <2>1. IsFiniteSet(File)
      BY FS_Interval DEF NginxConstants, File
    <2> QED
      BY <2>1, FS_Subset, FS_CardinalityType
  <1> S \subseteq Nat
    BY DEF NginxConstants, File
  <1>2. ASSUME NEW x \in S
        PROVE  /\ Below(x) \in SUBSET S /\ IsFiniteSet(Below(x)) /\ x \in Below(x)
               /\ Cardinality(Below(x)) \in 1 .. n
    <2>1. Below(x) \in SUBSET S /\ x \in Below(x)
      OBVIOUS
    <2>2. IsFiniteSet(Below(x)) /\ Cardinality(Below(x)) <= n
      BY <1>1, <2>1, FS_Subset
    <2>3. Cardinality(Below(x)) \in Nat /\ Cardinality(Below(x)) # 0
      BY <2>1, <2>2, FS_CardinalityType, FS_EmptySet
    <2> QED
      BY <1>1, <2>1, <2>2, <2>3
  <1>3. ASSUME NEW x \in S, NEW y \in S, Cardinality(Below(x)) = Cardinality(Below(y))
        PROVE  x = y
    <2>1. ASSUME NEW a \in S, NEW b \in S, a < b, Cardinality(Below(a)) = Cardinality(Below(b))
          PROVE  FALSE
      <3>1. a \in Nat /\ b \in Nat
        OBVIOUS
      <3>2. \A z \in Below(a) : z \in Below(b)
        BY <2>1, <3>1
      <3>3. b \in Below(b) /\ b \notin Below(a)
        BY <2>1, <3>1
      <3>4. Below(b) = Below(a)
        <4> HIDE DEF Below
        <4> QED
          BY <1>2, <2>1, <3>2, FS_Subset
      <3> QED
        BY <3>3, <3>4
    <2> QED
      BY <1>3, <2>1
  <1>4. rank \in Injection(S, 1 .. n)
    <2>1. rank \in [S -> 1 .. n]
      BY <1>2
    <2>2. \A x, y \in S : rank[x] = rank[y] => x = y
      BY <1>3
    <2> HIDE DEF rank
    <2> QED
      BY <2>1, <2>2, Zenon DEF Injection, IsInjective
  <1>5. rank \in Surjection(S, 1 .. n)
    <2>1. IsFiniteSet(1 .. n) /\ Cardinality(1 .. n) = n
      BY <1>1, FS_Interval
    <2> HIDE DEF rank
    <2> QED
      BY <1>4, <2>1, FS_Injection
  <1>6. \A i \in 1 .. n : \E x \in S : Cardinality(Below(x)) = i
    BY <1>5 DEF Surjection
  <1>7. \A i \in 1 .. n : InOrder(S)[i] \in S /\ Cardinality(Below(InOrder(S)[i])) = i
    BY <1>6 DEF InOrder
  <1>8. InOrder(S) \in [1 .. n -> S]
    BY <1>7 DEF InOrder
  <1>9. InOrder(S) \in Seq(S) /\ Len(InOrder(S)) = n
    BY <1>1, <1>8
  <1>10. ASSUME NEW x \in S PROVE x \in Elems(InOrder(S))
    <2>1. Cardinality(Below(x)) \in 1 .. n
      BY <1>2
    <2>2. InOrder(S)[Cardinality(Below(x))] = x
      BY <1>3, <1>7, <2>1
    <2> QED
      BY <1>9, <2>1, <2>2 DEF Elems
  <1>11. Elems(InOrder(S)) = S
    BY <1>9, <1>10, ElemsIn
  <1>12. InOrder(S) = <<>> <=> n = 0
    BY <1>9
  <1>13. n = 0 <=> S = {}
    BY <1>1, FS_EmptySet
  <1>14. InOrder(S) \in Seq(File)
    BY <1>9, SeqMonotonic
  <1> QED
    BY <1>9, <1>11, <1>12, <1>13, <1>14
-----------------------------------------------------------------------------
(* What the invariant says, and where it begins.                             *)

\* Before a cursor is saved there is nothing.
LEMMA NoCursorTyped ==
  NginxConstants => NoEntry \in Entries /\ NoManifest \in Manifests /\ NoCursor \in Cursors
  <1> SUFFICES ASSUME NginxConstants
               PROVE  NoEntry \in Entries /\ NoManifest \in Manifests /\ NoCursor \in Cursors
    OBVIOUS
  <1>1. NoEntry \in Entries
    BY DEF NoEntry, Entries, Stages, NginxConstants
  <1>2. NoManifest \in Manifests
    BY DEF NoManifest, Manifests
  <1>3. NoCursor \in Cursors
    BY <1>1, <1>2 DEF NoCursor, Cursors, NginxConstants
  <1> QED
    BY <1>1, <1>2, <1>3

\* Nothing is listed, tracked or unregistered in it.
LEMMA NoCursorIsEmpty ==
  /\ NoCursor.order = <<>> /\ NoCursor.man = NoManifest /\ NoManifest.files = <<>>
  /\ Tracked(NoCursor) = {} /\ Elems(<<>>) = {}
  /\ \A f \in File : NoCursor.f[f] = NoEntry
  <1>1. NoCursor.order = <<>> /\ NoCursor.man = NoManifest /\ NoManifest.files = <<>>
    BY DEF NoCursor, NoManifest
  <1>2. Elems(<<>>) = {}
    BY DEF Elems
  <1> QED
    BY <1>1, <1>2 DEF Tracked, NoCursor

\* The invariant holds before anything is written, sent or saved.
LEMMA InvFirst == NginxConstants => (Init => LaneInv)
  <1> SUFFICES ASSUME NginxConstants, Init PROVE LaneInv
    OBVIOUS
  <1> USE NoCursorTyped, NoCursorIsEmpty
  <1>1. 1 \in File /\ 0 \in 0 .. MaxSize /\ 0 \in 0 .. MaxFiles
    BY DEF NginxConstants, File
  <1>2. Shape
    <2>1. dir \in Directories
      BY <1>1 DEF Init, Directories
    <2>2. srv \in Servers
      BY <1>1 DEF Init, Servers
    <2>3. job \in Jobs
      BY <1>1 DEF Init, Jobs, NoJob
    <2> QED
      BY <2>1, <2>2, <2>3 DEF Init, Shape
  <1>3. Numbered
    BY DEF Init, Numbered
  <1>4. CountedOnce
    BY DEF Init, CountedOnce
  <1>5. Registered
    <2>1. disk.man.files = <<>> /\ disk.order = <<>> /\ srv.man = disk.man /\ dir.cur \notin Tracked(disk)
      BY DEF Init
    <2>2. <<>> = SubSeq(<<>>, 1, Len(<<>>))
      OBVIOUS
    <2> QED
      BY <2>1, <2>2 DEF Init, Registered, Prefix
  <1>6. \A f \in File : Covers(f) /\ Ordered(f)
    BY <1>1 DEF Init, Covers, Ordered, Sound, Cut, Ranges, NoEntry
  <1>7. Registering /\ Delivering
    BY DEF Init, Registering, Delivering, Working, OnFile
  <1> QED
    BY <1>2, <1>3, <1>4, <1>5, <1>6, <1>7 DEF LaneInv, Init
-----------------------------------------------------------------------------
(* The files both ends know.                                                 *)

\* What is listed and what is not yet make up the files of the cursor.
LEMMA Unlisted ==
  ASSUME NEW c \in Cursors, Prefix(c)
  PROVE  /\ Unregistered(c) \in Seq(File)
         /\ Len(Unregistered(c)) = Len(c.order) - Len(c.man.files)
         /\ c.man.files \o Unregistered(c) = c.order
         /\ Unregistered(c) = <<>> <=> c.man.files = c.order
         /\ c.man.files = <<>> => Unregistered(c) = c.order
  <1> DEFINE s == c.order
             k == Len(c.man.files)
  <1>1. s \in Seq(File) /\ c.man.files \in Seq(File) /\ k \in Nat /\ Len(s) \in Nat /\ k <= Len(s)
    BY DEF Cursors, Manifests, Prefix
  <1>2. c.man.files = SubSeq(s, 1, k) /\ Unregistered(c) = SubSeq(s, k + 1, Len(s))
    BY DEF Prefix, Unregistered
  <1>3. \A i \in k + 1 .. Len(s) : s[i] \in File
    BY <1>1
  <1> HIDE DEF s, k
  <1>4. Unregistered(c) \in Seq(File) /\ Len(Unregistered(c)) = Len(s) - k
    <2>1. k + 1 \in Int /\ Len(s) \in Int
      BY <1>1
    <2>2. /\ SubSeq(s, k + 1, Len(s)) \in Seq(File)
          /\ Len(SubSeq(s, k + 1, Len(s))) = IF k + 1 <= Len(s) THEN Len(s) - (k + 1) + 1 ELSE 0
      BY <1>3, <2>1, SubSeqProperties
    <2> QED
      BY <1>1, <1>2, <2>2
  <1>5. SubSeq(s, 1, k) \o SubSeq(s, k + 1, Len(s)) = SubSeq(s, 1, Len(s))
    <2>1. 1 \in 1 .. Len(s) + 1 /\ k \in 1 - 1 .. Len(s) /\ Len(s) \in k .. Len(s)
      BY <1>1
    <2> QED
      BY <1>1, <2>1, ConcatAdjacentSubSeq
  <1>6. SubSeq(s, 1, Len(s)) = s
    BY <1>1, SubSeqFull
  <1>7. c.man.files \o Unregistered(c) = s
    BY <1>2, <1>5, <1>6
  <1>8. Unregistered(c) = <<>> <=> k = Len(s)
    BY <1>1, <1>4
  <1>9. k = Len(s) <=> c.man.files = s
    BY <1>1, <1>2, <1>6 DEF k
  <1>10. c.man.files = <<>> => Unregistered(c) = s
    <2>1. c.man.files = <<>> => k = 0
      BY DEF k
    <2>2. ASSUME k = 0 PROVE Unregistered(c) = s
      <3>1. k + 1 = 1
        BY <2>2
      <3> QED
        BY <1>2, <1>6, <3>1
    <2> QED
      BY <2>1, <2>2
  <1> QED
    BY <1>4, <1>7, <1>8, <1>9, <1>10 DEF s, k

\* An extended manifest is a manifest.
LEMMA ExtendedTyped ==
  ASSUME NEW man \in Manifests, NEW files \in Seq(File)
  PROVE  /\ Extended(man, files) \in Manifests
         /\ Extended(man, files).files = man.files \o files
         /\ Len(Extended(man, files).files) = Len(man.files) + Len(files)
         /\ Extended(man, files) # NoManifest
  <1>1. man.files \in Seq(File) /\ man.cuts \in Seq(Nat) /\ Len(files) \in Nat
    BY DEF Manifests
  <1>2. man.files \o files \in Seq(File) /\ Len(man.files \o files) = Len(man.files) + Len(files)
    BY <1>1, ConcatProperties
  <1>3. /\ Append(man.cuts, Len(files)) \in Seq(Nat)
        /\ Append(man.cuts, Len(files)) # <<>>
    BY <1>1
  <1> QED
    BY <1>2, <1>3 DEF Extended, Manifests, NoManifest

\* What Monitor can know while a cursor is saved.
LEMMA Known ==
  ASSUME Shape, Registered
  PROVE  /\ disk \in Cursors /\ Prefix(disk) /\ disk.man \in Manifests /\ disk.order \in Seq(File)
         /\ srv.man = NoManifest => disk.man = NoManifest
         /\ srv.man = disk.man \/ srv.man.files = disk.order
         /\ Len(srv.man.files) >= Len(disk.man.files)
         /\ NoManifest.files = <<>>
  <1>1. /\ disk \in Cursors /\ Prefix(disk) /\ disk.man \in Manifests /\ disk.order \in Seq(File)
        /\ disk.man.files \in Seq(File)
    BY DEF Shape, Registered, Prefix, Cursors, Manifests
  <1>2. CASE srv.man = disk.man
    BY <1>1, <1>2 DEF NoManifest
  <1>3. CASE srv.man # disk.man
    <2>1. srv.man = Extended(disk.man, Unregistered(disk))
      BY <1>3 DEF Registered
    <2>2. /\ Unregistered(disk) \in Seq(File)
          /\ disk.man.files \o Unregistered(disk) = disk.order
      BY <1>1, Unlisted
    <2>3. srv.man.files = disk.order /\ srv.man # NoManifest
      BY <1>1, <2>1, <2>2, ExtendedTyped
    <2>4. Len(disk.order) >= Len(disk.man.files)
      BY <1>1 DEF Prefix
    <2> QED
      BY <1>1, <2>3, <2>4 DEF NoManifest
  <1> QED
    BY <1>2, <1>3
-----------------------------------------------------------------------------
(* Requests.                                                                 *)

\* A registration that Monitor executes is the one under way, or it changes nothing.
LEMMA RegistrationHandled ==
  ASSUME NginxConstants, LaneInv, NEW m \in net, m.t \in {"manifest", "files"}
  PROVE  /\ \/ Handled(m).srv = srv
            \/ /\ srv.man = disk.man /\ Unregistered(disk) # <<>>
               /\ Handled(m).srv = [srv EXCEPT !.man = Extended(disk.man, Unregistered(disk))]
         /\ pc = "manifest" /\ m = await =>
               Handled(m).ok /\ Handled(m).srv.man = Extended(NoManifest, disk.order)
         /\ pc = "files" /\ m = await =>
               Handled(m).ok /\ Handled(m).srv.man = Extended(disk.man, Unregistered(disk))
  <1> DEFINE new == Unregistered(disk)
  <1>1. /\ Shape /\ Registered /\ Sent(m) /\ Registering /\ disk # NoCursor /\ disk.order # <<>>
        /\ srv \in Servers
    BY DEF LaneInv, Registered, Shape
  <1>2. /\ disk \in Cursors /\ Prefix(disk) /\ disk.man \in Manifests /\ disk.order \in Seq(File)
        /\ srv.man = NoManifest => disk.man = NoManifest
        /\ Len(srv.man.files) >= Len(disk.man.files)
        /\ NoManifest.files = <<>>
    BY <1>1, Known
  <1>3. /\ new \in Seq(File)
        /\ disk.man = NoManifest => new = disk.order
        /\ disk.man # NoManifest => disk.man.files # <<>>
    BY <1>1, <1>2, Unlisted DEF Registered
  <1>4. /\ Extended(disk.man, new) # NoManifest
        /\ Extended(disk.man, new).files = disk.man.files \o new
        /\ Len(Extended(disk.man, new).files) = Len(disk.man.files) + Len(new)
    BY <1>2, <1>3, ExtendedTyped
  <1>5. srv.man = disk.man \/ (new # <<>> /\ srv.man = Extended(disk.man, new))
    BY <1>1 DEF Registered
  <1>6. CASE m.t = "manifest"
    <2>1. Handled(m) = RegisterManifest(m)
      BY <1>6 DEF Handled
    <2>2. disk.man = NoManifest => m.files = disk.order /\ new = m.files
      BY <1>1, <1>3, <1>6 DEF Sent
    <2>3. pc # "files" \/ m # await
      BY <1>1, <1>6 DEF Registering
    <2>4. CASE disk.man = NoManifest
      <3>1. CASE srv.man = NoManifest
        <4>1. Handled(m) = Accepted([srv EXCEPT !.man = Extended(NoManifest, m.files)])
          BY <1>4, <2>1, <2>2, <2>4, <3>1 DEF RegisterManifest
        <4>2. /\ Handled(m).ok
              /\ Handled(m).srv = [srv EXCEPT !.man = Extended(disk.man, new)]
          BY <2>2, <2>4, <4>1 DEF Accepted
        <4>3. Handled(m).srv.man = Extended(NoManifest, disk.order)
          BY <1>1, <2>2, <2>4, <4>2 DEF Servers
        <4> QED
          BY <1>1, <2>2, <2>3, <2>4, <3>1, <4>2, <4>3
      <3>2. CASE srv.man # NoManifest
        <4>1. srv.man = Extended(NoManifest, m.files)
          BY <1>5, <2>2, <2>4, <3>2
        <4>2. Handled(m) = Accepted(srv)
          BY <2>1, <3>2, <4>1 DEF RegisterManifest
        <4> QED
          BY <2>2, <2>3, <2>4, <4>1, <4>2 DEF Accepted
      <3> QED
        BY <3>1, <3>2
    <2>5. CASE disk.man # NoManifest
      <3>1. srv.man # NoManifest /\ pc # "manifest"
        BY <1>1, <1>2, <2>5 DEF Registering
      <3>2. Handled(m).srv = srv
        BY <2>1, <3>1 DEF RegisterManifest, Accepted, Refused
      <3> QED
        BY <2>3, <3>1, <3>2
    <2> QED
      BY <2>4, <2>5
  <1>7. CASE m.t = "files"
    <2>1. Handled(m) = RegisterFiles(m)
      BY <1>7 DEF Handled
    <2>2. pc # "manifest" \/ m # await
      BY <1>1, <1>7 DEF Registering
    <2>3. disk.man # NoManifest /\ srv.man # NoManifest
      BY <1>1, <1>2, <1>7 DEF Sent
    <2>4. CASE m.prev = disk.man /\ m.files = new
      <3>1. CASE srv.man = disk.man /\ new # <<>>
        <4>1. Handled(m) = Accepted([srv EXCEPT !.man = Extended(disk.man, new)])
          BY <1>2, <2>1, <2>3, <2>4, <3>1 DEF RegisterFiles
        <4>2. /\ Handled(m).ok
              /\ Handled(m).srv = [srv EXCEPT !.man = Extended(disk.man, new)]
          BY <4>1 DEF Accepted
        <4>3. Handled(m).srv.man = Extended(disk.man, new)
          BY <1>1, <4>2 DEF Servers
        <4> QED
          BY <2>2, <3>1, <4>2, <4>3
      <3>2. CASE srv.man # disk.man
        <4>1. srv.man = Extended(disk.man, new) /\ Len(new) > 0
          BY <1>3, <1>5, <3>2
        <4>2. Len(srv.man.files) > Len(m.prev.files)
          BY <1>2, <1>4, <2>4, <4>1 DEF Manifests
        <4>3. SameRegistration(m)
          BY <2>4, <4>1 DEF SameRegistration
        <4>4. Handled(m) = Accepted(srv)
          BY <2>1, <2>3, <4>2, <4>3 DEF RegisterFiles
        <4> QED
          BY <2>2, <4>1, <4>4 DEF Accepted
      <3>3. new # <<>>
        BY <1>1, <1>2, <1>7, <2>4 DEF Sent
      <3> QED
        BY <3>1, <3>2, <3>3
    <2>5. CASE Len(m.prev.files) < Len(disk.man.files)
      <3>1. Len(srv.man.files) > Len(m.prev.files)
        <4>1. Len(disk.man.files) \in Nat /\ Len(srv.man.files) \in Nat /\ Len(m.prev.files) \in Nat
          BY <1>1, <1>2, <1>7 DEF Shape, Requests, Manifests, Servers
        <4> QED
          BY <1>2, <2>5, <4>1
      <3>2. Handled(m).srv = srv
        BY <2>1, <2>3, <3>1 DEF RegisterFiles, Accepted, Refused
      <3>3. pc # "files" \/ m # await
        BY <1>1, <1>2, <2>5 DEF Registering, Manifests
      <3> QED
        BY <2>2, <3>2, <3>3
    <2> QED
      BY <1>1, <1>7, <2>4, <2>5 DEF Sent
  <1> QED
    BY <1>6, <1>7

\* The parts of the invariant that depend on other things than a step has changed.
LEMMA LedgerKept ==
  ASSUME srv'.next = srv.next, srv'.conf = srv.conf, srv'.ranges = srv.ranges, dir'.size = dir.size
  PROVE  \A f \in File : /\ (Covers(f) => Covers(f)') /\ \A x : Sound(f, x) => Sound(f, x)'
                         /\ \A o : Cut(f, o) => Cut(f, o)'
  BY DEF Covers, Sound, Cut, Ranges

\* A registration, the present one or an old one, keeps the invariant (registerNginxSourceManifestV2,
\* registerNginxSourceFileV2).
LEMMA RegisterStep ==
  ASSUME NginxConstants, LaneInv, NEW m \in net, m.t \in {"manifest", "files"}, Deliver(m)
  PROVE  LaneInv'
  <1> DEFINE new == Unregistered(disk)
  <1>1. /\ Shape /\ Registered /\ Registering /\ Delivering /\ srv \in Servers
        /\ disk \in Cursors /\ Prefix(disk) /\ disk.man \in Manifests /\ disk.order \in Seq(File)
    BY Known DEF LaneInv, Shape
  <1>2. /\ UNCHANGED <<dir, net, disk, pc, w, job, await, faults>>
        /\ srv' = Handled(m).srv
        /\ reply' = IF m = await THEN (IF Handled(m).ok THEN "ok" ELSE "refused") ELSE reply
    BY DEF Deliver
  <1>3. \/ srv' = srv
        \/ /\ srv.man = disk.man /\ new # <<>>
           /\ srv' = [srv EXCEPT !.man = Extended(disk.man, new)]
    BY <1>2, RegistrationHandled
  <1>4. new \in Seq(File) /\ Extended(disk.man, new) \in Manifests
    BY <1>1, Unlisted, ExtendedTyped
  <1>5. /\ srv' \in Servers /\ srv'.next = srv.next /\ srv'.conf = srv.conf
        /\ srv'.ranges = srv.ranges /\ srv'.count = srv.count
        /\ srv'.man = srv.man \/ (new # <<>> /\ srv'.man = Extended(disk.man, new))
    BY <1>1, <1>3, <1>4 DEF Servers
  <1>6. Shape'
    BY <1>1, <1>2, <1>5 DEF Shape
  <1>7. Numbered'
    BY <1>2 DEF LaneInv, Numbered, Tracked
  <1>8. CountedOnce'
    BY <1>5 DEF LaneInv, CountedOnce
  <1>9. Registered'
    BY <1>1, <1>2, <1>5 DEF Registered, Prefix, Unregistered, Tracked
  <1>10. \A f \in File : (Covers(f) /\ Ordered(f))'
    <2>1. \A f \in File : Covers(f)' /\ Sound(f, disk.f[f])'
      BY <1>2, <1>5, LedgerKept DEF LaneInv, Ordered
    <2> QED
      BY <1>2, <2>1 DEF LaneInv, Ordered, Tracked
  <1>11. \A r \in net' : Sent(r)'
    BY <1>2 DEF LaneInv, Sent, Unregistered
  <1>12. pc' # "idle" => Copied'
    <2> SUFFICES ASSUME pc # "idle" PROVE Copied'
      BY <1>2
    <2>1. \A f \in File : Sound(f, w.f[f])'
      BY <1>2, <1>5, LedgerKept DEF LaneInv, Copied
    <2> QED
      BY <1>2, <2>1 DEF LaneInv, Copied
  <1>13. Registering'
    <2>0. pc = "manifest" => new = disk.order /\ disk.man = NoManifest
      BY <1>1, Unlisted DEF Registering, NoManifest
    <2>1. pc = "manifest" => reply' # "refused" /\ (reply' = "ok" => srv'.man = Extended(NoManifest, disk.order))
      BY <1>1, <1>2, <1>5, <2>0, RegistrationHandled DEF Registering
    <2>2. pc = "files" => reply' # "refused" /\ (reply' = "ok" => srv'.man = Extended(disk.man, new))
      BY <1>1, <1>2, <1>3, <1>5, RegistrationHandled DEF Registering
    <2> QED
      BY <1>1, <1>2, <2>1, <2>2 DEF Registering, Unregistered
  <1>14. Delivering'
    <2>1. \A f \in File : \A o : Cut(f, o) => Cut(f, o)'
      BY <1>2, <1>5, LedgerKept
    <2>2. Tracked(disk) \subseteq File
      BY <1>1, ElemsIn DEF Tracked
    <2>3. pc \in {"confirm", "post"} => m # await
      BY <1>1 DEF Delivering, ConfirmMsg
    <2> QED
      BY <1>1, <1>2, <1>5, <2>1, <2>2, <2>3 DEF Delivering, Tracked, Pending, OnFile
  <1> QED
    BY <1>6, <1>7, <1>8, <1>9, <1>10, <1>11, <1>12, <1>13, <1>14 DEF LaneInv

\* Between rows of a partition there are cuts.
LEMMA EndsAreCuts ==
  ASSUME Shape, NEW f \in File, Covers(f), NEW r \in Ranges(f)
  PROVE  Cut(f, r.e)
  <1> SUFFICES ASSUME NEW q \in Ranges(f), q.s < r.e, r.e < q.e PROVE FALSE
    BY DEF Cut
  <1>1. r.s \in Nat /\ r.e \in Nat /\ q.s \in Nat /\ q.e \in Nat /\ r.s < r.e
    BY DEF Shape, Servers, Ranges, Rows, Covers
  <1>2. q = r
    BY <1>1 DEF Covers
  <1> QED
    BY <1>1, <1>2

\* A range is applied where the last one ended, or it is known and changes nothing.
LEMMA RangeHandled ==
  ASSUME NginxConstants, LaneInv, NEW m \in net, m.t = "range"
  PROVE  /\ \/ Handled(m).srv = srv
            \/ /\ m.s = srv.next[m.f] /\ Handled(m).ok
               /\ Handled(m).srv =
                    [srv EXCEPT !.next[m.f] = m.e,
                                !.ranges = @ \cup {[f |-> m.f, s |-> m.s, e |-> m.e, p |-> m.p]},
                                !.count[m.f] = [b \in 1 .. MaxSize |->
                                   @[b] + IF b \in (m.s + 1) .. m.e THEN 1 ELSE 0]]
         /\ Handled(m).ok /\ Handled(m).srv = srv => m.e <= srv.next[m.f] /\ Cut(m.f, m.e)
  <1>1. Handled(m) = ApplyRange(m)
    BY DEF Handled
  <1>2. /\ m.f \in File /\ m.s \in Nat /\ m.e \in 0 .. MaxSize /\ m.s < m.e /\ Covers(m.f)
        /\ srv.next \in [File -> 0 .. MaxSize] /\ Shape /\ srv \in Servers
    BY DEF LaneInv, Shape, Requests, Servers, Sent
  <1>3. CASE m.f \notin Elems(srv.man.files)
    BY <1>1, <1>3 DEF ApplyRange, Refused
  <1>4. CASE m.f \in Elems(srv.man.files) /\ Exact(m) # {}
    <2>1. Handled(m).srv = srv
      BY <1>1, <1>4 DEF ApplyRange, Refused, Accepted
    <2>2. ASSUME Handled(m).ok PROVE m.e <= srv.next[m.f] /\ Cut(m.f, m.e)
      <3>1. PICK r \in Exact(m) : srv.next[m.f] >= r.e
        BY <1>1, <1>4, <2>2 DEF ApplyRange, Refused
      <3>2. r \in Ranges(m.f) /\ r.e = m.e
        BY <3>1 DEF Exact
      <3> QED
        BY <1>2, <3>1, <3>2, EndsAreCuts
    <2> QED
      BY <2>1, <2>2
  <1>5. CASE m.f \in Elems(srv.man.files) /\ Exact(m) = {} /\ Contiguous(m) /\ ~Backpressure(m)
    <2>1. Handled(m) = Accepted([srv EXCEPT !.next[m.f] = m.e,
                                !.ranges = @ \cup {[f |-> m.f, s |-> m.s, e |-> m.e, p |-> m.p]},
                                !.count[m.f] = [b \in 1 .. MaxSize |->
                                   @[b] + IF b \in (m.s + 1) .. m.e THEN 1 ELSE 0]])
      BY <1>1, <1>5 DEF ApplyRange
    <2>2. m.s = srv.next[m.f]
      BY <1>5 DEF Contiguous
    <2>3. Handled(m).srv # srv
      <3> DEFINE s == [srv EXCEPT !.next[m.f] = m.e,
                                  !.ranges = @ \cup {[f |-> m.f, s |-> m.s, e |-> m.e, p |-> m.p]},
                                  !.count[m.f] = [b \in 1 .. MaxSize |->
                                     @[b] + IF b \in (m.s + 1) .. m.e THEN 1 ELSE 0]]
      <3>0. Handled(m).srv = s
        BY <2>1 DEF Accepted
      <3>3. s.next = [srv.next EXCEPT ![m.f] = m.e]
        BY <1>2 DEF Servers
      <3>1. Handled(m).srv.next = [srv.next EXCEPT ![m.f] = m.e]
        <4> HIDE DEF s
        <4> QED
          BY <3>0, <3>3
      <3>2. [srv.next EXCEPT ![m.f] = m.e][m.f] = m.e /\ srv.next[m.f] # m.e
        BY <1>2, <2>2
      <3> QED
        BY <3>1, <3>2
    <2> QED
      BY <2>1, <2>2, <2>3 DEF Accepted
  <1>6. CASE m.f \in Elems(srv.man.files) /\ Exact(m) = {} /\ ~ (Contiguous(m) /\ ~Backpressure(m))
    BY <1>1, <1>6 DEF ApplyRange, Refused
  <1> QED
    BY <1>3, <1>4, <1>5, <1>6

\* A range keeps the invariant (applyNginxSourceRangeV2).
LEMMA RangeStep ==
  ASSUME NginxConstants, LaneInv, NEW m \in net, m.t = "range", Deliver(m)
  PROVE  LaneInv'
  <1> DEFINE g == m.f
             row == [f |-> m.f, s |-> m.s, e |-> m.e, p |-> m.p]
  <1>1. /\ Shape /\ Registering /\ Delivering /\ srv \in Servers /\ Tracked(disk) \subseteq File
        /\ g \in File /\ m.s \in 0 .. MaxSize /\ m.e \in 0 .. MaxSize /\ m.s < m.e
        /\ m.e <= disk.f[g].obs /\ row \in Rows /\ CountedOnce
    <2>1. /\ Shape /\ Registering /\ Delivering /\ srv \in Servers /\ disk \in Cursors /\ CountedOnce
          /\ m \in Requests /\ Sent(m)
      BY DEF LaneInv, Shape
    <2>2. m.f \in File /\ m.s \in 0 .. MaxSize /\ m.e \in 0 .. MaxSize /\ m.p \in Payload
      BY <2>1 DEF Requests
    <2>3. Tracked(disk) \subseteq File
      BY <2>1, ElemsIn DEF Tracked, Cursors
    <2> QED
      BY <2>1, <2>2, <2>3 DEF Rows, Sent
  <1>2. /\ UNCHANGED <<dir, net, disk, pc, w, job, await, faults>>
        /\ srv' = Handled(m).srv
        /\ reply' = IF m = await THEN (IF Handled(m).ok THEN "ok" ELSE "refused") ELSE reply
    BY DEF Deliver
  <1>3. pc \in {"manifest", "files", "confirm"} => m # await
    BY <1>1 DEF Registering, Delivering, ConfirmMsg
  <1>4. pc = "post" /\ m = await => m.f = job.f /\ m.e = job.e
    BY <1>1 DEF Delivering
  <1>5. CASE srv' = srv
    <2>1. Registered' /\ Numbered' /\ CountedOnce' /\ Shape'
      <3>1. Registered'
        BY <1>2, <1>5 DEF LaneInv, Registered, Prefix, Unregistered, Tracked
      <3>2. Numbered' /\ CountedOnce'
        BY <1>2, <1>5 DEF LaneInv, Numbered, CountedOnce, Tracked
      <3>3. Shape'
        BY <1>1, <1>2, <1>5 DEF Shape
      <3> QED
        BY <3>1, <3>2, <3>3
    <2>2. \A f \in File : (Covers(f) /\ Ordered(f))' /\ \A x : Sound(f, x) => Sound(f, x)'
      BY <1>2, <1>5 DEF LaneInv, Covers, Ordered, Sound, Cut, Ranges, Tracked
    <2>3. (\A r \in net' : Sent(r)') /\ (pc' # "idle" => Copied')
      BY <1>2, <2>2 DEF LaneInv, Sent, Unregistered, Copied
    <2>4. Registering'
      BY <1>1, <1>2, <1>3, <1>5 DEF Registering, Unregistered
    <2>5. Delivering'
      <3>1. pc = "post" /\ m = await /\ reply' = "ok" => job.e <= srv.next[job.f] /\ Cut(job.f, job.e)
        BY <1>2, <1>4, <1>5, RangeHandled
      <3>2. pc = "post" => \/ m = await /\ (reply' = "ok" => Handled(m).ok)
                           \/ m # await /\ reply' = reply
        BY <1>2
      <3>3. \A f \in File : \A o : Cut(f, o) => Cut(f, o)'
        BY <1>2, <1>5 DEF Cut, Ranges
      <3>4. pc \in OnFile => job.f \in File
        BY <1>1 DEF Delivering
      <3> QED
        BY <1>1, <1>2, <1>3, <1>5, <3>1, <3>2, <3>3, <3>4 DEF Delivering, Tracked, Pending, OnFile
    <2> QED
      BY <2>1, <2>2, <2>3, <2>4, <2>5 DEF LaneInv
  <1>6. CASE srv' # srv
    <2>1. /\ m.s = srv.next[g] /\ Handled(m).ok
          /\ srv' = [srv EXCEPT !.next[g] = m.e, !.ranges = @ \cup {row},
                                !.count[g] = [b \in 1 .. MaxSize |->
                                   @[b] + IF b \in (m.s + 1) .. m.e THEN 1 ELSE 0]]
      BY <1>2, <1>6, RangeHandled
    <2>2. /\ srv' \in Servers /\ srv'.man = srv.man /\ srv'.conf = srv.conf
          /\ srv'.next = [srv.next EXCEPT ![g] = m.e] /\ srv'.ranges = srv.ranges \cup {row}
          /\ srv'.count = [srv.count EXCEPT ![g] = [b \in 1 .. MaxSize |->
                                   @[b] + IF b \in (m.s + 1) .. m.e THEN 1 ELSE 0]]
      <3>1. /\ srv'.man = srv.man /\ srv'.conf = srv.conf
            /\ srv'.next = [srv.next EXCEPT ![g] = m.e] /\ srv'.ranges = srv.ranges \cup {row}
            /\ srv'.count = [srv.count EXCEPT ![g] = [b \in 1 .. MaxSize |->
                                   @[b] + IF b \in (m.s + 1) .. m.e THEN 1 ELSE 0]]
            /\ srv' = [man |-> srv'.man, next |-> srv'.next, conf |-> srv'.conf,
                       ranges |-> srv'.ranges, count |-> srv'.count]
        BY <1>1, <2>1 DEF Servers
      <3>2. srv.count \in [File -> [1 .. MaxSize -> Nat]]
        BY <1>1 DEF Servers
      <3>3. [b \in 1 .. MaxSize |-> srv.count[g][b] + IF b \in (m.s + 1) .. m.e THEN 1 ELSE 0]
              \in [1 .. MaxSize -> Nat]
        <4>1. srv.count[g] \in [1 .. MaxSize -> Nat]
          BY <1>1, <3>2
        <4>2. ASSUME NEW b \in 1 .. MaxSize
              PROVE  srv.count[g][b] + (IF b \in (m.s + 1) .. m.e THEN 1 ELSE 0) \in Nat
          <5>1. srv.count[g][b] \in Nat
            BY <4>1
          <5> QED
            BY <5>1
        <4> QED
          BY <4>2
      <3>4. srv'.count \in [File -> [1 .. MaxSize -> Nat]]
        BY <1>1, <3>1, <3>2, <3>3
      <3>5. srv'.next \in [File -> 0 .. MaxSize] /\ srv'.ranges \in SUBSET Rows
        BY <1>1, <3>1 DEF Servers
      <3> QED
        BY <1>1, <3>1, <3>4, <3>5 DEF Servers
    <2>3. Shape' /\ Registered' /\ Numbered'
      BY <1>1, <1>2, <2>2 DEF LaneInv, Registered, Prefix, Unregistered, Tracked, Numbered, Shape
    <2>4. CountedOnce'
      <3> SUFFICES ASSUME NEW f \in File, NEW b \in 1 .. MaxSize
                   PROVE  srv'.count[f][b] = IF b <= srv'.next[f] THEN 1 ELSE 0
        BY DEF CountedOnce
      <3>1. srv.count[f][b] = IF b <= srv.next[f] THEN 1 ELSE 0
        BY <1>1 DEF CountedOnce
      <3>2. srv.count \in [File -> [1 .. MaxSize -> Nat]] /\ srv.next \in [File -> 0 .. MaxSize]
        BY <1>1 DEF Servers
      <3>3. CASE f = g
        <4>1. srv'.count[f][b] = srv.count[f][b] + IF b \in (m.s + 1) .. m.e THEN 1 ELSE 0
          BY <2>2, <3>2, <3>3
        <4>2. srv'.next[f] = m.e
          BY <2>2, <3>2, <3>3
        <4> QED
          BY <1>1, <2>1, <3>1, <3>3, <4>1, <4>2
      <3>4. CASE f # g
        BY <2>2, <3>1, <3>2, <3>4
      <3> QED
        BY <3>3, <3>4
    <2>5. \A f \in File : Ranges(f)' = IF f = g THEN Ranges(f) \cup {row} ELSE Ranges(f)
      BY <2>2 DEF Ranges
    <2>6. /\ srv.next \in [File -> 0 .. MaxSize] /\ srv.conf \in [File -> 0 .. MaxSize]
          /\ srv'.next \in [File -> 0 .. MaxSize] /\ MaxSize \in Nat
          /\ srv'.next[g] = m.e /\ \A f \in File : srv.next[f] <= srv'.next[f]
          /\ row.s = srv.next[g] /\ row.e = m.e
          /\ \A f \in File : f # g => srv'.next[f] = srv.next[f]
          /\ \A f \in File : \A r \in Ranges(f) : r.s \in Nat /\ r.e \in Nat
      <3>1. /\ srv.next \in [File -> 0 .. MaxSize] /\ srv.conf \in [File -> 0 .. MaxSize]
            /\ srv'.next \in [File -> 0 .. MaxSize] /\ MaxSize \in Nat
        BY <1>1, <2>2 DEF Servers, NginxConstants
      <3>2. srv'.next[g] = m.e /\ \A f \in File : f # g => srv'.next[f] = srv.next[f]
        BY <1>1, <2>2, <3>1
      <3>3. \A f \in File : srv.next[f] <= srv'.next[f]
        BY <1>1, <2>1, <3>1, <3>2
      <3>4. row.s = srv.next[g] /\ row.e = m.e
        BY <2>1
      <3>5. \A f \in File : \A r \in Ranges(f) : r.s \in Nat /\ r.e \in Nat
        BY <1>1 DEF Servers, Ranges, Rows
      <3> QED
        BY <3>1, <3>2, <3>3, <3>4, <3>5
    <2>7. \A f \in File : Covers(f)'
      <3> SUFFICES ASSUME NEW f \in File PROVE Covers(f)'
        OBVIOUS
      <3>1. Covers(f) /\ srv.conf[f] <= srv.next[f]
        <4>1. Covers(f) /\ srv.conf[f] <= disk.f[f].acked /\ disk.f[f].acked <= srv.next[f]
          BY DEF LaneInv, Ordered, Sound
        <4>2. disk.f[f].acked \in 0 .. MaxSize
          BY <1>1 DEF Shape, Cursors, Entries
        <4> QED
          BY <2>6, <4>1, <4>2
      <3>2. CASE f # g
        BY <2>2, <2>5, <2>6, <3>1, <3>2 DEF Covers
      <3>3. CASE f = g
        <4>1. \A r \in Ranges(g)' : srv'.conf[g] <= r.s /\ r.s < r.e /\ r.e <= srv'.next[g]
          BY <1>1, <2>2, <2>5, <2>6, <3>1, <3>3 DEF Covers
        <4>2. ASSUME NEW o \in srv'.conf[g] .. (srv'.next[g] - 1)
              PROVE  \E r \in Ranges(g)' : r.s <= o /\ o < r.e
          <5>1. CASE o < srv.next[g]
            <6>1. o \in srv.conf[g] .. (srv.next[g] - 1)
              BY <1>1, <2>2, <2>6, <4>2, <5>1
            <6> QED
              BY <2>5, <3>1, <3>3, <6>1 DEF Covers
          <5>2. CASE o >= srv.next[g]
            <6>1. row \in Ranges(g)' /\ row.s <= o /\ o < row.e
              BY <1>1, <2>5, <2>6, <4>2, <5>2
            <6> QED
              BY <6>1
          <5> QED
            BY <1>1, <2>2, <2>6, <4>2, <5>1, <5>2
        <4>3. \A r, q \in Ranges(g)' : r.s < q.e /\ q.s < r.e => r = q
          BY <1>1, <2>5, <2>6, <3>1, <3>3 DEF Covers
        <4> QED
          BY <3>3, <4>1, <4>2, <4>3 DEF Covers
      <3> QED
        BY <3>2, <3>3
    <2>8. \A f \in File : \A o \in 0 .. srv.next[f] : Cut(f, o) => Cut(f, o)'
      BY <2>5, <2>6 DEF Cut
    <2>9. ASSUME NEW f \in File, NEW x \in Entries, Sound(f, x), x.obs = disk.f[f].obs
          PROVE  Sound(f, x)'
      <3>1. x.acked \in 0 .. srv.next[f] /\ Cut(f, x.acked)
        BY <2>6, <2>9 DEF Sound, Entries
      <3>2. Cut(f, x.acked)'
        BY <2>8, <3>1
      <3>3. srv'.next[f] <= x.obs
        BY <1>1, <2>6, <2>9 DEF Sound
      <3>4. x.acked <= srv'.next[f] /\ srv'.conf[f] = srv.conf[f] /\ dir' = dir
        <4>1. srv.next[f] \in Nat /\ srv'.next[f] \in Nat /\ srv.next[f] <= srv'.next[f]
          BY <2>6
        <4> QED
          BY <1>2, <2>2, <3>1, <4>1
      <3> QED
        BY <2>9, <3>2, <3>3, <3>4 DEF Sound
    <2>10. \A f \in File : Ordered(f)'
      <3> SUFFICES ASSUME NEW f \in File PROVE Ordered(f)'
        OBVIOUS
      <3>1. disk.f[f] \in Entries /\ Ordered(f)
        BY <1>1 DEF LaneInv, Shape, Cursors
      <3>2. Sound(f, disk.f[f])'
        BY <1>2, <2>9, <3>1 DEF Ordered
      <3> QED
        BY <1>2, <3>1, <3>2 DEF Ordered, Tracked
    <2>11. \A r \in net' : Sent(r)'
      BY <1>2 DEF LaneInv, Sent, Unregistered
    <2>12. pc' # "idle" => Copied'
      <3> SUFFICES ASSUME pc # "idle" PROVE Copied'
        BY <1>2
      <3>1. Copied
        BY DEF LaneInv
      <3>2. \A f \in File : w.f[f] \in Entries /\ disk.f[f] \in Entries
        BY <1>1 DEF Shape, Cursors
      <3>3. \A f \in File : w.f[f].obs = disk.f[f].obs
        BY <3>1, <3>2 DEF Copied, Entries
      <3>4. \A f \in File : Sound(f, w.f[f])'
        BY <1>2, <2>9, <3>1, <3>2, <3>3 DEF Copied
      <3> QED
        BY <1>2, <3>1, <3>4 DEF Copied
    <2>13. Registering'
      BY <1>1, <1>2, <1>3, <2>2 DEF Registering, Unregistered
    <2>14. Delivering'
      <3>1. pc \in OnFile => job.f \in File /\ job.e \in 0 .. MaxSize
        BY <1>1 DEF Delivering, Shape, Jobs
      <3>2. ASSUME pc \in OnFile, job.e <= srv.next[job.f], Cut(job.f, job.e)
            PROVE  job.e <= srv'.next[job.f] /\ Cut(job.f, job.e)'
        <4>1. /\ srv.next[job.f] \in Nat /\ srv'.next[job.f] \in Nat
              /\ srv.next[job.f] <= srv'.next[job.f] /\ job.e \in Nat
          BY <2>6, <3>1, <3>2
        <4>2. job.e <= srv'.next[job.f] /\ job.e \in 0 .. srv.next[job.f]
          BY <3>2, <4>1
        <4> QED
          BY <1>2, <2>8, <3>1, <3>2, <4>2
      <3>3. ASSUME pc = "post", reply' = "ok" PROVE job.e <= srv'.next[job.f] /\ Cut(job.f, job.e)'
        <4>1. CASE m = await
          <5>1. m.e = job.e /\ g = job.f
            BY <1>4, <3>3, <4>1
          <5>2. \A r \in Ranges(g)' : ~ (r.s < m.e /\ m.e < r.e)
            BY <1>1, <2>5, <2>6, <2>7 DEF Covers
          <5>3. Cut(job.f, job.e)'
            BY <1>2, <5>1, <5>2 DEF Cut
          <5>4. m.e <= srv'.next[g]
            BY <1>1, <2>6
          <5> QED
            BY <5>1, <5>3, <5>4
        <4>2. CASE m # await
          BY <1>1, <1>2, <3>2, <3>3, <4>2 DEF Delivering, OnFile
        <4> QED
          BY <4>1, <4>2
      <3> QED
        BY <1>1, <1>2, <1>3, <2>2, <3>2, <3>3 DEF Delivering, Tracked, Pending, OnFile
    <2> QED
      BY <2>3, <2>4, <2>7, <2>10, <2>11, <2>12, <2>13, <2>14 DEF LaneInv
  <1> QED
    BY <1>5, <1>6

\* A confirmation prunes the rows up to a cut that the saved cursor has acknowledged, or it
\* changes nothing; the one the collector waits for is never refused.
LEMMA ConfirmationHandled ==
  ASSUME NginxConstants, LaneInv, NEW m \in net, m.t = "confirm"
  PROVE  /\ m.f \in File /\ m.at \in 0 .. MaxSize /\ m.at <= disk.f[m.f].acked
         /\ \/ Handled(m).srv = srv
            \/ /\ srv.conf[m.f] < m.at /\ m.at <= srv.next[m.f] /\ Cut(m.f, m.at)
               /\ Handled(m).srv = [srv EXCEPT !.conf[m.f] = m.at,
                                               !.ranges = {r \in @ : r.f # m.f \/ r.e > m.at}]
         /\ pc = "confirm" /\ m = await => Handled(m).ok /\ Handled(m).srv.conf[m.f] = m.at
  <1>1. Handled(m) = Confirm(m)
    BY DEF Handled
  <1>2. /\ Shape /\ Registered /\ Registering /\ Delivering /\ Sent(m) /\ m \in Requests
        /\ disk \in Cursors /\ srv \in Servers
    BY DEF LaneInv, Shape
  <1>3. m.f \in File /\ m.at \in 0 .. MaxSize /\ m.at <= disk.f[m.f].acked
    BY <1>2 DEF Requests, Sent
  <1>4. /\ Covers(m.f) /\ srv.conf[m.f] <= disk.f[m.f].acked /\ disk.f[m.f].acked <= srv.next[m.f]
        /\ Cut(m.f, disk.f[m.f].acked)
    BY <1>3 DEF LaneInv, Ordered, Sound
  <1>5. /\ disk.f[m.f].acked \in Nat /\ srv.next[m.f] \in Nat /\ srv.conf[m.f] \in Nat /\ m.at \in Nat
        /\ srv.conf \in [File -> 0 .. MaxSize] /\ MaxSize \in Nat
    BY <1>2, <1>3 DEF Cursors, Entries, Servers, NginxConstants
  <1>6. CASE m.f \in Elems(srv.man.files) /\ m.at = srv.conf[m.f]
    <2>1. Handled(m) = Accepted(srv)
      BY <1>1, <1>6 DEF Confirm, AlreadyConfirmed
    <2> QED
      BY <1>3, <1>6, <2>1 DEF Accepted
  <1>7. CASE m.f \in Elems(srv.man.files) /\ m.at # srv.conf[m.f] /\ Confirmable(m)
    <2> DEFINE s == [srv EXCEPT !.conf[m.f] = m.at, !.ranges = {r \in @ : r.f # m.f \/ r.e > m.at}]
    <2>1. Handled(m).ok /\ Handled(m).srv = s
      BY <1>1, <1>7 DEF Confirm, AlreadyConfirmed, Accepted
    <2>2. s.conf[m.f] = m.at
      BY <1>2, <1>3, <1>5 DEF Servers
    <2>3. srv.conf[m.f] < m.at /\ m.at <= srv.next[m.f]
      BY <1>5, <1>7 DEF Confirmable
    <2>4. PICK r \in Ranges(m.f) : r.e = m.at
      BY <1>7 DEF Confirmable
    <2>5. Cut(m.f, m.at)
      BY <1>2, <1>3, <1>4, <2>4, EndsAreCuts
    <2> QED
      BY <1>3, <2>1, <2>2, <2>3, <2>5
  <1>8. CASE m.f \notin Elems(srv.man.files) \/ (m.at # srv.conf[m.f] /\ ~ Confirmable(m))
    <2>1. Handled(m).srv = srv
      BY <1>1, <1>8 DEF Confirm, AlreadyConfirmed, Refused
    <2>2. ASSUME pc = "confirm", m = await PROVE FALSE
      <3>1. m.f = job.f /\ m.at = disk.f[m.f].acked
        BY <1>2, <2>2 DEF Delivering, ConfirmMsg
      <3>2. m.f \in Elems(srv.man.files)
        <4>1. job.f \in Tracked(disk) /\ disk.man.files = disk.order
          BY <1>2, <2>2 DEF Delivering, Registering, OnFile, Working
        <4>2. srv.man.files = disk.order
          BY <1>2, <4>1, Known
        <4> QED
          BY <3>1, <4>1, <4>2 DEF Tracked
      <3>3. srv.conf[m.f] < m.at /\ m.at <= srv.next[m.f] /\ ~ Confirmable(m)
        BY <1>4, <1>5, <1>8, <3>1, <3>2
      <3>4. PICK r \in Ranges(m.f) : r.s <= m.at - 1 /\ m.at - 1 < r.e
        <4>1. m.at - 1 \in srv.conf[m.f] .. (srv.next[m.f] - 1)
          BY <1>5, <3>3
        <4> QED
          BY <1>4, <4>1 DEF Covers
      <3>5. r.s \in Nat /\ r.e \in Nat
        BY <1>2, <3>4 DEF Ranges, Servers, Rows
      <3>6. ~ (r.s < m.at /\ m.at < r.e)
        BY <1>4, <3>1, <3>4 DEF Cut
      <3>7. r.e = m.at
        BY <1>5, <3>4, <3>5, <3>6
      <3> QED
        BY <3>3, <3>4, <3>7 DEF Confirmable
    <2> QED
      BY <1>3, <2>1, <2>2
  <1> QED
    BY <1>3, <1>6, <1>7, <1>8

\* A confirmation keeps the invariant.
LEMMA ConfirmStep ==
  ASSUME NginxConstants, LaneInv, NEW m \in net, m.t = "confirm", Deliver(m)
  PROVE  LaneInv'
  <1> DEFINE g == m.f
  <1>1. /\ Shape /\ Registering /\ Delivering /\ srv \in Servers /\ disk \in Cursors /\ w \in Cursors
        /\ g \in File /\ m.at \in 0 .. MaxSize /\ m.at <= disk.f[g].acked /\ MaxSize \in Nat
        /\ Tracked(disk) \subseteq File
    <2>1. Shape /\ Registering /\ Delivering
      BY DEF LaneInv
    <2>2. g \in File /\ m.at \in 0 .. MaxSize /\ m.at <= disk.f[g].acked
      BY ConfirmationHandled
    <2>3. Tracked(disk) \subseteq File
      BY <2>1, ElemsIn DEF Tracked, Shape, Cursors
    <2> QED
      BY <2>1, <2>2, <2>3 DEF Shape, NginxConstants
  <1>2. /\ UNCHANGED <<dir, net, disk, pc, w, job, await, faults>>
        /\ srv' = Handled(m).srv
        /\ reply' = IF m = await THEN (IF Handled(m).ok THEN "ok" ELSE "refused") ELSE reply
    BY DEF Deliver
  <1>3. /\ srv' \in Servers /\ srv'.man = srv.man /\ srv'.next = srv.next /\ srv'.count = srv.count
        /\ \/ srv'.conf = srv.conf /\ srv'.ranges = srv.ranges
           \/ /\ srv.conf[g] < m.at /\ m.at <= srv.next[g] /\ Cut(g, m.at)
              /\ srv'.conf = [srv.conf EXCEPT ![g] = m.at]
              /\ srv'.ranges = {r \in srv.ranges : r.f # g \/ r.e > m.at}
    <2>1. CASE Handled(m).srv = srv
      BY <1>1, <1>2, <2>1
    <2>2. CASE Handled(m).srv # srv
      <3>1. /\ srv.conf[g] < m.at /\ m.at <= srv.next[g] /\ Cut(g, m.at)
            /\ srv' = [srv EXCEPT !.conf[g] = m.at, !.ranges = {r \in @ : r.f # g \/ r.e > m.at}]
        BY <1>2, <2>2, ConfirmationHandled
      <3>2. /\ srv'.man = srv.man /\ srv'.next = srv.next /\ srv'.count = srv.count
            /\ srv'.conf = [srv.conf EXCEPT ![g] = m.at]
            /\ srv'.ranges = {r \in srv.ranges : r.f # g \/ r.e > m.at}
        BY <1>1, <3>1 DEF Servers
      <3>3. srv' \in Servers
        BY <1>1, <3>1 DEF Servers
      <3> QED
        BY <3>1, <3>2, <3>3
    <2> QED
      BY <2>1, <2>2
  <1>4. /\ srv.conf \in [File -> 0 .. MaxSize] /\ srv.next \in [File -> 0 .. MaxSize]
        /\ \A f \in File : disk.f[f] \in Entries /\ w.f[f] \in Entries
        /\ \A f \in File : \A r \in Ranges(f) : r.s \in Nat /\ r.e \in Nat
    BY <1>1 DEF Servers, Cursors, Ranges, Rows
  <1>5. \A f \in File : Ranges(f)' \subseteq Ranges(f)
    BY <1>3 DEF Ranges
  <1>6. \A f \in File : \A o : Cut(f, o) => Cut(f, o)'
    BY <1>5 DEF Cut
  <1>7. Shape' /\ Registered' /\ Numbered' /\ CountedOnce'
    <2>1. Shape'
      BY <1>1, <1>2, <1>3 DEF Shape
    <2>2. Registered'
      BY <1>2, <1>3 DEF LaneInv, Registered, Prefix, Unregistered, Tracked
    <2>3. Numbered' /\ CountedOnce'
      BY <1>2, <1>3 DEF LaneInv, Numbered, CountedOnce, Tracked
    <2> QED
      BY <2>1, <2>2, <2>3
  <1>8. \A f \in File : Covers(f)'
    <2> SUFFICES ASSUME NEW f \in File PROVE Covers(f)'
      OBVIOUS
    <2>1. Covers(f)
      BY DEF LaneInv
    <2>2. CASE srv'.conf = srv.conf /\ srv'.ranges = srv.ranges
      BY <1>3, <2>1, <2>2 DEF Covers, Ranges
    <2>3. CASE srv'.conf # srv.conf \/ srv'.ranges # srv.ranges
      <3>1. /\ srv.conf[g] < m.at /\ m.at <= srv.next[g] /\ Cut(g, m.at)
            /\ srv'.conf = [srv.conf EXCEPT ![g] = m.at]
            /\ srv'.ranges = {r \in srv.ranges : r.f # g \/ r.e > m.at}
        BY <1>3, <2>3
      <3>2. CASE f # g
        <4>1. Ranges(f)' = Ranges(f) /\ srv'.conf[f] = srv.conf[f]
          BY <1>4, <3>1, <3>2 DEF Ranges
        <4> QED
          BY <1>3, <2>1, <4>1 DEF Covers
      <3>3. CASE f = g
        <4>1. Ranges(f)' = {r \in Ranges(f) : r.e > m.at} /\ srv'.conf[f] = m.at
          BY <1>1, <1>4, <3>1, <3>3 DEF Ranges
        <4>2. ASSUME NEW r \in Ranges(f)' PROVE m.at <= r.s /\ r.s < r.e /\ r.e <= srv.next[f]
          BY <1>1, <1>4, <2>1, <3>1, <3>3, <4>1 DEF Covers, Cut
        <4>3. ASSUME NEW o \in m.at .. (srv.next[f] - 1)
              PROVE  \E r \in Ranges(f)' : r.s <= o /\ o < r.e
          <5>1. o \in srv.conf[f] .. (srv.next[f] - 1) /\ o \in Nat
            BY <1>1, <1>4, <3>1, <3>3
          <5>2. PICK r \in Ranges(f) : r.s <= o /\ o < r.e
            BY <2>1, <5>1 DEF Covers
          <5>3. r.e > m.at
            BY <1>1, <1>4, <5>1, <5>2
          <5> QED
            BY <4>1, <5>2, <5>3
        <4>4. \A r, q \in Ranges(f)' : r.s < q.e /\ q.s < r.e => r = q
          BY <2>1, <4>1 DEF Covers
        <4> QED
          BY <1>3, <4>1, <4>2, <4>3, <4>4 DEF Covers
      <3> QED
        BY <3>2, <3>3
    <2> QED
      BY <2>2, <2>3
  <1>9. ASSUME NEW f \in File, NEW x \in Entries, Sound(f, x), x.acked = disk.f[f].acked
        PROVE  Sound(f, x)'
    <2>1. srv.conf[f] <= x.acked /\ (~ x.pend => srv.conf[f] = x.acked) /\ x.acked \in Nat
      BY <1>9 DEF Sound, Entries
    <2>2. CASE srv'.conf[f] = srv.conf[f]
      BY <1>2, <1>3, <1>6, <1>9, <2>2 DEF Sound
    <2>3. CASE srv'.conf[f] # srv.conf[f]
      <3>1. f = g /\ srv.conf[f] < m.at /\ srv'.conf[f] = m.at
        BY <1>1, <1>3, <1>4, <2>3
      <3>2. m.at <= x.acked /\ x.pend
        BY <1>1, <1>4, <1>9, <2>1, <3>1
      <3> QED
        BY <1>2, <1>3, <1>6, <1>9, <3>1, <3>2 DEF Sound
    <2> QED
      BY <2>2, <2>3
  <1>10. \A f \in File : Ordered(f)'
    <2> SUFFICES ASSUME NEW f \in File PROVE Ordered(f)'
      OBVIOUS
    <2>1. Ordered(f)
      BY DEF LaneInv
    <2>2. Sound(f, disk.f[f])'
      BY <1>2, <1>4, <1>9, <2>1 DEF Ordered
    <2> QED
      BY <1>2, <2>1, <2>2 DEF Ordered, Tracked
  <1>11. \A r \in net' : Sent(r)'
    BY <1>2 DEF LaneInv, Sent, Unregistered
  <1>12. pc' # "idle" => Copied'
    <2> SUFFICES ASSUME pc # "idle" PROVE Copied'
      BY <1>2
    <2>1. Copied
      BY DEF LaneInv
    <2>2. ASSUME NEW f \in File PROVE w.f[f].acked = disk.f[f].acked
      <3>1. w.f[f] = [disk.f[f] EXCEPT !.pend = w.f[f].pend]
        BY <2>1 DEF Copied
      <3>2. disk.f[f] \in Entries
        BY <1>4
      <3> QED
        BY <3>1, <3>2 DEF Entries
    <2>3. \A f \in File : Sound(f, w.f[f])'
      BY <1>2, <1>4, <1>9, <2>1, <2>2 DEF Copied
    <2> QED
      BY <1>2, <2>1, <2>3 DEF Copied
  <1>13. Registering'
    <2>1. pc \in {"manifest", "files"} => m # await
      BY <1>1 DEF Registering
    <2> QED
      BY <1>1, <1>2, <1>3, <2>1 DEF Registering, Unregistered
  <1>14. Delivering'
    <2>1. pc \in OnFile => job.f \in File
      BY <1>1 DEF Delivering
    <2>2. pc = "post" => m # await
      BY <1>1 DEF Delivering
    <2>3. ASSUME pc = "confirm" PROVE reply' # "refused" /\ (reply' = "ok" => srv'.conf[job.f] = job.e)
      <3>1. CASE m = await
        <4>1. m.f = job.f /\ m.at = job.e
          BY <1>1, <2>3, <3>1 DEF Delivering, ConfirmMsg
        <4>2. Handled(m).ok /\ Handled(m).srv.conf[m.f] = m.at
          BY <2>3, <3>1, ConfirmationHandled
        <4> QED
          BY <1>2, <3>1, <4>1, <4>2
      <3>2. CASE m # await
        <4>1. /\ reply' = reply /\ reply # "refused" /\ job.e = disk.f[job.f].acked
              /\ reply = "ok" => srv.conf[job.f] = job.e
          BY <1>1, <1>2, <2>3, <3>2 DEF Delivering
        <4>2. srv.conf[job.f] = job.e => srv'.conf[job.f] = srv.conf[job.f]
          <5>1. srv.conf[g] = disk.f[g].acked => ~ (srv.conf[g] < m.at)
            BY <1>1, <1>4
          <5> QED
            BY <1>3, <1>4, <2>1, <2>3, <4>1, <5>1 DEF OnFile
        <4> QED
          BY <4>1, <4>2
      <3> QED
        BY <3>1, <3>2
    <2> QED
      BY <1>1, <1>2, <1>3, <1>6, <2>1, <2>2, <2>3 DEF Delivering, Tracked, Pending, OnFile
  <1> QED
    BY <1>7, <1>8, <1>10, <1>11, <1>12, <1>13, <1>14 DEF LaneInv

\* Every request Monitor executes keeps the invariant.
LEMMA DeliverStep ==
  ASSUME NginxConstants, LaneInv, NEW m \in net, Deliver(m)
  PROVE  LaneInv'
  <1>1. m.t \in {"manifest", "files", "range", "confirm"}
    BY DEF LaneInv, Shape, Requests
  <1> QED
    BY <1>1, RegisterStep, RangeStep, ConfirmStep
-----------------------------------------------------------------------------
(* nginx, logrotate and the hook.                                            *)

\* What happens to the directory keeps the invariant when files only grow and the new current
\* one, if there is one, is unknown.
LEMMA DirectoryStep ==
  ASSUME LaneInv, UNCHANGED <<srv, net, disk, client>>,
         dir' \in Directories, \A f \in File : dir'.size[f] >= dir.size[f],
         Numbered', dir'.cur \in Tracked(disk) => dir'.cur = dir.cur
  PROVE  LaneInv'
  <1>1. UNCHANGED <<srv, net, disk, pc, w, job, await, reply>>
    BY DEF client
  <1>2. Shape'
    BY <1>1 DEF LaneInv, Shape
  <1>3. CountedOnce' /\ \A r \in net' : Sent(r)'
    <2>1. CountedOnce'
      BY <1>1 DEF LaneInv, CountedOnce
    <2>2. \A r \in net' : Sent(r)'
      BY <1>1 DEF LaneInv, Sent, Unregistered
    <2> QED
      BY <2>1, <2>2
  <1>4. Registered'
    BY <1>1 DEF LaneInv, Registered, Prefix, Unregistered, Tracked
  <1>5. \A f \in File : \A x \in Entries : Sound(f, x) => Sound(f, x)'
    <2> SUFFICES ASSUME NEW f \in File, NEW x \in Entries, Sound(f, x) PROVE Sound(f, x)'
      OBVIOUS
    <2>1. x.obs <= dir.size[f] /\ dir'.size[f] >= dir.size[f]
      BY DEF Sound
    <2>2. x.obs \in Int /\ dir.size[f] \in Int /\ dir'.size[f] \in Int
      BY DEF Entries, LaneInv, Shape, Directories
    <2>3. x.obs <= dir'.size[f]
      BY <2>1, <2>2
    <2>4. Cut(f, x.acked)'
      BY <1>1 DEF Sound, Cut, Ranges
    <2> QED
      BY <1>1, <2>3, <2>4 DEF Sound
  <1>6. \A f \in File : disk.f[f] \in Entries /\ w.f[f] \in Entries
    BY DEF LaneInv, Shape, Cursors
  <1>7. \A f \in File : Covers(f)' /\ Ordered(f)'
    <2>1. \A f \in File : Sound(f, disk.f[f])'
      BY <1>1, <1>5, <1>6 DEF LaneInv, Ordered
    <2> QED
      BY <1>1, <2>1 DEF LaneInv, Covers, Ranges, Ordered, Tracked
  <1>8. pc' # "idle" => Copied'
    <2>1. pc # "idle" => \A f \in File : Sound(f, w.f[f])'
      BY <1>1, <1>5, <1>6 DEF LaneInv, Copied
    <2> QED
      BY <1>1, <2>1 DEF LaneInv, Copied
  <1>9. Registering' /\ Delivering'
    BY <1>1 DEF LaneInv, Registering, Delivering, Unregistered, Tracked, Pending, Cut, Ranges
  <1> QED
    BY <1>2, <1>3, <1>4, <1>7, <1>8, <1>9 DEF LaneInv

\* nginx, logrotate and its hook keep the invariant.
LEMMA NginxSteps ==
  ASSUME NginxConstants, LaneInv, Append1 \/ Rotate \/ Reopen \/ \E f \in Deletable : Delete(f)
  PROVE  LaneInv'
  <1>1. /\ dir \in Directories /\ Numbered /\ MaxFiles \in Nat /\ MaxSize \in Nat
        /\ Tracked(disk) \subseteq File
    BY ElemsIn DEF LaneInv, Shape, Tracked, Cursors, NginxConstants
  <1>2. /\ dir.size \in [File -> 0 .. MaxSize] /\ dir.cur \in 1 .. MaxFiles /\ dir.fd \in 1 .. MaxFiles
        /\ dir.present \subseteq File /\ dir.bound \in 0 .. MaxFiles
        /\ dir.released \subseteq File /\ dir.proofs \in 0 .. MaxFiles
    BY <1>1 DEF Directories, File
  <1>3. CASE Append1
    <2> DEFINE size == [dir.size EXCEPT ![dir.fd] = @ + 1]
    <2>1. dir.fd \in File /\ dir.size[dir.fd] + 1 \in 0 .. MaxSize
      BY <1>1, <1>2, <1>3 DEF Append1, File
    <2>2. size \in [File -> 0 .. MaxSize] /\ \A f \in File : size[f] >= dir.size[f]
      BY <1>1, <1>2, <2>1
    <2>3. dir' = [dir EXCEPT !.size = size]
      BY <1>3 DEF Append1
    <2> HIDE DEF size
    <2>4. dir' \in Directories /\ dir'.size = size /\ dir'.cur = dir.cur
      BY <1>1, <2>2, <2>3 DEF Directories
    <2>5. Numbered'
      BY <1>1, <1>3, <2>3 DEF Numbered, Append1, Tracked, Directories
    <2> QED
      BY <1>3, <2>2, <2>4, <2>5, DirectoryStep DEF Append1
  <1>4. CASE Rotate
    <2>1. dir.cur + 1 \in File /\ dir.cur < dir.cur + 1 /\ dir.fd = dir.cur
      BY <1>1, <1>2, <1>4 DEF Rotate, File
    <2>2. dir' = [dir EXCEPT !.cur = dir.cur + 1, !.present = dir.present \cup {dir.cur + 1}]
      BY <1>4 DEF Rotate
    <2>3. /\ dir' \in Directories /\ dir'.size = dir.size /\ dir'.cur = dir.cur + 1
          /\ dir'.present = dir.present \cup {dir.cur + 1} /\ dir'.fd = dir.fd
          /\ dir'.proofs = dir.proofs /\ dir'.bound = dir.bound
      BY <1>1, <2>1, <2>2 DEF Directories
    <2>4. Numbered'
      <3>1. \A f \in dir.present \cup Tracked(disk) : f \in Nat /\ f <= dir.cur
        BY <1>1, <1>2 DEF Numbered, File
      <3>2. UNCHANGED disk
        BY <1>4 DEF Rotate
      <3> QED
        BY <1>1, <1>2, <2>1, <2>3, <3>1, <3>2 DEF Numbered, Tracked
    <2>5. dir'.cur \notin Tracked(disk)
      BY <1>1, <1>2, <2>1, <2>3 DEF Numbered, File
    <2>6. \A f \in File : dir'.size[f] >= dir.size[f]
      BY <1>2, <2>3
    <2> QED
      BY <1>4, <2>3, <2>4, <2>5, <2>6, DirectoryStep DEF Rotate
  <1>5. CASE Reopen
    <2>1. dir' = [dir EXCEPT !.fd = dir.cur, !.bound = dir.cur, !.proofs = dir.proofs + 1,
                             !.released = (dir.released \cup dir.present) \ {dir.cur}]
      BY <1>5 DEF Reopen
    <2>2. dir.fd = dir.cur - 1 /\ dir.proofs + 1 < dir.cur
      BY <1>1, <1>2, <1>5 DEF Reopen, Numbered
    <2>3. dir.proofs + 1 \in 0 .. MaxFiles /\ dir.cur \in 0 .. MaxFiles
      BY <1>1, <1>2, <2>2
    <2>4. /\ dir' \in Directories /\ dir'.size = dir.size /\ dir'.cur = dir.cur
          /\ dir'.present = dir.present /\ dir'.fd = dir.cur
          /\ dir'.proofs = dir.proofs + 1 /\ dir'.bound = dir.cur
      BY <1>1, <2>1, <2>3 DEF Directories
    <2>5. Numbered'
      BY <1>1, <1>2, <1>5, <2>2, <2>4 DEF Numbered, Reopen, Tracked
    <2>6. \A f \in File : dir'.size[f] >= dir.size[f]
      BY <1>2, <2>4
    <2> QED
      BY <1>5, <2>4, <2>5, <2>6, DirectoryStep DEF Reopen
  <1>6. CASE \E f \in Deletable : Delete(f)
    <2>1. PICK f \in Deletable : Delete(f)
      BY <1>6
    <2>2. dir' = [dir EXCEPT !.present = dir.present \ {f}] /\ f # dir.cur
      BY <2>1 DEF Delete
    <2>3. /\ dir' \in Directories /\ dir'.size = dir.size /\ dir'.cur = dir.cur
          /\ dir'.present = dir.present \ {f} /\ dir'.fd = dir.fd
          /\ dir'.proofs = dir.proofs /\ dir'.bound = dir.bound
      BY <1>1, <2>2 DEF Directories
    <2>4. Numbered'
      BY <1>1, <2>1, <2>2, <2>3 DEF Numbered, Delete, Tracked
    <2>5. \A g \in File : dir'.size[g] >= dir.size[g]
      BY <1>2, <2>3
    <2> QED
      BY <2>1, <2>3, <2>4, <2>5, DirectoryStep DEF Delete
  <1> QED
    BY <1>3, <1>4, <1>5, <1>6
-----------------------------------------------------------------------------
(* The collector.                                                            *)

\* A step of the collector that saves no new file and no new manifest keeps the invariant when no
\* acknowledged offset and no observed size goes back, and the new entries are sound.
LEMMA CursorStep ==
  ASSUME NginxConstants, LaneInv, UNCHANGED <<dir, srv>>, disk # NoCursor,
         Shape', disk'.order = disk.order, disk'.man = disk.man,
         \A f \in File : Sound(f, disk'.f[f]) /\ (f \notin Tracked(disk) => disk'.f[f] = NoEntry),
         \A f \in File : /\ disk.f[f].acked <= disk'.f[f].acked
                         /\ disk.f[f].obs <= disk'.f[f].obs,
         \A m \in net' : m \in net \/ Sent(m)',
         pc' # "idle" => Copied', Registering', Delivering'
  PROVE  LaneInv'
  <1>1. Numbered'
    BY DEF LaneInv, Numbered, Tracked
  <1>2. CountedOnce' /\ \A f \in File : Covers(f)'
    <2>1. CountedOnce'
      BY DEF LaneInv, CountedOnce
    <2>2. \A f \in File : Covers(f)'
      BY DEF LaneInv, Covers, Ranges
    <2> QED
      BY <2>1, <2>2
  <1>3. Registered'
    <2>1. disk.order # <<>> /\ NoCursor.order = <<>>
      BY NoCursorIsEmpty DEF LaneInv, Registered
    <2>2. disk' # NoCursor
      BY <2>1
    <2> QED
      BY <2>1, <2>2 DEF LaneInv, Registered, Prefix, Unregistered, Tracked
  <1>4. \A f \in File : Ordered(f)'
    BY DEF Ordered, Sound, Cut, Ranges, Tracked
  <1>5. ASSUME NEW m \in net, Sent(m) PROVE Sent(m)'
    <2>1. /\ m \in Requests /\ disk \in Cursors /\ disk' \in Cursors /\ MaxSize \in Nat
      BY DEF LaneInv, Shape, NginxConstants
    <2>2. CASE m.t = "range"
      <3>1. m.f \in File /\ m.e \in Nat /\ disk.f[m.f].obs \in Nat /\ disk'.f[m.f].obs \in Nat
        BY <2>1, <2>2 DEF Requests, Cursors, Entries
      <3>2. m.s < m.e /\ m.e <= disk.f[m.f].obs /\ disk.f[m.f].obs <= disk'.f[m.f].obs
        BY <1>5, <2>2, <3>1 DEF Sent
      <3>3. m.e <= disk'.f[m.f].obs
        BY <3>1, <3>2
      <3> QED
        BY <2>2, <3>2, <3>3 DEF Sent
    <2>3. CASE m.t = "confirm"
      <3>1. m.f \in File /\ m.at \in Nat /\ disk.f[m.f].acked \in Nat /\ disk'.f[m.f].acked \in Nat
        BY <2>1, <2>3 DEF Requests, Cursors, Entries
      <3>2. m.at <= disk.f[m.f].acked /\ disk.f[m.f].acked <= disk'.f[m.f].acked
        BY <1>5, <2>3, <3>1 DEF Sent
      <3>3. m.at <= disk'.f[m.f].acked
        BY <3>1, <3>2
      <3> QED
        BY <2>3, <3>3 DEF Sent
    <2>4. CASE m.t \notin {"range", "confirm"}
      BY <1>5, <2>4 DEF Sent, Unregistered
    <2> QED
      BY <2>2, <2>3, <2>4
  <1>6. \A m \in net' : Sent(m)'
    BY <1>5 DEF LaneInv
  <1> QED
    BY <1>1, <1>2, <1>3, <1>4, <1>6 DEF LaneInv

\* What a cycle's copy has in common with the saved cursor.
LEMMA CopyOf ==
  ASSUME LaneInv, pc # "idle"
  PROVE  /\ disk # NoCursor /\ Shape /\ Copied /\ Registering /\ Delivering
         /\ disk \in Cursors /\ w \in Cursors /\ Tracked(w) = Tracked(disk)
         /\ Tracked(disk) \subseteq File /\ Unregistered(w) = Unregistered(disk)
         /\ w.order = disk.order /\ w.man = disk.man /\ w.cur = disk.cur
         /\ \A f \in File : /\ w.f[f] \in Entries /\ disk.f[f] \in Entries /\ Sound(f, w.f[f])
                            /\ w.f[f].acked = disk.f[f].acked /\ w.f[f].obs = disk.f[f].obs
                            /\ w.f[f].st = disk.f[f].st
                            /\ w.f[f].pend => disk.f[f].pend
                            /\ f \notin Tracked(disk) => w.f[f] = NoEntry
  <1>1. /\ disk # NoCursor /\ Shape /\ Copied /\ Registering /\ Delivering
        /\ disk \in Cursors /\ w \in Cursors
    BY DEF LaneInv, Registered, Shape
  <1>2. w.order = disk.order /\ w.man = disk.man /\ w.cur = disk.cur
    BY <1>1 DEF Copied
  <1>3. Tracked(w) = Tracked(disk) /\ Unregistered(w) = Unregistered(disk)
    BY <1>2 DEF Tracked, Unregistered
  <1>4. Tracked(disk) \subseteq File
    BY <1>1, ElemsIn DEF Tracked, Cursors
  <1>5. ASSUME NEW f \in File
        PROVE  /\ w.f[f] \in Entries /\ disk.f[f] \in Entries /\ Sound(f, w.f[f])
               /\ w.f[f].acked = disk.f[f].acked /\ w.f[f].obs = disk.f[f].obs
               /\ w.f[f].st = disk.f[f].st
               /\ w.f[f].pend => disk.f[f].pend
               /\ f \notin Tracked(disk) => w.f[f] = NoEntry
    <2>1. w.f[f] \in Entries /\ disk.f[f] \in Entries
      BY <1>1 DEF Cursors
    <2>2. /\ w.f[f] = [disk.f[f] EXCEPT !.pend = w.f[f].pend] /\ Sound(f, w.f[f])
          /\ w.f[f].pend => disk.f[f].pend
      BY <1>1 DEF Copied
    <2>3. /\ w.f[f].acked = disk.f[f].acked /\ w.f[f].obs = disk.f[f].obs
          /\ w.f[f].st = disk.f[f].st
      BY <2>1, <2>2 DEF Entries
    <2>4. ASSUME f \notin Tracked(disk) PROVE w.f[f] = NoEntry
      <3>1. disk.f[f] = NoEntry
        BY <2>4 DEF LaneInv, Ordered
      <3>2. w.f[f].pend \in BOOLEAN /\ ~ w.f[f].pend
        BY <2>1, <2>2, <3>1 DEF Entries, NoEntry
      <3>3. w.f[f].pend = FALSE
        BY <3>2
      <3> DEFINE x == w.f[f]
      <3>4. x = [acked |-> x.acked, obs |-> x.obs, st |-> x.st, pend |-> x.pend, seen |-> x.seen]
        BY <2>1 DEF Entries
      <3>5. x.acked = 0 /\ x.obs = 0 /\ x.st = "none" /\ x.pend = FALSE /\ x.seen = 0
        BY <2>1, <2>2, <3>1, <3>3 DEF Entries, NoEntry
      <3> HIDE DEF x
      <3>6. x = [acked |-> 0, obs |-> 0, st |-> "none", pend |-> FALSE, seen |-> 0]
        BY <3>4, <3>5
      <3> QED
        BY <3>6 DEF x, NoEntry
    <2> QED
      BY <2>1, <2>2, <2>3, <2>4
  <1> QED
    BY <1>1, <1>2, <1>3, <1>4, <1>5

\* Nothing is known of a cycle that is not running.
LEMMA IdleTyped ==
  ASSUME NginxConstants, Idle
  PROVE  /\ pc' = "idle" /\ w' \in Cursors /\ job' \in Jobs /\ reply' = "none"
         /\ Registering' /\ Delivering'
  <1>1. NoJob \in Jobs
    BY DEF NoJob, Jobs, NginxConstants
  <1> QED
    BY <1>1, NoCursorTyped DEF Idle, Registering, Delivering, OnFile, Working

\* A cycle that ends, fails or dies leaves the invariant as it was, whether it saves its copy or not.
LEMMA EndStep ==
  ASSUME NginxConstants, LaneInv, pc # "idle", Idle, UNCHANGED <<dir, srv, net>>,
         disk' = disk \/ disk' = w
  PROVE  LaneInv' /\ Kept
  <1>1. /\ pc' = "idle" /\ w' \in Cursors /\ job' \in Jobs /\ reply' = "none"
        /\ Registering' /\ Delivering'
    BY IdleTyped
  <1> USE CopyOf
  <1>2. Shape'
    BY <1>1 DEF Shape
  <1>3. disk'.order = disk.order /\ disk'.man = disk.man
    OBVIOUS
  <1>4. \A f \in File : Sound(f, disk'.f[f]) /\ (f \notin Tracked(disk) => disk'.f[f] = NoEntry)
    BY DEF LaneInv, Ordered
  <1>5. \A f \in File : /\ disk.f[f].acked <= disk'.f[f].acked
                        /\ disk.f[f].obs <= disk'.f[f].obs
    BY DEF Entries
  <1>6. Kept
    BY DEF Kept
  <1> QED
    BY <1>1, <1>2, <1>3, <1>4, <1>5, <1>6, CursorStep

\* A copy that has just been saved.
LEMMA FreshCopy ==
  ASSUME UNCHANGED <<dir, srv>>, disk' \in Cursors, w' = disk',
         \A f \in File : Sound(f, disk'.f[f])
  PROVE  Copied'
  <1> SUFFICES ASSUME NEW f \in File
               PROVE  /\ disk'.f[f] = [disk'.f[f] EXCEPT !.pend = disk'.f[f].pend]
                      /\ Sound(f, disk.f[f])'
    BY DEF Copied
  <1>1. PICK x \in Entries : x = disk'.f[f]
    BY DEF Cursors
  <1>2. Sound(f, x) => Sound(f, x)'
    BY DEF Sound, Cut, Ranges
  <1>3. x = [x EXCEPT !.pend = x.pend]
    BY DEF Entries
  <1> QED
    BY <1>1, <1>2, <1>3

\* What is in the network after a request is sent.
LEMMA SendAdds ==
  ASSUME NEW m, NEW where, NEW cursor, NEW work, Send(m, where, cursor, work)
  PROVE  /\ \A r \in net' : r \in net \/ r = m
         /\ pc' = where /\ w' = cursor /\ job' = work /\ await' = m /\ reply' = "none"
  BY DEF Send

\* A cycle behind its registration knows as much after each further step.
LEMMA StillWorking ==
  ASSUME LaneInv, pc \in Working, pc' \in Working, UNCHANGED srv,
         disk'.order = disk.order, disk'.man = disk.man, disk'.cur = disk.cur
  PROVE  Registering'
  BY DEF LaneInv, Registering, Unregistered, Working

\* Monitor's proof for the first pending file, or for the one that was posted.
LEMMA AskProofStep == ASSUME NginxConstants, LaneInv, AskProof PROVE LaneInv' /\ Kept
  <1>1. /\ pc \in {"recover", "ask"} /\ pc # "idle" /\ pc \in Working
        /\ UNCHANGED <<dir, srv, disk, faults>>
    BY DEF AskProof, Working
  <1> USE <1>1, CopyOf
  <1> DEFINE f == IF pc = "ask" THEN job.f ELSE NextPending
             ctx == IF pc = "ask" THEN "post" ELSE "ensure"
             acked == w.f[f].acked
  <1>2. f \in Tracked(disk) /\ f \in File /\ w.f[f].pend
    <2>1. CASE pc = "ask"
      BY <2>1 DEF Delivering, OnFile
    <2>2. CASE pc # "ask"
      <3>1. PICK g \in Pending(w) : TRUE
        BY <2>2 DEF AskProof
      <3>2. w.order \in Seq(File) /\ Len(w.order) \in Nat
        BY DEF Cursors
      <3> DEFINE S == {i \in 1 .. Len(w.order) : w.order[i] \in Pending(w)}
      <3>3. S \in SUBSET Nat /\ S # {}
        BY <3>1, <3>2 DEF Pending, Tracked, Elems
      <3>4. \E i \in S : \A k \in S : i <= k
        <4> HIDE DEF S
        <4> QED
          BY <3>3, Least
      <3>5. \E i \in 1 .. Len(w.order) :
              /\ w.order[i] \in Pending(w)
              /\ \A k \in 1 .. (i - 1) : w.order[k] \notin Pending(w)
        BY <3>2, <3>4
      <3>6. NextPending \in Pending(w)
        BY <3>5 DEF NextPending
      <3> QED
        BY <2>2, <3>6 DEF Pending
    <2> QED
      BY <2>1, <2>2
  <1>3. /\ acked = disk.f[f].acked /\ acked \in 0 .. MaxSize /\ Sound(f, w.f[f])
        /\ srv.next \in [File -> 0 .. MaxSize] /\ srv.conf \in [File -> 0 .. MaxSize]
        /\ MaxSize \in Nat /\ \A g \in File : Covers(g)
        /\ Tracked(disk) \subseteq File /\ ctx \in {"ensure", "post"}
    BY <1>2 DEF LaneInv, Shape, Servers, Entries, NginxConstants
  <1>4. acked \in srv.conf[f] .. srv.next[f]
    BY <1>3 DEF Sound
  <1>5. \E g \in File, a \in 0 .. MaxSize, c \in {"ensure", "post"} :
           /\ g \in Tracked(disk) /\ w.f[g].pend /\ a = disk.f[g].acked /\ a \in srv.conf[g] .. srv.next[g]
           /\ \/ Idle /\ UNCHANGED net
              \/ Send(ConfirmMsg(g, a), "confirm", w, [f |-> g, e |-> a, ctx |-> c])
              \/ /\ a # srv.next[g] /\ UNCHANGED net
                 /\ Goto("rows", w, [f |-> g, e |-> srv.next[g], ctx |-> c])
    <2>1. \/ Idle /\ UNCHANGED net
          \/ Send(ConfirmMsg(f, acked), "confirm", w, [f |-> f, e |-> acked, ctx |-> ctx])
          \/ /\ acked # srv.next[f] /\ UNCHANGED net
             /\ Goto("rows", w, [f |-> f, e |-> srv.next[f], ctx |-> ctx])
      BY <1>4 DEF AskProof
    <2> HIDE DEF f, ctx
    <2> QED
      BY <1>2, <1>3, <1>4, <2>1
  <1> HIDE DEF f, ctx
  <1>6. PICK g \in File, a \in 0 .. MaxSize, c \in {"ensure", "post"} :
           /\ g \in Tracked(disk) /\ w.f[g].pend /\ a = disk.f[g].acked /\ a \in srv.conf[g] .. srv.next[g]
           /\ \/ Idle /\ UNCHANGED net
              \/ Send(ConfirmMsg(g, a), "confirm", w, [f |-> g, e |-> a, ctx |-> c])
              \/ /\ a # srv.next[g] /\ UNCHANGED net
                 /\ Goto("rows", w, [f |-> g, e |-> srv.next[g], ctx |-> c])
    BY <1>5
  <1>7. CASE Idle /\ UNCHANGED net
    BY <1>7, EndStep
  <1>8. ASSUME pc' \in {"confirm", "rows"}, w' = w, reply' = "none",
               job' \in Jobs,
               \A m \in net' : m \in net \/ (m \in Requests /\ Sent(m)'),
               Delivering'
        PROVE  LaneInv' /\ Kept
    <2>2. Shape'
      BY <1>8 DEF Shape, Working
    <2>3. Registering'
      BY <1>8, StillWorking DEF Working
    <2>4. Copied'
      BY <1>8 DEF Copied, Sound, Cut, Ranges
    <2>5. \A h \in File : Sound(h, disk'.f[h]) /\ (h \notin Tracked(disk) => disk'.f[h] = NoEntry)
      BY DEF LaneInv, Ordered
    <2>6. \A h \in File : /\ disk.f[h].acked <= disk'.f[h].acked
                          /\ disk.f[h].obs <= disk'.f[h].obs
      BY DEF Entries
    <2>7. Kept
      BY DEF Kept
    <2> QED
      BY <1>8, <2>2, <2>3, <2>4, <2>5, <2>6, <2>7, CursorStep
  <1>9. CASE Send(ConfirmMsg(g, a), "confirm", w, [f |-> g, e |-> a, ctx |-> c])
    <2> DEFINE m == ConfirmMsg(g, a)
    <2>1. /\ \A r \in net' : r \in net \/ r = m
          /\ pc' = "confirm" /\ w' = w /\ job' = [f |-> g, e |-> a, ctx |-> c]
          /\ await' = m /\ reply' = "none"
      BY <1>9, SendAdds
    <2>2. m \in Requests
      BY <1>3, <1>6 DEF ConfirmMsg, Requests
    <2>3. Sent(m)'
      BY <1>3, <1>6 DEF ConfirmMsg, Sent
    <2>4. Delivering'
      BY <1>3, <1>6, <2>1 DEF Delivering, Tracked, OnFile
    <2>5. job' \in Jobs
      BY <1>6, <2>1 DEF Jobs
    <2>6. \A r \in net' : r \in net \/ (r \in Requests /\ Sent(r)')
      BY <2>1, <2>2, <2>3
    <2> QED
      BY <1>8, <2>1, <2>4, <2>5, <2>6
  <1>10. CASE /\ a # srv.next[g] /\ UNCHANGED net
             /\ Goto("rows", w, [f |-> g, e |-> srv.next[g], ctx |-> c])
    <2>1. /\ pc' = "rows" /\ w' = w /\ job' = [f |-> g, e |-> srv.next[g], ctx |-> c]
          /\ reply' = "none"
      BY <1>10 DEF Goto
    <2>2. Cut(g, srv.next[g])'
      <3>1. \A r \in Ranges(g) : r.e <= srv.next[g] /\ r.e \in Nat
        BY <1>3, <1>6 DEF Covers, Ranges, LaneInv, Shape, Servers, Rows
      <3> QED
        BY <1>3, <3>1 DEF Cut, Ranges
    <2>3. a < srv.next[g] /\ srv.next[g] \in 0 .. MaxSize
      <3>1. srv.next[g] \in 0 .. MaxSize /\ srv.conf[g] \in 0 .. MaxSize
        BY <1>3, <1>6
      <3>2. a \in srv.conf[g] .. srv.next[g] /\ a # srv.next[g] /\ MaxSize \in Nat
        BY <1>3, <1>6, <1>10
      <3> QED
        BY ONLY <3>1, <3>2
    <2>4. Delivering'
      BY <1>3, <1>6, <2>1, <2>2, <2>3 DEF Delivering, Tracked, OnFile
    <2>5. job' \in Jobs
      BY <1>6, <2>1, <2>3 DEF Jobs
    <2> QED
      BY <1>8, <1>10, <2>1, <2>4, <2>5
  <1> QED
    BY <1>6, <1>7, <1>9, <1>10

\* What an acknowledgement writes into the cursor.
LEMMA AcknowledgedTyped ==
  ASSUME NEW c \in Cursors, NEW g \in File, NEW e \in 0 .. MaxSize, dir \in Directories
  PROVE  LET a == Acknowledged(c, g, e) IN
         /\ a \in Cursors /\ a.order = c.order /\ a.man = c.man /\ a.cur = c.cur
         /\ \A h \in File : h # g => a.f[h] = c.f[h]
         /\ a.f[g].acked = e /\ a.f[g].obs = c.f[g].obs /\ a.f[g].pend = c.f[g].pend
         /\ a.f[g].st \in {"quiescent", c.f[g].st}
  <1> DEFINE x == [c.f[g] EXCEPT !.acked = e, !.seen = dir.proofs,
                                 !.st = IF e = c.f[g].obs THEN "quiescent" ELSE c.f[g].st]
             a == Acknowledged(c, g, e)
  <1>1. c.f \in [File -> Entries] /\ c.f[g] \in Entries /\ dir.proofs \in 0 .. MaxFiles
    BY DEF Cursors, Directories
  <1>2. /\ x \in Entries /\ x.acked = e /\ x.obs = c.f[g].obs /\ x.pend = c.f[g].pend
        /\ x.st \in {"quiescent", c.f[g].st}
    BY <1>1 DEF Entries, Stages
  <1>3. a = [c EXCEPT !.f = [c.f EXCEPT ![g] = x]]
    BY <1>1 DEF Acknowledged, Cursors, Entries
  <1> HIDE DEF x, a
  <1>4. /\ [c.f EXCEPT ![g] = x] \in [File -> Entries] /\ [c.f EXCEPT ![g] = x][g] = x
        /\ \A h \in File : h # g => [c.f EXCEPT ![g] = x][h] = c.f[h]
    BY <1>1, <1>2
  <1>5. /\ a \in Cursors /\ a.order = c.order /\ a.man = c.man /\ a.cur = c.cur
        /\ a.f = [c.f EXCEPT ![g] = x]
    BY <1>3, <1>4 DEF Cursors
  <1> QED
    BY <1>2, <1>4, <1>5 DEF a

\* The cursor is saved past a range Monitor holds, before Monitor is told.
LEMMA AcknowledgeStep ==
  ASSUME NginxConstants, LaneInv, pc \in {"rows", "post"}, UNCHANGED <<dir, srv>>,
         disk.f[job.f].acked < job.e, job.e <= srv.next[job.f], Cut(job.f, job.e),
         disk' = Acknowledged(w, job.f, job.e),
         Send(ConfirmMsg(job.f, job.e), "confirm", disk', job)
  PROVE  LaneInv' /\ Acknowledges
  <1>1. /\ disk # NoCursor /\ Shape /\ Delivering /\ w \in Cursors /\ w.order = disk.order
        /\ w.man = disk.man /\ w.cur = disk.cur /\ Tracked(disk) \subseteq File
        /\ \A f \in File : /\ w.f[f] \in Entries /\ disk.f[f] \in Entries /\ Sound(f, w.f[f])
                           /\ w.f[f].acked = disk.f[f].acked /\ w.f[f].obs = disk.f[f].obs
                           /\ f \notin Tracked(disk) => w.f[f] = NoEntry
    BY CopyOf
  <1>2. PICK g \in File, e \in 0 .. MaxSize : g = job.f /\ e = job.e
    BY <1>1 DEF Delivering, OnFile, Shape, Jobs
  <1>3. g \in Tracked(disk) /\ w.f[g].pend
    BY <1>1, <1>2 DEF Delivering, OnFile
  <1>4. /\ disk' \in Cursors /\ disk'.order = disk.order /\ disk'.man = disk.man
        /\ disk'.cur = disk.cur
        /\ \A h \in File : h # g => disk'.f[h] = w.f[h]
        /\ disk'.f[g].acked = e /\ disk'.f[g].obs = w.f[g].obs /\ disk'.f[g].pend = w.f[g].pend
        /\ disk'.f[g].st \in {"quiescent", w.f[g].st}
    <2>1. dir \in Directories /\ disk' = Acknowledged(w, g, e)
      BY <1>1, <1>2 DEF Shape
    <2> QED
      BY <1>1, <2>1, AcknowledgedTyped
  <1>5. /\ \A r \in net' : r \in net \/ r = ConfirmMsg(g, e)
        /\ pc' = "confirm" /\ w' = disk' /\ job' = job /\ await' = ConfirmMsg(g, e)
        /\ reply' = "none"
    BY <1>2, SendAdds
  <1>6. disk.f[g].acked < e /\ e <= srv.next[g] /\ Cut(g, e)
    BY <1>2
  <1>7. /\ srv.conf[g] \in 0 .. MaxSize /\ srv.next[g] \in 0 .. MaxSize /\ MaxSize \in Nat
        /\ disk.f[g].acked \in 0 .. MaxSize
    BY <1>1 DEF Shape, Servers, NginxConstants, Entries
  <1>8. ASSUME NEW f \in File
        PROVE  /\ Sound(f, disk'.f[f]) /\ (f \notin Tracked(disk) => disk'.f[f] = NoEntry)
               /\ disk.f[f].acked <= disk'.f[f].acked /\ disk.f[f].obs <= disk'.f[f].obs
    <2>1. CASE f # g
      <3>1. disk'.f[f] = w.f[f]
        BY <1>4, <2>1
      <3>2. /\ disk.f[f].acked = w.f[f].acked /\ disk.f[f].obs = w.f[f].obs
            /\ w.f[f].acked \in Nat /\ w.f[f].obs \in Nat
        BY <1>1 DEF Entries
      <3> QED
        BY <1>1, <3>1, <3>2
    <2>2. CASE f = g
      <3>1. Sound(g, w.f[g]) /\ w.f[g].acked = disk.f[g].acked /\ w.f[g].obs = disk.f[g].obs
        BY <1>1
      <3>2. srv.conf[g] <= e
        BY <1>6, <1>7, <3>1 DEF Sound
      <3>3. disk'.f[g].st = "retired" => ~ disk'.f[g].pend
        BY <1>4, <3>1 DEF Sound
      <3>4. Sound(g, disk'.f[g])
        BY <1>3, <1>4, <1>6, <3>1, <3>2, <3>3 DEF Sound
      <3>5. disk.f[g].acked <= e /\ disk.f[g].obs <= disk.f[g].obs
        BY <1>1, <1>6, <1>7 DEF Entries
      <3> QED
        BY <1>3, <1>4, <2>2, <3>1, <3>4, <3>5
    <2> QED
      BY <2>1, <2>2
  <1>9. Shape'
    <2>1. ConfirmMsg(g, e) \in Requests
      BY DEF ConfirmMsg, Requests
    <2> QED
      BY <1>1, <1>4, <1>5, <2>1 DEF Shape, Working
  <1>10. \A r \in net' : r \in net \/ Sent(r)'
    <2>1. e <= disk'.f[g].acked
      BY <1>4
    <2>2. Sent(ConfirmMsg(g, e))'
      BY <2>1 DEF Sent, ConfirmMsg
    <2> QED
      BY <1>5, <2>2
  <1>11. Copied'
    BY <1>4, <1>5, <1>8, FreshCopy
  <1>12. Registering'
    BY <1>4, <1>5, StillWorking DEF Working
  <1>13. Delivering'
    BY <1>2, <1>3, <1>4, <1>5 DEF Delivering, Tracked, OnFile
  <1>14. Acknowledges
    <2>1. e \in (disk.f[g].acked + 1) .. srv.next[g]
      BY <1>6, <1>7
    <2>2. \A f \in File : disk'.f[f].acked = IF f = g THEN e ELSE disk.f[f].acked
      BY <1>1, <1>4
    <2> QED
      BY <2>1, <2>2 DEF Acknowledges
  <1> QED
    BY <1>1, <1>4, <1>8, <1>9, <1>10, <1>11, <1>12, <1>13, <1>14, CursorStep

\* Monitor's rows are taken over, and a committed range.
LEMMA TakeProofStep ==
  ASSUME NginxConstants, LaneInv, TakeProof
  PROVE  LaneInv' /\ (Kept \/ Acknowledges)
  <1>1. pc = "rows" /\ UNCHANGED <<dir, srv>>
    BY DEF TakeProof
  <1>2. CASE Idle /\ UNCHANGED <<net, disk>>
    BY <1>1, <1>2, EndStep
  <1>3. CASE /\ disk' = Acknowledged(w, job.f, job.e)
             /\ Send(ConfirmMsg(job.f, job.e), "confirm", disk', job)
    <2>1. disk.f[job.f].acked < job.e /\ job.e <= srv.next[job.f] /\ Cut(job.f, job.e)
      BY <1>1 DEF LaneInv, Delivering
    <2> QED
      BY <1>1, <1>3, <2>1, AcknowledgeStep
  <1> QED
    BY <1>2, <1>3 DEF TakeProof

\* The exact commit acknowledgement moves the cursor.
LEMMA RangeAcknowledgedStep ==
  ASSUME NginxConstants, LaneInv, RangeAcknowledged
  PROVE  LaneInv' /\ Acknowledges
  <1>1. pc = "post" /\ UNCHANGED <<dir, srv>> /\ reply = "ok"
    BY DEF RangeAcknowledged, Committed
  <1>2. disk.f[job.f].acked < job.e /\ job.e <= srv.next[job.f] /\ Cut(job.f, job.e)
    BY <1>1 DEF LaneInv, Delivering
  <1> QED
    BY <1>1, <1>2, AcknowledgeStep DEF RangeAcknowledged

\* Cycles that stop.
LEMMA StopSteps ==
  ASSUME NginxConstants, LaneInv, NothingToRead \/ CycleFails \/ Crash
  PROVE  LaneInv' /\ Kept
  <1>1. CASE NothingToRead
    BY <1>1, EndStep DEF NothingToRead
  <1>2. CASE CycleFails
    BY <1>2, EndStep DEF CycleFails
  <1>3. CASE Crash
    BY <1>3, EndStep DEF Crash
  <1> QED
    BY <1>1, <1>2, <1>3

\* A marker is cleared when Monitor has confirmed what the entry acknowledges.
LEMMA ConfirmedStep == ASSUME NginxConstants, LaneInv, Confirmed PROVE LaneInv' /\ Kept
  <1> DEFINE c == [w EXCEPT !.f[job.f].pend = FALSE]
  <1>1. pc = "confirm" /\ reply = "ok" /\ UNCHANGED <<dir, srv, net, faults>>
    BY DEF Confirmed
  <1>2. /\ disk # NoCursor /\ Shape /\ Delivering /\ w \in Cursors /\ disk \in Cursors
        /\ w.order = disk.order /\ Copied
        /\ w.man = disk.man /\ w.cur = disk.cur /\ Tracked(disk) \subseteq File
        /\ \A f \in File : /\ w.f[f] \in Entries /\ disk.f[f] \in Entries /\ Sound(f, w.f[f])
                           /\ w.f[f].acked = disk.f[f].acked /\ w.f[f].obs = disk.f[f].obs
                           /\ f \notin Tracked(disk) => w.f[f] = NoEntry
    BY <1>1, CopyOf
  <1>3. PICK g \in File : g = job.f
    BY <1>1, <1>2 DEF Delivering, OnFile
  <1>4. g \in Tracked(disk) /\ srv.conf[g] = disk.f[g].acked
    BY <1>1, <1>2, <1>3 DEF Delivering, OnFile
  <1> DEFINE x == [w.f[g] EXCEPT !.pend = FALSE]
  <1>5. /\ x \in Entries /\ x.acked = w.f[g].acked /\ x.obs = w.f[g].obs /\ x.pend = FALSE
        /\ x = [disk.f[g] EXCEPT !.pend = FALSE]
    <2>1. w.f[g] \in Entries /\ disk.f[g] \in Entries
      BY <1>2
    <2>2. w.f[g] = [disk.f[g] EXCEPT !.pend = w.f[g].pend]
      BY <1>2 DEF Copied
    <2>3. x \in Entries /\ x.acked = w.f[g].acked /\ x.obs = w.f[g].obs /\ x.pend = FALSE
      BY <2>1 DEF Entries
    <2>4. x = [disk.f[g] EXCEPT !.pend = FALSE]
      <3> DEFINE d == disk.f[g]
                 p == w.f[g].pend
      <3>1. w.f[g] = [d EXCEPT !.pend = p] /\ d \in Entries
        BY <2>1, <2>2
      <3> HIDE DEF d, p
      <3>2. [[d EXCEPT !.pend = p] EXCEPT !.pend = FALSE] = [d EXCEPT !.pend = FALSE]
        BY <3>1 DEF Entries
      <3> QED
        BY <3>1, <3>2 DEF d
    <2> QED
      BY <2>3, <2>4
  <1>6. Sound(g, x)
    BY <1>2, <1>4, <1>5 DEF Sound
  <1>7. c = [w EXCEPT !.f = [w.f EXCEPT ![g] = x]]
    BY <1>2, <1>3 DEF Cursors, Entries
  <1> HIDE DEF x, c
  <1>8. /\ c \in Cursors /\ c.order = disk.order /\ c.man = disk.man /\ c.cur = disk.cur
        /\ c.rr = w.rr /\ c.f[g] = x /\ \A h \in File : h # g => c.f[h] = w.f[h]
    <2>1. /\ [w.f EXCEPT ![g] = x] \in [File -> Entries] /\ [w.f EXCEPT ![g] = x][g] = x
          /\ \A h \in File : h # g => [w.f EXCEPT ![g] = x][h] = w.f[h]
      BY <1>2, <1>5 DEF Cursors
    <2>2. c.f = [w.f EXCEPT ![g] = x]
      BY <1>2, <1>7 DEF Cursors
    <2> QED
      BY <1>2, <1>7, <2>1, <2>2 DEF Cursors
  <1>9. \A f \in File : Sound(f, c.f[f]) /\ (f \notin Tracked(disk) => c.f[f] = NoEntry)
    BY <1>2, <1>4, <1>6, <1>8
  <1>10. \A f \in File : /\ c.f[f].acked = disk.f[f].acked /\ c.f[f].obs = disk.f[f].obs
                         /\ disk.f[f].acked <= disk.f[f].acked /\ disk.f[f].obs <= disk.f[f].obs
    BY <1>2, <1>5, <1>8 DEF Entries
  <1>11. NoJob \in Jobs
    BY DEF NoJob, Jobs, NginxConstants
  <1>12. CASE Goto("recover", c, NoJob) /\ UNCHANGED disk
    <2>1. pc' = "recover" /\ w' = c /\ job' = NoJob /\ reply' = "none"
      BY <1>12 DEF Goto
    <2>2. Shape'
      BY <1>1, <1>2, <1>8, <1>11, <1>12, <2>1 DEF Shape, Working
    <2>3. Copied'
      <3>1. ASSUME NEW f \in File
            PROVE  /\ c.f[f] = [disk.f[f] EXCEPT !.pend = c.f[f].pend]
                   /\ c.f[f].pend => disk.f[f].pend
        <4>1. CASE f = g
          BY <1>5, <1>8, <4>1
        <4>2. CASE f # g
          BY <1>2, <1>8, <4>2 DEF Copied
        <4> QED
          BY <4>1, <4>2
      <3>2. \A f \in File : Sound(f, w.f[f])'
        BY <1>1, <1>9, <2>1 DEF Sound, Cut, Ranges
      <3>3. w'.order = disk'.order /\ w'.man = disk'.man /\ w'.cur = disk'.cur /\ w'.rr = disk'.rr
        BY <1>2, <1>8, <1>12, <2>1 DEF Copied
      <3> QED
        BY <1>12, <2>1, <3>1, <3>2, <3>3 DEF Copied
    <2>4. Registering'
      BY <1>1, <1>12, <2>1, StillWorking DEF Working
    <2>5. Delivering'
      BY <2>1 DEF Delivering, OnFile
    <2>6. \A f \in File : Sound(f, disk.f[f]) /\ (f \notin Tracked(disk) => disk.f[f] = NoEntry)
      BY DEF LaneInv, Ordered
    <2>7. disk' = disk
      BY <1>12
    <2>8. Kept
      BY <1>12 DEF Kept
    <2> QED
      BY <1>1, <1>2, <1>10, <2>2, <2>3, <2>4, <2>5, <2>6, <2>7, <2>8, CursorStep
  <1>13. CASE Idle /\ disk' = c
    <2>1. /\ pc' = "idle" /\ w' \in Cursors /\ job' \in Jobs /\ reply' = "none"
          /\ Registering' /\ Delivering'
      BY <1>13, IdleTyped
    <2>2. Shape'
      BY <1>1, <1>2, <1>8, <1>13, <2>1 DEF Shape
    <2>3. Kept
      BY <1>10, <1>13 DEF Kept
    <2> QED
      BY <1>1, <1>2, <1>8, <1>9, <1>10, <1>13, <2>1, <2>2, <2>3, CursorStep
  <1> QED
    BY <1>12, <1>13 DEF Confirmed, c

\* Missing files retire with nothing left to confirm.
LEMMA ReleaseStep == ASSUME NginxConstants, LaneInv, Release PROVE LaneInv' /\ Kept
  <1>1. pc = "recover" /\ Pending(w) = {} /\ UNCHANGED <<dir, srv, net, faults>>
    BY DEF Release
  <1>2. /\ disk # NoCursor /\ Shape /\ Delivering /\ w \in Cursors
        /\ w.order = disk.order /\ Tracked(w) = Tracked(disk)
        /\ w.man = disk.man /\ w.cur = disk.cur /\ Tracked(disk) \subseteq File
        /\ \A f \in File : /\ w.f[f] \in Entries /\ disk.f[f] \in Entries /\ Sound(f, w.f[f])
                           /\ w.f[f].acked = disk.f[f].acked /\ w.f[f].obs = disk.f[f].obs
                           /\ f \notin Tracked(disk) => w.f[f] = NoEntry
    BY <1>1, CopyOf
  <1>3. PICK S \in SUBSET ReleasedSameSecond(w) :
          disk' = [w EXCEPT !.f = [f \in File |->
                    IF w.f[f].st = "missing" /\ f \in ReleasedSince(w) \cup S
                    THEN [w.f[f] EXCEPT !.st = "retired"] ELSE w.f[f]]]
    BY DEF Release
  <1>4. pc' = "select" /\ w' = disk' /\ job' = NoJob /\ reply' = "none"
    BY DEF Release, Goto
  <1> DEFINE F == [f \in File |-> IF w.f[f].st = "missing" /\ f \in ReleasedSince(w) \cup S
                                  THEN [w.f[f] EXCEPT !.st = "retired"] ELSE w.f[f]]
  <1>5. ASSUME NEW f \in File
        PROVE  /\ F[f] \in Entries /\ F[f].acked = w.f[f].acked /\ F[f].obs = w.f[f].obs
               /\ F[f].pend = w.f[f].pend
               /\ F[f].st = "retired" => w.f[f].st \in {"missing", "retired"}
               /\ w.f[f].st = "retired" => F[f].st = "retired"
               /\ w.f[f].st = "none" => F[f] = w.f[f]
    BY <1>2 DEF Entries, Stages
  <1>6. F \in [File -> Entries]
    BY <1>5
  <1> HIDE DEF F
  <1>7. disk' = [w EXCEPT !.f = F]
    BY <1>3 DEF F
  <1>8. /\ disk' \in Cursors /\ disk'.order = disk.order /\ disk'.man = disk.man
        /\ disk'.cur = disk.cur /\ disk'.f = F
    BY <1>2, <1>6, <1>7 DEF Cursors
  <1>9. ASSUME NEW f \in File
        PROVE  /\ Sound(f, disk'.f[f]) /\ (f \notin Tracked(disk) => disk'.f[f] = NoEntry)
               /\ disk.f[f].acked <= disk'.f[f].acked /\ disk.f[f].obs <= disk'.f[f].obs
    <2>1. f \notin Tracked(disk) => F[f] = NoEntry
      BY <1>2, <1>5 DEF NoEntry
    <2>2. F[f].st = "retired" => ~ F[f].pend
      BY <1>1, <1>2, <1>5, <2>1 DEF Pending, Sound, NoEntry
    <2>3. Sound(f, F[f])
      BY <1>2, <1>5, <2>2 DEF Sound
    <2>4. disk.f[f].acked <= F[f].acked /\ disk.f[f].obs <= F[f].obs
      BY <1>2, <1>5 DEF Entries
    <2> QED
      BY <1>8, <2>1, <2>3, <2>4
  <1>10. Shape'
    <2>1. NoJob \in Jobs
      BY DEF NoJob, Jobs, NginxConstants
    <2> QED
      BY <1>1, <1>2, <1>4, <1>8, <2>1 DEF Shape, Working
  <1>11. Copied'
    BY <1>1, <1>4, <1>8, <1>9, FreshCopy
  <1>12. Registering'
    BY <1>1, <1>4, <1>8, StillWorking DEF Working
  <1>13. Delivering'
    <2>1. \A f \in File : F[f].pend /\ F[f].st # "retired" => w.f[f].pend /\ w.f[f].st # "retired"
      BY <1>5
    <2>2. Pending(w)' = {}
      BY <1>1, <1>2, <1>4, <1>8, <2>1 DEF Pending, Tracked
    <2> QED
      BY <1>4, <2>2 DEF Delivering, OnFile
  <1>14. Kept
    BY <1>2, <1>5, <1>8 DEF Kept
  <1> QED
    BY <1>1, <1>2, <1>8, <1>9, <1>10, <1>11, <1>12, <1>13, <1>14, CursorStep

\* The next file to be read is one that has something to read.
LEMMA ChosenIsReadable ==
  ASSUME NEW c \in Cursors, NginxConstants, Readable(c) # {}
  PROVE  Chosen(c) \in Readable(c) /\ Chosen(c) \in File
  <1>1. Readable(c) \subseteq Elems(c.man.files) /\ c.man.files \in Seq(File)
    BY DEF Readable, Cursors, Manifests
  <1>2. Readable(c) \subseteq File /\ File \subseteq Nat
    BY <1>1, ElemsIn DEF File, NginxConstants
  <1>3. CASE Rotated(c) # {} /\ (c.cur \notin Readable(c) \/ c.rr = Turns - 1)
    <2>1. Rotated(c) \in SUBSET Nat /\ Rotated(c) \subseteq Readable(c)
      BY <1>2 DEF Rotated
    <2>2. \E f \in Rotated(c) : \A g \in Rotated(c) : f <= g
      BY <1>3, <2>1, Least
    <2>3. Oldest(Rotated(c)) \in Rotated(c)
      BY <2>2 DEF Oldest
    <2>4. Chosen(c) = Oldest(Rotated(c))
      BY <1>3 DEF Chosen
    <2> QED
      BY <1>2, <2>1, <2>3, <2>4
  <1>4. CASE ~ (Rotated(c) # {} /\ (c.cur \notin Readable(c) \/ c.rr = Turns - 1))
    <2>1. Chosen(c) = c.cur
      BY <1>4 DEF Chosen
    <2>2. c.cur \in Readable(c)
      BY <1>4 DEF Rotated
    <2> QED
      BY <1>2, <2>1, <2>2
  <1> QED
    BY <1>3, <1>4

\* The marker is saved, with the size of what is about to be sent.
LEMMA PostRangeStep == ASSUME NginxConstants, LaneInv, PostRange PROVE LaneInv' /\ Kept
  <1>1. pc = "select" /\ Readable(w) # {} /\ UNCHANGED <<dir, srv, faults>>
    BY DEF PostRange
  <1>2. /\ disk # NoCursor /\ Shape /\ Registering /\ w \in Cursors
        /\ w.order = disk.order /\ w.man = disk.man /\ w.cur = disk.cur
        /\ Tracked(disk) \subseteq File
        /\ \A f \in File : /\ w.f[f] \in Entries /\ disk.f[f] \in Entries /\ Sound(f, w.f[f])
                           /\ w.f[f].acked = disk.f[f].acked /\ w.f[f].obs = disk.f[f].obs
                           /\ f \notin Tracked(disk) => w.f[f] = NoEntry
    BY <1>1, CopyOf
  <1>3. PICK g \in File : g = Chosen(w) /\ g \in Tracked(disk)
    <2>1. Chosen(w) \in Readable(w) /\ Chosen(w) \in File
      BY <1>1, <1>2, ChosenIsReadable
    <2>2. Elems(w.man.files) = Tracked(disk)
      BY <1>1, <1>2 DEF Registering, Working, Tracked
    <2> QED
      BY <2>1, <2>2 DEF Readable
  <1>4. PICK a \in 0 .. MaxSize : a = disk.f[g].acked /\ a = w.f[g].acked
    BY <1>2 DEF Entries
  <1>5. PICK e \in (a + 1) .. dir.size[g], p \in Payload :
          /\ disk' = Marked([Turned(w) EXCEPT !.f[g].obs = Observed(@, e),
                       !.f[g].seen = dir.proofs, !.f[g].st = "active"], g)
          /\ Send([t |-> "range", f |-> g, s |-> a, e |-> e, p |-> p],
                  "post", disk', [f |-> g, e |-> e, ctx |-> "post"])
    BY <1>3, <1>4 DEF PostRange
  <1>6. /\ dir.size[g] \in 0 .. MaxSize /\ MaxSize \in Nat /\ dir.proofs \in 0 .. MaxFiles
        /\ srv.next[g] \in 0 .. MaxSize /\ w.f[g].obs \in 0 .. MaxSize
    BY <1>2 DEF Shape, Directories, Servers, NginxConstants, Entries
  <1>7. e \in 0 .. MaxSize /\ a < e /\ e <= dir.size[g]
    BY <1>6
  <1> DEFINE m == [t |-> "range", f |-> g, s |-> a, e |-> e, p |-> p]
             x == [w.f[g] EXCEPT !.obs = Observed(w.f[g].obs, e), !.seen = dir.proofs,
                                 !.st = "active", !.pend = TRUE]
             c == Turned(w)
  <1>8. /\ x \in Entries /\ x.acked = a /\ x.pend = TRUE /\ x.st = "active"
        /\ e <= x.obs /\ w.f[g].obs <= x.obs /\ (x.obs = e \/ x.obs = w.f[g].obs)
    <2>1. /\ Observed(w.f[g].obs, e) \in 0 .. MaxSize
          /\ e <= Observed(w.f[g].obs, e) /\ w.f[g].obs <= Observed(w.f[g].obs, e)
          /\ Observed(w.f[g].obs, e) = e \/ Observed(w.f[g].obs, e) = w.f[g].obs
      BY <1>6, <1>7 DEF Observed
    <2>2. w.f[g] \in Entries
      BY <1>2
    <2> DEFINE o == Observed(w.f[g].obs, e)
    <2> HIDE DEF o
    <2>3. /\ x = [w.f[g] EXCEPT !.obs = o, !.seen = dir.proofs, !.st = "active", !.pend = TRUE]
          /\ o \in 0 .. MaxSize /\ e <= o /\ w.f[g].obs <= o /\ (o = e \/ o = w.f[g].obs)
      BY <2>1 DEF o
    <2> HIDE DEF x
    <2> QED
      BY <1>4, <1>6, <2>2, <2>3 DEF Entries, Stages
  <1>9. c \in Cursors /\ c.order = w.order /\ c.man = w.man /\ c.cur = w.cur /\ c.f = w.f
    <2>1. Turns \in Nat /\ Turns > 0 /\ w.rr \in Nat
      BY <1>2 DEF NginxConstants, Cursors
    <2>2. (w.rr + 1) % Turns \in 0 .. (Turns - 1)
      BY <2>1
    <2> QED
      BY <1>2, <2>2 DEF Turned, Cursors
  <1>10. disk' = [c EXCEPT !.f = [w.f EXCEPT ![g] = x]]
    <2>1. /\ c.f \in [File -> Entries] /\ c.f[g] = w.f[g] /\ w.f[g] \in Entries /\ c.f = w.f
          /\ c = [order |-> c.order, man |-> c.man, cur |-> c.cur, rr |-> c.rr, f |-> c.f]
      BY <1>2, <1>9 DEF Cursors
    <2>2. disk' = Marked([c EXCEPT !.f[g].obs = Observed(@, e),
                                   !.f[g].seen = dir.proofs, !.f[g].st = "active"], g)
      BY <1>5
    <2> DEFINE y == [w.f[g] EXCEPT !.obs = Observed(w.f[g].obs, e), !.seen = dir.proofs,
                                   !.st = "active"]
               d == [c EXCEPT !.f[g].obs = Observed(@, e), !.f[g].seen = dir.proofs,
                              !.f[g].st = "active"]
    <2> HIDE DEF c
    <2>3. d = [c EXCEPT !.f = [w.f EXCEPT ![g] = y]]
      BY <2>1 DEF Entries
    <2>4. x = [y EXCEPT !.pend = TRUE] /\ y = [w.f[g] EXCEPT !.obs = y.obs, !.seen = y.seen, !.st = y.st]
      BY <2>1 DEF Entries
    <2> HIDE DEF x, y, d
    <2>5. d.f = [w.f EXCEPT ![g] = y] /\ d.f[g] = y
      BY <2>1, <2>3
    <2>6. [d.f EXCEPT ![g].pend = TRUE] = [w.f EXCEPT ![g] = x]
      BY <2>1, <2>4, <2>5
    <2>7. Marked(d, g) = [c EXCEPT !.f = [d.f EXCEPT ![g].pend = TRUE]]
      BY <2>1, <2>3 DEF Marked
    <2> QED
      BY <2>2, <2>6, <2>7 DEF d
  <1> HIDE DEF c, x
  <1>11. /\ disk' \in Cursors /\ disk'.order = disk.order /\ disk'.man = disk.man
         /\ disk'.cur = disk.cur /\ disk'.f[g] = x /\ \A h \in File : h # g => disk'.f[h] = w.f[h]
    <2>1. /\ [w.f EXCEPT ![g] = x] \in [File -> Entries] /\ [w.f EXCEPT ![g] = x][g] = x
          /\ \A h \in File : h # g => [w.f EXCEPT ![g] = x][h] = w.f[h]
      BY <1>2, <1>8 DEF Cursors
    <2>2. disk'.f = [w.f EXCEPT ![g] = x]
      BY <1>9, <1>10 DEF Cursors
    <2> QED
      BY <1>2, <1>9, <1>10, <2>1, <2>2 DEF Cursors
  <1>12. /\ \A r \in net' : r \in net \/ r = m
         /\ pc' = "post" /\ w' = disk' /\ job' = [f |-> g, e |-> e, ctx |-> "post"]
         /\ await' = m /\ reply' = "none"
    BY <1>5, SendAdds
  <1>13. ASSUME NEW f \in File
         PROVE  /\ Sound(f, disk'.f[f]) /\ (f \notin Tracked(disk) => disk'.f[f] = NoEntry)
                /\ disk.f[f].acked <= disk'.f[f].acked /\ disk.f[f].obs <= disk'.f[f].obs
    <2>1. CASE f # g
      <3>1. disk'.f[f] = w.f[f]
        BY <1>11, <2>1
      <3>2. /\ disk.f[f].acked = w.f[f].acked /\ disk.f[f].obs = w.f[f].obs
            /\ w.f[f].acked \in Nat /\ w.f[f].obs \in Nat
        BY <1>2 DEF Entries
      <3> QED
        BY <1>2, <3>1, <3>2
    <2>2. CASE f = g
      <3>1. Sound(g, w.f[g]) /\ w.f[g].acked = a /\ w.f[g].obs = disk.f[g].obs
        BY <1>2, <1>4
      <3>2. srv.next[g] <= x.obs /\ x.obs <= dir.size[g]
        BY <1>6, <1>7, <1>8, <3>1 DEF Sound, Entries
      <3>3. Sound(g, x)
        BY <1>8, <3>1, <3>2 DEF Sound
      <3>4. disk.f[g].acked <= x.acked /\ disk.f[g].obs <= x.obs
        BY <1>4, <1>8, <3>1
      <3> QED
        BY <1>3, <1>11, <2>2, <3>3, <3>4
    <2> QED
      BY <2>1, <2>2
  <1>14. m \in Requests
    BY <1>7 DEF Requests
  <1>15. job' \in Jobs
    BY <1>7, <1>12 DEF Jobs
  <1>16. Shape'
    BY <1>1, <1>2, <1>11, <1>12, <1>14, <1>15 DEF Shape, Working
  <1>17. Sent(m)'
    BY <1>7, <1>8, <1>11 DEF Sent
  <1>18. Copied'
    BY <1>1, <1>11, <1>12, <1>13, FreshCopy
  <1>19. Registering'
    BY <1>1, <1>2, <1>11, <1>12, StillWorking DEF Working
  <1>20. Delivering'
    BY <1>3, <1>4, <1>7, <1>8, <1>11, <1>12 DEF Delivering, Tracked, OnFile
  <1>21. \A r \in net' : r \in net \/ Sent(r)'
    BY <1>12, <1>17
  <1>22. Kept
    BY <1>2, <1>4, <1>8, <1>11 DEF Kept
  <1> QED
    BY <1>1, <1>2, <1>11, <1>13, <1>16, <1>18, <1>19, <1>20, <1>21, <1>22, CursorStep

\* A refused or unanswered POST keeps the marker.
LEMMA PostFailedStep == ASSUME NginxConstants, LaneInv, PostFailed PROVE LaneInv' /\ Kept
  <1>1. pc = "post" /\ UNCHANGED <<dir, srv, net, disk>>
    BY DEF PostFailed
  <1>2. pc' = "ask" /\ w' = w /\ job' = job /\ reply' = "none"
    BY DEF PostFailed, Goto
  <1>3. /\ disk # NoCursor /\ Shape /\ Copied /\ Delivering /\ disk \in Cursors
        /\ \A f \in File : disk.f[f] \in Entries
    BY <1>1, CopyOf
  <1>4. Shape'
    BY <1>1, <1>2, <1>3 DEF Shape, Working
  <1>5. Copied'
    BY <1>1, <1>2, <1>3 DEF Copied, Sound, Cut, Ranges
  <1>6. Registering'
    BY <1>1, <1>2, StillWorking DEF Working
  <1>7. Delivering'
    BY <1>1, <1>2, <1>3 DEF Delivering, Tracked, OnFile
  <1>8. \A f \in File : Sound(f, disk.f[f]) /\ (f \notin Tracked(disk) => disk.f[f] = NoEntry)
    BY DEF LaneInv, Ordered
  <1>9. \A f \in File : disk.f[f].acked <= disk.f[f].acked /\ disk.f[f].obs <= disk.f[f].obs
    BY <1>3 DEF Entries
  <1>10. Kept
    BY <1>1 DEF Kept
  <1> QED
    BY <1>1, <1>3, <1>4, <1>5, <1>6, <1>7, <1>8, <1>9, <1>10, CursorStep
-----------------------------------------------------------------------------
(* Registrations.                                                            *)

\* A step of the collector that saves new files or a new manifest keeps the invariant when the
\* two sides stay in step.
LEMMA FilesStep ==
  ASSUME NginxConstants, LaneInv, UNCHANGED <<dir, srv>>, Shape', Registered',
         \A f \in Tracked(disk)' : f <= dir.cur,
         \A f \in File : Sound(f, disk'.f[f]) /\ (f \notin Tracked(disk)' => disk'.f[f] = NoEntry),
         \A m \in net' : Sent(m)',
         w' = disk', Registering', Delivering'
  PROVE  LaneInv'
  <1>1. Numbered'
    BY DEF LaneInv, Numbered
  <1>2. CountedOnce' /\ \A f \in File : Covers(f)'
    <2>1. CountedOnce'
      BY DEF LaneInv, CountedOnce
    <2>2. \A f \in File : Covers(f)'
      BY DEF LaneInv, Covers, Ranges
    <2> QED
      BY <2>1, <2>2
  <1>3. \A f \in File : Ordered(f)'
    BY DEF Ordered, Sound, Cut, Ranges
  <1>4. Copied'
    BY FreshCopy DEF Shape
  <1> QED
    BY <1>1, <1>2, <1>3, <1>4 DEF LaneInv

\* The watermark of a file that has not been known.
LEMMA NewWatermarkSound ==
  ASSUME NginxConstants, LaneInv, NEW f \in File, f \notin Tracked(disk)
  PROVE  NewWatermark(f) \in Entries /\ Sound(f, NewWatermark(f)) /\ Sound(f, NoEntry)
  <1>1. /\ dir.size[f] \in 0 .. MaxSize /\ dir.proofs \in 0 .. MaxFiles /\ MaxSize \in Nat
        /\ srv.next[f] \in 0 .. MaxSize /\ srv.conf[f] \in 0 .. MaxSize
    BY DEF LaneInv, Shape, Directories, Servers, NginxConstants
  <1>2. disk.f[f] = NoEntry /\ Sound(f, NoEntry)
    BY DEF LaneInv, Ordered
  <1>3. srv.conf[f] = 0 /\ srv.next[f] = 0 /\ Cut(f, 0)
    BY <1>1, <1>2 DEF Sound, NoEntry
  <1>4. NewWatermark(f) \in Entries
    BY <1>1 DEF NewWatermark, Entries, Readiness, Stages
  <1>5. Sound(f, NewWatermark(f))
    BY <1>1, <1>3 DEF Sound, NewWatermark, Readiness
  <1> QED
    BY <1>2, <1>4, <1>5

\* The first cursor is saved before its manifest is sent.
LEMMA BootstrapStep == ASSUME NginxConstants, LaneInv, Bootstrap PROVE LaneInv' /\ Kept
  <1> DEFINE g == dir.cur
             m == [t |-> "manifest", files |-> <<dir.cur>>]
  <1>1. /\ Shape /\ Registered /\ Numbered /\ dir.cur \in File /\ disk = NoCursor /\ net = {}
        /\ UNCHANGED <<dir, srv, faults>> /\ srv \in Servers /\ dir \in Directories
    BY DEF LaneInv, Registered, Shape, Directories, Bootstrap
  <1>2. PICK c \in File : c = dir.cur
    BY <1>1
  <1>3. NoCursor \in Cursors /\ NoManifest \in Manifests /\ NoEntry \in Entries
    BY NoCursorTyped
  <1>4. /\ NoCursor.order = <<>> /\ NoCursor.man = NoManifest /\ NoManifest.files = <<>>
        /\ Tracked(NoCursor) = {} /\ \A f \in File : NoCursor.f[f] = NoEntry
    BY NoCursorIsEmpty
  <1>5. /\ NewWatermark(c) \in Entries /\ Sound(c, NewWatermark(c))
        /\ \A f \in File : Sound(f, NoEntry)
    BY <1>1, <1>4, NewWatermarkSound
  <1>6. /\ disk' \in Cursors /\ disk'.order = <<c>> /\ disk'.man = NoManifest /\ disk'.cur = c
        /\ disk'.f[c] = NewWatermark(c) /\ \A f \in File : f # c => disk'.f[f] = NoEntry
    <2> DEFINE x == NewWatermark(c)
    <2>1. disk' = [NoCursor EXCEPT !.order = <<c>>, !.cur = c, !.f[c] = x]
      BY <1>2 DEF Bootstrap
    <2>2. NoCursor.f \in [File -> Entries] /\ x \in Entries /\ c \in 0 .. MaxFiles /\ <<c>> \in Seq(File)
      BY <1>3, <1>5 DEF Cursors, File, NginxConstants
    <2> HIDE DEF x
    <2>3. disk'.f = [NoCursor.f EXCEPT ![c] = x]
      BY <1>3, <2>1, <2>2 DEF Cursors
    <2>4. [NoCursor.f EXCEPT ![c] = x] \in [File -> Entries] /\ disk'.f[c] = x
          /\ \A f \in File : f # c => disk'.f[f] = NoCursor.f[f]
      BY <2>2, <2>3
    <2>5. /\ disk' \in Cursors /\ disk'.order = <<c>> /\ disk'.man = NoCursor.man /\ disk'.cur = c
      BY <1>3, <2>1, <2>2, <2>3, <2>4 DEF Cursors
    <2> QED
      BY <1>4, <2>4, <2>5 DEF x
  <1>7. /\ \A r \in net' : r = m
        /\ pc' = "manifest" /\ w' = disk' /\ job' = NoJob /\ await' = m /\ reply' = "none"
    BY <1>1, SendAdds DEF Bootstrap
  <1>8. m = [t |-> "manifest", files |-> disk'.order] /\ m \in Requests
    BY <1>2, <1>6 DEF Requests
  <1>9. Tracked(disk)' = {c}
    BY <1>6 DEF Tracked, Elems
  <1>10. Shape'
    <2>1. NoJob \in Jobs
      BY DEF NoJob, Jobs, NginxConstants
    <2> QED
      BY <1>1, <1>6, <1>7, <1>8, <2>1 DEF Shape
  <1>11. srv.man = NoManifest
    <2>1. Unregistered(NoCursor) = <<>>
      BY <1>1, <1>3, <1>4, Unlisted DEF Registered
    <2> QED
      BY <1>1, <1>4, <2>1 DEF Registered
  <1>12. Registered'
    <2>1. disk'.order # <<>> /\ disk' # NoCursor /\ disk'.order[Len(disk'.order)] = c
      BY <1>4, <1>6
    <2>2. Prefix(disk)'
      <3>1. SubSeq(<<c>>, 1, 0) = <<>> /\ Len(<<>>) = 0 /\ Len(<<c>>) = 1
        OBVIOUS
      <3>2. disk'.man.files = <<>> /\ disk'.order = <<c>>
        BY <1>4, <1>6
      <3> QED
        BY <3>1, <3>2 DEF Prefix
    <2> QED
      BY <1>1, <1>2, <1>4, <1>6, <1>11, <2>1, <2>2 DEF Registered
  <1>13. \A f \in Tracked(disk)' : f <= dir.cur
    BY <1>2, <1>9 DEF File, NginxConstants
  <1>14. \A f \in File : Sound(f, disk'.f[f]) /\ (f \notin Tracked(disk)' => disk'.f[f] = NoEntry)
    BY <1>5, <1>6, <1>9
  <1>15. \A r \in net' : Sent(r)'
    BY <1>7, <1>8 DEF Sent
  <1>16. Registering' /\ Delivering'
    BY <1>6, <1>7, <1>8 DEF Registering, Delivering, Working, OnFile
  <1>17. Kept
    BY <1>1, <1>4, <1>6 DEF Kept, NewWatermark, NoEntry
  <1> QED
    BY <1>1, <1>7, <1>10, <1>12, <1>13, <1>14, <1>15, <1>16, <1>17, FilesStep

\* The saved manifest is sent again as it was.
LEMMA ResendManifestStep ==
  ASSUME NginxConstants, LaneInv, ResendManifest
  PROVE  LaneInv' /\ Kept
  <1> DEFINE m == [t |-> "manifest", files |-> disk.order]
  <1>1. /\ disk # NoCursor /\ disk.man = NoManifest /\ UNCHANGED <<dir, srv, disk, faults>>
        /\ Shape /\ disk \in Cursors
    BY DEF ResendManifest, LaneInv, Shape
  <1>2. /\ \A r \in net' : r \in net \/ r = m
        /\ pc' = "manifest" /\ w' = disk /\ job' = NoJob /\ await' = m /\ reply' = "none"
    BY SendAdds DEF ResendManifest
  <1>3. Shape'
    <2>1. NoJob \in Jobs
      BY DEF NoJob, Jobs, NginxConstants
    <2>2. m \in Requests
      BY <1>1 DEF Requests, Cursors
    <2> QED
      BY <1>1, <1>2, <2>1, <2>2 DEF Shape
  <1>4. \A f \in File : Sound(f, disk.f[f]) /\ (f \notin Tracked(disk) => disk.f[f] = NoEntry)
    BY DEF LaneInv, Ordered
  <1>5. \A f \in File : disk.f[f].acked <= disk.f[f].acked /\ disk.f[f].obs <= disk.f[f].obs
    BY <1>1 DEF Cursors, Entries
  <1>6. Copied'
    BY <1>1, <1>2, <1>4, FreshCopy
  <1>7. Registering' /\ Delivering'
    BY <1>1, <1>2 DEF Registering, Delivering, Working, OnFile
  <1>8. \A r \in net' : r \in net \/ Sent(r)'
    BY <1>1, <1>2 DEF Sent
  <1>9. Kept
    BY <1>1 DEF Kept
  <1> QED
    BY <1>1, <1>3, <1>4, <1>5, <1>6, <1>7, <1>8, <1>9, CursorStep

\* The acknowledged registration is saved as Monitor has it.
LEMMA AcknowledgedRegistration ==
  ASSUME NginxConstants, LaneInv, pc \in {"manifest", "files"}, UNCHANGED <<dir, srv, net>>,
         Unregistered(disk) # <<>>, srv.man = Extended(disk.man, Unregistered(disk)),
         disk' = [w EXCEPT !.man = Extended(disk.man, Unregistered(disk))], w' = disk',
         job' = NoJob, reply' = "none",
         \/ pc' = "resume"
         \/ pc' = "recover" /\ disk.cur = disk.order[Len(disk.order)]
  PROVE  LaneInv' /\ Kept
  <1> DEFINE new == Unregistered(disk)
  <1>1. /\ disk # NoCursor /\ Shape /\ w \in Cursors /\ disk \in Cursors
        /\ w.order = disk.order /\ w.man = disk.man /\ w.cur = disk.cur
        /\ Tracked(disk) \subseteq File
        /\ \A f \in File : /\ w.f[f] \in Entries /\ disk.f[f] \in Entries /\ Sound(f, w.f[f])
                           /\ w.f[f].acked = disk.f[f].acked /\ w.f[f].obs = disk.f[f].obs
                           /\ f \notin Tracked(disk) => w.f[f] = NoEntry
    BY CopyOf
  <1>2. /\ Registered /\ Numbered /\ Prefix(disk) /\ disk.man \in Manifests
        /\ disk.order \in Seq(File) /\ disk.order # <<>>
    BY <1>1, Known DEF LaneInv, Registered
  <1>3. /\ new \in Seq(File) /\ disk.man.files \o new = disk.order
        /\ Len(new) = Len(disk.order) - Len(disk.man.files)
    BY <1>1, <1>2, Unlisted
  <1>4. /\ Extended(disk.man, new) \in Manifests /\ Extended(disk.man, new).files = disk.order
        /\ Extended(disk.man, new) # NoManifest
    BY <1>2, <1>3, ExtendedTyped
  <1>5. /\ disk' \in Cursors /\ disk'.order = disk.order /\ disk'.man = Extended(disk.man, new)
        /\ disk'.cur = disk.cur /\ disk'.f = w.f
    BY <1>1, <1>4 DEF Cursors
  <1>6. Tracked(disk)' = Tracked(disk)
    BY <1>5 DEF Tracked
  <1>7. Shape'
    <2>1. NoJob \in Jobs
      BY DEF NoJob, Jobs, NginxConstants
    <2> QED
      BY <1>1, <1>5, <2>1 DEF Shape, Working
  <1>8. disk' # NoCursor
    BY <1>2, <1>5, NoCursorIsEmpty
  <1>9. Registered'
    <2>1. Prefix(disk)'
      <3>1. SubSeq(disk.order, 1, Len(disk.order)) = disk.order /\ Len(disk.order) \in Nat
        BY <1>2, SubSeqFull
      <3>2. disk'.man.files = disk.order
        BY <1>4, <1>5
      <3> QED
        BY <1>5, <3>1, <3>2 DEF Prefix
    <2>2. disk'.man # NoManifest /\ disk'.man.files # <<>> /\ srv'.man = disk'.man
      BY <1>2, <1>4, <1>5
    <2>3. dir'.cur \in Tracked(disk)' => disk'.order[Len(disk'.order)] = dir'.cur
      BY <1>2, <1>5, <1>6 DEF Registered
    <2> QED
      BY <1>2, <1>5, <1>8, <2>1, <2>2, <2>3 DEF Registered
  <1>10. \A f \in Tracked(disk)' : f <= dir.cur
    BY <1>2, <1>6 DEF Numbered
  <1>11. \A f \in File : Sound(f, disk'.f[f]) /\ (f \notin Tracked(disk)' => disk'.f[f] = NoEntry)
    BY <1>1, <1>5, <1>6
  <1>12. ASSUME NEW m \in net' PROVE Sent(m)'
    <2>1. m \in Requests /\ Sent(m)
      BY <1>1 DEF LaneInv, Shape
    <2>2. CASE m.t = "manifest"
      BY <1>4, <1>5, <2>2 DEF Sent
    <2>3. CASE m.t = "files"
      <3>1. Len(m.prev.files) <= Len(disk.man.files)
        <4>1. Len(m.prev.files) \in Nat /\ Len(disk.man.files) \in Nat
          BY <1>2, <2>1, <2>3 DEF Requests, Manifests
        <4> QED
          BY <2>1, <2>3, <4>1 DEF Sent
      <3>2. Len(m.prev.files) < Len(disk'.man.files)
        <4>1. /\ Len(m.prev.files) \in Nat /\ Len(disk.man.files) \in Nat /\ Len(disk.order) \in Nat
              /\ Len(new) \in Nat /\ Len(new) # 0
          BY <1>2, <1>3, <2>1, <2>3 DEF Requests, Manifests
        <4>2. disk'.man.files = disk.order
          BY <1>4, <1>5
        <4> QED
          BY <1>3, <3>1, <4>1, <4>2
      <3> QED
        BY <1>4, <1>5, <2>3, <3>2 DEF Sent
    <2>4. CASE m.t = "range"
      <3>1. m.f \in File /\ disk'.f[m.f].obs = disk.f[m.f].obs
        BY <1>1, <1>5, <2>1, <2>4 DEF Requests
      <3> QED
        BY <2>1, <2>4, <3>1 DEF Sent
    <2>5. CASE m.t = "confirm"
      <3>1. m.f \in File /\ disk'.f[m.f].acked = disk.f[m.f].acked
        BY <1>1, <1>5, <2>1, <2>5 DEF Requests
      <3> QED
        BY <2>1, <2>5, <3>1 DEF Sent
    <2> QED
      BY <2>1, <2>2, <2>3, <2>4, <2>5 DEF Requests
  <1>13. Registering'
    BY <1>4, <1>5 DEF Registering, Working
  <1>14. Delivering'
    BY DEF Delivering, OnFile
  <1>15. Kept
    BY <1>1, <1>5 DEF Kept
  <1> QED
    BY <1>7, <1>9, <1>10, <1>11, <1>12, <1>13, <1>14, <1>15, FilesStep

\* Monitor has acknowledged the manifest, or the files.
LEMMA ManifestRegisteredStep ==
  ASSUME NginxConstants, LaneInv, ManifestRegistered
  PROVE  LaneInv' /\ Kept
  <1>1. /\ pc = "manifest" /\ reply = "ok" /\ UNCHANGED <<dir, srv, net>>
        /\ disk' = [w EXCEPT !.man = Extended(NoManifest, w.order)]
        /\ pc' = "resume" /\ w' = disk' /\ job' = NoJob /\ reply' = "none"
    BY DEF ManifestRegistered, Goto
  <1>2. Registering /\ Registered /\ Shape /\ w.order = disk.order
    BY <1>1, CopyOf DEF LaneInv
  <1>3. disk.man = NoManifest /\ srv.man = Extended(NoManifest, disk.order)
    BY <1>1, <1>2 DEF Registering
  <1>4. Unregistered(disk) = disk.order /\ disk.order # <<>>
    <2>1. disk \in Cursors /\ Prefix(disk) /\ disk.man.files = <<>> /\ disk # NoCursor
      BY <1>1, <1>2, <1>3, Known, CopyOf
    <2> QED
      BY <1>2, <2>1, Unlisted DEF Registered
  <1> QED
    BY <1>1, <1>2, <1>3, <1>4, AcknowledgedRegistration

\* The acknowledged files enter the saved manifest; that keeps the invariant.
LEMMA FilesRegisteredStep ==
  ASSUME NginxConstants, LaneInv, FilesRegistered
  PROVE  LaneInv' /\ Kept
  <1>1. /\ pc = "files" /\ reply = "ok" /\ UNCHANGED <<dir, srv, net>>
        /\ disk' = [w EXCEPT !.man = Extended(w.man, Unregistered(w))]
        /\ pc' = "recover" /\ w' = disk' /\ job' = NoJob /\ reply' = "none"
    BY DEF FilesRegistered, Goto
  <1>2. Registering /\ w.man = disk.man /\ Unregistered(w) = Unregistered(disk)
    BY <1>1, CopyOf
  <1>3. /\ Unregistered(disk) # <<>> /\ srv.man = Extended(disk.man, Unregistered(disk))
        /\ disk.cur = disk.order[Len(disk.order)]
    BY <1>1, <1>2 DEF Registering
  <1> QED
    BY <1>1, <1>2, <1>3, AcknowledgedRegistration

\* A scan of the directory appends the new files and moves no watermark that is known.
LEMMA Scanned ==
  ASSUME NginxConstants, LaneInv, disk # NoCursor, disk.man # NoManifest,
         Unregistered(disk) = <<>>
  PROVE  LET c == Reconciled(disk) IN
         /\ c \in Cursors /\ c.man = disk.man /\ c.cur = dir.cur
         /\ c.order = disk.order \o Discovered(disk)
         /\ Tracked(c) = Tracked(disk) \cup dir.present
         /\ Prefix(c) /\ Unregistered(c) = Discovered(disk)
         /\ Unregistered(c) = <<>> => c.order = disk.order /\ dir.cur \in Tracked(disk)
         /\ \A f \in File : /\ Sound(f, c.f[f]) /\ (f \notin Tracked(c) => c.f[f] = NoEntry)
                            /\ c.f[f].acked = disk.f[f].acked /\ disk.f[f].obs <= c.f[f].obs
  <1> DEFINE c == Reconciled(disk)
             D == Discovered(disk)
             s == disk.order
  <1>1. /\ Shape /\ Registered /\ Numbered /\ disk \in Cursors /\ Prefix(disk)
        /\ disk.man \in Manifests /\ s \in Seq(File) /\ s # <<>> /\ dir \in Directories
    BY Known DEF LaneInv, Registered, Shape
  <1>2. /\ D \in Seq(File) /\ Elems(D) = dir.present \ Tracked(disk)
        /\ D = <<>> <=> dir.present \ Tracked(disk) = {}
    <2>1. dir.present \ Tracked(disk) \in SUBSET File
      BY <1>1 DEF Directories
    <2> QED
      BY <2>1, Listed DEF Discovered
  <1>3. disk.man.files = s
    BY <1>1, Unlisted
  <1>4. \A f \in File : disk.f[f] \in Entries /\ Ordered(f)
    BY <1>1 DEF Cursors, LaneInv
  <1>5. /\ dir.size \in [File -> 0 .. MaxSize] /\ dir.proofs \in 0 .. MaxFiles /\ MaxSize \in Nat
        /\ dir.cur \in 0 .. MaxFiles /\ dir.cur \in dir.present /\ dir.present \subseteq File
        /\ srv.next \in [File -> 0 .. MaxSize]
    <2>1. /\ dir.size \in [File -> 0 .. MaxSize] /\ dir.proofs \in 0 .. MaxFiles
          /\ dir.cur \in File /\ dir.present \subseteq File
      BY <1>1 DEF Directories
    <2>2. dir.cur \in 0 .. MaxFiles /\ MaxSize \in Nat
      BY <2>1 DEF File, NginxConstants
    <2>3. dir.cur \in dir.present
      BY <1>1 DEF Numbered
    <2>4. srv.next \in [File -> 0 .. MaxSize]
      BY <1>1 DEF Shape, Servers
    <2> QED
      BY <2>1, <2>2, <2>3, <2>4
  <1>6. ASSUME NEW f \in File
        PROVE  /\ Rescanned(disk, f) \in Entries /\ Sound(f, Rescanned(disk, f))
               /\ Rescanned(disk, f).acked = disk.f[f].acked
               /\ disk.f[f].obs <= Rescanned(disk, f).obs
               /\ f \notin Tracked(disk) \cup dir.present => Rescanned(disk, f) = NoEntry
    <2> DEFINE x == disk.f[f]
               y == Rescanned(disk, f)
    <2>1. x \in Entries /\ Sound(f, x) /\ (f \notin Tracked(disk) => x = NoEntry)
      BY <1>4 DEF Ordered
    <2>2. dir.size[f] \in 0 .. MaxSize /\ srv.next[f] \in 0 .. MaxSize /\ x.obs \in 0 .. MaxSize
          /\ x.acked \in 0 .. MaxSize
      BY <1>5, <2>1 DEF Entries
    <2>3. CASE f \notin Tracked(disk) /\ f \in dir.present
      <3>1. y = NewWatermark(f)
        BY <2>3 DEF Rescanned
      <3>2. y \in Entries /\ Sound(f, y)
        BY <2>3, <3>1, NewWatermarkSound
      <3>3. x.acked = 0 /\ x.obs = 0 /\ y.acked = 0 /\ y.obs = dir.size[f]
        BY <2>1, <2>3, <3>1 DEF NoEntry, NewWatermark
      <3> HIDE DEF x, y
      <3>4. y.acked = x.acked /\ x.obs <= y.obs
        BY <2>2, <3>3
      <3> QED
        BY <2>3, <3>2, <3>4 DEF x, y
    <2>4. CASE \/ f \notin Tracked(disk) /\ f \notin dir.present
               \/ f \in Tracked(disk) /\ x.st = "retired"
      <3>1. y = x
        BY <2>4 DEF Rescanned
      <3> QED
        BY <2>1, <2>2, <2>4, <3>1
    <2>5. CASE f \in Tracked(disk) /\ x.st # "retired" /\ f \in dir.present
      <3>1. y = [x EXCEPT !.obs = dir.size[f], !.seen = dir.proofs,
                          !.st = Readiness(x.acked, dir.size[f])]
        BY <2>5 DEF Rescanned
      <3>2. Readiness(x.acked, dir.size[f]) \in {"active", "quiescent"}
        BY DEF Readiness
      <3> DEFINE r == Readiness(x.acked, dir.size[f])
      <3> HIDE DEF r, x, y
      <3>3. /\ y = [x EXCEPT !.obs = dir.size[f], !.seen = dir.proofs, !.st = r]
            /\ r \in {"active", "quiescent"}
        BY <3>1, <3>2 DEF r
      <3>4. /\ y \in Entries /\ y.acked = x.acked /\ y.obs = dir.size[f] /\ y.pend = x.pend
            /\ y.st # "retired"
        BY <1>5, <2>1, <2>2, <3>3 DEF Entries, Stages
      <3>5. x.obs <= y.obs /\ srv.next[f] <= y.obs /\ y.obs <= dir.size[f]
        BY <2>1, <2>2, <3>4 DEF Sound
      <3>6. Sound(f, y)
        BY <2>1, <3>4, <3>5 DEF Sound
      <3>7. y \in Entries /\ Sound(f, y) /\ y.acked = x.acked /\ x.obs <= y.obs
        BY <3>4, <3>5, <3>6
      <3> QED
        BY <2>5, <3>7 DEF x, y
    <2>6. CASE f \in Tracked(disk) /\ x.st # "retired" /\ f \notin dir.present
      <3>1. y = [x EXCEPT !.st = "missing"]
        BY <2>6 DEF Rescanned
      <3> HIDE DEF x, y
      <3>2. /\ y \in Entries /\ y.acked = x.acked /\ y.obs = x.obs /\ y.pend = x.pend
            /\ y.st # "retired" /\ x.obs <= y.obs
        BY <2>1, <2>2, <3>1 DEF Entries, Stages
      <3>3. Sound(f, y)
        BY <2>1, <3>2 DEF Sound
      <3> QED
        BY <2>6, <3>2, <3>3 DEF x, y
    <2> QED
      BY <2>3, <2>4, <2>5, <2>6
  <1>7. /\ s \o D \in Seq(File) /\ Len(s \o D) = Len(s) + Len(D)
        /\ Len(s) \in Nat /\ Len(D) \in Nat /\ Len(s) > 0 /\ (D = <<>> => s \o D = s)
        /\ \A i \in 1 .. Len(s) + Len(D) : (s \o D)[i] = IF i <= Len(s) THEN s[i] ELSE D[i - Len(s)]
    <2>1. s \o <<>> = s
      BY <1>1, ConcatEmptySeq
    <2> QED
      BY <1>1, <1>2, <2>1, ConcatProperties, LenProperties
  <1>8. /\ c \in Cursors /\ c.man = disk.man /\ c.cur = dir.cur /\ c.order = s \o D
        /\ \A f \in File : c.f[f] = Rescanned(disk, f)
    <2> DEFINE F == [f \in File |-> Rescanned(disk, f)]
    <2>1. c = [disk EXCEPT !.order = s \o D, !.cur = dir.cur, !.f = F]
      BY DEF Reconciled
    <2>2. F \in [File -> Entries] /\ \A f \in File : F[f] = Rescanned(disk, f)
      BY <1>6
    <2> HIDE DEF F, c, s, D
    <2>3. c \in Cursors /\ c.man = disk.man /\ c.cur = dir.cur /\ c.order = s \o D /\ c.f = F
      BY <1>1, <1>5, <1>7, <2>1, <2>2 DEF Cursors
    <2> QED
      BY <2>2, <2>3
  <1>9. Tracked(c) = Tracked(disk) \cup dir.present
    <2>1. Elems(s \o D) = Elems(s) \cup Elems(D)
      BY <1>1, <1>2, ElemsJoined
    <2> QED
      BY <1>2, <1>8, <2>1 DEF Tracked
  <1> HIDE DEF c, D
  <1>10. Prefix(c)
    <2>1. SubSeq(s \o D, 1, Len(s)) = s
      <3>1. 1 \in 1 .. Len(s) /\ Len(s) \in 1 .. Len(s)
        BY <1>7
      <3>2. SubSeq(s \o D, 1, Len(s)) = SubSeq(s, 1, Len(s))
        BY <1>1, <1>2, <3>1, SubSeqOfConcat1
      <3> QED
        BY <1>1, <3>2, SubSeqFull
    <2>2. c.man.files = s /\ c.order = s \o D
      BY <1>3, <1>8
    <2> HIDE DEF s
    <2>3. Len(c.man.files) = Len(s) /\ Len(c.order) = Len(s) + Len(D)
      BY <1>7, <2>2
    <2>4. Len(c.man.files) <= Len(c.order)
      BY <1>7, <2>3
    <2>5. c.man.files = SubSeq(c.order, 1, Len(c.man.files))
      BY <2>1, <2>2
    <2> QED
      BY <2>4, <2>5 DEF Prefix
  <1>11. Unregistered(c) = D
    <2>1. /\ Unregistered(c) \in Seq(File) /\ c.man.files \o Unregistered(c) = c.order
      BY <1>8, <1>10, Unlisted
    <2>2. s \o Unregistered(c) = s \o D
      BY <1>3, <1>8, <2>1
    <2> QED
      BY <1>1, <1>2, <2>1, <2>2, ConcatSimplifications
  <1>12. Unregistered(c) = <<>> => c.order = s /\ dir.cur \in Tracked(disk)
    BY <1>2, <1>5, <1>7, <1>8, <1>11
  <1>13. \A f \in File : /\ Sound(f, c.f[f]) /\ (f \notin Tracked(c) => c.f[f] = NoEntry)
                         /\ c.f[f].acked = disk.f[f].acked /\ disk.f[f].obs <= c.f[f].obs
    BY <1>6, <1>8, <1>9
  <1> QED
    BY <1>8, <1>9, <1>10, <1>11, <1>12, <1>13 DEF c, D

\* A cycle begins: an unacknowledged registration is sent again, or the directory is scanned.
LEMMA ResumeStep == ASSUME NginxConstants, LaneInv, Resume PROVE LaneInv' /\ Kept
  <1> DEFINE d == Reconciled(disk)
  <1>1. /\ disk.man # NoManifest /\ pc \in {"idle", "resume"} /\ UNCHANGED <<dir, srv, faults>>
        /\ Shape /\ Registered /\ Numbered /\ disk \in Cursors /\ Prefix(disk)
        /\ disk.man \in Manifests /\ disk.man.files # <<>> /\ Tracked(disk) \subseteq File
    <2>1. disk.man # NoManifest /\ pc \in {"idle", "resume"} /\ UNCHANGED <<dir, srv, faults>>
      BY DEF Resume
    <2>2. Shape /\ Registered /\ Numbered
      BY DEF LaneInv
    <2>3. disk \in Cursors /\ Prefix(disk) /\ disk.man \in Manifests /\ disk.order \in Seq(File)
      BY <2>2, Known
    <2> QED
      BY <2>1, <2>2, <2>3, ElemsIn DEF Registered, Tracked
  <1>2. disk # NoCursor
    BY <1>1, NoCursorIsEmpty
  <1>3. NoJob \in Jobs
    BY DEF NoJob, Jobs, NginxConstants
  <1>4. CASE Unregistered(disk) # <<>>
    <2> DEFINE new == Unregistered(disk)
               m == [t |-> "files", prev |-> disk.man, files |-> new]
    <2>1. /\ disk.cur = new[Len(new)] /\ disk' = disk /\ Send(m, "files", disk, NoJob)
      BY <1>4 DEF Resume, SavedRotation
    <2>2. /\ \A r \in net' : r \in net \/ r = m
          /\ pc' = "files" /\ w' = disk /\ job' = NoJob /\ await' = m /\ reply' = "none"
      BY <2>1, SendAdds
    <2>3. /\ new \in Seq(File) /\ disk.man.files \o new = disk.order /\ disk.order \in Seq(File)
          /\ disk.man.files \in Seq(File)
      BY <1>1, Unlisted DEF Cursors, Manifests
    <2>4. disk.cur = disk.order[Len(disk.order)]
      <3>1. new # <<>>
        BY <1>4
      <3> HIDE DEF new
      <3>2. disk.order[Len(disk.order)] = new[Len(new)]
        BY <2>3, <3>1, LastJoined
      <3> QED
        BY <2>1, <3>2
    <2>5. Shape'
      <3>1. m \in Requests
        BY <1>1, <2>3 DEF Requests
      <3> QED
        BY <1>1, <1>3, <2>1, <2>2, <3>1 DEF Shape
    <2>6. \A f \in File : Sound(f, disk.f[f]) /\ (f \notin Tracked(disk) => disk.f[f] = NoEntry)
      BY DEF LaneInv, Ordered
    <2>7. \A f \in File : disk.f[f].acked <= disk.f[f].acked /\ disk.f[f].obs <= disk.f[f].obs
      BY <1>1 DEF Cursors, Entries
    <2>8. Copied'
      BY <1>1, <2>1, <2>2, <2>6, FreshCopy
    <2>9. Registering' /\ Delivering'
      <3>1. Unregistered(disk)' = new
        BY <2>1 DEF Unregistered
      <3> QED
        BY <1>1, <1>4, <2>1, <2>2, <2>4, <3>1 DEF Registering, Delivering, Working, OnFile
    <2>10. \A r \in net' : r \in net \/ Sent(r)'
      <3>1. Unregistered(disk)' = new
        BY <2>1 DEF Unregistered
      <3>2. ASSUME NEW r, r = m PROVE Sent(r)'
        BY <1>1, <1>4, <2>1, <3>1, <3>2 DEF Sent
      <3> QED
        BY <2>2, <3>2
    <2>11. Kept
      BY <2>1 DEF Kept
    <2> QED
      BY <1>1, <1>2, <2>1, <2>5, <2>6, <2>7, <2>8, <2>9, <2>10, <2>11, CursorStep
  <1>5. CASE Unregistered(disk) = <<>>
    <2> DEFINE new == Unregistered(d)
               m == [t |-> "files", prev |-> d.man, files |-> new]
    <2>1. /\ d \in Cursors /\ d.man = disk.man /\ d.cur = dir.cur
          /\ d.order = disk.order \o Discovered(disk)
          /\ Tracked(d) = Tracked(disk) \cup dir.present
          /\ Prefix(d) /\ new = Discovered(disk)
          /\ new = <<>> => d.order = disk.order /\ dir.cur \in Tracked(disk)
          /\ \A f \in File : /\ Sound(f, d.f[f]) /\ (f \notin Tracked(d) => d.f[f] = NoEntry)
                             /\ d.f[f].acked = disk.f[f].acked /\ disk.f[f].obs <= d.f[f].obs
      BY <1>1, <1>2, <1>5, Scanned
    <2>2. \/ new = <<>> /\ disk' = d /\ Goto("recover", d, NoJob) /\ UNCHANGED net
          \/ /\ new # <<>> /\ d.cur = new[Len(new)] /\ disk' = d
             /\ Send(m, "files", d, NoJob)
      BY <1>5 DEF Resume, SavedRotation
    <2>3. /\ disk' = d /\ w' = disk' /\ job' = NoJob /\ reply' = "none"
          /\ \/ pc' = "recover" /\ net' = net /\ new = <<>>
             \/ /\ pc' = "files" /\ new # <<>> /\ await' = m /\ d.cur = new[Len(new)]
                /\ \A r \in net' : r \in net \/ r = m
      <3>1. CASE new = <<>> /\ disk' = d /\ Goto("recover", d, NoJob) /\ UNCHANGED net
        BY <3>1 DEF Goto
      <3>2. CASE /\ new # <<>> /\ d.cur = new[Len(new)] /\ disk' = d
                 /\ Send(m, "files", d, NoJob)
        <4> HIDE DEF d, m
        <4>1. /\ \A r \in net' : r \in net \/ r = m
              /\ pc' = "files" /\ w' = d /\ job' = NoJob /\ await' = m /\ reply' = "none"
          BY <3>2, SendAdds
        <4> QED
          BY <3>2, <4>1
      <3> QED
        BY <2>2, <3>1, <3>2
    <2> HIDE DEF d
    <2>4. /\ new \in Seq(File) /\ d.man.files \o new = d.order /\ d.order \in Seq(File)
          /\ d.man.files \in Seq(File) /\ disk.man.files = disk.order
      BY <1>1, <1>5, <2>1, Unlisted DEF Cursors, Manifests
    <2>5. d.cur = d.order[Len(d.order)]
      <3>1. CASE new = <<>>
        BY <1>1, <2>1, <3>1 DEF Registered
      <3>2. CASE new # <<>>
        <4> HIDE DEF new
        <4>1. d.order[Len(d.order)] = new[Len(new)]
          BY <2>4, <3>2, LastJoined
        <4> QED
          BY <2>3, <3>2, <4>1
      <3> QED
        BY <3>1, <3>2
    <2>6. Shape'
      <3>1. m \in Requests
        BY <1>1, <2>1, <2>4 DEF Requests
      <3> QED
        BY <1>1, <1>3, <2>1, <2>3, <3>1 DEF Shape, Working
    <2>7. Tracked(disk)' = Tracked(d) /\ Unregistered(disk)' = new
      BY <2>3 DEF Tracked, Unregistered
    <2>8. Registered'
      <3>1. Prefix(disk)'
        BY <2>1, <2>3 DEF Prefix
      <3>2. disk'.man # NoManifest /\ disk'.man.files # <<>> /\ srv'.man = disk'.man
        BY <1>1, <1>5, <2>1, <2>3 DEF Registered
      <3>3. disk' # NoCursor
        BY <3>2, NoCursorIsEmpty
      <3>4. disk'.order # <<>>
        BY <1>1, <2>1, <2>3, <2>4, <3>2, ConcatEqualIffEmpty
      <3>5. disk'.order[Len(disk'.order)] = dir'.cur
        BY <1>1, <2>1, <2>3, <2>5
      <3> QED
        BY <3>1, <3>2, <3>3, <3>4, <3>5 DEF Registered
    <2>9. \A f \in Tracked(disk)' : f <= dir.cur
      BY <1>1, <2>1, <2>7 DEF Numbered
    <2>10. \A f \in File : Sound(f, disk'.f[f]) /\ (f \notin Tracked(disk)' => disk'.f[f] = NoEntry)
      BY <2>1, <2>3, <2>7
    <2>11. Registering'
      BY <1>1, <2>1, <2>3, <2>4, <2>5, <2>7 DEF Registering, Working
    <2>12. Delivering'
      BY <2>3 DEF Delivering, OnFile
    <2>13. ASSUME NEW r \in net, Sent(r) PROVE Sent(r)'
      <3>1. /\ r \in Requests /\ MaxSize \in Nat /\ \A f \in File : disk.f[f] \in Entries
            /\ \A f \in File : d.f[f] \in Entries
        BY <1>1, <2>1 DEF Shape, Cursors, NginxConstants
      <3>2. CASE r.t = "manifest"
        BY <1>1, <2>1, <2>3, <3>2 DEF Sent
      <3>3. CASE r.t = "files"
        <4>1. Len(r.prev.files) < Len(disk.man.files)
          BY <1>5, <2>13, <3>3 DEF Sent
        <4> QED
          BY <1>1, <2>1, <2>3, <3>3, <4>1 DEF Sent
      <3>4. CASE r.t = "range"
        <4>1. r.f \in File /\ r.e \in Nat /\ disk.f[r.f].obs \in Nat /\ d.f[r.f].obs \in Nat
          BY <3>1, <3>4 DEF Requests, Entries
        <4>2. r.s < r.e /\ r.e <= disk.f[r.f].obs /\ disk.f[r.f].obs <= d.f[r.f].obs
          BY <2>1, <2>13, <3>4, <4>1 DEF Sent
        <4>3. r.e <= d.f[r.f].obs
          BY <4>1, <4>2
        <4> QED
          BY <2>3, <3>4, <4>2, <4>3 DEF Sent
      <3>5. CASE r.t = "confirm"
        <4>1. r.f \in File
          BY <3>1, <3>5 DEF Requests
        <4> QED
          BY <2>1, <2>3, <2>13, <3>5, <4>1 DEF Sent
      <3> QED
        BY <3>1, <3>2, <3>3, <3>4, <3>5 DEF Requests
    <2>14. \A r \in net' : Sent(r)'
      <3>1. ASSUME NEW r, r = m, new # <<>> PROVE Sent(r)'
        BY <1>1, <2>1, <2>3, <2>7, <3>1 DEF Sent
      <3>2. \A r \in net : Sent(r)'
        BY <2>13 DEF LaneInv
      <3> QED
        BY <2>3, <3>1, <3>2
    <2>15. Kept
      BY <2>1, <2>3 DEF Kept
    <2> QED
      BY <1>1, <2>3, <2>6, <2>8, <2>9, <2>10, <2>11, <2>12, <2>14, <2>15, FilesStep
  <1> QED
    BY <1>4, <1>5

\* Every step of the collector keeps the invariant, and moves one acknowledged offset or none.
LEMMA CollectorStep ==
  ASSUME NginxConstants, LaneInv, Collector \/ Crash
  PROVE  LaneInv' /\ (Kept \/ Acknowledges) /\ UNCHANGED <<dir, srv>>
  <1>1. UNCHANGED <<dir, srv>>
    BY DEF Collector, Crash, Bootstrap, ResendManifest, ManifestRegistered, Resume, FilesRegistered,
       AskProof, TakeProof, Confirmed, Release, NothingToRead, PostRange, RangeAcknowledged,
       PostFailed, CycleFails
  <1>2. CASE Bootstrap \/ ResendManifest \/ ManifestRegistered \/ Resume \/ FilesRegistered
    BY <1>1, <1>2, BootstrapStep, ResendManifestStep, ManifestRegisteredStep, ResumeStep,
       FilesRegisteredStep
  <1>3. CASE AskProof \/ TakeProof \/ Confirmed \/ Release
    BY <1>1, <1>3, AskProofStep, TakeProofStep, ConfirmedStep, ReleaseStep
  <1>4. CASE PostRange \/ RangeAcknowledged \/ PostFailed
    BY <1>1, <1>4, PostRangeStep, RangeAcknowledgedStep, PostFailedStep
  <1>5. CASE NothingToRead \/ CycleFails \/ Crash
    BY <1>1, <1>5, StopSteps
  <1> QED
    BY <1>2, <1>3, <1>4, <1>5 DEF Collector

\* Every step keeps the invariant.
LEMMA InvStep == ASSUME NginxConstants, LaneInv, [Next]_vars PROVE LaneInv'
  <1>1. CASE Append1 \/ Rotate \/ Reopen \/ \E f \in Deletable : Delete(f)
    BY <1>1, NginxSteps
  <1>2. CASE \E m \in net : Deliver(m)
    BY <1>2, DeliverStep
  <1>3. CASE Collector \/ Crash
    BY <1>3, CollectorStep
  <1>5. CASE UNCHANGED vars
    <2>1. UNCHANGED <<dir, srv, net, disk, client>>
      BY <1>5 DEF vars
    <2>2. dir \in Directories /\ Numbered
      BY DEF LaneInv, Shape
    <2>3. dir' \in Directories /\ \A f \in File : dir'.size[f] >= dir.size[f]
      BY <2>1, <2>2 DEF Directories
    <2>4. Numbered'
      BY <2>1, <2>2 DEF Numbered, Tracked
    <2> QED
      BY <2>1, <2>3, <2>4, DirectoryStep
  <1> QED
    BY <1>1, <1>2, <1>3, <1>5 DEF Next
-----------------------------------------------------------------------------
(* What follows.                                                             *)

\* The rows between two cuts are a chain.
LEMMA ChainFollows ==
  ASSUME NginxConstants, LaneInv, NEW f \in File, disk.f[f].acked < srv.next[f]
  PROVE  Chain(f, disk.f[f].acked, srv.next[f])
  <1> DEFINE a == disk.f[f].acked
             b == srv.next[f]
             rows == {r \in Ranges(f) : r.e > a /\ r.s < b}
  <1>1. /\ a \in Nat /\ b \in Nat /\ a < b /\ srv.conf[f] \in Nat /\ srv.conf[f] <= a
        /\ Cut(f, a) /\ Covers(f)
        /\ \A r \in Ranges(f) : r.s \in Nat /\ r.e \in Nat
    <2>1. disk.f[f] \in Entries /\ srv \in Servers /\ Covers(f) /\ Sound(f, disk.f[f])
      BY DEF LaneInv, Shape, Cursors, Ordered
    <2> QED
      BY <2>1 DEF Entries, Servers, Sound, Ranges, Rows
  <1> HIDE DEF a, b
  <1>2. ASSUME NEW o \in a .. (b - 1)
        PROVE  \E r \in rows : r.s <= o /\ o < r.e
    <2>1. o \in srv.conf[f] .. (b - 1) /\ o \in Nat
      BY <1>1
    <2>2. PICK r \in Ranges(f) : r.s <= o /\ o < r.e
      BY <1>1, <2>1 DEF Covers, b
    <2>3. r.s \in Nat /\ r.e \in Nat
      BY <1>1
    <2>4. r.e > a /\ r.s < b
      BY <1>1, <2>1, <2>2, <2>3
    <2> QED
      BY <2>2, <2>4
  <1>3. \E r \in rows : r.s = a
    <2>1. PICK r \in rows : r.s <= a /\ a < r.e
      BY <1>1, <1>2
    <2>2. ~ (r.s < a) /\ r.s \in Nat
      BY <1>1, <2>1 DEF Cut
    <2> QED
      BY <1>1, <2>1, <2>2
  <1>4. \E r \in rows : r.e = b
    <2>1. b - 1 \in a .. (b - 1) /\ b - 1 \in Nat
      BY <1>1
    <2>2. PICK r \in rows : b - 1 < r.e
      BY <1>2, <2>1
    <2>3. r.e <= b /\ r.e \in Nat
      BY <1>1, <2>2 DEF Covers, b
    <2> QED
      BY <1>1, <2>1, <2>2, <2>3
  <1>5. ASSUME NEW o \in a .. (b - 1)
        PROVE  Cardinality({r \in rows : r.s <= o /\ o < r.e}) = 1
    <2>1. PICK r \in rows : r.s <= o /\ o < r.e
      BY <1>2
    <2>2. ASSUME NEW q \in rows, q.s <= o, o < q.e PROVE q = r
      <3>1. /\ q \in Ranges(f) /\ r \in Ranges(f) /\ o \in Int
            /\ q.s \in Nat /\ q.e \in Nat /\ r.s \in Nat /\ r.e \in Nat
        BY <1>1, <2>1, <2>2
      <3>2. q.s < r.e /\ r.s < q.e
        BY <2>1, <2>2, <3>1
      <3> QED
        BY <1>1, <3>1, <3>2 DEF Covers
    <2>3. {q \in rows : q.s <= o /\ o < q.e} = {r}
      BY <2>1, <2>2
    <2> QED
      BY <2>3, FS_Singleton
  <1> QED
    BY <1>3, <1>4, <1>5 DEF Chain, a, b

\* What the invariant says of the properties.
LEMMA InvImplies ==
  ASSUME NginxConstants, LaneInv
  PROVE  TypeOK /\ CountedOnce /\ Recoverable /\ SidesAgree
  <1>1. Shape /\ Registered /\ Registering /\ Delivering
    BY DEF LaneInv
  <1>2. /\ disk \in Cursors /\ Prefix(disk) /\ disk.man \in Manifests /\ disk.order \in Seq(File)
        /\ srv.man = disk.man \/ srv.man.files = disk.order
    BY <1>1, Known
  <1>3. ASSUME NEW c \in Cursors PROVE Cursor(c)
    <2>1. Tracked(c) \subseteq File
      BY ElemsIn DEF Cursors, Tracked
    <2>2. \A f \in File : c.f[f] \in Entries
      BY DEF Cursors
    <2> QED
      BY <2>1, <2>2 DEF Cursor, Cursors, Entries, Stages
  <1>4. TypeOK
    BY <1>1, <1>3 DEF TypeOK, Shape, Directories, Servers, Working
  <1>5. Recoverable
    <2> SUFFICES ASSUME NEW f \in File, disk.f[f].acked < srv.next[f]
                 PROVE  Chain(f, disk.f[f].acked, srv.next[f]) /\ srv.next[f] <= disk.f[f].obs
      BY DEF Recoverable
    <2>1. srv.next[f] <= disk.f[f].obs
      BY DEF LaneInv, Ordered, Sound
    <2> QED
      BY <2>1, ChainFollows
  <1>6. HeartbeatAccepted
    <2> SUFFICES ASSUME pc = "select"
                 PROVE  /\ srv.man = w.man /\ Elems(w.man.files) = Tracked(w)
                        /\ srv.man.files[Len(srv.man.files)] = w.cur
                        /\ \A f \in Tracked(w) : srv.conf[f] = w.f[f].acked
      BY DEF HeartbeatAccepted
    <2>1. /\ w.order = disk.order /\ w.man = disk.man /\ w.cur = disk.cur
          /\ Tracked(w) = Tracked(disk) /\ Tracked(disk) \subseteq File
          /\ \A f \in File : Sound(f, w.f[f])
      BY CopyOf
    <2>2. disk.man.files = disk.order /\ disk.cur = disk.order[Len(disk.order)] /\ Pending(w) = {}
      BY <1>1 DEF Registering, Delivering, Working
    <2>3. srv.man = disk.man
      <3>1. Unregistered(disk) = <<>>
        BY <1>2, <2>2, Unlisted
      <3> QED
        BY <1>1, <3>1 DEF Registered
    <2>4. \A f \in Tracked(w) : srv.conf[f] = w.f[f].acked
      BY <2>1, <2>2 DEF Pending, Sound
    <2> QED
      BY <2>1, <2>2, <2>3, <2>4 DEF Tracked
  <1>7. RegisteredIsTracked
    <2>1. CASE srv.man = disk.man
      BY <1>2, <2>1 DEF RegisteredIsTracked, Prefix
    <2>2. CASE srv.man.files = disk.order
      <3>1. disk.order = SubSeq(disk.order, 1, Len(disk.order)) /\ Len(disk.order) \in Nat
        BY <1>2, SubSeqFull
      <3> QED
        BY <2>2, <3>1 DEF RegisteredIsTracked
    <2> QED
      BY <1>2, <2>1, <2>2
  <1>8. NeverRefused
    BY <1>1 DEF NeverRefused, Registering, Delivering
  <1> QED
    BY <1>4, <1>5, <1>6, <1>7, <1>8 DEF SidesAgree, LaneInv

\* An empty directory, an empty ledger and no cursor are the abstract beginning.
LEMMA DeliveryFirst == NginxConstants => (Init => Delivery!Init)
  <1> SUFFICES ASSUME NginxConstants, Init PROVE Delivery!Init
    OBVIOUS
  <1>1. \A f \in File : disk.f[f].acked = 0
    BY NoCursorIsEmpty DEF Init, NoEntry
  <1> QED
    BY <1>1 DEF Init, Delivery!Init

\* Each step moves one watermark of one file forward, up to the next one, or none: a range is
\* applied where the last one ended (applyNginxSourceRangeV2), an offset is acknowledged over what
\* is counted (acknowledgeSourceRangeV2), and confirmed once it is saved (confirmNginxSourceAckV2).
LEMMA DeliveryStep ==
  ASSUME NginxConstants, LaneInv, [Next]_vars
  PROVE  Delivery!Next \/ UNCHANGED Delivery!vars
  <1> DEFINE durable == [f \in File |-> disk.f[f].acked]
  <1>1. /\ dir \in Directories /\ srv \in Servers /\ disk \in Cursors /\ MaxSize \in Nat
        /\ \A f \in File : disk.f[f] \in Entries /\ Ordered(f)
    BY DEF LaneInv, Shape, Cursors, NginxConstants
  <1>2. CASE Append1
    <2>1. /\ dir.fd \in File /\ dir' = [dir EXCEPT !.size[dir.fd] = @ + 1]
          /\ UNCHANGED <<srv, disk>>
      BY <1>1, <1>2 DEF Append1, Directories
    <2>2. dir'.size = [dir.size EXCEPT ![dir.fd] = @ + 1]
      BY <1>1, <2>1 DEF Directories
    <2>3. Delivery!Write(dir.fd)
      BY <2>1, <2>2 DEF Delivery!Write
    <2> QED
      BY <2>1, <2>3 DEF Delivery!Next
  <1>3. CASE Rotate \/ Reopen \/ \E f \in Deletable : Delete(f)
    <2>1. dir'.size = dir.size /\ UNCHANGED <<srv, disk>>
      BY <1>1, <1>3 DEF Rotate, Reopen, Delete, Directories
    <2> QED
      BY <2>1 DEF Delivery!vars
  <1>4. CASE \E m \in net : Deliver(m)
    <2>1. PICK m \in net : Deliver(m)
      BY <1>4
    <2>2. UNCHANGED <<dir, disk>> /\ srv' = Handled(m).srv /\ m \in Requests
      BY <2>1 DEF Deliver, LaneInv, Shape
    <2>3. CASE m.t \in {"manifest", "files"}
      <3>1. srv'.next = srv.next /\ srv'.conf = srv.conf
        BY <1>1, <2>2, <2>3, RegistrationHandled DEF Servers
      <3> QED
        BY <2>2, <3>1 DEF Delivery!vars
    <2>4. CASE m.t = "range" /\ srv' # srv
      <3>1. /\ m.s = srv.next[m.f] /\ m.f \in File /\ m.e \in 0 .. MaxSize /\ m.s < m.e
            /\ m.e <= disk.f[m.f].obs
        BY <2>2, <2>4, RangeHandled DEF Requests, LaneInv, Sent
      <3>2. srv'.next = [srv.next EXCEPT ![m.f] = m.e] /\ srv'.conf = srv.conf
        <4>1. srv' =
                [srv EXCEPT !.next[m.f] = m.e,
                            !.ranges = @ \cup {[f |-> m.f, s |-> m.s, e |-> m.e, p |-> m.p]},
                            !.count[m.f] = [b \in 1 .. MaxSize |->
                               @[b] + IF b \in (m.s + 1) .. m.e THEN 1 ELSE 0]]
          BY <2>2, <2>4, RangeHandled
        <4> QED
          BY <1>1, <4>1 DEF Servers
      <3>3. m.e <= dir.size[m.f]
        BY <1>1, <3>1 DEF Ordered, Sound, Entries, Directories
      <3>4. m.e \in (srv.next[m.f] + 1) .. dir.size[m.f]
        BY <1>1, <3>1, <3>3 DEF Servers, Directories
      <3>5. Delivery!Count(m.f)
        BY <2>2, <3>2, <3>4 DEF Delivery!Count, Delivery!Advance
      <3> QED
        BY <3>1, <3>5 DEF Delivery!Next
    <2>5. CASE m.t = "confirm" /\ srv' # srv
      <3>1. m.f \in File /\ srv.conf[m.f] < m.at /\ m.at <= disk.f[m.f].acked /\ m.at \in 0 .. MaxSize
        BY <2>2, <2>5, ConfirmationHandled
      <3>2. srv'.conf = [srv.conf EXCEPT ![m.f] = m.at] /\ srv'.next = srv.next
        BY <1>1, <2>2, <2>5, ConfirmationHandled DEF Servers
      <3>3. m.at \in (srv.conf[m.f] + 1) .. durable[m.f]
        BY <1>1, <3>1 DEF Servers, Entries
      <3>4. Delivery!Forget(m.f)
        BY <2>2, <3>2, <3>3 DEF Delivery!Forget, Delivery!Advance
      <3> QED
        BY <3>1, <3>4 DEF Delivery!Next
    <2>6. CASE srv' = srv
      BY <2>2, <2>6 DEF Delivery!vars
    <2> QED
      BY <2>2, <2>3, <2>4, <2>5, <2>6 DEF Requests
  <1>5. CASE Collector \/ Crash
    <2>1. (Kept \/ Acknowledges) /\ UNCHANGED <<dir, srv>>
      BY <1>5, CollectorStep
    <2>2. CASE Kept
      <3>1. durable' = durable
        BY <2>2 DEF Kept
      <3> QED
        BY <2>1, <3>1 DEF Delivery!vars
    <2>3. CASE Acknowledges
      <3>1. PICK g \in File : \E e \in (disk.f[g].acked + 1) .. srv.next[g] :
               \A f \in File : disk'.f[f].acked = IF f = g THEN e ELSE disk.f[f].acked
        BY <2>3 DEF Acknowledges
      <3>2. PICK e \in (disk.f[g].acked + 1) .. srv.next[g] :
               \A f \in File : disk'.f[f].acked = IF f = g THEN e ELSE disk.f[f].acked
        BY <3>1
      <3>3. durable' = [durable EXCEPT ![g] = e] /\ e \in (durable[g] + 1) .. srv.next[g]
        BY <3>2
      <3>4. Delivery!Acknowledge(g)
        BY <2>1, <3>3 DEF Delivery!Acknowledge, Delivery!Advance
      <3> QED
        BY <3>4 DEF Delivery!Next
    <2> QED
      BY <2>1, <2>2, <2>3
  <1>6. CASE UNCHANGED vars
    BY <1>6 DEF vars, Delivery!vars
  <1> QED
    BY <1>2, <1>3, <1>4, <1>5, <1>6 DEF Next
-----------------------------------------------------------------------------
(* The theorems, for every lane the module's assumption allows.              *)

\* The assumption on the constants gives the part of it the proofs need.
LEMMA Instance == NginxConstants
  BY NginxSourceAssumption DEF NginxConstants

\* The invariant holds in every behaviour of the collector, Monitor and the log directory.
THEOREM LaneKeepsInvariant == Spec => []LaneInv
  <1> QED
    BY Instance, InvFirst, InvStep, PTL DEF Spec

\* Cursor, manifest and watermarks keep their shape (sourceCursorV2, fileWatermark).
THEOREM LaneIsTyped == Spec => []TypeOK
  <1> QED
    BY Instance, LaneKeepsInvariant, InvImplies, PTL

\* Every line Monitor accepted is counted once (applyNginxSourceRangeV2).
THEOREM LinesAreCountedOnce == Spec => []CountedOnce
  <1> QED
    BY Instance, LaneKeepsInvariant, InvImplies, PTL

\* A restarted collector can be given the proof of what was counted beyond its cursor
\* (recoverSourceAcknowledgementsV2).
THEOREM LostProofIsRecoverable == Spec => []Recoverable
  <1> QED
    BY Instance, LaneKeepsInvariant, InvImplies, PTL

\* Both sides agree on the files, and no repeated request is refused (ensureSourceProtocolV2).
THEOREM BothSidesAgree == Spec => []SidesAgree
  <1> QED
    BY Instance, LaneKeepsInvariant, InvImplies, PTL

\* The lane implements the delivery of bytes: four watermarks of a file, none overtakes the one
\* before it (applyNginxSourceRangeV2, acknowledgeSourceRangeV2, confirmNginxSourceAckV2).
THEOREM LaneDelivers == Spec => DeliverySpec
  <1>1. Init => Delivery!Init
    BY Instance, DeliveryFirst
  <1>2. LaneInv /\ [Next]_vars => [Delivery!Next]_(Delivery!vars)
    BY Instance, DeliveryStep
  <1> QED
    BY <1>1, <1>2, LaneKeepsInvariant, PTL DEF Spec, DeliverySpec, Delivery!Spec
=============================================================================
