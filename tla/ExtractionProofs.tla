-------------------------- MODULE ExtractionProofs --------------------------
(***************************************************************************)
(* Unpacking, for any images, layouts and limits: the safety properties of *)
(* Extraction.                                                             *)
(*                                                                         *)
(* Two extractions of one depth may share a stage directory, but not when  *)
(* a member of the first is waiting to be unpacked: its path was new, so   *)
(* that the number of paths seen, which names the directory, has grown     *)
(* since.  The invariant compares the number in the name of each stage     *)
(* with that of the paths seen.                                            *)
(***************************************************************************)
EXTENDS Extraction, FiniteSetTheorems, SequenceTheorems, TLAPS

Ingesting == pc \in {"digest", "copied", "record"}

IsSeq(s) == s \in Seq(Range(s))

GraphFields == {"files", "hits", "contains", "strung"}

BlobsInv ==
    /\ pc \in {"idle", "digest", "copied", "record", "carve", "entries"}
    /\ DOMAIN view = GraphFields /\ DOMAIN graph = GraphFields
    /\ \A b \in DOMAIN partial : partial[b] = b
    /\ pc = "copied" => job.blob \in DOMAIN partial
    /\ pc = "record" => job.blob \in blobs
    /\ \A f \in graph.files : f.blob \in blobs
    /\ FilesHaveBytes

OnDisk(e, d) ==
    e.stage[2] \in Nat /\ e.stage \in DOMAIN d /\ e.path \in DOMAIN d[e.stage]

\* The member was new when n paths or fewer were seen, and its bytes are final.
Settled(e, blob, d, n) ==
    e # Nothing => OnDisk(e, d) /\ d[e.stage][e.path] = blob /\ e.stage[2] < n

WellQueued(item, d, n) ==
    item.file.blob = item.from.blob /\ Settled(item.from.entry, item.from.blob, d, n)

HandedOut(e, d, n) == OnDisk(e, d) /\ e.stage[2] <= n

\* The extraction under way writes to its stage, which is newer than those of
\* all members that were looked at.
Carving ==
    /\ DOMAIN carve = {"item", "bytes", "hits", "stage", "files", "consumed", "produced",
                       "hit", "left", "made"}
    /\ carve.stage \in DOMAIN disk
    /\ carve.stage[2] = Cardinality(seen)
    /\ \A list \in {carve.produced, carve.made} :
        /\ IsSeq(list)
        /\ \A i \in DOMAIN list : list[i].stage = carve.stage /\ OnDisk(list[i], disk)

StagesInv ==
    /\ IsFiniteSet(seen)
    /\ IsSeq(queue) /\ IsSeq(entries)
    /\ \A i \in DOMAIN queue : WellQueued(queue[i], disk, Cardinality(seen))
    /\ \A i \in DOMAIN entries : HandedOut(entries[i], disk, Cardinality(seen))
    /\ Ingesting => Settled(job.entry, job.blob, disk, Cardinality(seen))
    /\ pc = "carve" => Carving

\* The path is that of a file in the project, or of the one being ingested.
Known(p) == (\E f \in view.files : f.path = p) \/ (Ingesting /\ job.path = p)

Waiting(p) == \E i \in DOMAIN entries : SeenAs(entries[i]) = p

PathsInv ==
    /\ \A p \in seen : Known(p)
    /\ \A p \in found : Known(p) \/ Waiting(p)
    /\ pc = "carve" => entries = <<>>
    /\ pc = "idle" => entries = <<>> /\ queue = <<>> /\ seen = {} /\ found = {}

ExtractionInv == BlobsInv /\ StagesInv /\ PathsInv

-----------------------------------------------------------------------------
(* Queues and lists, by their members *)

LEMMA SequencesOfTheirMembers ==
    ASSUME NEW S, NEW s \in Seq(S)
    PROVE  IsSeq(s) /\ DOMAIN s = 1 .. Len(s) /\ Len(s) \in Nat
<1>1. /\ s \in [1 .. Len(s) -> S] /\ Len(s) \in Nat /\ DOMAIN s = 1 .. Len(s)
  BY LenProperties
<1>2. s \in [1 .. Len(s) -> Range(s)]
  BY <1>1 DEF Range
<1>. QED BY <1>1, <1>2 DEF IsSeq

LEMMA NoMembers == IsSeq(<<>>) /\ DOMAIN <<>> = {}
BY EmptySeq DEF IsSeq

LEMMA TailMembers ==
    ASSUME NEW s, IsSeq(s), s # <<>>
    PROVE  /\ IsSeq(Tail(s))
           /\ \E i \in DOMAIN s : Head(s) = s[i]
           /\ \A i \in DOMAIN Tail(s) : \E j \in DOMAIN s : Tail(s)[i] = s[j]
           /\ \A j \in DOMAIN s : s[j] = Head(s) \/ \E i \in DOMAIN Tail(s) : Tail(s)[i] = s[j]
<1>1. s \in Seq(Range(s))
  BY DEF IsSeq
<1>2. /\ Tail(s) \in Seq(Range(s))
      /\ Len(Tail(s)) = Len(s) - 1
      /\ \A i \in 1 .. Len(Tail(s)) : Tail(s)[i] = s[i + 1]
  BY <1>1, HeadTailProperties
<1>3. DOMAIN s = 1 .. Len(s) /\ Len(s) \in Nat \ {0}
  BY <1>1, SequencesOfTheirMembers, EmptySeq
<1>4. IsSeq(Tail(s)) /\ DOMAIN Tail(s) = 1 .. Len(Tail(s))
  BY <1>2, SequencesOfTheirMembers
<1>5. Head(s) = s[1]
  BY <1>1
<1>6. ASSUME NEW j \in DOMAIN s, j # 1
      PROVE  j - 1 \in DOMAIN Tail(s) /\ Tail(s)[j - 1] = s[j]
  BY <1>2, <1>3, <1>4, <1>6
<1>7. ASSUME NEW i \in DOMAIN Tail(s)
      PROVE  i + 1 \in DOMAIN s /\ Tail(s)[i] = s[i + 1]
  BY <1>2, <1>3, <1>4
<1>8. 1 \in DOMAIN s
  BY <1>3
<1>. QED BY <1>4, <1>5, <1>6, <1>7, <1>8

LEMMA AppendMembers ==
    ASSUME NEW s, IsSeq(s), NEW e
    PROVE  /\ IsSeq(Append(s, e))
           /\ \A i \in DOMAIN Append(s, e) :
                Append(s, e)[i] = e \/ \E j \in DOMAIN s : Append(s, e)[i] = s[j]
<1>. DEFINE S == Range(s) \cup {e}
<1>1. s \in Seq(Range(s))
  BY DEF IsSeq
<1>2. DOMAIN s = 1 .. Len(s) /\ Len(s) \in Nat /\ s \in [1 .. Len(s) -> Range(s)]
  BY <1>1, LenProperties
<1>3. s \in Seq(S) /\ e \in S
  BY <1>2
<1>4. /\ Append(s, e) \in Seq(S)
      /\ Len(Append(s, e)) = Len(s) + 1
      /\ \A i \in 1 .. Len(s) : Append(s, e)[i] = s[i]
      /\ Append(s, e)[Len(s) + 1] = e
  BY <1>3, AppendProperties
<1>5. IsSeq(Append(s, e)) /\ DOMAIN Append(s, e) = 1 .. Len(s) + 1
  BY <1>4, SequencesOfTheirMembers
<1>. QED BY <1>2, <1>4, <1>5

LEMMA ConcatMembers ==
    ASSUME NEW s, NEW t, IsSeq(s), IsSeq(t)
    PROVE  /\ IsSeq(s \o t)
           /\ \A i \in DOMAIN (s \o t) :
                \/ \E j \in DOMAIN s : (s \o t)[i] = s[j]
                \/ \E j \in DOMAIN t : (s \o t)[i] = t[j]
<1>. DEFINE S == Range(s) \cup Range(t)
<1>1. s \in Seq(Range(s)) /\ t \in Seq(Range(t))
  BY DEF IsSeq
<1>2. /\ DOMAIN s = 1 .. Len(s) /\ Len(s) \in Nat /\ s \in [1 .. Len(s) -> Range(s)]
      /\ DOMAIN t = 1 .. Len(t) /\ Len(t) \in Nat /\ t \in [1 .. Len(t) -> Range(t)]
  BY <1>1, LenProperties
<1>3. s \in Seq(S) /\ t \in Seq(S)
  BY <1>2
<1>4. /\ s \o t \in Seq(S)
      /\ Len(s \o t) = Len(s) + Len(t)
      /\ \A i \in 1 .. Len(s) + Len(t) : (s \o t)[i] = IF i <= Len(s) THEN s[i] ELSE t[i - Len(s)]
  BY <1>3, ConcatProperties
<1>5. IsSeq(s \o t) /\ DOMAIN (s \o t) = 1 .. Len(s) + Len(t)
  BY <1>4, SequencesOfTheirMembers
<1>6. ASSUME NEW i \in DOMAIN (s \o t), ~ (i <= Len(s))
      PROVE  i - Len(s) \in DOMAIN t /\ (s \o t)[i] = t[i - Len(s)]
  BY <1>2, <1>4, <1>5, <1>6
<1>7. ASSUME NEW i \in DOMAIN (s \o t), i <= Len(s)
      PROVE  i \in DOMAIN s /\ (s \o t)[i] = s[i]
  BY <1>2, <1>4, <1>5, <1>7
<1>. QED BY <1>5, <1>6, <1>7

-----------------------------------------------------------------------------
(* The start, and every step *)

LEMMA InitExtraction == Init => ExtractionInv
<1>. SUFFICES ASSUME Init PROVE ExtractionInv
  OBVIOUS
<1>1. BlobsInv
  BY DEF Init, BlobsInv, EmptyView, GraphFields, FilesHaveBytes
<1>2. StagesInv
  BY NoMembers, FS_EmptySet DEF Init, StagesInv, Ingesting
<1>3. PathsInv
  BY DEF Init, PathsInv
<1>. QED BY <1>1, <1>2, <1>3 DEF ExtractionInv

\* A row is recorded when its bytes are in place, and no blob is removed.
LEMMA BlobsStep == BlobsInv /\ [Next]_vars => BlobsInv'
<1>. SUFFICES ASSUME BlobsInv, [Next]_vars PROVE BlobsInv'
  OBVIOUS
<1>. USE DEF BlobsInv, FilesHaveBytes, storage
<1>1. ASSUME NEW image \in Images, StartAnalysis(image) PROVE BlobsInv'
  BY <1>1 DEF StartAnalysis
<1>2. CASE CopyBlob
  BY <1>2 DEF CopyBlob, Stored
<1>3. CASE ReplaceBlob
  BY <1>3 DEF ReplaceBlob
<1>4. CASE Record
  <2>1. /\ DOMAIN view' = GraphFields
        /\ view'.files = view.files \cup {File(job)}
        /\ File(job).blob = job.blob
    BY <1>4 DEF Record, GraphFields, File
  <2>. QED BY <1>4, <2>1 DEF Record
<1>5. CASE StartUnpack
  BY <1>5 DEF StartUnpack
<1>6. CASE TakeHit \/ WriteMember \/ LeaveHit
  BY <1>6 DEF TakeHit, WriteMember, LeaveHit
<1>7. CASE FinishUnpack
  <2>1. DOMAIN view' = GraphFields /\ view'.files = view.files
    BY <1>7 DEF FinishUnpack, GraphFields
  <2>. QED BY <1>7, <2>1 DEF FinishUnpack
<1>8. CASE NextEntry
  BY <1>8 DEF NextEntry
<1>9. CASE Finish \/ Fail
  BY <1>9 DEF Finish, Fail, Over
<1>10. CASE UNCHANGED vars
  BY <1>10 DEF vars
<1>. QED BY <1>1, <1>2, <1>3, <1>4, <1>5, <1>6, <1>7, <1>8, <1>9, <1>10 DEF Next

\* A path that is known stays known while the analysis runs, and one that
\* waits is looked at.
LEMMA PathsStep == ExtractionInv /\ [Next]_vars => PathsInv'
<1>. SUFFICES ASSUME ExtractionInv, [Next]_vars PROVE PathsInv'
  OBVIOUS
<1>. USE DEF ExtractionInv, PathsInv
<1>1. ASSUME NEW image \in Images, StartAnalysis(image) PROVE PathsInv'
  BY <1>1 DEF StartAnalysis
<1>2. ASSUME UNCHANGED <<view, job, entries, parent, seen, found>>,
             pc # "idle", pc' # "idle", pc' = "carve" => pc = "carve" \/ entries = <<>>,
             Ingesting => Ingesting'
      PROVE  PathsInv'
  BY <1>2 DEF Known, Waiting, SeenAs
<1>3. CASE CopyBlob \/ ReplaceBlob
  BY <1>2, <1>3 DEF CopyBlob, ReplaceBlob, Ingesting
<1>4. CASE TakeHit \/ WriteMember \/ LeaveHit
  BY <1>2, <1>4 DEF TakeHit, WriteMember, LeaveHit, Ingesting
<1>5. CASE StartUnpack
  BY <1>2, <1>5 DEF StartUnpack, Ingesting
<1>6. CASE Record
  <2>1. view'.files = view.files \cup {File(job)} /\ File(job).path = job.path
    BY <1>6 DEF Record, BlobsInv, GraphFields, File
  <2>2. ASSUME NEW p, Known(p) PROVE Known(p)'
    BY <1>6, <2>1, <2>2 DEF Known, Record
  <2>3. ASSUME NEW p, Waiting(p) PROVE Waiting(p)'
    BY <1>6, <2>3 DEF Waiting, Record, SeenAs
  <2>. QED BY <1>6, <2>2, <2>3 DEF Record
<1>7. CASE FinishUnpack
  <2>1. view'.files = view.files /\ pc = "carve"
    BY <1>7 DEF FinishUnpack, BlobsInv, GraphFields
  <2>2. ASSUME NEW p, Known(p) PROVE Known(p)'
    BY <2>1, <2>2 DEF Known, Ingesting
  <2>3. ASSUME NEW p \in found' \ found PROVE Waiting(p)'
    <3>1. PICK e \in Range(carve.produced) : p = carve.item.prefix \o e.path
      BY <1>7, <2>3 DEF FinishUnpack
    <3>2. PICK i \in DOMAIN carve.produced : carve.produced[i] = e
      BY <3>1 DEF Range
    <3>. QED BY <1>7, <3>1, <3>2 DEF FinishUnpack, Waiting, SeenAs
  <2>4. \A p \in found : Known(p)
    BY <1>7 DEF FinishUnpack, Waiting
  <2>. QED BY <1>7, <2>2, <2>3, <2>4 DEF FinishUnpack
<1>8. CASE NextEntry
  <2>1. IsSeq(entries) /\ entries # <<>> /\ entries' = Tail(entries) /\ parent' = parent
        /\ pc = "entries" /\ view' = view /\ found' = found
    BY <1>8 DEF NextEntry, StagesInv
  <2>2. ASSUME NEW p, Waiting(p) PROVE p = SeenAs(Head(entries)) \/ Waiting(p)'
    <3>1. PICK j \in DOMAIN entries : SeenAs(entries[j]) = p
      BY <2>2 DEF Waiting
    <3>2. entries[j] = Head(entries) \/ \E i \in DOMAIN entries' : entries'[i] = entries[j]
      BY <2>1, TailMembers
    <3>. QED BY <2>1, <3>1, <3>2 DEF Waiting, SeenAs
  <2>3. ASSUME NEW p, Known(p) PROVE Known(p)'
    BY <2>1, <2>3 DEF Known, Ingesting
  <2>4. SeenAs(Head(entries)) \in seen'
    BY <1>8 DEF NextEntry
  <2>5. ASSUME NEW p \in seen' PROVE Known(p)'
    <3>1. CASE p \in seen
      BY <2>3, <3>1
    <3>2. CASE p \notin seen
      <4> DEFINE e == Head(entries)
      <4>1. /\ seen' = seen \cup {SeenAs(e)} /\ pc' = "digest"
            /\ job' = [path |-> parent.prefix \o e.path, blob |-> disk[e.stage][e.path], entry |-> e]
        BY <1>8, <2>5, <3>2 DEF NextEntry
      <4>2. p = SeenAs(e) /\ job'.path = SeenAs(e)
        BY <2>5, <3>2, <4>1 DEF SeenAs
      <4>. QED BY <4>1, <4>2 DEF Known, Ingesting
    <3>. QED BY <3>1, <3>2
  <2>6. pc' \in {"entries", "digest"}
    BY <1>8 DEF NextEntry
  <2>. QED BY <2>1, <2>2, <2>3, <2>4, <2>5, <2>6
<1>9. CASE Finish \/ Fail
  BY <1>9 DEF Finish, Fail, Over
<1>10. CASE UNCHANGED vars
  BY <1>10 DEF vars, Known, Waiting, SeenAs, Ingesting
<1>. QED BY <1>1, <1>3, <1>4, <1>5, <1>6, <1>7, <1>8, <1>9, <1>10 DEF Next

\* A set of paths is finite with one more, and larger if it is new.
LEMMA OneMorePath ==
    ASSUME IsFiniteSet(seen), NEW p, p \notin seen
    PROVE  /\ Cardinality(seen) \in Nat /\ IsFiniteSet(seen \cup {p})
           /\ Cardinality(seen \cup {p}) = Cardinality(seen) + 1
BY FS_CardinalityType, FS_AddElement

\* The disk changes in stages that no member waits in.
Writes(d, e, n) ==
    \A s \in DOMAIN d :
        /\ s \in DOMAIN e /\ DOMAIN d[s] \subseteq DOMAIN e[s]
        /\ s[2] \in Nat /\ s[2] < n => e[s] = d[s]

LEMMA MembersStay ==
    ASSUME NEW d, NEW e, NEW n \in Nat, NEW m \in Nat, n <= m, Writes(d, e, n)
    PROVE  /\ \A x : OnDisk(x, d) => OnDisk(x, e)
           /\ \A x : HandedOut(x, d, n) => HandedOut(x, e, m)
           /\ \A x, b : Settled(x, b, d, n) => Settled(x, b, e, m)
           /\ \A item : WellQueued(item, d, n) => WellQueued(item, e, m)
<1>1. ASSUME NEW x, OnDisk(x, d) PROVE OnDisk(x, e)
  BY <1>1 DEF OnDisk, Writes
<1>2. ASSUME NEW x, HandedOut(x, d, n) PROVE HandedOut(x, e, m)
  BY <1>1, <1>2 DEF HandedOut, OnDisk
<1>3. ASSUME NEW x, NEW b, Settled(x, b, d, n) PROVE Settled(x, b, e, m)
  <2>. SUFFICES ASSUME x # Nothing PROVE Settled(x, b, e, m)
    BY DEF Settled
  <2>1. OnDisk(x, d) /\ d[x.stage][x.path] = b /\ x.stage[2] < n
    BY <1>3 DEF Settled
  <2>2. e[x.stage] = d[x.stage] /\ x.stage[2] \in Nat
    BY <2>1 DEF OnDisk, Writes
  <2>. QED BY <1>1, <2>1, <2>2 DEF Settled
<1>4. ASSUME NEW item, WellQueued(item, d, n) PROVE WellQueued(item, e, m)
  BY <1>3, <1>4 DEF WellQueued
<1>. QED BY <1>1, <1>2, <1>3, <1>4

\* What the steps have in common.
LEMMA StagesMove ==
    ASSUME StagesInv, IsFiniteSet(seen'), Cardinality(seen) <= Cardinality(seen'),
           Writes(disk, disk', Cardinality(seen)),
           IsSeq(queue'), IsSeq(entries'),
           \A i \in DOMAIN queue' :
                \/ WellQueued(queue'[i], disk', Cardinality(seen'))
                \/ \E j \in DOMAIN queue : queue'[i] = queue[j],
           \A i \in DOMAIN entries' :
                \/ HandedOut(entries'[i], disk', Cardinality(seen'))
                \/ \E j \in DOMAIN entries : entries'[i] = entries[j],
           Ingesting' =>
                \/ Settled(job'.entry, job'.blob, disk', Cardinality(seen'))
                \/ Ingesting /\ UNCHANGED job,
           pc' = "carve" => Carving'
    PROVE  StagesInv'
<1>. DEFINE n == Cardinality(seen)  m == Cardinality(seen')
<1>1. n \in Nat /\ m \in Nat
  BY FS_CardinalityType DEF StagesInv
<1>2. /\ \A x : HandedOut(x, disk, n) => HandedOut(x, disk', m)
      /\ \A x, b : Settled(x, b, disk, n) => Settled(x, b, disk', m)
      /\ \A item : WellQueued(item, disk, n) => WellQueued(item, disk', m)
  BY <1>1, MembersStay
<1>3. \A i \in DOMAIN queue' : WellQueued(queue'[i], disk', m)
  BY <1>2 DEF StagesInv
<1>4. \A i \in DOMAIN entries' : HandedOut(entries'[i], disk', m)
  BY <1>2 DEF StagesInv
<1>5. Ingesting' => Settled(job'.entry, job'.blob, disk', m)
  BY <1>2 DEF StagesInv
<1>. QED BY <1>3, <1>4, <1>5 DEF StagesInv

\* No stage is written to and no path looked at.
LEMMA DiskStands ==
    ASSUME StagesInv, UNCHANGED <<disk, seen>>
    PROVE  /\ IsFiniteSet(seen') /\ Cardinality(seen) <= Cardinality(seen')
           /\ Writes(disk, disk', Cardinality(seen))
BY FS_CardinalityType DEF StagesInv, Writes

LEMMA StagesStand ==
    ASSUME StagesInv, UNCHANGED <<disk, seen, queue, entries>>,
           Ingesting' => Ingesting /\ UNCHANGED job,
           pc' = "carve" => Carving'
    PROVE  StagesInv'
<1>1. IsSeq(queue') /\ IsSeq(entries')
  BY DEF StagesInv
<1>. QED BY <1>1, StagesMove, DiskStands

-----------------------------------------------------------------------------
(* The steps of the carver *)

\* A member is written into the stage of its hit, where nobody looks yet.
LEMMA WriteMemberKeeps ==
    ASSUME StagesInv, WriteMember
    PROVE  StagesInv'
<1>. DEFINE member == Head(carve.left)
            stage == carve.stage
            entry == [path |-> member.path, at |-> member.at, via |-> carve.hit.sig,
                      stage |-> stage]
            n == Cardinality(seen)
<1>1. pc = "carve" /\ Carving /\ n \in Nat /\ UNCHANGED <<pc, job, queue, entries, seen>>
  BY FS_CardinalityType DEF WriteMember, StagesInv
<1>2. ~Ingesting /\ ~Ingesting'
  BY <1>1 DEF Ingesting
<1>3. CASE Refused(member)
  <2>1. disk' = disk /\ carve' = [carve EXCEPT !.left = Tail(@)]
    BY <1>3 DEF WriteMember
  <2>2. Carving'
    BY <1>1, <2>1 DEF Carving
  <2>. QED BY <1>1, <1>2, <2>1, <2>2, StagesStand
<1>4. CASE ~Refused(member)
  <2>1. /\ disk' = [disk EXCEPT ![stage] = Written(@, member)]
        /\ carve' = [carve EXCEPT !.left = Tail(@), !.files = @ + 1, !.made = Append(@, entry)]
    BY <1>4 DEF WriteMember
  <2>2. stage \in DOMAIN disk /\ stage[2] = n
    BY <1>1 DEF Carving
  <2>3. /\ DOMAIN disk' = DOMAIN disk
        /\ DOMAIN disk'[stage] = DOMAIN disk[stage] \cup {member.path}
        /\ \A s \in DOMAIN disk : s # stage => disk'[s] = disk[s]
    BY <2>1, <2>2 DEF Written
  <2>4. Writes(disk, disk', n)
    BY <1>1, <2>2, <2>3 DEF Writes
  <2>5. \A x : OnDisk(x, disk) => OnDisk(x, disk')
    BY <1>1, <2>4, MembersStay
  <2>6. entry.stage = stage /\ OnDisk(entry, disk')
    BY <1>1, <2>2, <2>3 DEF OnDisk
  <2>7. /\ DOMAIN carve' = DOMAIN carve
        /\ carve'.stage = stage
        /\ carve'.produced = carve.produced
        /\ carve'.made = Append(carve.made, entry)
    BY <1>1, <2>1 DEF Carving
  <2>8. /\ IsSeq(carve.made) /\ IsSeq(carve.produced)
        /\ \A i \in DOMAIN carve.made : carve.made[i].stage = stage /\ OnDisk(carve.made[i], disk)
        /\ \A i \in DOMAIN carve.produced :
            carve.produced[i].stage = stage /\ OnDisk(carve.produced[i], disk)
    BY <1>1 DEF Carving
  <2>9. Carving'
    <3>. HIDE DEF entry, stage, member
    <3>1. /\ IsSeq(carve'.made)
          /\ \A i \in DOMAIN carve'.made :
                carve'.made[i] = entry \/ \E j \in DOMAIN carve.made : carve'.made[i] = carve.made[j]
      BY <2>7, <2>8, AppendMembers
    <3>2. \A i \in DOMAIN carve'.made :
            carve'.made[i].stage = stage /\ OnDisk(carve'.made[i], disk')
      BY <2>5, <2>6, <2>8, <3>1
    <3>3. \A i \in DOMAIN carve'.produced :
            carve'.produced[i].stage = stage /\ OnDisk(carve'.produced[i], disk')
      BY <2>5, <2>7, <2>8
    <3>. QED BY <1>1, <2>2, <2>3, <2>7, <2>8, <3>1, <3>2, <3>3 DEF Carving
  <2>10. IsSeq(queue') /\ IsSeq(entries') /\ IsFiniteSet(seen') /\ n <= Cardinality(seen')
    BY <1>1 DEF StagesInv
  <2>. QED BY <1>1, <1>2, <2>4, <2>9, <2>10, StagesMove
<1>. QED BY <1>3, <1>4

LEMMA TakeHitKeeps ==
    ASSUME StagesInv, TakeHit
    PROVE  StagesInv'
<1>1. pc = "carve" /\ Carving /\ UNCHANGED <<pc, job, queue, entries, seen, disk>>
  BY DEF TakeHit, StagesInv
<1>2. ~Ingesting'
  BY <1>1 DEF Ingesting
<1>3. /\ DOMAIN carve' = DOMAIN carve /\ carve'.stage = carve.stage
      /\ carve'.produced = carve.produced /\ carve'.made = carve.made
  BY <1>1 DEF TakeHit, Carving
<1>4. Carving'
  BY <1>1, <1>3 DEF Carving
<1>. QED BY <1>1, <1>2, <1>4, StagesStand

\* What the handler made is handed out, or is forgotten when it raised.
LEMMA LeaveHitKeeps ==
    ASSUME StagesInv, LeaveHit
    PROVE  StagesInv'
<1>1. pc = "carve" /\ Carving /\ UNCHANGED <<pc, job, queue, entries, seen, disk>>
  BY DEF LeaveHit, StagesInv
<1>2. ~Ingesting'
  BY <1>1 DEF Ingesting
<1>3. /\ DOMAIN carve' = DOMAIN carve /\ carve'.stage = carve.stage
      /\ carve'.made = <<>>
      /\ carve'.produced \in {carve.produced, carve.produced \o carve.made}
  BY <1>1 DEF LeaveHit, Carving
<1>4. /\ IsSeq(carve.made) /\ IsSeq(carve.produced)
      /\ \A i \in DOMAIN carve.made :
            carve.made[i].stage = carve.stage /\ OnDisk(carve.made[i], disk)
      /\ \A i \in DOMAIN carve.produced :
            carve.produced[i].stage = carve.stage /\ OnDisk(carve.produced[i], disk)
  BY <1>1 DEF Carving
<1>5. /\ IsSeq(carve'.produced)
      /\ \A i \in DOMAIN carve'.produced :
            carve'.produced[i].stage = carve.stage /\ OnDisk(carve'.produced[i], disk)
  <2>1. CASE carve'.produced = carve.produced
    BY <1>4, <2>1
  <2>2. CASE carve'.produced = carve.produced \o carve.made
    <3>. DEFINE s == carve.produced  t == carve.made  all == carve'.produced
    <3>1. /\ IsSeq(s) /\ IsSeq(t) /\ all = s \o t
          /\ \A i \in DOMAIN s : s[i].stage = carve.stage /\ OnDisk(s[i], disk)
          /\ \A i \in DOMAIN t : t[i].stage = carve.stage /\ OnDisk(t[i], disk)
      BY <1>4, <2>2
    <3>. HIDE DEF s, t, all
    <3>2. /\ IsSeq(s \o t)
          /\ \A i \in DOMAIN (s \o t) :
                (\E j \in DOMAIN s : (s \o t)[i] = s[j]) \/ (\E j \in DOMAIN t : (s \o t)[i] = t[j])
      BY <3>1, ConcatMembers
    <3>3. /\ IsSeq(all)
          /\ \A i \in DOMAIN all : all[i].stage = carve.stage /\ OnDisk(all[i], disk)
      BY <3>1, <3>2
    <3>. QED BY <3>3 DEF all
  <2>. QED BY <1>3, <2>1, <2>2
<1>6. Carving'
  BY <1>1, <1>3, <1>5, NoMembers DEF Carving
<1>. QED BY <1>1, <1>2, <1>6, StagesStand

LEMMA FinishUnpackKeeps ==
    ASSUME StagesInv, FinishUnpack
    PROVE  StagesInv'
<1>1. /\ pc = "carve" /\ pc' = "entries" /\ Carving
      /\ entries' = carve.produced /\ UNCHANGED <<queue, seen, disk>>
  BY DEF FinishUnpack, StagesInv
<1>2. ~Ingesting' /\ pc' # "carve"
  BY <1>1 DEF Ingesting
<1>3. \A i \in DOMAIN entries' : HandedOut(entries'[i], disk', Cardinality(seen'))
  BY <1>1, FS_CardinalityType DEF Carving, HandedOut, StagesInv
<1>4. IsSeq(queue') /\ IsSeq(entries')
  BY <1>1 DEF Carving, StagesInv
<1>. QED BY <1>1, <1>2, <1>3, <1>4, DiskStands, StagesMove

-----------------------------------------------------------------------------
(* The steps of the adapter *)

\* A container leaves the queue and gets a stage of its own, or one that is
\* as new.
LEMMA StartUnpackKeeps ==
    ASSUME StagesInv, StartUnpack
    PROVE  StagesInv'
<1>. DEFINE item == Head(queue)
            stage == <<item.depth, Cardinality(seen)>>
<1>1. /\ pc = "entries" /\ entries = <<>> /\ IsSeq(queue) /\ queue # <<>> /\ queue' = Tail(queue)
      /\ UNCHANGED <<job, entries, seen>>
  BY DEF StartUnpack, StagesInv, Popped
<1>2. /\ IsSeq(queue') /\ IsSeq(entries')
      /\ \A i \in DOMAIN queue' : \E j \in DOMAIN queue : queue'[i] = queue[j]
      /\ \A i \in DOMAIN entries' : \E j \in DOMAIN entries : entries'[i] = entries[j]
  BY <1>1, TailMembers, NoMembers
<1>3. CASE item.depth > MaxDepth
  <2>1. UNCHANGED <<pc, carve, disk>>
    BY <1>3 DEF StartUnpack
  <2>2. ~Ingesting' /\ pc' # "carve"
    BY <1>1, <2>1 DEF Ingesting
  <2>. QED BY <1>1, <1>2, <2>1, <2>2, DiskStands, StagesMove
<1>4. CASE ~(item.depth > MaxDepth)
  <2>1. /\ pc' = "carve"
        /\ disk' = [d \in DOMAIN disk \cup {stage} |-> IF d \in DOMAIN disk THEN disk[d] ELSE NoFiles]
        /\ carve' = [item |-> item, bytes |-> Bytes(item), hits |-> layout[Bytes(item)],
                     stage |-> stage, files |-> 0, consumed |-> {}, produced |-> <<>>,
                     hit |-> Nothing, left |-> <<>>, made |-> <<>>]
    BY <1>4 DEF StartUnpack, StageOf
  <2>2. Writes(disk, disk', Cardinality(seen))
    BY <2>1 DEF Writes
  <2>3. stage \in DOMAIN disk' /\ stage[2] = Cardinality(seen)
    BY <2>1
  <2>4. Carving'
    <3>. HIDE DEF stage, item
    <3>. QED BY <1>1, <2>1, <2>3, NoMembers DEF Carving
  <2>5. ~Ingesting' /\ IsFiniteSet(seen') /\ Cardinality(seen) <= Cardinality(seen')
    BY <1>1, <2>1, FS_CardinalityType DEF Ingesting, StagesInv
  <2>. QED BY <1>2, <2>2, <2>4, <2>5, StagesMove
<1>. QED BY <1>3, <1>4

\* A member whose path is new makes the number of paths grow, so that no later
\* stage is the one it lies in.
LEMMA NextEntryKeeps ==
    ASSUME StagesInv, NextEntry
    PROVE  StagesInv'
<1>. DEFINE e == Head(entries)
<1>1. /\ IsSeq(entries) /\ entries # <<>> /\ entries' = Tail(entries)
      /\ pc = "entries" /\ UNCHANGED <<queue, disk>> /\ IsSeq(queue')
  BY DEF NextEntry, StagesInv
<1>2. /\ IsSeq(entries')
      /\ \A i \in DOMAIN entries' : \E j \in DOMAIN entries : entries'[i] = entries[j]
      /\ \E i \in DOMAIN entries : e = entries[i]
      /\ \A i \in DOMAIN queue' : \E j \in DOMAIN queue : queue'[i] = queue[j]
  BY <1>1, TailMembers
<1>3. CASE SeenAs(e) \in seen
  <2>1. UNCHANGED <<pc, seen>>
    BY <1>3 DEF NextEntry
  <2>2. ~Ingesting' /\ pc' # "carve"
    BY <1>1, <2>1 DEF Ingesting
  <2>. QED BY <1>1, <1>2, <2>1, <2>2, DiskStands, StagesMove
<1>4. CASE SeenAs(e) \notin seen
  <2>1. /\ seen' = seen \cup {SeenAs(e)} /\ pc' = "digest"
        /\ job' = [path |-> parent.prefix \o e.path, blob |-> disk[e.stage][e.path], entry |-> e]
    BY <1>4 DEF NextEntry
  <2>2. /\ Cardinality(seen) \in Nat /\ IsFiniteSet(seen')
        /\ Cardinality(seen') = Cardinality(seen) + 1
    BY <1>4, <2>1, OneMorePath DEF StagesInv
  <2>3. HandedOut(e, disk, Cardinality(seen))
    BY <1>2 DEF StagesInv
  <2>4. Settled(job'.entry, job'.blob, disk', Cardinality(seen'))
    BY <1>1, <2>1, <2>2, <2>3 DEF Settled, HandedOut, OnDisk
  <2>5. Writes(disk, disk', Cardinality(seen))
    BY <1>1 DEF Writes
  <2>6. Cardinality(seen) <= Cardinality(seen') /\ pc' # "carve"
    BY <2>1, <2>2
  <2>. HIDE DEF e
  <2>. QED BY <1>1, <1>2, <2>2, <2>4, <2>5, <2>6, StagesMove
<1>. QED BY <1>3, <1>4

\* The file that goes on the queue is the one that was ingested.
LEMMA RecordKeeps ==
    ASSUME StagesInv, Record
    PROVE  StagesInv'
<1>1. /\ pc = "record" /\ pc' = "entries" /\ UNCHANGED <<disk, seen, entries>>
      /\ IsSeq(entries') /\ IsSeq(queue)
  BY DEF Record, StagesInv
<1>2. ~Ingesting' /\ Settled(job.entry, job.blob, disk, Cardinality(seen))
  BY <1>1 DEF Ingesting, StagesInv
<1>3. ItemOf(job).from = job /\ ItemOf(job).file.blob = job.blob
  BY DEF ItemOf, File
<1>4. WellQueued(ItemOf(job), disk, Cardinality(seen))
  BY <1>2, <1>3 DEF WellQueued
<1>5. queue' = queue \/ queue' = Append(queue, ItemOf(job))
  BY DEF Record
<1>6. /\ IsSeq(queue')
      /\ \A i \in DOMAIN queue' :
            queue'[i] = ItemOf(job) \/ \E j \in DOMAIN queue : queue'[i] = queue[j]
  <2>. DEFINE item == ItemOf(job)
  <2>. HIDE DEF item
  <2>1. CASE queue' = queue
    BY <1>1, <2>1
  <2>2. CASE queue' = Append(queue, item)
    <3>1. /\ IsSeq(Append(queue, item))
          /\ \A i \in DOMAIN Append(queue, item) :
                \/ Append(queue, item)[i] = item
                \/ \E j \in DOMAIN queue : Append(queue, item)[i] = queue[j]
      BY <1>1, AppendMembers
    <3>. QED BY <2>2, <3>1 DEF item
  <2>. QED BY <1>5, <2>1, <2>2 DEF item
<1>. QED BY <1>1, <1>2, <1>4, <1>6, DiskStands, StagesMove

\* Nothing is left of an analysis that is over, or begun of the next.
LEMMA OverKeeps == Over => StagesInv'
<1>. SUFFICES ASSUME Over PROVE StagesInv'
  OBVIOUS
<1>1. pc' = "idle" /\ queue' = <<>> /\ entries' = <<>> /\ seen' = {}
  BY DEF Over
<1>2. ~Ingesting' /\ IsFiniteSet(seen')
  BY <1>1, FS_EmptySet DEF Ingesting
<1>. QED BY <1>1, <1>2, NoMembers DEF StagesInv

LEMMA StagesStep == StagesInv /\ [Next]_vars => StagesInv'
<1>. SUFFICES ASSUME StagesInv, [Next]_vars PROVE StagesInv'
  OBVIOUS
<1>1. ASSUME NEW image \in Images, StartAnalysis(image) PROVE StagesInv'
  <2>1. /\ pc' = "digest" /\ UNCHANGED <<queue, entries, seen, disk>>
        /\ job'.entry = Nothing
    BY <1>1 DEF StartAnalysis
  <2>2. Settled(job'.entry, job'.blob, disk', Cardinality(seen'))
    BY <2>1 DEF Settled
  <2>3. IsSeq(queue') /\ IsSeq(entries')
    BY <2>1 DEF StagesInv
  <2>. QED BY <2>1, <2>2, <2>3, DiskStands, StagesMove
<1>2. CASE CopyBlob \/ ReplaceBlob
  <2>1. /\ UNCHANGED <<job, queue, entries, seen, disk>>
        /\ pc \in {"digest", "copied"} /\ pc' \in {"copied", "record"}
    BY <1>2 DEF CopyBlob, ReplaceBlob
  <2>2. Ingesting
    BY <2>1 DEF Ingesting
  <2>. QED BY <2>1, <2>2, StagesStand
<1>3. CASE Record
  BY <1>3, RecordKeeps
<1>4. CASE StartUnpack
  BY <1>4, StartUnpackKeeps
<1>5. CASE TakeHit \/ WriteMember \/ LeaveHit
  BY <1>5, TakeHitKeeps, WriteMemberKeeps, LeaveHitKeeps
<1>6. CASE FinishUnpack
  BY <1>6, FinishUnpackKeeps
<1>7. CASE NextEntry
  BY <1>7, NextEntryKeeps
<1>8. CASE Finish \/ Fail
  BY <1>8, OverKeeps DEF Finish, Fail
<1>9. CASE UNCHANGED vars
  <2>1. UNCHANGED <<pc, job, queue, entries, seen, disk, carve>>
    BY <1>9 DEF vars
  <2>2. Carving => Carving'
    BY <2>1 DEF Carving
  <2>3. pc' = "carve" => Carving'
    BY <2>1, <2>2 DEF StagesInv
  <2>4. Ingesting' => Ingesting
    BY <2>1 DEF Ingesting
  <2>. QED BY <2>1, <2>3, <2>4, StagesStand
<1>. QED BY <1>1, <1>2, <1>3, <1>4, <1>5, <1>6, <1>7, <1>8, <1>9 DEF Next

-----------------------------------------------------------------------------
(* Theorems *)

\* The invariant above holds of every analysis, of any image and whatever
\* fails.
THEOREM ExtractionInvariance == FairSpec => []ExtractionInv
<1>1. Init => ExtractionInv
  BY InitExtraction
<1>2. ExtractionInv /\ [Next]_vars => ExtractionInv'
  BY BlobsStep, StagesStep, PathsStep DEF ExtractionInv
<1>. QED BY <1>1, <1>2, PTL DEF FairSpec

\* A file that is in the project has its bytes in the blob store, whatever
\* copies died before (store_blob, resolve_bytes).
THEOREM RowsHaveBytes == FairSpec => []FilesHaveBytes
<1>1. ExtractionInv => FilesHaveBytes
  BY DEF ExtractionInv, BlobsInv
<1>. QED BY <1>1, ExtractionInvariance, PTL

\* A container is unpacked from the bytes that were recorded for it, however
\* long it waited and whatever was extracted meanwhile (the stage names of
\* BinwalkAdapter.analyze).
THEOREM WaitingMembersStay == FairSpec => []UnpackedAsRecorded
<1>1. ExtractionInv => UnpackedAsRecorded
  <2>. SUFFICES ASSUME ExtractionInv, NEW i \in DOMAIN queue
                PROVE  Bytes(queue[i]) = queue[i].file.blob
    BY DEF UnpackedAsRecorded
  <2>1. WellQueued(queue[i], disk, Cardinality(seen))
    BY DEF ExtractionInv, StagesInv
  <2>. QED BY <2>1 DEF WellQueued, Settled, Bytes
<1>. QED BY <1>1, ExtractionInvariance, PTL

\* An analysis that commits has recorded a file under every path that an
\* extraction handed out, however containers share paths.
THEOREM NoPathIsLost == FairSpec => PathsAccountedFor
<1>1. ExtractionInv /\ [Next]_vars =>
        (graph' # graph => \A p \in found : \E f \in graph'.files : f.path = p)
  <2>. SUFFICES ASSUME ExtractionInv, [Next]_vars, graph' # graph, NEW p \in found
                PROVE  \E f \in graph'.files : f.path = p
    OBVIOUS
  <2>1. Finish
    BY DEF Next, vars, StartAnalysis, CopyBlob, ReplaceBlob, Record, StartUnpack, TakeHit,
           WriteMember, LeaveHit, FinishUnpack, NextEntry, Fail
  <2>2. pc = "entries" /\ entries = <<>> /\ graph' = view
    BY <2>1 DEF Finish
  <2>3. ~Waiting(p) /\ ~Ingesting
    BY <2>2, NoMembers DEF Waiting, Ingesting
  <2>4. Known(p)
    BY <2>3 DEF ExtractionInv, PathsInv
  <2>. QED BY <2>2, <2>3, <2>4 DEF Known
<1>. QED BY <1>1, ExtractionInvariance, PTL DEF FairSpec, PathsAccountedFor
=============================================================================
