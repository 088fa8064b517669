----------------------------- MODULE Extraction -----------------------------
(***************************************************************************)
(* Unpacking an image: BinwalkAdapter.analyze with its own carver          *)
(* (ultron/adapters/binwalk/__init__.py and carver.py), and the copy of    *)
(* each file into the blob store (ultron/adapters/ingest.py).              *)
(*                                                                         *)
(* Bytes are members of Blobs.  What a scan of some bytes finds is given   *)
(* by layout: a sequence of hits in the order of their offsets, each with  *)
(* the members its handler would hand out.  Extracted members live in a    *)
(* stage directory on disk until the analysis ends, and are read again     *)
(* from there: to be ingested, and once more to be unpacked themselves.    *)
(*                                                                         *)
(* The analysis is one run of Store, so what it records is in view until   *)
(* it commits; blobs are files and are there at once.                      *)
(***************************************************************************)
EXTENDS Integers, SequencesExt

CONSTANTS
    Blobs,        \* contents of files; a digest stands for its content
    Layouts,      \* the functions blob -> sequence of hits that are explored
    Images,       \* blobs that are handed to analyze
    Container,    \* blobs whose header says archive, compressed or filesystem
    Opaque,       \* blobs whose header says nothing (format "data")
    Escaping,     \* member paths that safe_join refuses
    Handled,      \* signatures with a handler
    MaxDepth,     \* max_depth
    MaxFiles,     \* Budget.max_files
    MaxAnalyses,  \* bound: analyses started
    Nothing

\* Single-stream wrappers, transparent for paths (_TRANSPARENT_CONTAINERS).
Transparent == {"gzip", "bzip2", "xz"}

ASSUME ExtractionAssumption ==
    /\ Images \subseteq Blobs
    /\ Container \cup Opaque \subseteq Blobs
    /\ {MaxDepth, MaxFiles, MaxAnalyses} \subseteq Nat
    /\ Nothing \notin Blobs

VARIABLES
    layout,    \* what a scan of each blob finds
    blobs,     \* the blob store
    partial,   \* the .partial files: digest -> content
    graph,     \* what committed analyses recorded
    view,      \* graph with what the open run recorded
    pc,        \* idle, digest, copied, record, carve, entries
    job,       \* the file being ingested
    queue,     \* containers waiting to be unpacked
    carve,     \* the extraction under way: the container, the hits left, ...
    entries,   \* members of the current container that wait to be ingested
    parent,    \* the current container
    seen,      \* member paths of this analysis
    found,     \* history: the member paths that extractions handed out
    disk,      \* stage directory -> member path -> content
    analyses   \* analyses started

vars == <<layout, blobs, partial, graph, view, pc, job, queue, carve, entries, parent,
          seen, found, disk, analyses>>
storage == <<blobs, partial>>

NoFiles == [p \in {} |-> Nothing]

LargestOf(S) == CHOOSE m \in S : \A n \in S : n <= m

EmptyView == [files |-> {}, hits |-> {}, contains |-> {}, strung |-> {}]

Init ==
    /\ layout \in Layouts
    /\ blobs = {}
    /\ partial = [b \in {} |-> Nothing]
    /\ graph = EmptyView
    /\ view = EmptyView
    /\ pc = "idle"
    /\ job = Nothing
    /\ queue = <<>>
    /\ carve = Nothing
    /\ entries = <<>>
    /\ parent = Nothing
    /\ seen = {}
    /\ found = {}
    /\ disk = NoFiles
    /\ analyses = 0

-----------------------------------------------------------------------------
(* carver.extract *)

\* _write writes nothing that safe_join leads out of the directory or that
\* Budget.allow refuses (it counts files; bytes are bounded in the same way).
Refused(member) == member.path \in Escaping \/ carve.files >= MaxFiles

\* A member is written over whatever has its path already.
Written(stage, member) ==
    [p \in DOMAIN stage \cup {member.path} |-> IF p = member.path THEN member.blob ELSE stage[p]]

\* Inside something that was unpacked: what a handler produced covers its
\* image up to the last offset a member says it came from.
Covered(hit) ==
    \E span \in carve.consumed : span[1] <= hit.at /\ hit.at < span[2]

\* hit_by_offset: of two hits at one offset the later one stays.
HitAt(file, at) ==
    LET hits == layout[file.blob]
        those == {i \in DOMAIN hits : hits[i].at = at}
    IN  IF those = {} THEN {}
        ELSE {[file |-> file, at |-> at,
               sig |-> hits[CHOOSE i \in those : \A j \in those : j <= i].sig]}

-----------------------------------------------------------------------------
(* ingest_file, for the image and for every member *)

File(j) == [path |-> j.path, blob |-> j.blob]

\* Open the run and ingest the image.
StartAnalysis(image) ==
    /\ pc = "idle"
    /\ analyses < MaxAnalyses
    /\ analyses' = analyses + 1
    /\ job' = [path |-> <<"image">>, blob |-> image, entry |-> Nothing]
    /\ pc' = "digest"
    /\ UNCHANGED <<layout, storage, graph, view, queue, carve, entries, parent, seen, found, disk>>

\* A leftover of a copy that died counts as stored.
StoredLoosely(b) == b \in blobs \/ b \in DOMAIN partial

\* store_blob's test whether there is anything to do.
Stored(b) == b \in blobs

\* Into the .partial file, unless the blob is there.
CopyBlob ==
    /\ pc = "digest"
    /\ IF Stored(job.blob)
       THEN pc' = "record" /\ UNCHANGED partial
       ELSE /\ partial' = [b \in DOMAIN partial \cup {job.blob} |->
                            IF b = job.blob THEN job.blob ELSE partial[b]]
            /\ pc' = "copied"
    /\ UNCHANGED <<layout, blobs, graph, view, job, queue, carve, entries, parent, seen, found, disk,
                   analyses>>

\* os.replace: the .partial file becomes the blob.
ReplaceBlob ==
    /\ pc = "copied"
    /\ blobs' = blobs \cup {partial[job.blob]}
    /\ partial' = [b \in DOMAIN partial \ {job.blob} |-> partial[b]]
    /\ pc' = "record"
    /\ UNCHANGED <<layout, graph, view, job, queue, carve, entries, parent, seen, found, disk, analyses>>

\* A member goes back on the queue when it may hold files of its own.
Requeued(j) ==
    j.entry = Nothing \/ (parent.depth < MaxDepth /\ j.blob \in Container \cup Opaque)

\* The queue item of a container: where its bytes are, under which paths its
\* members go, and which artifact they belong to.
ItemOf(j) ==
    IF j.entry = Nothing
    THEN [from |-> j, prefix |-> <<>>, file |-> File(j), depth |-> 0]
    ELSE [from |-> j,
          prefix |-> IF j.entry.via \in Transparent THEN parent.prefix ELSE j.path,
          file |-> File(j), depth |-> parent.depth + 1]

\* The claim that the parent contains the file, with the hit it came out of.
ContainmentClaims(j) ==
    IF j.entry = Nothing THEN {}
    ELSE {[parent |-> parent.file, path |-> j.path, file |-> File(j),
           context |-> HitAt(parent.file, j.entry.at)]}

\* The row, the format claim, the strings (a container's are left to its
\* members) and the containment claim.
Record ==
    /\ pc = "record"
    /\ view' = [view EXCEPT
            !.files = @ \cup {File(job)},
            !.strung = IF job.entry # Nothing /\ job.blob \in Container
                       THEN @ ELSE @ \cup {File(job)},
            !.contains = @ \cup ContainmentClaims(job)]
    /\ queue' = IF Requeued(job) THEN Append(queue, ItemOf(job)) ELSE queue
    /\ pc' = "entries"
    /\ job' = Nothing
    /\ UNCHANGED <<layout, storage, graph, carve, entries, parent, seen, found, disk, analyses>>

-----------------------------------------------------------------------------
(* analyze *)

\* One stage directory for each depth.
StageOfDepth(item) == <<item.depth, 0>>

StageOf(item) == <<item.depth, Cardinality(seen)>>

\* The bytes at the path a queue item or an entry was written to.
Bytes(item) ==
    IF item.from.entry = Nothing THEN item.from.blob
    ELSE disk[item.from.entry.stage][item.from.entry.path]

\* The queue looked at and not shortened.
Peeked(q) == q

Popped(q) == Tail(q)

\* Take the next container, breadth first, and scan it.
StartUnpack ==
    /\ pc = "entries"
    /\ entries = <<>>
    /\ queue # <<>>
    /\ queue' = Popped(queue)
    /\ LET item == Head(queue)
       IN  IF item.depth > MaxDepth
           THEN UNCHANGED <<pc, carve, disk>>
           ELSE /\ carve' = [item |-> item, bytes |-> Bytes(item), hits |-> layout[Bytes(item)],
                             stage |-> StageOf(item), files |-> 0, consumed |-> {},
                             produced |-> <<>>, hit |-> Nothing, left |-> <<>>, made |-> <<>>]
                /\ disk' = [d \in DOMAIN disk \cup {StageOf(item)} |->
                                IF d \in DOMAIN disk THEN disk[d] ELSE NoFiles]
                /\ pc' = "carve"
    /\ UNCHANGED <<layout, storage, graph, view, job, entries, parent, seen, found, analyses>>

\* The next hit goes to its handler.
TakeHit ==
    /\ pc = "carve"
    /\ carve.hit = Nothing
    /\ carve.hits # <<>>
    /\ LET hit == Head(carve.hits)
       IN  IF Covered(hit) \/ hit.sig \notin Handled
           THEN carve' = [carve EXCEPT !.hits = Tail(@)]
           ELSE carve' = [carve EXCEPT !.hits = Tail(@), !.hit = hit, !.left = hit.members]
    /\ UNCHANGED <<layout, storage, graph, view, pc, job, queue, entries, parent, seen, found, disk,
                   analyses>>

\* The handler writes one member after the other.
WriteMember ==
    /\ pc = "carve"
    /\ carve.left # <<>>
    /\ LET member == Head(carve.left)
           entry == [path |-> member.path, at |-> member.at, via |-> carve.hit.sig,
                     stage |-> carve.stage]
       IN  IF Refused(member)
           THEN carve' = [carve EXCEPT !.left = Tail(@)] /\ UNCHANGED disk
           ELSE /\ disk' = [disk EXCEPT ![carve.stage] = Written(@, member)]
                /\ carve' = [carve EXCEPT !.left = Tail(@), !.files = @ + 1,
                                          !.made = Append(@, entry)]
    /\ UNCHANGED <<layout, storage, graph, view, pc, job, queue, entries, parent, seen, found, analyses>>

\* The handler is done.  When it raises, what it wrote stays on disk and in the
\* budget, and nobody is told.
LeaveHit ==
    /\ pc = "carve"
    /\ carve.hit # Nothing
    /\ carve.left = <<>>
    /\ LET kept == ~carve.hit.raises /\ carve.made # <<>>
           last == LargestOf({carve.hit.at} \cup {e.at : e \in Range(carve.made)})
       IN  carve' = [carve EXCEPT
                !.hit = Nothing,
                !.made = <<>>,
                !.produced = IF kept THEN @ \o carve.made ELSE @,
                !.consumed = IF kept THEN @ \cup {<<carve.hit.at, last + 1>>} ELSE @]
    /\ UNCHANGED <<layout, storage, graph, view, pc, job, queue, entries, parent, seen, found, disk,
                   analyses>>

\* The hits become rows and the members wait to be ingested.
FinishUnpack ==
    /\ pc = "carve"
    /\ carve.hit = Nothing
    /\ carve.hits = <<>>
    /\ view' = [view EXCEPT !.hits = @ \cup
            {[file |-> carve.item.file, at |-> h.at, sig |-> h.sig] : h \in Range(layout[carve.bytes])}]
    /\ entries' = carve.produced
    /\ parent' = carve.item
    /\ found' = found \cup {carve.item.prefix \o e.path : e \in Range(carve.produced)}
    /\ carve' = Nothing
    /\ pc' = "entries"
    /\ UNCHANGED <<layout, storage, graph, job, queue, seen, disk, analyses>>

\* The path inside the container, which others may use too.
SeenAsMember(e) == e.path

\* The path that makes a member known.
SeenAs(e) == parent.prefix \o e.path

\* The next member: skipped when its path was seen in this analysis.
NextEntry ==
    /\ pc = "entries"
    /\ entries # <<>>
    /\ entries' = Tail(entries)
    /\ LET e == Head(entries)
           path == parent.prefix \o e.path
       IN  IF SeenAs(e) \in seen
           THEN UNCHANGED <<pc, job, seen>>
           ELSE /\ seen' = seen \cup {SeenAs(e)}
                /\ job' = [path |-> path, blob |-> disk[e.stage][e.path], entry |-> e]
                /\ pc' = "digest"
    /\ UNCHANGED <<layout, storage, graph, view, queue, carve, parent, found, disk, analyses>>

\* What every end of an analysis resets: locals, and the extraction directory.
Over ==
    /\ pc' = "idle"
    /\ job' = Nothing
    /\ queue' = <<>>
    /\ carve' = Nothing
    /\ entries' = <<>>
    /\ parent' = Nothing
    /\ seen' = {}
    /\ found' = {}
    /\ disk' = NoFiles

\* Nothing left to unpack: the run commits.
Finish ==
    /\ pc = "entries"
    /\ entries = <<>>
    /\ queue = <<>>
    /\ graph' = view
    /\ Over
    /\ UNCHANGED <<layout, storage, view, analyses>>

\* An exception anywhere (a full disk, Ctrl-C) or the end of the process:
\* the run rolls back, the blob store stays as it is.
Fail ==
    /\ pc # "idle"
    /\ view' = graph
    /\ Over
    /\ UNCHANGED <<layout, storage, graph, analyses>>

Next ==
    \/ \E image \in Images : StartAnalysis(image)
    \/ CopyBlob \/ ReplaceBlob \/ Record
    \/ StartUnpack \/ TakeHit \/ WriteMember \/ LeaveHit \/ FinishUnpack
    \/ NextEntry \/ Finish
    \/ Fail

\* An analysis is one thread that does not wait for anybody.
FairSpec ==
    /\ Init /\ [][Next]_vars
    /\ WF_vars(\/ CopyBlob \/ ReplaceBlob \/ Record
               \/ StartUnpack \/ TakeHit \/ WriteMember \/ LeaveHit \/ FinishUnpack \/ NextEntry \/ Finish)

-----------------------------------------------------------------------------
(* Safety *)

\* A file that is in the project has its bytes in the blob store, whatever
\* copy died earlier and left a .partial file (store_blob, resolve_bytes).
FilesHaveBytes == \A f \in view.files : f.blob \in blobs

\* A container is unpacked from the bytes that were recorded for it: no later
\* extraction has written over them while it waited in the queue, although
\* several extractions share a directory tree (the stage name in analyze).
UnpackedAsRecorded ==
    \A i \in DOMAIN queue : Bytes(queue[i]) = queue[i].file.blob

\* When an analysis commits, every path that an extraction handed out is the
\* path of a file in the project: members are skipped by path, so content may
\* be lost but never a name, however containers share names.
PathsAccountedFor ==
    [][graph' # graph =>
         \A p \in found : \E f \in graph'.files : f.path = p]_vars

-----------------------------------------------------------------------------
(* Liveness *)

\* An analysis comes to its end, even of an archive that contains itself.
AnalysesEnd == pc # "idle" ~> pc = "idle"

-----------------------------------------------------------------------------
(* What the documentation says and the code does not do *)

\* "Offset in the parent image the containing blob started at" (carver.py,
\* ExtractedEntry): the file was handed out by the hit its claim cites.
LocatedWhereFound ==
    \A c \in view.contains : \A h \in c.context :
        \E i \in DOMAIN layout[c.parent.blob] :
            /\ layout[c.parent.blob][i].at = h.at
            /\ \E j \in DOMAIN layout[c.parent.blob][i].members :
                    layout[c.parent.blob][i].members[j].blob = c.file.blob
=============================================================================
