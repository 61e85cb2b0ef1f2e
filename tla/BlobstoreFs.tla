----------------------------- MODULE BlobstoreFs -----------------------------
(***************************************************************************)
(* The filesystem blobstore provider (blobstore-fs/src/main.rs): chunked   *)
(* uploads through put_object and put_chunk, which both end in             *)
(* store_chunk, next to cancellation, object removal and container         *)
(* creation and removal.  Every handler is a task of its own on a          *)
(* multi-threaded executor; between two awaits of one task the others run. *)
(*                                                                         *)
(* tokio::fs::File is external.  AsyncWriteExt::write copies the bytes     *)
(* into a buffer, hands the buffer to the blocking pool and returns; the   *)
(* code never flushes, so the append reaches the file later (Land), and a  *)
(* failure of it is reported to nobody.                                    *)
(*                                                                         *)
(* A chunk is one unit long, so an offset counts chunks.                   *)
(***************************************************************************)
EXTENDS Integers, Sequences, FiniteSets

CONSTANTS
    Clients,      \* actor instances that upload
    Containers,
    Paths,        \* the objects, each <<actor>>/<<container>>/<<object>>
    HomeOf,       \* the container directory a path lies in
    TargetOf,     \* the object a client uploads; no two clients share one
    MaxChunks,    \* bound: chunks of one upload
    MaxAttempts   \* bound: put_object calls of one client

ASSUME FsAssumption ==
    /\ HomeOf \in [Paths -> Containers]
    /\ TargetOf \in [Clients -> Paths]
    /\ \A c, d \in Clients : TargetOf[c] = TargetOf[d] => c = d
    /\ MaxChunks \in Nat \ {0}
    /\ MaxAttempts \in Nat \ {0}

VARIABLES
    linked,         \* config: the actor's link is known (there is no delete_link)
    dirs,           \* container directories that exist
    removing,       \* containers in the middle of a remove_dir_all
    file,           \* path -> inode number (0: no such file) and content
    inodes,         \* inode numbers handed out so far
    upload_chunks,  \* path -> next expected offset of its stream id, or Missing
    writes,         \* appends handed to the blocking pool and not yet done
    tasks,          \* store_chunk calls in progress
    client,         \* what each uploading actor instance is doing
    disturbed       \* ghost: an append of this file was overtaken or lost, or
                    \* uploads of it overlap

fsvars == <<linked, dirs, removing, file, inodes, upload_chunks, writes, tasks,
            client, disturbed>>

Missing == -1
NoFile == [ino |-> 0, data |-> <<>>]
Bytes == [attempt : 1..MaxAttempts, offset : 0..(MaxChunks - 1), whole : BOOLEAN]

Task == [client : Clients, attempt : 1..MaxAttempts, offset : 0..(MaxChunks - 1),
         is_last : BOOLEAN, stream_id : BOOLEAN, again : BOOLEAN,
         pc : {"create", "insert", "check", "open", "write"}, ino : Nat]

Write == [path : Paths, ino : Nat, bytes : Bytes, again : BOOLEAN]

Client == [state : {"idle", "waiting", "ready", "stored", "failed", "timedout",
                    "cancelled"},
           attempt : 0..MaxAttempts, size : 1..MaxChunks, next : 0..MaxChunks,
           again : BOOLEAN,    \* the awaited request is a second sending
           late : BOOLEAN]     \* some put_object of this client has timed out

FsInit ==
    /\ linked = FALSE
    /\ dirs = {}
    /\ removing = {}
    /\ file = [p \in Paths |-> NoFile]
    /\ inodes = 0
    /\ upload_chunks = [p \in Paths |-> Missing]
    /\ writes = {}
    /\ tasks = {}
    /\ client = [c \in Clients |-> [state |-> "idle", attempt |-> 0, size |-> 1,
                                    next |-> 0, again |-> FALSE, late |-> FALSE]]
    /\ disturbed = [p \in Paths |-> FALSE]

-----------------------------------------------------------------------------
(* Replies.  A client looks only at the answer to the request it waits for. *)

Awaits(t) ==
    LET c == client[t.client] IN
    /\ c.state = "waiting"
    /\ c.attempt = t.attempt /\ c.next = t.offset /\ c.again = t.again

Answer(t, ok) ==
    client' = IF ~Awaits(t) THEN client
              ELSE [client EXCEPT
                     ![t.client].state = IF ~ok THEN "failed"
                                         ELSE IF t.is_last THEN "stored" ELSE "ready",
                     ![t.client].next = IF ok THEN @ + 1 ELSE @,
                     ![t.client].again = FALSE]

Goto(t, pc) == tasks' = (tasks \ {t}) \cup {[t EXCEPT !.pc = pc]}

\* An append to this very file is still in the blocking pool.
Unlanded(p) == \E w \in writes : w.path = p /\ w.ino = file[p].ino

\* t, or a handler still at work beside it, belongs to an upload given up.
Overlaps(t) == \/ t.attempt # client[t.client].attempt
               \/ \E u \in tasks \ {t} : u.client = t.client

-----------------------------------------------------------------------------
(* store_chunk, one step per await that lets others run. *)

\* Offset 0 creates the file, or truncates the one that is there.
CreateFile(t) ==
    LET p == TargetOf[t.client] IN
    /\ t.pc = "create"
    /\ \/ /\ HomeOf[p] \notin dirs
          /\ tasks' = tasks \ {t}
          /\ Answer(t, FALSE)
          /\ UNCHANGED <<file, inodes, disturbed>>
       \/ /\ HomeOf[p] \in dirs
          /\ inodes' = IF file[p] = NoFile THEN inodes + 1 ELSE inodes
          /\ file' = [file EXCEPT ![p] = [ino |-> IF @ = NoFile THEN inodes' ELSE @.ino,
                                          data |-> <<>>]]
          /\ disturbed' = [disturbed EXCEPT ![p] = Unlanded(p) \/ Overlaps(t)]
          /\ Goto(t, IF t.stream_id THEN "insert" ELSE "open")
          /\ UNCHANGED client
    /\ UNCHANGED <<linked, dirs, removing, upload_chunks, writes>>

InsertOffset(t) ==
    /\ t.pc = "insert"
    /\ upload_chunks' = [upload_chunks EXCEPT ![TargetOf[t.client]] = 0]
    /\ Goto(t, "check")
    /\ UNCHANGED <<linked, dirs, removing, file, inodes, writes, client, disturbed>>

MutCheckOffset(t) ==
    /\ t.pc = "check"
    /\ upload_chunks' = [upload_chunks EXCEPT
            ![TargetOf[t.client]] = IF t.is_last THEN 0 ELSE t.offset + 1]
    /\ Goto(t, "open")
    /\ UNCHANGED <<linked, dirs, removing, file, inodes, writes, client, disturbed>>

\* Under the write lock: compare with the expected offset and move it on.
\* An unknown stream id is an unwrap of None: the task ends without an answer.
CheckOffset(t) ==
    LET p == TargetOf[t.client] IN
    /\ t.pc = "check"
    /\ IF upload_chunks[p] = Missing
       THEN /\ tasks' = tasks \ {t}
            /\ UNCHANGED <<upload_chunks, client>>
       ELSE IF upload_chunks[p] # t.offset
       THEN /\ tasks' = tasks \ {t}
            /\ Answer(t, FALSE)
            /\ UNCHANGED upload_chunks
       ELSE /\ upload_chunks' = [upload_chunks EXCEPT
                    ![p] = IF t.is_last THEN 0 ELSE t.offset + 1]
            /\ Goto(t, "open")
            /\ UNCHANGED client
    /\ UNCHANGED <<linked, dirs, removing, file, inodes, writes, disturbed>>

MutOpenFile(t) ==
    LET p == TargetOf[t.client] IN
    /\ t.pc = "open"
    /\ HomeOf[p] \in dirs
    /\ inodes' = IF file[p] = NoFile THEN inodes + 1 ELSE inodes
    /\ file' = IF file[p] = NoFile
               THEN [file EXCEPT ![p] = [ino |-> inodes', data |-> <<>>]] ELSE file
    /\ tasks' = (tasks \ {t}) \cup {[t EXCEPT !.pc = "write", !.ino = file'[p].ino]}
    /\ disturbed' = [disturbed EXCEPT ![p] = @ \/ Unlanded(p)]
    /\ UNCHANGED <<linked, dirs, removing, upload_chunks, writes, client>>

\* create(false): a file that is gone stays gone.
OpenFile(t) ==
    LET p == TargetOf[t.client] IN
    /\ t.pc = "open"
    /\ \/ /\ file[p] = NoFile
          /\ tasks' = tasks \ {t}
          /\ Answer(t, FALSE)
          /\ UNCHANGED disturbed
       \/ /\ file[p] # NoFile
          /\ tasks' = (tasks \ {t})
                        \cup {[t EXCEPT !.pc = "write", !.ino = file[p].ino]}
          /\ disturbed' = [disturbed EXCEPT ![p] = @ \/ Unlanded(p)]
          /\ UNCHANGED client
    /\ UNCHANGED <<linked, dirs, removing, file, inodes, upload_chunks, writes>>

MutWriteChunk(t) ==
    /\ t.pc = "write"
    /\ \E whole \in BOOLEAN :
        writes' = writes \cup
             {[path |-> TargetOf[t.client], ino |-> t.ino, again |-> t.again,
               bytes |-> [attempt |-> t.attempt, offset |-> t.offset, whole |-> whole]]}
    /\ Answer(t, TRUE)
    /\ tasks' = tasks \ {t}
    /\ UNCHANGED <<linked, dirs, removing, file, inodes, upload_chunks, disturbed>>

\* The buffer takes the whole chunk, or only a part of it (an Err).
WriteChunk(t) ==
    /\ t.pc = "write"
    /\ \E whole \in BOOLEAN :
        /\ writes' = writes \cup
             {[path |-> TargetOf[t.client], ino |-> t.ino, again |-> t.again,
               bytes |-> [attempt |-> t.attempt, offset |-> t.offset, whole |-> whole]]}
        /\ Answer(t, whole)
    /\ tasks' = tasks \ {t}
    /\ UNCHANGED <<linked, dirs, removing, file, inodes, upload_chunks, disturbed>>

\* External (tokio's blocking pool): an append is done, or fails unnoticed.
\* An append to an unlinked inode is done and seen by nobody.
Land(w) ==
    /\ writes' = writes \ {w}
    /\ \E done \in BOOLEAN :
        IF file[w.path].ino # w.ino THEN UNCHANGED <<file, disturbed>>
        ELSE IF done
        THEN /\ file' = [file EXCEPT ![w.path].data = Append(@, w.bytes)]
             /\ UNCHANGED disturbed
        ELSE /\ disturbed' = [disturbed EXCEPT ![w.path] = TRUE]
             /\ UNCHANGED file
    /\ UNCHANGED <<linked, dirs, removing, inodes, upload_chunks, tasks, client>>

-----------------------------------------------------------------------------
(* Requests of the uploading actor instances. *)

\* An actor whose link is not known is refused; one that is has a directory of
\* its own below the root.
get_root == linked

Send(c, offset, again) ==
    tasks' = tasks \cup
      {[client |-> c, attempt |-> client'[c].attempt, offset |-> offset,
        is_last |-> offset + 1 = client'[c].size,
        stream_id |-> client'[c].size > 1, again |-> again, ino |-> 0,
        pc |-> IF offset = 0 THEN "create" ELSE "check"]}

\* A new upload, the retry after an error or a timeout included: requests of
\* the upload before it may still be at work, under the same stream id.
put_object(c) ==
    /\ client[c].state \in {"idle", "failed", "cancelled", "timedout"}
    /\ client[c].attempt < MaxAttempts
    /\ \E n \in 1..MaxChunks :
        IF get_root
        THEN /\ client' = [client EXCEPT
                    ![c] = [state |-> "waiting", attempt |-> @.attempt + 1, size |-> n,
                            next |-> 0, again |-> FALSE, late |-> @.late]]
             /\ Send(c, 0, FALSE)
        ELSE /\ client' = [client EXCEPT ![c].state = "failed"]
             /\ UNCHANGED tasks
    /\ UNCHANGED <<linked, dirs, removing, file, inodes, upload_chunks, writes,
                   disturbed>>

\* The next chunk, under the stream id that put_object returned.
put_chunk(c) ==
    /\ client[c].state = "ready"
    /\ client' = [client EXCEPT ![c].state = "waiting"]
    /\ Send(c, client[c].next, FALSE)
    /\ UNCHANGED <<linked, dirs, removing, file, inodes, upload_chunks, writes,
                   disturbed>>

\* The same chunk again, after its first sending timed out.
put_chunk_again(c) ==
    /\ client[c].state = "timedout" /\ client[c].next > 0 /\ ~client[c].again
    /\ client' = [client EXCEPT ![c].state = "waiting", ![c].again = TRUE]
    /\ Send(c, client[c].next, TRUE)
    /\ UNCHANGED <<linked, dirs, removing, file, inodes, upload_chunks, writes,
                   disturbed>>

RpcTimeout(c) ==
    /\ client[c].state = "waiting"
    /\ client' = [client EXCEPT ![c].state = "timedout",
                                 ![c].late = @ \/ client[c].next = 0]
    /\ UNCHANGED <<linked, dirs, removing, file, inodes, upload_chunks, writes, tasks,
                   disturbed>>

\* put_chunk with cancel_and_remove: only the file goes, the expected offset
\* of the stream id stays in upload_chunks.
cancel_and_remove(c) ==
    /\ client[c].state \in {"ready", "failed", "timedout"}
    /\ get_root
    /\ IF file[TargetOf[c]] = NoFile
       THEN /\ client' = [client EXCEPT ![c].state = "failed"]
            /\ UNCHANGED file
       ELSE /\ file' = [file EXCEPT ![TargetOf[c]] = NoFile]
            /\ client' = [client EXCEPT ![c].state = "cancelled"]
    /\ UNCHANGED <<linked, dirs, removing, inodes, upload_chunks, writes, tasks,
                   disturbed>>

-----------------------------------------------------------------------------
(* Requests of other instances, and the host's link message. *)

put_link ==
    /\ ~linked
    /\ linked' = TRUE
    /\ UNCHANGED <<dirs, removing, file, inodes, upload_chunks, writes, tasks, client,
                   disturbed>>

create_container(k) ==
    /\ get_root
    /\ dirs' = dirs \cup {k}
    /\ UNCHANGED <<linked, removing, file, inodes, upload_chunks, writes, tasks,
                   client, disturbed>>

remove_objects(p) ==
    /\ get_root /\ file[p] # NoFile
    /\ file' = [file EXCEPT ![p] = NoFile]
    /\ UNCHANGED <<linked, dirs, removing, inodes, upload_chunks, writes, tasks,
                   client, disturbed>>

\* remove_dir_all unlinks the entries it finds ...
remove_containers(k) ==
    /\ get_root /\ k \in dirs
    /\ file' = [p \in Paths |-> IF HomeOf[p] = k THEN NoFile ELSE file[p]]
    /\ removing' = removing \cup {k}
    /\ UNCHANGED <<linked, dirs, inodes, upload_chunks, writes, tasks, client,
                   disturbed>>

\* ... and then the directory, which fails if a file has appeared meanwhile.
RemoveDir(k) ==
    /\ k \in removing
    /\ removing' = removing \ {k}
    /\ dirs' = IF \E p \in Paths : HomeOf[p] = k /\ file[p] # NoFile
               THEN dirs ELSE dirs \ {k}
    /\ UNCHANGED <<linked, file, inodes, upload_chunks, writes, tasks, client,
                   disturbed>>

-----------------------------------------------------------------------------
(* get_object: no state changes, the file is read as it is at one moment.    *)
(* A range is [start, end], with Missing where the request has none.         *)

Panic == [bytes |-> <<>>, offset |-> Missing, is_last |-> FALSE]

MutGetObject(data, range) ==
    LET start == IF range.start = Missing THEN 0 ELSE range.start
        end == IF range.end = Missing \/ range.end > Len(data) THEN Len(data) ELSE range.end
    IN IF start > end THEN Panic
       ELSE [bytes |-> SubSeq(data, start + 1, end), offset |-> start,
             is_last |-> end >= Len(data)]

\* The slice panics if it ends before it starts: the actor gets no answer.
get_object(data, range) ==
    LET start == IF range.start = Missing THEN 0 ELSE range.start
        end == IF range.end = Missing \/ range.end + 1 > Len(data) THEN Len(data)
               ELSE range.end + 1
    IN IF start > end THEN Panic
       ELSE [bytes |-> SubSeq(data, start + 1, end), offset |-> start,
             is_last |-> end >= Len(data)]

-----------------------------------------------------------------------------
Step(t) == CreateFile(t) \/ InsertOffset(t) \/ CheckOffset(t) \/ OpenFile(t)
             \/ WriteChunk(t)

FsNext ==
    \/ put_link
    \/ \E t \in tasks : Step(t)
    \/ \E w \in writes : Land(w)
    \/ \E c \in Clients : \/ put_object(c) \/ put_chunk(c) \/ put_chunk_again(c)
                          \/ RpcTimeout(c) \/ cancel_and_remove(c)
    \/ \E k \in Containers : create_container(k) \/ remove_containers(k) \/ RemoveDir(k)
    \/ \E p \in Paths : remove_objects(p)

\* The executor runs every spawned handler and the pool every write handed to
\* it; nothing makes an actor send.
FsFairness == /\ \A c \in Clients : WF_fsvars(\E t \in tasks : t.client = c /\ Step(t))
              /\ WF_fsvars(\E w \in writes : Land(w))

FsSpec == FsInit /\ [][FsNext]_fsvars /\ FsFairness

-----------------------------------------------------------------------------
(* Properties *)

\* Type invariant.  The offset kept for a stream never passes the last chunk:
\* is_last puts it back to 0 (main.rs 197-202).
FsTypeOK ==
    /\ linked \in BOOLEAN
    /\ dirs \subseteq Containers /\ removing \subseteq Containers
    /\ file \in [Paths -> [ino : Nat, data : Seq(Bytes)]]
    /\ inodes \in Nat
    /\ upload_chunks \in [Paths -> {Missing} \cup 0..(MaxChunks - 1)]
    /\ writes \subseteq Write
    /\ tasks \subseteq Task
    /\ client \in [Clients -> Client]
    /\ disturbed \in [Paths -> BOOLEAN]

\* The content is the chunks 0, 1, 2, ... of one upload, whole but for the last.
Ordered(data) ==
    \A i \in 1..Len(data) : /\ data[i].offset = i - 1
                            /\ data[i].attempt = data[1].attempt
                            /\ i < Len(data) => data[i].whole

\* "Stores a file chunk in right order" (main.rs 151), said of the file itself
\* and whatever the interleaving of handlers and of the blocking pool.
ChunksInOrder == \A p \in Paths : Ordered(file[p].data)

\* The same as long as no append was overtaken by a later open of the file or
\* lost by the disk and no upload began while handlers of an earlier one were
\* at work: then late handlers, resent chunks, short writes and removals never
\* put a chunk out of place, twice, or after a gap.
InOrderUnlessDisturbed ==
    FsTypeOK /\ \A p \in Paths : disturbed[p] \/ Ordered(file[p].data)

WholeOnDisk(c) ==
    LET data == file[TargetOf[c]].data IN
    /\ Len(data) = client[c].size
    /\ \A i \in 1..Len(data) : data[i].whole /\ data[i].attempt = client[c].attempt

\* An actor told that its last chunk is stored has its whole object in the
\* file, or in the file and one append still to land, unless somebody removed
\* the object or the disk got in the way.
AckedIsWhole ==
    \A c \in Clients :
        LET p == TargetOf[c] IN
        client[c].state = "stored"
          => file[p] = NoFile \/ disturbed[p] \/ Unlanded(p) \/ WholeOnDisk(c)

\* cancel_and_remove answered Ok: a chunk that was still on its way does not
\* bring the object back (create(false), main.rs 209), unless a put_object of
\* the same instance has timed out and may itself be the late request.
CancelSticks ==
    \A c \in Clients :
        client[c].state = "cancelled" /\ ~client[c].late
          => file[TargetOf[c]] = NoFile

Ranges == [start : {Missing} \cup 0..(MaxChunks + 1), end : {Missing} \cup 0..(MaxChunks + 1)]

InRange(i, range) == (range.start = Missing \/ range.start <= i - 1)
                       /\ (range.end = Missing \/ i - 1 <= range.end)

\* Whatever has been uploaded, a request is answered with exactly the bytes of
\* its range that there are, and is_last says whether any follow; it is not
\* answered at all only if it starts behind its own end or that of the object
\* (main.rs 647-677).  The parts of a split range add up to the whole.
RangeServed ==
    \A p \in {q \in Paths : file[q] # NoFile}, range \in Ranges :
        LET data == file[p].data
            chunk == get_object(data, range)
            wanted == {i \in DOMAIN data : InRange(i, range)}
        IN IF chunk = Panic
           THEN wanted = {} /\ range.start > 0
           ELSE /\ Len(chunk.bytes) = Cardinality(wanted)
                /\ \A j \in DOMAIN chunk.bytes : /\ chunk.offset + j \in wanted
                                                 /\ chunk.bytes[j] = data[chunk.offset + j]
                /\ chunk.is_last <=> \A i \in DOMAIN data : i > chunk.offset => i \in wanted
                /\ \A n \in 1..MaxChunks :
                     range = [start |-> Missing, end |-> Missing] /\ n <= Len(data) =>
                         chunk.bytes = get_object(data, [range EXCEPT !.end = n - 1]).bytes
                                    \o get_object(data, [range EXCEPT !.start = n]).bytes

\* What was acknowledged ends up on the disk.
AckedLands ==
    \A c \in Clients :
        client[c].state = "stored"
          ~> \/ file[TargetOf[c]] = NoFile \/ disturbed[TargetOf[c]]
             \/ WholeOnDisk(c)
=============================================================================
