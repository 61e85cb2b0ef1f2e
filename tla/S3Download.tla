----------------------------- MODULE S3Download -----------------------------
(***************************************************************************)
(* get_object of the S3 blobstore provider (blobstore-s3/src/lib.rs): the  *)
(* metadata is read first and gives the number of bytes requested, then    *)
(* the object itself; the first piece of the body goes into the answer,    *)
(* and a spawned task sends what is left to the actor in chunks, at the    *)
(* same time as the answer travels.  Other actors put and remove objects   *)
(* meanwhile.  The name of the container goes through the aliases of the   *)
(* link before every request, also where a caller has done so already.     *)
(*                                                                         *)
(* External: S3 serves one version of the object per GET, only the bytes   *)
(* of the Range header, in pieces of any size; a start past the end is an  *)
(* error.  The n-th byte of an object stands for its content.  object and  *)
(* bucket are those the GET asks for; of other buckets nothing is known.   *)
(***************************************************************************)
EXTENDS Integers, Sequences, FiniteSetsExt

CONSTANTS
    MaxLen,         \* bound: length of an object
    max_chunk_size,
    MaxVersions,    \* bound: put_object and remove_objects calls
    LinkValues,     \* the aliases link definitions come with
    Names           \* the names actors use for the container

VARIABLES
    linked,    \* actors: the aliases of the downloading actor's StorageClient ({}: none)
    container, \* container_id of the request
    aliases,   \* those of the client the handler has cloned
    bucket,    \* the container exists
    object,    \* the stored object: its length (0: there is none) and version
    pc,        \* the get_object handler
    range,     \* range_start and range_end of the request, None if absent
    meta,      \* what head_object said
    answer,    \* the GetObjectResponse: content_length and initial chunk
    body,      \* the ByteStream: bytes left, the object offset of the next, version
    task,      \* the spawned stream_from_s3
    streamed   \* chunks the actor has received from the task

vars == <<linked, container, aliases, bucket, object, pc, range, meta, answer, body, task, streamed>>

None == -1
Bound == {None} \cup 0..MaxLen
Name == [prefixed : BOOLEAN, base : STRING]

\* Names and aliases are strings, whatever the link values are.
ASSUME S3Assumption ==
    /\ MaxLen \in Nat \ {0} /\ max_chunk_size \in Nat \ {0} /\ MaxVersions \in Nat
    /\ Names \subseteq Name
    /\ \A v \in LinkValues : /\ \A k \in DOMAIN v.document : v.document[k] \in Name
                            /\ \A k \in DOMAIN v.keys : v.keys[k] \in Name

Object == [len : 0..MaxLen, version : 0..MaxVersions]
Chunk == [offset : Nat, len : 0..MaxLen, from : Nat, version : 0..MaxVersions,
          is_last : BOOLEAN, container : Name]
NoChunk == [offset |-> 0, len |-> 0, from |-> 0, version |-> 0, is_last |-> FALSE,
            container |-> container]
NoTask == [state |-> "none", offset |-> 0, end_range |-> 0, bytes |-> 0, sent |-> 0]

Init ==
    /\ linked = {}
    /\ container \in Names
    /\ aliases = [k \in {} |-> container]
    /\ bucket \in BOOLEAN
    /\ object \in {[len |-> n, version |-> 0] : n \in IF bucket THEN 0..MaxLen ELSE {0}}
    /\ pc = "start"
    /\ range \in [start : Bound, end : Bound]
    /\ meta = [len |-> 0, version |-> 0, bucket |-> container]
    /\ answer = [content_length |-> 0, chunk |-> NoChunk]
    /\ body = [left |-> 0, from |-> 0, version |-> 0]
    /\ task = NoTask
    /\ streamed = <<>>

-----------------------------------------------------------------------------
(* Aliases.  A name is what follows the prefix alias_, and whether that is   *)
(* there; the aliases map such a name to another.                            *)

Plain(base) == [prefixed |-> FALSE, base |-> base]

\* The aliases of the document, and the keys of the link definition over them,
\* but for empty ones.
new(v) ==
    LET valid == {k \in DOMAIN v.keys : k # "" /\ v.keys[k] # Plain("")}
    IN [k \in DOMAIN v.document \cup valid |->
          IF k \in valid THEN v.keys[k] ELSE v.document[k]]

\* The prefix is not required, and goes where there is no such alias.
unalias(al, name) == IF name.base \in DOMAIN al THEN al[name.base] ELSE Plain(name.base)

\* Every alias leads to a name that is no alias.
NoChains(al) == \A k \in DOMAIN al : unalias(al, al[k]) = al[k]

-----------------------------------------------------------------------------
(* The arithmetic of get_object. *)

Start == IF range.start = None THEN 0 ELSE range.start

bytes_requested(len) ==
    LET s == range.start
        e == range.end
    IN  CASE s = None /\ e = None -> len
          [] s = None /\ e # None -> Min({len, e + 1})
          [] s # None /\ e = None /\ s < len -> len - s
          [] s # None /\ e # None /\ s <= e /\ s < len -> Min({len, e - s + 1})
          [] OTHER -> 0

\* to_range_header and what S3 makes of it: the first and the last byte served.
to_range_header(len) ==
    IF range.start # None /\ range.end # None /\ range.start > range.end
    THEN [first |-> 0, last |-> len - 1]
    ELSE [first |-> Start,
          last |-> IF range.end = None THEN len - 1 ELSE Min({len - 1, range.end})]

-----------------------------------------------------------------------------
(* get_object. *)

\* The handler clones the client of the link; delete_link does not reach it.
\* The name is looked up here and again by get_object_metadata.
get_object_metadata ==
    /\ pc = "start"
    /\ \/ \E al \in linked :
            LET once == unalias(al, container)
                twice == unalias(al, once)
            IN /\ aliases' = al
               /\ \/ /\ once = twice /\ object.len > 0
                     /\ meta' = [len |-> object.len, version |-> object.version,
                                 bucket |-> twice]
                  \/ /\ once # twice
                     /\ \E n \in 1..MaxLen :
                          meta' = [len |-> n, version |-> MaxVersions + 1, bucket |-> twice]
               /\ pc' = "get"
       \/ \* not linked, not found, not readable, or the service fails
          /\ pc' = "failed"
          /\ UNCHANGED <<meta, aliases>>
    /\ UNCHANGED <<linked, container, bucket, object, range, answer, body, task, streamed>>

\* The bucket get_object asks for, and the name on the chunks of the task:
\* stream_from_s3, stream_bytes and send_chunk look it up once more each.
Requested == unalias(aliases, container)
Streamed == unalias(aliases, unalias(aliases, unalias(aliases, Requested)))

Initial(n) == [offset |-> Start, len |-> n, from |-> to_range_header(object.len).first,
               version |-> object.version, is_last |-> n >= bytes_requested(meta.len),
               container |-> Requested]

MutFirstPiece(n) ==
    LET requested == bytes_requested(meta.len)
        first == Min({n, max_chunk_size})
        offset == first
    IN  /\ answer' = [content_length |-> requested, chunk |-> Initial(first)]
        /\ task' = IF n < requested \/ n > max_chunk_size
                   THEN [state |-> "running", offset |-> offset, sent |-> 0,
                         end_range |-> offset + requested, bytes |-> n - first]
                   ELSE NoTask

MutExclusiveEnd(n) ==
    LET requested == bytes_requested(meta.len)
        first == Min({n, max_chunk_size})
        offset == Start + first
    IN  /\ answer' = [content_length |-> requested, chunk |-> Initial(first)]
        /\ task' = IF n < requested \/ n > max_chunk_size
                   THEN [state |-> "running", offset |-> offset, sent |-> 0,
                         end_range |-> requested - 1, bytes |-> n - first]
                   ELSE NoTask

MutFlagBeforeSplit(n) ==
    LET requested == bytes_requested(meta.len)
        first == Min({n, max_chunk_size})
        offset == Start + first
    IN  /\ answer' = [content_length |-> requested,
                      chunk |-> [Initial(first) EXCEPT !.is_last = n >= requested]]
        /\ task' = IF n < requested \/ n > max_chunk_size
                   THEN [state |-> "running", offset |-> offset, sent |-> 0,
                         end_range |-> offset + requested, bytes |-> n - first]
                   ELSE NoTask

\* What becomes of a first piece of n bytes: the answer, and the task that
\* gets the excess over max_chunk_size, if there is more to come.
FirstPiece(n) ==
    LET requested == bytes_requested(meta.len)
        first == Min({n, max_chunk_size})
        offset == Start + first
    IN  /\ answer' = [content_length |-> requested, chunk |-> Initial(first)]
        /\ task' = IF n < requested \/ n > max_chunk_size
                   THEN [state |-> "running", offset |-> offset, sent |-> 0,
                         end_range |-> offset + requested, bytes |-> n - first]
                   ELSE NoTask

\* Nothing to get: an empty chunk, the last one.
get_nothing ==
    /\ pc = "get" /\ bytes_requested(meta.len) = 0
    /\ answer' = [content_length |-> 0, chunk |-> [NoChunk EXCEPT !.is_last = TRUE,
                                                          !.container = Requested]]
    /\ pc' = "answered"
    /\ UNCHANGED <<linked, container, aliases, bucket, object, range, meta, body, task, streamed>>

\* The object as it is NOW is requested, and the first piece of it awaited.
get_object ==
    /\ pc = "get" /\ bytes_requested(meta.len) > 0
    /\ LET served == to_range_header(object.len) IN
       \/ \E n \in 1..(served.last - served.first + 1) :
            /\ FirstPiece(n)
            /\ body' = [left |-> served.last - served.first + 1 - n,
                        from |-> served.first + n, version |-> object.version]
            /\ pc' = "answering"
       \/ \* the object is gone or too short now, or the service fails
          /\ pc' = "failed"
          /\ UNCHANGED <<answer, body, task>>
    /\ UNCHANGED <<linked, container, aliases, bucket, object, range, meta, streamed>>

\* The answer reaches the actor; the task does not wait for it.
respond ==
    /\ pc = "answering"
    /\ pc' = "answered"
    /\ UNCHANGED <<linked, container, aliases, bucket, object, range, meta, answer, body, task, streamed>>

-----------------------------------------------------------------------------
(* stream_from_s3 and stream_bytes. *)

\* The flag of a chunk: it looks at the offset of the piece, not of the chunk.
is_last(len) == task.offset + len > task.end_range

\* One chunk of the piece at hand is sent; the task ends if the actor fails.
send_chunk ==
    LET len == Min({max_chunk_size, task.bytes - task.sent})
        chunk == [offset |-> task.offset + task.sent, len |-> len,
                  from |-> body.from - (task.bytes - task.sent), version |-> body.version,
                  is_last |-> is_last(len), container |-> Streamed]
    IN  /\ task.state = "running" /\ task.sent < task.bytes
        /\ \/ /\ streamed' = Append(streamed, chunk)
              /\ task' = [task EXCEPT !.sent = @ + len]
           \/ /\ task' = [task EXCEPT !.state = "failed"]
              /\ UNCHANGED streamed
        /\ UNCHANGED <<linked, container, aliases, bucket, object, pc, range, meta, answer, body>>

MutNoStreamEnd ==
    LET offset == task.offset + task.bytes IN
    /\ task.state = "running" /\ task.sent = task.bytes
    /\ \/ /\ task.bytes > 0 /\ offset > task.end_range
          /\ task' = [task EXCEPT !.state = "done"]
          /\ UNCHANGED body
       \/ /\ body.left > 0
          /\ \E n \in 1..body.left :
               /\ task' = [task EXCEPT !.offset = offset, !.bytes = n, !.sent = 0]
               /\ body' = [body EXCEPT !.left = @ - n, !.from = @ + n]
    /\ UNCHANGED <<linked, container, aliases, bucket, object, pc, range, meta, answer, streamed>>

\* The piece is sent: past end_range the task is done, else the next piece.
next_piece ==
    LET offset == task.offset + task.bytes IN
    /\ task.state = "running" /\ task.sent = task.bytes
    /\ \/ /\ task.bytes > 0 /\ offset > task.end_range
          /\ task' = [task EXCEPT !.state = "done"]
          /\ UNCHANGED body
       \/ /\ ~(task.bytes > 0 /\ offset > task.end_range) /\ body.left > 0
          /\ \E n \in 1..body.left :
               /\ task' = [task EXCEPT !.offset = offset, !.bytes = n, !.sent = 0]
               /\ body' = [body EXCEPT !.left = @ - n, !.from = @ + n]
       \/ /\ ~(task.bytes > 0 /\ offset > task.end_range) /\ body.left = 0
          /\ task' = [task EXCEPT !.state = "done"]
          /\ UNCHANGED body
       \/ \* the stream yields an error or an empty piece: the loop ends
          \* and nobody is told
          /\ body.left > 0
          /\ task' = [task EXCEPT !.state = "failed"]
          /\ UNCHANGED body
    /\ UNCHANGED <<linked, container, aliases, bucket, object, pc, range, meta, answer, streamed>>

-----------------------------------------------------------------------------
(* The link of the downloading actor. *)

\* A configuration that does not parse leaves the map as it was.
put_link(v) ==
    /\ linked' = {new(v)}
    /\ UNCHANGED <<container, aliases, bucket, object, pc, range, meta, answer, body, task, streamed>>

\* delete_link and shutdown: close has nothing to do.
delete_link ==
    /\ linked # {}
    /\ linked' = {}
    /\ UNCHANGED <<container, aliases, bucket, object, pc, range, meta, answer, body, task, streamed>>

-----------------------------------------------------------------------------
(* Other actors. *)

\* A bucket that exists is left alone.
create_container ==
    /\ ~bucket
    /\ bucket' = TRUE
    /\ UNCHANGED <<linked, container, aliases, object, pc, range, meta, answer, body, task, streamed>>

\* S3 deletes only an empty bucket; otherwise the error goes into the result.
remove_containers ==
    /\ bucket /\ object.len = 0
    /\ bucket' = FALSE
    /\ UNCHANGED <<linked, container, aliases, object, pc, range, meta, answer, body, task, streamed>>

\* Multipart uploads and empty objects are refused.
put_object(n) ==
    /\ object.version < MaxVersions /\ n > 0 /\ bucket
    /\ object' = [len |-> n, version |-> object.version + 1]
    /\ UNCHANGED <<linked, container, aliases, bucket, pc, range, meta, answer, body, task, streamed>>

remove_objects ==
    /\ object.version < MaxVersions /\ object.len > 0
    /\ object' = [len |-> 0, version |-> object.version + 1]
    /\ UNCHANGED <<linked, container, aliases, bucket, pc, range, meta, answer, body, task, streamed>>

-----------------------------------------------------------------------------
Next ==
    \/ get_object_metadata \/ get_nothing \/ get_object \/ respond
    \/ send_chunk \/ next_piece
    \/ \E n \in 1..MaxLen : put_object(n)
    \/ remove_objects
    \/ \E v \in LinkValues : put_link(v)
    \/ delete_link \/ create_container \/ remove_containers

Fairness == WF_vars(respond) /\ WF_vars(send_chunk) /\ WF_vars(next_piece)

Spec == Init /\ [][Next]_vars /\ Fairness

-----------------------------------------------------------------------------
(* Properties *)

Chunks == IF pc \in {"answering", "answered"} THEN <<answer.chunk>> \o streamed
          ELSE streamed

\* The bytes from the first chunk to the end of the last: there is no gap
\* between chunks (ChunksMatchObject), so this is the sum of their lengths.
Total == LET final == Chunks[Len(Chunks)]
         IN final.offset + final.len - Chunks[1].offset

\* Type invariant.
TypeOK ==
    /\ linked \subseteq {new(v) : v \in LinkValues} /\ bucket \in BOOLEAN
    /\ object \in Object
    /\ meta \in [len : 0..MaxLen, version : 0..MaxVersions + 1, bucket : Name]
    /\ pc \in {"start", "get", "answering", "answered", "failed"}
    /\ range \in [start : Bound, end : Bound]
    /\ answer \in [content_length : 0..MaxLen, chunk : Chunk]
    /\ body \in [left : 0..MaxLen, from : 0..MaxLen, version : 0..MaxVersions]
    /\ task \in [state : {"none", "running", "done", "failed"}, offset : Nat,
                 end_range : Nat, bytes : 0..MaxLen, sent : 0..MaxLen]
    /\ streamed \in Seq(Chunk)

\* Whatever the range, the sizes of the pieces and the chunk size, the chunks
\* follow each other without a gap, say the offset their bytes really have in
\* the object, and are of one version of it, also when it is replaced while it
\* is being read.  They bear the name of the bucket they are from, which is the
\* one the metadata is from, as long as no alias leads to another alias.
ChunksMatchObject ==
    /\ TypeOK
    /\ NoChains(aliases) =>
         /\ pc \in {"get", "answering", "answered"} => meta.bucket = Requested
         /\ \A i \in DOMAIN Chunks : Chunks[i].container = Requested
    /\ \A i \in DOMAIN Chunks :
         /\ Chunks[i].len > 0 => Chunks[i].offset = Chunks[i].from
         /\ i > 1 => /\ Chunks[i].offset = Chunks[i-1].offset + Chunks[i-1].len
                     /\ Chunks[i].version = Chunks[1].version

\* The object was not replaced between the head and the get request.
SameVersion == meta.version = body.version

\* A task that ends without an error has sent the rest of the body: the check
\* against end_range never cuts a download short, if the object was not
\* replaced by a longer one after its metadata was read.  And the bytes that
\* come add up to the content_length of the answer, unless the range starts
\* inside the object and ends behind it (bytes_requested then counts from the
\* start of the object).
DoneIsWhole ==
    /\ task.state = "done" /\ SameVersion => body.left = 0
    /\ /\ pc = "answered" /\ task.state \in {"none", "done"} /\ SameVersion
       /\ ~(range.start > 0 /\ range.end >= meta.len)
       => Total = answer.content_length

\* An initial chunk flagged as the last one is not followed by others, if the
\* object was not replaced between the two requests.
LastIsLast ==
    pc \in {"answering", "answered"} /\ answer.chunk.is_last /\ SameVersion
      => task.state = "none"

\* The spawned task comes to an end.
StreamEnds == task.state = "running" ~> task.state # "running"
=============================================================================
