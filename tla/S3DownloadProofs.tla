-------------------------- MODULE S3DownloadProofs --------------------------
(* For every length of objects and chunks, every range, every way S3 cuts a  *)
(* body into pieces and any number of replacements: that the chunks of       *)
(* S3Download are the bytes that were asked for.                             *)
EXTENDS S3Download, SequenceTheorems, TLAPS

Named(al) == \A k \in DOMAIN al : al[k] \in Name

\* The names the handler works with are names.
NamesOK == container \in Name /\ Named(aliases) /\ \A al \in linked : Named(al)

Started == pc \in {"answering", "answered"}

\* Without a task nothing is streamed, and the task comes with the answer.
TaskStarts == /\ ~Started => task.state = "none"
              /\ task.state = "none" => streamed = <<>>

\* The metadata of the version that is still there gives its length.
MetaAgrees ==
    pc = "get" /\ meta.version <= MaxVersions =>
        /\ meta.version <= object.version
        /\ meta.version = object.version => meta.len = object.len

\* The bucket of the metadata is looked up twice.
BucketAgrees ==
    pc \in {"get", "answering", "answered"} => meta.bucket = unalias(aliases, Requested)

\* The answer has the first chunk, and all of it when there is no task.
AnswerAgrees ==
    Started =>
        /\ answer.chunk.len > 0 => answer.chunk.offset = answer.chunk.from
        /\ answer.chunk.container = Requested
        /\ task.state = "none" /\ SameVersion => answer.chunk.len = answer.content_length
        /\ task.state # "none" => answer.chunk.offset = Start

\* The chunks of the task are contiguous and say what they are.
StreamAgrees ==
    \A i \in DOMAIN streamed :
        /\ streamed[i].offset = streamed[i].from
        /\ streamed[i].version = answer.chunk.version
        /\ streamed[i].container = Streamed
        /\ streamed[i].offset = IF i = 1 THEN answer.chunk.offset + answer.chunk.len
                                ELSE streamed[i-1].offset + streamed[i-1].len

\* Where the chunks so far end.
EndOf(first, rest) == IF rest = <<>> THEN first.offset + first.len
                      ELSE rest[Len(rest)].offset + rest[Len(rest)].len

\* The range starts inside the object and ends behind it.
Overlong == range.start > 0 /\ range.end >= meta.len

\* The task stands where the chunks end, the body at the end of the piece the
\* task has, and end_range is not before the end of the body.
TaskAgrees ==
    task.state # "none" =>
        /\ body.version = answer.chunk.version
        /\ body.from = task.offset + task.bytes /\ task.sent <= task.bytes
        /\ EndOf(answer.chunk, streamed) = task.offset + task.sent
        /\ body.from + body.left <= MaxLen
        /\ SameVersion => body.from + body.left <= task.end_range
        /\ SameVersion /\ ~Overlong => body.from + body.left = Start + answer.content_length
        /\ task.state = "done" => task.sent = task.bytes /\ (SameVersion => body.left = 0)

\* The inductive invariant.
IInv == /\ TypeOK /\ NamesOK /\ TaskStarts /\ MetaAgrees /\ BucketAgrees /\ AnswerAgrees
        /\ StreamAgrees /\ TaskAgrees /\ LastIsLast

-----------------------------------------------------------------------------
(* The operators. *)

\* The smaller of two numbers.
LEMMA MinOfTwo ==
    ASSUME NEW a \in Int, NEW b \in Int
    PROVE  Min({a, b}) = IF a <= b THEN a ELSE b
  <1> DEFINE m == IF a <= b THEN a ELSE b
  <1>1. m \in {a, b} /\ \A y \in {a, b} : m <= y
    OBVIOUS
  <1>2. \A x \in {a, b} : (\A y \in {a, b} : x <= y) => x = m
    OBVIOUS
  <1> HIDE DEF m
  <1>3. Min({a, b}) = m
    BY <1>1, <1>2 DEF Min
  <1> QED BY <1>3 DEF m

\* unalias gives a name.
LEMMA UnaliasName ==
    ASSUME NEW al, Named(al), NEW name \in Name
    PROVE  unalias(al, name) \in Name
  BY DEF Named, unalias, Plain, Name

\* Where no alias leads to an alias, looking a name up again changes nothing.
LEMMA UnaliasOnce ==
    ASSUME NEW al, NoChains(al), NEW name
    PROVE  unalias(al, unalias(al, name)) = unalias(al, name)
  <1>1. CASE name.base \in DOMAIN al
    BY <1>1 DEF unalias, NoChains
  <1>2. CASE name.base \notin DOMAIN al
    <2>1. unalias(al, name) = Plain(name.base) /\ Plain(name.base).base = name.base
      BY <1>2 DEF unalias, Plain
    <2> QED BY <1>2, <2>1 DEF unalias
  <1> QED BY <1>1, <1>2

\* The aliases of a link definition are names.
LEMMA NewNamed ==
    ASSUME NEW v \in LinkValues
    PROVE  Named(new(v))
  BY S3Assumption DEF new, Named

\* The start of the range.
LEMMA StartNat ==
    ASSUME range \in [start : Bound, end : Bound]
    PROVE  /\ Start \in 0..MaxLen /\ range.start \in Int /\ range.end \in Int
           /\ range.start # None => range.start \in Nat
           /\ range.end # None => range.end \in Nat
  BY S3Assumption DEF Start, Bound, None

\* No more is requested than there is.
LEMMA RequestedType ==
    ASSUME range \in [start : Bound, end : Bound], NEW len \in 0..MaxLen
    PROVE  bytes_requested(len) \in 0..MaxLen
  <1> DEFINE s == range.start
             e == range.end
  <1>1. s \in Int /\ e \in Int /\ (s # None => s \in Nat) /\ (e # None => e \in Nat)
    BY StartNat
  <1>2. len \in Int /\ len \in Nat /\ len <= MaxLen /\ MaxLen \in Nat
    BY S3Assumption
  <1>3. /\ Min({len, e + 1}) = IF len <= e + 1 THEN len ELSE e + 1
        /\ Min({len, e - s + 1}) = IF len <= e - s + 1 THEN len ELSE e - s + 1
    BY <1>1, <1>2, MinOfTwo
  <1>4. CASE s = None /\ e = None
    BY <1>2, <1>4 DEF bytes_requested
  <1>5. CASE s = None /\ e # None
    BY <1>1, <1>2, <1>3, <1>5 DEF bytes_requested
  <1>6. CASE s # None /\ e = None
    BY <1>1, <1>2, <1>6 DEF bytes_requested
  <1>7. CASE s # None /\ e # None
    BY <1>1, <1>2, <1>3, <1>7 DEF bytes_requested
  <1> QED BY <1>4, <1>5, <1>6, <1>7

\* What S3 serves when something was requested: from the start of the range,
\* within the object, not more than was requested of an object of that length,
\* and all of it unless the range reaches over its end.
LEMMA ServedRange ==
    ASSUME range \in [start : Bound, end : Bound], NEW m \in 0..MaxLen, NEW len \in 0..MaxLen,
           bytes_requested(m) > 0
    PROVE  /\ to_range_header(len).first = Start /\ to_range_header(len).last \in Int
           /\ to_range_header(len).last <= len - 1
           /\ m = len => to_range_header(len).last - Start + 1 <= bytes_requested(m)
           /\ m = len /\ ~(range.start > 0 /\ range.end >= m) =>
                to_range_header(len).last - Start + 1 = bytes_requested(m)
  <1> DEFINE s == range.start
             e == range.end
  <1>1. s \in Int /\ e \in Int /\ (s # None => s \in Nat) /\ (e # None => e \in Nat)
    BY StartNat
  <1>2. len \in Nat /\ m \in Nat
    BY S3Assumption
  <1>3. /\ Min({m, e + 1}) = IF m <= e + 1 THEN m ELSE e + 1
        /\ Min({m, e - s + 1}) = IF m <= e - s + 1 THEN m ELSE e - s + 1
        /\ Min({len - 1, e}) = IF len - 1 <= e THEN len - 1 ELSE e
    BY <1>1, <1>2, MinOfTwo
  <1>4. CASE s = None /\ e = None
    <2>1. bytes_requested(m) = m /\ Start = 0
      BY <1>4 DEF bytes_requested, Start
    <2>2. to_range_header(len) = [first |-> Start, last |-> len - 1]
      BY <1>4 DEF to_range_header
    <2> QED BY <1>2, <2>1, <2>2
  <1>5. CASE s = None /\ e # None
    <2>1. bytes_requested(m) = (IF m <= e + 1 THEN m ELSE e + 1) /\ Start = 0
      BY <1>3, <1>5 DEF bytes_requested, Start
    <2>2. to_range_header(len)
            = [first |-> Start, last |-> IF len - 1 <= e THEN len - 1 ELSE e]
      BY <1>3, <1>5 DEF to_range_header
    <2>3. ~(range.start > 0)
      BY <1>5 DEF None
    <2> QED BY <1>1, <1>2, <1>5, <2>1, <2>2
  <1>6. CASE s # None /\ e = None
    <2>1. bytes_requested(m) = (IF s < m THEN m - s ELSE 0) /\ Start = s
      BY <1>6 DEF bytes_requested, Start
    <2>2. to_range_header(len) = [first |-> Start, last |-> len - 1]
      BY <1>6 DEF to_range_header
    <2> QED BY <1>1, <1>2, <1>6, <2>1, <2>2
  <1>7. CASE s # None /\ e # None
    <2>1. /\ bytes_requested(m) = (IF s <= e /\ s < m
                                   THEN IF m <= e - s + 1 THEN m ELSE e - s + 1 ELSE 0)
          /\ Start = s
      BY <1>3, <1>7 DEF bytes_requested, Start
    <2>2. s <= e /\ s < m
      BY <2>1
    <2>3. to_range_header(len)
            = [first |-> Start, last |-> IF len - 1 <= e THEN len - 1 ELSE e]
      BY <1>1, <1>3, <1>7, <2>2 DEF to_range_header
    <2> QED BY <1>1, <1>2, <1>7, <2>1, <2>2, <2>3
  <1> QED BY <1>4, <1>5, <1>6, <1>7

-----------------------------------------------------------------------------
(* The steps. *)

\* Before the answer nothing was sent.
LEMMA InitIInv == Init => IInv
  <1> SUFFICES ASSUME Init PROVE IInv
    OBVIOUS
  <1>1. /\ MaxLen \in Nat /\ MaxVersions \in Nat /\ container \in Name
        /\ pc = "start" /\ task = NoTask /\ streamed = <<>> /\ linked = {}
    BY S3Assumption DEF Init
  <1>2. streamed \in Seq(Chunk) /\ DOMAIN streamed = {}
    BY <1>1, EmptySeq
  <1>3. NamesOK
    BY <1>1 DEF Init, NamesOK, Named
  <1>4. TypeOK
    <2>1. object \in Object /\ bucket \in BOOLEAN /\ range \in [start : Bound, end : Bound]
      BY <1>1 DEF Init, Object
    <2>2. meta \in [len : 0..MaxLen, version : 0..MaxVersions + 1, bucket : Name]
      BY <1>1 DEF Init
    <2>3. NoChunk \in Chunk
      BY <1>1 DEF NoChunk, Chunk
    <2>4. answer \in [content_length : 0..MaxLen, chunk : Chunk]
      BY <1>1, <2>3 DEF Init
    <2>5. body \in [left : 0..MaxLen, from : 0..MaxLen, version : 0..MaxVersions]
      BY <1>1 DEF Init
    <2>6. task \in [state : {"none", "running", "done", "failed"}, offset : Nat,
                    end_range : Nat, bytes : 0..MaxLen, sent : 0..MaxLen]
      BY <1>1 DEF NoTask
    <2> QED BY <1>1, <1>2, <2>1, <2>2, <2>4, <2>5, <2>6 DEF TypeOK
  <1>5. task.state = "none"
    BY <1>1 DEF NoTask
  <1> QED
    BY <1>1, <1>2, <1>3, <1>4, <1>5
       DEF IInv, TaskStarts, MetaAgrees, BucketAgrees, AnswerAgrees, StreamAgrees,
           TaskAgrees, LastIsLast, Started

\* A handler that has not answered has neither a task nor chunks.
LEMMA Unanswered ==
    ASSUME IInv, ~Started, ~Started', task' = task, streamed' = streamed
    PROVE  TaskStarts' /\ AnswerAgrees' /\ StreamAgrees' /\ TaskAgrees' /\ LastIsLast'
  <1>1. task.state = "none" /\ streamed = <<>>
    BY DEF IInv, TaskStarts
  <1>2. DOMAIN streamed' = {}
    BY <1>1, EmptySeq
  <1> QED
    BY <1>1, <1>2
       DEF TaskStarts, AnswerAgrees, StreamAgrees, TaskAgrees, LastIsLast, Started

\* What the download knows stays true while others work.
LEMMA OthersWork ==
    ASSUME IInv, UNCHANGED <<container, aliases, pc, range, meta, answer, body, task, streamed>>
    PROVE  /\ TaskStarts' /\ BucketAgrees' /\ AnswerAgrees' /\ StreamAgrees' /\ TaskAgrees'
           /\ LastIsLast'
  BY DEF IInv, TaskStarts, BucketAgrees, AnswerAgrees, StreamAgrees, TaskAgrees, LastIsLast,
         Started, SameVersion, Overlong, Start, Requested, Streamed

\* The steps of other actors and of the link.
LEMMA OthersStep ==
    ASSUME IInv,
           \/ \E n \in 1..MaxLen : put_object(n)
           \/ remove_objects
           \/ \E v \in LinkValues : put_link(v)
           \/ delete_link \/ create_container \/ remove_containers
    PROVE  IInv'
  <1>1. UNCHANGED <<container, aliases, pc, range, meta, answer, body, task, streamed>>
    BY DEF put_object, remove_objects, put_link, delete_link, create_container,
           remove_containers
  <1>2. /\ TypeOK /\ NamesOK /\ MetaAgrees /\ MaxVersions \in Nat /\ MaxLen \in Nat
        /\ object.version \in 0..MaxVersions /\ object.len \in 0..MaxLen
    BY S3Assumption DEF IInv, TypeOK, Object
  <1>3. ASSUME object' \in Object, bucket' \in BOOLEAN,
               linked' \subseteq {new(v) : v \in LinkValues},
               \A al \in linked' : Named(al),
               \/ object' = object
               \/ object'.version = object.version + 1
        PROVE  IInv'
    <2>1. TypeOK' /\ NamesOK'
      BY <1>1, <1>2, <1>3 DEF TypeOK, NamesOK
    <2>2. MetaAgrees'
      <3>1. meta.version \in Nat
        BY <1>2 DEF TypeOK
      <3> QED BY <1>1, <1>2, <1>3, <3>1 DEF MetaAgrees
    <2> QED BY <1>1, <2>1, <2>2, OthersWork DEF IInv
  <1>4. /\ linked \subseteq {new(v) : v \in LinkValues} /\ \A al \in linked : Named(al)
        /\ object \in Object /\ bucket \in BOOLEAN
    BY <1>2 DEF TypeOK, NamesOK
  <1>5. ASSUME NEW n \in 1..MaxLen, put_object(n) PROVE IInv'
    <2>1. /\ object' = [len |-> n, version |-> object.version + 1] /\ linked' = linked
          /\ bucket' = bucket /\ object.version < MaxVersions
      BY <1>5 DEF put_object
    <2>2. object' \in Object /\ object'.version = object.version + 1
      BY <1>2, <2>1 DEF Object
    <2> QED BY <1>3, <1>4, <2>1, <2>2
  <1>6. ASSUME remove_objects PROVE IInv'
    <2>1. /\ object' = [len |-> 0, version |-> object.version + 1] /\ linked' = linked
          /\ bucket' = bucket /\ object.version < MaxVersions
      BY <1>6 DEF remove_objects
    <2>2. object' \in Object /\ object'.version = object.version + 1
      BY <1>2, <2>1 DEF Object
    <2> QED BY <1>3, <1>4, <2>1, <2>2
  <1>7. ASSUME NEW v \in LinkValues, put_link(v) PROVE IInv'
    <2>1. linked' = {new(v)} /\ object' = object /\ bucket' = bucket
      BY <1>7 DEF put_link
    <2> QED BY <1>3, <1>4, <2>1, NewNamed
  <1>8. ASSUME delete_link PROVE IInv'
    BY <1>3, <1>4, <1>8 DEF delete_link
  <1>9. ASSUME create_container \/ remove_containers PROVE IInv'
    BY <1>3, <1>4, <1>9 DEF create_container, remove_containers
  <1> QED BY <1>5, <1>6, <1>7, <1>8, <1>9

\* The metadata arrives, or the handler fails.
LEMMA MetadataStep ==
    ASSUME IInv, get_object_metadata
    PROVE  IInv'
  <1>1. /\ pc = "start" /\ TypeOK /\ NamesOK /\ MaxLen \in Nat /\ MaxVersions \in Nat
        /\ object.len \in 0..MaxLen /\ object.version \in 0..MaxVersions
        /\ UNCHANGED <<linked, container, bucket, object, range, answer, body, task, streamed>>
    BY S3Assumption DEF IInv, get_object_metadata, TypeOK, Object
  <1>2. ASSUME pc' \in {"get", "failed"} PROVE
          TaskStarts' /\ AnswerAgrees' /\ StreamAgrees' /\ TaskAgrees' /\ LastIsLast'
    BY <1>1, <1>2, Unanswered DEF Started
  <1>3. CASE pc' = "failed" /\ UNCHANGED <<meta, aliases>>
    <2>1. TypeOK' /\ NamesOK' /\ MetaAgrees' /\ BucketAgrees'
      BY <1>1, <1>3 DEF TypeOK, NamesOK, MetaAgrees, BucketAgrees
    <2> QED BY <1>2, <1>3, <2>1 DEF IInv
  <1>4. ASSUME NEW al \in linked, aliases' = al, pc' = "get",
               LET once == unalias(al, container)
                   twice == unalias(al, once)
               IN \/ /\ once = twice /\ object.len > 0
                     /\ meta' = [len |-> object.len, version |-> object.version,
                                 bucket |-> twice]
                  \/ /\ once # twice
                     /\ \E n \in 1..MaxLen :
                          meta' = [len |-> n, version |-> MaxVersions + 1, bucket |-> twice]
        PROVE  IInv'
    <2> DEFINE twice == unalias(al, unalias(al, container))
    <2>1. Named(al)
      BY <1>1 DEF NamesOK
    <2>2. twice \in Name /\ container \in Name
      BY <1>1, <2>1, UnaliasName DEF NamesOK
    <2>3. \/ meta' = [len |-> object.len, version |-> object.version, bucket |-> twice]
          \/ \E n \in 1..MaxLen :
               meta' = [len |-> n, version |-> MaxVersions + 1, bucket |-> twice]
      BY <1>4
    <2>4. twice = unalias(aliases, Requested)'
      BY <1>1, <1>4 DEF Requested
    <2> HIDE DEF twice
    <2>5. /\ meta' \in [len : 0..MaxLen, version : 0..MaxVersions + 1, bucket : Name]
          /\ meta'.bucket = twice
          /\ \/ meta'.version = object.version /\ meta'.len = object.len
             \/ meta'.version = MaxVersions + 1
      BY <1>1, <2>2, <2>3
    <2>6. TypeOK'
      BY <1>1, <1>4, <2>5 DEF TypeOK
    <2>7. NamesOK'
      BY <1>1, <1>4, <2>1 DEF NamesOK
    <2>8. MetaAgrees'
      BY <1>1, <2>5 DEF MetaAgrees
    <2>9. BucketAgrees'
      BY <2>4, <2>5 DEF BucketAgrees
    <2> QED BY <1>2, <1>4, <2>6, <2>7, <2>8, <2>9 DEF IInv
  <1> QED BY <1>3, <1>4 DEF get_object_metadata

\* Nothing was requested: the answer is empty and complete.
LEMMA NothingStep ==
    ASSUME IInv, get_nothing
    PROVE  IInv'
  <1>1. /\ pc = "get" /\ pc' = "answered" /\ TypeOK /\ NamesOK /\ MaxLen \in Nat
        /\ UNCHANGED <<linked, container, aliases, bucket, object, range, meta, body, task,
                       streamed>>
    BY S3Assumption DEF IInv, get_nothing
  <1>2. Requested \in Name
    BY <1>1, UnaliasName DEF NamesOK, Requested
  <1> DEFINE chunk == [NoChunk EXCEPT !.is_last = TRUE, !.container = Requested]
  <1>3. /\ chunk \in Chunk /\ chunk.len = 0 /\ chunk.container = Requested
        /\ answer' = [content_length |-> 0, chunk |-> chunk]
    <2>1. NoChunk \in Chunk /\ NoChunk.len = 0
      BY <1>1, S3Assumption DEF NoChunk, Chunk, NamesOK
    <2>2. chunk \in Chunk /\ chunk.len = 0 /\ chunk.container = Requested
      BY <1>2, <2>1 DEF Chunk
    <2>3. answer' = [content_length |-> 0, chunk |-> chunk]
      BY DEF get_nothing
    <2> QED BY <2>2, <2>3
  <1> HIDE DEF chunk
  <1>4. /\ answer' \in [content_length : 0..MaxLen, chunk : Chunk]
        /\ answer'.content_length = 0 /\ answer'.chunk.len = 0
        /\ answer'.chunk.container = Requested
    BY <1>1, <1>3
  <1>5. TypeOK' /\ NamesOK'
    BY <1>1, <1>4 DEF TypeOK, NamesOK
  <1>6. task.state = "none" /\ streamed = <<>>
    BY <1>1 DEF IInv, TaskStarts, Started
  <1>7. Requested' = Requested /\ unalias(aliases, Requested)' = unalias(aliases, Requested)
    BY <1>1 DEF Requested
  <1>8. BucketAgrees'
    BY <1>1, <1>7 DEF IInv, BucketAgrees
  <1>9. DOMAIN streamed' = {}
    BY <1>1, <1>6, EmptySeq
  <1>10. AnswerAgrees'
    BY <1>1, <1>4, <1>6, <1>7 DEF AnswerAgrees
  <1> QED
    BY <1>1, <1>5, <1>6, <1>8, <1>9, <1>10
       DEF IInv, TaskStarts, MetaAgrees, StreamAgrees, TaskAgrees, LastIsLast, Started

\* What get_object does with a first piece of n bytes, of which f go into the
\* answer: R bytes were requested from st on, and the object has them up to the
\* offset z.
FirstEffect(n, f, st, R, z) ==
    /\ st = Start /\ R = bytes_requested(meta.len) /\ f = Min({n, max_chunk_size})
    /\ answer'.content_length = R
    /\ answer'.chunk.offset = st /\ answer'.chunk.len = f /\ answer'.chunk.from = st
    /\ answer'.chunk.version = object.version /\ answer'.chunk.container = Requested
    /\ answer'.chunk.is_last = (f >= R)
    /\ body' = [left |-> z - st + 1 - n, from |-> st + n, version |-> object.version]
    /\ \/ /\ n < R \/ n > max_chunk_size
          /\ task' = [state |-> "running", offset |-> st + f, sent |-> 0,
                      end_range |-> st + f + R, bytes |-> n - f]
       \/ /\ ~(n < R \/ n > max_chunk_size)
          /\ task' = NoTask
    /\ pc' = "answering"
    /\ UNCHANGED <<linked, container, aliases, bucket, object, range, meta, streamed>>

\* The numbers the first piece is about.
FirstNumbers(n, f, st, R, z) ==
    /\ n \in Nat \ {0} /\ st \in 0..MaxLen /\ R \in 1..MaxLen /\ z \in Int
    /\ n <= z - st + 1 /\ z <= object.len - 1 /\ object.len \in 0..MaxLen
    /\ max_chunk_size \in Nat \ {0} /\ MaxLen \in Nat
    /\ f = (IF n <= max_chunk_size THEN n ELSE max_chunk_size)
    /\ meta.version = object.version =>
         /\ z - st + 1 <= R
         /\ ~Overlong => z - st + 1 = R

\* get_object gets a first piece, or fails.
LEMMA FirstPieceEffect ==
    ASSUME IInv, get_object, pc' # "failed"
    PROVE  \E n, f, st, R, z : FirstEffect(n, f, st, R, z) /\ FirstNumbers(n, f, st, R, z)
                                 /\ answer' \in [content_length : 0..MaxLen, chunk : Chunk]
  <1>1. /\ TypeOK /\ NamesOK /\ MetaAgrees /\ pc = "get" /\ bytes_requested(meta.len) > 0
        /\ MaxLen \in Nat /\ max_chunk_size \in Nat \ {0} /\ MaxVersions \in Nat
        /\ range \in [start : Bound, end : Bound]
        /\ meta.len \in 0..MaxLen /\ object.len \in 0..MaxLen
        /\ object.version \in 0..MaxVersions
    BY S3Assumption DEF IInv, get_object, TypeOK, Object
  <1>2. PICK st : st = Start
    OBVIOUS
  <1>3. PICK R : R = bytes_requested(meta.len)
    OBVIOUS
  <1>4. PICK z : z = to_range_header(object.len).last
    OBVIOUS
  <1>5. st \in 0..MaxLen /\ R \in 1..MaxLen
    BY <1>1, <1>2, <1>3, StartNat, RequestedType
  <1>6. /\ to_range_header(object.len).first = st /\ z \in Int /\ z <= object.len - 1
        /\ meta.len = object.len => z - st + 1 <= R
        /\ meta.len = object.len /\ ~Overlong => z - st + 1 = R
    BY <1>1, <1>2, <1>3, <1>4, ServedRange DEF Overlong
  <1>7. meta.version = object.version => meta.len = object.len
    BY <1>1 DEF MetaAgrees
  <1>8. PICK n \in 1..(z - st + 1) :
          /\ FirstPiece(n)
          /\ body' = [left |-> z - st + 1 - n, from |-> st + n, version |-> object.version]
          /\ pc' = "answering"
    BY <1>4, <1>6 DEF get_object
  <1>9. PICK f : f = Min({n, max_chunk_size})
    OBVIOUS
  <1>10. n \in Nat \ {0} /\ n <= z - st + 1
    BY <1>1, <1>5, <1>6
  <1>11. f = (IF n <= max_chunk_size THEN n ELSE max_chunk_size)
    BY <1>1, <1>9, <1>10, MinOfTwo
  <1>12. FirstNumbers(n, f, st, R, z)
    BY <1>1, <1>5, <1>6, <1>7, <1>10, <1>11 DEF FirstNumbers
  <1> DEFINE chunk == Initial(f)
  <1>13. /\ answer' = [content_length |-> R, chunk |-> chunk]
         /\ task' = IF n < R \/ n > max_chunk_size
                    THEN [state |-> "running", offset |-> st + f, sent |-> 0,
                          end_range |-> st + f + R, bytes |-> n - f]
                    ELSE NoTask
    BY <1>2, <1>3, <1>8, <1>9 DEF FirstPiece
  <1>14. Requested \in Name
    BY <1>1, UnaliasName DEF NamesOK, Requested
  <1>15. /\ chunk.offset = st /\ chunk.len = f /\ chunk.from = st
         /\ chunk.version = object.version /\ chunk.container = Requested
         /\ chunk.is_last = (f >= R) /\ chunk \in Chunk
    <2>1. chunk = [offset |-> st, len |-> f, from |-> st, version |-> object.version,
                   is_last |-> f >= R, container |-> Requested]
      BY <1>2, <1>3, <1>6 DEF Initial
    <2>2. f \in 0..MaxLen /\ st \in Nat
      BY <1>1, <1>5, <1>6, <1>10, <1>11
    <2> QED BY <1>1, <1>14, <2>1, <2>2 DEF Chunk
  <1> HIDE DEF chunk
  <1>16. /\ answer' \in [content_length : 0..MaxLen, chunk : Chunk]
         /\ answer'.content_length = R /\ answer'.chunk = chunk
    BY <1>1, <1>5, <1>13, <1>15
  <1>17. UNCHANGED <<linked, container, aliases, bucket, object, range, meta, streamed>>
    BY DEF get_object
  <1>18. FirstEffect(n, f, st, R, z)
    BY <1>2, <1>3, <1>8, <1>9, <1>13, <1>15, <1>16, <1>17 DEF FirstEffect
  <1> QED BY <1>12, <1>16, <1>18

\* The answer gets the first chunk, the task the rest of the first piece.
LEMMA ObjectStep ==
    ASSUME IInv, get_object
    PROVE  IInv'
  <1>1. /\ pc = "get" /\ TypeOK /\ NamesOK /\ ~Started
        /\ UNCHANGED <<linked, container, aliases, bucket, object, range, meta, streamed>>
    BY DEF IInv, get_object, Started
  <1>2. CASE pc' = "failed"
    <2>1. UNCHANGED <<answer, body, task>>
      BY <1>2 DEF get_object
    <2>2. TypeOK' /\ NamesOK' /\ MetaAgrees' /\ BucketAgrees'
      BY <1>1, <1>2, <2>1 DEF TypeOK, NamesOK, MetaAgrees, BucketAgrees
    <2> QED BY <1>1, <1>2, <2>1, <2>2, Unanswered DEF IInv, Started
  <1>3. CASE pc' # "failed"
    <2>1. PICK n, f, st, R, z : /\ FirstEffect(n, f, st, R, z) /\ FirstNumbers(n, f, st, R, z)
                                /\ answer' \in [content_length : 0..MaxLen, chunk : Chunk]
      BY <1>3, FirstPieceEffect
    <2>2. /\ f \in Nat \ {0} /\ f <= n /\ f <= max_chunk_size
          /\ n \in 1..MaxLen /\ st + n <= MaxLen
      BY <2>1 DEF FirstNumbers
    <2>3. /\ streamed = <<>> /\ streamed' = <<>> /\ DOMAIN streamed' = {}
          /\ pc' = "answering" /\ Start' = st
      BY <1>1, <2>1, EmptySeq DEF IInv, TaskStarts, FirstEffect, Start
    <2>4. /\ body'.left = z - st + 1 - n /\ body'.from = st + n
          /\ body'.version = object.version
          /\ body' \in [left : 0..MaxLen, from : 0..MaxLen, version : 0..MaxVersions]
      <3>1. /\ z - st + 1 - n \in 0..MaxLen /\ st + n \in 0..MaxLen
            /\ object.version \in 0..MaxVersions
        <4>1. z - st + 1 - n \in 0..MaxLen /\ st + n \in 0..MaxLen
          BY <2>1, <2>2 DEF FirstNumbers
        <4>2. object.version \in 0..MaxVersions
          BY <1>1 DEF TypeOK, Object
        <4> QED BY <4>1, <4>2
      <3> QED BY <2>1, <3>1 DEF FirstEffect
    <2>5. \/ /\ n < R \/ n > max_chunk_size
             /\ task'.state = "running" /\ task'.offset = st + f /\ task'.sent = 0
             /\ task'.end_range = st + f + R /\ task'.bytes = n - f
          \/ /\ ~(n < R \/ n > max_chunk_size) /\ task'.state = "none"
      BY <2>1 DEF FirstEffect, NoTask
    <2>6. task' \in [state : {"none", "running", "done", "failed"}, offset : Nat,
                     end_range : Nat, bytes : 0..MaxLen, sent : 0..MaxLen]
      <3>1. /\ st + f \in Nat /\ st + f + R \in Nat /\ n - f \in 0..MaxLen
            /\ 0 \in 0..MaxLen /\ 0 \in Nat
        BY <2>1, <2>2 DEF FirstNumbers
      <3> QED BY <2>1, <3>1 DEF FirstEffect, NoTask
    <2>7. TypeOK' /\ NamesOK'
      BY <1>1, <2>1, <2>3, <2>4, <2>6 DEF TypeOK, NamesOK
    <2>8. SameVersion' <=> meta.version = object.version
      BY <1>1, <2>4 DEF SameVersion
    <2>9. Overlong' <=> Overlong
      BY <1>1 DEF Overlong
    <2>10. /\ answer'.content_length = R /\ answer'.chunk.offset = st
           /\ answer'.chunk.len = f /\ answer'.chunk.from = st
           /\ answer'.chunk.version = object.version /\ answer'.chunk.container = Requested
           /\ answer'.chunk.is_last = (f >= R)
      BY <2>1 DEF FirstEffect
    <2>11. BucketAgrees'
      BY <1>1 DEF IInv, BucketAgrees, Requested
    <2>12. AnswerAgrees'
      <3>1. Requested' = Requested
        BY <1>1 DEF Requested
      <3>2. task'.state = "none" /\ SameVersion' => f = R
        BY <2>1, <2>2, <2>5, <2>8 DEF FirstNumbers
      <3> QED BY <2>3, <2>10, <3>1, <3>2 DEF AnswerAgrees
    <2>13. TaskAgrees'
      <3>1. EndOf(answer.chunk, streamed)' = st + f
        BY <2>3, <2>10 DEF EndOf
      <3>2. SameVersion' => z + 1 <= st + f + R
        BY <2>1, <2>2, <2>8 DEF FirstNumbers
      <3>3. SameVersion' /\ ~Overlong' => z + 1 = st + R
        BY <2>1, <2>2, <2>8, <2>9 DEF FirstNumbers
      <3>4. body'.from + body'.left = z + 1 /\ z + 1 <= MaxLen
        BY <2>1, <2>2, <2>4 DEF FirstNumbers
      <3>5. CASE task'.state = "none"
        BY <3>5 DEF TaskAgrees
      <3>6. CASE task'.state # "none"
        <4>1. /\ task'.state = "running" /\ task'.offset = st + f /\ task'.sent = 0
              /\ task'.end_range = st + f + R /\ task'.bytes = n - f
          BY <2>5, <3>6
        <4>2. /\ body'.from = task'.offset + task'.bytes /\ task'.sent <= task'.bytes
              /\ st + f = task'.offset + task'.sent
          BY <2>1, <2>2, <2>4, <4>1 DEF FirstNumbers
        <4> QED
          BY <2>3, <2>4, <2>10, <3>1, <3>2, <3>3, <3>4, <4>1, <4>2 DEF TaskAgrees
      <3> QED BY <3>5, <3>6
    <2>14. LastIsLast'
      <3>1. f >= R /\ meta.version = object.version => ~(n < R \/ n > max_chunk_size)
        BY <2>1, <2>2 DEF FirstNumbers
      <3> QED BY <2>5, <2>8, <2>10, <3>1 DEF LastIsLast
    <2> QED
      BY <2>3, <2>7, <2>11, <2>12, <2>13, <2>14
         DEF IInv, TaskStarts, MetaAgrees, StreamAgrees, Started
  <1> QED BY <1>2, <1>3

\* The answer is on its way, and arrives.
LEMMA RespondStep ==
    ASSUME IInv, respond
    PROVE  IInv'
  <1>1. /\ pc = "answering" /\ pc' = "answered"
        /\ UNCHANGED <<linked, container, aliases, bucket, object, range, meta, answer, body,
                       task, streamed>>
    BY DEF respond
  <1>2. TypeOK' /\ NamesOK'
    BY <1>1 DEF IInv, TypeOK, NamesOK
  <1>3. TaskStarts' /\ MetaAgrees' /\ BucketAgrees' /\ AnswerAgrees' /\ LastIsLast'
    BY <1>1 DEF IInv, TaskStarts, MetaAgrees, BucketAgrees, AnswerAgrees, LastIsLast,
                Started, SameVersion, Start, Requested
  <1>4. StreamAgrees' /\ TaskAgrees'
    BY <1>1 DEF IInv, StreamAgrees, TaskAgrees, SameVersion, Overlong, Start, Requested,
                Streamed
  <1> QED BY <1>2, <1>3, <1>4 DEF IInv

\* The task sends a chunk, or the actor does not take it.
LEMMA SendStep ==
    ASSUME IInv, send_chunk
    PROVE  IInv'
  <1>1. /\ task.state = "running" /\ task.sent < task.bytes /\ TypeOK /\ NamesOK
        /\ UNCHANGED <<linked, container, aliases, bucket, object, pc, range, meta, answer,
                       body>>
        /\ MaxLen \in Nat /\ max_chunk_size \in Nat \ {0}
    BY S3Assumption DEF IInv, send_chunk
  <1>2. Started
    BY <1>1 DEF IInv, TaskStarts
  <1>3. /\ task.offset \in Nat /\ task.end_range \in Nat /\ task.bytes \in 0..MaxLen
        /\ task.sent \in 0..MaxLen /\ streamed \in Seq(Chunk)
        /\ body.version \in 0..MaxVersions /\ body.from \in 0..MaxLen
        /\ answer.chunk.offset \in Nat /\ answer.chunk.len \in 0..MaxLen
        /\ task \in [state : {"none", "running", "done", "failed"}, offset : Nat,
                     end_range : Nat, bytes : 0..MaxLen, sent : 0..MaxLen]
    BY <1>1 DEF TypeOK, Chunk
  <1>4. /\ BucketAgrees' /\ MetaAgrees' /\ NamesOK' /\ Started' /\ Start' = Start
        /\ Streamed' = Streamed /\ (SameVersion' <=> SameVersion) /\ (Overlong' <=> Overlong)
        /\ Requested' = Requested
    BY <1>1, <1>2 DEF IInv, BucketAgrees, MetaAgrees, NamesOK, Started, Start, Streamed,
                      Requested, SameVersion, Overlong
  <1>5. /\ body.version = answer.chunk.version
        /\ body.from = task.offset + task.bytes
        /\ EndOf(answer.chunk, streamed) = task.offset + task.sent
        /\ body.from + body.left <= MaxLen
        /\ SameVersion => body.from + body.left <= task.end_range
        /\ SameVersion /\ ~Overlong => body.from + body.left = Start + answer.content_length
    BY <1>1 DEF IInv, TaskAgrees
  <1>6. CASE task' = [task EXCEPT !.state = "failed"] /\ streamed' = streamed
    <2>1. /\ task'.state = "failed" /\ task'.offset = task.offset /\ task'.sent = task.sent
          /\ task'.bytes = task.bytes /\ task'.end_range = task.end_range
          /\ task' \in [state : {"none", "running", "done", "failed"}, offset : Nat,
                        end_range : Nat, bytes : 0..MaxLen, sent : 0..MaxLen]
      BY <1>3, <1>6
    <2>2. TypeOK'
      BY <1>1, <1>6, <2>1 DEF TypeOK
    <2>3. AnswerAgrees' /\ LastIsLast' /\ TaskStarts'
      BY <1>1, <1>2, <1>4, <2>1 DEF IInv, AnswerAgrees, LastIsLast, TaskStarts, Started
    <2>4. StreamAgrees'
      BY <1>1, <1>4, <1>6 DEF IInv, StreamAgrees
    <2>5. TaskAgrees'
      BY <1>1, <1>4, <1>5, <1>6, <2>1 DEF IInv, TaskAgrees
    <2> QED BY <1>4, <2>2, <2>3, <2>4, <2>5 DEF IInv
  <1>7. ASSUME NEW len, NEW chunk, len = Min({max_chunk_size, task.bytes - task.sent}),
               chunk = [offset |-> task.offset + task.sent, len |-> len,
                        from |-> body.from - (task.bytes - task.sent),
                        version |-> body.version, is_last |-> is_last(len),
                        container |-> Streamed],
               streamed' = Append(streamed, chunk), task' = [task EXCEPT !.sent = @ + len]
        PROVE  IInv'
    <2>1. len \in 1..(task.bytes - task.sent) /\ len \in 0..MaxLen
      <3>1. max_chunk_size \in Int /\ task.bytes - task.sent \in Int
        BY <1>1, <1>3
      <3>2. len = IF max_chunk_size <= task.bytes - task.sent THEN max_chunk_size
                  ELSE task.bytes - task.sent
        BY <1>7, <3>1, MinOfTwo
      <3> QED BY <1>1, <1>3, <3>2
    <2>2. Streamed \in Name
      BY <1>1, UnaliasName DEF NamesOK, Streamed, Requested
    <2>3. is_last(len) \in BOOLEAN
      BY DEF is_last
    <2>4. body.from - (task.bytes - task.sent) = task.offset + task.sent
      BY <1>3, <1>5
    <2>5. /\ chunk \in Chunk /\ chunk.offset = task.offset + task.sent /\ chunk.len = len
          /\ chunk.from = task.offset + task.sent /\ chunk.version = body.version
          /\ chunk.container = Streamed
      <3>1. task.offset + task.sent \in Nat
        BY <1>3
      <3>2. chunk = [offset |-> task.offset + task.sent, len |-> len,
                     from |-> task.offset + task.sent, version |-> body.version,
                     is_last |-> is_last(len), container |-> Streamed]
        BY <1>7, <2>4
      <3> QED BY <1>3, <2>1, <2>2, <2>3, <3>1, <3>2 DEF Chunk
    <2>6. /\ task'.state = "running" /\ task'.offset = task.offset
          /\ task'.sent = task.sent + len
          /\ task'.bytes = task.bytes /\ task'.end_range = task.end_range
          /\ task' \in [state : {"none", "running", "done", "failed"}, offset : Nat,
                        end_range : Nat, bytes : 0..MaxLen, sent : 0..MaxLen]
      <3>1. PICK o \in 0..MaxLen : o = task.sent + len
        <4>1. task.bytes \in Nat /\ task.sent \in Nat /\ task.bytes <= MaxLen
          BY <1>1, <1>3
        <4> QED BY <1>1, <2>1, <4>1
      <3>2. task' = [task EXCEPT !.sent = o]
        BY <1>7, <3>1
      <3> QED BY <1>1, <1>3, <3>1, <3>2
    <2>7. /\ streamed' \in Seq(Chunk) /\ DOMAIN streamed = 1..Len(streamed)
          /\ DOMAIN streamed' = 1..(Len(streamed) + 1) /\ Len(streamed) \in Nat
          /\ Len(streamed') = Len(streamed) + 1 /\ streamed' # <<>>
          /\ \A i \in DOMAIN streamed : streamed'[i] = streamed[i]
          /\ streamed'[Len(streamed) + 1] = chunk
      <3>1. streamed \in Seq(Chunk) /\ chunk \in Chunk /\ streamed' = Append(streamed, chunk)
        BY <1>3, <1>7, <2>5
      <3>2. streamed' \in Seq(Chunk)
        BY <3>1, AppendProperties
      <3>3. /\ DOMAIN streamed = 1..Len(streamed) /\ Len(streamed) \in Nat
            /\ DOMAIN streamed' = 1..Len(streamed')
        BY <3>1, <3>2, LenProperties
      <3>4. /\ Len(streamed') = Len(streamed) + 1 /\ streamed' # <<>>
            /\ \A i \in 1..Len(streamed) : streamed'[i] = streamed[i]
            /\ streamed'[Len(streamed) + 1] = chunk
        BY <3>1, AppendProperties
      <3> QED BY <3>2, <3>3, <3>4
    <2>8. TypeOK'
      BY <1>1, <2>6, <2>7 DEF TypeOK
    <2>9. AnswerAgrees' /\ LastIsLast' /\ TaskStarts'
      BY <1>1, <1>2, <1>4, <2>6 DEF IInv, AnswerAgrees, LastIsLast, TaskStarts, Started
    <2>10. EndOf(answer.chunk, streamed)' = task'.offset + task'.sent
      BY <1>3, <2>1, <2>5, <2>6, <2>7 DEF EndOf
    <2>11. TaskAgrees'
      <3>1. task'.sent <= task'.bytes
        BY <1>3, <2>1, <2>6
      <3> QED BY <1>1, <1>4, <1>5, <2>6, <2>10, <3>1 DEF TaskAgrees
    <2>12. ASSUME NEW i \in DOMAIN streamed'
           PROVE  /\ streamed'[i].offset = streamed'[i].from
                  /\ streamed'[i].version = answer.chunk.version
                  /\ streamed'[i].container = Streamed
                  /\ streamed'[i].offset = IF i = 1 THEN answer.chunk.offset + answer.chunk.len
                                           ELSE streamed'[i-1].offset + streamed'[i-1].len
      <3>1. CASE i \in DOMAIN streamed
        <4>1. streamed'[i] = streamed[i] /\ (i # 1 => streamed'[i-1] = streamed[i-1])
          BY <2>7, <3>1
        <4> QED BY <3>1, <4>1 DEF IInv, StreamAgrees
      <3>2. CASE i \notin DOMAIN streamed
        <4>1. i = Len(streamed) + 1 /\ streamed'[i] = chunk
          BY <2>7, <3>2
        <4>2. i # 1 => /\ i - 1 = Len(streamed) /\ i - 1 \in DOMAIN streamed
                       /\ streamed'[i-1] = streamed[Len(streamed)] /\ streamed # <<>>
          BY <1>3, <2>7, <4>1, EmptySeq
        <4>3. i = 1 => streamed = <<>>
          BY <1>3, <2>7, <4>1, EmptySeq
        <4>4. chunk.offset = EndOf(answer.chunk, streamed)
          BY <1>5, <2>5
        <4> QED BY <1>5, <2>5, <4>1, <4>2, <4>3, <4>4 DEF EndOf
      <3> QED BY <3>1, <3>2
    <2>13. StreamAgrees'
      BY <1>1, <1>4, <2>12 DEF StreamAgrees
    <2> QED BY <1>4, <2>8, <2>9, <2>11, <2>13 DEF IInv
  <1> QED BY <1>6, <1>7 DEF send_chunk

\* The next piece of the body, or its end.
LEMMA PieceStep ==
    ASSUME IInv, next_piece
    PROVE  IInv'
  <1>1. /\ task.state = "running" /\ task.sent = task.bytes /\ TypeOK /\ NamesOK
        /\ UNCHANGED <<linked, container, aliases, bucket, object, pc, range, meta, answer,
                       streamed>>
        /\ MaxLen \in Nat
    BY S3Assumption DEF IInv, next_piece
  <1>2. Started
    BY <1>1 DEF IInv, TaskStarts
  <1>3. /\ task \in [state : {"none", "running", "done", "failed"}, offset : Nat,
                     end_range : Nat, bytes : 0..MaxLen, sent : 0..MaxLen]
        /\ body \in [left : 0..MaxLen, from : 0..MaxLen, version : 0..MaxVersions]
    BY <1>1 DEF TypeOK
  <1>4. /\ BucketAgrees' /\ MetaAgrees' /\ NamesOK' /\ Started' /\ Start' = Start
        /\ Streamed' = Streamed /\ (Overlong' <=> Overlong) /\ Requested' = Requested
        /\ StreamAgrees'
    BY <1>1, <1>2 DEF IInv, BucketAgrees, MetaAgrees, NamesOK, Started, Start, Streamed,
                      Requested, Overlong, StreamAgrees
  <1>5. /\ body.version = answer.chunk.version
        /\ body.from = task.offset + task.bytes
        /\ EndOf(answer.chunk, streamed) = task.offset + task.sent
        /\ body.from + body.left <= MaxLen
        /\ SameVersion => body.from + body.left <= task.end_range
        /\ SameVersion /\ ~Overlong => body.from + body.left = Start + answer.content_length
    BY <1>1 DEF IInv, TaskAgrees
  <1>6. ASSUME SameVersion' <=> SameVersion, task'.state # "none" PROVE
          AnswerAgrees' /\ LastIsLast' /\ TaskStarts'
    BY <1>1, <1>2, <1>4, <1>6 DEF IInv, AnswerAgrees, LastIsLast, TaskStarts, Started
  <1>7. ASSUME NEW st \in {"done", "failed"}, task' = [task EXCEPT !.state = st], body' = body,
               st = "done" /\ SameVersion => body.left = 0
        PROVE  IInv'
    <2>1. /\ task'.state = st /\ task'.offset = task.offset /\ task'.sent = task.sent
          /\ task'.bytes = task.bytes /\ task'.end_range = task.end_range
          /\ task' \in [state : {"none", "running", "done", "failed"}, offset : Nat,
                        end_range : Nat, bytes : 0..MaxLen, sent : 0..MaxLen]
      BY <1>3, <1>7
    <2>2. TypeOK' /\ (SameVersion' <=> SameVersion)
      BY <1>1, <1>7, <2>1 DEF TypeOK, SameVersion
    <2>3. EndOf(answer.chunk, streamed)' = EndOf(answer.chunk, streamed)
      BY <1>1
    <2>4. TaskAgrees'
      BY <1>1, <1>3, <1>4, <1>5, <1>7, <2>1, <2>2, <2>3 DEF TaskAgrees
    <2> QED BY <1>4, <1>6, <2>1, <2>2, <2>4 DEF IInv
  <1>8. ASSUME NEW n \in 1..body.left,
               task' = [task EXCEPT !.offset = task.offset + task.bytes, !.bytes = n, !.sent = 0],
               body' = [body EXCEPT !.left = @ - n, !.from = @ + n]
        PROVE  IInv'
    <2>1. /\ task'.state = "running" /\ task'.offset = task.offset + task.bytes
          /\ task'.sent = 0 /\ task'.bytes = n /\ task'.end_range = task.end_range
          /\ task' \in [state : {"none", "running", "done", "failed"}, offset : Nat,
                        end_range : Nat, bytes : 0..MaxLen, sent : 0..MaxLen]
      <3>1. PICK o \in Nat : o = task.offset + task.bytes
        BY <1>3
      <3>2. n \in 0..MaxLen /\ 0 \in 0..MaxLen
        BY <1>1, <1>3
      <3>3. task' = [task EXCEPT !.offset = o, !.bytes = n, !.sent = 0]
        BY <1>8, <3>1
      <3> QED BY <1>1, <1>3, <3>1, <3>2, <3>3
    <2>2. /\ body'.left = body.left - n /\ body'.from = body.from + n
          /\ body'.version = body.version
          /\ body' \in [left : 0..MaxLen, from : 0..MaxLen, version : 0..MaxVersions]
      <3>1. PICK l \in 0..MaxLen : l = body.left - n
        BY <1>1, <1>3
      <3>2. PICK o \in 0..MaxLen : o = body.from + n
        BY <1>1, <1>3, <1>5
      <3>3. body' = [body EXCEPT !.left = l, !.from = o]
        BY <1>8, <3>1, <3>2
      <3> QED BY <1>3, <3>1, <3>2, <3>3
    <2>3. TypeOK' /\ (SameVersion' <=> SameVersion)
      BY <1>1, <2>1, <2>2 DEF TypeOK, SameVersion
    <2>4. /\ body'.from + body'.left = body.from + body.left
          /\ body'.from = task'.offset + task'.bytes /\ task'.sent <= task'.bytes
          /\ task.offset + task.sent = task'.offset + task'.sent
      BY <1>1, <1>3, <1>5, <1>8, <2>1, <2>2
    <2>5. EndOf(answer.chunk, streamed)' = EndOf(answer.chunk, streamed)
      BY <1>1
    <2>6. TaskAgrees'
      BY <1>1, <1>4, <1>5, <2>1, <2>2, <2>3, <2>4, <2>5 DEF TaskAgrees
    <2> QED BY <1>4, <1>6, <2>1, <2>3, <2>6 DEF IInv
  <1>9. task.offset + task.bytes > task.end_range /\ SameVersion => body.left = 0
    <2>1. task.end_range \in Nat /\ body.from \in Nat /\ body.left \in Nat
      BY <1>3
    <2> QED BY <1>5, <2>1
  <1>10. \/ \E st \in {"done", "failed"} :
             /\ task' = [task EXCEPT !.state = st] /\ body' = body
             /\ st = "done" /\ SameVersion => body.left = 0
         \/ \E n \in 1..body.left :
             /\ task' = [task EXCEPT !.offset = task.offset + task.bytes, !.bytes = n,
                                     !.sent = 0]
             /\ body' = [body EXCEPT !.left = @ - n, !.from = @ + n]
    BY <1>9 DEF next_piece
  <1> QED BY <1>7, <1>8, <1>10

\* Every step keeps the invariant.
LEMMA NextIInv == IInv /\ [Next]_vars => IInv'
  <1> SUFFICES ASSUME IInv, [Next]_vars PROVE IInv'
    OBVIOUS
  <1>1. CASE UNCHANGED vars
    <2>1. /\ UNCHANGED <<container, aliases, pc, range, meta, answer, body, task, streamed>>
          /\ UNCHANGED <<linked, bucket, object>>
      BY <1>1 DEF vars
    <2>2. TypeOK' /\ NamesOK' /\ MetaAgrees'
      BY <2>1 DEF IInv, TypeOK, NamesOK, MetaAgrees
    <2> QED BY <2>1, <2>2, OthersWork DEF IInv
  <1> QED
    BY <1>1, MetadataStep, NothingStep, ObjectStep, RespondStep, SendStep, PieceStep,
       OthersStep DEF Next

LEMMA Invariance == Spec => []IInv
  BY InitIInv, NextIInv, PTL DEF Spec

-----------------------------------------------------------------------------
(* The properties. *)

\* The chunk at each place: the first is that of the answer.
LEMMA ChunksAre ==
    ASSUME IInv
    PROVE  /\ ~Started => DOMAIN Chunks = {}
           /\ Started => /\ DOMAIN Chunks = 1..(Len(streamed) + 1)
                         /\ Len(Chunks) = Len(streamed) + 1 /\ Len(streamed) \in Nat
                         /\ Chunks[1] = answer.chunk
                         /\ DOMAIN streamed = 1..Len(streamed)
                         /\ \A i \in DOMAIN streamed : Chunks[i + 1] = streamed[i]
  <1>1. streamed \in Seq(Chunk) /\ answer.chunk \in Chunk
    BY DEF IInv, TypeOK
  <1>2. CASE ~Started
    <2>1. Chunks = <<>>
      BY <1>2 DEF IInv, TaskStarts, Chunks, Started
    <2> QED BY <1>2, <2>1, EmptySeq
  <1>3. CASE Started
    <2> DEFINE first == <<answer.chunk>>
    <2>1. Chunks = first \o streamed
      BY <1>3 DEF Chunks, Started
    <2>2. first \in Seq(Chunk) /\ Len(first) = 1 /\ first[1] = answer.chunk
      BY <1>1
    <2> HIDE DEF first
    <2>3. /\ Len(Chunks) = 1 + Len(streamed) /\ Len(streamed) \in Nat
          /\ Chunks \in Seq(Chunk)
          /\ \A i \in 1..(1 + Len(streamed)) :
               Chunks[i] = IF i <= 1 THEN first[i] ELSE streamed[i - 1]
      <3>1. /\ first \o streamed \in Seq(Chunk)
            /\ Len(first \o streamed) = Len(first) + Len(streamed)
            /\ \A i \in 1..(Len(first) + Len(streamed)) : (first \o streamed)[i] =
                 IF i <= Len(first) THEN first[i] ELSE streamed[i - Len(first)]
        BY <1>1, <2>2, ConcatProperties
      <3>2. Len(streamed) \in Nat
        BY <1>1, LenProperties
      <3> QED BY <2>1, <2>2, <3>1, <3>2
    <2>4. DOMAIN Chunks = 1..(Len(streamed) + 1) /\ DOMAIN streamed = 1..Len(streamed)
      BY <1>1, <2>3, LenProperties
    <2>5. Chunks[1] = answer.chunk /\ \A i \in DOMAIN streamed : Chunks[i + 1] = streamed[i]
      BY <2>2, <2>3, <2>4
    <2> QED BY <1>3, <2>3, <2>4, <2>5
  <1> QED BY <1>2, <1>3

\* Whatever the range, the sizes of pieces and chunks and what others do to the
\* object and the link meanwhile, chunks are contiguous, say their true offset,
\* are of one version, and bear the name of the bucket they are from.
THEOREM ChunksAreTheObject == Spec => []ChunksMatchObject
  <1>1. IInv => ChunksMatchObject
    <2> SUFFICES ASSUME IInv PROVE ChunksMatchObject
      OBVIOUS
    <2>1. ASSUME NoChains(aliases) PROVE unalias(aliases, Requested) = Requested
      BY <2>1, UnaliasOnce DEF Requested
    <2>2. ASSUME NoChains(aliases) PROVE Streamed = Requested
      BY <2>1, <2>2 DEF Streamed
    <2>3. NoChains(aliases) /\ pc \in {"get", "answering", "answered"}
            => meta.bucket = Requested
      BY <2>1 DEF IInv, BucketAgrees
    <2>4. ASSUME NEW i \in DOMAIN Chunks
          PROVE  /\ NoChains(aliases) => Chunks[i].container = Requested
                 /\ Chunks[i].len > 0 => Chunks[i].offset = Chunks[i].from
                 /\ i > 1 => /\ Chunks[i].offset = Chunks[i-1].offset + Chunks[i-1].len
                             /\ Chunks[i].version = Chunks[1].version
      <3>1. Started
        BY <2>4, ChunksAre
      <3>2. /\ i \in 1..(Len(streamed) + 1) /\ Len(streamed) \in Nat
            /\ Chunks[1] = answer.chunk /\ DOMAIN streamed = 1..Len(streamed)
            /\ \A j \in DOMAIN streamed : Chunks[j + 1] = streamed[j]
        BY <2>4, <3>1, ChunksAre
      <3>3. CASE i = 1
        BY <3>1, <3>2, <3>3 DEF IInv, AnswerAgrees
      <3>4. CASE i # 1
        <4>1. PICK j \in DOMAIN streamed : i = j + 1 /\ i - 1 = j
          BY <3>2, <3>4
        <4>2. Chunks[i] = streamed[j]
          BY <3>2, <4>1
        <4>3. /\ streamed[j].offset = streamed[j].from
              /\ streamed[j].version = answer.chunk.version
              /\ streamed[j].container = Streamed
              /\ streamed[j].offset = IF j = 1 THEN answer.chunk.offset + answer.chunk.len
                                      ELSE streamed[j-1].offset + streamed[j-1].len
          BY DEF IInv, StreamAgrees
        <4>4. j # 1 => Chunks[j] = streamed[j-1]
          <5>1. j # 1 => j - 1 \in DOMAIN streamed /\ (j - 1) + 1 = j
            BY <3>2, <4>1
          <5> QED BY <3>2, <5>1
        <4>5. streamed[j].offset = Chunks[j].offset + Chunks[j].len
          BY <3>2, <4>3, <4>4
        <4> QED BY <2>2, <3>2, <4>1, <4>2, <4>3, <4>5
      <3> QED BY <3>3, <3>4
    <2> QED BY <2>3, <2>4 DEF IInv, ChunksMatchObject
  <1> QED BY Invariance, <1>1, PTL

\* A task that ends well has sent the whole body, and the answer announced the
\* number of bytes that came: for every range but those that start inside the
\* object and end behind it, and unless the object was replaced meanwhile.
THEOREM DownloadsAreWhole == Spec => []DoneIsWhole
  <1>1. IInv => DoneIsWhole
    <2> SUFFICES ASSUME IInv PROVE DoneIsWhole
      OBVIOUS
    <2>1. task.state = "done" /\ SameVersion => body.left = 0
      BY DEF IInv, TaskAgrees
    <2>2. ASSUME pc = "answered", task.state \in {"none", "done"}, SameVersion, ~Overlong
          PROVE  Total = answer.content_length
      <3>1. Started
        BY <2>2 DEF Started
      <3>2. /\ Len(Chunks) = Len(streamed) + 1 /\ Len(streamed) \in Nat
            /\ Chunks[1] = answer.chunk /\ DOMAIN streamed = 1..Len(streamed)
            /\ \A j \in DOMAIN streamed : Chunks[j + 1] = streamed[j]
        BY <3>1, ChunksAre
      <3>3. streamed \in Seq(Chunk) /\ answer.chunk.offset \in Nat /\ answer.chunk.len \in Nat
        <4>1. streamed \in Seq(Chunk) /\ answer.chunk \in Chunk
          BY DEF IInv, TypeOK
        <4> QED BY <4>1, S3Assumption DEF Chunk
      <3>4. Total = EndOf(answer.chunk, streamed) - answer.chunk.offset
        <4>0. Total = Chunks[Len(Chunks)].offset + Chunks[Len(Chunks)].len - Chunks[1].offset
          BY DEF Total
        <4>1. CASE streamed = <<>>
          <5>1. Len(Chunks) = 1
            BY <3>2, <4>1, EmptySeq
          <5>2. EndOf(answer.chunk, streamed) = answer.chunk.offset + answer.chunk.len
            BY <4>1 DEF EndOf
          <5>3. Total = answer.chunk.offset + answer.chunk.len - answer.chunk.offset
            BY <3>2, <4>0, <5>1
          <5> QED BY <3>3, <5>2, <5>3
        <4>2. CASE streamed # <<>>
          <5>1. Len(streamed) \in DOMAIN streamed
            BY <3>2, <3>3, <4>2, EmptySeq
          <5>2. Chunks[Len(Chunks)] = streamed[Len(streamed)]
            BY <3>2, <5>1
          <5>3. EndOf(answer.chunk, streamed)
                  = streamed[Len(streamed)].offset + streamed[Len(streamed)].len
            BY <4>2 DEF EndOf
          <5>4. streamed[Len(streamed)].offset \in Nat /\ streamed[Len(streamed)].len \in Nat
            <6>1. streamed[Len(streamed)] \in Chunk
              BY <3>3, <5>1, ElementOfSeq, <3>2
            <6> QED BY <6>1, S3Assumption DEF Chunk
          <5> QED BY <3>2, <3>3, <4>0, <5>2, <5>3, <5>4
        <4> QED BY <4>1, <4>2
      <3>5. CASE task.state = "none"
        <4>1. streamed = <<>> /\ answer.chunk.len = answer.content_length
          BY <2>2, <3>1, <3>5 DEF IInv, TaskStarts, AnswerAgrees
        <4> QED BY <3>3, <3>4, <4>1 DEF EndOf
      <3>6. CASE task.state = "done"
        <4>1. /\ body.from = task.offset + task.bytes /\ task.sent = task.bytes
              /\ EndOf(answer.chunk, streamed) = task.offset + task.sent
              /\ body.left = 0 /\ body.from + body.left = Start + answer.content_length
          BY <2>2, <3>6 DEF IInv, TaskAgrees
        <4>2. answer.chunk.offset = Start
          BY <3>1, <3>6 DEF IInv, AnswerAgrees
        <4>3. /\ answer.content_length \in Nat /\ body.from \in Nat /\ task.offset \in Nat
              /\ task.bytes \in Nat
          BY S3Assumption DEF IInv, TypeOK
        <4> QED BY <3>3, <3>4, <4>1, <4>2, <4>3
      <3> QED BY <2>2, <3>5, <3>6
    <2> QED BY <2>1, <2>2 DEF DoneIsWhole, Overlong
  <1> QED BY Invariance, <1>1, PTL

\* An initial chunk that is flagged as the last one is the only one, unless the
\* object was replaced between the two requests.
THEOREM LastChunkEnds == Spec => []LastIsLast
  <1>1. IInv => LastIsLast
    BY DEF IInv
  <1> QED BY Invariance, <1>1, PTL
=============================================================================
