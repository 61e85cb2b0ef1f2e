---------------------------- MODULE KafkaProofs ----------------------------
(* For every set of actors and consumers and every length of the partition: *)
(* who runs a consumer task of KafkaMessaging, and who may stop it.         *)
EXTENDS KafkaMessaging, SequenceTheorems, TLAPS

\* The handle an actor has in the map is its own and was not aborted.
MapAgrees ==
    \A a \in Actors : connections[a] # None =>
        /\ consumer[connections[a]].actor = a /\ connections[a] \notin aborted
        /\ consumer[connections[a]].mapped = "mapped"

\* A task that runs, was put into the map and neither aborted nor replaced is
\* still there.
TasksMapped ==
    \A c \in Consumers :
        Live(c) /\ consumer[c].mapped = "mapped" /\ c \notin aborted =>
            connections[consumer[c].actor] = c

\* Only a handle that has been in the map is aborted.
AbortedWereMapped == \A c \in aborted : consumer[c].mapped # "not yet"

\* A consumer has its actor from put_link on, and until its task is spawned it
\* has neither a handle in the map nor a position in the partition.
StagesAgree ==
    \A c \in Consumers :
        /\ consumer[c].stage # "unused" => consumer[c].actor \in Actors
        /\ consumer[c].stage \in {"unused", "validating"} =>
             consumer[c].mapped = "not yet" /\ consumer[c].next = 0

\* The inductive invariant.
IInv == TypeOK /\ MapAgrees /\ TasksMapped /\ AbortedWereMapped /\ StagesAgree

\* A provider that starts, with an empty map, satisfies it.
LEMMA InitIInv == Init => IInv
  <1> SUFFICES ASSUME Init PROVE IInv
    OBVIOUS
  <1>1. 0 \in 0..(MaxLog + 1)
    BY KafkaAssumption
  <1>2. TypeOK
    <2>1. consumer \in [Consumers -> Consumer] /\ \A c \in Consumers : consumer[c].next = 0
      BY <1>1 DEF Init, Consumer, Stages
    <2>2. log \in Seq({"value", "tombstone"}) /\ Len(log) = 0
      BY EmptySeq DEF Init
    <2>3. call \in [Calls -> Call] /\ connections \in [Actors -> Consumers \cup {None}]
            /\ aborted = {}
      BY DEF Init, Call
    <2> QED BY <2>1, <2>2, <2>3, KafkaAssumption DEF TypeOK
  <1>3. MapAgrees /\ TasksMapped /\ AbortedWereMapped /\ StagesAgree
    BY DEF Init, MapAgrees, TasksMapped, AbortedWereMapped, StagesAgree, Live
  <1> QED BY <1>2, <1>3 DEF IInv

\* Replacing a handle moves one consumer into the map and one out of it.
LEMMA ReplaceEffect ==
    ASSUME TypeOK, NEW c \in Consumers, Replace(c), consumer[c].actor \in Actors
    PROVE  LET old == connections[consumer[c].actor] IN
           /\ connections' \in [Actors -> Consumers \cup {None}]
           /\ connections'[consumer[c].actor] = c
           /\ \A a \in Actors : a # consumer[c].actor => connections'[a] = connections[a]
           /\ consumer' \in [Consumers -> Consumer]
           /\ \A d \in Consumers : /\ consumer'[d].stage = consumer[d].stage
                                   /\ consumer'[d].actor = consumer[d].actor
                                   /\ consumer'[d].next = consumer[d].next
                                   /\ d \notin {c, old} => consumer'[d] = consumer[d]
           /\ consumer'[c].mapped = "mapped"
           /\ old \in Consumers /\ old # c => consumer'[old].mapped = "replaced"
  <1> USE DEF TypeOK
  <1>1. connections' = [connections EXCEPT ![consumer[c].actor] = c]
    BY DEF Replace
  <1>2. consumer' = [d \in Consumers |->
                      IF d = c THEN [consumer[d] EXCEPT !.mapped = "mapped"]
                      ELSE IF d = connections[consumer[c].actor]
                           THEN [consumer[d] EXCEPT !.mapped = "replaced"]
                      ELSE consumer[d]]
    BY DEF Replace
  <1>3. \A d \in Consumers : /\ consumer[d] \in Consumer
                             /\ [consumer[d] EXCEPT !.mapped = "mapped"] \in Consumer
                             /\ [consumer[d] EXCEPT !.mapped = "replaced"] \in Consumer
    BY DEF Consumer
  <1>4. consumer' \in [Consumers -> Consumer]
    BY <1>2, <1>3
  <1>5. \A d \in Consumers : /\ consumer'[d].stage = consumer[d].stage
                             /\ consumer'[d].actor = consumer[d].actor
                             /\ consumer'[d].next = consumer[d].next
    BY <1>2, <1>3 DEF Consumer
  <1>6. /\ connections' \in [Actors -> Consumers \cup {None}]
        /\ connections'[consumer[c].actor] = c
        /\ \A a \in Actors : a # consumer[c].actor => connections'[a] = connections[a]
    BY <1>1
  <1>7. \A d \in Consumers :
          /\ d \notin {c, connections[consumer[c].actor]} => consumer'[d] = consumer[d]
          /\ d = c => consumer'[d].mapped = "mapped"
          /\ d # c /\ d = connections[consumer[c].actor] => consumer'[d].mapped = "replaced"
    BY <1>2, <1>3 DEF Consumer
  <1> HIDE DEF TypeOK
  <1> QED BY <1>4, <1>5, <1>6, <1>7

\* The stages a consumer's own steps lead to: put_link begins, a task that has
\* not been put into the map or is running goes on, or it has ended.
StageStep(c, stage, n) ==
    \/ stage = "validating" /\ consumer[c].stage = "unused" /\ n = 0
    \/ stage = "spawned" /\ consumer[c].stage = "validating"
    \/ stage \in {"running", "handling"} /\ Live(c)
    \/ stage = "ended"

\* Such a step keeps the invariant: it changes no handle.
LEMMA TaskStep ==
    ASSUME IInv, NEW c \in Consumers, NEW stage \in Stages, NEW n \in 0..(MaxLog + 1),
           NEW a \in Actors, n <= Len(log) + 1, StageStep(c, stage, n),
           consumer[c].stage # "unused" => consumer[c].actor = a,
           consumer' \in [Consumers -> Consumer],
           \A d \in Consumers : d # c => consumer'[d] = consumer[d],
           consumer'[c].stage = stage, consumer'[c].actor = a, consumer'[c].next = n,
           consumer'[c].mapped = consumer[c].mapped,
           connections' = connections, aborted' = aborted, log' = log, call' = call
    PROVE  IInv'
  <1>1. TypeOK'
    BY DEF IInv, TypeOK
  <1>2. consumer[c].mapped # "not yet" => consumer[c].stage # "unused" /\ consumer[c].actor = a
    BY DEF IInv, StagesAgree
  <1>3. MapAgrees'
    <2>1. \A b \in Actors : connections[b] # None => connections[b] \in Consumers
      BY DEF IInv, TypeOK
    <2> SUFFICES ASSUME NEW b \in Actors, connections[b] # None
                 PROVE  /\ consumer'[connections[b]].actor = b
                        /\ connections[b] \notin aborted
                        /\ consumer'[connections[b]].mapped = "mapped"
      BY DEF MapAgrees
    <2>2. /\ consumer[connections[b]].actor = b /\ connections[b] \notin aborted
          /\ consumer[connections[b]].mapped = "mapped"
      BY DEF IInv, MapAgrees
    <2>3. CASE connections[b] = c
      BY <1>2, <2>2, <2>3
    <2>4. CASE connections[b] # c
      BY <2>1, <2>2, <2>4
    <2> QED BY <2>3, <2>4
  <1>4. TasksMapped'
    <2> SUFFICES ASSUME NEW d \in Consumers, Live(d)', consumer'[d].mapped = "mapped",
                        d \notin aborted
                 PROVE  connections[consumer'[d].actor] = d
      BY DEF TasksMapped
    <2>1. CASE d # c
      BY <2>1 DEF IInv, TasksMapped, Live
    <2>2. CASE d = c
      <3>1. consumer[c].stage \notin {"unused", "validating"}
        BY <2>2 DEF IInv, StagesAgree
      <3>2. Live(c)
        BY <2>2, <3>1 DEF StageStep, Live
      <3> QED BY <2>2, <3>2, <1>2 DEF IInv, TasksMapped
    <2> QED BY <2>1, <2>2
  <1>5. AbortedWereMapped'
    BY DEF IInv, AbortedWereMapped, TypeOK
  <1>6. StagesAgree'
    <2>1. stage # "unused"
      BY DEF StageStep
    <2>2. stage = "validating" => consumer[c].mapped = "not yet" /\ n = 0
      BY DEF StageStep, IInv, StagesAgree
    <2> QED BY <2>1, <2>2 DEF IInv, StagesAgree
  <1> QED BY <1>1, <1>3, <1>4, <1>5, <1>6 DEF IInv

\* Taking handles out of the map aborts exactly the tasks they belong to.
LEMMA UnlinkStep ==
    ASSUME IInv, NEW A \in SUBSET Actors,
           connections' = [a \in Actors |-> IF a \in A THEN None ELSE connections[a]],
           aborted' = aborted \cup ({connections[a] : a \in A} \ {None}),
           consumer' = consumer, log' = log, call' = call
    PROVE  IInv'
  <1>1. /\ connections \in [Actors -> Consumers \cup {None}]
        /\ \A c \in Consumers : consumer[c].stage # "unused" => consumer[c].actor \in Actors
    BY DEF IInv, TypeOK, StagesAgree
  <1>2. TypeOK'
    BY <1>1 DEF IInv, TypeOK
  <1>3. MapAgrees'
    BY <1>1 DEF IInv, MapAgrees
  <1>4. TasksMapped'
    BY <1>1, KafkaAssumption DEF IInv, TasksMapped, Live
  <1>5. AbortedWereMapped'
    <2> SUFFICES ASSUME NEW c \in aborted' PROVE consumer[c].mapped # "not yet"
      BY DEF AbortedWereMapped
    <2>1. CASE c \in aborted
      BY <2>1 DEF IInv, AbortedWereMapped
    <2>2. CASE c \notin aborted
      <3>1. PICK a \in A : c = connections[a] /\ connections[a] # None
        BY <2>2
      <3> QED BY <3>1 DEF IInv, MapAgrees
    <2> QED BY <2>1, <2>2
  <1>6. StagesAgree'
    BY DEF IInv, StagesAgree
  <1> QED BY <1>2, <1>3, <1>4, <1>5, <1>6 DEF IInv

\* The insert of put_link: the new handle is nobody's and nobody aborted it.
LEMMA InsertStep ==
    ASSUME IInv, NEW c \in Consumers, insert(c)
    PROVE  IInv'
  <1> DEFINE a == consumer[c].actor
  <1> DEFINE old == connections[a]
  <1>1. /\ consumer[c].mapped = "not yet" /\ Replace(c)
        /\ aborted' = aborted /\ log' = log /\ call' = call
    BY DEF insert
  <1>2. consumer[c].stage \notin {"unused", "validating"} /\ a \in Actors
    <2>1. Live(c) \/ consumer[c].next > 0
      BY DEF insert
    <2>2. CASE Live(c)
      BY <2>2 DEF Live, IInv, StagesAgree
    <2>3. CASE consumer[c].next > 0
      <3>1. consumer[c].next # 0
        BY <2>3
      <3> QED BY <3>1 DEF IInv, StagesAgree
    <2> QED BY <2>1, <2>2, <2>3
  <1>3. old # c /\ c \notin aborted
    <2>1. old # c
      BY <1>1, <1>2, KafkaAssumption DEF IInv, MapAgrees
    <2>2. c \notin aborted
      BY <1>1 DEF IInv, AbortedWereMapped
    <2> QED BY <2>1, <2>2
  <1>4. /\ connections' \in [Actors -> Consumers \cup {None}]
        /\ connections'[a] = c
        /\ \A b \in Actors : b # a => connections'[b] = connections[b]
        /\ consumer' \in [Consumers -> Consumer]
        /\ \A d \in Consumers : /\ consumer'[d].stage = consumer[d].stage
                                /\ consumer'[d].actor = consumer[d].actor
                                /\ consumer'[d].next = consumer[d].next
                                /\ d \notin {c, old} => consumer'[d] = consumer[d]
        /\ consumer'[c].mapped = "mapped"
        /\ old \in Consumers => consumer'[old].mapped = "replaced"
    BY <1>1, <1>2, <1>3, ReplaceEffect DEF IInv
  <1>5. TypeOK'
    BY <1>1, <1>4 DEF IInv, TypeOK
  <1>6. MapAgrees'
    <2> SUFFICES ASSUME NEW b \in Actors, connections'[b] # None
                 PROVE  /\ consumer'[connections'[b]].actor = b
                        /\ connections'[b] \notin aborted
                        /\ consumer'[connections'[b]].mapped = "mapped"
      BY <1>1 DEF MapAgrees
    <2>1. CASE b = a
      BY <2>1, <1>3, <1>4
    <2>2. CASE b # a
      <3>1. connections[b] \in Consumers /\ connections'[b] = connections[b]
        BY <2>2, <1>4
      <3>2. connections[b] # old /\ connections[b] # c
        <4>1. consumer[connections[b]].actor = b /\ consumer[connections[b]].mapped = "mapped"
          BY <3>1, KafkaAssumption DEF IInv, MapAgrees
        <4>2. connections[b] # c
          BY <1>1, <4>1
        <4>3. connections[b] = old => consumer[old].actor = a
          BY <1>2, <3>1, KafkaAssumption DEF IInv, MapAgrees
        <4> QED BY <2>2, <4>1, <4>2, <4>3
      <3>3. consumer'[connections[b]] = consumer[connections[b]]
        BY <3>1, <3>2, <1>4
      <3> QED BY <3>1, <3>3, <1>4 DEF IInv, MapAgrees
    <2> QED BY <2>1, <2>2
  <1>7. TasksMapped'
    <2> SUFFICES ASSUME NEW d \in Consumers, Live(d)', consumer'[d].mapped = "mapped",
                        d \notin aborted
                 PROVE  connections'[consumer'[d].actor] = d
      BY <1>1 DEF TasksMapped
    <2>1. CASE d = c
      BY <2>1, <1>4
    <2>2. CASE d # c
      <3>1. d # old /\ consumer'[d] = consumer[d]
        BY <2>2, <1>4
      <3>2. connections[consumer[d].actor] = d
        BY <3>1 DEF IInv, TasksMapped, Live
      <3>3. consumer[d].actor # a /\ consumer[d].actor \in Actors
        BY <3>1, <3>2 DEF IInv, StagesAgree, Live
      <3> QED BY <3>1, <3>2, <3>3, <1>4
    <2> QED BY <2>1, <2>2
  <1>8. AbortedWereMapped'
    <2> SUFFICES ASSUME NEW d \in aborted PROVE consumer'[d].mapped # "not yet"
      BY <1>1 DEF AbortedWereMapped
    <2>1. d \in Consumers /\ consumer[d].mapped # "not yet"
      BY DEF IInv, TypeOK, AbortedWereMapped
    <2> QED BY <2>1, <1>4
  <1>9. StagesAgree'
    <2>1. old \in Consumers => consumer[old].stage \notin {"unused", "validating"}
      BY <1>2, KafkaAssumption DEF IInv, StagesAgree, MapAgrees
    <2>2. \A d \in Consumers : /\ consumer'[d].stage = consumer[d].stage
                               /\ consumer'[d].actor = consumer[d].actor
                               /\ consumer'[d].next = consumer[d].next
      BY <1>4
    <2>3. \A d \in Consumers : consumer[d].stage \in {"unused", "validating"}
                                  => consumer'[d] = consumer[d]
      BY <1>2, <1>4, <2>1
    <2> QED BY <2>2, <2>3 DEF IInv, StagesAgree
  <1> QED BY <1>5, <1>6, <1>7, <1>8, <1>9 DEF IInv

\* Producing changes the partition only, which grows.
LEMMA LogStep ==
    ASSUME IInv, connections' = connections, consumer' = consumer, aborted' = aborted,
           call' \in [Calls -> Call],
           log' \in Seq({"value", "tombstone"}), Len(log') <= MaxLog, Len(log) <= Len(log')
    PROVE  IInv'
  <1>1. \A c \in Consumers : consumer[c].next <= Len(log') + 1
    <2>1. \A c \in Consumers : consumer[c].next \in 0..(MaxLog + 1)
      BY DEF IInv, TypeOK, Consumer
    <2>2. \A c \in Consumers : consumer[c].next <= Len(log) + 1
      BY DEF IInv, TypeOK
    <2>3. Len(log) \in Nat /\ Len(log') \in Nat
      BY DEF IInv, TypeOK
    <2> QED BY <2>1, <2>2, <2>3, KafkaAssumption
  <1>2. TypeOK'
    BY <1>1 DEF IInv, TypeOK
  <1>3. MapAgrees' /\ TasksMapped' /\ AbortedWereMapped' /\ StagesAgree'
    BY DEF IInv, MapAgrees, TasksMapped, AbortedWereMapped, StagesAgree, Live
  <1> QED BY <1>2, <1>3 DEF IInv

\* Every handler, every step of a task and every producer keeps the invariant.
LEMMA IInvStep == IInv /\ [Next]_vars => IInv'
  <1> SUFFICES ASSUME IInv, [Next]_vars PROVE IInv'
    OBVIOUS
  <1>1. /\ consumer \in [Consumers -> Consumer] /\ log \in Seq({"value", "tombstone"})
        /\ connections \in [Actors -> Consumers \cup {None}] /\ call \in [Calls -> Call]
        /\ Len(log) \in Nat /\ Len(log) <= MaxLog
        /\ \A c \in Consumers : consumer[c].next <= Len(log) + 1
        /\ \A c \in Consumers : consumer[c].stage # "unused" => consumer[c].actor \in Actors
    <2>1. Len(log) \in Nat
      BY DEF IInv, TypeOK
    <2> QED BY <2>1 DEF IInv, TypeOK, StagesAgree
  <1>2. 0 \in 0..(MaxLog + 1) /\ Len(log) + 1 \in 0..(MaxLog + 1)
    BY <1>1, KafkaAssumption
  <1>3. ASSUME NEW c \in Consumers, NEW a \in Actors, put_link(c, a) PROVE IInv'
    <2>1. /\ consumer' \in [Consumers -> Consumer]
          /\ \A d \in Consumers : d # c => consumer'[d] = consumer[d]
          /\ consumer'[c].stage = "validating" /\ consumer'[c].actor = a
          /\ consumer'[c].next = consumer[c].next /\ consumer'[c].mapped = consumer[c].mapped
          /\ connections' = connections /\ aborted' = aborted /\ log' = log /\ call' = call
      BY <1>1, <1>3 DEF put_link, Consumer, Stages
    <2>2. consumer[c].stage = "unused" /\ consumer[c].next = 0
      BY <1>3 DEF put_link, IInv, StagesAgree
    <2>3. StageStep(c, "validating", 0) /\ "validating" \in Stages
      BY <2>2 DEF StageStep, Stages
    <2> QED BY <1>1, <1>2, <2>1, <2>2, <2>3, TaskStep
  <1>4. ASSUME NEW c \in Consumers, consumer[c].stage # "unused",
               NEW stage \in Stages, NEW n \in 0..(MaxLog + 1), n <= Len(log) + 1,
               StageStep(c, stage, n),
               consumer' = [consumer EXCEPT ![c].stage = stage, ![c].next = n],
               UNCHANGED <<connections, aborted, log, call>>
        PROVE  IInv'
    <2>1. /\ consumer' \in [Consumers -> Consumer]
          /\ \A d \in Consumers : d # c => consumer'[d] = consumer[d]
          /\ consumer'[c].stage = stage /\ consumer'[c].actor = consumer[c].actor
          /\ consumer'[c].next = n /\ consumer'[c].mapped = consumer[c].mapped
      BY <1>1, <1>4 DEF Consumer
    <2>2. connections' = connections /\ aborted' = aborted /\ log' = log /\ call' = call
      BY <1>4
    <2>3. consumer[c].actor \in Actors
      BY <1>1, <1>4
    <2> QED BY <1>4, <2>1, <2>2, <2>3, TaskStep
  <1>5. ASSUME NEW c \in Consumers, NEW stage \in Stages, consumer[c].stage # "unused",
               StageStep(c, stage, consumer[c].next),
               consumer' = [consumer EXCEPT ![c].stage = stage],
               UNCHANGED <<connections, aborted, log, call>>
        PROVE  IInv'
    <2>1. consumer' = [consumer EXCEPT ![c].stage = stage, ![c].next = consumer[c].next]
      BY <1>1, <1>5 DEF Consumer
    <2>2. consumer[c].next \in 0..(MaxLog + 1) /\ consumer[c].next <= Len(log) + 1
      BY <1>1 DEF Consumer
    <2> QED BY <1>4, <1>5, <2>1, <2>2
  <1>6. ASSUME NEW c \in Consumers, spawn(c) PROVE IInv'
    <2>1. PICK stage \in {"spawned", "ended"} : consumer' = [consumer EXCEPT ![c].stage = stage]
      BY <1>6 DEF spawn
    <2>2. StageStep(c, stage, consumer[c].next) /\ stage \in Stages
      BY <1>6, <2>1 DEF spawn, StageStep, Stages
    <2> QED BY <1>5, <1>6, <2>1, <2>2 DEF spawn
  <1>7. ASSUME NEW c \in Consumers, StartLatest(c) PROVE IInv'
    <2>1. StageStep(c, "running", Len(log) + 1) /\ "running" \in Stages
      BY <1>7 DEF StartLatest, StageStep, Stages, Live
    <2>2. Len(log) + 1 <= Len(log) + 1
      BY <1>1
    <2> QED BY <1>2, <1>4, <1>7, <2>1, <2>2 DEF StartLatest
  <1>8. ASSUME NEW c \in Consumers, next(c) PROVE IInv'
    <2> DEFINE n == consumer[c].next
    <2> DEFINE stage == IF log[n] = "value" THEN "handling" ELSE "ended"
    <2>1. consumer[c].stage = "running" /\ n \in 1..Len(log)
      BY <1>1, <1>8 DEF next
    <2>2. n + 1 \in 0..(MaxLog + 1) /\ n + 1 <= Len(log) + 1
      BY <1>1, <2>1, KafkaAssumption
    <2>3. StageStep(c, stage, n + 1) /\ stage \in Stages
      BY <2>1 DEF StageStep, Stages, Live
    <2>4. consumer' = [consumer EXCEPT ![c].stage = stage, ![c].next = n + 1]
      BY <1>1, <1>8 DEF next, Consumer
    <2>5. UNCHANGED <<connections, aborted, log, call>>
      BY <1>8 DEF next
    <2> HIDE DEF n, stage
    <2> QED BY <1>4, <2>1, <2>2, <2>3, <2>4, <2>5
  <1>9. ASSUME NEW c \in Consumers, StreamFails(c) \/ handle_message(c) \/ Stop(c) PROVE IInv'
    <2>1. PICK stage \in {"running", "ended"} :
             /\ consumer' = [consumer EXCEPT ![c].stage = stage]
             /\ stage = "ended" \/ Live(c)
             /\ consumer[c].stage # "unused"
             /\ UNCHANGED <<connections, aborted, log, call>>
      BY <1>9 DEF StreamFails, handle_message, Stop, Live
    <2>2. StageStep(c, stage, consumer[c].next) /\ stage \in Stages
      BY <2>1 DEF StageStep, Stages
    <2> QED BY <1>5, <2>1, <2>2
  <1>10. ASSUME NEW a \in Actors, delete_link(a) PROVE IInv'
    <2>1. connections' = [b \in Actors |-> IF b \in {a} THEN None ELSE connections[b]]
      BY <1>1, <1>10 DEF delete_link
    <2>2. aborted' = aborted \cup ({connections[b] : b \in {a}} \ {None})
      BY <1>10 DEF delete_link
    <2>3. consumer' = consumer /\ log' = log /\ call' = call
      BY <1>10 DEF delete_link
    <2> QED BY <2>1, <2>2, <2>3, UnlinkStep
  <1>11. CASE shutdown
    <2>1. connections' = [b \in Actors |-> IF b \in Actors THEN None ELSE connections[b]]
      BY <1>11 DEF shutdown
    <2>2. aborted' = aborted \cup ({connections[b] : b \in Actors} \ {None})
      BY <1>11 DEF shutdown
    <2>3. consumer' = consumer /\ log' = log /\ call' = call
      BY <1>11 DEF shutdown
    <2> QED BY <2>1, <2>2, <2>3, UnlinkStep
  <1>12. ASSUME NEW q \in Calls, NEW a \in Actors, publish(q, a) PROVE IInv'
    <2>1. call' \in [Calls -> Call]
      BY <1>1, <1>12 DEF publish, Call
    <2> QED BY <1>1, <1>12, <2>1, LogStep DEF publish
  <1>13. ASSUME NEW record \in {"value", "tombstone"}, Len(log) < MaxLog,
                log' = Append(log, record), call' \in [Calls -> Call],
                UNCHANGED <<connections, consumer, aborted>>
         PROVE  IInv'
    <2>1. log' \in Seq({"value", "tombstone"}) /\ Len(log') = Len(log) + 1
      BY <1>1, <1>13
    <2> QED BY <1>1, <1>13, <2>1, KafkaAssumption, LogStep
  <1>14. ASSUME NEW q \in Calls, produce(q) PROVE IInv'
    <2>1. call' \in [Calls -> Call]
      BY <1>1, <1>14 DEF produce, Call
    <2>2. UNCHANGED <<connections, consumer, aborted>>
      BY <1>14 DEF produce
    <2>3. \/ log' = log
          \/ Len(log) < MaxLog /\ log' = Append(log, "value")
      BY <1>14 DEF produce
    <2> QED BY <1>1, <1>13, <2>1, <2>2, <2>3, LogStep
  <1>15. CASE OtherProducer
    BY <1>1, <1>13, <1>15 DEF OtherProducer
  <1>16. CASE UNCHANGED vars
    BY <1>1, <1>16, LogStep DEF vars
  <1> QED BY <1>3, <1>6, <1>7, <1>8, <1>9, <1>10, <1>11, <1>12, <1>14, <1>15, <1>16, InsertStep
          DEF Next

\* The invariant holds throughout.
LEMMA Invariance == Spec => []IInv
  <1> QED BY InitIInv, IInvStep, PTL DEF Spec

\* Whatever put_link, delete_link and shutdown interleave, every handle in the
\* map is its actor's and unaborted, and every running task is in the map, about
\* to enter it, told to stop, or was replaced: for any number of links, actors
\* and records.
THEOREM KafkaTasksAccounted == Spec => []TasksAccounted
  <1>1. IInv => TasksAccounted
    BY DEF IInv, TasksAccounted, MapAgrees, TasksMapped, AbortedWereMapped
  <1> QED BY Invariance, <1>1, PTL
=============================================================================
