------------------------ MODULE NatsMessagingProofs ------------------------
(* For every set of actors, topics, bundles and calls: what the write lock  *)
(* of put_link protects in NatsMessaging, in which order link handlers take *)
(* effect, that no subscription has more dispatches than permits, that      *)
(* bundles are opened and closed as LinkResources says, and what a link is  *)
(* connected with.                                                          *)
EXTENDS NatsMessaging, SequenceTheorems, FiniteSetTheorems, TLAPS

\* The part of TypeOK that concerns links and listeners.
LinkTypes ==
    /\ actors \in [Actors -> Bundles \cup {None}]
    /\ holder \in Bundles \cup {None}
    /\ bundle \in [Bundles -> Bundle]
    /\ listener \in [Subs -> Listener]
    /\ inbox \in [Subs -> Seq(Calls)]

\* Only the holder of the write lock is between connect and insert.
OneConnects ==
    \A b \in Bundles : bundle[b].stage \in {"connecting", "subscribing"} => holder = b

\* The map and the bundles agree on who is linked.
MapAgrees ==
    /\ \A a \in Actors : actors[a] # None =>
         bundle[actors[a]].stage = "linked" /\ bundle[actors[a]].actor = a
    /\ \A b \in Bundles : bundle[b].stage = "linked" => actors[bundle[b].actor] = b

\* What is known of a bundle at each stage.
StagesAgree ==
    \A b \in Bundles :
        /\ bundle[b].stage # "unused" => bundle[b].actor \in Actors
        /\ bundle[b].stage \in {"unused", "queued", "connecting", "failed", "closed"}
             => bundle[b].connected = 0
        /\ bundle[b].stage = "linked" => bundle[b].todo = {}

\* Every subscription made so far has its listener while the connection stands.
ListensSoFar ==
    \A b \in Bundles : \A t \in Topics :
        /\ bundle[b].stage \in {"subscribing", "linked"} /\ bundle[b].connected = 1
        /\ t \in bundle[b].topics /\ t \notin bundle[b].todo
        => Alive(<<b, t>>)

\* Before the first subscription all of them are to do.
TodoAgrees ==
    \A b \in Bundles : bundle[b].stage \in {"queued", "connecting"}
                          => bundle[b].todo = bundle[b].topics

\* Listeners exist only from subscribing on and are gone when all is closed.
ListenerStages ==
    \A s \in Subs : Alive(s) =>
        bundle[s[1]].stage \in {"subscribing", "linked", "dropped", "failed"}

IInv == /\ LinkTypes /\ OneConnects /\ MapAgrees /\ StagesAgree /\ ListensSoFar
        /\ TodoAgrees /\ ListenerStages

\* A provider that starts, with an empty map, satisfies it.
LEMMA InitIInv == Init => IInv
  BY NatsAssumption DEF Init, IInv, LinkTypes, OneConnects, MapAgrees, StagesAgree,
     ListensSoFar, TodoAgrees, ListenerStages, Alive, Idle, Bundle, Stages, Listener, Subs

\* Dropping bundles changes their stage and nothing else.
LEMMA DroppedType ==
    ASSUME bundle \in [Bundles -> Bundle], NEW B
    PROVE  /\ Dropped(B) \in [Bundles -> Bundle]
           /\ \A b \in Bundles :
                /\ b \in B => Dropped(B)[b].stage = "dropped"
                /\ b \notin B => Dropped(B)[b] = bundle[b]
                /\ Dropped(B)[b].actor = bundle[b].actor
                /\ Dropped(B)[b].connected = bundle[b].connected
                /\ Dropped(B)[b].todo = bundle[b].todo
                /\ Dropped(B)[b].topics = bundle[b].topics
  BY DEF Dropped, Bundle, Stages

\* put_link up to the lock makes one bundle, which waits or has been refused.
LEMMA PutEffect ==
    ASSUME LinkTypes, NEW b \in Bundles, NEW a \in Actors, NEW v \in LinkValues,
           put_link(b, a, v)
    PROVE  /\ LinkTypes'
           /\ actors' = actors /\ holder' = holder /\ listener' = listener
           /\ bundle[b].stage = "unused"
           /\ \A c \in Bundles : c # b => bundle'[c] = bundle[c]
           /\ bundle'[b].actor = a /\ bundle'[b].connected = 0
           /\ bundle'[b].todo = bundle'[b].topics
           /\ bundle'[b].stage \in {"queued", "closed"}
  <1>1. PICK stage \in {"queued", "closed"}, T \in SUBSET Topics, ok \in BOOLEAN :
          bundle' = [bundle EXCEPT ![b] = Asked(stage, a, T, ok)]
    <2>1. CASE link_config(HostConfig, v) # None
      <3> DEFINE cfg == link_config(HostConfig, v)
      <3>1. Subscribed(cfg) \in SUBSET Topics /\ connectable(cfg) \in BOOLEAN
        BY DEF Subscribed, connectable
      <3>2. bundle' = [bundle EXCEPT ![b] =
                         Asked("queued", a, Subscribed(cfg), connectable(cfg))]
        BY <2>1 DEF put_link
      <3> QED BY <3>1, <3>2
    <2>2. CASE link_config(HostConfig, v) = None
      BY <2>2 DEF put_link
    <2> QED BY <2>1, <2>2
  <1>2. /\ Asked(stage, a, T, ok) \in Bundle
        /\ Asked(stage, a, T, ok).actor = a /\ Asked(stage, a, T, ok).connected = 0
        /\ Asked(stage, a, T, ok).todo = Asked(stage, a, T, ok).topics
        /\ Asked(stage, a, T, ok).stage = stage
    BY DEF Asked, Bundle, Stages
  <1>3. /\ actors' = actors /\ holder' = holder /\ listener' = listener /\ inbox' = inbox
        /\ bundle[b].stage = "unused"
    BY DEF put_link
  <1>4. bundle'[b] = Asked(stage, a, T, ok) /\ \A c \in Bundles : c # b => bundle'[c] = bundle[c]
    BY <1>1 DEF LinkTypes
  <1>5. LinkTypes'
    <2>1. bundle' \in [Bundles -> Bundle]
      BY <1>1, <1>2 DEF LinkTypes
    <2> QED BY <2>1, <1>3 DEF LinkTypes
  <1> QED BY <1>2, <1>3, <1>4, <1>5

\* Every step keeps the types of the map, the bundles and the listeners.
LEMMA TypeStep == IInv /\ [Next]_vars => LinkTypes'
  <1> SUFFICES ASSUME IInv, [Next]_vars PROVE LinkTypes'
    OBVIOUS
  <1> USE DEF IInv, LinkTypes
  <1>1. ASSUME NEW b \in Bundles, NEW a \in Actors, NEW v \in LinkValues,
               put_link(b, a, v)
        PROVE  LinkTypes'
    BY <1>1, PutEffect
  <1>2. ASSUME NEW b \in Bundles, lock(b) \/ connect(b) PROVE LinkTypes'
    <2>1. bundle[b] \in Bundle
      OBVIOUS
    <2>2. CASE lock(b)
      <3>1. [bundle[b] EXCEPT !.stage = "connecting"] \in Bundle
        BY <2>1 DEF Bundle, Stages
      <3> QED BY <2>2, <3>1 DEF lock
    <2>3. CASE connect(b)
      <3>1. /\ [bundle[b] EXCEPT !.stage = "subscribing", !.connected = 1] \in Bundle
            /\ [bundle[b] EXCEPT !.stage = "failed"] \in Bundle
        BY <2>1 DEF Bundle, Stages
      <3>2. holder' \in Bundles \cup {None}
        BY <2>3 DEF connect
      <3>3. bundle' \in [Bundles -> Bundle]
        BY <2>3, <3>1 DEF connect
      <3> QED BY <2>3, <3>2, <3>3 DEF connect
    <2> QED BY <1>2, <2>2, <2>3
  <1>3. ASSUME NEW b \in Bundles, insert(b) PROVE LinkTypes'
    <2>1. bundle[b].actor \in Actors
      BY <1>3 DEF insert, StagesAgree
    <2>2. bundle' \in [Bundles -> Bundle]
      <3>1. Dropped({actors[bundle[b].actor]}) \in [Bundles -> Bundle]
        BY DroppedType
      <3>2. [Dropped({actors[bundle[b].actor]})[b] EXCEPT !.stage = "linked"] \in Bundle
        <4> DEFINE d == Dropped({actors[bundle[b].actor]})[b]
        <4>1. d \in Bundle
          BY <3>1
        <4> HIDE DEF d, IInv, LinkTypes
        <4>2. [d EXCEPT !.stage = "linked"] \in Bundle
          BY <4>1 DEF Bundle, Stages
        <4> QED BY <4>2 DEF d
      <3> QED BY <1>3, <3>1, <3>2 DEF insert
    <2> QED BY <1>3, <2>1, <2>2 DEF insert
  <1>4. ASSUME NEW b \in Bundles, LoseConnection(b) \/ Disconnect(b) PROVE LinkTypes'
    <2>1. /\ [bundle[b] EXCEPT !.connected = 0] \in Bundle
          /\ [bundle[b] EXCEPT !.stage = "closed", !.connected = 0] \in Bundle
      BY DEF Bundle, Stages
    <2>2. CASE LoseConnection(b)
      BY <2>1, <2>2 DEF LoseConnection
    <2>3. CASE Disconnect(b)
      BY <2>1, <2>3 DEF Disconnect
    <2> QED BY <1>4, <2>2, <2>3
  <1>5. ASSUME NEW b \in Bundles, NEW t \in Topics, subscribe(b, t) PROVE LinkTypes'
    <2>1. bundle' \in [Bundles -> Bundle]
      <3>1. /\ [bundle[b] EXCEPT !.todo = @ \ {t}] \in Bundle
            /\ [bundle[b] EXCEPT !.stage = "failed"] \in Bundle
        BY DEF Bundle, Stages
      <3> QED BY <1>5, <3>1 DEF subscribe
    <2>2. listener' \in [Subs -> Listener]
      <3>1. <<b, t>> \in Subs
        BY DEF Subs
      <3>2. [listener[<<b, t>>] EXCEPT !.at = "next"] \in Listener
        BY <3>1 DEF Listener
      <3> QED BY <1>5, <3>1, <3>2 DEF subscribe
    <2> QED BY <1>5, <2>1, <2>2 DEF subscribe
  <1>6. ASSUME NEW a \in Actors, delete_link(a) PROVE LinkTypes'
    BY <1>6, DroppedType DEF delete_link
  <1>7. CASE shutdown
    BY <1>7, DroppedType DEF shutdown
  <1>8. ASSUME NEW s \in Subs, next(s) \/ acquire_owned(s) \/ EndListener(s) PROVE LinkTypes'
    <2>1. CASE next(s)
      <3>1. Head(inbox[s]) \in Calls /\ Tail(inbox[s]) \in Seq(Calls)
        BY <2>1 DEF next
      <3>2. [at |-> "permit", msg |-> Head(inbox[s])] \in Listener
        BY <3>1 DEF Listener
      <3> QED BY <2>1, <3>1, <3>2 DEF next
    <2>2. CASE acquire_owned(s)
      <3>1. [at |-> "next", msg |-> None] \in Listener
        BY DEF Listener
      <3> QED BY <2>2, <3>1 DEF acquire_owned
    <2>3. CASE EndListener(s)
      <3>1. [at |-> "ended", msg |-> None] \in Listener /\ <<>> \in Seq(Calls)
        BY DEF Listener
      <3> QED BY <2>3, <3>1 DEF EndListener
    <2> QED BY <1>8, <2>1, <2>2, <2>3
  <1>9. ASSUME NEW q \in Calls, NEW t \in Topics, publish(q, t) PROVE LinkTypes'
    <2>1. \A s \in Subs : inbox[s] \in Seq(Calls) /\ Append(inbox[s], q) \in Seq(Calls)
      OBVIOUS
    <2>2. inbox' \in [Subs -> Seq(Calls)]
      <3>1. CASE UNCHANGED inbox
        BY <3>1
      <3>2. ASSUME NEW R,
                   inbox' = [s \in Subs |-> IF s \in R THEN Append(inbox[s], q) ELSE inbox[s]]
            PROVE  inbox' \in [Subs -> Seq(Calls)]
        BY <2>1, <3>2
      <3> QED BY <1>9, <3>1, <3>2 DEF publish
    <2> QED BY <1>9, <2>2 DEF publish
  <1>10. ASSUME UNCHANGED <<actors, holder, bundle, listener, inbox>> PROVE LinkTypes'
    BY <1>10
  <1> QED
    BY <1>1, <1>2, <1>3, <1>4, <1>5, <1>6, <1>7, <1>8, <1>9, <1>10
       DEF Next, vars, unlink, dispatch_msg, read, clone_client

\* A step of one bundle that neither links nor unlinks it.
LEMMA OneBundleStep ==
    ASSUME IInv, LinkTypes', NEW b \in Bundles, actors' = actors,
           \A c \in Bundles : c # b => bundle'[c] = bundle[c],
           bundle'[b].stage = "linked" <=> bundle[b].stage = "linked",
           bundle[b].stage # "unused" => bundle'[b].actor = bundle[b].actor
    PROVE  MapAgrees'
  <1>1. \A a \in Actors : actors[a] # None =>
          bundle'[actors[a]].stage = "linked" /\ bundle'[actors[a]].actor = a
    <2> SUFFICES ASSUME NEW a \in Actors, actors[a] # None
                 PROVE  bundle'[actors[a]].stage = "linked" /\ bundle'[actors[a]].actor = a
      OBVIOUS
    <2>1. actors[a] \in Bundles
      BY DEF IInv, LinkTypes
    <2>2. bundle[actors[a]].stage = "linked" /\ bundle[actors[a]].actor = a
      BY DEF IInv, MapAgrees
    <2>3. CASE actors[a] = b
      BY <2>2, <2>3
    <2>4. CASE actors[a] # b
      BY <2>1, <2>2, <2>4
    <2> QED BY <2>3, <2>4
  <1>2. \A c \in Bundles : bundle[c].stage = "linked" => actors[bundle[c].actor] = c
    BY DEF IInv, MapAgrees
  <1>3. ASSUME NEW c \in Bundles, bundle'[c].stage = "linked"
        PROVE  actors[bundle'[c].actor] = c
    <2>1. CASE c = b
      <3>1. bundle[b].stage = "linked"
        BY <1>3, <2>1
      <3>2. bundle'[b].actor = bundle[b].actor
        BY <3>1
      <3> QED BY <1>2, <2>1, <3>1, <3>2
    <2>2. CASE c # b
      <3>1. bundle'[c] = bundle[c]
        BY <2>2
      <3> QED BY <1>2, <1>3, <3>1
    <2> QED BY <2>1, <2>2
  <1> QED BY <1>1, <1>3 DEF MapAgrees

\* The same for what is known of the bundle itself and of the lock.
LEMMA OneBundleStages ==
    ASSUME IInv, LinkTypes', NEW b \in Bundles,
           \A c \in Bundles : c # b => bundle'[c] = bundle[c],
           bundle'[b].actor \in Actors,
           bundle'[b].stage \in {"unused", "queued", "connecting", "failed", "closed"}
             => bundle'[b].connected = 0,
           bundle'[b].stage = "linked" => bundle'[b].todo = {},
           bundle'[b].stage \in {"connecting", "subscribing"} => holder' = b,
           holder' = holder \/ holder = None \/ holder = b
    PROVE  OneConnects' /\ StagesAgree'
  <1> USE NatsAssumption DEF IInv, LinkTypes
  <1>1. OneConnects'
    BY DEF OneConnects
  <1>2. StagesAgree'
    BY DEF StagesAgree
  <1> QED BY <1>1, <1>2

\* delete_link and shutdown: the entries of A are taken out and dropped.
LEMMA ReleaseStep ==
    ASSUME IInv, NEW A \in SUBSET Actors, holder' = holder,
           actors' = [a \in Actors |-> IF a \in A THEN None ELSE actors[a]],
           bundle' = Dropped({actors[a] : a \in A})
    PROVE  OneConnects' /\ MapAgrees' /\ StagesAgree'
  <1> USE NatsAssumption DEF IInv, LinkTypes
  <1> DEFINE Old == {actors[a] : a \in A}
  <1>1. \A b \in Bundles : /\ b \in Old => bundle'[b].stage = "dropped"
                           /\ b \notin Old => bundle'[b] = bundle[b]
                           /\ bundle'[b].actor = bundle[b].actor
                           /\ bundle'[b].connected = bundle[b].connected
                           /\ bundle'[b].todo = bundle[b].todo
    BY DroppedType
  <1>2. \A b \in Bundles : b \in Old \/ bundle'[b].stage = bundle[b].stage
    BY <1>1
  <1>3. OneConnects'
    BY <1>1, <1>2 DEF OneConnects
  <1>4. \A b \in Bundles : b \in Old => bundle[b].stage = "linked"
    BY DEF MapAgrees
  <1>5. StagesAgree'
    <2>1. ASSUME NEW b \in Bundles
          PROVE  /\ bundle'[b].stage # "unused" => bundle'[b].actor \in Actors
                 /\ bundle'[b].stage \in {"unused", "queued", "connecting", "failed", "closed"}
                      => bundle'[b].connected = 0
                 /\ bundle'[b].stage = "linked" => bundle'[b].todo = {}
      <3>1. CASE b \in Old
        BY <3>1, <1>1, <1>4 DEF StagesAgree
      <3>2. CASE b \notin Old
        <4>1. bundle'[b] = bundle[b]
          BY <3>2, <1>1
        <4> HIDE DEF LinkTypes, Old
        <4> QED BY <4>1 DEF StagesAgree
      <3> QED BY <3>1, <3>2
    <2> QED BY <2>1 DEF StagesAgree
  <1>6. ASSUME NEW a \in Actors, actors'[a] # None
        PROVE  bundle'[actors'[a]].stage = "linked" /\ bundle'[actors'[a]].actor = a
    <2>1. a \notin A /\ actors'[a] = actors[a] /\ actors[a] \in Bundles
      BY <1>6
    <2>2. actors[a] \notin Old
      BY <2>1 DEF MapAgrees
    <2> QED BY <2>1, <2>2, <1>1 DEF MapAgrees
  <1>7. ASSUME NEW b \in Bundles, bundle'[b].stage = "linked"
        PROVE  actors'[bundle'[b].actor] = b
    <2>1. b \notin Old /\ bundle'[b] = bundle[b]
      BY <1>1, <1>2, <1>7
    <2>2. actors[bundle[b].actor] = b /\ bundle[b].actor \in Actors
      BY <1>7, <2>1 DEF MapAgrees, StagesAgree
    <2> QED BY <2>1, <2>2
  <1> QED BY <1>3, <1>5, <1>6, <1>7 DEF MapAgrees

\* put_link's insert: the new bundle is linked, the old one dropped.
LEMMA InsertStep ==
    ASSUME IInv, NEW b \in Bundles, insert(b)
    PROVE  OneConnects' /\ MapAgrees' /\ StagesAgree'
  <1> USE NatsAssumption DEF IInv, LinkTypes
  <1> DEFINE a == bundle[b].actor
  <1> DEFINE old == actors[a]
  <1>1. /\ bundle[b].stage = "subscribing" /\ bundle[b].todo = {}
        /\ actors' = [actors EXCEPT ![a] = b] /\ holder' = None
        /\ bundle' = [Dropped({old}) EXCEPT ![b].stage = "linked"]
    BY DEF insert
  <1>2. a \in Actors /\ holder = b /\ old # b
    BY <1>1 DEF StagesAgree, OneConnects, MapAgrees
  <1>3. /\ Dropped({old}) \in [Bundles -> Bundle]
        /\ \A c \in Bundles : /\ c = old => Dropped({old})[c].stage = "dropped"
                              /\ c # old => Dropped({old})[c] = bundle[c]
                              /\ Dropped({old})[c].actor = bundle[c].actor
                              /\ Dropped({old})[c].connected = bundle[c].connected
                              /\ Dropped({old})[c].todo = bundle[c].todo
    BY DroppedType
  <1>4. /\ bundle'[b] = [bundle[b] EXCEPT !.stage = "linked"]
        /\ \A c \in Bundles : c # b => bundle'[c] = Dropped({old})[c]
    BY <1>1, <1>2, <1>3
  <1>5. /\ bundle'[b].stage = "linked" /\ bundle'[b].actor = a /\ bundle'[b].todo = {}
        /\ bundle'[b].connected = bundle[b].connected
    <2>1. bundle[b] \in Bundle
      OBVIOUS
    <2>2. bundle'[b] = [bundle[b] EXCEPT !.stage = "linked"]
      BY <1>4
    <2>3. bundle[b].todo = {}
      BY <1>1
    <2> HIDE DEF IInv, LinkTypes
    <2> QED BY <2>1, <2>2, <2>3 DEF Bundle
  <1>6. OneConnects'
    BY <1>2, <1>3, <1>4, <1>5 DEF OneConnects
  <1>7. old \in Bundles => bundle[old].stage = "linked" /\ bundle[old].actor = a
    BY <1>2 DEF MapAgrees
  <1>8. StagesAgree'
    <2>1. ASSUME NEW c \in Bundles
          PROVE  /\ bundle'[c].stage # "unused" => bundle'[c].actor \in Actors
                 /\ bundle'[c].stage \in {"unused", "queued", "connecting", "failed", "closed"}
                      => bundle'[c].connected = 0
                 /\ bundle'[c].stage = "linked" => bundle'[c].todo = {}
      <3>1. CASE c = b
        BY <3>1, <1>2, <1>5
      <3>2. CASE c # b /\ c = old
        BY <3>2, <1>2, <1>3, <1>4, <1>7
      <3>3. CASE c # b /\ c # old
        <4>1. bundle'[c] = bundle[c]
          BY <3>3, <1>3, <1>4
        <4> QED BY <4>1 DEF StagesAgree
      <3> QED BY <3>1, <3>2, <3>3
    <2> QED BY <2>1 DEF StagesAgree
  <1>9. ASSUME NEW x \in Actors, actors'[x] # None
        PROVE  bundle'[actors'[x]].stage = "linked" /\ bundle'[actors'[x]].actor = x
    <2>1. CASE x = a
      BY <1>1, <1>2, <1>5, <2>1
    <2>2. CASE x # a
      <3>1. actors'[x] = actors[x] /\ actors[x] \in Bundles
        BY <1>1, <1>9, <2>2
      <3>2. bundle[actors[x]].stage = "linked" /\ bundle[actors[x]].actor = x
        BY <3>1 DEF MapAgrees
      <3>3. actors[x] # b /\ actors[x] # old
        BY <1>1, <1>7, <2>2, <3>1, <3>2
      <3> QED BY <1>3, <1>4, <3>1, <3>2, <3>3
    <2> QED BY <2>1, <2>2
  <1>10. ASSUME NEW c \in Bundles, bundle'[c].stage = "linked"
         PROVE  actors'[bundle'[c].actor] = c
    <2>1. CASE c = b
      BY <1>1, <1>2, <1>5, <2>1
    <2>2. CASE c # b
      <3>1. c # old /\ bundle'[c] = bundle[c]
        BY <1>3, <1>4, <1>10, <2>2
      <3>2. actors[bundle[c].actor] = c /\ bundle[c].actor \in Actors
        BY <1>10, <3>1 DEF MapAgrees, StagesAgree
      <3> QED BY <1>1, <3>1, <3>2
    <2> QED BY <2>1, <2>2
  <1> QED BY <1>6, <1>8, <1>9, <1>10 DEF MapAgrees

\* No step lets the map, the lock and the bundles disagree.
LEMMA MapStep == IInv /\ [Next]_vars => OneConnects' /\ MapAgrees' /\ StagesAgree'
  <1> SUFFICES ASSUME IInv, [Next]_vars PROVE OneConnects' /\ MapAgrees' /\ StagesAgree'
    OBVIOUS
  <1>0. LinkTypes'
    BY TypeStep
  <1>1. ASSUME NEW b \in Bundles, NEW a \in Actors, NEW v \in LinkValues,
               put_link(b, a, v)
        PROVE  OneConnects' /\ MapAgrees' /\ StagesAgree'
    <2>1. /\ actors' = actors /\ holder' = holder /\ bundle[b].stage = "unused"
          /\ \A c \in Bundles : c # b => bundle'[c] = bundle[c]
          /\ bundle'[b].actor = a /\ bundle'[b].connected = 0
          /\ bundle'[b].stage \in {"queued", "closed"}
      BY <1>1, PutEffect DEF IInv
    <2>2. MapAgrees'
      BY <1>0, <2>1, OneBundleStep
    <2>3. OneConnects' /\ StagesAgree'
      BY <1>0, <2>1, OneBundleStages
    <2> QED BY <2>2, <2>3
  <1>2. ASSUME NEW b \in Bundles, lock(b)
        PROVE  OneConnects' /\ MapAgrees' /\ StagesAgree'
    <2>1. /\ actors' = actors /\ holder' = b /\ holder = None /\ bundle[b].stage = "queued"
          /\ bundle[b] \in Bundle /\ bundle[b].actor \in Actors /\ bundle[b].connected = 0
          /\ \A c \in Bundles : c # b => bundle'[c] = bundle[c]
          /\ bundle'[b] = [bundle[b] EXCEPT !.stage = "connecting"]
      BY <1>2 DEF lock, Turn, IInv, LinkTypes, StagesAgree
    <2>2. /\ bundle'[b].stage = "connecting" /\ bundle'[b].actor = bundle[b].actor
          /\ bundle'[b].connected = 0
      BY <2>1 DEF Bundle
    <2>3. MapAgrees'
      BY <1>0, <2>1, <2>2, OneBundleStep
    <2>4. OneConnects' /\ StagesAgree'
      BY <1>0, <2>1, <2>2, OneBundleStages
    <2> QED BY <2>3, <2>4
  <1>3. ASSUME NEW b \in Bundles, connect(b)
        PROVE  OneConnects' /\ MapAgrees' /\ StagesAgree'
    <2>1. /\ actors' = actors /\ holder = b /\ bundle[b].stage = "connecting"
          /\ bundle[b] \in Bundle /\ bundle[b].actor \in Actors /\ bundle[b].connected = 0
          /\ \A c \in Bundles : c # b => bundle'[c] = bundle[c]
          /\ \/ /\ bundle'[b] = [bundle[b] EXCEPT !.stage = "subscribing", !.connected = 1]
                /\ holder' = b
             \/ bundle'[b] = [bundle[b] EXCEPT !.stage = "failed"]
      BY <1>3 DEF connect, IInv, LinkTypes, StagesAgree, OneConnects
    <2>2. /\ bundle'[b].actor = bundle[b].actor
          /\ \/ bundle'[b].stage = "subscribing" /\ holder' = b
             \/ bundle'[b].stage = "failed" /\ bundle'[b].connected = 0
      BY <2>1 DEF Bundle
    <2>3. MapAgrees'
      BY <1>0, <2>1, <2>2, OneBundleStep
    <2>4. OneConnects' /\ StagesAgree'
      BY <1>0, <2>1, <2>2, OneBundleStages
    <2> QED BY <2>3, <2>4
  <1>4. ASSUME NEW b \in Bundles, NEW t \in Topics, subscribe(b, t)
        PROVE  OneConnects' /\ MapAgrees' /\ StagesAgree'
    <2>1. /\ actors' = actors /\ holder = b /\ bundle[b].stage = "subscribing"
          /\ bundle[b] \in Bundle /\ bundle[b].actor \in Actors
          /\ \A c \in Bundles : c # b => bundle'[c] = bundle[c]
          /\ \/ bundle'[b] = [bundle[b] EXCEPT !.todo = @ \ {t}] /\ holder' = b
             \/ bundle[b].connected = 0 /\ bundle'[b] = [bundle[b] EXCEPT !.stage = "failed"]
      BY <1>4 DEF subscribe, IInv, LinkTypes, StagesAgree, OneConnects
    <2>2. /\ bundle'[b].actor = bundle[b].actor
          /\ \/ bundle'[b].stage = "subscribing" /\ holder' = b
             \/ bundle'[b].stage = "failed" /\ bundle'[b].connected = 0
      BY <2>1 DEF Bundle
    <2>3. MapAgrees'
      BY <1>0, <2>1, <2>2, OneBundleStep
    <2>4. OneConnects' /\ StagesAgree'
      BY <1>0, <2>1, <2>2, OneBundleStages
    <2> QED BY <2>3, <2>4
  <1>5. ASSUME NEW b \in Bundles, LoseConnection(b)
        PROVE  OneConnects' /\ MapAgrees' /\ StagesAgree'
    <2>1. /\ actors' = actors /\ holder' = holder /\ bundle[b] \in Bundle
          /\ bundle[b].connected = 1
          /\ \A c \in Bundles : c # b => bundle'[c] = bundle[c]
          /\ bundle'[b] = [bundle[b] EXCEPT !.connected = 0]
      BY <1>5 DEF LoseConnection, IInv, LinkTypes
    <2>2. /\ bundle'[b].actor = bundle[b].actor /\ bundle'[b].stage = bundle[b].stage
          /\ bundle'[b].todo = bundle[b].todo /\ bundle'[b].connected = 0
      BY <2>1 DEF Bundle
    <2>3. MapAgrees'
      BY <1>0, <2>1, <2>2, OneBundleStep
    <2>4. /\ bundle[b].actor \in Actors
          /\ bundle[b].stage = "linked" => bundle[b].todo = {}
          /\ bundle[b].stage \in {"connecting", "subscribing"} => holder = b
      BY <2>1 DEF IInv, StagesAgree, OneConnects
    <2>5. OneConnects' /\ StagesAgree'
      BY <1>0, <2>1, <2>2, <2>4, OneBundleStages
    <2> QED BY <2>3, <2>5
  <1>6. ASSUME NEW b \in Bundles, Disconnect(b)
        PROVE  OneConnects' /\ MapAgrees' /\ StagesAgree'
    <2>1. /\ actors' = actors /\ holder' = holder /\ bundle[b] \in Bundle
          /\ bundle[b].stage \in {"dropped", "failed"} /\ bundle[b].actor \in Actors
          /\ \A c \in Bundles : c # b => bundle'[c] = bundle[c]
          /\ bundle'[b] = [bundle[b] EXCEPT !.stage = "closed", !.connected = 0]
      BY <1>6 DEF Disconnect, IInv, LinkTypes, StagesAgree
    <2>2. /\ bundle'[b].actor = bundle[b].actor /\ bundle'[b].stage = "closed"
          /\ bundle'[b].connected = 0
      BY <2>1 DEF Bundle
    <2>3. MapAgrees'
      BY <1>0, <2>1, <2>2, OneBundleStep
    <2>4. OneConnects' /\ StagesAgree'
      BY <1>0, <2>1, <2>2, OneBundleStages
    <2> QED BY <2>3, <2>4
  <1>7. ASSUME NEW a \in Actors, delete_link(a)
        PROVE  OneConnects' /\ MapAgrees' /\ StagesAgree'
    <2>1. /\ holder' = holder /\ {a} \in SUBSET Actors
          /\ actors' = [x \in Actors |-> IF x \in {a} THEN None ELSE actors[x]]
      BY <1>7 DEF delete_link, IInv, LinkTypes
    <2>2. bundle' = Dropped({actors[x] : x \in {a}})
      <3>1. {actors[x] : x \in {a}} = {actors[a]}
        OBVIOUS
      <3> QED BY <1>7, <3>1 DEF delete_link
    <2> QED BY <2>1, <2>2, ReleaseStep
  <1>8. CASE shutdown
    <2>1. /\ holder' = holder /\ Actors \in SUBSET Actors
          /\ actors' = [x \in Actors |-> IF x \in Actors THEN None ELSE actors[x]]
          /\ bundle' = Dropped({actors[x] : x \in Actors})
      BY <1>8 DEF shutdown
    <2> QED BY <2>1, ReleaseStep
  <1>9. ASSUME UNCHANGED <<actors, holder, bundle>>
        PROVE  OneConnects' /\ MapAgrees' /\ StagesAgree'
    BY <1>9 DEF IInv, OneConnects, MapAgrees, StagesAgree
  <1> QED
    BY <1>1, <1>2, <1>3, <1>4, <1>5, <1>6, <1>7, <1>8, <1>9, InsertStep
       DEF Next, vars, unlink, next, acquire_owned, EndListener, dispatch_msg, read,
           clone_client, publish

\* A step that leaves the tasks alone: what it must do to the bundles.
LEMMA KeepListening ==
    ASSUME IInv, listener' = listener,
           \A c \in Bundles :
             \/ bundle'[c] = bundle[c]
             \/ /\ /\ bundle'[c].stage \in {"subscribing", "linked"}
                   /\ bundle'[c].connected = 1
                   => \/ bundle'[c].todo = bundle'[c].topics
                      \/ /\ bundle[c].stage \in {"subscribing", "linked"}
                         /\ bundle[c].connected = 1 /\ bundle'[c].todo = bundle[c].todo
                         /\ bundle'[c].topics = bundle[c].topics
                /\ bundle'[c].stage \in {"queued", "connecting"}
                   => bundle'[c].todo = bundle'[c].topics
                /\ \/ bundle'[c].stage \in {"subscribing", "linked", "dropped", "failed"}
                   \/ bundle[c].stage \notin {"subscribing", "linked", "dropped", "failed"}
                   \/ \A t \in Topics : ~Alive(<<c, t>>)
    PROVE  ListensSoFar' /\ TodoAgrees' /\ ListenerStages'
  <1>1. \A s : Alive(s)' <=> Alive(s)
    BY DEF Alive
  <1>2. ASSUME NEW c \in Bundles, NEW t \in Topics,
               bundle'[c].stage \in {"subscribing", "linked"}, bundle'[c].connected = 1,
               t \in bundle'[c].topics, t \notin bundle'[c].todo
        PROVE  Alive(<<c, t>>)
    BY <1>2 DEF IInv, ListensSoFar
  <1>3. ListensSoFar'
    BY <1>1, <1>2 DEF ListensSoFar, Alive
  <1>4. TodoAgrees'
    BY DEF IInv, TodoAgrees
  <1>5. ASSUME NEW c \in Bundles, NEW t \in Topics, Alive(<<c, t>>)
        PROVE  bundle'[c].stage \in {"subscribing", "linked", "dropped", "failed"}
    <2>1. <<c, t>> \in Subs /\ <<c, t>>[1] = c
      BY DEF Subs
    <2>2. bundle[c].stage \in {"subscribing", "linked", "dropped", "failed"}
      BY <1>5, <2>1 DEF IInv, ListenerStages
    <2> QED BY <1>5, <2>2
  <1>6. ListenerStages'
    BY <1>1, <1>5 DEF ListenerStages, Subs
  <1> QED BY <1>3, <1>4, <1>6

\* A listener that is not the one of topic t of bundle b is left alone by
\* subscribe; that one is started.
LEMMA SubscribeListens ==
    ASSUME IInv, NEW b \in Bundles, NEW t \in Topics, subscribe(b, t)
    PROVE  ListensSoFar' /\ TodoAgrees' /\ ListenerStages'
  <1> USE DEF IInv, LinkTypes
  <1>1. bundle[b] \in Bundle /\ bundle[b].stage = "subscribing"
    BY DEF subscribe
  <1>2. CASE bundle[b].connected = 0
    <2>1. /\ listener' = listener /\ bundle' = [bundle EXCEPT ![b].stage = "failed"]
      BY <1>2 DEF subscribe
    <2>2. /\ \A c \in Bundles : c # b => bundle'[c] = bundle[c]
          /\ bundle'[b] = [bundle[b] EXCEPT !.stage = "failed"]
      BY <2>1
    <2>3. bundle'[b].stage = "failed"
      BY <1>1, <2>2 DEF Bundle
    <2> QED BY <2>1, <2>2, <2>3, KeepListening
  <1>3. CASE bundle[b].connected = 1
    <2>1. /\ bundle' = [bundle EXCEPT ![b].todo = @ \ {t}]
          /\ listener' = [listener EXCEPT ![<<b, t>>].at = "next"]
      BY <1>3 DEF subscribe
    <2>2. <<b, t>> \in Subs
      BY DEF Subs
    <2>3. /\ \A s \in Subs : s # <<b, t>> => listener'[s] = listener[s]
          /\ listener'[<<b, t>>].at = "next"
      BY <2>1, <2>2 DEF Listener
    <2>4. \A s \in Subs : Alive(s)' <=> (Alive(s) \/ s = <<b, t>>)
      BY <2>3 DEF Alive
    <2>5. /\ \A c \in Bundles : c # b => bundle'[c] = bundle[c]
          /\ bundle'[b] = [bundle[b] EXCEPT !.todo = bundle[b].todo \ {t}]
      BY <2>1
    <2>6. /\ bundle'[b].stage = "subscribing" /\ bundle'[b].todo = bundle[b].todo \ {t}
          /\ bundle'[b].topics = bundle[b].topics /\ bundle'[b].connected = 1
      BY <1>1, <1>3, <2>5 DEF Bundle
    <2>7. ASSUME NEW c \in Bundles, NEW u \in Topics,
                 bundle'[c].stage \in {"subscribing", "linked"}, bundle'[c].connected = 1,
                 u \in bundle'[c].topics, u \notin bundle'[c].todo
          PROVE  Alive(<<c, u>>)'
      <3>1. <<c, u>> \in Subs
        BY DEF Subs
      <3>2. CASE c = b /\ u = t
        BY <2>4, <3>1, <3>2
      <3>3. CASE c = b /\ u # t
        BY <1>1, <1>3, <2>4, <2>6, <2>7, <3>1, <3>3 DEF ListensSoFar
      <3>4. CASE c # b
        BY <2>4, <2>5, <2>7, <3>1, <3>4 DEF ListensSoFar
      <3> QED BY <3>2, <3>3, <3>4
    <2>8. ListensSoFar'
      BY <2>7 DEF ListensSoFar
    <2>9. TodoAgrees'
      BY <2>5, <2>6 DEF TodoAgrees
    <2>10. ASSUME NEW s \in Subs, Alive(s)'
           PROVE  bundle'[s[1]].stage \in {"subscribing", "linked", "dropped", "failed"}
      <3>1. s[1] \in Bundles
        BY DEF Subs
      <3>2. CASE s[1] = b
        BY <2>6, <3>2
      <3>3. CASE s[1] # b
        <4>1. s # <<b, t>>
          BY <3>3
        <4> QED BY <2>4, <2>5, <2>10, <3>1, <3>3, <4>1 DEF ListenerStages
      <3> QED BY <3>2, <3>3
    <2>11. ListenerStages'
      BY <2>10 DEF ListenerStages
    <2> QED BY <2>8, <2>9, <2>11
  <1> QED BY <1>2, <1>3 DEF subscribe

\* A task takes a message, gets a permit, or ends after it was aborted or its
\* connection was lost.
LEMMA TaskListens ==
    ASSUME IInv, NEW s \in Subs, next(s) \/ acquire_owned(s) \/ EndListener(s)
    PROVE  ListensSoFar' /\ TodoAgrees' /\ ListenerStages'
  <1> USE DEF IInv, LinkTypes
  <1>1. bundle' = bundle
    BY DEF next, acquire_owned, EndListener
  <1>2. TodoAgrees'
    BY <1>1 DEF TodoAgrees
  <1>3. \A r \in Subs : r # s => (Alive(r)' <=> Alive(r))
    BY DEF next, acquire_owned, EndListener, Alive
  <1>4. Alive(s)
    BY DEF next, acquire_owned, EndListener, Alive
  <1>5. Alive(s)' \/ bundle[s[1]].stage = "dropped" \/ bundle[s[1]].connected = 0
    <2>1. CASE next(s) \/ acquire_owned(s)
      <3>1. listener'[s].at \in {"next", "permit"}
        BY <2>1 DEF next, acquire_owned
      <3> QED BY <3>1 DEF Alive
    <2>2. CASE EndListener(s)
      BY <2>2 DEF EndListener
    <2> QED BY <2>1, <2>2
  <1>6. ListenerStages'
    BY <1>1, <1>3, <1>4 DEF ListenerStages
  <1>7. ASSUME NEW c \in Bundles, NEW t \in Topics,
               bundle[c].stage \in {"subscribing", "linked"}, bundle[c].connected = 1,
               t \in bundle[c].topics, t \notin bundle[c].todo
        PROVE  Alive(<<c, t>>)'
    <2>1. <<c, t>> \in Subs /\ Alive(<<c, t>>)
      BY <1>7 DEF Subs, ListensSoFar
    <2>2. CASE <<c, t>> = s
      <3>1. s[1] = c
        BY <2>2
      <3>2. Alive(s)'
        BY <1>5, <1>7, <3>1
      <3> QED BY <2>2, <3>2 DEF Alive
    <2>3. CASE <<c, t>> # s
      BY <1>3, <2>1, <2>3
    <2> QED BY <2>2, <2>3
  <1>8. ListensSoFar'
    BY <1>1, <1>7 DEF ListensSoFar
  <1> QED BY <1>2, <1>6, <1>8

\* Dropping bundles leaves the listeners that are still wanted.
LEMMA DroppedListens ==
    ASSUME IInv, listener' = listener, NEW B, bundle' = Dropped(B)
    PROVE  ListensSoFar' /\ TodoAgrees' /\ ListenerStages'
  <1>1. \A c \in Bundles : \/ bundle'[c] = bundle[c]
                           \/ bundle'[c].stage = "dropped"
    BY DroppedType DEF IInv, LinkTypes
  <1> QED BY <1>1, KeepListening

\* insert drops the old bundle and links one whose subscriptions are all made.
LEMMA InsertListens ==
    ASSUME IInv, NEW b \in Bundles, insert(b)
    PROVE  ListensSoFar' /\ TodoAgrees' /\ ListenerStages'
  <1> USE NatsAssumption DEF IInv, LinkTypes
  <1> DEFINE old == actors[bundle[b].actor]
  <1>1. /\ bundle[b] \in Bundle /\ bundle[b].stage = "subscribing"
        /\ listener' = listener /\ bundle[b].actor \in Actors
        /\ bundle' = [Dropped({old}) EXCEPT ![b].stage = "linked"]
    BY DEF insert, StagesAgree
  <1>2. old # b
    <2>1. old # None => bundle[old].stage = "linked"
      BY <1>1 DEF MapAgrees
    <2> QED BY <1>1, <2>1
  <1>3. /\ Dropped({old}) \in [Bundles -> Bundle]
        /\ \A c \in Bundles : /\ c = old => Dropped({old})[c].stage = "dropped"
                              /\ c # old => Dropped({old})[c] = bundle[c]
    BY DroppedType
  <1>4. \A c \in Bundles : c # b =>
          bundle'[c] = bundle[c] \/ bundle'[c].stage = "dropped"
    BY <1>1, <1>3
  <1>5. bundle'[b] = [bundle[b] EXCEPT !.stage = "linked"]
    BY <1>1, <1>2, <1>3
  <1>6. /\ bundle'[b].stage = "linked" /\ bundle'[b].todo = bundle[b].todo
        /\ bundle'[b].topics = bundle[b].topics
        /\ bundle'[b].connected = bundle[b].connected
    <2> HIDE DEF IInv, LinkTypes
    <2> QED BY <1>1, <1>5 DEF Bundle
  <1> HIDE DEF IInv, LinkTypes
  <1>7. ASSUME NEW c \in Bundles
        PROVE
             \/ bundle'[c] = bundle[c]
             \/ /\ /\ bundle'[c].stage \in {"subscribing", "linked"}
                   /\ bundle'[c].connected = 1
                   => \/ bundle'[c].todo = bundle'[c].topics
                      \/ /\ bundle[c].stage \in {"subscribing", "linked"}
                         /\ bundle[c].connected = 1 /\ bundle'[c].todo = bundle[c].todo
                         /\ bundle'[c].topics = bundle[c].topics
                /\ bundle'[c].stage \in {"queued", "connecting"}
                   => bundle'[c].todo = bundle'[c].topics
                /\ \/ bundle'[c].stage \in {"subscribing", "linked", "dropped", "failed"}
                   \/ bundle[c].stage \notin {"subscribing", "linked", "dropped", "failed"}
                   \/ \A t \in Topics : ~Alive(<<c, t>>)
    <2>1. CASE c = b
      BY <1>1, <1>6, <2>1
    <2>2. CASE c # b
      BY <1>4, <2>2
    <2> QED BY <2>1, <2>2
  <1>8. listener' = listener
    BY <1>1
  <1> QED BY <1>7, <1>8, KeepListening

\* No step takes a listener from a link that needs it, and none outlives what
\* it listens for.
LEMMA ListenStep == IInv /\ [Next]_vars => ListensSoFar' /\ TodoAgrees' /\ ListenerStages'
  <1> SUFFICES ASSUME IInv, [Next]_vars
               PROVE  ListensSoFar' /\ TodoAgrees' /\ ListenerStages'
    OBVIOUS
  <1>1. ASSUME NEW b \in Bundles, NEW a \in Actors, NEW v \in LinkValues,
               put_link(b, a, v)
        PROVE  ListensSoFar' /\ TodoAgrees' /\ ListenerStages'
    <2>1. /\ listener' = listener /\ bundle[b].stage = "unused"
          /\ \A c \in Bundles : c # b => bundle'[c] = bundle[c]
          /\ bundle'[b].todo = bundle'[b].topics
          /\ bundle'[b].stage \in {"queued", "closed"}
      BY <1>1, PutEffect DEF IInv
    <2> QED BY <2>1, KeepListening
  <1>2. ASSUME NEW b \in Bundles, lock(b) \/ connect(b)
        PROVE  ListensSoFar' /\ TodoAgrees' /\ ListenerStages'
    <2>1. /\ listener' = listener /\ bundle[b].stage \in {"queued", "connecting"}
          /\ \A c \in Bundles : c # b => bundle'[c] = bundle[c]
          /\ bundle[b] \in Bundle /\ bundle[b].todo = bundle[b].topics
          /\ \/ bundle'[b] = [bundle[b] EXCEPT !.stage = "connecting"]
             \/ bundle'[b] = [bundle[b] EXCEPT !.stage = "subscribing", !.connected = 1]
             \/ bundle'[b] = [bundle[b] EXCEPT !.stage = "failed"]
      BY <1>2 DEF lock, connect, IInv, LinkTypes, TodoAgrees
    <2>2. bundle'[b].todo = bundle'[b].topics
      BY <2>1 DEF Bundle
    <2>3. bundle[b].stage \notin {"subscribing", "linked", "dropped", "failed"}
      BY <2>1
    <2>4. /\ listener' = listener
          /\ \A c \in Bundles : c # b => bundle'[c] = bundle[c]
      BY <2>1
    <2> QED BY <2>2, <2>3, <2>4, KeepListening
  <1>3. ASSUME NEW b \in Bundles, LoseConnection(b)
        PROVE  ListensSoFar' /\ TodoAgrees' /\ ListenerStages'
    <2>1. /\ listener' = listener /\ bundle[b] \in Bundle
          /\ \A c \in Bundles : c # b => bundle'[c] = bundle[c]
          /\ bundle'[b] = [bundle[b] EXCEPT !.connected = 0]
          /\ bundle[b].stage \in {"queued", "connecting"} => bundle[b].todo = bundle[b].topics
      BY <1>3 DEF LoseConnection, IInv, LinkTypes, TodoAgrees
    <2>2. /\ bundle'[b].stage = bundle[b].stage /\ bundle'[b].connected = 0
          /\ bundle'[b].todo = bundle[b].todo /\ bundle'[b].topics = bundle[b].topics
      BY <2>1 DEF Bundle
    <2>3. /\ listener' = listener
          /\ \A c \in Bundles : c # b => bundle'[c] = bundle[c]
          /\ bundle'[b].stage \in {"queued", "connecting"}
               => bundle'[b].todo = bundle'[b].topics
          /\ bundle'[b].connected # 1
      BY <2>1, <2>2
    <2>4. \/ bundle'[b].stage \in {"subscribing", "linked", "dropped", "failed"}
          \/ bundle[b].stage \notin {"subscribing", "linked", "dropped", "failed"}
      BY <2>2
    <2> QED BY <2>3, <2>4, KeepListening
  <1>4. ASSUME NEW b \in Bundles, Disconnect(b)
        PROVE  ListensSoFar' /\ TodoAgrees' /\ ListenerStages'
    <2>1. /\ listener' = listener /\ bundle[b] \in Bundle
          /\ \A c \in Bundles : c # b => bundle'[c] = bundle[c]
          /\ bundle'[b] = [bundle[b] EXCEPT !.stage = "closed", !.connected = 0]
          /\ \A t \in Topics : ~Alive(<<b, t>>)
      BY <1>4 DEF Disconnect, IInv, LinkTypes
    <2>2. bundle'[b].stage = "closed"
      BY <2>1 DEF Bundle
    <2> QED BY <2>1, <2>2, KeepListening
  <1>5. ASSUME NEW a \in Actors, delete_link(a)
        PROVE  ListensSoFar' /\ TodoAgrees' /\ ListenerStages'
    BY <1>5, DroppedListens DEF delete_link
  <1>6. CASE shutdown
    BY <1>6, DroppedListens DEF shutdown
  <1>7. ASSUME UNCHANGED <<bundle, listener>>
        PROVE  ListensSoFar' /\ TodoAgrees' /\ ListenerStages'
    BY <1>7 DEF IInv, ListensSoFar, TodoAgrees, ListenerStages, Alive
  <1> QED
    BY <1>1, <1>2, <1>3, <1>4, <1>5, <1>6, <1>7, SubscribeListens, TaskListens,
       InsertListens
       DEF Next, vars, unlink, dispatch_msg, read, clone_client, publish

\* The inductive invariant holds in every state the provider reaches.
LEMMA Invariance == Spec => []IInv
  <1>1. IInv /\ [Next]_vars => IInv'
    BY TypeStep, MapStep, ListenStep DEF IInv
  <1> QED BY InitIInv, <1>1, PTL DEF Spec

\* put_link, main.rs 354-355: whatever else happens to the map, an actor's
\* entry is its own live bundle and listens on every topic of its link while
\* the connection stands.
THEOREM LinkedActorsListen == Spec => []LinkedListens
  <1>1. IInv => LinkedListens
    <2> SUFFICES ASSUME IInv, NEW a \in Actors, actors[a] # None
                 PROVE  /\ bundle[actors[a]].stage = "linked"
                        /\ bundle[actors[a]].actor = a
                        /\ bundle[actors[a]].connected = 1
                             => \A t \in bundle[actors[a]].topics : Alive(<<actors[a], t>>)
      BY DEF LinkedListens
    <2>1. /\ actors[a] \in Bundles /\ bundle[actors[a]].stage = "linked"
          /\ bundle[actors[a]].actor = a
      BY DEF IInv, LinkTypes, MapAgrees
    <2>2. bundle[actors[a]].todo = {} /\ bundle[actors[a]].topics \subseteq Topics
      BY <2>1 DEF IInv, LinkTypes, StagesAgree, Bundle
    <2> QED BY <2>1, <2>2 DEF IInv, ListensSoFar
  <1> QED BY Invariance, <1>1, PTL

\* Drop for NatsClientBundle and the error path of connect: no listener is
\* left that is neither linked, nor being linked, nor aborted, nor about to
\* end with its connection.
THEOREM ListenersAreOwned == Spec => []NoStrayListener
  <1>1. IInv => NoStrayListener
    <2> SUFFICES ASSUME IInv, NEW s \in Subs, Alive(s)
                 PROVE  \/ bundle[s[1]].connected = 0
                        \/ bundle[s[1]].stage = "dropped"
                        \/ holder = s[1]
                        \/ actors[bundle[s[1]].actor] = s[1]
      BY DEF NoStrayListener
    <2>1. s[1] \in Bundles
      BY DEF Subs
    <2>2. bundle[s[1]].stage \in {"subscribing", "linked", "dropped", "failed"}
      BY DEF IInv, ListenerStages
    <2> QED BY <2>1, <2>2 DEF IInv, OneConnects, MapAgrees, StagesAgree
  <1> QED BY Invariance, <1>1, PTL

\* Both together, for any configuration of the host and any link values: links
\* and listeners agree.
THEOREM LinksAndListenersAgree == Spec => []LinksListen
  <1>1. LinkedListens /\ NoStrayListener => LinksListen
    BY DEF LinksListen
  <1> QED BY LinkedActorsListen, ListenersAreOwned, <1>1, PTL

-----------------------------------------------------------------------------
(* The provider implements LinkResources: each of its steps is a step of    *)
(* the abstract specification, or none.                                     *)

\* Stage by stage, what LinkResources sees of a bundle.
PhaseOf(stage) ==
    IF stage \in {"unused", "queued"} THEN "unused"
    ELSE IF stage \in {"connecting", "subscribing"} THEN "opening"
    ELSE IF stage = "linked" THEN "open"
    ELSE IF stage = "closed" THEN "closed"
    ELSE "closing"

\* The refinement mapping depends on the stage and the actor of a bundle only.
LEMMA MappingFacts ==
    /\ phase = [b \in Bundles |-> PhaseOf(bundle[b].stage)]
    /\ owner = [b \in Bundles |-> IF bundle[b].stage \in {"unused", "queued"} THEN None
                                  ELSE bundle[b].actor]
  BY DEF phase, owner, PhaseOf

\* The provider starts with no bundle, as LinkResources does.
LEMMA LinkInit == Init => Links!LInit
  BY DEF Init, Links!LInit, phase, owner

\* A step of one bundle maps to a change of that resource alone.
LEMMA OneBundleMaps ==
    ASSUME NEW b \in Bundles,
           \A c \in Bundles : c # b => bundle'[c] = bundle[c]
    PROVE  /\ phase' = [phase EXCEPT ![b] = PhaseOf(bundle'[b].stage)]
           /\ owner' = [owner EXCEPT ![b] =
                          IF bundle'[b].stage \in {"unused", "queued"} THEN None
                          ELSE bundle'[b].actor]
  <1>1. phase' = [c \in Bundles |-> PhaseOf(bundle'[c].stage)]
    BY DEF phase, PhaseOf
  <1>2. owner' = [c \in Bundles |-> IF bundle'[c].stage \in {"unused", "queued"} THEN None
                                    ELSE bundle'[c].actor]
    BY DEF owner
  <1> QED BY <1>1, <1>2, MappingFacts

\* The insert of put_link installs the bundle and closes the one it replaces.
LEMMA LinkInsert ==
    ASSUME IInv, NEW b \in Bundles, insert(b)
    PROVE  Links!Install(b)
  <1> USE NatsAssumption DEF IInv, LinkTypes
  <1> DEFINE a == bundle[b].actor
  <1> DEFINE old == actors[a]
  <1>1. /\ bundle[b] \in Bundle /\ bundle[b].stage = "subscribing" /\ a \in Actors
        /\ actors' = [actors EXCEPT ![a] = b]
        /\ bundle' = [Dropped({old}) EXCEPT ![b].stage = "linked"]
    BY DEF insert, StagesAgree
  <1>2. old # None => old \in Bundles /\ bundle[old].stage = "linked"
    BY <1>1 DEF MapAgrees
  <1>3. old # b
    BY <1>1, <1>2
  <1>4. /\ Dropped({old}) \in [Bundles -> Bundle]
        /\ \A c \in Bundles : /\ c = old => Dropped({old})[c].stage = "dropped"
                              /\ c # old => Dropped({old})[c] = bundle[c]
                              /\ Dropped({old})[c].actor = bundle[c].actor
    BY DroppedType
  <1>5. bundle'[b] = [bundle[b] EXCEPT !.stage = "linked"]
    BY <1>1, <1>3, <1>4
  <1>6. bundle'[b].stage = "linked" /\ bundle'[b].actor = a
    <2> HIDE DEF IInv, LinkTypes
    <2>1. bundle[b] \in Bundle
      BY <1>1
    <2> QED BY <2>1, <1>5 DEF Bundle
  <1>7. \A c \in Bundles : c # b =>
          /\ bundle'[c].actor = bundle[c].actor
          /\ c # old => bundle'[c].stage = bundle[c].stage
          /\ c = old => bundle'[c].stage = "dropped" /\ bundle[c].stage = "linked"
    BY <1>1, <1>2, <1>4
  <1> HIDE DEF IInv, LinkTypes, a, old
  <1>8. phase[b] = "opening" /\ owner[b] = a
    BY <1>1 DEF phase, owner, a
  <1>9. phase' = [c \in Bundles |-> IF c = b THEN "open"
                                    ELSE IF c = old THEN "closing" ELSE phase[c]]
    <2>1. \A c \in Bundles : phase'[c] = IF c = b THEN "open"
                                         ELSE IF c = old THEN "closing" ELSE phase[c]
      BY <1>6, <1>7 DEF phase
    <2>2. phase' = [c \in Bundles |-> phase'[c]]
      BY DEF phase
    <2> QED BY <2>1, <2>2
  <1>10. owner' = owner
    <2>1. \A c \in Bundles : owner'[c] = owner[c]
      <3>1. owner'[b] = owner[b]
        BY <1>1, <1>6 DEF owner, a
      <3>2. ASSUME NEW c \in Bundles, c # b PROVE owner'[c] = owner[c]
        BY <1>7, <3>2 DEF owner
      <3> QED BY <3>1, <3>2
    <2>2. owner = [c \in Bundles |-> owner[c]] /\ owner' = [c \in Bundles |-> owner'[c]]
      BY DEF owner
    <2> QED BY <2>1, <2>2
  <1>11. old = actors[owner[b]] /\ actors' = [actors EXCEPT ![owner[b]] = b]
    BY <1>1, <1>8 DEF old
  <1> QED BY <1>8, <1>9, <1>10, <1>11 DEF Links!Install

\* Taking entries out of the map (delete_link, shutdown) releases them.
LEMMA LinkRelease ==
    ASSUME IInv, NEW A \in SUBSET Actors,
           actors' = [a \in Actors |-> IF a \in A THEN None ELSE actors[a]],
           bundle' = Dropped({actors[a] : a \in A})
    PROVE  Links!Release(A)
  <1> USE NatsAssumption DEF IInv, LinkTypes
  <1> DEFINE Old == {actors[a] : a \in A}
  <1>1. \A c \in Bundles : /\ c \in Old => bundle'[c].stage = "dropped"
                           /\ c \notin Old => bundle'[c] = bundle[c]
                           /\ bundle'[c].actor = bundle[c].actor
    BY DroppedType
  <1>2. \A c \in Bundles : c \in Old => bundle[c].stage = "linked"
    BY DEF MapAgrees
  <1>3. \A c \in Bundles : c \in Old <=> \E a \in A : actors[a] = c
    OBVIOUS
  <1> HIDE DEF IInv, LinkTypes, Old
  <1>4. owner' = owner
    BY <1>1, <1>2 DEF owner
  <1>5. phase' = [c \in Bundles |-> IF c \in Old THEN "closing" ELSE phase[c]]
    <2>1. \A c \in Bundles : phase'[c] = IF c \in Old THEN "closing" ELSE phase[c]
      BY <1>1 DEF phase
    <2>2. phase' = [c \in Bundles |-> phase'[c]]
      BY DEF phase
    <2> QED BY <2>1, <2>2
  <1> QED BY <1>3, <1>4, <1>5 DEF Links!Release

\* put_link before it has the lock: a refused link is a resource that could
\* not be had, one that waits is not there yet.
LEMMA LinkPut ==
    ASSUME IInv, NEW b \in Bundles, NEW a \in Actors, NEW v \in LinkValues,
           put_link(b, a, v)
    PROVE  Links!Open(b, a) \/ UNCHANGED Links!lvars
  <1>1. /\ actors' = actors /\ bundle[b].stage = "unused"
        /\ \A c \in Bundles : c # b => bundle'[c] = bundle[c]
        /\ bundle'[b].actor = a /\ bundle'[b].stage \in {"queued", "closed"}
    BY PutEffect DEF IInv
  <1>2. phase[b] = "unused" /\ owner[b] = None
    BY <1>1 DEF phase, owner
  <1>3. phase \in [Bundles -> Links!Phases] /\ owner = [c \in Bundles |-> owner[c]]
    BY DEF phase, owner, Links!Phases
  <1>4. CASE bundle'[b].stage = "queued"
    <2>1. phase' = phase /\ owner' = owner
      BY <1>1, <1>4 DEF phase, owner
    <2> QED BY <1>1, <2>1 DEF Links!lvars
  <1>5. CASE bundle'[b].stage = "closed"
    <2>1. phase' = [phase EXCEPT ![b] = "closed"] /\ owner' = [owner EXCEPT ![b] = a]
      BY <1>1, <1>5, OneBundleMaps DEF PhaseOf
    <2> QED BY <1>1, <1>2, <2>1 DEF Links!Open
  <1> QED BY <1>1, <1>4, <1>5

\* With the lock the resource is being opened.
LEMMA LinkLock ==
    ASSUME IInv, NEW b \in Bundles, lock(b)
    PROVE  \E a \in Actors : Links!Open(b, a)
  <1>1. /\ actors' = actors /\ bundle[b].stage = "queued" /\ bundle[b] \in Bundle
        /\ bundle[b].actor \in Actors
        /\ \A c \in Bundles : c # b => bundle'[c] = bundle[c]
        /\ bundle'[b] = [bundle[b] EXCEPT !.stage = "connecting"]
    BY DEF lock, IInv, LinkTypes, StagesAgree
  <1>2. bundle'[b].stage = "connecting" /\ bundle'[b].actor = bundle[b].actor
    BY <1>1 DEF Bundle
  <1>3. phase[b] = "unused"
    BY <1>1 DEF phase
  <1>4. /\ phase' = [phase EXCEPT ![b] = "opening"]
        /\ owner' = [owner EXCEPT ![b] = bundle[b].actor]
    <2>1. \A c \in Bundles : c # b => bundle'[c] = bundle[c]
      BY <1>1
    <2> QED BY <1>2, <2>1, OneBundleMaps DEF PhaseOf
  <1>5. Links!Open(b, bundle[b].actor)
    BY <1>1, <1>3, <1>4 DEF Links!Open
  <1> QED BY <1>1, <1>5

\* A step of put_link under the lock either changes nothing LinkResources
\* sees or gives the resource up.
LEMMA LinkOpening ==
    ASSUME IInv, NEW b \in Bundles, actors' = actors,
           bundle[b].stage \in {"connecting", "subscribing"},
           \A c \in Bundles : c # b => bundle'[c] = bundle[c],
           bundle'[b].actor = bundle[b].actor,
           bundle'[b].stage \in {"subscribing", "failed"}
    PROVE  Links!GiveUp(b) \/ UNCHANGED Links!lvars
  <1>1. phase[b] = "opening"
    BY DEF phase
  <1>2. owner' = owner
    BY DEF owner
  <1>3. CASE bundle'[b].stage = "subscribing"
    <2>1. phase' = phase
      BY <1>3 DEF phase
    <2> QED BY <1>2, <2>1 DEF Links!lvars
  <1>4. CASE bundle'[b].stage = "failed"
    <2>1. phase' = [phase EXCEPT ![b] = "closing"]
      BY <1>4, OneBundleMaps DEF PhaseOf
    <2> QED BY <1>1, <1>2, <2>1 DEF Links!GiveUp
  <1> QED BY <1>3, <1>4

\* The last handle of a bundle that is out of the map closes it.
LEMMA LinkClosed ==
    ASSUME IInv, NEW b \in Bundles, Disconnect(b)
    PROVE  Links!Closed(b)
  <1>1. /\ actors' = actors /\ bundle[b].stage \in {"dropped", "failed"}
        /\ bundle[b] \in Bundle
        /\ \A c \in Bundles : c # b => bundle'[c] = bundle[c]
        /\ bundle'[b] = [bundle[b] EXCEPT !.stage = "closed", !.connected = 0]
    BY DEF Disconnect, IInv, LinkTypes
  <1>2. bundle'[b].stage = "closed" /\ bundle'[b].actor = bundle[b].actor
    BY <1>1 DEF Bundle
  <1>3. \A c \in Bundles : c # b => bundle'[c] = bundle[c]
    BY <1>1
  <1>4. phase[b] = "closing"
    BY <1>1 DEF phase
  <1>5. phase' = [phase EXCEPT ![b] = "closed"]
    BY <1>2, <1>3, OneBundleMaps DEF PhaseOf
  <1>6. bundle[b].stage \notin {"unused", "queued"}
    BY <1>1
  <1>7. owner' = owner
    BY <1>2, <1>3, <1>6 DEF owner
  <1> QED BY <1>1, <1>4, <1>5, <1>7 DEF Links!Closed

\* Hence every step of the provider is one of LinkResources, or none.
LEMMA LinkStep == IInv /\ [Next]_vars => [Links!LNext]_(Links!lvars)
  <1> SUFFICES ASSUME IInv, [Next]_vars PROVE [Links!LNext]_(Links!lvars)
    OBVIOUS
  <1> USE DEF Links!LNext
  <1>1. ASSUME NEW b \in Bundles, NEW a \in Actors, NEW v \in LinkValues,
               put_link(b, a, v)
        PROVE  Links!LNext \/ UNCHANGED Links!lvars
    BY <1>1, LinkPut
  <1>2. ASSUME NEW b \in Bundles, lock(b) PROVE Links!LNext
    BY <1>2, LinkLock
  <1>3. ASSUME NEW b \in Bundles, connect(b)
        PROVE  Links!LNext \/ UNCHANGED Links!lvars
    <2>1. /\ actors' = actors /\ bundle[b].stage = "connecting" /\ bundle[b] \in Bundle
          /\ \A c \in Bundles : c # b => bundle'[c] = bundle[c]
          /\ \/ bundle'[b] = [bundle[b] EXCEPT !.stage = "subscribing", !.connected = 1]
             \/ bundle'[b] = [bundle[b] EXCEPT !.stage = "failed"]
      BY <1>3 DEF connect, IInv, LinkTypes
    <2>2. /\ bundle'[b].actor = bundle[b].actor
          /\ bundle'[b].stage \in {"subscribing", "failed"}
      BY <2>1 DEF Bundle
    <2>3. Links!GiveUp(b) \/ UNCHANGED Links!lvars
      BY <2>1, <2>2, LinkOpening
    <2> QED BY <2>3
  <1>4. ASSUME NEW b \in Bundles, NEW t \in Topics, subscribe(b, t)
        PROVE  Links!LNext \/ UNCHANGED Links!lvars
    <2>1. /\ actors' = actors /\ bundle[b].stage = "subscribing" /\ bundle[b] \in Bundle
          /\ \A c \in Bundles : c # b => bundle'[c] = bundle[c]
          /\ \/ bundle'[b] = [bundle[b] EXCEPT !.todo = @ \ {t}]
             \/ bundle'[b] = [bundle[b] EXCEPT !.stage = "failed"]
      BY <1>4 DEF subscribe, IInv, LinkTypes
    <2>2. /\ bundle'[b].actor = bundle[b].actor
          /\ bundle'[b].stage \in {"subscribing", "failed"}
      BY <2>1 DEF Bundle
    <2>3. Links!GiveUp(b) \/ UNCHANGED Links!lvars
      BY <2>1, <2>2, LinkOpening
    <2> QED BY <2>3
  <1>5. ASSUME NEW b \in Bundles, insert(b) PROVE Links!LNext
    BY <1>5, LinkInsert
  <1>6. ASSUME NEW b \in Bundles, LoseConnection(b) PROVE UNCHANGED Links!lvars
    <2>1. /\ actors' = actors /\ bundle[b] \in Bundle
          /\ \A c \in Bundles : c # b => bundle'[c] = bundle[c]
          /\ bundle'[b] = [bundle[b] EXCEPT !.connected = 0]
      BY <1>6 DEF LoseConnection, IInv, LinkTypes
    <2>2. bundle'[b].actor = bundle[b].actor /\ bundle'[b].stage = bundle[b].stage
      BY <2>1 DEF Bundle
    <2>3. \A c \in Bundles : /\ bundle'[c].actor = bundle[c].actor
                             /\ bundle'[c].stage = bundle[c].stage
      BY <2>1, <2>2
    <2> QED BY <2>1, <2>3 DEF Links!lvars, phase, owner
  <1>7. ASSUME NEW b \in Bundles, Disconnect(b) PROVE Links!LNext
    BY <1>7, LinkClosed
  <1>8. ASSUME NEW a \in Actors, delete_link(a) PROVE Links!LNext
    <2>1. actors' = [x \in Actors |-> IF x \in {a} THEN None ELSE actors[x]]
      BY <1>8 DEF delete_link, IInv, LinkTypes
    <2>2. bundle' = Dropped({actors[x] : x \in {a}})
      <3>1. {actors[x] : x \in {a}} = {actors[a]}
        OBVIOUS
      <3> QED BY <1>8, <3>1 DEF delete_link
    <2>3. Links!Release({a})
      BY <2>1, <2>2, LinkRelease
    <2> QED BY <2>3
  <1>9. ASSUME shutdown PROVE Links!LNext
    <2>1. /\ actors' = [x \in Actors |-> IF x \in Actors THEN None ELSE actors[x]]
          /\ bundle' = Dropped({actors[x] : x \in Actors})
      BY <1>9 DEF shutdown
    <2>2. Links!Release(Actors)
      BY <2>1, LinkRelease
    <2> QED BY <2>2
  <1>10. ASSUME UNCHANGED <<actors, bundle>> PROVE UNCHANGED Links!lvars
    BY <1>10 DEF Links!lvars, phase, owner
  <1> HIDE DEF Links!LNext
  <1> QED
    BY <1>1, <1>2, <1>3, <1>4, <1>5, <1>6, <1>7, <1>8, <1>9, <1>10
       DEF Next, vars, unlink, next, acquire_owned, EndListener, dispatch_msg, read,
           clone_client, publish

\* The provider implements LinkResources: a bundle is opened under the lock,
\* replaces the one before it or is given up, and is closed when its link goes.
THEOREM NatsKeepsLinks == Spec => LinksKept
  <1> QED BY Invariance, LinkInit, LinkStep, PTL DEF Spec, LinksKept, Links!LSpec

-----------------------------------------------------------------------------
(* The queue of handlers, the calls and the dispatches: their types, and the *)
(* limit of the semaphores.                                                  *)

\* A call that waits for the read lock knows whose client it wants.
ReadsAgree ==
    \A i \in DOMAIN waiters : waiters[i].op = "read" =>
        waiters[i].who \in Calls /\ call[waiters[i].who].actor \in Actors

\* A listener that waits for a permit has a message.
PermitHasMsg == \A s \in Subs : listener[s].at = "permit" => listener[s].msg \in Calls

PermitsKept == \A s \in Subs : Cardinality(InFlight(s)) <= Permits

QueueInv ==
    /\ waiters \in Seq(Waiter) /\ call \in [Calls -> Call] /\ ReadsAgree
    /\ last \in [Actors -> {"none", "put", "delete", "shutdown"}]

DispatchInv ==
    /\ dispatches \subseteq Dispatch /\ IsFiniteSet(dispatches)
    /\ PermitHasMsg /\ PermitsKept

\* A handler that begins to wait comes last.
LEMMA PushWaiter ==
    ASSUME NEW s \in Seq(Waiter), NEW w \in Waiter
    PROVE  /\ Append(s, w) \in Seq(Waiter)
           /\ DOMAIN s = 1..Len(s) /\ DOMAIN Append(s, w) = 1..(Len(s) + 1) /\ Len(s) \in Nat
           /\ \A i \in DOMAIN s : Append(s, w)[i] = s[i]
           /\ Append(s, w)[Len(s) + 1] = w
  BY AppendProperties, LenProperties

\* The handler whose turn it is leaves the others in their order.
LEMMA PopWaiter ==
    ASSUME NEW s \in Seq(Waiter), s # <<>>
    PROVE  /\ Tail(s) \in Seq(Waiter) /\ Head(s) = s[1] /\ 1 \in DOMAIN s
           /\ DOMAIN s = 1..Len(s) /\ DOMAIN Tail(s) = 1..(Len(s) - 1) /\ Len(s) \in Nat \ {0}
           /\ \A i \in DOMAIN Tail(s) : i + 1 \in DOMAIN s /\ Tail(s)[i] = s[i + 1]
           /\ \A i \in DOMAIN s : i > 1 => i - 1 \in DOMAIN Tail(s) /\ Tail(s)[i - 1] = s[i]
  BY HeadTailProperties, LenProperties, EmptySeq

\* The queue of a provider that starts is empty, and so are the dispatches.
LEMMA InitQueue == Init => QueueInv /\ DispatchInv
  <1> SUFFICES ASSUME Init PROVE QueueInv /\ DispatchInv
    OBVIOUS
  <1>1. waiters \in Seq(Waiter) /\ DOMAIN waiters = {}
    BY EmptySeq DEF Init
  <1>2. QueueInv
    <2>1. call \in [Calls -> Call]
      BY DEF Init, Call
    <2> QED BY <1>1, <2>1 DEF Init, QueueInv, ReadsAgree
  <1>3. DispatchInv
    <2>1. \A s \in Subs : InFlight(s) = {}
      BY DEF Init, InFlight
    <2>2. PermitsKept
      BY <2>1, FS_EmptySet, NatsAssumption DEF PermitsKept
    <2>3. PermitHasMsg
      BY DEF Init, Idle, PermitHasMsg
    <2> QED BY <2>2, <2>3, FS_EmptySet DEF Init, DispatchInv
  <1> QED BY <1>2, <1>3

\* A handler begins to wait; the calls keep their actors.
LEMMA PushKeepsQueue ==
    ASSUME QueueInv, NEW w \in Waiter, waiters' = Append(waiters, w),
           call' \in [Calls -> Call],
           \A q \in Calls : call[q].actor \in Actors => call'[q].actor \in Actors,
           w.op = "read" => w.who \in Calls /\ call'[w.who].actor \in Actors
    PROVE  waiters' \in Seq(Waiter) /\ ReadsAgree'
  <1>1. waiters \in Seq(Waiter) /\ ReadsAgree
    BY DEF QueueInv
  <1>2. waiters' \in Seq(Waiter) /\ DOMAIN waiters' = 1..(Len(waiters) + 1)
    BY <1>1, PushWaiter
  <1>3. ASSUME NEW i \in DOMAIN waiters', waiters'[i].op = "read"
        PROVE  waiters'[i].who \in Calls /\ call'[waiters'[i].who].actor \in Actors
    <2>1. CASE i \in DOMAIN waiters
      <3>1. waiters'[i] = waiters[i]
        BY <1>1, <2>1, PushWaiter
      <3> QED BY <1>1, <1>3, <2>1, <3>1 DEF ReadsAgree
    <2>2. CASE i \notin DOMAIN waiters
      <3>1. i = Len(waiters) + 1
        BY <1>1, <1>2, <2>2, PushWaiter
      <3>2. waiters'[i] = w
        BY <1>1, <3>1, PushWaiter
      <3> QED BY <1>3, <3>2
    <2> QED BY <2>1, <2>2
  <1> QED BY <1>2, <1>3 DEF ReadsAgree

\* A handler has its turn.
LEMMA PopKeepsQueue ==
    ASSUME QueueInv, waiters # <<>>, waiters' = Tail(waiters), call' \in [Calls -> Call],
           \A q \in Calls : call[q].actor \in Actors => call'[q].actor \in Actors
    PROVE  waiters' \in Seq(Waiter) /\ ReadsAgree'
  <1>1. waiters \in Seq(Waiter) /\ ReadsAgree
    BY DEF QueueInv
  <1>2. ASSUME NEW i \in DOMAIN waiters', waiters'[i].op = "read"
        PROVE  waiters'[i].who \in Calls /\ call'[waiters'[i].who].actor \in Actors
    <2>1. i + 1 \in DOMAIN waiters /\ waiters'[i] = waiters[i + 1]
      BY <1>1, PopWaiter
    <2> QED BY <1>1, <1>2, <2>1 DEF ReadsAgree
  <1> QED BY <1>1, <1>2, PopWaiter DEF ReadsAgree

\* Every step keeps the queue, the calls and the ghost well typed.
LEMMA QueueStep == IInv /\ QueueInv /\ [Next]_vars => QueueInv'
  <1> SUFFICES ASSUME IInv, QueueInv, [Next]_vars PROVE QueueInv'
    OBVIOUS
  <1>1. /\ waiters \in Seq(Waiter) /\ call \in [Calls -> Call]
        /\ last \in [Actors -> {"none", "put", "delete", "shutdown"}]
    BY DEF QueueInv
  <1>2. ASSUME UNCHANGED <<waiters, call, last>> PROVE QueueInv'
    BY <1>2 DEF QueueInv, ReadsAgree
  <1>3. ASSUME NEW b \in Bundles, NEW a \in Actors, NEW v \in LinkValues, put_link(b, a, v)
        PROVE  QueueInv'
    <2> DEFINE w == [op |-> "put", who |-> b]
    <2>1. w \in Waiter /\ w.op # "read"
      BY DEF Waiter
    <2>2. CASE waiters' = Append(waiters, w) /\ last' = [last EXCEPT ![a] = "put"] /\ call' = call
      <3>1. waiters' \in Seq(Waiter) /\ ReadsAgree'
        BY <1>1, <2>1, <2>2, PushKeepsQueue
      <3> QED BY <1>1, <2>2, <3>1 DEF QueueInv
    <2> QED BY <1>2, <1>3, <2>2 DEF put_link, Wait
  <1>4. ASSUME NEW b \in Bundles, lock(b) PROVE QueueInv'
    <2>1. waiters' \in Seq(Waiter) /\ ReadsAgree'
      BY <1>1, <1>4, PopKeepsQueue DEF lock, Turn
    <2> QED BY <1>1, <1>4, <2>1 DEF lock, QueueInv
  <1>5. ASSUME NEW op \in {"delete", "shutdown"}, NEW who \in Actors \cup {None}, unlink(op, who)
        PROVE  QueueInv'
    <2> DEFINE w == [op |-> op, who |-> who]
    <2>1. w \in Waiter /\ w.op # "read"
      BY DEF Waiter
    <2>2. waiters' = Append(waiters, w) /\ call' = call
      BY <1>5 DEF unlink, Wait
    <2>3. waiters' \in Seq(Waiter) /\ ReadsAgree'
      BY <1>1, <2>1, <2>2, PushKeepsQueue
    <2>4. last' \in [Actors -> {"none", "put", "delete", "shutdown"}]
      BY <1>1, <1>5 DEF unlink
    <2> QED BY <1>1, <2>2, <2>3, <2>4 DEF QueueInv
  <1>6. ASSUME NEW a \in Actors, delete_link(a) PROVE QueueInv'
    <2>1. waiters' \in Seq(Waiter) /\ ReadsAgree'
      BY <1>1, <1>6, PopKeepsQueue DEF delete_link, Turn
    <2> QED BY <1>1, <1>6, <2>1 DEF delete_link, QueueInv
  <1>7. ASSUME shutdown PROVE QueueInv'
    <2>1. waiters' \in Seq(Waiter) /\ ReadsAgree'
      BY <1>1, <1>7, PopKeepsQueue DEF shutdown, Turn
    <2> QED BY <1>1, <1>7, <2>1 DEF shutdown, QueueInv
  <1>8. ASSUME NEW q \in Calls, NEW a \in Actors, read(q, a) PROVE QueueInv'
    <2> DEFINE w == [op |-> "read", who |-> q]
    <2>1. w \in Waiter /\ w.who = q
      BY DEF Waiter
    <2>2. /\ waiters' = Append(waiters, w) /\ last' = last
          /\ call' = [call EXCEPT ![q] = [status |-> "waiting", actor |-> a, via |-> None]]
      BY <1>8 DEF read, Wait
    <2>3. call' \in [Calls -> Call]
      BY <1>1, <2>2 DEF Call
    <2>4. /\ call'[q].actor \in Actors
          /\ \A p \in Calls : call[p].actor \in Actors => call'[p].actor \in Actors
      BY <1>1, <2>2
    <2>5. waiters' \in Seq(Waiter) /\ ReadsAgree'
      BY <2>1, <2>2, <2>3, <2>4, PushKeepsQueue
    <2> QED BY <1>1, <2>2, <2>3, <2>5 DEF QueueInv
  <1>9. ASSUME NEW q \in Calls, clone_client(q) PROVE QueueInv'
    <2>1. /\ waiters # <<>> /\ Head(waiters) = [op |-> "read", who |-> q]
          /\ waiters' = Tail(waiters) /\ last' = last
      BY <1>9 DEF clone_client, Turn
    <2>2. call[q].actor \in Actors
      <3>1. waiters[1].op = "read" /\ waiters[1].who = q /\ 1 \in DOMAIN waiters
        BY <1>1, <2>1, PopWaiter
      <3> QED BY <3>1 DEF QueueInv, ReadsAgree
    <2>3. PICK b \in Bundles \cup {None} : b = actors[call[q].actor]
      BY <2>2 DEF IInv, LinkTypes
    <2>4. PICK st \in {"not linked", "sending"} :
            call' = [call EXCEPT ![q].via = b, ![q].status = st]
      BY <1>9, <2>3 DEF clone_client
    <2> DEFINE r == [call[q] EXCEPT !.via = b, !.status = st]
    <2>5. r \in Call /\ r.actor = call[q].actor /\ call' = [call EXCEPT ![q] = r]
      BY <1>1, <2>4 DEF Call
    <2> HIDE DEF r
    <2>6. call' \in [Calls -> Call] /\ \A p \in Calls : call'[p].actor = call[p].actor
      BY <1>1, <2>5
    <2>7. waiters' \in Seq(Waiter) /\ ReadsAgree'
      BY <2>1, <2>6, PopKeepsQueue
    <2> QED BY <1>1, <2>1, <2>6, <2>7 DEF QueueInv
  <1>10. ASSUME NEW q \in Calls, NEW t \in Topics, publish(q, t) PROVE QueueInv'
    <2>1. PICK st \in {"ok", "timeout", "error"} : call' = [call EXCEPT ![q].status = st]
      BY <1>10 DEF publish
    <2>2. waiters' = waiters /\ last' = last
      BY <1>10 DEF publish
    <2>3. call' \in [Calls -> Call] /\ \A p \in Calls : call'[p].actor = call[p].actor
      BY <1>1, <2>1 DEF Call
    <2> QED BY <2>2, <2>3 DEF QueueInv, ReadsAgree
  <1>11. ASSUME NEW b \in Bundles,
                \/ connect(b) \/ insert(b) \/ LoseConnection(b) \/ Disconnect(b)
                \/ \E t \in Topics : subscribe(b, t)
         PROVE  QueueInv'
    BY <1>2, <1>11 DEF connect, insert, LoseConnection, Disconnect, subscribe
  <1>12. ASSUME NEW s \in Subs, next(s) \/ acquire_owned(s) \/ EndListener(s) PROVE QueueInv'
    BY <1>2, <1>12 DEF next, acquire_owned, EndListener
  <1>13. ASSUME NEW d \in dispatches, dispatch_msg(d) PROVE QueueInv'
    BY <1>2, <1>13 DEF dispatch_msg
  <1>14. CASE UNCHANGED vars
    BY <1>2, <1>14 DEF vars
  <1>15. ASSUME NEW a \in Actors, unlink("delete", a) PROVE QueueInv'
    BY <1>5, <1>15
  <1>16. ASSUME unlink("shutdown", None) PROVE QueueInv'
    BY <1>5, <1>16
  <1> QED
    BY <1>3, <1>4, <1>6, <1>7, <1>8, <1>9, <1>10, <1>11, <1>12, <1>13, <1>14, <1>15, <1>16
       DEF Next

\* One dispatch more, for a subscription with a free permit.
LEMMA OneMoreDispatch ==
    ASSUME DispatchInv, NEW s \in Subs, NEW d \in Dispatch, d.sub = s,
           Cardinality(InFlight(s)) < Permits, dispatches' = dispatches \cup {d}
    PROVE  IsFiniteSet(dispatches') /\ PermitsKept'
  <1>1. IsFiniteSet(dispatches')
    BY FS_AddElement DEF DispatchInv
  <1>2. ASSUME NEW r \in Subs PROVE Cardinality(InFlight(r)') <= Permits
    <2>1. IsFiniteSet(InFlight(r))
      BY FS_Subset DEF DispatchInv, InFlight
    <2>2. Cardinality(InFlight(r)) <= Permits /\ Cardinality(InFlight(r)) \in Nat
      BY <2>1, FS_CardinalityType DEF DispatchInv, PermitsKept
    <2>3. CASE r = s
      <3>1. InFlight(r)' = InFlight(r) \cup {d}
        BY <2>3 DEF InFlight
      <3>2. \/ Cardinality(InFlight(r)') = Cardinality(InFlight(r))
            \/ Cardinality(InFlight(r)') = Cardinality(InFlight(r)) + 1
        BY <2>1, <3>1, FS_AddElement
      <3> QED BY <2>2, <2>3, <3>2, NatsAssumption
    <2>4. CASE r # s
      <3>1. InFlight(r)' = InFlight(r)
        BY <2>4 DEF InFlight
      <3> QED BY <2>2, <3>1
    <2> QED BY <2>3, <2>4
  <1> QED BY <1>1, <1>2 DEF PermitsKept

\* Dispatches that end give their permits back, and nobody else's.
LEMMA FewerDispatches ==
    ASSUME DispatchInv, NEW d, dispatches' = dispatches \ {d}
    PROVE  IsFiniteSet(dispatches') /\ PermitsKept'
  <1>1. IsFiniteSet(dispatches')
    BY FS_Subset DEF DispatchInv
  <1>2. ASSUME NEW r \in Subs PROVE Cardinality(InFlight(r)') <= Permits
    <2>1. IsFiniteSet(InFlight(r))
      BY FS_Subset DEF DispatchInv, InFlight
    <2>2. InFlight(r)' \subseteq InFlight(r)
      BY DEF InFlight
    <2>3. /\ IsFiniteSet(InFlight(r)')
          /\ Cardinality(InFlight(r)') <= Cardinality(InFlight(r))
      BY <2>1, <2>2, FS_Subset
    <2>4. /\ Cardinality(InFlight(r)) <= Permits /\ Cardinality(InFlight(r)) \in Nat
          /\ Cardinality(InFlight(r)') \in Nat
      BY <2>1, <2>3, FS_CardinalityType DEF DispatchInv, PermitsKept
    <2> QED BY <2>3, <2>4, NatsAssumption
  <1> QED BY <1>1, <1>2 DEF PermitsKept

\* Every step keeps the dispatches within the permits.
LEMMA DispatchStep == IInv /\ DispatchInv /\ [Next]_vars => DispatchInv'
  <1> SUFFICES ASSUME IInv, DispatchInv, [Next]_vars PROVE DispatchInv'
    OBVIOUS
  <1>1. /\ dispatches \subseteq Dispatch /\ listener \in [Subs -> Listener]
        /\ inbox \in [Subs -> Seq(Calls)] /\ PermitHasMsg
    BY DEF IInv, LinkTypes, DispatchInv
  <1>2. ASSUME dispatches' = dispatches, PermitHasMsg' PROVE DispatchInv'
    BY <1>2 DEF DispatchInv, PermitsKept, InFlight
  <1>3. ASSUME NEW s \in Subs, NEW l \in Listener, listener' = [listener EXCEPT ![s] = l],
               l.at = "permit" => l.msg \in Calls
        PROVE  PermitHasMsg'
    BY <1>1, <1>3 DEF PermitHasMsg
  <1>4. ASSUME UNCHANGED <<dispatches, listener>> PROVE DispatchInv'
    BY <1>1, <1>2, <1>4 DEF PermitHasMsg
  <1>5. ASSUME NEW b \in Bundles, NEW t \in Topics, subscribe(b, t) PROVE DispatchInv'
    <2>1. CASE listener' = [listener EXCEPT ![<<b, t>>].at = "next"]
      <3> DEFINE l == [listener[<<b, t>>] EXCEPT !.at = "next"]
      <3>1. <<b, t>> \in Subs
        BY DEF Subs
      <3>2. l \in Listener /\ l.at = "next" /\ listener' = [listener EXCEPT ![<<b, t>>] = l]
        BY <1>1, <2>1, <3>1 DEF Listener
      <3> HIDE DEF l
      <3>3. PermitHasMsg'
        BY <1>3, <3>1, <3>2
      <3> QED BY <1>2, <1>5, <3>3 DEF subscribe
    <2> QED BY <1>4, <1>5, <2>1 DEF subscribe
  <1>6. ASSUME NEW s \in Subs, next(s) PROVE DispatchInv'
    <2>1. Head(inbox[s]) \in Calls
      BY <1>1, <1>6 DEF next
    <2>2. [at |-> "permit", msg |-> Head(inbox[s])] \in Listener
      BY <2>1 DEF Listener
    <2>3. PermitHasMsg'
      BY <1>3, <1>6, <2>1, <2>2 DEF next
    <2> QED BY <1>2, <1>6, <2>3 DEF next
  <1>7. ASSUME NEW s \in Subs, acquire_owned(s) PROVE DispatchInv'
    <2> DEFINE d == [sub |-> s, msg |-> listener[s].msg]
    <2>1. listener[s].msg \in Calls
      BY <1>1, <1>7 DEF acquire_owned, PermitHasMsg
    <2>2. d \in Dispatch /\ d.sub = s
      BY <2>1 DEF Dispatch
    <2>3. /\ Cardinality(InFlight(s)) < Permits /\ dispatches' = dispatches \cup {d}
          /\ listener' = [listener EXCEPT ![s] = [at |-> "next", msg |-> None]]
      BY <1>7 DEF acquire_owned, InFlight
    <2>4. [at |-> "next", msg |-> None] \in Listener
      BY DEF Listener
    <2>5. PermitHasMsg'
      BY <1>3, <2>3, <2>4
    <2> HIDE DEF d
    <2>6. IsFiniteSet(dispatches') /\ PermitsKept'
      BY <2>2, <2>3, OneMoreDispatch
    <2> QED BY <1>1, <2>2, <2>3, <2>5, <2>6 DEF DispatchInv
  <1>8. ASSUME NEW s \in Subs, EndListener(s) PROVE DispatchInv'
    <2>1. [at |-> "ended", msg |-> None] \in Listener
      BY DEF Listener
    <2>2. PermitHasMsg'
      BY <1>3, <1>8, <2>1 DEF EndListener
    <2> QED BY <1>2, <1>8, <2>2 DEF EndListener
  <1>9. ASSUME NEW d \in dispatches, dispatch_msg(d) PROVE DispatchInv'
    <2>1. dispatches' = dispatches \ {d} /\ listener' = listener
      BY <1>9 DEF dispatch_msg
    <2>2. IsFiniteSet(dispatches') /\ PermitsKept'
      BY <2>1, FewerDispatches
    <2> QED BY <1>1, <2>1, <2>2 DEF DispatchInv, PermitHasMsg
  <1>10. ASSUME NEW b \in Bundles,
                \/ \E a \in Actors, v \in LinkValues : put_link(b, a, v)
                \/ lock(b) \/ connect(b) \/ insert(b) \/ LoseConnection(b) \/ Disconnect(b)
         PROVE  DispatchInv'
    BY <1>4, <1>10 DEF put_link, lock, connect, insert, LoseConnection, Disconnect
  <1>11. ASSUME NEW a \in Actors,
                unlink("delete", a) \/ delete_link(a)
         PROVE  DispatchInv'
    BY <1>4, <1>11 DEF unlink, delete_link
  <1>12. CASE unlink("shutdown", None) \/ shutdown
    BY <1>4, <1>12 DEF unlink, shutdown
  <1>13. ASSUME NEW q \in Calls,
                \/ \E a \in Actors : read(q, a)
                \/ clone_client(q)
                \/ \E t \in Topics : publish(q, t)
         PROVE  DispatchInv'
    BY <1>4, <1>13 DEF read, clone_client, publish
  <1>14. CASE UNCHANGED vars
    BY <1>4, <1>14 DEF vars
  <1> QED
    BY <1>5, <1>6, <1>7, <1>8, <1>9, <1>10, <1>11, <1>12, <1>13, <1>14 DEF Next

\* The provider keeps the types of its map, lock and tasks, and a subscription
\* never has more dispatches at work than its semaphore has permits: for any
\* number of messages, replaced links and aborted listeners.
THEOREM DispatchesWithinPermits == Spec => []TypeOK
  <1>1. IInv /\ QueueInv /\ DispatchInv => TypeOK
    BY DEF IInv, LinkTypes, QueueInv, DispatchInv, PermitsKept, TypeOK
  <1>2. Spec => [](QueueInv /\ DispatchInv)
    <2>1. (IInv /\ QueueInv /\ DispatchInv) /\ [Next]_vars => (QueueInv /\ DispatchInv)'
      BY QueueStep, DispatchStep
    <2> QED BY Invariance, InitQueue, <2>1, PTL DEF Spec
  <1> QED BY Invariance, <1>1, <1>2, PTL

-----------------------------------------------------------------------------
(* The order in which link handlers take effect. *)

InQueue(s, w) == \E i \in DOMAIN s : s[i] = w
Before(s, w, u) == \E i, j \in DOMAIN s : i < j /\ s[i] = w /\ s[j] = u

Put(b) == [op |-> "put", who |-> b]
LastUnlink(a) == [op |-> last[a], who |-> IF last[a] = "delete" THEN a ELSE None]

\* The actor has a bundle in the map, or one that is past the lock.
Active(a) == \/ actors[a] # None
             \/ \E b \in Bundles : /\ bundle[b].actor = a
                                   /\ bundle[b].stage \in {"connecting", "subscribing"}

\* A put_link that waits is in the queue.
QueuedWaits == \A b \in Bundles : bundle[b].stage = "queued" => InQueue(waiters, Put(b))

\* The handler that came last for an actor, if it unlinks, is still waiting
\* while there is something to unlink.
ActiveUnlinked ==
    \A a \in Actors : last[a] # "put" /\ Active(a) => InQueue(waiters, LastUnlink(a))

\* And it waits behind every put_link of that actor that waits.
QueuedUnlinked ==
    \A b \in Bundles, a \in Actors :
        bundle[b].stage = "queued" /\ bundle[b].actor = a /\ last[a] # "put" =>
            Before(waiters, Put(b), LastUnlink(a))

OrderInv == QueuedWaits /\ ActiveUnlinked /\ QueuedUnlinked

\* Who comes last waits behind all the others.
LEMMA PushOrder ==
    ASSUME NEW s \in Seq(Waiter), NEW w \in Waiter
    PROVE  /\ InQueue(Append(s, w), w)
           /\ \A x : InQueue(s, x) => InQueue(Append(s, w), x) /\ Before(Append(s, w), x, w)
           /\ \A x, y : Before(s, x, y) => Before(Append(s, w), x, y)
  <1> DEFINE t == Append(s, w)
  <1>1. /\ DOMAIN s = 1..Len(s) /\ DOMAIN t = 1..(Len(s) + 1) /\ Len(s) \in Nat
        /\ \A i \in DOMAIN s : t[i] = s[i]
        /\ t[Len(s) + 1] = w
    BY PushWaiter
  <1> HIDE DEF t
  <1>2. /\ Len(s) + 1 \in DOMAIN t
        /\ \A i \in DOMAIN s : i \in DOMAIN t /\ i < Len(s) + 1
    BY <1>1
  <1>3. InQueue(t, w)
    BY <1>1, <1>2 DEF InQueue
  <1>4. \A x : InQueue(s, x) => InQueue(t, x) /\ Before(t, x, w)
    BY <1>1, <1>2 DEF InQueue, Before
  <1>5. \A x, y : Before(s, x, y) => Before(t, x, y)
    BY <1>1, <1>2 DEF Before
  <1> QED BY <1>3, <1>4, <1>5 DEF t

\* The first goes, the others stay in their order.
LEMMA PopOrder ==
    ASSUME NEW s \in Seq(Waiter), s # <<>>
    PROVE  /\ \A x : InQueue(s, x) /\ x # Head(s) => InQueue(Tail(s), x)
           /\ \A x, y : Before(s, x, y) => InQueue(Tail(s), y)
           /\ \A x, y : Before(s, x, y) /\ x # Head(s) => Before(Tail(s), x, y)
  <1> DEFINE t == Tail(s)
  <1>1. /\ Head(s) = s[1] /\ DOMAIN s = 1..Len(s)
        /\ Len(s) \in Nat \ {0}
        /\ \A i \in DOMAIN s : i > 1 => i - 1 \in DOMAIN t /\ t[i - 1] = s[i]
    BY PopWaiter
  <1> HIDE DEF t
  <1>2. ASSUME NEW x, InQueue(s, x), x # Head(s) PROVE InQueue(t, x)
    <2>1. PICK i \in DOMAIN s : s[i] = x
      BY <1>2 DEF InQueue
    <2>2. i > 1
      BY <1>1, <1>2, <2>1
    <2> QED BY <1>1, <2>1, <2>2 DEF InQueue
  <1>3. ASSUME NEW x, NEW y, Before(s, x, y)
        PROVE  InQueue(t, y) /\ (x # Head(s) => Before(t, x, y))
    <2>1. PICK i \in DOMAIN s, j \in DOMAIN s : i < j /\ s[i] = x /\ s[j] = y
      BY <1>3 DEF Before
    <2>2. j > 1 /\ (x # Head(s) => i > 1) /\ i - 1 < j - 1
      BY <1>1, <2>1
    <2>3. InQueue(t, y)
      BY <1>1, <2>1, <2>2 DEF InQueue
    <2>4. ASSUME x # Head(s) PROVE Before(t, x, y)
      <3>1. /\ i - 1 \in DOMAIN t /\ t[i - 1] = x
            /\ j - 1 \in DOMAIN t /\ t[j - 1] = y
        BY <1>1, <2>1, <2>2, <2>4
      <3> QED BY <2>2, <3>1 DEF Before
    <2> QED BY <2>3, <2>4
  <1> QED BY <1>2, <1>3 DEF t

\* Steps that add nobody to the waiting link handlers, link nobody and leave
\* the queue alone, or lengthen it by a handler that only reads.
LEMMA QuietOrder ==
    ASSUME OrderInv, last' = last,
           \A x : InQueue(waiters, x) => InQueue(waiters', x),
           \A x, y : Before(waiters, x, y) => Before(waiters', x, y),
           \A a \in Actors : Active(a)' => Active(a),
           \A b \in Bundles : bundle'[b].stage = "queued" =>
               bundle[b].stage = "queued" /\ bundle'[b].actor = bundle[b].actor
    PROVE  OrderInv'
  <1>1. \A a : LastUnlink(a)' = LastUnlink(a)
    BY DEF LastUnlink
  <1>2. QueuedWaits'
    <2>1. \A b \in Bundles : bundle[b].stage = "queued" => InQueue(waiters, Put(b))
      BY DEF OrderInv, QueuedWaits
    <2>2. \A b \in Bundles : bundle'[b].stage = "queued" => InQueue(waiters', Put(b))
      BY <2>1
    <2> QED BY <2>2 DEF QueuedWaits, Put
  <1>3. ActiveUnlinked'
    BY <1>1 DEF OrderInv, ActiveUnlinked
  <1>4. QueuedUnlinked'
    <2>1. ASSUME NEW b \in Bundles, NEW a \in Actors, bundle'[b].stage = "queued",
                 bundle'[b].actor = a, last'[a] # "put"
          PROVE  Before(waiters', Put(b), LastUnlink(a))
      <3>1. Before(waiters, Put(b), LastUnlink(a))
        BY <2>1 DEF OrderInv, QueuedUnlinked
      <3> QED BY <3>1
    <2> QED BY <1>1, <2>1 DEF QueuedUnlinked, Put
  <1> QED BY <1>2, <1>3, <1>4 DEF OrderInv

\* A handler other than put_link has its turn, and leaves nothing to do for the
\* handler that came last if that was itself.
LEMMA TurnKeepsOrder ==
    ASSUME OrderInv, QueueInv, last' = last, waiters # <<>>, waiters' = Tail(waiters),
           Head(waiters).op # "put",
           \A a \in Actors : Active(a)' => Active(a) /\ LastUnlink(a) # Head(waiters),
           \A b \in Bundles : bundle'[b].stage = "queued" =>
               bundle[b].stage = "queued" /\ bundle'[b].actor = bundle[b].actor
    PROVE  OrderInv'
  <1>1. \A a : LastUnlink(a)' = LastUnlink(a)
    BY DEF LastUnlink
  <1>2. /\ \A x : InQueue(waiters, x) /\ x # Head(waiters) => InQueue(waiters', x)
        /\ \A x, y : Before(waiters, x, y) /\ x # Head(waiters) => Before(waiters', x, y)
    BY PopOrder DEF QueueInv
  <1>3. \A b : Put(b) # Head(waiters)
    BY DEF Put
  <1>4. \A b \in Bundles : bundle'[b].stage = "queued" => InQueue(waiters', Put(b))
    BY <1>2, <1>3 DEF OrderInv, QueuedWaits
  <1>5. \A a \in Actors : last[a] # "put" /\ Active(a)' => InQueue(waiters', LastUnlink(a))
    BY <1>2 DEF OrderInv, ActiveUnlinked
  <1>6. ASSUME NEW b \in Bundles, NEW a \in Actors, bundle'[b].stage = "queued",
               bundle'[b].actor = a, last[a] # "put"
        PROVE  Before(waiters', Put(b), LastUnlink(a))
    BY <1>2, <1>3, <1>6 DEF OrderInv, QueuedUnlinked
  <1> QED
    BY <1>1, <1>4, <1>5, <1>6 DEF OrderInv, QueuedWaits, ActiveUnlinked, QueuedUnlinked, Put

\* put_link begins to wait: for its actor it is the last handler.
LEMMA PutOrder ==
    ASSUME IInv, QueueInv, OrderInv, NEW b \in Bundles, NEW a \in Actors, NEW v \in LinkValues,
           put_link(b, a, v)
    PROVE  OrderInv'
  <1>1. /\ actors' = actors /\ bundle[b].stage = "unused"
        /\ \A c \in Bundles : c # b => bundle'[c] = bundle[c]
        /\ bundle'[b].actor = a /\ bundle'[b].stage \in {"queued", "closed"}
    BY PutEffect DEF IInv
  <1>2. \A c \in Actors : Active(c)' => Active(c)
    BY <1>1 DEF Active
  <1>3. CASE waiters' = waiters /\ last' = last /\ bundle'[b].stage = "closed"
    <2>1. \A c \in Bundles : bundle'[c].stage = "queued" =>
            bundle[c].stage = "queued" /\ bundle'[c].actor = bundle[c].actor
      BY <1>1, <1>3
    <2> QED BY <1>2, <1>3, <2>1, QuietOrder
  <1>4. CASE waiters' = Append(waiters, Put(b)) /\ last' = [last EXCEPT ![a] = "put"]
    <2>1. /\ waiters \in Seq(Waiter) /\ Put(b) \in Waiter
          /\ last \in [Actors -> {"none", "put", "delete", "shutdown"}]
      BY DEF QueueInv, Put, Waiter
    <2>2. /\ InQueue(waiters', Put(b))
          /\ \A x : InQueue(waiters, x) => InQueue(waiters', x)
          /\ \A x, y : Before(waiters, x, y) => Before(waiters', x, y)
      BY <1>4, <2>1, PushOrder
    <2>3. \A c \in Actors : last'[c] # "put" => /\ c # a /\ last[c] # "put"
                                                /\ LastUnlink(c)' = LastUnlink(c)
      BY <1>4, <2>1 DEF LastUnlink
    <2>4. \A c \in Bundles : bundle'[c].stage = "queued" => InQueue(waiters', Put(c))
      BY <1>1, <2>2 DEF OrderInv, QueuedWaits
    <2>5. \A c \in Actors : last'[c] # "put" /\ Active(c)' => InQueue(waiters', LastUnlink(c)')
      BY <1>2, <2>2, <2>3 DEF OrderInv, ActiveUnlinked
    <2>6. ASSUME NEW c \in Bundles, NEW d \in Actors, bundle'[c].stage = "queued",
                 bundle'[c].actor = d, last'[d] # "put"
          PROVE  Before(waiters', Put(c), LastUnlink(d)')
      <3>1. c # b /\ bundle'[c] = bundle[c]
        BY <1>1, <2>3, <2>6
      <3>2. Before(waiters, Put(c), LastUnlink(d))
        BY <2>3, <2>6, <3>1 DEF OrderInv, QueuedUnlinked
      <3> QED BY <2>2, <2>3, <2>6, <3>2
    <2> QED
      BY <2>4, <2>5, <2>6 DEF OrderInv, QueuedWaits, ActiveUnlinked, QueuedUnlinked, Put
  <1>5. \/ waiters' = waiters /\ last' = last /\ bundle'[b].stage = "closed"
        \/ waiters' = Append(waiters, Put(b)) /\ last' = [last EXCEPT ![a] = "put"]
    <2>1. CASE link_config(HostConfig, v) # None
      BY <2>1 DEF put_link, Wait, Put
    <2>2. CASE link_config(HostConfig, v) = None
      <3>1. /\ bundle' = [bundle EXCEPT ![b] = Asked("closed", a, {}, FALSE)]
            /\ waiters' = waiters /\ last' = last
        BY <2>2 DEF put_link
      <3>2. bundle'[b].stage = "closed"
        BY <3>1 DEF IInv, LinkTypes, Asked
      <3> QED BY <3>1, <3>2
    <2> QED BY <2>1, <2>2
  <1> QED BY <1>3, <1>4, <1>5

\* put_link has the lock: what came after it still waits.
LEMMA LockOrder ==
    ASSUME IInv, QueueInv, OrderInv, NEW b \in Bundles, lock(b)
    PROVE  OrderInv'
  <1>1. /\ waiters \in Seq(Waiter) /\ waiters # <<>> /\ Head(waiters) = Put(b)
        /\ waiters' = Tail(waiters) /\ last' = last /\ actors' = actors
        /\ last \in [Actors -> {"none", "put", "delete", "shutdown"}]
    BY DEF lock, Turn, QueueInv, Put
  <1>2. /\ \A x : InQueue(waiters, x) /\ x # Put(b) => InQueue(waiters', x)
        /\ \A x, y : Before(waiters, x, y) => InQueue(waiters', y)
        /\ \A x, y : Before(waiters, x, y) /\ x # Put(b) => Before(waiters', x, y)
    BY <1>1, PopOrder
  <1>3. /\ bundle[b].stage = "queued" /\ bundle'[b].stage = "connecting"
        /\ bundle'[b].actor = bundle[b].actor
        /\ \A c \in Bundles : c # b => bundle'[c] = bundle[c]
    BY DEF lock, IInv, LinkTypes, Bundle
  <1>4. \A a : LastUnlink(a)' = LastUnlink(a)
    BY <1>1 DEF LastUnlink
  <1>5. \A a \in Actors : last[a] # "put" => LastUnlink(a) # Put(b)
    BY DEF LastUnlink, Put
  <1>6. \A c : c # b => Put(c) # Put(b)
    BY DEF Put
  <1>7. \A c \in Bundles : bundle'[c].stage = "queued" => InQueue(waiters', Put(c))
    BY <1>2, <1>3, <1>6 DEF OrderInv, QueuedWaits
  <1>8. ASSUME NEW a \in Actors, last[a] # "put", Active(a)'
        PROVE  InQueue(waiters', LastUnlink(a))
    <2>1. CASE Active(a)
      BY <1>2, <1>5, <1>8, <2>1 DEF OrderInv, ActiveUnlinked
    <2>2. CASE ~Active(a)
      <3>1. bundle[b].actor = a
        BY <1>1, <1>3, <1>8, <2>2 DEF Active
      <3>2. Before(waiters, Put(b), LastUnlink(a))
        BY <1>3, <1>8, <3>1 DEF OrderInv, QueuedUnlinked
      <3> QED BY <1>2, <3>2
    <2> QED BY <2>1, <2>2
  <1>9. ASSUME NEW c \in Bundles, NEW a \in Actors, bundle'[c].stage = "queued",
               bundle'[c].actor = a, last[a] # "put"
        PROVE  Before(waiters', Put(c), LastUnlink(a))
    <2>1. c # b /\ bundle'[c] = bundle[c]
      BY <1>3, <1>9
    <2> QED BY <1>2, <1>6, <1>9, <2>1 DEF OrderInv, QueuedUnlinked
  <1> QED
    BY <1>1, <1>4, <1>7, <1>8, <1>9
       DEF OrderInv, QueuedWaits, ActiveUnlinked, QueuedUnlinked, Put

\* delete_link or shutdown begins to wait, behind every put_link that waits.
LEMMA UnlinkOrder ==
    ASSUME QueueInv, OrderInv, NEW op, NEW who,
           (op = "delete" /\ who \in Actors) \/ (op = "shutdown" /\ who = None),
           unlink(op, who)
    PROVE  OrderInv'
  <1> DEFINE w == [op |-> op, who |-> who]
  <1>1. /\ waiters \in Seq(Waiter) /\ w \in Waiter /\ waiters' = Append(waiters, w)
        /\ actors' = actors /\ bundle' = bundle
        /\ last' = [a \in Actors |-> IF op = "delete" /\ a # who THEN last[a] ELSE op]
    BY DEF QueueInv, Waiter, unlink, Wait
  <1>2. /\ InQueue(waiters', w)
        /\ \A x : InQueue(waiters, x) => InQueue(waiters', x) /\ Before(waiters', x, w)
        /\ \A x, y : Before(waiters, x, y) => Before(waiters', x, y)
    BY <1>1, PushOrder
  <1>3. ASSUME NEW a \in Actors
        PROVE  \/ LastUnlink(a)' = w
               \/ last'[a] = last[a] /\ LastUnlink(a)' = LastUnlink(a)
    BY <1>1 DEF LastUnlink
  <1> HIDE DEF w
  <1>4. \A b \in Bundles : bundle[b].stage = "queued" => InQueue(waiters', Put(b))
    BY <1>2 DEF OrderInv, QueuedWaits
  <1>5. ASSUME NEW a \in Actors, last'[a] # "put", Active(a)
        PROVE  InQueue(waiters', LastUnlink(a)')
    BY <1>2, <1>3, <1>5 DEF OrderInv, ActiveUnlinked
  <1>6. ASSUME NEW b \in Bundles, NEW a \in Actors, bundle[b].stage = "queued",
               bundle[b].actor = a, last'[a] # "put"
        PROVE  Before(waiters', Put(b), LastUnlink(a)')
    <2>1. CASE LastUnlink(a)' = w
      BY <1>2, <1>6, <2>1 DEF OrderInv, QueuedWaits
    <2>2. CASE last'[a] = last[a] /\ LastUnlink(a)' = LastUnlink(a)
      BY <1>2, <1>6, <2>2 DEF OrderInv, QueuedUnlinked
    <2> QED BY <1>3, <2>1, <2>2
  <1>7. \A a \in Actors : Active(a)' => Active(a)
    BY <1>1 DEF Active
  <1> QED
    BY <1>1, <1>4, <1>5, <1>6, <1>7
       DEF OrderInv, QueuedWaits, ActiveUnlinked, QueuedUnlinked, Put

\* Every step keeps the order.
LEMMA OrderStep == IInv /\ QueueInv /\ OrderInv /\ [Next]_vars => OrderInv'
  <1> SUFFICES ASSUME IInv, QueueInv, OrderInv, [Next]_vars PROVE OrderInv'
    OBVIOUS
  <1>1. /\ actors \in [Actors -> Bundles \cup {None}] /\ bundle \in [Bundles -> Bundle]
        /\ waiters \in Seq(Waiter)
        /\ last \in [Actors -> {"none", "put", "delete", "shutdown"}]
    BY DEF IInv, LinkTypes, QueueInv
  <1>2. ASSUME UNCHANGED <<waiters, last, actors>>, NEW b \in Bundles,
               \A c \in Bundles : c # b => bundle'[c] = bundle[c],
               bundle'[b].actor = bundle[b].actor, bundle'[b].stage # "queued",
               bundle'[b].stage \in {"connecting", "subscribing"} =>
                   bundle[b].stage \in {"connecting", "subscribing"}
        PROVE  OrderInv'
    <2>1. \A a \in Actors : Active(a)' => Active(a)
      BY <1>2 DEF Active
    <2>2. \A c \in Bundles : bundle'[c].stage = "queued" =>
            bundle[c].stage = "queued" /\ bundle'[c].actor = bundle[c].actor
      BY <1>2
    <2> QED BY <1>2, <2>1, <2>2, QuietOrder
  <1>3. ASSUME UNCHANGED <<waiters, last, actors, bundle>> PROVE OrderInv'
    BY <1>3, QuietOrder DEF Active
  <1>4. ASSUME NEW b \in Bundles, connect(b) PROVE OrderInv'
    <2>1. PICK st \in {"subscribing", "failed"}, cn \in {0, 1} :
            bundle' = [bundle EXCEPT ![b].stage = st, ![b].connected = cn]
      <3>1. CASE bundle' = [bundle EXCEPT ![b].stage = "subscribing", ![b].connected = 1]
        BY <3>1
      <3>2. CASE bundle' = [bundle EXCEPT ![b].stage = "failed"]
        <4>1. bundle' = [bundle EXCEPT ![b].stage = "failed", ![b].connected = bundle[b].connected]
          BY <1>1, <3>2 DEF Bundle
        <4>2. bundle[b].connected \in {0, 1}
          BY <1>1 DEF Bundle
        <4> QED BY <4>1, <4>2
      <3> QED BY <1>4, <3>1, <3>2 DEF connect
    <2>2. /\ \A c \in Bundles : c # b => bundle'[c] = bundle[c]
          /\ bundle'[b].actor = bundle[b].actor /\ bundle'[b].stage = st
      BY <1>1, <2>1 DEF Bundle
    <2>3. UNCHANGED <<waiters, last, actors>> /\ bundle[b].stage = "connecting"
      BY <1>4 DEF connect
    <2> QED BY <1>2, <2>2, <2>3
  <1>5. ASSUME NEW b \in Bundles, NEW t \in Topics, subscribe(b, t) PROVE OrderInv'
    <2>1. /\ \A c \in Bundles : c # b => bundle'[c] = bundle[c]
          /\ bundle'[b].actor = bundle[b].actor
          /\ bundle'[b].stage \in {"subscribing", "failed"}
      <3>1. CASE bundle' = [bundle EXCEPT ![b].todo = @ \ {t}]
        BY <1>1, <1>5, <3>1 DEF Bundle, subscribe
      <3>2. CASE bundle' = [bundle EXCEPT ![b].stage = "failed"]
        BY <1>1, <3>2 DEF Bundle
      <3> QED BY <1>5, <3>1, <3>2 DEF subscribe
    <2>2. UNCHANGED <<waiters, last, actors>> /\ bundle[b].stage = "subscribing"
      BY <1>5 DEF subscribe
    <2> QED BY <1>2, <2>1, <2>2
  <1>6. ASSUME NEW b \in Bundles, LoseConnection(b) PROVE OrderInv'
    <2>1. /\ UNCHANGED <<waiters, last, actors>>
          /\ \A c \in Bundles : /\ bundle'[c].actor = bundle[c].actor
                                /\ bundle'[c].stage = bundle[c].stage
      BY <1>1, <1>6 DEF LoseConnection, Bundle
    <2>2. \A a \in Actors : Active(a)' => Active(a)
      BY <2>1 DEF Active
    <2> QED BY <2>1, <2>2, QuietOrder
  <1>7. ASSUME NEW b \in Bundles, Disconnect(b) PROVE OrderInv'
    <2>1. /\ \A c \in Bundles : c # b => bundle'[c] = bundle[c]
          /\ bundle'[b].actor = bundle[b].actor /\ bundle'[b].stage = "closed"
      BY <1>1, <1>7 DEF Disconnect, Bundle
    <2>2. UNCHANGED <<waiters, last, actors>>
      BY <1>7 DEF Disconnect
    <2> QED BY <1>2, <2>1, <2>2
  <1>8. ASSUME NEW b \in Bundles, insert(b) PROVE OrderInv'
    <2>1. PICK D : /\ D = Dropped({actors[bundle[b].actor]})
                   /\ bundle' = [D EXCEPT ![b].stage = "linked"]
      BY <1>8 DEF insert
    <2>2. /\ D \in [Bundles -> Bundle]
          /\ \A c \in Bundles : /\ D[c].stage = bundle[c].stage \/ D[c].stage = "dropped"
                                /\ D[c].actor = bundle[c].actor
      BY <1>1, <2>1, DroppedType
    <2>3. \A c \in Bundles :
            /\ bundle'[c].actor = bundle[c].actor
            /\ bundle'[c].stage = bundle[c].stage \/ bundle'[c].stage \in {"linked", "dropped"}
      <3> DEFINE r == [D[b] EXCEPT !.stage = "linked"]
      <3>1. D[b] \in Bundle
        BY <2>2
      <3>2. r.stage = "linked" /\ r.actor = D[b].actor
        BY <3>1 DEF Bundle
      <3>3. bundle' = [D EXCEPT ![b] = r]
        BY <2>1, <2>2
      <3> HIDE DEF r
      <3> QED BY <2>2, <3>2, <3>3
    <2>4. /\ bundle[b].stage = "subscribing" /\ actors' = [actors EXCEPT ![bundle[b].actor] = b]
          /\ waiters' = waiters /\ last' = last
      BY <1>8 DEF insert
    <2>5. ASSUME NEW a \in Actors, Active(a)' PROVE Active(a)
      <3>1. CASE actors'[a] = actors[a]
        BY <2>3, <2>5, <3>1 DEF Active
      <3>2. CASE actors'[a] # actors[a]
        <4>1. bundle[b].actor = a
          BY <1>1, <2>4, <3>2
        <4> QED BY <2>4, <4>1 DEF Active
      <3> QED BY <3>1, <3>2
    <2>6. \A c \in Bundles : bundle'[c].stage = "queued" =>
            bundle[c].stage = "queued" /\ bundle'[c].actor = bundle[c].actor
      BY <2>3
    <2> QED BY <2>4, <2>5, <2>6, QuietOrder
  <1>9. ASSUME NEW B, bundle' = Dropped(B)
        PROVE  \A c \in Bundles :
                 /\ bundle'[c].actor = bundle[c].actor
                 /\ bundle'[c].stage = bundle[c].stage \/ bundle'[c].stage = "dropped"
    BY <1>1, <1>9, DroppedType
  <1>10. ASSUME NEW a \in Actors, delete_link(a) PROVE OrderInv'
    <2>1. /\ holder = None /\ waiters # <<>> /\ Head(waiters) = [op |-> "delete", who |-> a]
          /\ waiters' = Tail(waiters) /\ actors' = [actors EXCEPT ![a] = None]
          /\ bundle' = Dropped({actors[a]}) /\ last' = last
      BY <1>10 DEF delete_link, Turn
    <2>2. \A c \in Bundles :
            /\ bundle'[c].actor = bundle[c].actor
            /\ bundle'[c].stage = bundle[c].stage \/ bundle'[c].stage = "dropped"
      BY <1>9, <2>1
    <2>3. \A c \in Bundles : bundle[c].stage \notin {"connecting", "subscribing"}
      BY <2>1, NatsAssumption DEF IInv, OneConnects
    <2>4. ASSUME NEW c \in Actors, Active(c)'
          PROVE  Active(c) /\ LastUnlink(c) # Head(waiters)
      <3>1. actors'[c] # None
        BY <2>2, <2>3, <2>4 DEF Active
      <3>2. c # a /\ actors[c] # None
        BY <1>1, <2>1, <3>1
      <3> QED BY <2>1, <3>2 DEF Active, LastUnlink
    <2>5. Head(waiters).op # "put"
      BY <2>1
    <2>6. \A c \in Bundles : bundle'[c].stage = "queued" =>
            bundle[c].stage = "queued" /\ bundle'[c].actor = bundle[c].actor
      BY <2>2
    <2> QED BY <2>1, <2>4, <2>5, <2>6, TurnKeepsOrder
  <1>11. ASSUME shutdown PROVE OrderInv'
    <2>1. /\ holder = None /\ waiters # <<>> /\ Head(waiters).op # "put"
          /\ waiters' = Tail(waiters) /\ actors' = [a \in Actors |-> None]
          /\ bundle' = Dropped({actors[a] : a \in Actors}) /\ last' = last
      BY <1>11 DEF shutdown, Turn
    <2>2. \A c \in Bundles :
            /\ bundle'[c].actor = bundle[c].actor
            /\ bundle'[c].stage = bundle[c].stage \/ bundle'[c].stage = "dropped"
      BY <1>9, <2>1
    <2>3. \A c \in Bundles : bundle[c].stage \notin {"connecting", "subscribing"}
      BY <2>1, NatsAssumption DEF IInv, OneConnects
    <2>4. \A c \in Actors : ~Active(c)'
      BY <2>1, <2>2, <2>3 DEF Active
    <2>5. \A c \in Bundles : bundle'[c].stage = "queued" =>
            bundle[c].stage = "queued" /\ bundle'[c].actor = bundle[c].actor
      BY <2>2
    <2> QED BY <2>1, <2>4, <2>5, TurnKeepsOrder
  <1>12. ASSUME NEW q \in Calls, NEW a \in Actors, read(q, a) PROVE OrderInv'
    <2> DEFINE w == [op |-> "read", who |-> q]
    <2>1. w \in Waiter /\ waiters' = Append(waiters, w) /\ UNCHANGED <<last, actors, bundle>>
      BY <1>12 DEF read, Wait, Waiter
    <2> HIDE DEF w
    <2>2. /\ \A x : InQueue(waiters, x) => InQueue(waiters', x)
          /\ \A x, y : Before(waiters, x, y) => Before(waiters', x, y)
      BY <1>1, <2>1, PushOrder
    <2> QED BY <2>1, <2>2, QuietOrder DEF Active
  <1>13. ASSUME NEW q \in Calls, clone_client(q) PROVE OrderInv'
    <2>1. /\ waiters # <<>> /\ Head(waiters) = [op |-> "read", who |-> q]
          /\ waiters' = Tail(waiters) /\ UNCHANGED <<last, actors, bundle>>
      BY <1>13 DEF clone_client, Turn
    <2>2. Head(waiters).op # "put" /\ \A a \in Actors : LastUnlink(a) # Head(waiters)
      BY <1>1, <2>1 DEF LastUnlink
    <2> QED BY <2>1, <2>2, TurnKeepsOrder DEF Active
  <1>14. ASSUME NEW s \in Subs, next(s) \/ acquire_owned(s) \/ EndListener(s) PROVE OrderInv'
    BY <1>3, <1>14 DEF next, acquire_owned, EndListener
  <1>15. ASSUME NEW d \in dispatches, dispatch_msg(d) PROVE OrderInv'
    BY <1>3, <1>15 DEF dispatch_msg
  <1>16. ASSUME NEW q \in Calls, NEW t \in Topics, publish(q, t) PROVE OrderInv'
    BY <1>3, <1>16 DEF publish
  <1>17. CASE UNCHANGED vars
    BY <1>3, <1>17 DEF vars
  <1>18. ASSUME NEW a \in Actors, unlink("delete", a) PROVE OrderInv'
    BY <1>18, UnlinkOrder
  <1>19. ASSUME unlink("shutdown", None) PROVE OrderInv'
    BY <1>19, UnlinkOrder
  <1> QED
    BY <1>4, <1>5, <1>6, <1>7, <1>8, <1>10, <1>11, <1>12, <1>13, <1>14, <1>15, <1>16, <1>17,
       <1>18, <1>19, PutOrder, LockOrder DEF Next

\* Handlers take effect in the order they came: while an actor has a bundle
\* and the last handler that came for it is a delete_link or a shutdown, that
\* handler is still waiting for the lock, for any number of handlers and
\* however long each of them takes to connect.
THEOREM HandlersTakeEffectInOrder == Spec => []LastHandlerWins
  <1>1. OrderInv => LastHandlerWins
    <2> SUFFICES ASSUME OrderInv, NEW a \in Actors, actors[a] # None, last[a] # "put"
                 PROVE  \E i \in DOMAIN waiters : waiters[i].op = last[a]
                                                    /\ waiters[i].who \in {a, None}
      BY DEF LastHandlerWins
    <2>1. PICK i \in DOMAIN waiters : waiters[i] = LastUnlink(a)
      BY DEF OrderInv, ActiveUnlinked, Active, InQueue
    <2>2. LastUnlink(a).op = last[a] /\ LastUnlink(a).who \in {a, None}
      BY DEF LastUnlink
    <2> QED BY <2>1, <2>2
  <1>2. Init => OrderInv
    BY DEF Init, OrderInv, QueuedWaits, ActiveUnlinked, QueuedUnlinked, Active
  <1>3. Spec => [](QueueInv /\ OrderInv)
    <2>1. (IInv /\ QueueInv /\ OrderInv) /\ [Next]_vars => (QueueInv /\ OrderInv)'
      BY QueueStep, OrderStep
    <2> QED BY Invariance, InitQueue, <1>2, <2>1, PTL DEF Spec
  <1> QED BY <1>1, <1>3, PTL

-----------------------------------------------------------------------------
(* What a link is connected with.                                            *)

\* The document new_from reads: the one the link has, or the default.
OwnDocument(values) ==
    IF "config_b64" \in DOMAIN values THEN values["config_b64"]
    ELSE IF "config_json" \in DOMAIN values THEN values["config_json"]
    ELSE [parses |-> TRUE, given |-> ConnectionConfigDefault]

Elements(s) == {s[i] : i \in DOMAIN s}

\* Appending one list to another adds its elements.
LEMMA ElementsOfConcat ==
    ASSUME NEW s, NEW t, IsSequence(s), IsSequence(t)
    PROVE  Elements(s \o t) = Elements(s) \cup Elements(t)
  <1> DEFINE S == Elements(s) \cup Elements(t)
  <1>1. s \in Seq(S) /\ t \in Seq(S)
    BY DEF IsSequence, Elements
  <1>2. /\ Len(s) \in Nat /\ Len(t) \in Nat
        /\ DOMAIN s = 1..Len(s) /\ DOMAIN t = 1..Len(t)
        /\ DOMAIN (s \o t) = 1..(Len(s) + Len(t))
        /\ \A i \in 1..(Len(s) + Len(t)) :
             (s \o t)[i] = IF i <= Len(s) THEN s[i] ELSE t[i - Len(s)]
    BY <1>1, ConcatProperties
  <1> HIDE DEF S
  <1>3. ASSUME NEW x \in Elements(s \o t) PROVE x \in Elements(s) \cup Elements(t)
    BY <1>2 DEF Elements
  <1>4. ASSUME NEW x \in Elements(s) PROVE x \in Elements(s \o t)
    BY <1>2 DEF Elements
  <1>5. ASSUME NEW x \in Elements(t) PROVE x \in Elements(s \o t)
    <2>1. PICK i \in 1..Len(t) : x = t[i]
      BY <1>2 DEF Elements
    <2>2. i + Len(s) \in 1..(Len(s) + Len(t)) /\ (s \o t)[i + Len(s)] = t[i]
      BY <1>2
    <2> QED BY <2>1, <2>2, <1>2 DEF Elements
  <1> QED BY <1>3, <1>4, <1>5

\* A list without elements is the empty one.
LEMMA NoElements ==
    ASSUME NEW s, IsSequence(s), Elements(s) = {} PROVE s = <<>>
  <1>1. s \in Seq(Elements(s)) /\ Len(s) \in Nat /\ DOMAIN s = 1..Len(s)
    BY DEF IsSequence, Elements
  <1>2. ASSUME 1 \in DOMAIN s PROVE FALSE
    BY <1>2 DEF Elements
  <1>3. Len(s) = 0
    BY <1>1, <1>2
  <1> QED BY <1>1, <1>3, EmptySeq

\* What new_from takes for an option: the link's key, else its document, else
\* nothing.
LEMMA OwnOption ==
    ASSUME NEW v, WellFormed(v), new_from(v) # None, NEW f \in Options
    PROVE  new_from(v)[f] = IF KeyOf[f] \in DOMAIN v THEN v[KeyOf[f]]
                            ELSE IF f \in DOMAIN Document(v) THEN Document(v)[f] ELSE None
  <1> DEFINE base == Deserialized(OwnDocument(v))
  <1>1. base[f] = IF f \in DOMAIN Document(v) THEN Document(v)[f] ELSE None
    BY DEF Deserialized, OwnDocument, Document, Options, Lists, Unset, ConnectionConfigDefault
  <1>2. new_from(v)[f] = IF KeyOf[f] \in DOMAIN v THEN v[KeyOf[f]] ELSE base[f]
    <2> DEFINE n == new_from(v)
               option(g, k) == IF k \in DOMAIN v THEN v[k] ELSE base[g]
    <2>1. /\ n.auth_jwt = option("auth_jwt", "CLIENT_JWT")
          /\ n.auth_seed = option("auth_seed", "CLIENT_SEED")
          /\ n.tls_ca = option("tls_ca", "TLS_CA")
          /\ n.tls_ca_file = option("tls_ca_file", "TLS_CA_FILE")
          /\ n.ping_interval_sec = base.ping_interval_sec
      BY DEF new_from, OwnDocument
    <2> HIDE DEF n, base
    <2>2. n[f] = IF KeyOf[f] \in DOMAIN v THEN v[KeyOf[f]] ELSE base[f]
      BY <2>1 DEF Options, KeyOf, WellFormed
    <2> QED BY <2>2 DEF n
  <1> QED BY <1>1, <1>2

\* The same for the two lists: subscriptions add up, and URIs are never missing.
LEMMA OwnLists ==
    ASSUME NEW v, WellFormed(v), new_from(v) # None
    PROVE  LET said == IF "subscriptions" \in DOMAIN Document(v)
                       THEN Document(v)["subscriptions"] ELSE <<>>
               key == IF "SUBSCRIPTION" \in DOMAIN v THEN v["SUBSCRIPTION"] ELSE <<>>
               uris == IF "URI" \in DOMAIN v THEN v["URI"]
                       ELSE IF "cluster_uris" \in DOMAIN Document(v)
                       THEN Document(v)["cluster_uris"] ELSE <<>>
           IN /\ new_from(v).subscriptions = said \o key
              /\ IsSequence(said) /\ IsSequence(key)
              /\ new_from(v).cluster_uris = IF uris = <<>> THEN <<DefaultUri>> ELSE uris
  <1> DEFINE base == Deserialized(OwnDocument(v))
  <1>1. base.subscriptions = IF "subscriptions" \in DOMAIN Document(v)
                             THEN Document(v)["subscriptions"] ELSE <<>>
    BY DEF Deserialized, OwnDocument, Document, Options, Lists, Unset, ConnectionConfigDefault
  <1>2. base.cluster_uris = IF "cluster_uris" \in DOMAIN Document(v)
                             THEN Document(v)["cluster_uris"]
                            ELSE IF DOMAIN v \cap {"config_b64", "config_json"} = {}
                            THEN <<DefaultUri>> ELSE <<>>
    BY DEF Deserialized, OwnDocument, Document, Options, Lists, Unset, ConnectionConfigDefault
  <1>3. /\ new_from(v).subscriptions =
             base.subscriptions \o (IF "SUBSCRIPTION" \in DOMAIN v THEN v["SUBSCRIPTION"] ELSE <<>>)
        /\ LET uris == IF "URI" \in DOMAIN v THEN v["URI"] ELSE base.cluster_uris
           IN new_from(v).cluster_uris = IF uris = <<>> THEN <<DefaultUri>> ELSE uris
    BY DEF new_from, OwnDocument
  <1>4. IsSequence(<<>>)
    BY DEF IsSequence
  <1>5. "subscriptions" \in DOMAIN Document(v) => IsSequence(Document(v)["subscriptions"])
    BY DEF Document, WellFormed, WellFormedDoc, Lists
  <1>6. DOMAIN v \cap {"config_b64", "config_json"} = {} => "cluster_uris" \notin DOMAIN Document(v)
    BY DEF Document
  <1> HIDE DEF base
  <1> QED BY <1>1, <1>2, <1>3, <1>4, <1>5, <1>6 DEF WellFormed

\* The configuration of a link is layered over the host's, for all well-formed
\* link values and whatever the host gives.
LEMMA LinkConfigLayers ==
    ASSUME NEW h, NEW v, WellFormed(v)
    PROVE  LayeredFor(h, v)
  <1> DEFINE cfg == link_config(h, v)
             host == generate_provider(h)
             said(f) == f \in DOMAIN Document(v) \/ KeyOf[f] \in DOMAIN v
             link(f) == IF KeyOf[f] \in DOMAIN v THEN v[KeyOf[f]] ELSE Document(v)[f]
             document == IF "subscriptions" \in DOMAIN Document(v)
                         THEN Document(v)["subscriptions"] ELSE <<>>
             key == IF "SUBSCRIPTION" \in DOMAIN v THEN v["SUBSCRIPTION"] ELSE <<>>
             own == Elements(document) \cup Elements(key)
  <1> SUFFICES ASSUME cfg # None
               PROVE /\ \A f \in Options : cfg[f] = IF said(f) THEN link(f) ELSE host[f]
                     /\ Elements(cfg.subscriptions) =
                          IF own = {} THEN Elements(host.subscriptions) ELSE own
                     /\ cfg.cluster_uris = IF said("cluster_uris") /\ link("cluster_uris") # <<>>
                                           THEN link("cluster_uris")
                                           ELSE IF DOMAIN v = {} THEN host.cluster_uris
                                           ELSE <<DefaultUri>>
    BY DEF LayeredFor, Elements
  <1>e. Elements(<<>>) = {}
    BY DEF Elements
  <1>1. CASE DOMAIN v = {}
    <2>1. cfg = host
      BY <1>1 DEF link_config
    <2>2. DOMAIN Document(v) = {}
      BY <1>1 DEF Document
    <2>3. own = {}
      BY <1>1, <2>2, <1>e
    <2> HIDE DEF own, cfg, host
    <2>4. \A f \in Options \cup Lists : ~said(f)
      BY <1>1, <2>2
    <2> QED BY <1>1, <2>1, <2>3, <2>4 DEF Lists
  <1>2. CASE DOMAIN v # {}
    <2> DEFINE n == new_from(v)
    <2>1. n # None /\ cfg = merge(host, n)
      BY <1>2 DEF link_config
    <2>2. \A f \in Options : cfg[f] = IF n[f] # None THEN n[f] ELSE host[f]
      BY <2>1 DEF merge, Options, Lists
    <2>3. \A f \in Lists : cfg[f] = IF n[f] # <<>> THEN n[f] ELSE host[f]
      BY <2>1 DEF merge
    <2>4. ASSUME NEW f \in Options PROVE cfg[f] = IF said(f) THEN link(f) ELSE host[f]
      <3>1. n[f] = IF said(f) THEN link(f) ELSE None
        BY <2>1, OwnOption
      <3>2. KeyOf[f] \in DOMAIN v => v[KeyOf[f]] # None
        BY DEF WellFormed, KeyOf, Options
      <3>3. f \in DOMAIN Document(v) => Document(v)[f] # None
        BY DEF WellFormed, WellFormedDoc, Document, Options, Lists
      <3> HIDE DEF cfg, host, n
      <3> QED BY <2>2, <3>1, <3>2, <3>3
    <2>5. /\ n.subscriptions = document \o key
          /\ IsSequence(document) /\ IsSequence(key)
      BY <2>1, OwnLists
    <2>6. Elements(cfg.subscriptions) = IF own = {} THEN Elements(host.subscriptions) ELSE own
      <3>1. Elements(n.subscriptions) = own
        BY <2>5, ElementsOfConcat
      <3>2. n.subscriptions = <<>> <=> own = {}
        <4>1. Elements(document) = {} => document = <<>>
          BY <2>5, NoElements
        <4>2. Elements(key) = {} => key = <<>>
          BY <2>5, NoElements
        <4>3. own = {} => n.subscriptions = <<>>
          BY <2>5, <4>1, <4>2, ConcatEmptySeq
        <4> HIDE DEF own, n
        <4> QED BY <3>1, <4>3, <1>e
      <3>3. cfg.subscriptions = IF n.subscriptions # <<>> THEN n.subscriptions
                                ELSE host.subscriptions
        BY <2>3 DEF Lists
      <3> HIDE DEF own, n, cfg, host
      <3> QED BY <3>1, <3>2, <3>3
    <2>7. cfg.cluster_uris = IF said("cluster_uris") /\ link("cluster_uris") # <<>>
                             THEN link("cluster_uris") ELSE <<DefaultUri>>
      <3> DEFINE uris == IF "URI" \in DOMAIN v THEN v["URI"]
                         ELSE IF "cluster_uris" \in DOMAIN Document(v)
                         THEN Document(v)["cluster_uris"] ELSE <<>>
      <3>1. n.cluster_uris = IF uris = <<>> THEN <<DefaultUri>> ELSE uris
        BY <2>1, OwnLists
      <3>2. n.cluster_uris # <<>>
        BY <3>1
      <3>3. cfg.cluster_uris = n.cluster_uris
        BY <2>3, <3>2 DEF Lists
      <3>4. KeyOf["cluster_uris"] = "URI"
        BY DEF KeyOf
      <3> HIDE DEF cfg, n
      <3> QED BY <3>1, <3>3, <3>4
    <2> HIDE DEF cfg, own, host
    <2> QED BY <1>2, <2>4, <2>6, <2>7
  <1> QED BY <1>1, <1>2

\* A link is connected with what it says itself, and where it says nothing with
\* what the host gave, for all link values and configurations of the host
\* (new_from and merge, main.rs 86-175; put_link, 339-350).
THEOREM LinkConfigIsLayered == Spec => []ConfigLayered
  <1>1. ConfigLayered
    BY InputsAssumption, LinkConfigLayers DEF ConfigLayered
  <1> QED BY <1>1, PTL
=============================================================================
