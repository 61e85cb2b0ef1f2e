-------------------------- MODULE HttpAndFsProofs ---------------------------
(* The two providers with a server of their own kind: httpserver-rs, whose  *)
(* listeners follow the links, and blobstore-fs, whose files follow the     *)
(* chunks of the uploads.  The parts do not depend on each other.           *)
EXTENDS HttpServer, BlobstoreFs, SequenceTheorems, FiniteSetTheorems, TLAPS

-----------------------------------------------------------------------------
(* For every set of actors, addresses, servers and requests: the invariants  *)
(* of HttpServer, and that it implements LinkResources.                      *)

\* What start() leaves to insert(): a server that listens, untold to stop,
\* under its actor's name, and is not in the map yet.
StartingListens ==
    \A s \in starting :
        /\ server[s].stage = "listening" /\ server[s].channel = 0
        /\ server[s].actor \in Actors
        /\ \A a \in Actors : actors[a] # s

\* Every core that was ever started has its actor's name.
StartedHasActor ==
    \A s \in Servers : server[s].stage = "listening" => server[s].actor \in Actors

\* The inductive invariant.
IInv == TypeOK /\ MappedServes /\ NoOrphan /\ StartingListens /\ StartedHasActor

\* A provider that starts, with an empty map, satisfies it.
LEMMA InitIInv == Init => IInv
  BY HttpAssumption DEF Init, IInv, TypeOK, MappedServes, NoOrphan, StartingListens,
     StartedHasActor, Server, Stages, Request, Statuses

\* Telling servers to stop changes nothing else about them.
LEMMA DroppedType ==
    ASSUME server \in [Servers -> Server], NEW S
    PROVE  /\ Dropped(S) \in [Servers -> Server]
           /\ \A s \in Servers :
                /\ Dropped(S)[s].stage = server[s].stage
                /\ Dropped(S)[s].actor = server[s].actor
                /\ Dropped(S)[s].addr = server[s].addr
                /\ s \in S => Dropped(S)[s].channel = 1
                /\ s \notin S => Dropped(S)[s] = server[s]
  BY DEF Dropped, Server

\* The core that settings make for an actor is a server record.
LEMMA CoreType ==
    ASSUME NEW v \in LinkValues, NEW a \in Actors, NEW stage \in Stages, NEW c \in {0, 1}
    PROVE  LET core == Core(stage, a, load_settings(v), c)
           IN  core \in Server /\ core.stage = stage /\ core.actor = a /\ core.channel = c
  <1>1. CASE load_settings(v) = None
    BY <1>1 DEF Core, Server
  <1>2. CASE load_settings(v) # None
    BY <1>2, LinkValuesAssumption DEF Core, Server
  <1> QED BY <1>1, <1>2

\* What load_settings and start() do to the servers: one that listens and is
\* on its way into the map, or one that has failed.
LEMMA StartEffect ==
    ASSUME TypeOK, NEW s \in Servers, NEW a \in Actors, NEW v \in LinkValues, start(s, a, v)
    PROVE  /\ server[s].stage = "unused"
           /\ actors' = actors /\ request' = request
           /\ server' \in [Servers -> Server]
           /\ \A t \in Servers : t # s => server'[t] = server[t]
           /\ server'[s].actor = a
           /\ \/ /\ server'[s].stage = "listening" /\ server'[s].channel = 0
                 /\ starting' = starting \cup {s}
              \/ server'[s].stage = "stopped" /\ starting' = starting
  <1>1. PICK core :
          /\ server' = [server EXCEPT ![s] = core]
          /\ \/ core = Core("listening", a, load_settings(v), 0) /\ starting' = starting \cup {s}
             \/ core = Core("stopped", a, load_settings(v), 1) /\ starting' = starting
    BY DEF start
  <1>2. /\ core \in Server /\ core.actor = a
        /\ \/ core.stage = "listening" /\ core.channel = 0 /\ starting' = starting \cup {s}
           \/ core.stage = "stopped" /\ starting' = starting
    BY <1>1, CoreType DEF Stages
  <1>3. server[s].stage = "unused" /\ actors' = actors /\ request' = request
    BY DEF start
  <1>4. server' \in [Servers -> Server]
    BY <1>1, <1>2 DEF TypeOK
  <1> QED BY <1>1, <1>2, <1>3, <1>4 DEF TypeOK

\* Every handler and every step of a spawned server keeps the types.
LEMMA TypeStep == IInv /\ [Next]_vars => TypeOK'
  <1> SUFFICES ASSUME IInv, [Next]_vars PROVE TypeOK'
    OBVIOUS
  <1> USE DEF IInv, TypeOK
  <1>1. ASSUME NEW s \in Servers, NEW a \in Actors, NEW v \in LinkValues, start(s, a, v)
        PROVE  TypeOK'
    BY <1>1, StartEffect
  <1>2. ASSUME NEW s \in Servers, insert(s) PROVE TypeOK'
    <2>1. server[s].actor \in Actors
      BY <1>2 DEF insert, StartingListens
    <2>2. server' \in [Servers -> Server]
      BY <1>2, DroppedType DEF insert
    <2> QED BY <1>2, <2>1, <2>2 DEF insert
  <1>3. ASSUME NEW s \in Servers, CloseListener(s) \/ Drained(s) PROVE TypeOK'
    BY <1>3 DEF CloseListener, Drained, Server, Stages
  <1>4. ASSUME NEW s \in Servers, NEW r \in Requests, Accept(r, s) PROVE TypeOK'
    <2>1. PICK refused \in BOOLEAN :
            request' = [request EXCEPT
               ![r] = [server |-> s, status |-> IF refused THEN "405" ELSE "calling"]]
      BY <1>4 DEF Accept
    <2>2. request'[r] \in Request
      BY <2>1 DEF Request, Statuses
    <2>3. request' \in [Requests -> Request]
      BY <2>1, <2>2
    <2> QED BY <1>4, <2>3 DEF Accept
  <1>5. ASSUME NEW a \in Actors, delete_link(a) PROVE TypeOK'
    <2>1. server' \in [Servers -> Server]
      BY <1>5, DroppedType DEF delete_link
    <2> QED BY <1>5, <2>1 DEF delete_link
  <1>6. ASSUME NEW r \in Requests, call_actor(r) PROVE TypeOK'
    <2>1. PICK result \in {"ok", "bad status code", "timeout", "error"} :
            request' = [request EXCEPT ![r].status = StatusOf(result)]
      BY <1>6 DEF call_actor
    <2>2. StatusOf(result) \in Statuses
      BY DEF StatusOf, Statuses
    <2>3. request'[r] \in Request
      BY <2>1, <2>2 DEF Request
    <2>4. request' \in [Requests -> Request]
      BY <2>1, <2>3
    <2> QED BY <1>6, <2>4 DEF call_actor
  <1>7. CASE shutdown
    <2>1. server' \in [Servers -> Server]
      BY <1>7, DroppedType DEF shutdown
    <2> QED BY <1>7, <2>1 DEF shutdown
  <1>8. CASE UNCHANGED vars
    BY <1>8 DEF vars
  <1> QED BY <1>1, <1>2, <1>3, <1>4, <1>5, <1>6, <1>7, <1>8 DEF Next

\* Every step keeps the map and the servers in agreement.
LEMMA MapStep ==
    IInv /\ [Next]_vars
      => MappedServes' /\ NoOrphan' /\ StartingListens' /\ StartedHasActor'
  <1> SUFFICES ASSUME IInv, [Next]_vars, TypeOK'
               PROVE  MappedServes' /\ NoOrphan' /\ StartingListens' /\ StartedHasActor'
    BY TypeStep
  <1> USE HttpAssumption DEF IInv, TypeOK
  <1>1. ASSUME NEW s \in Servers, NEW a \in Actors, NEW v \in LinkValues, start(s, a, v)
        PROVE  MappedServes' /\ NoOrphan' /\ StartingListens' /\ StartedHasActor'
    <2>1. /\ \A t \in Servers : t # s => server'[t] = server[t]
          /\ server[s].stage = "unused"
          /\ actors' = actors
      BY <1>1, StartEffect
    <2>2. \A b \in Actors : actors[b] # s
      BY <2>1 DEF MappedServes
    <2>3. \/ /\ server'[s].stage = "listening" /\ server'[s].channel = 0
             /\ server'[s].actor = a /\ starting' = starting \cup {s}
          \/ server'[s].stage = "stopped" /\ starting' = starting
      BY <1>1, StartEffect
    <2>4. s \notin starting
      BY <2>1 DEF StartingListens
    <2>5. MappedServes'
      BY <2>1, <2>2 DEF MappedServes
    <2>6. NoOrphan'
      BY <2>1, <2>3 DEF NoOrphan
    <2>7. StartingListens'
      BY <2>1, <2>2, <2>3, <2>4 DEF StartingListens
    <2>8. StartedHasActor'
      BY <2>1, <2>3 DEF StartedHasActor
    <2> QED BY <2>5, <2>6, <2>7, <2>8
  <1>2. ASSUME NEW s \in Servers, insert(s)
        PROVE  MappedServes' /\ NoOrphan' /\ StartingListens' /\ StartedHasActor'
    <2> DEFINE a == server[s].actor
    <2> DEFINE old == actors[a]
    <2>1. /\ s \in starting /\ a \in Actors /\ old # s
          /\ server[s].stage = "listening" /\ server[s].channel = 0
          /\ actors' = [actors EXCEPT ![a] = s] /\ starting' = starting \ {s}
      BY <1>2 DEF insert, StartingListens
    <2>2. /\ \A t \in Servers : /\ server'[t].stage = server[t].stage
                                /\ server'[t].actor = server[t].actor
                                /\ t # old => server'[t] = server[t]
                                /\ t = old => server'[t].channel = 1
      BY <1>2, DroppedType DEF insert
    <2>3. \A b \in Actors : b # a => actors[b] # old \/ actors[b] = None
      BY <2>1 DEF MappedServes
    <2>4. MappedServes'
      BY <2>1, <2>2, <2>3 DEF MappedServes
    <2>5. NoOrphan'
      BY <2>1, <2>2 DEF NoOrphan
    <2>6. StartingListens'
      <3> SUFFICES ASSUME NEW t \in starting'
                   PROVE  /\ server'[t].stage = "listening" /\ server'[t].channel = 0
                          /\ server'[t].actor \in Actors
                          /\ \A b \in Actors : actors'[b] # t
        BY DEF StartingListens
      <3>1. t \in starting /\ t # s /\ t # old
        BY <2>1 DEF StartingListens
      <3> QED BY <3>1, <2>1, <2>2 DEF StartingListens
    <2>7. StartedHasActor'
      BY <2>2 DEF StartedHasActor
    <2> QED BY <2>4, <2>5, <2>6, <2>7
  <1>3. ASSUME NEW s \in Servers, CloseListener(s) \/ Drained(s)
        PROVE  MappedServes' /\ NoOrphan' /\ StartingListens' /\ StartedHasActor'
    <2>1. /\ \A t \in Servers : t # s => server'[t] = server[t]
          /\ server'[s].stage # "listening"
          /\ actors' = actors /\ starting' = starting
      BY <1>3 DEF CloseListener, Drained, Server
    <2>2. s \notin starting /\ \A a \in Actors : actors[a] # s
      BY <1>3 DEF CloseListener, Drained, StartingListens, MappedServes
    <2>3. MappedServes'
      BY <2>1, <2>2 DEF MappedServes
    <2>4. NoOrphan'
      BY <2>1 DEF NoOrphan
    <2>5. StartingListens'
      BY <2>1, <2>2 DEF StartingListens
    <2>6. StartedHasActor'
      BY <2>1 DEF StartedHasActor
    <2> QED BY <2>3, <2>4, <2>5, <2>6
  <1>4. ASSUME UNCHANGED <<actors, server, starting>>
        PROVE  MappedServes' /\ NoOrphan' /\ StartingListens' /\ StartedHasActor'
    BY <1>4 DEF MappedServes, NoOrphan, StartingListens, StartedHasActor
  <1>5. ASSUME NEW a \in Actors, delete_link(a)
        PROVE  MappedServes' /\ NoOrphan' /\ StartingListens' /\ StartedHasActor'
    <2> DEFINE old == actors[a]
    <2>1. /\ old # None /\ starting' = starting
          /\ actors' = [actors EXCEPT ![a] = None]
          /\ \A t \in Servers : /\ server'[t].stage = server[t].stage
                                /\ server'[t].actor = server[t].actor
                                /\ t # old => server'[t] = server[t]
                                /\ t = old => server'[t].channel = 1
      BY <1>5, DroppedType DEF delete_link
    <2>2. \A b \in Actors : b # a => actors[b] # old
      BY <2>1 DEF MappedServes
    <2>3. MappedServes'
      BY <2>1, <2>2 DEF MappedServes
    <2>4. NoOrphan'
      BY <2>1 DEF NoOrphan
    <2>5. StartingListens'
      BY <2>1 DEF StartingListens
    <2>6. StartedHasActor'
      BY <2>1 DEF StartedHasActor
    <2> QED BY <2>3, <2>4, <2>5, <2>6
  <1>6. CASE shutdown
    <2> DEFINE Old == {actors[a] : a \in Actors}
    <2>1. /\ starting' = starting
          /\ actors' = [a \in Actors |-> None]
          /\ \A t \in Servers : /\ server'[t].stage = server[t].stage
                                /\ server'[t].actor = server[t].actor
                                /\ t \notin Old => server'[t] = server[t]
                                /\ t \in Old => server'[t].channel = 1
      BY <1>6, DroppedType DEF shutdown
    <2>2. MappedServes'
      BY <2>1 DEF MappedServes
    <2>3. NoOrphan'
      BY <2>1 DEF NoOrphan, StartedHasActor
    <2>4. StartingListens'
      BY <2>1 DEF StartingListens
    <2>5. StartedHasActor'
      BY <2>1 DEF StartedHasActor
    <2> QED BY <2>2, <2>3, <2>4, <2>5
  <1> QED
    <2>1. ASSUME NEW s \in Servers, NEW r \in Requests, Accept(r, s)
          PROVE  UNCHANGED <<actors, server, starting>>
      BY <2>1 DEF Accept
    <2>2. ASSUME NEW r \in Requests, call_actor(r)
          PROVE  UNCHANGED <<actors, server, starting>>
      BY <2>2 DEF call_actor
    <2> QED BY <1>1, <1>2, <1>3, <1>4, <1>5, <1>6, <2>1, <2>2 DEF Next, vars

\* The invariant holds of every state the provider can reach.
LEMMA Invariance == Spec => []IInv
  <1>1. IInv /\ [Next]_vars => IInv'
    BY TypeStep, MapStep DEF IInv
  <1> QED BY InitIInv, <1>1, PTL DEF Spec

\* Type correctness of the HTTP server provider (bin/main.rs, lib.rs).
THEOREM HttpTypeOK == Spec => []TypeOK
  <1>1. IInv => TypeOK
    BY DEF IInv
  <1> QED BY Invariance, <1>1, PTL

\* The map never names a server that has stopped, was told to stop, or is
\* another actor's: for any number of links, addresses and put_link calls.
THEOREM LinkedActorsAreServed == Spec => []MappedServes
  <1>1. IInv => MappedServes
    BY DEF IInv
  <1> QED BY Invariance, <1>1, PTL

\* No listener outlives its link: each one is in the map, about to enter it,
\* or told to stop.
THEOREM NoOrphanListener == Spec => []NoOrphan
  <1>1. IInv => NoOrphan
    BY DEF IInv
  <1> QED BY Invariance, <1>1, PTL

\* Every server that was ever started is accounted for, whatever the link
\* values, actors and addresses: a linked actor is served by its own server and
\* a server that serves is linked or about to be.
THEOREM EveryServerAccounted == Spec => []ServersAccounted
  <1>1. IInv => ServersAccounted
    BY DEF IInv, ServersAccounted
  <1> QED BY Invariance, <1>1, PTL

-----------------------------------------------------------------------------
(* Refinement: each step of the provider is a step of LinkResources, or     *)
(* none.                                                                    *)

\* The provider starts with no listener, as LinkResources does.
LEMMA LinkInit == Init => Links!LInit
  BY DEF Init, Links!LInit, phase

\* put_link up to start() opens a resource, or fails to.
LEMMA LinkStart ==
    ASSUME IInv, NEW s \in Servers, NEW a \in Actors, NEW v \in LinkValues,
           start(s, a, v)
    PROVE  Links!Open(s, a)
  <1>1. /\ actors' = actors
        /\ server[s].stage = "unused" /\ s \notin starting
        /\ \A t \in Servers : t # s => server'[t] = server[t]
        /\ server'[s].actor = a
        /\ \/ /\ server'[s].stage = "listening" /\ server'[s].channel = 0
              /\ starting' = starting \cup {s}
           \/ server'[s].stage = "stopped" /\ starting' = starting
    BY StartEffect DEF IInv, StartingListens
  <1>2. [t \in Servers |-> server'[t].actor]
          = [[t \in Servers |-> server[t].actor] EXCEPT ![s] = a]
    BY <1>1
  <1>3. phase[s] = "unused"
    BY <1>1 DEF phase
  <1>4. \E p \in {"opening", "closed"} : phase' = [phase EXCEPT ![s] = p]
    BY <1>1 DEF phase
  <1> QED BY <1>1, <1>2, <1>3, <1>4 DEF Links!Open

\* The insert of put_link installs it and closes the one it replaces.
LEMMA LinkInsert ==
    ASSUME IInv, NEW s \in Servers, insert(s)
    PROVE  Links!Install(s)
  <1> DEFINE a == server[s].actor
  <1> DEFINE old == actors[a]
  <1> USE HttpAssumption DEF IInv, TypeOK
  <1>1. /\ s \in starting /\ a \in Actors /\ old # s
        /\ server[s].stage = "listening" /\ server[s].channel = 0
        /\ actors' = [actors EXCEPT ![a] = s] /\ starting' = starting \ {s}
    BY DEF insert, StartingListens
  <1>2. \A t \in Servers : /\ server'[t].stage = server[t].stage
                           /\ server'[t].actor = server[t].actor
                           /\ t # old => server'[t] = server[t]
                           /\ t = old => server'[t].channel = 1
    BY DroppedType DEF insert
  <1>3. old \in Servers => server[old].stage = "listening" /\ old \notin starting
    BY <1>1 DEF MappedServes, StartingListens
  <1>4. [t \in Servers |-> server'[t].actor] = [t \in Servers |-> server[t].actor]
    BY <1>2
  <1>5. phase[s] = "opening"
    BY <1>1 DEF phase
  <1>6. phase' = [q \in Servers |-> IF q = s THEN "open"
                                   ELSE IF q = old THEN "closing" ELSE phase[q]]
    BY <1>1, <1>2, <1>3 DEF phase
  <1> QED BY <1>1, <1>4, <1>5, <1>6 DEF Links!Install

\* Taking entries out of the map (delete_link, shutdown) releases them.
LEMMA LinkRelease ==
    ASSUME IInv, NEW A \in SUBSET Actors,
           actors' = [a \in Actors |-> IF a \in A THEN None ELSE actors[a]],
           server' = Dropped({actors[a] : a \in A}), starting' = starting
    PROVE  Links!Release(A)
  <1> USE HttpAssumption DEF IInv, TypeOK
  <1> DEFINE Old == {actors[a] : a \in A}
  <1>1. \A t \in Servers : /\ server'[t].stage = server[t].stage
                           /\ server'[t].actor = server[t].actor
                           /\ t \notin Old => server'[t] = server[t]
                           /\ t \in Old => server'[t].channel = 1
    BY DroppedType
  <1>2. \A t \in Servers : t \in Old => server[t].stage = "listening" /\ t \notin starting
    BY DEF MappedServes, StartingListens
  <1>3. [t \in Servers |-> server'[t].actor] = [t \in Servers |-> server[t].actor]
    BY <1>1
  <1>4. phase' = [q \in Servers |-> IF q \in Old THEN "closing" ELSE phase[q]]
    BY <1>1, <1>2 DEF phase
  <1>5. \A q \in Servers : q \in Old <=> \E a \in A : actors[a] = q
    OBVIOUS
  <1> QED BY <1>3, <1>4, <1>5 DEF Links!Release

\* Hence every step of the provider is one of LinkResources, or none.
LEMMA LinkStep == IInv /\ [Next]_vars => [Links!LNext]_(Links!lvars)
  <1> SUFFICES ASSUME IInv, [Next]_vars PROVE [Links!LNext]_(Links!lvars)
    OBVIOUS
  <1> USE DEF Links!LNext
  <1>1. ASSUME NEW s \in Servers, NEW a \in Actors, NEW v \in LinkValues, start(s, a, v)
        PROVE  Links!LNext
    BY <1>1, LinkStart
  <1>2. ASSUME NEW s \in Servers, insert(s) PROVE Links!LNext
    BY <1>2, LinkInsert
  <1>3. ASSUME NEW s \in Servers, CloseListener(s) PROVE UNCHANGED Links!lvars
    <2>1. /\ \A t \in Servers : t # s => server'[t] = server[t]
          /\ server[s].stage = "listening" /\ server[s].channel = 1
          /\ server'[s].stage = "draining" /\ server'[s].actor = server[s].actor
          /\ actors' = actors /\ starting' = starting
      BY <1>3 DEF CloseListener, IInv, TypeOK, Server
    <2>2. s \notin starting
      BY <2>1 DEF IInv, StartingListens
    <2>3. phase' = phase
      BY <2>1, <2>2 DEF phase
    <2>4. [t \in Servers |-> server'[t].actor] = [t \in Servers |-> server[t].actor]
      BY <2>1
    <2> QED BY <2>1, <2>3, <2>4 DEF Links!lvars
  <1>4. ASSUME NEW s \in Servers, Drained(s) PROVE Links!LNext
    <2>1. /\ \A t \in Servers : t # s => server'[t] = server[t]
          /\ server[s].stage = "draining"
          /\ server'[s].stage = "stopped" /\ server'[s].actor = server[s].actor
          /\ actors' = actors /\ starting' = starting
      BY <1>4 DEF Drained, IInv, TypeOK, Server
    <2>2. s \notin starting
      BY <2>1 DEF IInv, StartingListens
    <2>3. phase[s] = "closing" /\ phase' = [phase EXCEPT ![s] = "closed"]
      BY <2>1, <2>2 DEF phase
    <2>4. [t \in Servers |-> server'[t].actor] = [t \in Servers |-> server[t].actor]
      BY <2>1
    <2>5. Links!Closed(s)
      BY <2>1, <2>3, <2>4 DEF Links!Closed
    <2> QED BY <2>5
  <1>5. ASSUME NEW a \in Actors, delete_link(a) PROVE Links!LNext
    <2>1. actors' = [b \in Actors |-> IF b \in {a} THEN None ELSE actors[b]]
      BY <1>5 DEF delete_link, IInv, TypeOK
    <2>2. server' = Dropped({actors[b] : b \in {a}}) /\ starting' = starting
      <3>1. {actors[b] : b \in {a}} = {actors[a]}
        OBVIOUS
      <3> QED BY <1>5, <3>1 DEF delete_link
    <2>3. Links!Release({a})
      BY <2>1, <2>2, LinkRelease
    <2> QED BY <2>3
  <1>6. ASSUME shutdown PROVE Links!LNext
    <2>1. actors' = [b \in Actors |-> IF b \in Actors THEN None ELSE actors[b]]
      BY <1>6 DEF shutdown
    <2>2. server' = Dropped({actors[b] : b \in Actors}) /\ starting' = starting
      BY <1>6 DEF shutdown
    <2>3. Links!Release(Actors)
      BY <2>1, <2>2, LinkRelease
    <2> QED BY <2>3
  <1>7. ASSUME UNCHANGED <<actors, server, starting>> PROVE UNCHANGED Links!lvars
    BY <1>7 DEF Links!lvars, phase
  <1> QED
    <2>1. ASSUME NEW s \in Servers, NEW r \in Requests, Accept(r, s)
          PROVE  UNCHANGED <<actors, server, starting>>
      BY <2>1 DEF Accept
    <2>2. ASSUME NEW r \in Requests, call_actor(r)
          PROVE  UNCHANGED <<actors, server, starting>>
      BY <2>2 DEF call_actor
    <2> QED BY <1>1, <1>2, <1>3, <1>4, <1>5, <1>6, <1>7, <2>1, <2>2 DEF Next, vars

\* The provider implements LinkResources: put_link, delete_link and shutdown
\* open, replace and close listeners as the abstract specification says.
THEOREM HttpServerKeepsLinks == Spec => LinksKept
  <1> QED BY Invariance, LinkInit, LinkStep, PTL DEF Spec, LinksKept, Links!LSpec

\* None is none of the defaults that are told from it.
DefaultsApart == \A f \in CorsFields : ServiceSettingsDefault[f] # None

\* The settings after each source.
FromFile(v) == IF "config_file" \in DOMAIN v
               THEN merge(ServiceSettingsDefault, from_file(v["config_file"]))
               ELSE ServiceSettingsDefault
FromB64(v) == IF "config_b64" \in DOMAIN v
              THEN merge(FromFile(v), IF v["config_b64"].base64
                                      THEN from_json(v["config_b64"].doc) ELSE None)
              ELSE FromFile(v)
FromJson(v) == IF "config_json" \in DOMAIN v
               THEN merge(FromB64(v), from_json(v["config_json"])) ELSE FromB64(v)
Key(s, v, k, field, value) == Override(s, field, k \in DOMAIN v,
                                       IF k \in DOMAIN v THEN value ELSE None)
WithAddress(v) == Key(FromJson(v), v, "address", "address", v["address"])
WithPort(v) == Key(WithAddress(v), v, "port", "address",
                   IF v["port"] = None THEN None ELSE <<Localhost, v["port"]>>)
WithCache(v) == Key(WithPort(v), v, "cache_control", "cache_control", v["cache_control"])
WithMode(v) == Key(WithCache(v), v, "readonly_mode", "readonly_mode",
                   v["readonly_mode"] = "true")

\* load_settings reads the sources in this order and validates the result.
LEMMA LoadedIs ==
    ASSUME NEW lv, load_settings(lv) # None
    PROVE  LET v == make_case_insensitive(lv)
           IN v # None /\ load_settings(lv) = WithMode(v) /\ validate(WithMode(v))
  BY DEF load_settings, WithMode, WithCache, WithPort, WithAddress, Key, FromJson, FromB64,
     FromFile

\* Between s and t source k was read: t has what the source says, where it says
\* something, and is as s elsewhere.
Layers(v, k, s, t) ==
    /\ s # None
    /\ DOMAIN s = Fields => DOMAIN t = Fields
    /\ DOMAIN s = Fields =>
       \A f \in Fields : t[f] = IF f \in MergedFields /\ Sets(v, k, f) THEN SetTo(v, k, f) ELSE s[f]

\* A field of a document that parses is what LayeredFor takes it to say.
LEMMA JsonSays ==
    ASSUME NEW doc, NEW v, NEW k \in Documents, k \in DOMAIN v, Document(v, k) = doc,
           DefaultsApart, WellFormedDoc(doc), from_json(doc) # None, NEW f \in Fields
    PROVE  from_json(doc)[f] = IF Sets(v, k, f) THEN SetTo(v, k, f) ELSE None
  <1> DEFINE origins == IF "allowed_origins" \in DOMAIN doc.given
                        THEN [i \in DOMAIN doc.given["allowed_origins"] |->
                               CorsOrigin(doc.given["allowed_origins"][i])]
                        ELSE <<>>
  <1>1. /\ \A i \in DOMAIN origins : origins[i] # None
        /\ from_json(doc)[f] =
               IF f \in CorsFields /\ ~doc.cors THEN ServiceSettingsDefault[f]
               ELSE IF f \notin DOMAIN doc.given THEN None
               ELSE IF f = "allowed_origins" THEN origins
               ELSE doc.given[f]
    BY DEF from_json
  <1>2. "allowed_origins" \in DOMAIN doc.given => origins = Hosts(doc.given["allowed_origins"])
    BY <1>1 DEF Hosts, CorsOrigin
  <1>3. Sets(v, k, f) <=> f \in DOMAIN doc.given \/ (f \in CorsFields /\ ~doc.cors)
    BY DEF Sets
  <1>4. SetTo(v, k, f) = IF ~doc.cors /\ f \in CorsFields THEN ServiceSettingsDefault[f]
                         ELSE IF f = "allowed_origins" THEN Hosts(doc.given[f])
                         ELSE doc.given[f]
    BY DEF SetTo, Documents
  <1> HIDE DEF origins
  <1> QED BY <1>1, <1>2, <1>3, <1>4

\* Merging a document that parses is reading it as a source.
LEMMA DocumentLayers ==
    ASSUME NEW doc, NEW v, NEW k \in Documents, k \in DOMAIN v, Document(v, k) = doc,
           DefaultsApart, WellFormedDoc(doc), NEW s, NEW t, t = merge(s, from_json(doc)), t # None
    PROVE  Layers(v, k, s, t)
  <1>1. /\ s # None /\ from_json(doc) # None
        /\ t = [f \in Fields |-> IF f \in MergedFields /\ from_json(doc)[f] # None
                                 THEN from_json(doc)[f] ELSE s[f]]
    BY DEF merge
  <1>2. ASSUME NEW f \in Fields, Sets(v, k, f) PROVE SetTo(v, k, f) # None
    BY <1>2 DEF SetTo, Sets, DefaultsApart, WellFormedDoc, Documents
  <1>3. ASSUME NEW f \in Fields
        PROVE  t[f] = IF f \in MergedFields /\ Sets(v, k, f) THEN SetTo(v, k, f) ELSE s[f]
    <2>1. from_json(doc)[f] = IF Sets(v, k, f) THEN SetTo(v, k, f) ELSE None
      BY <1>1, JsonSays
    <2>2. t[f] = IF f \in MergedFields /\ from_json(doc)[f] # None
                 THEN from_json(doc)[f] ELSE s[f]
      BY <1>1
    <2> QED BY <2>1, <2>2, <1>2
  <1>4. DOMAIN t = Fields
    BY <1>1
  <1> QED BY <1>1, <1>3, <1>4 DEF Layers

\* A source that is absent says nothing.
LEMMA AbsentLayers ==
    ASSUME NEW v, NEW k, k \notin DOMAIN v, NEW s, s # None
    PROVE  Layers(v, k, s, s)
  BY DEF Layers, Sets

\* A single key is a source for its field.
LEMMA KeyLayers ==
    ASSUME NEW v, NEW k \in {"address", "port", "cache_control", "readonly_mode"},
           NEW field, field = (IF k = "port" THEN "address" ELSE k),
           NEW value, NEW s, NEW t,
           k \in DOMAIN v => value = None \/ value = SetTo(v, k, field),
           t = Key(s, v, k, field, value), t # None
    PROVE  Layers(v, k, s, t)
  <1>1. s # None /\ (k \in DOMAIN v => value # None)
    BY DEF Key, Override
  <1>2. CASE k \notin DOMAIN v
    BY <1>1, <1>2, AbsentLayers DEF Key, Override
  <1>3. CASE k \in DOMAIN v
    <2>1. t = [s EXCEPT ![field] = value]
      BY <1>1, <1>3 DEF Key, Override
    <2>2. \A f : Sets(v, k, f) <=> f = field
      BY <1>3 DEF Sets, Documents
    <2>3. field \in MergedFields
      BY DEF MergedFields, Fields, TlsFields, CorsFields
    <2>4. MergedFields \subseteq Fields
      BY DEF MergedFields
    <2> QED BY <1>1, <1>3, <2>1, <2>2, <2>3, <2>4 DEF Layers
  <1> QED BY <1>2, <1>3

\* The values of the link, their keys in one case, are well-formed too.
LEMMA ValuesWellFormed ==
    ASSUME NEW lv, WellFormed(lv), NEW v, v = make_case_insensitive(lv), v # None
    PROVE  /\ "config_json" \in DOMAIN v => WellFormedDoc(v["config_json"])
           /\ \A k \in {"config_file", "config_b64"} \cap DOMAIN v : WellFormedDoc(v[k].doc)
  <1> DEFINE keys == {p[1] : p \in DOMAIN lv}
             spelt(k) == CHOOSE p \in DOMAIN lv : p[1] = k
  <1>1. v = [k \in keys |-> lv[spelt(k)]]
    BY DEF make_case_insensitive
  <1>2. ASSUME NEW k \in keys PROVE spelt(k) \in DOMAIN lv /\ spelt(k)[1] = k
    BY <1>2
  <1>3. DOMAIN v = keys /\ \A k \in keys : v[k] = lv[spelt(k)]
    BY <1>1
  <1> HIDE DEF keys, spelt
  <1> QED BY <1>2, <1>3 DEF WellFormed

\* load_settings goes from source to source.
LEMMA SourcesLayer ==
    ASSUME DefaultsApart, NEW lv, WellFormed(lv), load_settings(lv) # None
    PROVE  LET v == make_case_insensitive(lv)
           IN /\ Layers(v, "config_file", ServiceSettingsDefault, FromFile(v))
              /\ Layers(v, "config_b64", FromFile(v), FromB64(v))
              /\ Layers(v, "config_json", FromB64(v), FromJson(v))
              /\ Layers(v, "address", FromJson(v), WithAddress(v))
              /\ Layers(v, "port", WithAddress(v), WithPort(v))
              /\ Layers(v, "cache_control", WithPort(v), WithCache(v))
              /\ Layers(v, "readonly_mode", WithCache(v), WithMode(v))
  <1>1. PICK v : v = make_case_insensitive(lv)
    OBVIOUS
  <1>2. v # None /\ WithMode(v) # None
    BY <1>1, LoadedIs
  <1>3. Layers(v, "readonly_mode", WithCache(v), WithMode(v)) /\ WithCache(v) # None
    <2>1. SetTo(v, "readonly_mode", "readonly_mode") = (v["readonly_mode"] = "true")
      BY DEF SetTo
    <2>2. Layers(v, "readonly_mode", WithCache(v), WithMode(v))
      BY <1>2, <2>1, KeyLayers DEF WithMode
    <2> QED BY <2>2 DEF Layers
  <1>4. Layers(v, "cache_control", WithPort(v), WithCache(v)) /\ WithPort(v) # None
    <2>1. SetTo(v, "cache_control", "cache_control") = v["cache_control"]
      BY DEF SetTo, Documents
    <2>2. Layers(v, "cache_control", WithPort(v), WithCache(v))
      BY <1>3, <2>1, KeyLayers DEF WithCache
    <2> QED BY <2>2 DEF Layers
  <1>5. Layers(v, "port", WithAddress(v), WithPort(v)) /\ WithAddress(v) # None
    <2>1. SetTo(v, "port", "address") = <<Localhost, v["port"]>>
      BY DEF SetTo
    <2>2. Layers(v, "port", WithAddress(v), WithPort(v))
      BY <1>4, <2>1, KeyLayers DEF WithPort
    <2> QED BY <2>2 DEF Layers
  <1>6. Layers(v, "address", FromJson(v), WithAddress(v)) /\ FromJson(v) # None
    <2>1. SetTo(v, "address", "address") = v["address"]
      BY DEF SetTo, Documents
    <2>2. Layers(v, "address", FromJson(v), WithAddress(v))
      BY <1>5, <2>1, KeyLayers DEF WithAddress
    <2> QED BY <2>2 DEF Layers
  <1>7. Layers(v, "config_json", FromB64(v), FromJson(v)) /\ FromB64(v) # None
    <2>1. CASE "config_json" \in DOMAIN v
      <3>1. Document(v, "config_json") = v["config_json"] /\ WellFormedDoc(v["config_json"])
        BY <1>1, <1>2, <2>1, ValuesWellFormed DEF Document
      <3>2. FromJson(v) = merge(FromB64(v), from_json(v["config_json"]))
        BY <2>1 DEF FromJson
      <3>3. Layers(v, "config_json", FromB64(v), FromJson(v))
        BY <1>6, <2>1, <3>1, <3>2, DocumentLayers DEF Documents
      <3> QED BY <3>3 DEF Layers
    <2>2. CASE "config_json" \notin DOMAIN v
      BY <1>6, <2>2, AbsentLayers DEF FromJson
    <2> QED BY <2>1, <2>2
  <1>8. Layers(v, "config_b64", FromFile(v), FromB64(v)) /\ FromFile(v) # None
    <2>1. CASE "config_b64" \in DOMAIN v
      <3> DEFINE doc == v["config_b64"].doc
      <3>1. Document(v, "config_b64") = doc /\ WellFormedDoc(doc)
        BY <1>1, <1>2, <2>1, ValuesWellFormed DEF Document
      <3>2. FromB64(v) = merge(FromFile(v), from_json(doc))
        BY <1>7, <2>1 DEF FromB64, merge
      <3> HIDE DEF doc
      <3>3. Layers(v, "config_b64", FromFile(v), FromB64(v))
        BY <1>7, <2>1, <3>1, <3>2, DocumentLayers DEF Documents
      <3> QED BY <3>3 DEF Layers
    <2>2. CASE "config_b64" \notin DOMAIN v
      BY <1>7, <2>2, AbsentLayers DEF FromB64
    <2> QED BY <2>1, <2>2
  <1>9. Layers(v, "config_file", ServiceSettingsDefault, FromFile(v))
    <2>1. CASE "config_file" \in DOMAIN v
      <3> DEFINE doc == v["config_file"].doc
      <3>1. Document(v, "config_file") = doc /\ WellFormedDoc(doc)
        BY <1>1, <1>2, <2>1, ValuesWellFormed DEF Document
      <3>2. FromFile(v) = merge(ServiceSettingsDefault, from_json(doc))
        BY <1>8, <2>1 DEF FromFile, merge, from_file
      <3> HIDE DEF doc
      <3> QED BY <1>8, <2>1, <3>1, <3>2, DocumentLayers DEF Documents
    <2>2. CASE "config_file" \notin DOMAIN v
      BY <1>8, <2>2, AbsentLayers DEF FromFile
    <2> QED BY <2>1, <2>2
  <1> QED BY <1>1, <1>3, <1>4, <1>5, <1>6, <1>7, <1>8, <1>9

\* The last of the sources is the one LayeredFor speaks of.
LEMMA LastSource ==
    ASSUME NEW S \in SUBSET (1..7), NEW i \in S, \A j \in S : j <= i
    PROVE  (CHOOSE n \in S : \A j \in S : j <= n) = i
  <1> DEFINE n == CHOOSE n \in S : \A j \in S : j <= n
  <1>1. n \in S /\ \A j \in S : j <= n
    OBVIOUS
  <1>2. n <= i /\ i <= n /\ n \in 1..7 /\ i \in 1..7
    BY <1>1
  <1> HIDE DEF n
  <1>3. n = i
    BY <1>2
  <1> QED BY <1>3 DEF n

\* load_settings layers its sources, for all well-formed link values.
LEMMA LoadLayers ==
    ASSUME DefaultsApart, NEW lv, WellFormed(lv)
    PROVE  LayeredFor(lv)
  <1>1. PICK v : v = make_case_insensitive(lv)
    OBVIOUS
  <1>2. PICK s : s = load_settings(lv)
    OBVIOUS
  <1> DEFINE saying(f) == {i \in DOMAIN Sources : Sets(v, Sources[i], f)}
             last(f) == CHOOSE i \in saying(f) : \A j \in saying(f) : j <= i
  <1> SUFFICES ASSUME s # None
               PROVE  /\ \A f \in Fields :
                           s[f] = IF f \in {"timeout_ms", "max_content_len"} \/ saying(f) = {}
                                  THEN ServiceSettingsDefault[f]
                                  ELSE SetTo(v, Sources[last(f)], f)
                      /\ s.address # None /\ cors_filter(s) # None
                      /\ s.cache_control # None => IsHeaderValue(s.cache_control)
                      /\ is_set(s) <=> s.cert_file # None \/ s.priv_key_file # None
    BY <1>1, <1>2 DEF LayeredFor
  <1>3. s = WithMode(v) /\ validate(s)
    BY <1>1, <1>2, LoadedIs
  <1>4. ASSUME NEW f \in Fields
        PROVE  s[f] = IF f \in {"timeout_ms", "max_content_len"} \/ saying(f) = {}
                      THEN ServiceSettingsDefault[f] ELSE SetTo(v, Sources[last(f)], f)
    <2> DEFINE to(k) == SetTo(v, k, f)
               sets(k) == f \in MergedFields /\ Sets(v, k, f)
    <2>1. s[f] = IF sets("readonly_mode") THEN to("readonly_mode")
                 ELSE IF sets("cache_control") THEN to("cache_control")
                 ELSE IF sets("port") THEN to("port")
                 ELSE IF sets("address") THEN to("address")
                 ELSE IF sets("config_json") THEN to("config_json")
                 ELSE IF sets("config_b64") THEN to("config_b64")
                 ELSE IF sets("config_file") THEN to("config_file")
                 ELSE ServiceSettingsDefault[f]
      <3>1. DOMAIN ServiceSettingsDefault = Fields
        BY DEF ServiceSettingsDefault, Fields, TlsFields, CorsFields
      <3>2. /\ Layers(v, "config_file", ServiceSettingsDefault, FromFile(v))
            /\ Layers(v, "config_b64", FromFile(v), FromB64(v))
            /\ Layers(v, "config_json", FromB64(v), FromJson(v))
            /\ Layers(v, "address", FromJson(v), WithAddress(v))
            /\ Layers(v, "port", WithAddress(v), WithPort(v))
            /\ Layers(v, "cache_control", WithPort(v), WithCache(v))
            /\ Layers(v, "readonly_mode", WithCache(v), s)
        BY <1>1, <1>2, <1>3, SourcesLayer
      <3>3. /\ DOMAIN FromFile(v) = Fields /\ DOMAIN FromB64(v) = Fields
            /\ DOMAIN FromJson(v) = Fields /\ DOMAIN WithAddress(v) = Fields
            /\ DOMAIN WithPort(v) = Fields /\ DOMAIN WithCache(v) = Fields
        BY <3>1, <3>2 DEF Layers
      <3> DEFINE says(k, t) == IF sets(k) THEN to(k) ELSE t[f]
      <3>4. /\ FromFile(v)[f] = says("config_file", ServiceSettingsDefault)
            /\ FromB64(v)[f] = says("config_b64", FromFile(v))
            /\ FromJson(v)[f] = says("config_json", FromB64(v))
            /\ WithAddress(v)[f] = says("address", FromJson(v))
            /\ WithPort(v)[f] = says("port", WithAddress(v))
            /\ WithCache(v)[f] = says("cache_control", WithPort(v))
            /\ s[f] = says("readonly_mode", WithCache(v))
        BY <3>1, <3>2, <3>3 DEF Layers
      <3> HIDE DEF to, sets
      <3> QED BY <3>4
    <2>2. /\ DOMAIN Sources = 1..7
          /\ Sources[1] = "config_file" /\ Sources[2] = "config_b64"
          /\ Sources[3] = "config_json" /\ Sources[4] = "address" /\ Sources[5] = "port"
          /\ Sources[6] = "cache_control" /\ Sources[7] = "readonly_mode"
      BY DEF Sources
    <2>3. CASE f \notin MergedFields
      BY <2>1, <2>3 DEF MergedFields
    <2>4. CASE f \in MergedFields /\ saying(f) = {}
      <3>1. \A i \in 1..7 : ~Sets(v, Sources[i], f)
        BY <2>2, <2>4
      <3>2. f \notin {"timeout_ms", "max_content_len"}
        BY <2>4 DEF MergedFields
      <3> HIDE DEF to
      <3> QED BY <2>1, <2>2, <2>4, <3>1
    <2>5. CASE f \in MergedFields /\ saying(f) # {}
      <3>1. PICK i \in saying(f) : \A j \in saying(f) : j <= i
        <4>1. saying(f) \subseteq 1..7
          BY <2>2
        <4> HIDE DEF saying
        <4> QED BY <2>5, <4>1
      <3>2. last(f) = i /\ i \in 1..7
        <4>1. saying(f) \in SUBSET (1..7)
          BY <2>2
        <4> HIDE DEF saying
        <4> QED BY <3>1, <4>1, LastSource
      <3>3. /\ Sets(v, Sources[i], f)
            /\ \A j \in 1..7 : j > i => ~Sets(v, Sources[j], f)
        BY <2>2, <3>1, <3>2
      <3>4. s[f] = to(Sources[i])
        <4> HIDE DEF to
        <4>1. i = 1 \/ i = 2 \/ i = 3 \/ i = 4 \/ i = 5 \/ i = 6 \/ i = 7
          BY <3>2
        <4> QED BY <2>1, <2>2, <2>5, <3>3, <4>1
      <3>5. f \notin {"timeout_ms", "max_content_len"}
        BY <2>5 DEF MergedFields
      <3> HIDE DEF saying, last
      <3> QED BY <2>5, <3>2, <3>4, <3>5
    <2> QED BY <2>3, <2>4, <2>5
  <1>5. cors_filter(s) # None
    BY <1>2, <1>3 DEF cors_filter, validate, WellFormed
  <1>6. /\ s.address # None
        /\ s.cache_control # None => IsHeaderValue(s.cache_control)
        /\ is_set(s) <=> s.cert_file # None \/ s.priv_key_file # None
    BY <1>3 DEF validate, is_set
  <1> HIDE DEF saying, last
  <1> QED BY <1>4, <1>5, <1>6

\* Every setting has the value of the last source that says something about it,
\* for any link values (load_settings, settings.rs 150-282).
THEOREM SettingsAreLayered == Spec => []SettingsLayered
  <1>1. SettingsLayered
    BY InputsAssumption, LoadLayers DEF SettingsLayered, DefaultsApart
  <1> QED BY <1>1, PTL

-----------------------------------------------------------------------------
(* For every number of clients, objects, chunks and uploads: what chunked    *)
(* uploads of BlobstoreFs leave in the files, what an acknowledged or        *)
(* cancelled upload can rely on, and which ranges are served.                *)

Current(t) == t.attempt = client[t.client].attempt

\* The appends that are still to come to the file of this path.
Pending(p) == {w \in writes : w.path = p /\ w.ino = file[p].ino}

\* Inode numbers are handed out once; what has none is not there.
InodesAgree ==
    /\ \A p \in Paths : file[p].ino <= inodes /\ (file[p].ino = 0 => file[p].data = <<>>)
    /\ \A w \in writes : w.ino \in 1..inodes
    /\ \A t \in tasks : t.pc = "write" => t.ino \in 1..inodes
    /\ \A p \in Paths : (\A c \in Clients : TargetOf[c] # p) => file[p] = NoFile

\* A handler serves an upload that has begun, and what it knows of the upload
\* its client is at agrees with what the client knows.
TaskAgrees(t) ==
    LET c == t.client IN
    /\ t.attempt <= client[c].attempt
    /\ t.pc \in {"create", "insert"} => t.offset = 0
    /\ t.again => t.offset > 0
    /\ t.offset + 1 = MaxChunks => t.is_last
    /\ Current(t) =>
         /\ t.offset <= client[c].next /\ t.offset < client[c].size
         /\ t.offset = 0 => client[c].next = 0
         /\ t.is_last <=> t.offset + 1 = client[c].size
         /\ client[c].state = "ready" => t.offset < client[c].next
         /\ t.again /\ t.offset = client[c].next => client[c].again

TasksAgree == \A t \in tasks : TaskAgrees(t)

\* No request is at work twice.
TasksDiffer ==
    \A t, u \in tasks :
        t.client = u.client /\ t.attempt = u.attempt /\ t.offset = u.offset
          /\ t.again = u.again => t = u

\* A client has its last chunk stored, or has one to send.
ClientsAgree ==
    \A c \in Clients :
        /\ client[c].next <= client[c].size
        /\ client[c].state = "stored" <=> client[c].next = client[c].size
        /\ client[c].state = "ready" => ~client[c].again /\ client[c].next > 0
        /\ client[c].next > 0 => client[c].attempt > 0

\* A put_object that has not created its file yet is awaited, unless one has
\* timed out.
CreatesAwaited ==
    \A t \in tasks :
        t.pc = "create" /\ ~client[t.client].late =>
            Current(t) /\ client[t.client].state = "waiting"

\* The chunks before offset k have been written, whole, the last of them perhaps
\* only to the blocking pool.
WrittenUpTo(p, k) ==
    LET data == file[p].data IN
    \/ Len(data) >= k /\ data[k].whole
    \/ Len(data) = k - 1 /\ \E w \in Pending(p) : w.bytes.whole

AllWhole(data) == \A i \in 1..Len(data) : data[i].whole

Writing(t) == t.pc \in {"open", "write"}
Starting(t) == t.pc = "insert" \/ (t.pc = "check" /\ t.offset = 0)

\* The handlers at work on a file, at most one of which is past the check of
\* its offset; the first chunk is alone.
HandlerOf(t, c, g) ==
    LET p == TargetOf[c]
        data == file[p].data
    IN
    /\ t.attempt = g
    /\ Starting(t) => /\ data = <<>> /\ Pending(p) = {}
                      /\ \A u \in tasks : u.client = c /\ u.pc # "create" => u = t
    /\ t.pc = "check" /\ t.offset > 0 => WrittenUpTo(p, t.offset)
    /\ Writing(t) => /\ \A u \in tasks : u.client = c /\ Writing(u) => u = t
                     /\ upload_chunks[p] > 0 => t.offset < upload_chunks[p]
    /\ t.pc = "write" => t.ino = file[p].ino /\ Pending(p) = {}
    /\ Writing(t) /\ Pending(p) = {} => t.offset = Len(data) /\ AllWhole(data)
    /\ Writing(t) => \A w \in Pending(p) : w.bytes.whole /\ t.offset = Len(data) + 1

HandlersOf(c, g) == \A t \in tasks : t.client = c /\ t.pc # "create" => HandlerOf(t, c, g)

\* The file holds the chunks of upload g so far.
ContentOf(c, g) ==
    LET p == TargetOf[c]
        data == file[p].data
    IN
    /\ Ordered(data)
    /\ \A i \in 1..Len(data) : data[i].attempt = g
    /\ \A w \in Pending(p) : /\ w.bytes.attempt = g /\ w.bytes.offset = Len(data)
                             /\ AllWhole(data)
                             /\ upload_chunks[p] > 0 => Len(data) < upload_chunks[p]
                             /\ g = client[c].attempt => Len(data) < client[c].size
                             /\ \A v \in Pending(p) : v = w
    /\ upload_chunks[p] > 0 => Len(data) <= upload_chunks[p]
    /\ g = client[c].attempt => Len(data) <= client[c].size
    /\ g <= client[c].attempt
    /\ client[c].next > 0 => g = client[c].attempt /\ WrittenUpTo(p, client[c].next)

\* A file that is there and undisturbed is the work of one upload.
Clean(p) == file[p] # NoFile /\ ~disturbed[p]

FileOf(c) ==
    Clean(TargetOf[c]) =>
        \E g \in 1..MaxAttempts : HandlersOf(c, g) /\ ContentOf(c, g)

FilesAgree == \A c \in Clients : FileOf(c)

\* The inductive invariant.
FsIInv == /\ FsTypeOK /\ InodesAgree /\ TasksAgree /\ TasksDiffer /\ ClientsAgree
          /\ CreatesAwaited /\ CancelSticks /\ FilesAgree

-----------------------------------------------------------------------------
(* get_object *)

\* Where get_object starts and ends, as it computes them.
Start(range) == IF range.start = Missing THEN 0 ELSE range.start
End(data, range) == IF range.end = Missing \/ range.end + 1 > Len(data) THEN Len(data)
                    ELSE range.end + 1

LEMMA FieldsOf ==
    ASSUME NEW bytes, NEW offset, NEW x \in Int, NEW y \in Int, NEW chunk,
           chunk = [bytes |-> bytes, offset |-> offset, is_last |-> x >= y]
    PROVE  chunk.bytes = bytes /\ chunk.offset = offset /\ (chunk.is_last <=> x >= y)
  OBVIOUS

\* The bytes of a range are those between the two.
LEMMA GetObject ==
    ASSUME NEW S, NEW data \in Seq(S), NEW range \in Ranges
    PROVE  /\ Start(range) \in Nat /\ End(data, range) \in 0..Len(data) /\ Len(data) \in Nat
           /\ range.start \in {Missing} \cup Nat
           /\ {i \in DOMAIN data : InRange(i, range)} = (Start(range) + 1)..End(data, range)
           /\ get_object(data, range) = Panic <=> Start(range) > End(data, range)
           /\ Start(range) <= End(data, range) =>
                /\ get_object(data, range).bytes = SubSeq(data, Start(range) + 1, End(data, range))
                /\ get_object(data, range).offset = Start(range)
                /\ get_object(data, range).is_last <=> End(data, range) >= Len(data)
  <1>1. Len(data) \in Nat /\ DOMAIN data = 1..Len(data)
    BY LenProperties
  <1>2. range.start \in {Missing} \cup Nat /\ range.end \in {Missing} \cup Nat
    BY FsAssumption DEF Ranges
  <1>3. Start(range) \in Nat /\ End(data, range) \in 0..Len(data)
    BY <1>1, <1>2 DEF Start, End, Missing
  <1>4. ASSUME NEW i \in 1..Len(data)
        PROVE  InRange(i, range) <=> i \in (Start(range) + 1)..End(data, range)
    BY <1>1, <1>2 DEF InRange, Start, End, Missing
  <1>5. {i \in DOMAIN data : InRange(i, range)} = (Start(range) + 1)..End(data, range)
    <2>1. (Start(range) + 1)..End(data, range) \subseteq 1..Len(data)
      BY <1>1, <1>3
    <2> QED BY <1>1, <1>4, <2>1
  <1>6. get_object(data, range) =
          IF Start(range) > End(data, range) THEN Panic
          ELSE [bytes |-> SubSeq(data, Start(range) + 1, End(data, range)),
                offset |-> Start(range), is_last |-> End(data, range) >= Len(data)]
    BY DEF get_object, Start, End
  <1>7. CASE Start(range) > End(data, range)
    BY <1>1, <1>2, <1>3, <1>5, <1>6, <1>7
  <1>8. CASE ~(Start(range) > End(data, range))
    <2>1. get_object(data, range).offset = Start(range)
      BY <1>6, <1>8
    <2>2. Panic.offset # Start(range)
      BY <1>3 DEF Panic, Missing
    <2>3. get_object(data, range) # Panic
      BY <2>1, <2>2
    <2>4. /\ get_object(data, range).bytes = SubSeq(data, Start(range) + 1, End(data, range))
          /\ get_object(data, range).is_last <=> End(data, range) >= Len(data)
      <3>1. get_object(data, range) =
              [bytes |-> SubSeq(data, Start(range) + 1, End(data, range)),
               offset |-> Start(range), is_last |-> End(data, range) >= Len(data)]
        BY <1>6, <1>8, Zenon
      <3>2. End(data, range) \in Int /\ Len(data) \in Int
        BY <1>1, <1>3
      <3> DEFINE bytes == SubSeq(data, Start(range) + 1, End(data, range))
      <3> DEFINE end == End(data, range)
      <3> DEFINE len == Len(data)
      <3> DEFINE chunk == get_object(data, range)
      <3> DEFINE first == Start(range)
      <3>3. chunk = [bytes |-> bytes, offset |-> first, is_last |-> end >= len]
        BY <3>1
      <3>4. end \in Int /\ len \in Int
        BY <3>2
      <3> HIDE DEF bytes, end, len, chunk, first
      <3>5. chunk.bytes = bytes /\ (chunk.is_last <=> end >= len)
        BY <3>3, <3>4, FieldsOf
      <3> QED BY <3>5 DEF bytes, end, len, chunk
    <2> QED BY <1>1, <1>2, <1>3, <1>5, <1>8, <2>1, <2>3, <2>4
  <1> QED BY <1>7, <1>8

\* Cutting an object in two loses nothing.
LEMMA SplitRange ==
    ASSUME NEW S, NEW data \in Seq(S), NEW n \in 1..MaxChunks, n <= Len(data)
    PROVE  get_object(data, [start |-> Missing, end |-> Missing]).bytes =
               get_object(data, [start |-> Missing, end |-> n - 1]).bytes
                 \o get_object(data, [start |-> n, end |-> Missing]).bytes
  <1> DEFINE range == [start |-> Missing, end |-> Missing]
  <1> DEFINE front == [start |-> Missing, end |-> n - 1]
  <1> DEFINE back == [start |-> n, end |-> Missing]
  <1>1. Len(data) \in Nat /\ n \in Nat /\ n \in 1..Len(data)
    BY LenProperties, FsAssumption
  <1>3. range \in Ranges /\ front \in Ranges /\ back \in Ranges
    BY FsAssumption DEF Ranges
  <1>4. /\ Start(range) = 0 /\ End(data, range) = Len(data)
        /\ Start(front) = 0 /\ End(data, front) = n
        /\ Start(back) = n /\ End(data, back) = Len(data)
    BY <1>1 DEF Start, End, Missing
  <1> HIDE DEF range, front, back
  <1>5. /\ get_object(data, range).bytes = SubSeq(data, 1, Len(data))
        /\ get_object(data, front).bytes = SubSeq(data, 1, n)
        /\ get_object(data, back).bytes = SubSeq(data, n + 1, Len(data))
    <2>1. Start(range) <= End(data, range) =>
            get_object(data, range).bytes = SubSeq(data, Start(range) + 1, End(data, range))
      BY <1>3, GetObject
    <2>2. Start(front) <= End(data, front) =>
            get_object(data, front).bytes = SubSeq(data, Start(front) + 1, End(data, front))
      BY <1>3, GetObject
    <2>3. Start(back) <= End(data, back) =>
            get_object(data, back).bytes = SubSeq(data, Start(back) + 1, End(data, back))
      BY <1>3, GetObject
    <2>4. /\ Start(range) + 1 = 1 /\ Start(front) + 1 = 1 /\ Start(back) + 1 = n + 1
          /\ Start(range) <= End(data, range) /\ Start(front) <= End(data, front)
          /\ Start(back) <= End(data, back)
      BY <1>1, <1>4
    <2> QED BY <1>4, <2>1, <2>2, <2>3, <2>4, Zenon
  <1>6. SubSeq(data, 1, n) \o SubSeq(data, n + 1, Len(data)) = SubSeq(data, 1, Len(data))
    BY <1>1, ConcatAdjacentSubSeq
  <1> QED BY <1>5, <1>6 DEF range, front, back

\* What RangeServed says holds of every sequence, whatever is uploaded.
LEMMA TypedIsServed == FsTypeOK => RangeServed
  <1> SUFFICES ASSUME FsTypeOK, NEW p \in Paths, NEW range \in Ranges
               PROVE  LET data == file[p].data
                          chunk == get_object(data, range)
                          wanted == {i \in DOMAIN data : InRange(i, range)}
                      IN IF chunk = Panic
                         THEN wanted = {} /\ range.start > 0
                         ELSE /\ Len(chunk.bytes) = Cardinality(wanted)
                              /\ \A j \in DOMAIN chunk.bytes :
                                   /\ chunk.offset + j \in wanted
                                   /\ chunk.bytes[j] = data[chunk.offset + j]
                              /\ chunk.is_last <=> \A i \in DOMAIN data :
                                                     i > chunk.offset => i \in wanted
                              /\ \A n \in 1..MaxChunks :
                                   range = [start |-> Missing, end |-> Missing] /\ n <= Len(data) =>
                                     chunk.bytes =
                                       get_object(data, [range EXCEPT !.end = n - 1]).bytes
                                         \o get_object(data, [range EXCEPT !.start = n]).bytes
    BY DEF RangeServed
  <1> DEFINE data == file[p].data
  <1> DEFINE chunk == get_object(data, range)
  <1> DEFINE wanted == {i \in DOMAIN data : InRange(i, range)}
  <1> DEFINE first == Start(range)
  <1> DEFINE end == End(data, range)
  <1>1. data \in Seq(Bytes)
    BY DEF FsTypeOK
  <1> HIDE DEF data
  <1>2. /\ first \in Nat /\ end \in 0..Len(data) /\ Len(data) \in Nat
        /\ range.start \in {Missing} \cup Nat
        /\ wanted = (first + 1)..end
        /\ chunk = Panic <=> first > end
        /\ first <= end => /\ chunk.bytes = SubSeq(data, first + 1, end)
                           /\ chunk.offset = first
                           /\ chunk.is_last <=> end >= Len(data)
    BY <1>1, GetObject
  <1>3. DOMAIN data = 1..Len(data)
    BY <1>1, LenProperties
  <1>4. \A n \in 1..MaxChunks :
          range = [start |-> Missing, end |-> Missing] /\ n <= Len(data) =>
            chunk.bytes = get_object(data, [range EXCEPT !.end = n - 1]).bytes
                            \o get_object(data, [range EXCEPT !.start = n]).bytes
    <2> SUFFICES ASSUME NEW n \in 1..MaxChunks, range = [start |-> Missing, end |-> Missing],
                        n <= Len(data)
                 PROVE  chunk.bytes = get_object(data, [range EXCEPT !.end = n - 1]).bytes
                                        \o get_object(data, [range EXCEPT !.start = n]).bytes
      OBVIOUS
    <2> HIDE DEF chunk
    <2>1. get_object(data, [start |-> Missing, end |-> Missing]).bytes =
            get_object(data, [start |-> Missing, end |-> n - 1]).bytes
              \o get_object(data, [start |-> n, end |-> Missing]).bytes
      BY <1>1, SplitRange
    <2>2. /\ [range EXCEPT !.end = n - 1] = [start |-> Missing, end |-> n - 1]
          /\ [range EXCEPT !.start = n] = [start |-> n, end |-> Missing]
      OBVIOUS
    <2> QED BY <2>1, <2>2 DEF chunk
  <1>5. CASE chunk = Panic
    <2>1. first > 0 => range.start = first
      BY <1>2 DEF Start
    <2> HIDE DEF chunk, wanted, first, end
    <2>2. wanted = {} /\ range.start > 0
      BY <1>2, <1>5, <2>1
    <2> QED BY <1>5, <2>2 DEF data, chunk, wanted
  <1>6. CASE chunk # Panic
    <2> HIDE DEF chunk, wanted, first, end
    <2>1. first <= end
      BY <1>2, <1>6
    <2>2. Cardinality(wanted) = end - first
      <3>1. first + 1 \in Int /\ end \in Int
        BY <1>2
      <3>2. Cardinality((first + 1)..end) = IF first + 1 > end THEN 0 ELSE end - (first + 1) + 1
        BY <3>1, FS_Interval
      <3> QED BY <1>2, <2>1, <3>1, <3>2
    <2>3. /\ Len(chunk.bytes) = end - first
          /\ DOMAIN chunk.bytes = 1..(end - first)
          /\ \A j \in 1..(end - first) : chunk.bytes[j] = data[first + j]
      <3>1. \A i \in (first + 1)..end : data[i] \in Bytes
        BY <1>1, <1>2, ElementOfSeq
      <3>2. first + 1 \in Int /\ end \in Int
        BY <1>2
      <3>3. /\ SubSeq(data, first + 1, end) \in Seq(Bytes)
            /\ Len(SubSeq(data, first + 1, end)) =
                 IF first + 1 <= end THEN end - (first + 1) + 1 ELSE 0
            /\ \A i \in 1..(end - (first + 1) + 1) :
                 SubSeq(data, first + 1, end)[i] = data[(first + 1) + i - 1]
        BY <3>1, <3>2, SubSeqProperties
      <3>4. Len(SubSeq(data, first + 1, end)) = end - first
        BY <1>2, <2>1, <3>3
      <3>5. DOMAIN SubSeq(data, first + 1, end) = 1..(end - first)
        BY <3>3, <3>4, LenProperties
      <3>6. \A j \in 1..(end - first) : SubSeq(data, first + 1, end)[j] = data[first + j]
        <4> TAKE j \in 1..(end - first)
        <4>1. end - (first + 1) + 1 = end - first /\ (first + 1) + j - 1 = first + j
          BY <1>2
        <4> QED BY <3>3, <4>1
      <3> QED BY <1>2, <2>1, <3>4, <3>5, <3>6
    <2>4. chunk.offset = first /\ (chunk.is_last <=> end >= Len(data))
      BY <1>2, <2>1
    <2>5. chunk.is_last <=> \A i \in DOMAIN data : i > chunk.offset => i \in wanted
      <3>1. CASE end >= Len(data)
        BY <1>2, <1>3, <2>4, <3>1
      <3>2. CASE ~(end >= Len(data))
        <4>1. /\ end + 1 \in DOMAIN data /\ end + 1 > chunk.offset /\ end + 1 \notin wanted
          BY <1>2, <1>3, <2>1, <2>4, <3>2
        <4> QED BY <2>4, <3>2, <4>1
      <3> QED BY <3>1, <3>2
    <2>6. \A j \in DOMAIN chunk.bytes : /\ chunk.offset + j \in wanted
                                        /\ chunk.bytes[j] = data[chunk.offset + j]
      <3> TAKE j \in DOMAIN chunk.bytes
      <3>1. j \in 1..(end - first)
        BY <2>3
      <3>2. first + j \in (first + 1)..end
        BY <1>2, <2>1, <3>1
      <3> QED BY <1>2, <2>3, <2>4, <3>1, <3>2
    <2> QED BY <1>4, <1>6, <2>2, <2>3, <2>5, <2>6 DEF data, chunk, wanted
  <1> QED BY <1>5, <1>6

-----------------------------------------------------------------------------
(* Handlers and clients *)

\* The invariant without what it says of the files.
RequestsAgree == TasksAgree /\ TasksDiffer /\ ClientsAgree /\ CreatesAwaited

SameRequest(t, u) ==
    /\ t.client = u.client /\ t.attempt = u.attempt /\ t.offset = u.offset
    /\ t.is_last = u.is_last /\ t.again = u.again

\* A provider that starts, with nothing stored, satisfies it.
LEMMA InitFsIInv == FsInit => FsIInv
  <1> SUFFICES ASSUME FsInit PROVE FsIInv
    OBVIOUS
  <1> USE DEF FsInit
  <1>1. FsTypeOK
    <2>1. file \in [Paths -> [ino : Nat, data : Seq(Bytes)]]
      BY EmptySeq DEF NoFile
    <2>2. client \in [Clients -> Client]
      BY FsAssumption DEF Client
    <2>3. upload_chunks \in [Paths -> {Missing} \cup 0..(MaxChunks - 1)]
      OBVIOUS
    <2> QED BY <2>1, <2>2, <2>3 DEF FsTypeOK
  <1>2. InodesAgree /\ TasksAgree /\ TasksDiffer /\ CreatesAwaited
    BY DEF InodesAgree, TasksAgree, TasksDiffer, CreatesAwaited, NoFile
  <1>3. ClientsAgree /\ CancelSticks
    BY DEF ClientsAgree, CancelSticks
  <1>4. FilesAgree
    BY FsAssumption DEF FilesAgree, FileOf, Clean
  <1> QED BY <1>1, <1>2, <1>3, <1>4 DEF FsIInv

LEMMA TaskTyped ==
    ASSUME FsTypeOK, NEW t \in tasks
    PROVE  /\ t \in Task /\ t.client \in Clients /\ t.attempt \in 1..MaxAttempts
           /\ t.offset \in 0..(MaxChunks - 1) /\ t.offset \in Nat
           /\ t.is_last \in BOOLEAN /\ t.stream_id \in BOOLEAN /\ t.again \in BOOLEAN
           /\ t.pc \in {"create", "insert", "check", "open", "write"} /\ t.ino \in Nat
           /\ TargetOf[t.client] \in Paths /\ client[t.client] \in Client
           /\ t.attempt \in Nat
  <1>1. t \in Task
    BY DEF FsTypeOK
  <1> QED BY <1>1, FsAssumption DEF Task, FsTypeOK

LEMMA ClientTyped ==
    ASSUME FsTypeOK, NEW c \in Clients
    PROVE  /\ client[c] \in Client
           /\ client[c].state \in {"idle", "waiting", "ready", "stored", "failed", "timedout",
                                   "cancelled"}
           /\ client[c].attempt \in 0..MaxAttempts /\ client[c].attempt \in Nat
           /\ client[c].size \in 1..MaxChunks /\ client[c].size \in Nat
           /\ client[c].next \in 0..MaxChunks /\ client[c].next \in Nat
           /\ client[c].again \in BOOLEAN /\ client[c].late \in BOOLEAN
           /\ TargetOf[c] \in Paths
  BY FsAssumption DEF FsTypeOK, Client

\* What an answer changes.
LEMMA AnswerEffect ==
    ASSUME FsIInv, NEW t \in tasks, NEW ok \in BOOLEAN, Answer(t, ok)
    PROVE  /\ client' \in [Clients -> Client]
           /\ \A c \in Clients :
                /\ client'[c].attempt = client[c].attempt /\ client'[c].size = client[c].size
                /\ client'[c].late = client[c].late
                /\ c # t.client => client'[c] = client[c]
           /\ \/ client' = client
              \/ /\ Awaits(t) /\ ~client'[t.client].again
                 /\ ok => /\ client'[t.client].next = t.offset + 1
                          /\ client'[t.client].state = IF t.is_last THEN "stored" ELSE "ready"
                 /\ ~ok => /\ client'[t.client].next = t.offset
                           /\ client'[t.client].state = "failed"
  <1> DEFINE c == t.client
  <1>1. /\ t \in Task /\ c \in Clients /\ t.offset \in Nat /\ client[c] \in Client
        /\ client \in [Clients -> Client]
    BY TaskTyped DEF FsIInv, FsTypeOK
  <1>2. CASE ~Awaits(t)
    <2>1. client' = client
      BY <1>2 DEF Answer
    <2> QED BY <1>1, <2>1
  <1>3. CASE Awaits(t)
    <2> DEFINE state == IF ~ok THEN "failed" ELSE IF t.is_last THEN "stored" ELSE "ready"
    <2> DEFINE next == IF ok THEN client[c].next + 1 ELSE client[c].next
    <2>1. client' = [client EXCEPT ![c].state = state, ![c].next = next, ![c].again = FALSE]
      BY <1>3 DEF Answer
    <2>2. /\ client[c].next = t.offset /\ t.offset < client[c].size
          /\ client[c].size \in 1..MaxChunks
      BY <1>1, <1>3 DEF Awaits, FsIInv, TasksAgree, TaskAgrees, Current, Client
    <2>3. next \in 0..MaxChunks /\ next = IF ok THEN t.offset + 1 ELSE t.offset
      BY <1>1, <2>2, FsAssumption
    <2>4. state \in {"failed", "stored", "ready"}
      OBVIOUS
    <2> HIDE DEF state, next
    <2>5. client'[c] = [client[c] EXCEPT !.state = state, !.next = next, !.again = FALSE]
      BY <1>1, <2>1
    <2>6. /\ client'[c] \in Client /\ client'[c].state = state /\ client'[c].next = next
          /\ client'[c].again = FALSE /\ client'[c].attempt = client[c].attempt
          /\ client'[c].size = client[c].size /\ client'[c].late = client[c].late
      BY <1>1, <2>3, <2>4, <2>5 DEF Client
    <2>7. \A d \in Clients : d # c => client'[d] = client[d]
      BY <1>1, <2>1
    <2>8. client' \in [Clients -> Client]
      BY <1>1, <2>1, <2>6, <2>7
    <2> QED BY <1>3, <2>3, <2>6, <2>7, <2>8 DEF state
  <1> QED BY <1>2, <1>3

\* A handler ends, and its client may hear of it.
LEMMA EndStep ==
    ASSUME FsIInv, NEW t \in tasks, NEW ok \in BOOLEAN, Answer(t, ok) \/ client' = client,
           tasks' = tasks \ {t}
    PROVE  RequestsAgree'
  <1> DEFINE c == t.client
  <1>1. CASE client' = client
    <2>1. TasksAgree'
      BY <1>1 DEF FsIInv, TasksAgree, TaskAgrees, Current
    <2>2. TasksDiffer' /\ ClientsAgree'
      BY <1>1 DEF FsIInv, TasksDiffer, ClientsAgree
    <2>3. CreatesAwaited'
      BY <1>1 DEF FsIInv, CreatesAwaited, Current
    <2> QED BY <2>1, <2>2, <2>3 DEF RequestsAgree
  <1>2. CASE client' # client
    <2>1. /\ client' \in [Clients -> Client] /\ Awaits(t)
          /\ \A d \in Clients :
                /\ client'[d].attempt = client[d].attempt /\ client'[d].size = client[d].size
                /\ client'[d].late = client[d].late
                /\ d # c => client'[d] = client[d]
          /\ ~client'[c].again
          /\ ok => /\ client'[c].next = t.offset + 1
                   /\ client'[c].state = IF t.is_last THEN "stored" ELSE "ready"
          /\ ~ok => client'[c].next = t.offset /\ client'[c].state = "failed"
      BY <1>2, AnswerEffect
    <2>2. /\ c \in Clients /\ client[c].attempt = t.attempt /\ client[c].next = t.offset
          /\ client[c].again = t.again /\ client[c].state = "waiting" /\ t.offset \in Nat
          /\ client[c].size \in Nat /\ t.again \in BOOLEAN
      BY <2>1, TaskTyped, ClientTyped DEF FsIInv, Awaits
    <2>3. /\ t.offset < client[c].size /\ (t.is_last <=> t.offset + 1 = client[c].size)
          /\ t.again => t.offset > 0
      BY <2>2 DEF FsIInv, TasksAgree, TaskAgrees, Current
    <2>4. ASSUME NEW u \in tasks, u # t, u.client = c, u.attempt = client[c].attempt
          PROVE  /\ u.offset <= t.offset /\ u.offset < client[c].size /\ u.offset > 0
                 /\ u.is_last <=> u.offset + 1 = client[c].size
                 /\ ~(u.again /\ u.offset = t.offset) /\ u.offset \in Nat
      <3>1. /\ u.offset <= client[c].next /\ u.offset < client[c].size
            /\ u.offset = 0 => client[c].next = 0
            /\ u.is_last <=> u.offset + 1 = client[c].size
            /\ u.again /\ u.offset = client[c].next => client[c].again
            /\ u.again => u.offset > 0
        BY <2>4 DEF FsIInv, TasksAgree, TaskAgrees, Current
      <3>2. u.offset \in Nat /\ u.again \in BOOLEAN
        BY TaskTyped DEF FsIInv
      <3>3. ~(u.offset = t.offset /\ u.again = t.again)
        BY <2>2, <2>4 DEF FsIInv, TasksDiffer
      <3>4. u.offset # 0
        BY <2>2, <2>3, <3>1, <3>2, <3>3
      <3> QED BY <2>2, <3>1, <3>2, <3>3, <3>4
    <2>5. TasksAgree'
      <3> SUFFICES ASSUME NEW u \in tasks, u # t
                   PROVE  TaskAgrees(u)'
        BY DEF TasksAgree
      <3>1. u.client \in Clients
        BY TaskTyped DEF FsIInv
      <3>2. CASE u.client # c
        BY <2>1, <3>1, <3>2 DEF FsIInv, TasksAgree, TaskAgrees, Current
      <3>3. CASE u.client = c
        <4>1. /\ u.attempt <= client'[c].attempt
              /\ u.pc \in {"create", "insert"} => u.offset = 0
              /\ u.again => u.offset > 0
              /\ u.offset + 1 = MaxChunks => u.is_last
          BY <2>1, <2>2, <3>3 DEF FsIInv, TasksAgree, TaskAgrees
        <4>2. CASE u.attempt = client[c].attempt
          <5>1. /\ u.offset <= t.offset /\ u.offset < client[c].size /\ u.offset > 0
                /\ u.is_last <=> u.offset + 1 = client[c].size
                /\ ~(u.again /\ u.offset = t.offset) /\ u.offset \in Nat
            BY <2>4, <3>3, <4>2
          <5>2. client'[c].next \in {t.offset, t.offset + 1}
                /\ (client'[c].state = "ready" => client'[c].next = t.offset + 1)
                /\ client'[c].size = client[c].size
            BY <2>1, <2>2
          <5> QED BY <2>2, <3>3, <4>1, <5>1, <5>2 DEF Current, TaskAgrees
        <4>3. CASE u.attempt # client[c].attempt
          BY <2>1, <2>2, <3>3, <4>1, <4>3 DEF Current, TaskAgrees
        <4> QED BY <4>2, <4>3
      <3> QED BY <3>2, <3>3
    <2>6. TasksDiffer'
      BY DEF FsIInv, TasksDiffer
    <2>7. ClientsAgree'
      <3> SUFFICES ASSUME NEW d \in Clients
                   PROVE  (/\ client[d].next <= client[d].size
                           /\ client[d].state = "stored" <=> client[d].next = client[d].size
                           /\ client[d].state = "ready" => ~client[d].again /\ client[d].next > 0
                           /\ client[d].next > 0 => client[d].attempt > 0)'
        BY DEF ClientsAgree
      <3>1. CASE d # c
        BY <2>1, <3>1 DEF FsIInv, ClientsAgree
      <3>2. CASE d = c
        <4>1. client'[c].attempt > 0
          BY <2>1, <2>2, TaskTyped, FsAssumption DEF FsIInv
        <4> QED BY <2>1, <2>2, <2>3, <3>2, <4>1
      <3> QED BY <3>1, <3>2
    <2>8. CreatesAwaited'
      <3> SUFFICES ASSUME NEW u \in tasks, u # t, u.pc = "create", ~client'[u.client].late
                   PROVE  /\ u.attempt = client'[u.client].attempt
                          /\ client'[u.client].state = "waiting"
        BY DEF CreatesAwaited, Current
      <3>1. u.client \in Clients
        BY TaskTyped DEF FsIInv
      <3>2. u.attempt = client[u.client].attempt /\ client[u.client].state = "waiting"
        BY <2>1, <3>1 DEF FsIInv, CreatesAwaited, Current
      <3>3. u.client # c
        <4>1. u.offset = 0
          BY DEF FsIInv, TasksAgree, TaskAgrees
        <4> QED BY <2>4, <3>2, <4>1
      <3> QED BY <2>1, <3>1, <3>2, <3>3
    <2> QED BY <2>5, <2>6, <2>7, <2>8 DEF RequestsAgree
  <1> QED BY <1>1, <1>2

\* A handler goes on to its next await.
LEMMA MoveStep ==
    ASSUME FsIInv, NEW t \in tasks, NEW u, SameRequest(t, u), u.pc # "create",
           u.pc = "insert" => t.offset = 0,
           tasks' = (tasks \ {t}) \cup {u}, client' = client
    PROVE  RequestsAgree'
  <1>1. TasksAgree'
    BY DEF FsIInv, TasksAgree, TaskAgrees, Current, SameRequest
  <1>2. TasksDiffer'
    BY DEF FsIInv, TasksDiffer, SameRequest
  <1>3. ClientsAgree'
    BY DEF FsIInv, ClientsAgree
  <1>4. CreatesAwaited'
    BY DEF FsIInv, CreatesAwaited, Current
  <1> QED BY <1>1, <1>2, <1>3, <1>4 DEF RequestsAgree

\* A client sends a request, of a new upload or of the one it is at.
LEMMA SendStep ==
    ASSUME FsIInv, NEW c \in Clients, NEW u, tasks' = tasks \cup {u},
           client' \in [Clients -> Client], \A d \in Clients : d # c => client'[d] = client[d],
           client[c].state # "waiting", client'[c].state = "waiting",
           client'[c].late = client[c].late, client'[c].next < client'[c].size,
           u.client = c, u.attempt = client'[c].attempt, u.offset = client'[c].next,
           u.again = client'[c].again, u.again => u.offset > 0,
           u.is_last <=> u.offset + 1 = client'[c].size,
           u.pc = IF u.offset = 0 THEN "create" ELSE "check",
           \/ client'[c].attempt > client[c].attempt /\ client'[c].next = 0
           \/ /\ client'[c].attempt = client[c].attempt /\ client'[c].size = client[c].size
              /\ client'[c].next = client[c].next /\ client[c].next > 0
              /\ \/ client[c].state = "ready"
                 \/ ~client[c].again /\ client'[c].again
    PROVE  RequestsAgree'
  <1>1. /\ client[c].attempt \in Nat /\ client[c].next \in Nat /\ client[c].size \in Nat
        /\ client'[c].attempt \in Nat /\ client'[c].next \in Nat /\ client'[c].size \in Nat
        /\ client[c].again \in BOOLEAN /\ client'[c].again \in BOOLEAN
    BY ClientTyped, FsAssumption DEF FsIInv, Client
  <1>2. \A t \in tasks : /\ t.client \in Clients /\ t.attempt \in Nat /\ t.offset \in Nat
                         /\ t.again \in BOOLEAN
    BY TaskTyped DEF FsIInv
  <1>3. ASSUME NEW t \in tasks, t.client = c, t.attempt = client'[c].attempt
        PROVE  /\ client'[c].attempt = client[c].attempt
               /\ t.offset # 0 /\ t.offset <= client'[c].next /\ t.offset < client'[c].size
               /\ t.is_last <=> t.offset + 1 = client'[c].size
               /\ t.again /\ t.offset = client'[c].next => client'[c].again
               /\ ~(t.offset = u.offset /\ t.again = u.again)
    <2>1. t.attempt <= client[c].attempt
      BY <1>3 DEF FsIInv, TasksAgree, TaskAgrees
    <2>2. /\ client'[c].attempt = client[c].attempt /\ client'[c].size = client[c].size
          /\ client'[c].next = client[c].next /\ client[c].next > 0
          /\ \/ client[c].state = "ready"
             \/ ~client[c].again /\ client'[c].again
      BY <1>1, <1>2, <1>3, <2>1
    <2>3. /\ t.offset <= client[c].next /\ t.offset < client[c].size
          /\ t.offset = 0 => client[c].next = 0
          /\ t.is_last <=> t.offset + 1 = client[c].size
          /\ client[c].state = "ready" => t.offset < client[c].next
          /\ t.again /\ t.offset = client[c].next => client[c].again
      BY <1>3, <2>2 DEF FsIInv, TasksAgree, TaskAgrees, Current
    <2> QED BY <1>1, <1>2, <2>2, <2>3
  <1>4. TasksAgree'
    <2> SUFFICES ASSUME NEW t \in tasks'
                 PROVE  TaskAgrees(t)'
      BY DEF TasksAgree
    <2>1. CASE t = u
      <3>1. client'[c].size \in 1..MaxChunks
        BY DEF Client
      <3>2. u.offset + 1 = MaxChunks => u.is_last
        BY <1>1, <3>1, FsAssumption
      <3> QED BY <1>1, <2>1, <3>2 DEF Current, TaskAgrees
    <2>2. CASE t \in tasks /\ t.client # c
      BY <1>2, <2>2 DEF FsIInv, TasksAgree, TaskAgrees, Current
    <2>3. CASE t \in tasks /\ t.client = c
      <3>1. /\ t.attempt <= client[c].attempt
            /\ t.pc \in {"create", "insert"} => t.offset = 0
            /\ t.again => t.offset > 0
            /\ t.offset + 1 = MaxChunks => t.is_last
        BY <2>3 DEF FsIInv, TasksAgree, TaskAgrees
      <3>2. t.attempt <= client'[c].attempt
        BY <1>1, <1>2, <2>3, <3>1
      <3> QED BY <1>3, <2>3, <3>1, <3>2 DEF Current, TaskAgrees
    <2> QED BY <2>1, <2>2, <2>3
  <1>5. TasksDiffer'
    <2> SUFFICES ASSUME NEW t \in tasks', NEW v \in tasks', t.client = v.client,
                        t.attempt = v.attempt, t.offset = v.offset, t.again = v.again
                 PROVE  t = v
      BY DEF TasksDiffer
    <2> QED BY <1>3 DEF FsIInv, TasksDiffer
  <1>6. ClientsAgree'
    <2> SUFFICES ASSUME NEW d \in Clients
                 PROVE  (/\ client[d].next <= client[d].size
                         /\ client[d].state = "stored" <=> client[d].next = client[d].size
                         /\ client[d].state = "ready" => ~client[d].again /\ client[d].next > 0
                         /\ client[d].next > 0 => client[d].attempt > 0)'
      BY DEF ClientsAgree
    <2> QED BY <1>1 DEF FsIInv, ClientsAgree
  <1>7. CreatesAwaited'
    <2> SUFFICES ASSUME NEW t \in tasks', t.pc = "create", ~client'[t.client].late
                 PROVE  /\ t.attempt = client'[t.client].attempt
                        /\ client'[t.client].state = "waiting"
      BY DEF CreatesAwaited, Current
    <2>1. CASE t = u
      BY <2>1
    <2>2. CASE t \in tasks
      <3>1. t.client # c
        BY <2>2 DEF FsIInv, CreatesAwaited
      <3> QED BY <1>2, <2>2, <3>1 DEF FsIInv, CreatesAwaited, Current
    <2> QED BY <2>1, <2>2
  <1> QED BY <1>4, <1>5, <1>6, <1>7 DEF RequestsAgree

\* A client stops waiting, or gives up.
LEMMA ClientStep ==
    ASSUME FsIInv, NEW c \in Clients, tasks' = tasks,
           client' \in [Clients -> Client], \A d \in Clients : d # c => client'[d] = client[d],
           client[c].state # "stored", client'[c].state \in {"timedout", "failed", "cancelled"},
           client'[c].attempt = client[c].attempt, client'[c].size = client[c].size,
           client'[c].next = client[c].next, client'[c].again = client[c].again,
           client[c].late => client'[c].late,
           client[c].state # "waiting" \/ (client[c].next = 0 => client'[c].late)
    PROVE  RequestsAgree'
  <1>1. \A t \in tasks : t.client \in Clients
    BY TaskTyped DEF FsIInv
  <1>2. TasksAgree'
    <2> SUFFICES ASSUME NEW t \in tasks
                 PROVE  TaskAgrees(t)'
      BY DEF TasksAgree
    <2>1. CASE t.client = c
      BY <2>1 DEF FsIInv, TasksAgree, TaskAgrees, Current
    <2>2. CASE t.client # c
      BY <1>1, <2>2 DEF FsIInv, TasksAgree, TaskAgrees, Current
    <2> QED BY <2>1, <2>2
  <1>3. TasksDiffer'
    BY DEF FsIInv, TasksDiffer
  <1>4. ClientsAgree'
    BY DEF FsIInv, ClientsAgree
  <1>5. CreatesAwaited'
    <2> SUFFICES ASSUME NEW t \in tasks, t.pc = "create", ~client'[t.client].late
                 PROVE  /\ t.attempt = client'[t.client].attempt
                        /\ client'[t.client].state = "waiting"
      BY DEF CreatesAwaited, Current
    <2>1. CASE t.client = c
      <3>1. t.attempt = client[c].attempt /\ client[c].state = "waiting"
        BY <2>1 DEF FsIInv, CreatesAwaited, Current
      <3>2. client[c].next = 0
        BY <2>1, <3>1 DEF FsIInv, TasksAgree, TaskAgrees, Current
      <3> QED BY <2>1, <3>1, <3>2
    <2>2. CASE t.client # c
      BY <1>1, <2>2 DEF FsIInv, CreatesAwaited, Current
    <2> QED BY <2>1, <2>2
  <1> QED BY <1>2, <1>3, <1>4, <1>5 DEF RequestsAgree

\* Nothing but files and directories changes.
LEMMA StillStep ==
    ASSUME FsIInv, tasks' = tasks, client' = client
    PROVE  RequestsAgree'
  <1>1. TasksAgree' /\ CreatesAwaited'
    BY DEF FsIInv, TasksAgree, TaskAgrees, CreatesAwaited, Current
  <1>2. TasksDiffer' /\ ClientsAgree'
    BY DEF FsIInv, TasksDiffer, ClientsAgree
  <1> QED BY <1>1, <1>2 DEF RequestsAgree

-----------------------------------------------------------------------------
(* Files *)

LEMMA FileTyped ==
    ASSUME FsTypeOK, NEW p \in Paths
    PROVE  /\ file[p].data \in Seq(Bytes) /\ Len(file[p].data) \in Nat
           /\ DOMAIN file[p].data = 1..Len(file[p].data)
           /\ file[p].ino \in Nat /\ upload_chunks[p] \in Int
           /\ disturbed[p] \in BOOLEAN
  <1>1. file[p] \in [ino : Nat, data : Seq(Bytes)] /\ disturbed[p] \in BOOLEAN
    BY DEF FsTypeOK
  <1>2. upload_chunks[p] \in {Missing} \cup 0..(MaxChunks - 1)
    BY DEF FsTypeOK
  <1> QED BY <1>1, <1>2, LenProperties, FsAssumption DEF Missing

\* A step that leaves a file, the appends to it, its offset and the handlers
\* past their creation alone, or ends some of them.
LEMMA FileKept ==
    ASSUME FsIInv, NEW c \in Clients, NEW p, p = TargetOf[c],
           file'[p] = file[p], disturbed[p] => disturbed'[p], Pending(p)' = Pending(p),
           upload_chunks'[p] = upload_chunks[p],
           \A t \in tasks' : t.client = c /\ t.pc # "create" => t \in tasks,
           client'[c].attempt \in Nat,
           \/ /\ client'[c].attempt = client[c].attempt /\ client'[c].size = client[c].size
              /\ client'[c].next = client[c].next
           \/ client'[c].attempt > client[c].attempt /\ client'[c].next = 0
    PROVE  FileOf(c)'
  <1> SUFFICES ASSUME Clean(p)'
               PROVE  \E g \in 1..MaxAttempts : HandlersOf(c, g)' /\ ContentOf(c, g)'
    BY DEF FileOf
  <1>1. Clean(p)
    BY DEF Clean
  <1>2. PICK g \in 1..MaxAttempts : HandlersOf(c, g) /\ ContentOf(c, g)
    BY <1>1 DEF FsIInv, FilesAgree, FileOf
  <1>3. \A k : WrittenUpTo(p, k)' <=> WrittenUpTo(p, k)
    BY DEF WrittenUpTo
  <1>4. HandlersOf(c, g)'
    <2> SUFFICES ASSUME NEW t \in tasks, t \in tasks', t.client = c, t.pc # "create"
                 PROVE  HandlerOf(t, c, g)'
      BY DEF HandlersOf
    <2>1. \A u \in tasks' : u.client = c /\ Writing(u) => u \in tasks
      BY DEF Writing
    <2> QED BY <1>2, <1>3, <2>1 DEF HandlersOf, HandlerOf, Starting
  <1>5. ContentOf(c, g)'
    <2>1. client[c].attempt \in Nat /\ g \in Nat
      BY ClientTyped, FsAssumption DEF FsIInv
    <2>2. g <= client[c].attempt
      BY <1>2 DEF ContentOf
    <2>3. CASE client'[c].attempt = client[c].attempt /\ client'[c].size = client[c].size
               /\ client'[c].next = client[c].next
      BY <1>2, <1>3, <2>3 DEF ContentOf
    <2>4. CASE client'[c].attempt > client[c].attempt /\ client'[c].next = 0
      <3>1. g # client'[c].attempt /\ g <= client'[c].attempt /\ ~(client'[c].next > 0)
        BY <2>1, <2>2, <2>4
      <3> QED BY <1>2, <3>1 DEF ContentOf
    <2> QED BY <2>3, <2>4
  <1> QED BY <1>4, <1>5

\* create, with nobody else at the file: the upload begins with an empty one.
LEMMA CreateEffect ==
    ASSUME FsIInv, NEW t \in tasks, NEW c \in Clients, NEW p, c = t.client, p = TargetOf[c],
           t.pc = "create", NEW u, SameRequest(t, u), u.pc \in {"insert", "open"},
           tasks' = (tasks \ {t}) \cup {u}, client' = client, writes' = writes,
           upload_chunks' = upload_chunks,
           file'[p] = [ino |-> IF file[p] = NoFile THEN inodes + 1 ELSE file[p].ino,
                       data |-> <<>>],
           disturbed'[p] = (Unlanded(p) \/ Overlaps(t))
    PROVE  FileOf(c)'
  <1> SUFFICES ASSUME ~Unlanded(p), ~Overlaps(t)
               PROVE  \E g \in 1..MaxAttempts : HandlersOf(c, g)' /\ ContentOf(c, g)'
    BY DEF FileOf, Clean
  <1>1. /\ t.attempt \in 1..MaxAttempts /\ t.attempt \in Nat /\ t.offset = 0 /\ p \in Paths
        /\ client[c].attempt \in Nat /\ client[c].size \in Nat /\ client[c].size > 0
        /\ upload_chunks[p] \in Int
    BY TaskTyped, ClientTyped, FileTyped DEF FsIInv, TasksAgree, TaskAgrees
  <1>2. t.attempt = client[c].attempt /\ \A v \in tasks : v.client = c => v = t
    BY DEF Overlaps
  <1>3. client[c].next = 0
    BY <1>1, <1>2 DEF FsIInv, TasksAgree, TaskAgrees, Current
  <1>4. \A v \in tasks' : v.client = c => v = u
    BY <1>2
  <1>5. file'[p].data = <<>> /\ Len(<<>>) = 0
    OBVIOUS
  <1>6. Pending(p)' = {}
    <2> SUFFICES ASSUME NEW w \in writes, w.path = p, w.ino = file'[p].ino PROVE FALSE
      BY DEF Pending
    <2>1. w.ino \in 1..inodes /\ inodes \in Nat
      BY DEF FsIInv, InodesAgree, FsTypeOK
    <2>2. CASE file[p] = NoFile
      <3>1. w.ino = inodes + 1
        BY <2>2
      <3> QED BY <2>1, <3>1
    <2>3. CASE file[p] # NoFile
      BY <2>3 DEF Unlanded
    <2> QED BY <2>2, <2>3
  <1>7. u.client = c /\ u.attempt = t.attempt /\ u.offset = 0
    BY <1>1 DEF SameRequest
  <1>8. HandlersOf(c, t.attempt)'
    <2> SUFFICES ASSUME NEW v \in tasks', v.client = c, v.pc # "create"
                 PROVE  HandlerOf(v, c, t.attempt)'
      BY DEF HandlersOf
    <2>1. v = u
      BY <1>4
    <2>2. AllWhole(<<>>)
      BY DEF AllWhole
    <2> QED BY <1>4, <1>5, <1>6, <1>7, <2>1, <2>2 DEF HandlerOf
  <1>9. ContentOf(c, t.attempt)'
    <2>1. Ordered(<<>>)
      BY DEF Ordered
    <2> QED BY <1>1, <1>2, <1>3, <1>5, <1>6, <2>1 DEF ContentOf
  <1> QED BY <1>1, <1>8, <1>9

\* insert: the offset of the stream starts over.
LEMMA InsertEffect ==
    ASSUME FsIInv, NEW t \in tasks, NEW c \in Clients, NEW p, c = t.client, p = TargetOf[c],
           t.pc = "insert", NEW u, SameRequest(t, u), u.pc = "check",
           tasks' = (tasks \ {t}) \cup {u}, client' = client, writes' = writes,
           upload_chunks'[p] = 0, file' = file, disturbed' = disturbed
    PROVE  FileOf(c)'
  <1> SUFFICES ASSUME Clean(p)
               PROVE  \E g \in 1..MaxAttempts : HandlersOf(c, g)' /\ ContentOf(c, g)'
    BY DEF FileOf, Clean
  <1>1. PICK g \in 1..MaxAttempts : HandlersOf(c, g) /\ ContentOf(c, g)
    BY DEF FsIInv, FilesAgree, FileOf
  <1>2. HandlerOf(t, c, g)
    BY <1>1 DEF HandlersOf
  <1>3. /\ t.attempt = g /\ file[p].data = <<>> /\ Pending(p) = {}
        /\ \A v \in tasks : v.client = c /\ v.pc # "create" => v = t
    BY <1>2 DEF HandlerOf, Starting
  <1>4. t.offset = 0
    BY DEF FsIInv, TasksAgree, TaskAgrees
  <1>5. Pending(p)' = Pending(p) /\ \A k : WrittenUpTo(p, k)' <=> WrittenUpTo(p, k)
    BY DEF Pending, WrittenUpTo
  <1>6. HandlersOf(c, g)'
    <2> SUFFICES ASSUME NEW v \in tasks', v.client = c, v.pc # "create"
                 PROVE  HandlerOf(v, c, g)'
      BY DEF HandlersOf
    <2>1. v = u
      BY <1>3
    <2>2. \A x \in tasks' : x.client = c /\ x.pc # "create" => x = u
      BY <1>3
    <2>3. v.attempt = g /\ v.offset = 0 /\ ~Writing(v) /\ v.pc = "check"
      BY <1>3, <1>4, <2>1 DEF SameRequest, Writing
    <2>4. file'[p].data = <<>> /\ Pending(p)' = {}
      BY <1>3, <1>5
    <2>5. \A x \in tasks' : x.client = c /\ x.pc # "create" => x = v
      BY <2>1, <2>2
    <2> QED BY <2>3, <2>4, <2>5 DEF HandlerOf
  <1>7. ContentOf(c, g)'
    BY <1>1, <1>5 DEF ContentOf
  <1> QED BY <1>6, <1>7

\* The check lets the chunk pass that follows the last one written, and no
\* other while that one is at work.
LEMMA CheckEffect ==
    ASSUME FsIInv, NEW t \in tasks, NEW c \in Clients, NEW p, c = t.client, p = TargetOf[c],
           t.pc = "check", upload_chunks[p] = t.offset,
           NEW u, SameRequest(t, u), u.pc = "open",
           tasks' = (tasks \ {t}) \cup {u}, client' = client, writes' = writes,
           upload_chunks'[p] \in {0, t.offset + 1}, file' = file, disturbed' = disturbed
    PROVE  FileOf(c)'
  <1> SUFFICES ASSUME Clean(p)
               PROVE  \E g \in 1..MaxAttempts : HandlersOf(c, g)' /\ ContentOf(c, g)'
    BY DEF FileOf, Clean
  <1> DEFINE data == file[p].data
  <1>1. PICK g \in 1..MaxAttempts : HandlersOf(c, g) /\ ContentOf(c, g)
    BY DEF FsIInv, FilesAgree, FileOf
  <1>2. HandlerOf(t, c, g)
    BY <1>1 DEF HandlersOf
  <1>3. Pending(p)' = Pending(p) /\ \A k : WrittenUpTo(p, k)' <=> WrittenUpTo(p, k)
    BY DEF Pending, WrittenUpTo
  <1>4. /\ t.offset \in Nat /\ Len(data) \in Nat /\ p \in Paths
        /\ u.client = c /\ u.attempt = g /\ u.offset = t.offset
    BY <1>2, TaskTyped, FileTyped, ClientTyped DEF FsIInv, SameRequest, HandlerOf
  <1>5. /\ \A v \in tasks : v.client = c => ~Writing(v) /\ (Starting(v) => v = t)
        /\ Pending(p) = {} => t.offset = Len(data) /\ AllWhole(data)
        /\ \A w \in Pending(p) : w.bytes.whole /\ t.offset = Len(data) + 1
    <2>1. CASE t.offset = 0
      <3>1. /\ data = <<>> /\ Pending(p) = {}
            /\ \A v \in tasks : v.client = c /\ v.pc # "create" => v = t
        BY <1>2, <2>1 DEF HandlerOf, Starting
      <3> QED BY <2>1, <3>1 DEF AllWhole, Writing, Starting
    <2>2. CASE t.offset # 0
      <3>1. t.offset > 0 /\ WrittenUpTo(p, t.offset)
        BY <1>2, <1>4, <2>2 DEF HandlerOf
      <3>2. /\ Len(data) <= t.offset /\ \A w \in Pending(p) : Len(data) < t.offset
            /\ Pending(p) # {} => AllWhole(data)
            /\ \A v, w \in Pending(p) : v = w
            /\ \A i \in 1..Len(data) : i < Len(data) => data[i].whole
        BY <1>1, <3>1 DEF ContentOf, Ordered
      <3>3. Pending(p) = {} => t.offset = Len(data) /\ AllWhole(data)
        BY <1>4, <3>1, <3>2 DEF WrittenUpTo, AllWhole
      <3>4. \A w \in Pending(p) : w.bytes.whole /\ t.offset = Len(data) + 1
        <4> TAKE w \in Pending(p)
        <4>1. Len(data) < t.offset
          BY <3>2
        <4>2. Len(data) = t.offset - 1 /\ \E v \in Pending(p) : v.bytes.whole
          BY <1>4, <3>1, <4>1 DEF WrittenUpTo
        <4>3. w.bytes.whole
          BY <3>2, <4>2
        <4> QED BY <1>4, <4>2, <4>3
      <3>5. ASSUME NEW v \in tasks, v.client = c, Writing(v) PROVE FALSE
        <4>1. v.offset \in Nat /\ v.pc # "create"
          BY <3>5, TaskTyped DEF FsIInv, Writing
        <4>2. HandlerOf(v, c, g)
          BY <1>1, <3>5, <4>1 DEF HandlersOf
        <4>3. v.offset < t.offset
          BY <3>1, <3>5, <4>2 DEF HandlerOf
        <4>4. CASE Pending(p) = {}
          BY <1>4, <3>3, <3>5, <4>1, <4>2, <4>3, <4>4 DEF HandlerOf
        <4>5. CASE Pending(p) # {}
          BY <1>4, <3>4, <3>5, <4>1, <4>2, <4>3, <4>5 DEF HandlerOf
        <4> QED BY <4>4, <4>5
      <3>6. ASSUME NEW v \in tasks, v.client = c, Starting(v) PROVE v = t
        <4>1. v.pc # "create"
          BY <3>6 DEF Starting
        <4>2. HandlerOf(v, c, g)
          BY <1>1, <3>6, <4>1 DEF HandlersOf
        <4> QED BY <3>6, <4>2 DEF HandlerOf
      <3> QED BY <3>3, <3>4, <3>5, <3>6
    <2> QED BY <2>1, <2>2
  <1>6. HandlersOf(c, g)'
    <2> SUFFICES ASSUME NEW v \in tasks', v.client = c, v.pc # "create"
                 PROVE  HandlerOf(v, c, g)'
      BY DEF HandlersOf
    <2>1. CASE v = u
      <3>1. ~Starting(v) /\ v.pc = "open"
        BY <2>1 DEF Starting
      <3>2. \A x \in tasks' : x.client = c /\ Writing(x) => x = u
        BY <1>5
      <3>3. upload_chunks'[p] > 0 => t.offset < upload_chunks'[p]
        BY <1>4
      <3> QED BY <1>3, <1>4, <1>5, <2>1, <3>1, <3>2, <3>3 DEF HandlerOf
    <2>2. CASE v \in tasks /\ v # t
      <3>1. HandlerOf(v, c, g) /\ ~Writing(v) /\ ~Starting(v)
        BY <1>1, <1>5, <2>2 DEF HandlersOf
      <3> QED BY <1>3, <3>1 DEF HandlerOf, Writing
    <2> QED BY <2>1, <2>2
  <1>7. ContentOf(c, g)'
    <2>1. /\ upload_chunks'[p] > 0 => Len(data) <= upload_chunks'[p]
          /\ \A w \in Pending(p) : upload_chunks'[p] > 0 => Len(data) < upload_chunks'[p]
      BY <1>4, <1>5
    <2> QED BY <1>1, <1>3, <2>1 DEF ContentOf
  <1> QED BY <1>6, <1>7

\* The file is opened: an append that is still to land would be overtaken.
LEMMA OpenEffect ==
    ASSUME FsIInv, NEW t \in tasks, NEW c \in Clients, NEW p, c = t.client, p = TargetOf[c],
           t.pc = "open", NEW u, SameRequest(t, u), u.pc = "write", u.ino = file[p].ino,
           tasks' = (tasks \ {t}) \cup {u}, client' = client, writes' = writes,
           upload_chunks' = upload_chunks, file' = file,
           disturbed'[p] = (disturbed[p] \/ Unlanded(p))
    PROVE  FileOf(c)'
  <1> SUFFICES ASSUME Clean(p), ~Unlanded(p)
               PROVE  \E g \in 1..MaxAttempts : HandlersOf(c, g)' /\ ContentOf(c, g)'
    BY DEF FileOf, Clean
  <1>1. PICK g \in 1..MaxAttempts : HandlersOf(c, g) /\ ContentOf(c, g)
    BY DEF FsIInv, FilesAgree, FileOf
  <1>2. HandlerOf(t, c, g)
    BY <1>1 DEF HandlersOf
  <1>3. Pending(p)' = Pending(p) /\ \A k : WrittenUpTo(p, k)' <=> WrittenUpTo(p, k)
    BY DEF Pending, WrittenUpTo
  <1>4. Pending(p) = {}
    BY DEF Pending, Unlanded
  <1>5. HandlersOf(c, g)'
    <2> SUFFICES ASSUME NEW v \in tasks', v.client = c, v.pc # "create"
                 PROVE  HandlerOf(v, c, g)'
      BY DEF HandlersOf
    <2>1. \A x \in tasks : x.client = c /\ Writing(x) => x = t
      BY <1>2 DEF HandlerOf, Writing
    <2>2. CASE v = u
      BY <1>2, <1>3, <1>4, <2>1, <2>2 DEF HandlerOf, Writing, Starting, SameRequest
    <2>3. CASE v \in tasks /\ v # t
      <3>1. HandlerOf(v, c, g) /\ ~Writing(v)
        BY <1>1, <2>1, <2>3 DEF HandlersOf
      <3>2. ~Starting(v)
        BY <2>3, <3>1 DEF HandlerOf
      <3> QED BY <1>3, <3>1, <3>2 DEF HandlerOf, Writing
    <2> QED BY <2>2, <2>3
  <1>6. ContentOf(c, g)'
    BY <1>1, <1>3 DEF ContentOf
  <1> QED BY <1>5, <1>6

\* The append is handed to the blocking pool, and the client may hear of it.
LEMMA WriteEffect ==
    ASSUME FsIInv, NEW t \in tasks, NEW c \in Clients, NEW p, c = t.client, p = TargetOf[c],
           t.pc = "write", NEW whole \in BOOLEAN, NEW w,
           w.path = p, w.ino = t.ino, w.bytes.attempt = t.attempt, w.bytes.offset = t.offset,
           w.bytes.whole = whole, writes' = writes \cup {w}, tasks' = tasks \ {t},
           Answer(t, whole), upload_chunks' = upload_chunks, file' = file,
           disturbed' = disturbed
    PROVE  FileOf(c)'
  <1> SUFFICES ASSUME Clean(p)
               PROVE  \E g \in 1..MaxAttempts : HandlersOf(c, g)' /\ ContentOf(c, g)'
    BY DEF FileOf, Clean
  <1> DEFINE data == file[p].data
  <1>1. PICK g \in 1..MaxAttempts : HandlersOf(c, g) /\ ContentOf(c, g)
    BY DEF FsIInv, FilesAgree, FileOf
  <1>2. /\ t.attempt = g /\ t.ino = file[p].ino /\ Pending(p) = {}
        /\ t.offset = Len(data) /\ AllWhole(data)
        /\ upload_chunks[p] > 0 => t.offset < upload_chunks[p]
        /\ \A v \in tasks : v.client = c /\ Writing(v) => v = t
    <2>1. HandlerOf(t, c, g)
      BY <1>1 DEF HandlersOf
    <2> QED BY <2>1 DEF HandlerOf, Writing
  <1>3. Pending(p)' = {w}
    BY <1>2 DEF Pending
  <1>4. /\ t.offset \in Nat /\ Len(data) \in Nat /\ client[c].next \in Nat
        /\ upload_chunks[p] \in Int
    BY TaskTyped, FileTyped, ClientTyped DEF FsIInv
  <1>5. \A k : WrittenUpTo(p, k) => WrittenUpTo(p, k)'
    BY <1>2 DEF WrittenUpTo
  <1>6. HandlersOf(c, g)'
    <2> SUFFICES ASSUME NEW v \in tasks, v # t, v.client = c, v.pc # "create"
                 PROVE  HandlerOf(v, c, g)'
      BY DEF HandlersOf
    <2>1. HandlerOf(v, c, g) /\ ~Writing(v)
      BY <1>1, <1>2 DEF HandlersOf
    <2>2. ~Starting(v)
      BY <2>1 DEF HandlerOf
    <2> QED BY <1>5, <2>1, <2>2 DEF HandlerOf, Writing
  <1>7. ContentOf(c, g)'
    <2>1. /\ client'[c].attempt = client[c].attempt /\ client'[c].size = client[c].size
          /\ \/ client' = client
             \/ /\ Awaits(t)
                /\ whole => client'[c].next = t.offset + 1
                /\ ~whole => client'[c].next = t.offset
      BY AnswerEffect
    <2>2. g = client[c].attempt => Len(data) < client[c].size
      BY <1>2 DEF FsIInv, TasksAgree, TaskAgrees, Current
    <2>3. (client[c].next > 0 => g = client[c].attempt /\ WrittenUpTo(p, client[c].next))'
      <3>1. \A k : k = client[c].next /\ k > 0 => g = client[c].attempt /\ WrittenUpTo(p, k)'
        BY <1>1, <1>5 DEF ContentOf
      <3>2. CASE client' = client
        BY <2>1, <3>1, <3>2
      <3>3. CASE Awaits(t) /\ ~whole /\ client'[c].next = t.offset
        BY <2>1, <3>1, <3>3 DEF Awaits
      <3>4. CASE Awaits(t) /\ whole /\ client'[c].next = t.offset + 1
        <4>1. Len(data) = (t.offset + 1) - 1 /\ w \in Pending(p)' /\ w.bytes.whole
          BY <1>2, <1>3, <1>4, <3>4
        <4>2. \A k : k = t.offset + 1 => WrittenUpTo(p, k)'
          BY <4>1 DEF WrittenUpTo
        <4> QED BY <1>2, <2>1, <3>4, <4>2 DEF Awaits
      <3> QED BY <2>1, <3>2, <3>3, <3>4
    <2> QED BY <1>1, <1>2, <1>3, <2>1, <2>2, <2>3 DEF ContentOf
  <1> QED BY <1>6, <1>7

\* The append lands: the file grows by the chunk that was next.
LEMMA LandEffect ==
    ASSUME FsIInv, NEW c \in Clients, NEW p, p = TargetOf[c], NEW w \in Pending(p),
           writes' = writes \ {w}, file'[p].ino = file[p].ino,
           file'[p].data = Append(file[p].data, w.bytes),
           tasks' = tasks, client' = client, upload_chunks' = upload_chunks,
           disturbed' = disturbed
    PROVE  FileOf(c)'
  <1> DEFINE data == file[p].data
  <1>1. p \in Paths /\ w \in writes /\ w.path = p /\ w.ino = file[p].ino /\ w.bytes \in Bytes
    BY FsAssumption DEF Pending, FsIInv, FsTypeOK, Write
  <1> SUFFICES ASSUME Clean(p)
               PROVE  \E g \in 1..MaxAttempts : HandlersOf(c, g)' /\ ContentOf(c, g)'
    <2>1. w.ino \in 1..inodes /\ inodes \in Nat
      BY <1>1 DEF FsIInv, InodesAgree, FsTypeOK
    <2>2. file[p].ino # 0
      BY <1>1, <2>1
    <2>3. file[p] # NoFile
      BY <2>2 DEF NoFile
    <2> QED BY <2>3 DEF FileOf, Clean
  <1>2. PICK g \in 1..MaxAttempts : HandlersOf(c, g) /\ ContentOf(c, g)
    BY DEF FsIInv, FilesAgree, FileOf
  <1>3. /\ w.bytes.attempt = g /\ w.bytes.offset = Len(data) /\ AllWhole(data)
        /\ upload_chunks[p] > 0 => Len(data) < upload_chunks[p]
        /\ g = client[c].attempt => Len(data) < client[c].size
        /\ Pending(p) = {w}
    BY <1>2 DEF ContentOf
  <1>4. /\ data \in Seq(Bytes) /\ Len(data) \in Nat /\ upload_chunks[p] \in Int
        /\ client[c].size \in Nat
    BY <1>1, FileTyped, ClientTyped DEF FsIInv
  <1>5. /\ Len(file'[p].data) = Len(data) + 1
        /\ \A i \in 1..Len(data) : file'[p].data[i] = data[i]
        /\ file'[p].data[Len(data) + 1] = w.bytes
    BY <1>1, <1>4, AppendProperties
  <1>6. Pending(p)' = {}
    BY <1>1, <1>3 DEF Pending
  <1>7. ASSUME NEW k \in Nat, k > 0, WrittenUpTo(p, k) PROVE WrittenUpTo(p, k)'
    <2>1. CASE Len(data) >= k /\ data[k].whole
      <3>1. k \in 1..Len(data) /\ Len(data) + 1 >= k
        BY <1>4, <1>7, <2>1
      <3> QED BY <1>5, <2>1, <3>1 DEF WrittenUpTo
    <2>2. CASE Len(data) = k - 1 /\ w.bytes.whole
      <3>1. k = Len(data) + 1 /\ Len(data) + 1 >= k
        BY <1>4, <2>2
      <3> QED BY <1>5, <2>2, <3>1 DEF WrittenUpTo
    <2> QED BY <1>3, <1>7, <2>1, <2>2 DEF WrittenUpTo
  <1>8. w.bytes.whole => AllWhole(file'[p].data)
    <2> SUFFICES ASSUME w.bytes.whole, NEW i \in 1..(Len(data) + 1)
                 PROVE  file'[p].data[i].whole
      BY <1>5 DEF AllWhole
    <2>1. CASE i = Len(data) + 1
      BY <1>5, <2>1
    <2>2. CASE i # Len(data) + 1
      <3>1. i \in 1..Len(data)
        BY <1>4, <2>2
      <3> QED BY <1>3, <1>5, <3>1 DEF AllWhole
    <2> QED BY <2>1, <2>2
  <1>9. HandlersOf(c, g)'
    <2> SUFFICES ASSUME NEW v \in tasks, v.client = c, v.pc # "create"
                 PROVE  HandlerOf(v, c, g)'
      BY DEF HandlersOf
    <2>1. HandlerOf(v, c, g) /\ v.offset \in Nat
      BY <1>2, TaskTyped DEF HandlersOf, FsIInv
    <2>2. ~Starting(v) /\ v.pc # "write"
      BY <1>3, <2>1 DEF HandlerOf
    <2>3. v.pc = "check" /\ v.offset > 0 => WrittenUpTo(p, v.offset)'
      BY <1>7, <2>1 DEF HandlerOf
    <2>4. Writing(v) => v.offset = Len(file'[p].data) /\ AllWhole(file'[p].data)
      BY <1>3, <1>5, <1>8, <2>1 DEF HandlerOf
    <2> QED BY <1>6, <2>1, <2>2, <2>3, <2>4 DEF HandlerOf
  <1>10. ContentOf(c, g)'
    <2>1. /\ upload_chunks[p] > 0 => Len(data) + 1 <= upload_chunks[p]
          /\ g = client[c].attempt => Len(data) + 1 <= client[c].size
      BY <1>3, <1>4
    <2>2. client[c].next > 0 => g = client[c].attempt /\ WrittenUpTo(p, client[c].next)'
      <3>1. client[c].next \in Nat
        BY ClientTyped DEF FsIInv
      <3> QED BY <1>2, <1>7, <3>1 DEF ContentOf
    <2>3. \A i \in 1..(Len(data) + 1) : file'[p].data[i].attempt = g
      <3> TAKE i \in 1..(Len(data) + 1)
      <3>1. i = Len(data) + 1 \/ i \in 1..Len(data)
        BY <1>4
      <3> QED BY <1>2, <1>3, <1>5, <3>1 DEF ContentOf
    <2>4. Ordered(file'[p].data)
      <3> SUFFICES ASSUME NEW i \in 1..(Len(data) + 1)
                   PROVE  /\ file'[p].data[i].offset = i - 1
                          /\ file'[p].data[i].attempt = file'[p].data[1].attempt
                          /\ i < Len(data) + 1 => file'[p].data[i].whole
        BY <1>5 DEF Ordered
      <3>1. 1 \in 1..(Len(data) + 1)
        BY <1>4
      <3>2. CASE i = Len(data) + 1
        <4>1. (Len(data) + 1) - 1 = Len(data) /\ ~(i < Len(data) + 1)
          BY <1>4, <3>2
        <4> QED BY <1>3, <1>5, <2>3, <3>1, <3>2, <4>1
      <3>3. CASE i # Len(data) + 1
        <4>1. i \in 1..Len(data)
          BY <1>4, <3>3
        <4>2. data[i].offset = i - 1 /\ data[i].whole
          BY <1>2, <1>3, <4>1 DEF ContentOf, Ordered, AllWhole
        <4> QED BY <1>5, <2>3, <3>1, <4>1, <4>2
      <3> QED BY <3>2, <3>3
    <2>5. g <= client[c].attempt
      BY <1>2 DEF ContentOf
    <2> QED BY <1>5, <1>6, <2>1, <2>2, <2>3, <2>4, <2>5 DEF ContentOf
  <1> QED BY <1>9, <1>10

\* A client sends a chunk of the upload it is at.
LEMMA ChunkEffect ==
    ASSUME FsIInv, NEW c \in Clients, NEW p, p = TargetOf[c],
           NEW u, u.client = c, u.attempt = client[c].attempt, u.offset = client[c].next,
           u.pc = "check", client[c].next > 0, tasks' = tasks \cup {u},
           client'[c].attempt = client[c].attempt, client'[c].size = client[c].size,
           client'[c].next = client[c].next, writes' = writes, file' = file,
           upload_chunks' = upload_chunks, disturbed' = disturbed
    PROVE  FileOf(c)'
  <1> SUFFICES ASSUME Clean(p)
               PROVE  \E g \in 1..MaxAttempts : HandlersOf(c, g)' /\ ContentOf(c, g)'
    BY DEF FileOf, Clean
  <1>1. PICK g \in 1..MaxAttempts : HandlersOf(c, g) /\ ContentOf(c, g)
    BY DEF FsIInv, FilesAgree, FileOf
  <1>2. g = client[c].attempt /\ WrittenUpTo(p, client[c].next) /\ client[c].next \in Nat
    BY <1>1, ClientTyped DEF ContentOf, FsIInv
  <1>3. Pending(p)' = Pending(p) /\ \A k : WrittenUpTo(p, k)' <=> WrittenUpTo(p, k)
    BY DEF Pending, WrittenUpTo
  <1>4. HandlersOf(c, g)'
    <2> SUFFICES ASSUME NEW v \in tasks', v.client = c, v.pc # "create"
                 PROVE  HandlerOf(v, c, g)'
      BY DEF HandlersOf
    <2>1. CASE v = u
      <3>1. ~Starting(v) /\ ~Writing(v)
        BY <1>2, <2>1 DEF Starting, Writing
      <3> QED BY <1>2, <1>3, <2>1, <3>1 DEF HandlerOf
    <2>2. CASE v \in tasks
      <3>1. HandlerOf(v, c, g)
        BY <1>1, <2>2 DEF HandlersOf
      <3>2. ~Starting(v)
        <4>1. v.offset # 0
          BY <1>2, <2>2, <3>1 DEF FsIInv, TasksAgree, TaskAgrees, Current, HandlerOf
        <4>2. v.pc # "insert"
          BY <2>2, <4>1 DEF FsIInv, TasksAgree, TaskAgrees
        <4> QED BY <4>1, <4>2 DEF Starting
      <3>3. \A x \in tasks' : Writing(x) => x \in tasks
        BY DEF Writing
      <3> QED BY <1>3, <3>1, <3>2, <3>3 DEF HandlerOf
    <2> QED BY <2>1, <2>2
  <1>5. ContentOf(c, g)'
    BY <1>1, <1>3 DEF ContentOf
  <1> QED BY <1>4, <1>5

\* A step that concerns one client and the object it uploads.
LEMMA OtherFiles ==
    ASSUME FsIInv, NEW c \in Clients, client' \in [Clients -> Client],
           \A d \in Clients : d # c => client'[d] = client[d],
           \A q \in Paths : q # TargetOf[c] =>
             /\ file'[q] = file[q] /\ disturbed'[q] = disturbed[q]
             /\ upload_chunks'[q] = upload_chunks[q] /\ Pending(q)' = Pending(q),
           \A t \in tasks' : t.client # c => t \in tasks,
           FileOf(c)'
    PROVE  FilesAgree'
  <1> SUFFICES ASSUME NEW d \in Clients, d # c PROVE FileOf(d)'
    BY DEF FilesAgree
  <1> DEFINE q == TargetOf[d]
  <1>1. q \in Paths /\ q # TargetOf[c]
    BY FsAssumption
  <1>2. /\ file'[q] = file[q] /\ disturbed'[q] = disturbed[q]
        /\ upload_chunks'[q] = upload_chunks[q] /\ Pending(q)' = Pending(q)
    BY <1>1
  <1>3. client'[d] = client[d] /\ client'[d].attempt \in Nat
    BY ClientTyped DEF FsIInv
  <1>4. \A t \in tasks' : t.client = d /\ t.pc # "create" => t \in tasks
    OBVIOUS
  <1> HIDE DEF q
  <1> QED BY <1>2, <1>3, <1>4, FileKept DEF q

LEMMA PendingKept ==
    ASSUME NEW q, file'[q] = file[q], writes' = writes
    PROVE  Pending(q)' = Pending(q)
  BY DEF Pending

\* A handler gives up, the files untouched.
LEMMA GiveUpStep ==
    ASSUME FsIInv, NEW t \in tasks, tasks' = tasks \ {t}, Answer(t, FALSE) \/ client' = client,
           linked' = linked, dirs' = dirs, removing' = removing, file' = file,
           inodes' = inodes, upload_chunks' = upload_chunks, writes' = writes,
           disturbed' = disturbed
    PROVE  FsIInv'
  <1> DEFINE c == t.client
  <1>1. /\ c \in Clients /\ client \in [Clients -> Client]
    BY TaskTyped DEF FsIInv, FsTypeOK
  <1>2. /\ client' \in [Clients -> Client]
        /\ \A d \in Clients :
             /\ client'[d].attempt = client[d].attempt /\ client'[d].size = client[d].size
             /\ client'[d].next = client[d].next /\ client'[d].late = client[d].late
             /\ client'[d].state \in {client[d].state, "failed"}
             /\ d # c => client'[d] = client[d]
    <2>1. CASE client' = client
      BY <1>1, <2>1
    <2>2. CASE Answer(t, FALSE)
      <3>1. FALSE \in BOOLEAN
        OBVIOUS
      <3>2. /\ client' \in [Clients -> Client]
            /\ \A d \in Clients :
                 /\ client'[d].attempt = client[d].attempt /\ client'[d].size = client[d].size
                 /\ client'[d].late = client[d].late
                 /\ d # c => client'[d] = client[d]
            /\ \/ client' = client
               \/ /\ Awaits(t) /\ client'[c].next = t.offset
                  /\ client'[c].state = "failed"
        BY <2>2, <3>1, AnswerEffect
      <3> QED BY <1>1, <3>2 DEF Awaits
    <2> QED BY <2>1, <2>2
  <1>3. FsTypeOK'
    BY <1>2 DEF FsIInv, FsTypeOK
  <1>4. InodesAgree'
    BY DEF FsIInv, InodesAgree
  <1>5. RequestsAgree'
    <2>1. FALSE \in BOOLEAN
      OBVIOUS
    <2> QED BY <2>1, EndStep
  <1>6. CancelSticks'
    BY <1>2 DEF FsIInv, CancelSticks
  <1>7. FilesAgree'
    <2> SUFFICES ASSUME NEW d \in Clients PROVE FileOf(d)'
      BY DEF FilesAgree
    <2>1. Pending(TargetOf[d])' = Pending(TargetOf[d])
      BY PendingKept
    <2>2. client'[d].attempt \in Nat
      BY <1>2, ClientTyped DEF FsIInv
    <2> QED BY <1>2, <2>1, <2>2, FileKept
  <1> QED BY <1>3, <1>4, <1>5, <1>6, <1>7 DEF FsIInv, RequestsAgree

\* A handler at its next await.
LEMMA Moved ==
    ASSUME FsTypeOK, NEW t \in tasks, NEW pc \in {"create", "insert", "check", "open", "write"},
           NEW u, u = [t EXCEPT !.pc = pc]
    PROVE  u \in Task /\ SameRequest(t, u) /\ u.pc = pc /\ u.ino = t.ino
  <1>1. t \in Task
    BY DEF FsTypeOK
  <1> QED BY <1>1 DEF Task, SameRequest

\* CreateFile with the directory there.
LEMMA CreateFileStep ==
    ASSUME FsIInv, NEW t \in tasks, CreateFile(t)
    PROVE  FsIInv'
  <1> DEFINE c == t.client
  <1> DEFINE p == TargetOf[c]
  <1>1. CASE HomeOf[p] \notin dirs
    BY <1>1, GiveUpStep DEF CreateFile
  <1>2. CASE HomeOf[p] \in dirs
    <2> DEFINE u == [t EXCEPT !.pc = IF t.stream_id THEN "insert" ELSE "open"]
    <2>1. /\ t.pc = "create" /\ tasks' = (tasks \ {t}) \cup {u}
          /\ inodes' = IF file[p] = NoFile THEN inodes + 1 ELSE inodes
          /\ file' = [file EXCEPT ![p] = [ino |-> IF file[p] = NoFile THEN inodes'
                                                  ELSE file[p].ino, data |-> <<>>]]
          /\ disturbed' = [disturbed EXCEPT ![p] = Unlanded(p) \/ Overlaps(t)]
          /\ client' = client /\ linked' = linked /\ dirs' = dirs /\ removing' = removing
          /\ upload_chunks' = upload_chunks /\ writes' = writes
      BY <1>2 DEF CreateFile, Goto
    <2>2. /\ c \in Clients /\ p \in Paths /\ t.offset = 0
          /\ client \in [Clients -> Client] /\ inodes \in Nat /\ file[p].ino \in Nat
          /\ file \in [Paths -> [ino : Nat, data : Seq(Bytes)]]
          /\ disturbed \in [Paths -> BOOLEAN]
      BY <2>1, TaskTyped, FileTyped DEF FsIInv, FsTypeOK, TasksAgree, TaskAgrees
    <2>3. u \in Task /\ SameRequest(t, u) /\ u.pc \in {"insert", "open"} /\ u.client = c
      <3>1. (IF t.stream_id THEN "insert" ELSE "open") \in {"insert", "open"}
        OBVIOUS
      <3> QED BY <3>1, Moved DEF FsIInv, SameRequest
    <2> HIDE DEF u
    <2> DEFINE ino == IF file[p] = NoFile THEN inodes + 1 ELSE file[p].ino
    <2>4. /\ ino \in Nat /\ inodes' \in Nat /\ inodes <= inodes' /\ ino <= inodes' /\ ino # 0
      <3>1. CASE file[p] = NoFile
        BY <2>1, <2>2, <3>1
      <3>2. CASE file[p] # NoFile
        <4>1. file[p].ino <= inodes
          BY <2>2 DEF FsIInv, InodesAgree
        <4>2. file[p].ino # 0
          <5>1. file[p] = [ino |-> file[p].ino, data |-> file[p].data]
            BY <2>2
          <5>2. file[p].ino = 0 => file[p].data = <<>>
            BY <2>2 DEF FsIInv, InodesAgree
          <5> QED BY <3>2, <5>1, <5>2 DEF NoFile
        <4> QED BY <2>1, <2>2, <3>2, <4>1, <4>2
      <3> QED BY <3>1, <3>2
    <2>5. file'[p] = [ino |-> ino, data |-> <<>>] /\ \A q \in Paths : q # p => file'[q] = file[q]
      BY <2>1, <2>2
    <2>6. disturbed' \in [Paths -> BOOLEAN] /\ disturbed'[p] = (Unlanded(p) \/ Overlaps(t))
          /\ \A q \in Paths : q # p => disturbed'[q] = disturbed[q]
      <3>1. (Unlanded(p) \/ Overlaps(t)) \in BOOLEAN
        BY DEF Unlanded, Overlaps
      <3> QED BY <2>1, <2>2, <3>1
    <2>7. FsTypeOK'
      <3>1. [ino |-> ino, data |-> <<>>] \in [ino : Nat, data : Seq(Bytes)]
        BY <2>4, EmptySeq
      <3>2. file' \in [Paths -> [ino : Nat, data : Seq(Bytes)]]
        BY <2>1, <2>2, <2>5, <3>1
      <3>3. tasks' \subseteq Task
        BY <2>1, <2>3 DEF FsIInv, FsTypeOK
      <3> QED BY <2>1, <2>4, <2>6, <3>2, <3>3 DEF FsIInv, FsTypeOK
    <2>8. InodesAgree'
      <3>1. \A q \in Paths : file'[q].ino <= inodes' /\ (file'[q].ino = 0 => file'[q].data = <<>>)
        <4> TAKE q \in Paths
        <4>1. CASE q = p
          BY <2>4, <2>5, <4>1
        <4>2. CASE q # p
          <5>1. /\ file[q].ino <= inodes /\ (file[q].ino = 0 => file[q].data = <<>>)
                /\ file[q].ino \in Nat
            BY FileTyped DEF FsIInv, InodesAgree
          <5> QED BY <2>2, <2>4, <2>5, <4>2, <5>1
        <4> QED BY <4>1, <4>2
      <3>2. \A w \in writes' : w.ino \in 1..inodes'
        BY <2>1, <2>2, <2>4 DEF FsIInv, InodesAgree
      <3>3. \A v \in tasks' : v.pc = "write" => v.ino \in 1..inodes'
        BY <2>1, <2>2, <2>3, <2>4 DEF FsIInv, InodesAgree
      <3>4. \A q \in Paths : (\A d \in Clients : TargetOf[d] # q) => file'[q] = NoFile
        BY <2>2, <2>5 DEF FsIInv, InodesAgree
      <3> QED BY <3>1, <3>2, <3>3, <3>4 DEF InodesAgree
    <2>9. RequestsAgree'
      BY <2>1, <2>2, <2>3, MoveStep
    <2>10. CancelSticks'
      <3> SUFFICES ASSUME NEW d \in Clients, client[d].state = "cancelled", ~client[d].late
                   PROVE  file'[TargetOf[d]] = NoFile
        BY <2>1 DEF CancelSticks
      <3>1. d # c
        BY <2>1 DEF FsIInv, CreatesAwaited
      <3>2. TargetOf[d] # p /\ TargetOf[d] \in Paths
        BY <2>2, <3>1, FsAssumption
      <3> QED BY <2>5, <3>2 DEF FsIInv, CancelSticks
    <2>11. FilesAgree'
      <3>1. FileOf(c)'
        BY <2>1, <2>2, <2>3, <2>5, <2>6, CreateEffect
      <3>2. \A q \in Paths : q # p => Pending(q)' = Pending(q)
        BY <2>1, <2>5, PendingKept
      <3>3. \A v \in tasks' : v.client # c => v \in tasks
        BY <2>1, <2>3
      <3> QED BY <2>1, <2>2, <2>5, <2>6, <3>1, <3>2, <3>3, OtherFiles
    <2> QED BY <2>7, <2>8, <2>9, <2>10, <2>11 DEF FsIInv, RequestsAgree
  <1> QED BY <1>1, <1>2

\* A handler goes on to its next await, no file changing.
LEMMA GoOnStep ==
    ASSUME FsIInv, NEW t \in tasks, NEW u \in Task, SameRequest(t, u),
           u.pc \notin {"create", "insert"}, u.pc = "write" => u.ino \in 1..inodes,
           tasks' = (tasks \ {t}) \cup {u}, client' = client, linked' = linked,
           dirs' = dirs, removing' = removing, file' = file, inodes' = inodes,
           writes' = writes,
           upload_chunks' \in [Paths -> {Missing} \cup 0..(MaxChunks - 1)],
           disturbed' \in [Paths -> BOOLEAN],
           \A q \in Paths : q # TargetOf[t.client] =>
             disturbed'[q] = disturbed[q] /\ upload_chunks'[q] = upload_chunks[q],
           FileOf(t.client)'
    PROVE  FsIInv'
  <1>1. FsTypeOK'
    BY DEF FsIInv, FsTypeOK
  <1>2. InodesAgree'
    BY DEF FsIInv, InodesAgree
  <1>3. RequestsAgree'
    BY MoveStep
  <1>4. CancelSticks'
    BY DEF FsIInv, CancelSticks
  <1>5. FilesAgree'
    <2>1. t.client \in Clients /\ client' \in [Clients -> Client]
      BY TaskTyped DEF FsIInv, FsTypeOK
    <2>2. \A q \in Paths : Pending(q)' = Pending(q)
      BY PendingKept
    <2>3. \A v \in tasks' : v.client # t.client => v \in tasks
      BY DEF SameRequest
    <2> QED BY <2>1, <2>2, <2>3, OtherFiles
  <1> QED BY <1>1, <1>2, <1>3, <1>4, <1>5 DEF FsIInv, RequestsAgree

LEMMA InsertOffsetStep ==
    ASSUME FsIInv, NEW t \in tasks, InsertOffset(t)
    PROVE  FsIInv'
  <1> DEFINE c == t.client
  <1> DEFINE p == TargetOf[c]
  <1> DEFINE u == [t EXCEPT !.pc = "check"]
  <1>1. /\ t.pc = "insert" /\ tasks' = (tasks \ {t}) \cup {u}
        /\ upload_chunks' = [upload_chunks EXCEPT ![p] = 0]
        /\ client' = client /\ linked' = linked /\ dirs' = dirs /\ removing' = removing
        /\ file' = file /\ inodes' = inodes /\ writes' = writes /\ disturbed' = disturbed
    BY DEF InsertOffset, Goto
  <1>2. u \in Task /\ SameRequest(t, u) /\ u.pc = "check"
    BY Moved DEF FsIInv
  <1> HIDE DEF u
  <1>3. c \in Clients /\ p \in Paths /\ disturbed \in [Paths -> BOOLEAN]
    BY TaskTyped DEF FsIInv, FsTypeOK
  <1>4. /\ upload_chunks' \in [Paths -> {Missing} \cup 0..(MaxChunks - 1)]
        /\ upload_chunks'[p] = 0
        /\ \A q \in Paths : q # p => upload_chunks'[q] = upload_chunks[q]
    <2>1. 0 \in {Missing} \cup 0..(MaxChunks - 1)
      BY FsAssumption
    <2> QED BY <1>1, <1>3, <2>1 DEF FsIInv, FsTypeOK
  <1>5. FileOf(c)'
    BY <1>1, <1>2, <1>3, <1>4, InsertEffect
  <1> QED BY <1>1, <1>2, <1>3, <1>4, <1>5, GoOnStep

LEMMA CheckOffsetStep ==
    ASSUME FsIInv, NEW t \in tasks, CheckOffset(t)
    PROVE  FsIInv'
  <1> DEFINE c == t.client
  <1> DEFINE p == TargetOf[c]
  <1> DEFINE u == [t EXCEPT !.pc = "open"]
  <1>1. /\ t.pc = "check" /\ linked' = linked /\ dirs' = dirs /\ removing' = removing
        /\ file' = file /\ inodes' = inodes /\ writes' = writes /\ disturbed' = disturbed
    BY DEF CheckOffset
  <1>2. CASE upload_chunks[p] = Missing \/ upload_chunks[p] # t.offset
    BY <1>1, <1>2, GiveUpStep DEF CheckOffset
  <1>3. CASE upload_chunks[p] # Missing /\ upload_chunks[p] = t.offset
    <2> DEFINE k == IF t.is_last THEN 0 ELSE t.offset + 1
    <2>1. /\ tasks' = (tasks \ {t}) \cup {u} /\ client' = client
          /\ upload_chunks' = [upload_chunks EXCEPT ![p] = k]
      BY <1>3 DEF CheckOffset, Goto
    <2>2. u \in Task /\ SameRequest(t, u) /\ u.pc = "open"
      BY Moved DEF FsIInv
    <2> HIDE DEF u
    <2>3. c \in Clients /\ p \in Paths /\ disturbed \in [Paths -> BOOLEAN]
      BY TaskTyped DEF FsIInv, FsTypeOK
    <2>4. k \in 0..(MaxChunks - 1) /\ k \in {0, t.offset + 1}
      <3>1. t.offset + 1 = MaxChunks => t.is_last
        BY DEF FsIInv, TasksAgree, TaskAgrees
      <3>2. t.offset \in 0..(MaxChunks - 1)
        BY TaskTyped DEF FsIInv
      <3> QED BY <3>1, <3>2, FsAssumption
    <2> HIDE DEF k
    <2>5. /\ upload_chunks' \in [Paths -> {Missing} \cup 0..(MaxChunks - 1)]
          /\ upload_chunks'[p] = k
          /\ \A q \in Paths : q # p => upload_chunks'[q] = upload_chunks[q]
      BY <2>1, <2>3, <2>4 DEF FsIInv, FsTypeOK
    <2>6. FileOf(c)'
      BY <1>1, <1>3, <2>1, <2>2, <2>3, <2>4, <2>5, CheckEffect
    <2> QED BY <1>1, <2>1, <2>2, <2>3, <2>5, <2>6, GoOnStep
  <1> QED BY <1>2, <1>3

LEMMA FileHasInode ==
    ASSUME FsIInv, NEW p \in Paths, file[p] # NoFile
    PROVE  file[p].ino \in 1..inodes
  <1>1. file[p] \in [ino : Nat, data : Seq(Bytes)] /\ inodes \in Nat
    BY DEF FsIInv, FsTypeOK
  <1>2. file[p] = [ino |-> file[p].ino, data |-> file[p].data]
    BY <1>1
  <1>3. file[p].ino <= inodes /\ (file[p].ino = 0 => file[p].data = <<>>)
    BY DEF FsIInv, InodesAgree
  <1>4. file[p].ino # 0
    BY <1>2, <1>3 DEF NoFile
  <1> QED BY <1>1, <1>3, <1>4

LEMMA OpenFileStep ==
    ASSUME FsIInv, NEW t \in tasks, OpenFile(t)
    PROVE  FsIInv'
  <1> DEFINE c == t.client
  <1> DEFINE p == TargetOf[c]
  <1> DEFINE u == [t EXCEPT !.pc = "write", !.ino = file[p].ino]
  <1>1. /\ t.pc = "open" /\ linked' = linked /\ dirs' = dirs /\ removing' = removing
        /\ file' = file /\ inodes' = inodes /\ writes' = writes
        /\ upload_chunks' = upload_chunks
    BY DEF OpenFile
  <1>2. CASE file[p] = NoFile
    BY <1>1, <1>2, GiveUpStep DEF OpenFile
  <1>3. CASE file[p] # NoFile
    <2>1. /\ tasks' = (tasks \ {t}) \cup {u} /\ client' = client
          /\ disturbed' = [disturbed EXCEPT ![p] = disturbed[p] \/ Unlanded(p)]
      BY <1>3 DEF OpenFile
    <2>2. c \in Clients /\ p \in Paths /\ file[p].ino \in Nat /\ t \in Task
      BY TaskTyped, FileTyped DEF FsIInv
    <2>3. u \in Task /\ SameRequest(t, u) /\ u.pc = "write" /\ u.ino = file[p].ino
      BY <2>2 DEF Task, SameRequest
    <2> HIDE DEF u
    <2>4. u.ino \in 1..inodes
      BY <1>3, <2>2, <2>3, FileHasInode
    <2>5. /\ disturbed' \in [Paths -> BOOLEAN]
          /\ disturbed'[p] = (disturbed[p] \/ Unlanded(p))
          /\ \A q \in Paths : q # p => disturbed'[q] = disturbed[q]
      <3>1. (disturbed[p] \/ Unlanded(p)) \in BOOLEAN
        OBVIOUS
      <3> QED BY <2>1, <2>2, <3>1 DEF FsIInv, FsTypeOK
    <2>6. upload_chunks' \in [Paths -> {Missing} \cup 0..(MaxChunks - 1)]
      BY <1>1 DEF FsIInv, FsTypeOK
    <2>7. FileOf(c)'
      BY <1>1, <2>1, <2>2, <2>3, <2>5, OpenEffect
    <2> QED BY <1>1, <2>1, <2>3, <2>4, <2>5, <2>6, <2>7, GoOnStep
  <1> QED BY <1>2, <1>3

LEMMA WriteChunkStep ==
    ASSUME FsIInv, NEW t \in tasks, WriteChunk(t)
    PROVE  FsIInv'
  <1> DEFINE c == t.client
  <1> DEFINE p == TargetOf[c]
  <1>1. PICK whole \in BOOLEAN :
          /\ writes' = writes \cup
               {[path |-> p, ino |-> t.ino, again |-> t.again,
                 bytes |-> [attempt |-> t.attempt, offset |-> t.offset, whole |-> whole]]}
          /\ Answer(t, whole)
    BY DEF WriteChunk
  <1> DEFINE bytes == [attempt |-> t.attempt, offset |-> t.offset, whole |-> whole]
  <1> DEFINE w == [path |-> p, ino |-> t.ino, again |-> t.again, bytes |-> bytes]
  <1>2. /\ t.pc = "write" /\ tasks' = tasks \ {t} /\ linked' = linked /\ dirs' = dirs
        /\ removing' = removing /\ file' = file /\ inodes' = inodes
        /\ upload_chunks' = upload_chunks /\ disturbed' = disturbed
    BY DEF WriteChunk
  <1>3. writes' = writes \cup {w}
    BY <1>1
  <1>4. /\ c \in Clients /\ p \in Paths /\ t.ino \in Nat /\ t.again \in BOOLEAN
        /\ t.attempt \in 1..MaxAttempts /\ t.offset \in 0..(MaxChunks - 1)
    BY TaskTyped DEF FsIInv
  <1>5. /\ bytes \in Bytes /\ bytes.attempt = t.attempt /\ bytes.offset = t.offset
        /\ bytes.whole = whole
    BY <1>4 DEF Bytes
  <1> HIDE DEF bytes
  <1>6. w \in Write /\ w.path = p /\ w.ino = t.ino /\ w.bytes = bytes
    BY <1>4, <1>5 DEF Write
  <1> HIDE DEF w
  <1>7. /\ client' \in [Clients -> Client]
        /\ \A d \in Clients : d # c => client'[d] = client[d]
        /\ client'[c] = client[c] \/ client'[c].state \in {"failed", "stored", "ready"}
    BY <1>1, <1>4, AnswerEffect
  <1>8. FsTypeOK'
    BY <1>2, <1>3, <1>6, <1>7 DEF FsIInv, FsTypeOK
  <1>9. InodesAgree'
    BY <1>2, <1>3, <1>6 DEF FsIInv, InodesAgree
  <1>10. RequestsAgree'
    BY <1>1, <1>2, EndStep
  <1>11. CancelSticks'
    <2> SUFFICES ASSUME NEW d \in Clients, client'[d].state = "cancelled",
                        ~client'[d].late
                 PROVE  file[TargetOf[d]] = NoFile
      BY <1>2 DEF CancelSticks
    <2>1. client'[d] = client[d]
      BY <1>7
    <2> QED BY <2>1 DEF FsIInv, CancelSticks
  <1>12. FilesAgree'
    <2>1. FileOf(c)'
      BY <1>1, <1>2, <1>3, <1>4, <1>5, <1>6, WriteEffect
    <2>2. \A q \in Paths : q # p => Pending(q)' = Pending(q)
      BY <1>2, <1>3, <1>6 DEF Pending
    <2>3. \A v \in tasks' : v.client # c => v \in tasks
      BY <1>2
    <2> QED BY <1>2, <1>4, <1>7, <2>1, <2>2, <2>3, OtherFiles
  <1> QED BY <1>8, <1>9, <1>10, <1>11, <1>12 DEF FsIInv, RequestsAgree

\* An append is done, or lost, or reaches an inode that has no name any more.
LEMMA LandStep ==
    ASSUME FsIInv, NEW w \in writes, Land(w)
    PROVE  FsIInv'
  <1> DEFINE p == w.path
  <1>1. /\ writes' = writes \ {w} /\ linked' = linked /\ dirs' = dirs
        /\ removing' = removing /\ inodes' = inodes /\ upload_chunks' = upload_chunks
        /\ tasks' = tasks /\ client' = client
    BY DEF Land
  <1>2. /\ w \in Write /\ p \in Paths /\ w.bytes \in Bytes
        /\ file \in [Paths -> [ino : Nat, data : Seq(Bytes)]]
        /\ disturbed \in [Paths -> BOOLEAN]
        /\ w.ino \in 1..inodes /\ inodes \in Nat
    BY DEF FsIInv, FsTypeOK, Write, InodesAgree
  <1>3. \/ file' = file /\ disturbed' = disturbed /\ file[p].ino # w.ino
        \/ /\ file[p].ino = w.ino /\ disturbed' = disturbed
           /\ file' = [file EXCEPT ![p].data = Append(file[p].data, w.bytes)]
        \/ /\ file[p].ino = w.ino /\ file' = file
           /\ disturbed' = [disturbed EXCEPT ![p] = TRUE]
    BY DEF Land
  <1>4. /\ file' \in [Paths -> [ino : Nat, data : Seq(Bytes)]]
        /\ disturbed' \in [Paths -> BOOLEAN]
        /\ \A q \in Paths : /\ q # p => file'[q] = file[q] /\ disturbed'[q] = disturbed[q]
                            /\ file'[q].ino = file[q].ino
                            /\ disturbed[q] => disturbed'[q]
                            /\ file[q] = NoFile => file'[q] = NoFile
    <2>1. CASE file' = file
      BY <1>2, <1>3, <2>1
    <2>2. CASE /\ file[p].ino = w.ino /\ disturbed' = disturbed
               /\ file' = [file EXCEPT ![p].data = Append(file[p].data, w.bytes)]
      <3>1. Append(file[p].data, w.bytes) \in Seq(Bytes)
        BY <1>2, AppendProperties
      <3>2. file[p] # NoFile
        BY <1>2, <2>2 DEF NoFile
      <3>3. file'[p] = [file[p] EXCEPT !.data = Append(file[p].data, w.bytes)]
        BY <1>2, <2>2
      <3> HIDE DEF p
      <3>4. file'[p] \in [ino : Nat, data : Seq(Bytes)] /\ file'[p].ino = file[p].ino
        BY <1>2, <3>1, <3>3
      <3>5. \A q \in Paths : q # p => file'[q] = file[q]
        BY <1>2, <2>2
      <3>6. file' \in [Paths -> [ino : Nat, data : Seq(Bytes)]]
        BY <1>2, <2>2, <3>4, <3>5
      <3> QED BY <1>2, <2>2, <3>2, <3>4, <3>5, <3>6
    <2> QED BY <1>3, <2>1, <2>2
  <1>5. FsTypeOK'
    BY <1>1, <1>4 DEF FsIInv, FsTypeOK
  <1>6. InodesAgree'
    <2>1. \A q \in Paths : file'[q].ino = 0 => file'[q].data = <<>>
      <3> SUFFICES ASSUME NEW q \in Paths, file'[q].ino = 0 PROVE file'[q].data = <<>>
        OBVIOUS
      <3>1. file[q].ino = 0 /\ file[q].data = <<>>
        BY <1>4 DEF FsIInv, InodesAgree
      <3>2. file'[q] = file[q]
        BY <1>2, <1>3, <1>4, <3>1
      <3> QED BY <3>1, <3>2
    <2> QED BY <1>1, <1>4, <2>1 DEF FsIInv, InodesAgree
  <1>7. RequestsAgree'
    BY <1>1, StillStep
  <1>8. CancelSticks'
    <2> SUFFICES ASSUME NEW d \in Clients, client[d].state = "cancelled", ~client[d].late
                 PROVE  file'[TargetOf[d]] = NoFile
      BY <1>1 DEF CancelSticks
    <2>1. TargetOf[d] \in Paths /\ file[TargetOf[d]] = NoFile
      BY FsAssumption DEF FsIInv, CancelSticks
    <2> QED BY <1>4, <2>1
  <1>9. FilesAgree'
    <2> SUFFICES ASSUME NEW d \in Clients PROVE FileOf(d)'
      BY DEF FilesAgree
    <2> DEFINE q == TargetOf[d]
    <2>1. q \in Paths /\ client'[d].attempt \in Nat
      BY <1>1, ClientTyped DEF FsIInv
    <2>2. CASE q # p \/ file[p].ino # w.ino
      <3>1. file'[q] = file[q] /\ disturbed'[q] = disturbed[q]
        BY <1>3, <1>4, <2>1, <2>2
      <3>2. Pending(q)' = Pending(q)
        BY <1>1, <2>2, <3>1 DEF Pending
      <3> QED BY <1>1, <2>1, <3>1, <3>2, FileKept
    <2>3. CASE q = p /\ file[p].ino = w.ino
      <3>1. CASE disturbed' = [disturbed EXCEPT ![p] = TRUE]
        <4>1. disturbed'[q]
          BY <1>2, <2>3, <3>1
        <4> QED BY <4>1 DEF FileOf, Clean
      <3>2. CASE /\ disturbed' = disturbed
                 /\ file' = [file EXCEPT ![p].data = Append(file[p].data, w.bytes)]
        <4>1. w \in Pending(q)
          BY <2>3 DEF Pending
        <4>2. file'[q] = [file[q] EXCEPT !.data = Append(file[q].data, w.bytes)]
          BY <1>2, <2>1, <2>3, <3>2
        <4> HIDE DEF q
        <4>3. file[q] \in [ino : Nat, data : Seq(Bytes)]
          BY <1>2, <2>1
        <4>4. file'[q].ino = file[q].ino /\ file'[q].data = Append(file[q].data, w.bytes)
          BY <4>2, <4>3
        <4> QED BY <1>1, <3>2, <4>1, <4>4, LandEffect DEF q
      <3> QED BY <1>3, <2>3, <3>1, <3>2
    <2> QED BY <2>2, <2>3
  <1> QED BY <1>5, <1>6, <1>7, <1>8, <1>9 DEF FsIInv, RequestsAgree

\* What a client does, the files untouched.
LEMMA RequestStep ==
    ASSUME FsIInv, NEW c \in Clients, linked' = linked, dirs' = dirs, removing' = removing,
           file' = file, inodes' = inodes, upload_chunks' = upload_chunks,
           writes' = writes, disturbed' = disturbed, tasks' \subseteq Task,
           \A t \in tasks' : t.client # c \/ t.pc = "write" => t \in tasks,
           client' \in [Clients -> Client], \A d \in Clients : d # c => client'[d] = client[d],
           client'[c].state # "cancelled", RequestsAgree', FileOf(c)'
    PROVE  FsIInv'
  <1>1. FsTypeOK'
    BY DEF FsIInv, FsTypeOK
  <1>2. InodesAgree'
    BY DEF FsIInv, InodesAgree
  <1>3. CancelSticks'
    BY DEF FsIInv, CancelSticks
  <1>4. FilesAgree'
    <2>1. \A q \in Paths : Pending(q)' = Pending(q)
      BY PendingKept
    <2> QED BY <2>1, OtherFiles
  <1> QED BY <1>1, <1>2, <1>3, <1>4 DEF FsIInv, RequestsAgree

LEMMA PutObjectStep ==
    ASSUME FsIInv, NEW c \in Clients, put_object(c)
    PROVE  FsIInv'
  <1>1. /\ client[c].state \in {"idle", "failed", "cancelled", "timedout"}
        /\ client[c].attempt < MaxAttempts
        /\ linked' = linked /\ dirs' = dirs /\ removing' = removing /\ file' = file
        /\ inodes' = inodes /\ upload_chunks' = upload_chunks /\ writes' = writes
        /\ disturbed' = disturbed
    BY DEF put_object
  <1>2. /\ client \in [Clients -> Client] /\ client[c] \in Client /\ tasks \subseteq Task
        /\ client[c].attempt \in Nat /\ client[c].late \in BOOLEAN /\ TargetOf[c] \in Paths
    BY ClientTyped DEF FsIInv, FsTypeOK
  <1>3. Pending(TargetOf[c])' = Pending(TargetOf[c])
    BY <1>1, PendingKept
  <1>4. CASE linked
    <2>1. PICK n \in 1..MaxChunks :
            /\ client' = [client EXCEPT
                    ![c] = [state |-> "waiting", attempt |-> client[c].attempt + 1,
                            size |-> n, next |-> 0, again |-> FALSE,
                            late |-> client[c].late]]
            /\ Send(c, 0, FALSE)
      BY <1>4 DEF put_object, get_root
    <2> DEFINE r == [state |-> "waiting", attempt |-> client[c].attempt + 1, size |-> n,
                     next |-> 0, again |-> FALSE, late |-> client[c].late]
    <2> DEFINE u == [client |-> c, attempt |-> client[c].attempt + 1, offset |-> 0,
                     is_last |-> 0 + 1 = n, stream_id |-> n > 1, again |-> FALSE,
                     ino |-> 0, pc |-> "create"]
    <2>2. /\ r \in Client /\ r.state = "waiting" /\ r.attempt = client[c].attempt + 1
          /\ r.size = n /\ r.next = 0 /\ r.again = FALSE /\ r.late = client[c].late
          /\ n \in Nat /\ n > 0 /\ r.attempt \in 1..MaxAttempts /\ r.attempt \in Nat
          /\ r.attempt > client[c].attempt
      BY <1>1, <1>2, FsAssumption DEF Client
    <2>3. client'[c] = r /\ \A d \in Clients : d # c => client'[d] = client[d]
      BY <1>2, <2>1
    <2>4. tasks' = tasks \cup {u}
      <3>1. client'[c].attempt = client[c].attempt + 1 /\ client'[c].size = n
        BY <2>2, <2>3
      <3> QED BY <2>1, <3>1 DEF Send
    <2>5. /\ u \in Task /\ u.client = c /\ u.attempt = r.attempt /\ u.offset = 0
          /\ u.again = FALSE /\ u.pc = "create" /\ (u.is_last <=> u.offset + 1 = n)
      <3>1. 0 \in 0..(MaxChunks - 1) /\ client[c].attempt + 1 \in 1..MaxAttempts
        BY <2>2, FsAssumption
      <3>2. (0 + 1 = n) \in BOOLEAN /\ (n > 1) \in BOOLEAN
        OBVIOUS
      <3>3. u \in Task
        BY <3>1, <3>2 DEF Task
      <3>4. u.is_last <=> 0 + 1 = n
        OBVIOUS
      <3> QED BY <2>2, <3>3, <3>4
    <2> HIDE DEF r, u
    <2>6. client' \in [Clients -> Client]
      BY <1>2, <2>1, <2>2 DEF r
    <2>7. RequestsAgree'
      BY <1>1, <1>2, <2>2, <2>3, <2>4, <2>5, <2>6, SendStep
    <2>8. FileOf(c)'
      BY <1>1, <1>2, <1>3, <2>2, <2>3, <2>4, <2>5, FileKept
    <2>9. tasks' \subseteq Task /\ \A t \in tasks' : t.client # c \/ t.pc = "write" => t \in tasks
      BY <1>2, <2>4, <2>5
    <2> QED BY <1>1, <2>2, <2>3, <2>6, <2>7, <2>8, <2>9, RequestStep
  <1>5. CASE ~linked
    <2>1. tasks' = tasks /\ client' = [client EXCEPT ![c].state = "failed"]
      BY <1>5 DEF put_object, get_root
    <2>2. /\ client'[c] = [client[c] EXCEPT !.state = "failed"]
          /\ \A d \in Clients : d # c => client'[d] = client[d]
      BY <1>2, <2>1
    <2>3. /\ client'[c] \in Client /\ client'[c].state = "failed"
          /\ client'[c].attempt = client[c].attempt /\ client'[c].size = client[c].size
          /\ client'[c].next = client[c].next /\ client'[c].again = client[c].again
          /\ client'[c].late = client[c].late
      BY <1>2, <2>2 DEF Client
    <2>4. client' \in [Clients -> Client]
      BY <1>2, <2>1, <2>3
    <2>5. RequestsAgree'
      BY <1>1, <2>1, <2>2, <2>3, <2>4, ClientStep
    <2>6. FileOf(c)'
      BY <1>1, <1>2, <1>3, <2>1, <2>3, FileKept
    <2> QED BY <1>1, <1>2, <2>1, <2>2, <2>3, <2>4, <2>5, <2>6, RequestStep
  <1> QED BY <1>4, <1>5

\* A chunk is sent, for the first or for the second time.
LEMMA ChunkStep ==
    ASSUME FsIInv, NEW c \in Clients, NEW again \in BOOLEAN,
           \/ ~again /\ client[c].state = "ready"
           \/ again /\ client[c].state = "timedout" /\ client[c].next > 0 /\ ~client[c].again,
           client' = [client EXCEPT ![c].state = "waiting", ![c].again = again],
           Send(c, client[c].next, again),
           linked' = linked, dirs' = dirs, removing' = removing, file' = file,
           inodes' = inodes, upload_chunks' = upload_chunks, writes' = writes,
           disturbed' = disturbed
    PROVE  FsIInv'
  <1> DEFINE k == client[c].next
  <1>1. /\ client \in [Clients -> Client] /\ client[c] \in Client /\ tasks \subseteq Task
        /\ client[c].attempt \in Nat /\ client[c].attempt \in 0..MaxAttempts
        /\ client[c].size \in 1..MaxChunks /\ client[c].size \in Nat
        /\ k \in 0..MaxChunks /\ k \in Nat
    BY ClientTyped DEF FsIInv, FsTypeOK
  <1>2. k > 0 /\ k < client[c].size
    <2>1. /\ k <= client[c].size /\ (client[c].state = "stored" <=> k = client[c].size)
          /\ client[c].state = "ready" => k > 0
      BY DEF FsIInv, ClientsAgree
    <2> QED BY <1>1, <2>1
  <1>3. /\ client'[c] = [client[c] EXCEPT !.state = "waiting", !.again = again]
        /\ \A d \in Clients : d # c => client'[d] = client[d]
    BY <1>1
  <1>4. /\ client'[c] \in Client /\ client'[c].state = "waiting"
        /\ client'[c].attempt = client[c].attempt /\ client'[c].size = client[c].size
        /\ client'[c].next = k /\ client'[c].again = again
        /\ client'[c].late = client[c].late
    BY <1>1, <1>3 DEF Client
  <1>5. client' \in [Clients -> Client]
    BY <1>1, <1>3, <1>4
  <1> DEFINE u == [client |-> c, attempt |-> client[c].attempt, offset |-> k,
                   is_last |-> k + 1 = client[c].size, stream_id |-> client[c].size > 1,
                   again |-> again, ino |-> 0, pc |-> "check"]
  <1>6. tasks' = tasks \cup {u}
    BY <1>1, <1>2, <1>4 DEF Send
  <1>7. client[c].attempt \in 1..MaxAttempts
    <2>1. client[c].attempt # 0
      BY <1>1, <1>2 DEF FsIInv, ClientsAgree
    <2> QED BY <1>1, <2>1, FsAssumption
  <1>8. /\ u \in Task /\ u.client = c /\ u.attempt = client[c].attempt /\ u.offset = k
        /\ u.again = again /\ u.pc = "check" /\ (u.is_last <=> u.offset + 1 = client[c].size)
    <2>1. k \in 0..(MaxChunks - 1)
      BY <1>1, <1>2, FsAssumption
    <2>2. (k + 1 = client[c].size) \in BOOLEAN /\ (client[c].size > 1) \in BOOLEAN
      OBVIOUS
    <2>3. u \in Task
      BY <1>7, <2>1, <2>2 DEF Task
    <2>4. u.is_last <=> k + 1 = client[c].size
      OBVIOUS
    <2> QED BY <2>3, <2>4
  <1> HIDE DEF u
  <1>9. RequestsAgree'
    BY <1>1, <1>2, <1>3, <1>4, <1>5, <1>6, <1>8, SendStep
  <1>10. FileOf(c)'
    BY <1>2, <1>4, <1>6, <1>8, ChunkEffect
  <1>11. tasks' \subseteq Task /\ \A t \in tasks' : t.client # c \/ t.pc = "write" => t \in tasks
    BY <1>1, <1>6, <1>8
  <1> QED BY <1>3, <1>4, <1>5, <1>9, <1>10, <1>11, RequestStep

LEMMA PutChunkStep ==
    ASSUME FsIInv, NEW c \in Clients, put_chunk(c)
    PROVE  FsIInv'
  <1>1. client[c].state = "ready" /\ client[c].again \in BOOLEAN /\ ~client[c].again
    BY ClientTyped DEF put_chunk, FsIInv, ClientsAgree
  <1>2. client \in [Clients -> Client] /\ client[c] \in Client
    BY DEF FsIInv, FsTypeOK
  <1>3. [client[c] EXCEPT !.state = "waiting"] =
          [client[c] EXCEPT !.state = "waiting", !.again = FALSE]
    BY <1>1, <1>2 DEF Client
  <1>4. client' = [client EXCEPT ![c].state = "waiting", ![c].again = FALSE]
    BY <1>2, <1>3 DEF put_chunk
  <1>5. Send(c, client[c].next, FALSE) /\ FALSE \in BOOLEAN
    BY DEF put_chunk
  <1> QED BY <1>1, <1>4, <1>5, ChunkStep DEF put_chunk

LEMMA PutChunkAgainStep ==
    ASSUME FsIInv, NEW c \in Clients, put_chunk_again(c)
    PROVE  FsIInv'
  <1>1. TRUE \in BOOLEAN
    OBVIOUS
  <1> QED BY <1>1, ChunkStep DEF put_chunk_again

LEMMA RpcTimeoutStep ==
    ASSUME FsIInv, NEW c \in Clients, RpcTimeout(c)
    PROVE  FsIInv'
  <1> DEFINE late == client[c].late \/ client[c].next = 0
  <1>1. /\ client[c].state = "waiting" /\ tasks' = tasks
        /\ client' = [client EXCEPT ![c].state = "timedout", ![c].late = late]
        /\ linked' = linked /\ dirs' = dirs /\ removing' = removing /\ file' = file
        /\ inodes' = inodes /\ upload_chunks' = upload_chunks /\ writes' = writes
        /\ disturbed' = disturbed
    BY DEF RpcTimeout
  <1>2. /\ client \in [Clients -> Client] /\ client[c] \in Client /\ tasks \subseteq Task
        /\ client[c].attempt \in Nat
    BY ClientTyped DEF FsIInv, FsTypeOK
  <1>3. late \in BOOLEAN /\ (client[c].late => late) /\ (client[c].next = 0 => late)
    BY <1>2 DEF Client
  <1> HIDE DEF late
  <1>4. /\ client'[c] = [client[c] EXCEPT !.state = "timedout", !.late = late]
        /\ \A d \in Clients : d # c => client'[d] = client[d]
    BY <1>1, <1>2
  <1>5. /\ client'[c] \in Client /\ client'[c].state = "timedout"
        /\ client'[c].attempt = client[c].attempt /\ client'[c].size = client[c].size
        /\ client'[c].next = client[c].next /\ client'[c].again = client[c].again
        /\ client'[c].late = late
    BY <1>2, <1>3, <1>4 DEF Client
  <1>6. client' \in [Clients -> Client]
    BY <1>1, <1>2, <1>4, <1>5
  <1>7. RequestsAgree'
    BY <1>1, <1>3, <1>4, <1>5, <1>6, ClientStep
  <1>8. FileOf(c)'
    <2>1. Pending(TargetOf[c])' = Pending(TargetOf[c])
      BY <1>1, PendingKept
    <2> QED BY <1>1, <1>2, <1>5, <2>1, FileKept
  <1> QED BY <1>1, <1>2, <1>4, <1>5, <1>6, <1>7, <1>8, RequestStep

\* Files vanish, and nothing else happens to them.
LEMMA FilesVanish ==
    ASSUME FsIInv, tasks' = tasks, inodes' = inodes, upload_chunks' = upload_chunks,
           writes' = writes, disturbed' = disturbed, linked' \in BOOLEAN,
           dirs' \subseteq Containers, removing' \subseteq Containers,
           client' \in [Clients -> Client],
           \A d \in Clients : /\ client'[d].attempt = client[d].attempt
                              /\ client'[d].size = client[d].size
                              /\ client'[d].next = client[d].next,
           file' \in [Paths -> [ino : Nat, data : Seq(Bytes)]],
           \A q \in Paths : file'[q] \in {file[q], NoFile},
           RequestsAgree', CancelSticks'
    PROVE  FsIInv'
  <1>1. FsTypeOK'
    BY DEF FsIInv, FsTypeOK
  <1>2. InodesAgree'
    <2>1. NoFile.ino = 0 /\ NoFile.data = <<>> /\ inodes \in Nat
      BY DEF NoFile, FsIInv, FsTypeOK
    <2> QED BY <2>1 DEF FsIInv, InodesAgree
  <1>3. FilesAgree'
    <2> SUFFICES ASSUME NEW d \in Clients PROVE FileOf(d)'
      BY DEF FilesAgree
    <2>1. TargetOf[d] \in Paths /\ client'[d].attempt \in Nat
      BY ClientTyped DEF FsIInv
    <2>2. CASE file'[TargetOf[d]] = NoFile
      BY <2>2 DEF FileOf, Clean
    <2>3. CASE file'[TargetOf[d]] = file[TargetOf[d]]
      <3>1. Pending(TargetOf[d])' = Pending(TargetOf[d])
        BY <2>3, PendingKept
      <3> QED BY <2>1, <2>3, <3>1, FileKept
    <2> QED BY <2>1, <2>2, <2>3
  <1> QED BY <1>1, <1>2, <1>3 DEF FsIInv, RequestsAgree

LEMMA NoFileTyped == NoFile \in [ino : Nat, data : Seq(Bytes)]
  BY EmptySeq DEF NoFile

LEMMA CancelAndRemoveStep ==
    ASSUME FsIInv, NEW c \in Clients, cancel_and_remove(c)
    PROVE  FsIInv'
  <1> DEFINE p == TargetOf[c]
  <1> DEFINE state == IF file[p] = NoFile THEN "failed" ELSE "cancelled"
  <1>1. /\ client[c].state \in {"ready", "failed", "timedout"} /\ tasks' = tasks
        /\ linked' = linked /\ dirs' = dirs /\ removing' = removing /\ inodes' = inodes
        /\ upload_chunks' = upload_chunks /\ writes' = writes /\ disturbed' = disturbed
    BY DEF cancel_and_remove
  <1>2. /\ client \in [Clients -> Client] /\ client[c] \in Client /\ p \in Paths
        /\ file \in [Paths -> [ino : Nat, data : Seq(Bytes)]]
    BY FsAssumption DEF FsIInv, FsTypeOK
  <1>3. client' = [client EXCEPT ![c].state = state]
    BY DEF cancel_and_remove
  <1>4. /\ file' \in [Paths -> [ino : Nat, data : Seq(Bytes)]] /\ file'[p] = NoFile
        /\ \A q \in Paths : file'[q] \in {file[q], NoFile}
    <2>1. file' = [file EXCEPT ![p] = NoFile]
      <3>1. CASE file[p] = NoFile
        <4>1. file' = file
          BY <3>1 DEF cancel_and_remove
        <4> QED BY <1>2, <3>1, <4>1
      <3>2. CASE file[p] # NoFile
        BY <3>2 DEF cancel_and_remove
      <3> QED BY <3>1, <3>2
    <2> QED BY <1>2, <2>1, NoFileTyped
  <1>5. state \in {"failed", "cancelled"}
    OBVIOUS
  <1> HIDE DEF state
  <1>6. /\ client'[c] = [client[c] EXCEPT !.state = state]
        /\ \A d \in Clients : d # c => client'[d] = client[d]
    BY <1>2, <1>3
  <1>7. /\ client'[c] \in Client /\ client'[c].state = state
        /\ client'[c].attempt = client[c].attempt /\ client'[c].size = client[c].size
        /\ client'[c].next = client[c].next /\ client'[c].again = client[c].again
        /\ client'[c].late = client[c].late
    BY <1>2, <1>5, <1>6 DEF Client
  <1>8. client' \in [Clients -> Client]
    BY <1>2, <1>3, <1>6, <1>7
  <1>9. RequestsAgree'
    BY <1>1, <1>5, <1>6, <1>7, <1>8, ClientStep
  <1>10. CancelSticks'
    <2> SUFFICES ASSUME NEW d \in Clients, client'[d].state = "cancelled",
                        ~client'[d].late
                 PROVE  file'[TargetOf[d]] = NoFile
      BY DEF CancelSticks
    <2>1. CASE d = c
      BY <1>4, <2>1
    <2>2. CASE d # c
      <3>1. file[TargetOf[d]] = NoFile /\ TargetOf[d] \in Paths
        BY <1>6, <2>2, FsAssumption DEF FsIInv, CancelSticks
      <3> QED BY <1>4, <3>1
    <2> QED BY <2>1, <2>2
  <1>11. \A d \in Clients : /\ client'[d].attempt = client[d].attempt
                            /\ client'[d].size = client[d].size
                            /\ client'[d].next = client[d].next
    BY <1>6, <1>7
  <1>12. linked' \in BOOLEAN /\ dirs' \subseteq Containers /\ removing' \subseteq Containers
    BY <1>1 DEF FsIInv, FsTypeOK
  <1> QED BY <1>1, <1>4, <1>8, <1>9, <1>10, <1>11, <1>12, FilesVanish

\* The link, directories and removals: no client and no handler moves.
LEMMA DirectoryStep ==
    ASSUME FsIInv,
           \/ put_link
           \/ \E k \in Containers :
                create_container(k) \/ remove_containers(k) \/ RemoveDir(k)
           \/ \E p \in Paths : remove_objects(p)
    PROVE  FsIInv'
  <1>1. /\ tasks' = tasks /\ client' = client /\ inodes' = inodes
        /\ upload_chunks' = upload_chunks /\ writes' = writes /\ disturbed' = disturbed
    BY DEF put_link, create_container, remove_containers, RemoveDir, remove_objects
  <1>2. /\ linked' \in BOOLEAN /\ dirs' \subseteq Containers
        /\ removing' \subseteq Containers
    BY DEF put_link, create_container, remove_containers, RemoveDir, remove_objects,
           FsIInv, FsTypeOK
  <1>3. /\ client \in [Clients -> Client]
        /\ file \in [Paths -> [ino : Nat, data : Seq(Bytes)]]
    BY DEF FsIInv, FsTypeOK
  <1>4. /\ file' \in [Paths -> [ino : Nat, data : Seq(Bytes)]]
        /\ \A q \in Paths : file'[q] \in {file[q], NoFile}
    <2>1. CASE file' = file
      BY <1>3, <2>1
    <2>2. CASE \E p \in Paths : remove_objects(p)
      BY <1>3, <2>2, NoFileTyped DEF remove_objects
    <2>3. CASE \E k \in Containers : remove_containers(k)
      BY <1>3, <2>3, NoFileTyped DEF remove_containers
    <2> QED BY <2>1, <2>2, <2>3 DEF put_link, create_container, RemoveDir
  <1>5. RequestsAgree'
    BY <1>1, StillStep
  <1>6. CancelSticks'
    <2> SUFFICES ASSUME NEW d \in Clients, client[d].state = "cancelled", ~client[d].late
                 PROVE  file'[TargetOf[d]] = NoFile
      BY <1>1 DEF CancelSticks
    <2>1. TargetOf[d] \in Paths /\ file[TargetOf[d]] = NoFile
      BY FsAssumption DEF FsIInv, CancelSticks
    <2> QED BY <1>4, <2>1
  <1> QED BY <1>1, <1>2, <1>3, <1>4, <1>5, <1>6, FilesVanish

-----------------------------------------------------------------------------
(* The theorems *)

LEMMA NextIInv == FsIInv /\ [FsNext]_fsvars => FsIInv'
  <1> SUFFICES ASSUME FsIInv, [FsNext]_fsvars PROVE FsIInv'
    OBVIOUS
  <1>1. CASE UNCHANGED fsvars
    <2>1. /\ tasks' = tasks /\ client' = client /\ inodes' = inodes
          /\ upload_chunks' = upload_chunks /\ writes' = writes /\ disturbed' = disturbed
          /\ file' = file /\ linked' = linked /\ dirs' = dirs /\ removing' = removing
      BY <1>1 DEF fsvars
    <2>2. /\ linked' \in BOOLEAN /\ dirs' \subseteq Containers
          /\ removing' \subseteq Containers /\ client' \in [Clients -> Client]
          /\ file' \in [Paths -> [ino : Nat, data : Seq(Bytes)]]
      BY <2>1 DEF FsIInv, FsTypeOK
    <2>3. RequestsAgree' /\ CancelSticks'
      BY <2>1, StillStep DEF FsIInv, CancelSticks
    <2> QED BY <2>1, <2>2, <2>3, FilesVanish
  <1>2. ASSUME NEW t \in tasks, Step(t) PROVE FsIInv'
    BY <1>2, CreateFileStep, InsertOffsetStep, CheckOffsetStep, OpenFileStep,
       WriteChunkStep DEF Step
  <1>3. ASSUME NEW w \in writes, Land(w) PROVE FsIInv'
    BY <1>3, LandStep
  <1>4. ASSUME NEW c \in Clients,
               \/ put_object(c) \/ put_chunk(c) \/ put_chunk_again(c)
               \/ RpcTimeout(c) \/ cancel_and_remove(c)
        PROVE  FsIInv'
    BY <1>4, PutObjectStep, PutChunkStep, PutChunkAgainStep, RpcTimeoutStep,
       CancelAndRemoveStep
  <1> QED BY <1>1, <1>2, <1>3, <1>4, DirectoryStep DEF FsNext

LEMMA FsInvariance == FsSpec => []FsIInv
  BY InitFsIInv, NextIInv, PTL DEF FsSpec

LEMMA KeptInOrder == FsIInv => InOrderUnlessDisturbed
  <1> SUFFICES ASSUME FsIInv, NEW p \in Paths, ~disturbed[p] PROVE Ordered(file[p].data)
    BY DEF FsIInv, InOrderUnlessDisturbed
  <1>1. CASE file[p] = NoFile
    <2>1. file[p].data = <<>>
      BY <1>1 DEF NoFile
    <2> QED BY <2>1 DEF Ordered
  <1>2. CASE file[p] # NoFile
    <2>1. PICK c \in Clients : TargetOf[c] = p
      BY <1>2 DEF FsIInv, InodesAgree
    <2> QED BY <1>2, <2>1 DEF FsIInv, FilesAgree, FileOf, Clean, ContentOf
  <1> QED BY <1>1, <1>2

LEMMA StoredIsWhole == FsIInv => AckedIsWhole
  <1> SUFFICES ASSUME FsIInv, NEW c \in Clients, NEW p, p = TargetOf[c],
                      client[c].state = "stored",
                      file[p] # NoFile, ~disturbed[p], ~Unlanded(p)
               PROVE  WholeOnDisk(c)
    BY DEF AckedIsWhole
  <1> DEFINE data == file[p].data
  <1>1. PICK g \in 1..MaxAttempts : ContentOf(c, g)
    BY DEF FsIInv, FilesAgree, FileOf, Clean
  <1>2. /\ client[c].next = client[c].size /\ client[c].size \in Nat
        /\ client[c].size > 0 /\ p \in Paths
    BY ClientTyped, FsAssumption DEF FsIInv, ClientsAgree
  <1>3. Len(data) \in Nat
    BY <1>2, FileTyped DEF FsIInv
  <1>4. Pending(p) = {}
    BY DEF Pending, Unlanded
  <1>5. g = client[c].attempt /\ WrittenUpTo(p, client[c].size) /\ Len(data) <= client[c].size
    BY <1>1, <1>2 DEF ContentOf
  <1>6. Len(data) = client[c].size /\ data[Len(data)].whole
    BY <1>2, <1>3, <1>4, <1>5 DEF WrittenUpTo
  <1>7. \A i \in 1..Len(data) : data[i].whole /\ data[i].attempt = client[c].attempt
    <2> TAKE i \in 1..Len(data)
    <2>1. i = Len(data) \/ i < Len(data)
      BY <1>3
    <2> QED BY <1>1, <1>5, <1>6, <2>1 DEF ContentOf, Ordered
  <1> QED BY <1>6, <1>7 DEF WholeOnDisk

\* "Stores a file chunk in right order" (main.rs 151): however handlers, resends,
\* timeouts, short writes, removals and the blocking pool interleave, a file
\* holds the chunks 0, 1, 2, ... of one upload, unless an append was overtaken
\* or lost or two uploads of it overlapped.
THEOREM ChunksStayInOrder == FsSpec => []InOrderUnlessDisturbed
  BY FsInvariance, KeptInOrder, PTL

\* A client told that its last chunk is stored has its whole object in the
\* file, or all but one append that is still to land, unless the object was
\* removed or the file disturbed.
THEOREM AcknowledgedIsWhole == FsSpec => []AckedIsWhole
  BY FsInvariance, StoredIsWhole, PTL

\* After a cancel_and_remove that was answered, no chunk still on its way
\* brings the object back, unless a put_object timed out.
THEOREM CancelledStaysGone == FsSpec => []CancelSticks
  <1>1. FsIInv => CancelSticks
    BY DEF FsIInv
  <1> QED BY <1>1, FsInvariance, PTL

\* get_object serves exactly the bytes of a range that the object has, says
\* truly whether any follow, and loses nothing between two adjoining ranges.
THEOREM RangesAreServed == FsSpec => []RangeServed
  <1>1. FsIInv => RangeServed
    BY TypedIsServed DEF FsIInv
  <1> QED BY <1>1, FsInvariance, PTL

=============================================================================
