----------------------------- MODULE HttpServer -----------------------------
(***************************************************************************)
(* The HTTP server provider (httpserver-rs): one warp server per link,     *)
(* kept in a DashMap from actor to HttpServerCore (bin/main.rs).  put_link *)
(* binds and spawns the server first and inserts it afterwards; taking a   *)
(* core out of the map, or replacing it, drops it, and Drop puts a message *)
(* into the core's own bounded(1) shutdown channel.  The server future     *)
(* waits for that message, closes its listener and lets the requests it    *)
(* has accepted finish.                                                    *)
(*                                                                         *)
(* External: the OS gives an address to one listener at a time; hyper      *)
(* drops the listener when the shutdown future ends, then drains.          *)
(***************************************************************************)
EXTENDS HttpSettings

CONSTANTS
    Actors,
    Addrs,       \* socket addresses a link can ask for
    LinkValues,  \* the values link definitions come with
    Inputs,      \* the values SettingsLayered is about
    Servers,     \* bound: one HttpServerCore per put_link call
    Requests     \* bound: HTTP requests of one behaviour

ASSUME HttpAssumption == None \notin Servers

\* Addrs covers the addresses the link values ask for.
ASSUME LinkValuesAssumption ==
    \A v \in LinkValues : load_settings(v) # None =>
        load_settings(v).address \in Addrs /\ load_settings(v).readonly_mode \in BOOLEAN

ASSUME InputsAssumption ==
    /\ \A f \in CorsFields : ServiceSettingsDefault[f] # None
    /\ \A v \in Inputs : WellFormed(v)

VARIABLES
    actors,      \* the map: actor -> server, or None
    server,      \* every core ever made, with its channel and its listener
    starting,    \* put_link calls between start() and insert()
    request      \* HTTP requests

vars == <<actors, server, starting, request>>

Stages == {"unused", "listening", "draining", "stopped"}
Server == [stage : Stages, actor : Actors \cup {None}, addr : Addrs \cup {None},
           readonly : BOOLEAN,
           channel : {0, 1}]   \* messages in the bounded(1) shutdown channel
Statuses == {"none", "calling", "from actor", "405", "500", "503"}
Request == [status : Statuses, server : Servers \cup {None}]

Init ==
    /\ actors = [a \in Actors |-> None]
    /\ server = [s \in Servers |-> [stage |-> "unused", actor |-> None, addr |-> None,
                                    readonly |-> FALSE, channel |-> 0]]
    /\ starting = {}
    /\ request = [r \in Requests |-> [status |-> "none", server |-> None]]

Taken(addr) == \E s \in Servers : server[s].stage = "listening" /\ server[s].addr = addr

-----------------------------------------------------------------------------
(* The provider's handlers. *)

\* Drop, and begin_shutdown: try_send on a channel of one message.
Dropped(S) == [s \in Servers |->
                 IF s \in S THEN [server[s] EXCEPT !.channel = 1] ELSE server[s]]

Core(stage, a, settings, channel) ==
    [stage |-> stage, actor |-> a, channel |-> channel,
     addr |-> IF settings = None THEN None ELSE settings.address,
     readonly |-> IF settings = None THEN FALSE ELSE settings.readonly_mode]

MutStopOldFirst(s, a, v) ==
    LET settings == load_settings(v)
        ok == settings # None /\ ~Taken(settings.address)
    IN
    /\ server[s].stage = "unused"
    /\ server' = [Dropped({actors[a]}) EXCEPT
           ![s] = IF ok THEN Core("listening", a, settings, 0)
                        ELSE Core("stopped", a, settings, 1)]
    /\ starting' = IF ok THEN starting \cup {s} ELSE starting
    /\ UNCHANGED <<actors, request>>

\* load_settings, HttpServerCore::new and start: the address is bound and the
\* server spawned, or put_link fails (bad settings, bad CORS, address in use;
\* for TLS the failed bind is a panic) and the core it made is dropped.
start(s, a, v) ==
    LET settings == load_settings(v)
    IN
    /\ server[s].stage = "unused"
    /\ \/ /\ settings # None /\ cors_filter(settings) # None
          /\ ~Taken(settings.address)
          /\ server' = [server EXCEPT ![s] = Core("listening", a, settings, 0)]
          /\ starting' = starting \cup {s}
       \/ /\ settings # None /\ cors_filter(settings) # None => Taken(settings.address)
          /\ server' = [server EXCEPT ![s] = Core("stopped", a, settings, 1)]
          /\ UNCHANGED starting
    /\ UNCHANGED <<actors, request>>

\* put_link's last step; the core that was in the map is dropped.
insert(s) ==
    /\ s \in starting
    /\ actors' = [actors EXCEPT ![server[s].actor] = s]
    /\ server' = Dropped({actors[server[s].actor]})
    /\ starting' = starting \ {s}
    /\ UNCHANGED request

MutDeleteKeepsRunning(a) ==
    /\ actors[a] # None
    /\ actors' = [actors EXCEPT ![a] = None]
    /\ UNCHANGED <<server, starting, request>>

delete_link(a) ==
    /\ actors[a] # None
    /\ actors' = [actors EXCEPT ![a] = None]
    /\ server' = Dropped({actors[a]})
    /\ UNCHANGED <<starting, request>>

MutShutdownKeepsMap ==
    /\ \E a \in Actors : actors[a] # None
    /\ server' = Dropped({actors[a] : a \in Actors})
    /\ UNCHANGED <<actors, starting, request>>

\* actors.clear().
shutdown ==
    /\ \E a \in Actors : actors[a] # None
    /\ actors' = [a \in Actors |-> None]
    /\ server' = Dropped({actors[a] : a \in Actors})
    /\ UNCHANGED <<starting, request>>

-----------------------------------------------------------------------------
(* The spawned server. *)

\* recv_async yields: the listener is closed.
CloseListener(s) ==
    /\ server[s].stage = "listening" /\ server[s].channel = 1
    /\ server' = [server EXCEPT ![s].stage = "draining", ![s].channel = 0]
    /\ UNCHANGED <<actors, starting, request>>

Drained(s) ==
    /\ server[s].stage = "draining"
    /\ \A r \in Requests : ~(request[r].status = "calling" /\ request[r].server = s)
    /\ server' = [server EXCEPT ![s].stage = "stopped"]
    /\ UNCHANGED <<actors, starting, request>>

\* A request comes in.  A server whose settings say readonly_mode refuses any
\* method but GET and HEAD outright; otherwise the actor is called.
Accept(r, s) ==
    /\ request[r].status = "none" /\ server[s].stage = "listening"
    /\ \E method \in {"GET", "HEAD", "POST"} :
         request' = [request EXCEPT
             ![r] = [server |-> s,
                     status |-> IF server[s].readonly /\ method \notin {"GET", "HEAD"}
                                THEN "405" ELSE "calling"]]
    /\ UNCHANGED <<actors, server, starting>>

\* The status for what call_actor returned.
StatusOf(result) == CASE result = "ok" -> "from actor"
                      [] result = "bad status code" -> "500"
                      [] result = "timeout" -> "503"
                      [] result = "error" -> "500"

MutAbandon(r) ==
    /\ request[r].status = "calling"
    /\ server[request[r].server].stage = "listening"
    /\ \E result \in {"ok", "bad status code", "timeout", "error"} :
         request' = [request EXCEPT ![r].status = StatusOf(result)]
    /\ UNCHANGED <<actors, server, starting>>

\* call_actor returns, at the latest when the RPC times out.
call_actor(r) ==
    /\ request[r].status = "calling"
    /\ \E result \in {"ok", "bad status code", "timeout", "error"} :
         request' = [request EXCEPT ![r].status = StatusOf(result)]
    /\ UNCHANGED <<actors, server, starting>>

-----------------------------------------------------------------------------
Next ==
    \/ \E s \in Servers :
         \/ \E a \in Actors, v \in LinkValues : start(s, a, v)
         \/ insert(s) \/ CloseListener(s) \/ Drained(s)
         \/ \E r \in Requests : Accept(r, s)
    \/ \E a \in Actors : delete_link(a)
    \/ \E r \in Requests : call_actor(r)
    \/ shutdown

\* The executor runs the spawned servers and the handlers it has begun; the
\* actor call has a time limit.
Fairness ==
    /\ \A s \in Servers : WF_vars(insert(s)) /\ WF_vars(CloseListener(s))
                            /\ WF_vars(Drained(s))
    /\ \A r \in Requests : WF_vars(call_actor(r))

Spec == Init /\ [][Next]_vars /\ Fairness

-----------------------------------------------------------------------------
(* Properties *)

\* Type invariant of the provider's map, its servers and their channels.
TypeOK ==
    /\ actors \in [Actors -> Servers \cup {None}]
    /\ server \in [Servers -> Server]
    /\ starting \subseteq Servers
    /\ request \in [Requests -> Request]

\* The entry of an actor is a server of that actor which listens and has not
\* been told to stop: replacing, deleting or failing to put some other link
\* never takes the port of this one ("only the first link definition for that
\* port will succeed", httpserver-rs/README.md).
MappedServes ==
    \A a \in Actors : actors[a] # None =>
        LET s == server[actors[a]] IN
        s.actor = a /\ s.stage = "listening" /\ s.channel = 0

\* A listener that nobody told to stop is in the map, or its put_link has not
\* ended: no server outlives the link it was started for, whatever the order
\* of put_link, delete_link and shutdown.
NoOrphan ==
    \A s \in Servers :
        server[s].stage = "listening" /\ server[s].channel = 0
          => s \in starting \/ actors[server[s].actor] = s

\* A server that is not, or no longer, in the map and not about to enter it
\* stops, and so gives its address back.
UnlinkedStops ==
    \A s \in Servers :
        /\ server[s].stage # "unused" /\ s \notin starting
        /\ \A a \in Actors : actors[a] # s
        ~> server[s].stage = "stopped"

\* An accepted request is answered, even when its link goes away meanwhile.
AcceptedAnswered ==
    \A r \in Requests : request[r].status = "calling" ~> request[r].status # "calling"

\* Every server is accounted for, from start() until its listener is closed:
\* an actor's entry serves (MappedServes) and a server that serves has an entry
\* or is about to get one (NoOrphan).
ServersAccounted == TypeOK /\ MappedServes /\ NoOrphan

\* load_settings layers its sources, for all Inputs: the last source that says
\* something about a setting decides it (settings.rs 150-282).  The inputs are
\* the values the first link may come with, so they are looked at while there
\* has been no link.
SettingsLayered ==
    (\A s \in Servers : server[s].stage = "unused") => \A v \in Inputs : LayeredFor(v)

\* Refinement mapping: a listener is the resource of LinkResources.
phase == [s \in Servers |->
            IF server[s].stage = "unused" THEN "unused"
            ELSE IF server[s].stage = "stopped" THEN "closed"
            ELSE IF s \in starting THEN "opening"
            ELSE IF server[s].stage = "listening" /\ server[s].channel = 0 THEN "open"
            ELSE "closing"]

Links == INSTANCE LinkResources WITH Resources <- Servers, NoResource <- None,
            current <- actors, owner <- [s \in Servers |-> server[s].actor]

\* The provider implements LinkResources: what put_link, delete_link and
\* shutdown do to the listener of an actor, and to no other (bin/main.rs 47-82).
LinksKept == Links!LSpec
=============================================================================
