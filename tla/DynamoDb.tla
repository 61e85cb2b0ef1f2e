------------------------------ MODULE DynamoDb ------------------------------
(***************************************************************************)
(* The DynamoDB provider (sqldb-dynamodb): one SDK client per linked       *)
(* actor.  put_link writes the lines of the link's env file into the       *)
(* environment of the process, which all links share, reads the settings   *)
(* back from there, and builds the client; nothing keeps two put_link      *)
(* calls from doing so at the same time, or a client from looking up its   *)
(* keys after another link has set them.                                   *)
(*                                                                         *)
(* No lock of the map is held over an await, so that a step under the lock *)
(* is one action.  External: the credentials chain reads the environment   *)
(* with the first request and keeps what it found; DynamoDB answers.       *)
(***************************************************************************)
EXTENDS AwsConfig, FiniteSets

CONSTANTS
    Actors,
    Links,          \* bound: one per put_link call
    Calls,          \* execute and query calls at work at the same time
    LinkValues,     \* the values link definitions come with
    Environment,    \* what the provider process starts with
    ParameterEnds,  \* ways convert_parameters ends: ok, error, panic
    RowEnds         \* ways convert_rows ends

ASSUME DynamoDbAssumption ==
    /\ None \notin Links
    /\ Environment = [x \in Vars |-> Environment[x]]
    /\ \A v \in LinkValues :
         "env" \in DOMAIN v =>
           LET lines == v["env"].lines IN lines \in Seq({lines[i] : i \in DOMAIN lines})
    /\ \A v \in LinkValues :   \* sts_config has a role, or there is none
         parse(v) # None /\ parse(v).config.role = None =>
           \A f \in StsFields : parse(v).config[f] = None
    /\ ParameterEnds \cup RowEnds \subseteq {"ok", "error", "panic"}

VARIABLES
    actors,   \* the map: actor -> the link whose client it has, or None
    env,      \* the environment of the process
    link,     \* every link definition put, and its client
    call      \* execute and query calls

vars == <<actors, env, link, call>>

Stages == {"unused", "setting", "reading", "configuring", "ready", "linked", "dropped",
           "closed"}
LineValues(v) == {v["env"].lines[i].value : i \in DOMAIN v["env"].lines}
Value == (UNION {LineValues(v) : v \in {w \in LinkValues : "env" \in DOMAIN w}})
         \cup {Environment[x] : x \in Vars} \cup {None}

Init ==
    /\ actors = [a \in Actors |-> None]
    /\ env = Environment
    /\ link = [k \in Links |->
                 [stage |-> "unused", actor |-> None, values |-> None, lines |-> <<>>,
                  at |-> 1, config |-> StorageConfigDefault, found |-> None,
                  before |-> None, alone |-> TRUE, last |-> TRUE]]
    /\ call = [q \in Calls |-> [via |-> None, answer |-> "none"]]

-----------------------------------------------------------------------------
(* put_link.  before, alone and last are history: the environment it        *)
(* started with, whether no other put_link was at work meanwhile, and       *)
(* whether none has begun since.                                            *)

AtWork(k) == link[k].stage \in {"setting", "reading", "configuring"}

Alone(k) == \A j \in Links \ {k} : ~AtWork(j)

put_link(k, a, v) ==
    LET p == parse(v)
        begun == [link EXCEPT ![k] =
            [@ EXCEPT !.stage = IF p = None THEN "closed" ELSE "setting",
                      !.actor = a, !.values = v,
                      !.lines = IF p = None THEN <<>> ELSE p.lines,
                      !.config = IF p = None THEN StorageConfigDefault ELSE p.config,
                      !.before = env, !.alone = Alone(k), !.last = TRUE]]
    IN
    /\ link[k].stage = "unused"
    /\ link' = IF p = None THEN begun
               ELSE [j \in Links |->
                       IF j = k THEN begun[j]
                       ELSE [begun[j] EXCEPT !.alone = @ /\ ~AtWork(j), !.last = FALSE]]
    /\ UNCHANGED <<actors, env, call>>

\* parse_and_set: one line of the env file.
set_var(k) ==
    /\ link[k].stage = "setting"
    /\ IF link[k].lines = <<>>
       THEN link' = [link EXCEPT ![k].stage = "reading"] /\ UNCHANGED env
       ELSE LET line == Head(link[k].lines) IN
            /\ env' = [env EXCEPT ![line.key] = line.value]
            /\ link' = [link EXCEPT ![k].lines = Tail(@)]
    /\ UNCHANGED <<actors, call>>

\* env::var of the next variable.
env_var(k) ==
    LET i == link[k].at
        value == env[EnvReads[i]]
        n == NextRead(i, value)
    IN
    /\ link[k].stage = "reading"
    /\ link' = [link EXCEPT ![k].config = Override(@, EnvReads[i], value),
                            ![k].at = IF n > Len(EnvReads) THEN 1 ELSE n,
                            ![k].stage = IF n > Len(EnvReads) THEN "configuring" ELSE @]
    /\ UNCHANGED <<actors, env, call>>

\* SqlDbClient::new.
new(k) ==
    /\ link[k].stage = "configuring"
    /\ link' = [link EXCEPT ![k].config = configure_aws(@, env), ![k].stage = "ready"]
    /\ UNCHANGED <<actors, env, call>>

Dropped(D) == [k \in Links |->
                 IF k \in D THEN [link[k] EXCEPT !.stage = "dropped"] ELSE link[k]]

MutInsertKeeps(k) ==
    /\ link[k].stage = "ready"
    /\ actors' = [actors EXCEPT ![link[k].actor] = IF @ = None THEN k ELSE @]
    /\ link' = [link EXCEPT ![k].stage = "linked"]
    /\ UNCHANGED <<env, call>>

insert(k) ==
    LET a == link[k].actor IN
    /\ link[k].stage = "ready"
    /\ actors' = [actors EXCEPT ![a] = k]
    /\ link' = [Dropped({actors[a]}) EXCEPT ![k].stage = "linked"]
    /\ UNCHANGED <<env, call>>

delete_link(a) ==
    /\ actors[a] # None
    /\ actors' = [actors EXCEPT ![a] = None]
    /\ link' = Dropped({actors[a]})
    /\ UNCHANGED <<env, call>>

shutdown ==
    /\ \E a \in Actors : actors[a] # None
    /\ actors' = [a \in Actors |-> None]
    /\ link' = Dropped({actors[a] : a \in Actors})
    /\ UNCHANGED <<env, call>>

\* The last clone of a client is gone.
Close(k) ==
    /\ link[k].stage = "dropped"
    /\ \A q \in Calls : call[q].via # k
    /\ link' = [link EXCEPT ![k].stage = "closed"]
    /\ UNCHANGED <<actors, env, call>>

-----------------------------------------------------------------------------
(* execute and query. *)

Answer(q, end) == call' = [call EXCEPT ![q] = [via |-> None, answer |-> end]]

\* A clone of the client is taken, the parameters are converted.
execute(q, a) ==
    /\ call[q].via = None
    /\ IF actors[a] = None THEN Answer(q, "error")
       ELSE \E end \in ParameterEnds :
              IF end = "ok"
              THEN call' = [call EXCEPT ![q] = [via |-> actors[a], answer |-> "none"]]
              ELSE Answer(q, end)
    /\ UNCHANGED <<actors, env, link>>

Keys(e) == <<e["AWS_ACCESS_KEY_ID"], e["AWS_SECRET_ACCESS_KEY"]>>

\* The first request of a client looks up the keys it was not given.
find_keys(q) ==
    LET k == call[q].via IN
    /\ k # None
    /\ link[k].config.access_key_id = None /\ link[k].found = None
    /\ link' = [link EXCEPT ![k].found = Keys(env)]
    /\ UNCHANGED <<actors, env, call>>

\* DynamoDB answers, with an error or with rows that are converted.
respond(q) ==
    LET k == call[q].via IN
    /\ k # None
    /\ link[k].config.access_key_id # None \/ link[k].found # None
    /\ \E end \in RowEnds \cup {"error"} : Answer(q, end)
    /\ UNCHANGED <<actors, env, link>>

Next ==
    \/ \E k \in Links :
         \/ \E a \in Actors, v \in LinkValues : put_link(k, a, v)
         \/ set_var(k) \/ env_var(k) \/ new(k) \/ insert(k) \/ Close(k)
    \/ \E a \in Actors : delete_link(a)
    \/ shutdown
    \/ \E q \in Calls :
         \/ \E a \in Actors : execute(q, a)
         \/ find_keys(q) \/ respond(q)

Spec == Init /\ [][Next]_vars

-----------------------------------------------------------------------------
(* Properties *)

\* Type invariant of the map, the environment and the links.
TypeOK ==
    /\ actors \in [Actors -> Links \cup {None}]
    /\ env \in [Vars -> Value]
    /\ \A k \in Links :
         /\ link[k].stage \in Stages /\ link[k].actor \in Actors \cup {None}
         /\ link[k].at \in DOMAIN EnvReads /\ link[k].alone \in BOOLEAN
         /\ DOMAIN link[k].config = Fields
    /\ \A q \in Calls : /\ call[q].via \in Links \cup {None}
                        /\ call[q].answer \in {"none", "ok", "error", "panic"}

\* A link that was put while no other put_link was at work has the settings its
\* document, its own env file and the environment before it add up to: what was
\* left half set or half read by earlier links, or set by later ones, does not
\* show.  Keys the document does not give are those of the env file, unless
\* another link was put before the first request (config.rs 51-91 and 93-154).
OwnSettings ==
    /\ TypeOK
    /\ \A k \in Links :
         link[k].stage \in {"ready", "linked", "dropped"} /\ link[k].alone =>
             /\ link[k].config = Layered(link[k].values, link[k].before)
             /\ link[k].last /\ link[k].found # None =>
                  link[k].found = Keys(After(link[k].before, parse(link[k].values).lines))

\* Refinement mapping: the client is the resource of LinkResources.
phase == [k \in Links |->
            CASE link[k].stage = "unused" -> "unused"
              [] AtWork(k) \/ link[k].stage = "ready" -> "opening"
              [] link[k].stage = "linked" -> "open"
              [] link[k].stage = "dropped" -> "closing"
              [] link[k].stage = "closed" -> "closed"]

LinkClients == INSTANCE LinkResources WITH Resources <- Links, NoResource <- None,
                  current <- actors, owner <- [k \in Links |-> link[k].actor]

\* The provider implements LinkResources: a client is replaced, unlinked and let
\* go as LinkResources says (main.rs 54-82).
LinksKept == LinkClients!LSpec
=============================================================================
