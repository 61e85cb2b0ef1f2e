----------------------------- MODULE AwsConfig -----------------------------
(***************************************************************************)
(* The AWS settings of a link (config.rs of sqldb-dynamodb; the file of    *)
(* blobstore-s3 has the same code): a document in the link values, an env  *)
(* file the link values name, and the environment of the provider process. *)
(*                                                                         *)
(* A document is [parses, given], with the fields it gives; an env file is *)
(* [readable, lines]; the environment maps every variable to its value or  *)
(* None.  sts_config is flattened: there is one if role is given, and role *)
(* is the one field of it that must be.  The session token goes with the   *)
(* keys, and max_attempts is left out.                                     *)
(***************************************************************************)
EXTENDS Naturals, Sequences

CONSTANTS None

StsFields == {"role", "role_region", "session", "external_id"}
Fields == {"access_key_id", "secret_access_key", "region", "endpoint"} \cup StsFields

StorageConfigDefault == [f \in Fields |-> None]

Vars == {"AWS_ACCESS_KEY_ID", "AWS_SECRET_ACCESS_KEY", "AWS_REGION", "AWS_ENDPOINT",
         "AWS_ROLE_ARN", "AWS_ROLE_REGION", "AWS_ROLE_SESSION_NAME", "AWS_ROLE_EXTERNAL_ID"}

Deserialized(given) ==
    [f \in Fields |-> IF f \in DOMAIN given THEN given[f] ELSE None]

\* from_values before the environment: the document and the lines of the env
\* file, or None for an Err.
parse(values) ==
    LET has(k) == k \in DOMAIN values
        doc == IF has("config_b64") THEN values["config_b64"]
               ELSE IF has("config_json") THEN values["config_json"]
               ELSE [parses |-> TRUE, given |-> StorageConfigDefault]
        file == IF has("env") THEN values["env"] ELSE [readable |-> TRUE, lines |-> <<>>]
    IN IF ~doc.parses \/ ~file.readable THEN None
       ELSE [config |-> Deserialized(doc.given), lines |-> file.lines]

\* The variables from_values asks for, in its order, and the fields they override.
EnvReads == <<"AWS_ROLE_ARN", "AWS_ROLE_REGION", "AWS_ROLE_SESSION_NAME",
              "AWS_ROLE_EXTERNAL_ID", "AWS_ENDPOINT">>
FieldOf == [AWS_ROLE_ARN |-> "role", AWS_ROLE_REGION |-> "role_region",
            AWS_ROLE_SESSION_NAME |-> "session", AWS_ROLE_EXTERNAL_ID |-> "external_id",
            AWS_ENDPOINT |-> "endpoint"]

MutOverride(config, x, value) ==
    IF value = None \/ config[FieldOf[x]] # None THEN config
    ELSE [config EXCEPT ![FieldOf[x]] = value]

Override(config, x, value) ==
    IF value = None THEN config ELSE [config EXCEPT ![FieldOf[x]] = value]

\* The read that follows: without a role the rest of the role is not asked for.
NextRead(i, value) == IF i = 1 /\ value = None THEN Len(EnvReads) ELSE i + 1

IsEndpoint(e) == e # "no uri"

DefaultSession == "sqldb_dynamodb_provider"

\* The configuration of the client.  Keys that are not both in the document
\* are looked for with the first request (external: the credentials chain).
configure_aws(config, env) ==
    LET given == config.access_key_id # None /\ config.secret_access_key # None
    IN [config EXCEPT
          !.region = IF @ = None THEN env["AWS_REGION"] ELSE @,
          !.access_key_id = IF given THEN @ ELSE None,
          !.secret_access_key = IF given THEN @ ELSE None,
          !.session = IF config.role # None /\ @ = None THEN DefaultSession ELSE @,
          !.endpoint = IF @ # None /\ IsEndpoint(@) THEN @ ELSE None]

-----------------------------------------------------------------------------
(* Reference: what a link should be configured with. *)

\* The environment once the lines of a file are set: the last line of a
\* variable counts.
After(env, lines) ==
    [x \in DOMAIN env |->
       LET I == {i \in DOMAIN lines : lines[i].key = x}
       IN IF I = {} THEN env[x] ELSE lines[CHOOSE i \in I : \A j \in I : j <= i].value]

\* Endpoint and role: environment before document; the rest of a role is taken
\* from the environment only along with the role.  Region and keys: document
\* before environment.  In the environment the link's own file comes first.
Layered(values, env) ==
    LET p == parse(values)
        after == After(env, p.lines)
        first(x, y) == IF x # None THEN x ELSE y
        role(f, x) == IF after["AWS_ROLE_ARN"] # None THEN first(after[x], p.config[f])
                      ELSE p.config[f]
        endpoint == first(after["AWS_ENDPOINT"], p.config.endpoint)
        keys == p.config.access_key_id # None /\ p.config.secret_access_key # None
        r == role("role", "AWS_ROLE_ARN")
    IN [access_key_id |-> IF keys THEN p.config.access_key_id ELSE None,
        secret_access_key |-> IF keys THEN p.config.secret_access_key ELSE None,
        region |-> first(p.config.region, after["AWS_REGION"]),
        endpoint |-> IF endpoint # None /\ IsEndpoint(endpoint) THEN endpoint ELSE None,
        role |-> r,
        role_region |-> role("role_region", "AWS_ROLE_REGION"),
        session |-> IF r = None THEN None
                    ELSE first(role("session", "AWS_ROLE_SESSION_NAME"), DefaultSession),
        external_id |-> role("external_id", "AWS_ROLE_EXTERNAL_ID")]
=============================================================================
