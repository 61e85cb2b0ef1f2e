----------------------------- MODULE NatsConfig -----------------------------
(***************************************************************************)
(* The connection settings of a NATS link (nats/src/main.rs, struct        *)
(* ConnectionConfig): the provider has a configuration from the host, a    *)
(* link definition has values of its own, and put_link merges the two.     *)
(*                                                                         *)
(* A configuration is a record; None is a missing Option.  The values of a *)
(* link are a function from keys; a document under config_b64 or           *)
(* config_json is [parses, given], with the fields it gives.  A            *)
(* subscription is a topic or the empty string.                            *)
(***************************************************************************)
EXTENDS Naturals, Sequences

CONSTANTS None

Options == {"auth_jwt", "auth_seed", "tls_ca", "tls_ca_file", "ping_interval_sec"}
Lists == {"subscriptions", "cluster_uris"}

\* What serde leaves in the fields a document does not give.
Unset == [subscriptions |-> <<>>, cluster_uris |-> <<>>, auth_jwt |-> None,
          auth_seed |-> None, tls_ca |-> None, tls_ca_file |-> None,
          ping_interval_sec |-> None]

DefaultUri == "0.0.0.0:4222"
ConnectionConfigDefault == [Unset EXCEPT !.cluster_uris = <<DefaultUri>>]

Deserialized(doc) == [f \in Options \cup Lists |->
                        IF f \in DOMAIN doc.given THEN doc.given[f] ELSE Unset[f]]

\* The provider's configuration: host data that is given and not blank must
\* parse (the provider does not start otherwise).
generate_provider(hostConfig) ==
    IF hostConfig = None THEN ConnectionConfigDefault ELSE Deserialized(hostConfig)

\* A link's own configuration, or None for an Err.
new_from(values) ==
    LET has(k) == k \in DOMAIN values
        doc == IF has("config_b64") THEN values["config_b64"]
               ELSE IF has("config_json") THEN values["config_json"]
               ELSE [parses |-> TRUE, given |-> ConnectionConfigDefault]
        base == Deserialized(doc)
        option(f, k) == IF has(k) THEN values[k] ELSE base[f]
        uris == IF has("URI") THEN values["URI"] ELSE base.cluster_uris
        config ==
            [subscriptions |-> base.subscriptions \o
                (IF has("SUBSCRIPTION") THEN values["SUBSCRIPTION"] ELSE <<>>),
             cluster_uris |-> IF uris = <<>> THEN <<DefaultUri>> ELSE uris,
             auth_jwt |-> option("auth_jwt", "CLIENT_JWT"),
             auth_seed |-> option("auth_seed", "CLIENT_SEED"),
             tls_ca |-> option("tls_ca", "TLS_CA"),
             tls_ca_file |-> option("tls_ca_file", "TLS_CA_FILE"),
             ping_interval_sec |-> base.ping_interval_sec]
    IN IF ~doc.parses \/ (config.auth_jwt # None /\ config.auth_seed = None)
       THEN None ELSE config

MutMerge(self, extra) ==
    [f \in Options \cup Lists |->
       IF f \in Lists THEN self[f] \o extra[f]
       ELSE IF extra[f] # None THEN extra[f] ELSE self[f]]

\* What the link says replaces what the provider has; lists are not combined.
merge(self, extra) ==
    [f \in Options \cup Lists |->
       IF extra[f] # (IF f \in Lists THEN <<>> ELSE None) THEN extra[f] ELSE self[f]]

\* The configuration of a link, as put_link works it out.
link_config(hostConfig, values) ==
    LET own == new_from(values)
    IN IF DOMAIN values = {} THEN generate_provider(hostConfig)
       ELSE IF own = None THEN None
       ELSE merge(generate_provider(hostConfig), own)

\* A seed or a certificate that cannot be read is an Err.
IsSeed(seed) == seed # "no seed"
IsPem(pem) == pem # "no certificate"

\* build_connect_options and add_tls_ca: jwt and seed go together, and the
\* certificate in tls_ca is preferred to the one in the file.
build_connect_options(cfg) ==
    /\ (cfg.auth_jwt # None) <=> (cfg.auth_seed # None)
    /\ cfg.auth_seed # None => IsSeed(cfg.auth_seed)
    /\ LET pem == IF cfg.tls_ca # None THEN cfg.tls_ca ELSE cfg.tls_ca_file
       IN pem # None => IsPem(pem)

\* connect may go on to the network: the options could be built and there is
\* a first URI to unwrap.
connectable(cfg) == build_connect_options(cfg) /\ cfg.cluster_uris # <<>>

-----------------------------------------------------------------------------
(* What a link is connected with. *)

KeyOf == [auth_jwt |-> "CLIENT_JWT", auth_seed |-> "CLIENT_SEED", tls_ca |-> "TLS_CA",
          tls_ca_file |-> "TLS_CA_FILE", subscriptions |-> "SUBSCRIPTION",
          cluster_uris |-> "URI", ping_interval_sec |-> "none"]

\* What the link's own document says about a field.
Document(values) == IF "config_b64" \in DOMAIN values THEN values["config_b64"].given
                    ELSE IF "config_json" \in DOMAIN values THEN values["config_json"].given
                    ELSE [f \in {} |-> None]

\* A link is connected with what it says itself, and with what the provider
\* was configured with where it says nothing: credentials, certificates,
\* subscriptions and the ping interval of another link or source never get in.
\* One exception: a link that says anything at all, but no URI, goes to the
\* default URI even when the provider was given other ones (new_from puts the
\* default in, main.rs 167-169, before merge compares).
LayeredFor(hostConfig, values) ==
    LET cfg == link_config(hostConfig, values)
        host == generate_provider(hostConfig)
        said(f) == f \in DOMAIN Document(values) \/ KeyOf[f] \in DOMAIN values
        link(f) == IF KeyOf[f] \in DOMAIN values THEN values[KeyOf[f]] ELSE Document(values)[f]
    IN cfg # None =>
         /\ \A f \in Options : cfg[f] = IF said(f) THEN link(f) ELSE host[f]
         /\ LET topics(s) == {s[i] : i \in DOMAIN s}
                own == topics(IF "subscriptions" \in DOMAIN Document(values)
                              THEN Document(values)["subscriptions"] ELSE <<>>)
                       \cup topics(IF "SUBSCRIPTION" \in DOMAIN values
                                   THEN values["SUBSCRIPTION"] ELSE <<>>)
            IN topics(cfg.subscriptions) = IF own = {} THEN topics(host.subscriptions) ELSE own
         /\ cfg.cluster_uris = IF said("cluster_uris") /\ link("cluster_uris") # <<>>
                               THEN link("cluster_uris")
                               ELSE IF DOMAIN values = {} THEN host.cluster_uris
                               ELSE <<DefaultUri>>

\* Link values LayeredFor is about: lists are sequences, and neither a document
\* nor a key gives a field as None (null in a document counts as not giving it).
\* "none" is not the name of a key.
IsSequence(s) == s \in Seq({s[i] : i \in DOMAIN s})

WellFormedDoc(doc) ==
    \A f \in DOMAIN doc.given : IF f \in Lists THEN IsSequence(doc.given[f])
                                ELSE doc.given[f] # None

WellFormed(values) ==
    /\ \A k \in {"config_b64", "config_json"} \cap DOMAIN values : WellFormedDoc(values[k])
    /\ \A k \in {"CLIENT_JWT", "CLIENT_SEED", "TLS_CA", "TLS_CA_FILE"} \cap DOMAIN values :
         values[k] # None
    /\ "SUBSCRIPTION" \in DOMAIN values => IsSequence(values["SUBSCRIPTION"])
    /\ "none" \notin DOMAIN values
=============================================================================
