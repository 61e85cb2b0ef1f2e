-------------------------- MODULE MCNatsMessaging --------------------------
EXTENDS NatsMessaging

CONSTANTS t1, t2

Nothing == [k \in {} |-> None]
Doc(given) == [parses |-> TRUE, given |-> given]
Unparsable == [parses |-> FALSE, given |-> Nothing]

\* The provider subscribes to t1 unless a link says otherwise; a link to other
\* topics, one with credentials that cannot be used, and one that is refused.
MCHostConfig == Doc([subscriptions |-> <<t1>>, cluster_uris |-> <<"host:4222">>])
MCLinkValues ==
    {Nothing,
     [SUBSCRIPTION |-> <<t1, "", t2>>],
     [config_json |-> Doc([subscriptions |-> <<"">>])],
     [CLIENT_SEED |-> "no seed", CLIENT_JWT |-> "jwt"],
     [CLIENT_JWT |-> "jwt"]}

\* Every link has the topic of the provider.
MCDeliveryValues == {Nothing}

-----------------------------------------------------------------------------
(* Configurations of a host and values of a link. *)

MCHostConfigs ==
    {None, Doc(Nothing), MCHostConfig,
     Doc([auth_jwt |-> "host jwt", auth_seed |-> "host seed", tls_ca_file |-> "host file",
          ping_interval_sec |-> 9])}

SampleDocs ==
    {Unparsable, Doc(Nothing), Doc([subscriptions |-> <<t2>>]),
     Doc([cluster_uris |-> <<"link:4222", "link:4223">>]),
     Doc([auth_jwt |-> "doc jwt", auth_seed |-> "doc seed"]),
     Doc([auth_jwt |-> "doc jwt"]),
     Doc([ping_interval_sec |-> 1, tls_ca |-> "doc ca"])}

SampleKeys ==
    [SUBSCRIPTION : {<<t1>>, <<"">>}] \cup [URI : {<<"key:4222">>, <<"">>}]
    \cup [CLIENT_JWT : {"key jwt"}, CLIENT_SEED : {"key seed"}]
    \cup [CLIENT_SEED : {"key seed"}] \cup [CLIENT_JWT : {"key jwt"}]
    \cup [TLS_CA : {"key ca"}, TLS_CA_FILE : {"key file"}] \cup {Nothing}

MCInputs ==
    {[k \in DOMAIN keys \cup D |-> IF k \in D THEN docs[k] ELSE keys[k]] :
       keys \in SampleKeys, D \in SUBSET {"config_b64", "config_json"},
       docs \in [{"config_b64", "config_json"} -> SampleDocs]}
=============================================================================
