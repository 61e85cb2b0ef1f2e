---------------------------- MODULE MCHttpServer ----------------------------
EXTENDS HttpServer

P1 == <<Localhost, 8000>>
P2 == <<Localhost, 8080>>
MCAddrs == {P1, P2}

Key(k, value) == [p \in {<<k, "lower">>} |-> value]
Doc(cors, given) == [parses |-> TRUE, cors |-> cors, given |-> given]

\* The default address; another one with readonly_mode, given by a document
\* and a single key; settings that do not validate.
MCLinkValues ==
    {[p \in {} |-> None],
     [p \in {<<"config_json", "lower">>, <<"port", "UPPER">>} |->
        IF p[1] = "port" THEN 8080 ELSE Doc(FALSE, [readonly_mode |-> TRUE])],
     Key("config_json", Doc(FALSE, [cert_file |-> "missing file"]))}

-----------------------------------------------------------------------------
(* Inputs for load_settings: each document absent or one of SampleDocs, and *)
(* one single key or two spellings of one.                                  *)

Origin(host, path) == [uri |-> TRUE, scheme |-> "https", path |-> path, host |-> host]
SampleDocs ==
    {[parses |-> FALSE, cors |-> FALSE, given |-> [p \in {} |-> None]],
     Doc(FALSE, [p \in {} |-> None]),
     Doc(FALSE, [address |-> P2, timeout_ms |-> 5]),
     Doc(FALSE, [readonly_mode |-> TRUE, cache_control |-> "max-age"]),
     Doc(FALSE, [cache_control |-> "no header value", max_content_len |-> "1M"]),
     Doc(FALSE, [cert_file |-> "cert.pem", priv_key_file |-> "key.pem"]),
     Doc(FALSE, [cert_file |-> "missing file", log_level |-> "warn"]),
     Doc(TRUE, [p \in {} |-> None]),
     Doc(TRUE, [allowed_origins |-> <<Origin("a.example", "/")>>]),
     Doc(TRUE, [allowed_origins |-> <<Origin("a.example", "/x")>>]),
     Doc(TRUE, [allowed_methods |-> <<"GET">>, max_age_secs |-> 1]),
     Doc(TRUE, [allowed_methods |-> <<"no method">>])}

SampleKeys ==
    {Key("address", P2), Key("address", None), Key("port", 80), Key("port", None),
     Key("cache_control", "no-store"), Key("readonly_mode", "true"),
     Key("readonly_mode", "yes"),
     [p \in {"address", "port"} \X {"lower"} |-> IF p[1] = "port" THEN 80 ELSE P2],
     [p \in {"port"} \X {"lower", "UPPER"} |-> 80], [p \in {} |-> None]}

MCInputs ==
    {[p \in DOMAIN k \cup {<<c, "lower">> : c \in {c \in Documents : d[c] # None}} |->
        CASE p[1] = "config_json" -> d[p[1]]
          [] p[1] = "config_b64" -> [base64 |-> TRUE, doc |-> d[p[1]]]
          [] p[1] = "config_file" -> [readable |-> TRUE, extension |-> "toml",
                                      doc |-> d[p[1]]]
          [] OTHER -> k[p]] :
     k \in SampleKeys, d \in [Documents -> SampleDocs \cup {None}]}
    \cup {Key("config_b64", [base64 |-> FALSE, doc |-> Doc(FALSE, [p \in {} |-> None])]),
          Key("config_file", [readable |-> TRUE, extension |-> "yaml",
                              doc |-> Doc(FALSE, [p \in {} |-> None])])}
=============================================================================
