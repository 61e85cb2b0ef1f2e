---------------------------- MODULE HttpSettings ----------------------------
(***************************************************************************)
(* The settings of one HTTP server (httpserver-rs/src/settings.rs), as     *)
(* load_settings computes them from the values of a link definition: the   *)
(* defaults, then a config file, a base64 and a plain json document, then  *)
(* single keys, each overriding the ones before; validated at the end.     *)
(*                                                                         *)
(* A document is [parses, cors, given]: whether it is well-formed, whether *)
(* it has a "cors" section, and the fields it gives, as a function from    *)
(* field names.  None stands for a missing Option and for an Err.          *)
(***************************************************************************)
EXTENDS Naturals, FiniteSets, Sequences

CONSTANTS None

Localhost == "127.0.0.1"
TlsFields == {"cert_file", "priv_key_file"}
CorsFields == {"allowed_origins", "allowed_headers", "allowed_methods",
               "exposed_headers", "max_age_secs"}
Fields == TlsFields \cup CorsFields \cup
          {"address", "log_level", "timeout_ms", "cache_control", "readonly_mode",
           "max_content_len"}

ServiceSettingsDefault ==
    [address |-> <<Localhost, 8000>>, cert_file |-> None, priv_key_file |-> None,
     allowed_origins |-> <<>>, allowed_headers |-> "common headers",
     allowed_methods |-> <<"GET", "POST", "PUT", "DELETE", "HEAD", "OPTIONS">>,
     exposed_headers |-> <<>>, max_age_secs |-> 300, log_level |-> None,
     timeout_ms |-> None, cache_control |-> None, readonly_mode |-> FALSE,
     max_content_len |-> "100M"]

-----------------------------------------------------------------------------
(* Reading one source. *)

\* CorsOrigin::from_str of an origin [uri, scheme, path, host]: an http(s) URI
\* without a path; the slash behind it is cut off.
CorsOrigin(o) == IF o.uri /\ o.scheme \in {"http", "https"} /\ o.path = "/"
                 THEN o.host ELSE None

\* A field the document leaves out is None, except that serde fills a missing
\* cors section with Cors::default(), in which every field is set.
from_json(doc) ==
    LET origins == IF "allowed_origins" \in DOMAIN doc.given
                   THEN [i \in DOMAIN doc.given["allowed_origins"] |->
                           CorsOrigin(doc.given["allowed_origins"][i])]
                   ELSE <<>>
    IN IF ~doc.parses \/ \E i \in DOMAIN origins : origins[i] = None
       THEN None
       ELSE [f \in Fields |->
               IF f \in CorsFields /\ ~doc.cors THEN ServiceSettingsDefault[f]
               ELSE IF f \notin DOMAIN doc.given THEN None
               ELSE IF f = "allowed_origins" THEN origins
               ELSE doc.given[f]]

\* A file is read as json or toml by its extension.
from_file(file) == IF file.readable /\ file.extension \in {"json", "toml"}
                   THEN from_json(file.doc) ELSE None

\* Keys are taken whatever their case; two spellings of one key are an error.
\* The values of a link map <<key, spelling>> to a value.
make_case_insensitive(inp) ==
    LET keys == {p[1] : p \in DOMAIN inp}
    IN IF Cardinality(keys) # Cardinality(DOMAIN inp) THEN None
       ELSE [k \in keys |-> inp[CHOOSE p \in DOMAIN inp : p[1] = k]]

-----------------------------------------------------------------------------
(* Layering the sources. *)

\* The fields merge, Tls::merge, Cors::merge and Log::merge copy.
MergedFields == Fields \ {"timeout_ms", "max_content_len"}

MutMerge(self, other) ==
    IF self = None \/ other = None THEN None
    ELSE [f \in Fields |-> IF f \in MergedFields /\ self[f] = None
                           THEN other[f] ELSE self[f]]

\* settings.merge(other?): what other sets replaces what self has.
merge(self, other) ==
    IF self = None \/ other = None THEN None
    ELSE [f \in Fields |-> IF f \in MergedFields /\ other[f] # None
                           THEN other[f] ELSE self[f]]

\* A single key of the link values sets one field; an unusable value is an Err.
Override(self, field, given, value) ==
    IF self = None \/ (given /\ value = None) THEN None
    ELSE IF given THEN [self EXCEPT ![field] = value] ELSE self

IsMethod(m) == m # "no method"
IsHeaderValue(h) == h # "no header value"
IsFile(path) == path # "missing file"

validate(s) ==
    /\ s.address # None
    /\ \/ s.cert_file = None /\ s.priv_key_file = None
       \/ /\ s.cert_file # None /\ s.priv_key_file # None
          /\ IsFile(s.cert_file) /\ IsFile(s.priv_key_file)
    /\ \A i \in DOMAIN s.allowed_methods : IsMethod(s.allowed_methods[i])
    /\ s.cache_control # None => IsHeaderValue(s.cache_control)

load_settings(linkValues) ==
    LET values == make_case_insensitive(linkValues)
        has(k) == k \in DOMAIN values
        \* A document under key k, read by the given reader, over the settings.
        with(s, k, read(_)) == IF has(k) THEN merge(s, read(values[k])) ELSE s
        base64(v) == IF v.base64 THEN from_json(v.doc) ELSE None
        single(s, k, field, conv(_)) ==
            Override(s, field, has(k), IF has(k) THEN conv(values[k]) ELSE None)
        documents == with(with(with(ServiceSettingsDefault, "config_file", from_file),
                               "config_b64", base64),
                          "config_json", from_json)
        addressed == single(single(documents, "address", "address", LAMBDA v : v),
                            "port", "address",
                            LAMBDA v : IF v = None THEN None ELSE <<Localhost, v>>)
        settings == single(single(addressed, "cache_control", "cache_control", LAMBDA v : v),
                           "readonly_mode", "readonly_mode", LAMBDA v : v = "true")
    IN IF values = None THEN None
       ELSE IF settings = None THEN None
       ELSE IF validate(settings) THEN settings ELSE None

\* Tls::is_set: the server is a TLS server.
is_set(s) == s.cert_file # None /\ s.priv_key_file # None

Filter(s) == [any_origin |-> s.allowed_origins = <<>>, origins |-> s.allowed_origins,
              headers |-> s.allowed_headers, methods |-> s.allowed_methods,
              exposed |-> s.exposed_headers, max_age |-> s.max_age_secs]

\* cors_filter: no origins means any origin; a bad method is an Err.
cors_filter(s) ==
    IF \E i \in DOMAIN s.allowed_methods : ~IsMethod(s.allowed_methods[i]) THEN None
    ELSE Filter(s)

-----------------------------------------------------------------------------
(* What load_settings promises. *)

Sources == <<"config_file", "config_b64", "config_json", "address", "port",
             "cache_control", "readonly_mode">>
Documents == {"config_file", "config_b64", "config_json"}
Document(values, k) == IF k = "config_json" THEN values[k] ELSE values[k].doc

\* Source k has a say about field f.
Sets(values, k, f) ==
    /\ k \in DOMAIN values
    /\ IF k \in Documents
       THEN \/ f \in DOMAIN Document(values, k).given
            \/ f \in CorsFields /\ ~Document(values, k).cors
       ELSE f = (IF k = "port" THEN "address" ELSE k)

Hosts(origins) == [i \in DOMAIN origins |-> origins[i].host]

SetTo(values, k, f) ==
    IF k = "port" THEN <<Localhost, values[k]>>
    ELSE IF k = "readonly_mode" THEN values[k] = "true"
    ELSE IF k \notin Documents THEN values[k]
    ELSE IF ~Document(values, k).cors /\ f \in CorsFields THEN ServiceSettingsDefault[f]
    ELSE IF f = "allowed_origins" THEN Hosts(Document(values, k).given[f])
    ELSE Document(values, k).given[f]

\* Every field has the value of the last source that has a say about it ("later
\* names override earlier names in the list", settings.rs 220), and the
\* settings that come out need none of the unwraps in start() to fail: the
\* address, the cache-control header and the CORS methods.  Two fields no
\* document can change, although both are documented: timeout_ms and
\* max_content_len, which merge leaves out.
LayeredFor(linkValues) ==
    LET s == load_settings(linkValues)
        values == make_case_insensitive(linkValues)
        saying(f) == {i \in DOMAIN Sources : Sets(values, Sources[i], f)}
        last(f) == CHOOSE i \in saying(f) : \A j \in saying(f) : j <= i
    IN s # None =>
         /\ \A f \in Fields :
              s[f] = IF f \in {"timeout_ms", "max_content_len"} \/ saying(f) = {}
                     THEN ServiceSettingsDefault[f]
                     ELSE SetTo(values, Sources[last(f)], f)
         /\ s.address # None /\ cors_filter(s) # None
         /\ s.cache_control # None => IsHeaderValue(s.cache_control)
         /\ is_set(s) <=> s.cert_file # None \/ s.priv_key_file # None

\* Link values LayeredFor is about: a document gives no field as null (one that
\* does counts as not giving it), and a list or a filter is not None.
WellFormedDoc(doc) ==
    \A f \in DOMAIN doc.given :
        doc.given[f] # None /\ (f = "allowed_origins" => Hosts(doc.given[f]) # None)

WellFormed(linkValues) ==
    /\ \A p \in DOMAIN linkValues :
         /\ p[1] = "config_json" => WellFormedDoc(linkValues[p])
         /\ p[1] \in {"config_file", "config_b64"} => WellFormedDoc(linkValues[p].doc)
    /\ LET s == load_settings(linkValues) IN s # None => Filter(s) # None
=============================================================================
