----------------------------- MODULE MCDynamoDb -----------------------------
EXTENDS DynamoDb, DynamoValues

Doc(given) == [parses |-> TRUE, given |-> given]
File(lines) == [readable |-> TRUE, lines |-> lines]
Line(x, value) == [key |-> x, value |-> value]

MCEnvironment ==
    [x \in Vars |-> CASE x = "AWS_REGION" -> "process" [] x = "AWS_ROLE_EXTERNAL_ID" -> "process"
                      [] OTHER -> None]

\* A role in the document and an env file without one; two roles in env files,
\* one of them with keys; an unreadable file.
MCLinkValues ==
    {[config_json |-> Doc([role |-> "doc", session |-> "doc", region |-> "doc",
                           access_key_id |-> "doc", secret_access_key |-> "doc"]),
      env |-> File(<<Line("AWS_ENDPOINT", "no uri")>>)],
     [config_b64 |-> Doc([role |-> "doc", external_id |-> "doc", access_key_id |-> "doc"]),
      config_json |-> [parses |-> FALSE, given |-> StorageConfigDefault],
      env |-> File(<<Line("AWS_ROLE_ARN", "file"), Line("AWS_ROLE_SESSION_NAME", "file"),
                     Line("AWS_REGION", "file")>>)],
     [env |-> File(<<Line("AWS_ACCESS_KEY_ID", "mine"), Line("AWS_SECRET_ACCESS_KEY", "mine"),
                     Line("AWS_ROLE_ARN", "mine"), Line("AWS_ENDPOINT", "mine")>>)],
     [env |-> [readable |-> FALSE, lines |-> <<>>]]}

-----------------------------------------------------------------------------
(* Values *)

Texts == {"x", "1"}
Seqs(S, n) == UNION {[1..m -> S] : m \in 0..n}
Keyed(S) == UNION {[D -> S] : D \in SUBSET {"k1", "k2"}}

FlatAttrs ==
    {Attr(tag, s) : tag \in {"B", "S", "N"}, s \in Texts}
    \cup {Attr(tag, b) : tag \in {"BOOL", "NULL"}, b \in {"true", "false"}}
    \cup {Attr(tag, s) : tag \in {"BS", "SS", "NS"}, s \in Seqs(Texts, 2)}
    \cup {Attr("B", "no UTF-8"), Attr("BS", <<"x", "no UTF-8">>)}
NestedAttrs(S) == {Attr("L", s) : s \in Seqs(S, 2)} \cup {Attr("M", f) : f \in Keyed(S)}
SampleAttrs ==
    FlatAttrs \cup NestedAttrs(FlatAttrs)
    \cup NestedAttrs({Attr("L", <<Attr("NS", <<"1">>)>>), Attr("S", "x"),
                      Attr("M", [k \in {"k1"} |-> Attr("B", "no UTF-8")])})

Scalars == {[t |-> t, v |-> "1"] : t \in {"str", "num", "bool"}}
Tags == {"B", "BOOL", "BS", "L", "M", "N", "NS", "NULL", "S", "SS", "other"}
Tag(tag, j) == Obj([k \in {tag} |-> j])
FlatJson == {Tag(tag, j) : tag \in Tags, j \in Scalars \cup {Arr(s) : s \in Seqs(Scalars, 2)}}
            \cup {Obj([k \in {"S", "N"} |-> Str("x")]), Str("x")}
NestedJson(S) == {Tag("L", Arr(s)) : s \in Seqs(S, 2)} \cup {Tag("M", Obj(f)) : f \in Keyed(S)}
SampleJson ==
    FlatJson \cup NestedJson({Tag(tag, j) : tag \in Tags, j \in Scalars})
    \cup NestedJson({Tag("L", Arr(<<Tag("NS", Arr(<<[t |-> "num", v |-> "1"]>>))>>)),
                     Tag("M", Obj([k \in {"k1"} |-> Tag("N", [t |-> "num", v |-> "1"])])),
                     Tag("L", Arr(<<Tag("BS", Arr(<<[t |-> "num", v |-> "1"]>>))>>))})

MCParameterEnds == {convert_parameters(<<[json |-> b, value |-> j]>>) :
                      b \in BOOLEAN, j \in NestedJson({Tag("N", Str("1")), Tag("N", Str("x")),
                                                       Tag("BOOL", Str("x"))})}
MCRowEnds == {convert_rows(<<[k \in {"k1"} |-> a]>>) : a \in FlatAttrs}

\* A value that is stored and read, or read and stored again, stays the same at
\* every level of lists and maps, whatever its type; only a number becomes its
\* text.  They are looked at while there has been no link and no call (lib.rs
\* 158-198 and 223-318).
ValuesKept ==
    (\A k \in Links : link[k].stage = "unused") /\ (\A q \in Calls : call[q].answer = "none") =>
        /\ \A a \in SampleAttrs : RowReturns(a)
        /\ \A j \in SampleJson : ParameterKept(j)
=============================================================================
