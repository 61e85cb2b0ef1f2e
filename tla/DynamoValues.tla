---------------------------- MODULE DynamoValues ----------------------------
(***************************************************************************)
(* The conversions of the DynamoDB provider (sqldb-dynamodb/src/lib.rs):   *)
(* statement parameters from JSON to attribute values, the items of a      *)
(* result back to JSON.                                                    *)
(*                                                                         *)
(* A JSON value is [t, v]: str, num and bool with the text, arr with a     *)
(* sequence, obj with a function from keys.  An attribute value is         *)
(* [tag, v].  A conversion ends with some value, with none, or in a panic. *)
(***************************************************************************)
EXTENDS Naturals, Sequences, FiniteSets

Str(s) == [t |-> "str", v |-> s]
Arr(s) == [t |-> "arr", v |-> s]
Obj(f) == [t |-> "obj", v |-> f]
Attr(tag, v) == [tag |-> tag, v |-> v]

Some(x) == [is |-> "some", value |-> x]
NoValue == [is |-> "none"]
Panic == [is |-> "panic"]

Mapped(Op(_), s) == [i \in DOMAIN s |-> Op(s[i])]

-----------------------------------------------------------------------------
(* Parameters *)

RECURSIVE parameter_to_attribute_value(_)
RECURSIVE TaggedValue(_, _)

\* to_string, which leaves the quotes on a string; of arrays and objects all
\* that matters is that they have a text.
to_string(v) == CASE v.t = "str" -> "quoted"
                  [] v.t \in {"num", "bool"} -> v.v
                  [] OTHER -> "text"

MutStringOf(v) == to_string(v)

StringOf(v) == IF v.t = "str" THEN v.v ELSE to_string(v)

\* With no attribute: an object with one key, the type.
parameter_to_attribute_value(value) ==
    IF value.t = "obj" /\ Cardinality(DOMAIN value.v) = 1
    THEN LET k == CHOOSE k \in DOMAIN value.v : TRUE
         IN TaggedValue(k, value.v[k])
    ELSE NoValue

\* With an attribute.  An element of a list that does not convert is left out,
\* one of a map is unwrapped; a panic anywhere is the end.
TaggedValue(tag, value) ==
    LET t == value.t
        parts == IF tag = "L" /\ t = "arr" THEN Mapped(parameter_to_attribute_value, value.v)
                 ELSE IF tag = "M" /\ t = "obj"
                      THEN Mapped(parameter_to_attribute_value, value.v) ELSE <<>>
        panics == \E i \in DOMAIN parts : parts[i] = Panic
        inner(x) == x.value
        isSome(x) == x.is = "some"
    IN CASE tag \in {"B", "S"} /\ t = "str" -> Some(Attr(tag, value.v))
         [] tag \in {"BOOL", "NULL"} /\ t = "bool" -> Some(Attr(tag, value.v))
         [] tag = "N" /\ t \in {"str", "num"} -> Some(Attr(tag, StringOf(value)))
         [] tag \in {"NS", "SS"} /\ t = "arr" -> Some(Attr(tag, Mapped(StringOf, value.v)))
         [] tag = "BS" /\ t = "arr" ->
              IF \E i \in DOMAIN value.v : value.v[i].t # "str" THEN Panic
              ELSE Some(Attr(tag, Mapped(StringOf, value.v)))
         [] tag = "L" /\ t = "arr" ->
              IF panics THEN Panic
              ELSE Some(Attr(tag, Mapped(inner, SelectSeq(parts, isSome))))
         [] tag = "M" /\ t = "obj" ->
              IF panics \/ \E k \in DOMAIN parts : parts[k] = NoValue THEN Panic
              ELSE Some(Attr(tag, Mapped(inner, parts)))
         [] OTHER -> NoValue

\* One parameter after the other: the first that has no JSON (none here) or no
\* value is an Err, and a panic before that is a panic.
convert_parameters(parameters) ==
    LET ends == [i \in DOMAIN parameters |->
                   IF parameters[i].json THEN parameter_to_attribute_value(parameters[i].value)
                   ELSE NoValue]
        bad == {i \in DOMAIN ends : ends[i].is # "some"}
    IN IF bad = {} THEN "ok"
       ELSE IF ends[CHOOSE i \in bad : \A j \in bad : i <= j] = Panic THEN "panic" ELSE "error"

-----------------------------------------------------------------------------
(* Rows *)

IsUtf8(blob) == blob # "no UTF-8"

RECURSIVE attribute_value_to_json(_)

\* The one tag is the one key of an object.
attribute_value_to_json(a) ==
    LET parts == IF a.tag \in {"L", "M"} THEN Mapped(attribute_value_to_json, a.v) ELSE <<>>
        inner(x) == x.value
        json == CASE a.tag \in {"B", "S", "N"} -> Str(a.v)
                  [] a.tag \in {"BOOL", "NULL"} -> [t |-> "bool", v |-> a.v]
                  [] a.tag \in {"BS", "SS", "NS"} -> Arr(Mapped(Str, a.v))
                  [] a.tag = "L" -> Arr(Mapped(inner, parts))
                  [] a.tag = "M" -> Obj(Mapped(inner, parts))
                  [] OTHER -> Str("Unknown")
        tag == IF a.tag \in {"B", "S", "N", "BOOL", "NULL", "BS", "SS", "NS", "L", "M"}
               THEN a.tag ELSE "Unknown"
    IN IF \/ a.tag = "B" /\ ~IsUtf8(a.v)
          \/ a.tag = "BS" /\ \E i \in DOMAIN a.v : ~IsUtf8(a.v[i])
          \/ \E i \in DOMAIN parts : parts[i] = Panic
       THEN Panic ELSE Some(Obj([k \in {tag} |-> json]))

\* items is a sequence of functions from names to attribute values.
convert_rows(items) ==
    IF \E i \in DOMAIN items : \E k \in DOMAIN items[i] :
          attribute_value_to_json(items[i][k]) = Panic
    THEN "panic" ELSE "ok"

-----------------------------------------------------------------------------
(* Reference: the JSON format of DynamoDB. *)

RECURSIVE WellTyped(_)

WellTyped(j) ==
    /\ j.t = "obj" /\ Cardinality(DOMAIN j.v) = 1
    /\ \A k \in DOMAIN j.v :
         LET c == j.v[k] IN
         \/ k \in {"B", "S", "N"} /\ c.t = "str"
         \/ k = "N" /\ c.t = "num"
         \/ k \in {"BOOL", "NULL"} /\ c.t = "bool"
         \/ k \in {"BS", "SS"} /\ c.t = "arr" /\ \A i \in DOMAIN c.v : c.v[i].t = "str"
         \/ k = "NS" /\ c.t = "arr" /\ \A i \in DOMAIN c.v : c.v[i].t \in {"str", "num"}
         \/ k = "L" /\ c.t = "arr" /\ \A i \in DOMAIN c.v : WellTyped(c.v[i])
         \/ k = "M" /\ c.t = "obj" /\ \A i \in DOMAIN c.v : WellTyped(c.v[i])

RECURSIVE Normal(_)

\* A number is its text from then on.
Normal(j) == CASE j.t = "num" -> Str(j.v)
               [] j.t = "arr" -> Arr(Mapped(Normal, j.v))
               [] j.t = "obj" -> Obj(Mapped(Normal, j.v))
               [] OTHER -> j

\* A well typed parameter is accepted and reads back as what it was.
ParameterKept(j) ==
    LET p == parameter_to_attribute_value(j) IN
    WellTyped(j) => /\ p.is = "some"
                    /\ attribute_value_to_json(p.value) = Some(Normal(j))

\* What a row says comes back as a parameter with the same meaning.
RowReturns(a) ==
    LET j == attribute_value_to_json(a) IN
    j # Panic => WellTyped(j.value) /\ parameter_to_attribute_value(j.value) = Some(a)
=============================================================================
