---------------------------- MODULE MCS3Download ----------------------------
EXTENDS S3Download

To(base) == [prefixed |-> FALSE, base |-> base]
NoAliases == [k \in {} |-> To("")]

MCNames == {To("today"), [prefixed |-> TRUE, base |-> "today"]}

\* No alias; one of the document replaced by a key, next to empty ones; an
\* alias of an alias.
MCLinkValues ==
    {[document |-> NoAliases, keys |-> NoAliases],
     [document |-> [today |-> To("old")],
      keys |-> [k \in {"today", "", "b1"} |-> IF k = "b1" THEN To("") ELSE To("b1")]],
     [document |-> [today |-> To("week"), week |-> To("b1")], keys |-> NoAliases]}
=============================================================================
