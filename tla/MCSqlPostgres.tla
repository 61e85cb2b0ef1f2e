--------------------------- MODULE MCSqlPostgres ---------------------------
EXTENDS SqlPostgres

Doc(given) == [parses |-> TRUE, given |-> given]

\* A pool of one connection, one of two with a reserve; a reserve larger than
\* the pool, which bb8 panics about; a document without a uri.
MCLinkValues ==
    {[config_json |-> Doc([uri |-> "db", max_connections |-> 1]), uri |-> "db2"],
     [config_b64 |-> Doc([uri |-> "db", max_connections |-> 2, min_idle |-> 1])],
     [config_json |-> Doc([uri |-> "db", max_connections |-> 1, min_idle |-> 2])],
     [config_json |-> Doc([max_connections |-> 1]), uri |-> "db"]}

\* Rows that encode, a NULL, and a type encode_val asks for wrongly.
MCResultSets ==
    {{[type |-> "INT4", null |-> FALSE], [type |-> "TEXT", null |-> FALSE]},
     {[type |-> "TEXT", null |-> TRUE]}, {[type |-> "TIMESTAMP", null |-> FALSE]}}
=============================================================================
