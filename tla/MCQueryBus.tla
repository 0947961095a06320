----------------------------- MODULE MCQueryBus -----------------------------
(* The handler of the query "outer" executes the query "inner". *)
EXTENDS QueryBus

MCQueries == {"outer", "inner", "a", "b"}
MCNesting == [q \in MCQueries |-> IF q = "outer" THEN "inner" ELSE NoQuery]
=============================================================================
