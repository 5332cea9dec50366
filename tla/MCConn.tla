-------------------------------- MODULE MCConn --------------------------------
(* Instances of Conn for TLC. *)
EXTENDS Conn

\* Operations that consume their response whatever its code, next to a produce
\* request; and those that leave bytes unread with an error code, next to one
\* that does not; and ApiVersions next to others.
MCMixes == {[op \in Ops |-> CASE op = 1 -> "plain" [] op = 2 -> "fetch2" [] OTHER -> "produce"],
            [op \in Ops |-> CASE op = 1 -> "produce" [] op = 2 -> "fetch5" [] OTHER -> "plain"],
            [op \in Ops |-> CASE op = 1 -> "versions" [] op = 2 -> "fetch2" [] OTHER -> "plain"]}

\* A response that cannot be decoded for each of the three ways to deal with it:
\* do, ReadBatchWith, ApiVersions.
MCReplies == (Kinds \X {"ok", "error"}) \cup ({"produce", "fetch5", "versions"} \X {"garbled"})

\* Two operations: a produce, answered with an error code, and a plain one.
MCProduceMix == {[op \in Ops |-> IF op = 1 THEN "produce" ELSE "plain"]}

MCErrorReplies == {<<"produce", "error">>, <<"plain", "ok">>}
=============================================================================
