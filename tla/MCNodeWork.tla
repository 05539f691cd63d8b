-------------------------- MODULE MCNodeWork --------------------------
(***************************************************************************)
(* Instances of NodeWork for TLC.                                          *)
(***************************************************************************)
EXTENDS NodeWork

Step(k, n) == [kind |-> k, names |-> n]

AllSteps ==
    {Step("user", <<"clickhouse">>), Step("group", <<"clickhouse">>),
     Step("file", <<"a.xml">>), Step("envs", <<"A", "B">>), Step("policy", <<"pol0">>),
     Step("query", <<"table0", "table1">>)}

ThreeNodes == <<"clickhouse10", "clickhouse11", "clickhouse12">>
=============================================================================
