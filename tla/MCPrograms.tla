-------------------------- MODULE MCPrograms --------------------------
(* Instances of Programs for TLC *)
EXTENDS Programs

OneZooKeeper == <<"zookeeper1">>
TwoClickHouses == <<"clickhouse1", "clickhouse2">>

(* Seven of the 23 suites that regression.py lists, in its order; map_type is missing *)
SomeSuites == <<"dns", "kafka", "kerberos", "ldap", "map_type", "rbac", "s3">>
SuitesThere == {"dns", "kafka", "kerberos", "ldap", "rbac", "s3"}

(* The parameters of their regression functions that have no default, some of s3's left out *)
Arguments ==
    [s \in SuitesThere \cup {"map_type"} |->
        {"local", "clickhouse_binary_path", "collect_service_logs"} \cup
        CASE s = "dns" -> {}
          [] s = "s3" -> {"clickhouse_version", "storages", "minio_uri", "stress"}
          [] OTHER -> {"clickhouse_version"}]

SomeScripts == {"alice1", "alice2", "bob1"}
TwoUsers == [s \in SomeScripts |-> IF s = "bob1" THEN "bob" ELSE "alice"]
=============================================================================
