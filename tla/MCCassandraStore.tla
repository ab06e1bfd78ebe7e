-------------------------- MODULE MCCassandraStore --------------------------
(* Instances of CassandraStore for TLC. *)
EXTENDS CassandraStore, TLC

CONSTANTS c1, c2, c3, t1, t2

span1 == [trace |-> 1, time |-> 1, services |-> {"web"}, name |-> "", annotations |-> {}]
span2 == [trace |-> 2, time |-> 1, services |-> {"web"}, name |-> "GET", annotations |-> {}]
blank == [trace |-> 2, time |-> 1, services |-> {"", "web"}, name |-> "GET", annotations |-> {}]

\* A span with a service that has no name; two traces of the same service and time.
TheBatches == c1 :> <<span1>> @@ c2 :> <<blank>> @@ c3 :> <<span2>>
LowerCase == "" :> "" @@ "GET" :> "get"

ThreadSymmetry == Permutations({t1, t2})
=============================================================================
