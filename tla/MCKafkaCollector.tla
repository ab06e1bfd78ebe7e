-------------------------- MODULE MCKafkaCollector --------------------------
(* Instances of KafkaCollector for TLC: two streams of two messages each, or one  *)
(* stream of three.                                                           *)
EXTENDS KafkaCollector, TLC

CONSTANTS m1, m2, m3, m4, s1, s2

TwoStreams == s1 :> <<m1, m2>> @@ s2 :> <<m3, m4>>
OneStream == s1 :> <<m1, m2, m3>>
=============================================================================
