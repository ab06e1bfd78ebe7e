------------------------- MODULE MCScribeCollector -------------------------
(* Instances of ScribeCollector for TLC. *)
EXTENDS ScribeCollector, TLC

CONSTANTS b1, b2, b3

TheBatches == {b1, b2, b3}
Once == TheBatches \X {1}
FirstTwice == {<<b1, 1>>, <<b1, 2>>, <<b2, 1>>}

\* The first batch holds a span and two entries to drop, the second a span, the
\* third nothing that gets to process.
MixedContent ==
  b1 :> {[category |-> "zipkin", valid |-> TRUE],
         [category |-> "zipkin", valid |-> FALSE],
         [category |-> "other", valid |-> TRUE]}
  @@ b2 :> {[category |-> "zipkin", valid |-> TRUE]}
  @@ b3 :> {[category |-> "zipkin", valid |-> FALSE],
            [category |-> "other", valid |-> TRUE]}
=============================================================================
