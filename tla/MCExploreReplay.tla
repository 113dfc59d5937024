-------------------------- MODULE MCExploreReplay --------------------------
(* TLC instances of ExploreReplay. *)
EXTENDS ExploreReplay

MCKey   == CHOOSE k \in Keys : TRUE
MCValue == CHOOSE v \in Values : TRUE

(* The three kinds of invariant, one that names a node that does not exist.*)
AllEqualCheck == [type |-> "kv_all_equal", key |-> MCKey]
MCChecks ==
  {{}, {[type |-> "kv_present_on_all", key |-> MCKey]},
   {[type |-> "kv_node_equals", node |-> 1, key |-> MCKey, value |-> MCValue],
    AllEqualCheck},
   {[type |-> "kv_node_equals", node |-> NumNodes + 1, key |-> MCKey, value |-> MCValue]}}
MCAllEqual == {{AllEqualCheck}}

=============================================================================
