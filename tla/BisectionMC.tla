---------------------------- MODULE BisectionMC ----------------------------
(* Instances of Bisection: two ways four addons may be coupled. *)
EXTENDS Bisection

Apart == [shares |-> {}, declares |-> {}, satellite |-> FALSE]
SomeHangars ==
    {[a \in 1..4 |-> Apart],
     [a \in 1..4 |-> CASE a = 1 -> [shares |-> {"model"}, declares |-> {}, satellite |-> TRUE]
                       [] a = 2 -> Apart
                       [] a = 3 -> [shares |-> {"path"}, declares |-> {4}, satellite |-> TRUE]
                       [] a = 4 -> [shares |-> {"model", "path"}, declares |-> {}, satellite |-> FALSE]]}
=============================================================================
