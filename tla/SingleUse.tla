------------------------------- MODULE SingleUse -------------------------------
(***************************************************************************)
(* What a token that works once promises: it is offered, and is then       *)
(* either spent or void, for good.  Several may move in one step.          *)
(***************************************************************************)
CONSTANT Items

VARIABLE item \* the state of every token

States == {"none", "open", "spent", "void"}

Init == item = [i \in Items |-> "none"]

Moves == {<<"none", "open">>, <<"open", "spent">>, <<"open", "void">>}

Next ==
    /\ item' \in [Items -> States]
    /\ \A i \in Items : item'[i] # item[i] => <<item[i], item'[i]>> \in Moves

Spec == Init /\ [][Next]_item
=============================================================================
