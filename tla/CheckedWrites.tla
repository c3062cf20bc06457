----------------------------- MODULE CheckedWrites -----------------------------
(***************************************************************************)
(* What a check in one call and a write in a later one promise, without a  *)
(* lock: whoever writes an item looked while it was open, and writes once  *)
(* for that look.  So an item that is closed can only be written by those  *)
(* who had looked before, and after the last of them has left it is final. *)
(***************************************************************************)
CONSTANTS Items, Handlers

VARIABLES phase, \* of every item: "none", "open" or "closed"
          value, \* what was written last
          takers \* handlers that found it open and may still write

vars == <<phase, value, takers>>

Init ==
    /\ phase \in [Items -> {"none", "open"}]
    /\ takers = [i \in Items |-> {}]

Offer(i) ==
    /\ phase[i] = "none"
    /\ phase' = [phase EXCEPT ![i] = "open"]
    /\ UNCHANGED <<value, takers>>

(* It expires, or somebody withdraws it.                                   *)
Close(i) ==
    /\ phase[i] = "open"
    /\ phase' = [phase EXCEPT ![i] = "closed"]
    /\ UNCHANGED <<value, takers>>

Take(h, i) ==
    /\ phase[i] = "open"
    /\ \A k \in Items : h \notin takers[k]
    /\ takers' = [takers EXCEPT ![i] = takers[i] \cup {h}]
    /\ UNCHANGED <<phase, value>>

Write(h, i) ==
    /\ h \in takers[i]
    /\ phase' = [phase EXCEPT ![i] = "closed"]
    /\ \A k \in Items \ {i} : value'[k] = value[k]
    /\ takers' = [takers EXCEPT ![i] = takers[i] \ {h}]

Leave(h, i) ==
    /\ h \in takers[i]
    /\ takers' = [takers EXCEPT ![i] = takers[i] \ {h}]
    /\ UNCHANGED <<phase, value>>

Next ==
    \E i \in Items :
        \/ Offer(i) \/ Close(i)
        \/ \E h \in Handlers : Take(h, i) \/ Write(h, i) \/ Leave(h, i)

Spec == Init /\ [][Next]_vars
=============================================================================
