---------------------------- MODULE DurableStore ----------------------------
(* What a data directory promises its clients, whatever happens to the         *)
(* process, the machine or the choice of the backend: one store, which holds   *)
(* every write that was answered and never goes back.                          *)
CONSTANT Writes

VARIABLE kept

Init == kept \in SUBSET Writes

(* A client's write is answered once the store holds it. *)
Store(w) == kept' = kept \cup {w}

Next == \E w \in Writes : Store(w)

Spec == Init /\ [][Next]_kept
=============================================================================
