-------------------------- MODULE DependenceOrder --------------------------
(***************************************************************************)
(* What a legal loop transformation promises (README.md, "Legality         *)
(* Checking"): every dynamic instance of the body runs exactly once, never *)
(* before an instance it depends on, and the nest is left only when all    *)
(* have run. Any order that respects the dependences is allowed.           *)
(***************************************************************************)
VARIABLES
    instances,    \* the dynamic instances of the body
    precedes,     \* pairs <<x, y>>: y depends on x
    executed,     \* the instances that have run
    finished      \* control has left the nest

vars == <<instances, precedes, executed, finished>>

Init ==
    /\ precedes \subseteq instances \X instances
    /\ executed = {}
    /\ finished = FALSE

Execute ==
    /\ ~finished
    /\ \E x \in instances \ executed :
          /\ \A w \in instances : <<w, x>> \in precedes => w \in executed
          /\ executed' = executed \cup {x}
    /\ UNCHANGED <<instances, precedes, finished>>

Finish ==
    /\ ~finished
    /\ executed = instances
    /\ finished' = TRUE
    /\ UNCHANGED <<instances, precedes, executed>>

Next == Execute \/ Finish

Spec == Init /\ [][Next]_vars
=============================================================================
