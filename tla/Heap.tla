-------------------------------- MODULE Heap --------------------------------
(* What malloc and free promise: the blocks the program holds never overlap. *)
EXTENDS Naturals, Bags

VARIABLE held      \* a bag of blocks, each a set of the smallest objects

Malloc == \E b \in DOMAIN held' :
    /\ b # {} /\ \A h \in DOMAIN held : b \cap h = {}
    /\ held' = held (+) SetToBag({b})

Free == \E b \in DOMAIN held : held' = held (-) SetToBag({b})

Init == held = EmptyBag
Next == Malloc \/ Free
Spec == Init /\ [][Next]_held
=============================================================================
