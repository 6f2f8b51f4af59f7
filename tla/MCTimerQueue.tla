---------------------------- MODULE MCTimerQueue ----------------------------
(* Two timers in memory, a wheel of two slots; once, strictly repeated and   *)
(* fire-and-forget, and repeated by a whole turn.                            *)
EXTENDS TimerQueue, TLC

MCKinds == {[interval |-> -1, strict |-> FALSE, detached |-> FALSE],
            [interval |-> 1, strict |-> TRUE, detached |-> TRUE],
            [interval |-> 2, strict |-> FALSE, detached |-> FALSE]}
Symmetric == Permutations(Timers)
=============================================================================
