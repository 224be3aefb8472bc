----------------------------- MODULE FramePool -----------------------------
(***************************************************************************)
(* What the page frame database promises: a pool of page frames, each free *)
(* or held, from which any free frame may be taken and to which a held one *)
(* goes back.                                                              *)
(***************************************************************************)
CONSTANT Frames

VARIABLES free, held

poolVars == <<free, held>>

\* The frames of a usable region come into the pool.
Donate ==
    /\ free \subseteq free' /\ free' \subseteq Frames \ held
    /\ held' = held

Take(f) ==
    /\ f \in free
    /\ free' = free \ {f}
    /\ held' = held \union {f}

GiveBack(f) ==
    /\ f \in held
    /\ free' = free \union {f}
    /\ held' = held \ {f}

Init == free = {} /\ held = {}

Next ==
    \/ Donate
    \/ \E f \in Frames : Take(f) \/ GiveBack(f)

Spec == Init /\ [][Next]_poolVars
=============================================================================
