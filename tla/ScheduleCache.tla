---------------------------- MODULE ScheduleCache ----------------------------
(***************************************************************************)
(* What the persistent cache of the schedule promises: it is empty or      *)
(* holds one whole published schedule, and it is only ever replaced by a   *)
(* later one.                                                              *)
(***************************************************************************)
EXTENDS Naturals

CONSTANT MaxVersion

VARIABLES published, cache

Init == published = 1 /\ cache \in {0, 1}

Publish ==
    /\ published < MaxVersion
    /\ published' = published + 1
    /\ UNCHANGED cache

Store ==
    /\ cache' \in (cache + 1)..published
    /\ UNCHANGED published

Next == Publish \/ Store

Spec == Init /\ [][Next]_<<published, cache>>
=============================================================================
