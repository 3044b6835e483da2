----------------------------- MODULE RenderQueue -----------------------------
(***************************************************************************)
(* What the audio renderer promises its callers: one render at a time, in  *)
(* any order, except that a background render starts only when nobody in   *)
(* the foreground is waiting; and whoever waits may give up.               *)
(***************************************************************************)
CONSTANTS Callers, Background

VARIABLES
    waiting,    \* callers in the queue
    admitted    \* the caller that renders, if there is one

queue == <<waiting, admitted>>

Init == waiting = {} /\ admitted = {}

Enter(c) ==
    /\ c \notin waiting \cup admitted
    /\ waiting' = waiting \cup {c}
    /\ UNCHANGED admitted

GiveUp(c) ==
    /\ c \in waiting
    /\ waiting' = waiting \ {c}
    /\ UNCHANGED admitted

Admit(c) ==
    /\ c \in waiting
    /\ admitted = {}
    /\ c \in Background => waiting \subseteq Background
    /\ admitted' = {c}
    /\ waiting' = waiting \ {c}

Finish(c) ==
    /\ c \in admitted
    /\ admitted' = admitted \ {c}
    /\ UNCHANGED waiting

Next == \E c \in Callers : Enter(c) \/ GiveUp(c) \/ Admit(c) \/ Finish(c)

Spec == Init /\ [][Next]_queue
=============================================================================
