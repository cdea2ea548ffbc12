---------------------------- MODULE EvidenceStore ----------------------------
(***************************************************************************)
(* What an evidence root promises to a reader who only asks `evidence      *)
(* verify': a package is absent, incomplete, or complete and then the work *)
(* of one command.  A package is completed from an incomplete one, and a   *)
(* complete one keeps its contents until the root is cleaned.  Only a      *)
(* package that was harmed (damaged at rest, or written by two commands at *)
(* the same time) is free of these promises.                               *)
(***************************************************************************)
CONSTANTS Packages, Commands, Absent, Incomplete

VARIABLES evidence, harmed

Views == Commands \cup {Absent, Incomplete}

Init == evidence = [p \in Packages |-> Absent] /\ harmed = {}

Begin(p) ==
    /\ evidence[p] = Absent
    /\ evidence' = [evidence EXCEPT ![p] = Incomplete]
    /\ UNCHANGED harmed

Complete(p, c) ==
    /\ evidence[p] = Incomplete
    /\ evidence' = [evidence EXCEPT ![p] = c]
    /\ UNCHANGED harmed

\* Harm, and whatever later becomes of what was harmed.
Decay(p) ==
    /\ harmed' = harmed \cup {p}
    /\ \E view \in Views : evidence' = [evidence EXCEPT ![p] = view]

Clean ==
    /\ evidence' = [p \in Packages |-> Absent]
    /\ harmed' = {}

Next ==
    \/ Clean
    \/ \E p \in Packages : Begin(p) \/ Decay(p) \/ \E c \in Commands : Complete(p, c)

Spec == Init /\ [][Next]_<<evidence, harmed>>
=============================================================================
