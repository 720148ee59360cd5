------------------------------ MODULE Transfer ------------------------------
(***************************************************************************)
(* What a download promises, without its workers, peers and piece table:    *)
(* pieces are added to the output file, in any order; then there is one     *)
(* verdict, success only when no piece is missing, and then the file stays. *)
(* After success and "incomplete" the file does not change; the writes that *)
(* are under way when there are no peers any more may still end.  Only a    *)
(* file without a piece is removed, and not after success: "If download     *)
(* failed, remove the empty file" (server.go).                              *)
(***************************************************************************)
CONSTANT Pieces

VARIABLES
    have,     \* pieces written to the output file
    verdict,  \* what the user is told
    output    \* the output file

vars == <<have, verdict, output>>

Init == have = {} /\ verdict = "running" /\ output = "none"

\* The file cannot be had, and no output file is made.
Refuse ==
    /\ verdict = "running" /\ output = "none"
    /\ verdict' = "unavailable"
    /\ UNCHANGED <<have, output>>

Start ==
    /\ verdict = "running" /\ output = "none"
    /\ output' = "open"
    /\ UNCHANGED <<have, verdict>>

Add(i) ==
    /\ verdict \in {"running", "nopeers"} /\ output # "none"
    /\ have' = have \cup {i}
    /\ UNCHANGED <<verdict, output>>

End(v) ==
    /\ verdict = "running" /\ output = "open"
    /\ v = "ok" => have = Pieces /\ output' = "kept"
    /\ verdict' = v
    /\ output' \in {"kept", "removed"}
    /\ output' = "removed" => have = {}
    /\ UNCHANGED have

Next ==
    \/ Refuse
    \/ Start
    \/ \E i \in Pieces : Add(i)
    \/ \E v \in {"ok", "incomplete", "nopeers"} : End(v)

Spec == Init /\ [][Next]_vars
=============================================================================
