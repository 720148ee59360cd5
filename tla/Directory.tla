----------------------------- MODULE Directory ------------------------------
(***************************************************************************)
(* What the tracker promises, without its maps, counts, timestamps and      *)
(* unlocked iterations: a directory of who shares what.                     *)
(*                                                                          *)
(* A peer enters a list by its own post only.  It leaves a list by its own  *)
(* post, because it has been silent for too long, or with all the others    *)
(* when the process dies.  No step moves two peers for different reasons.   *)
(* The description of a file comes with an announcement and goes with the   *)
(* last peer of the file, never before and never after.                     *)
(***************************************************************************)
CONSTANTS
    Files,   \* file IDs
    Addrs,   \* peers
    Hashes,  \* descriptions of a file
    NULL     \* no description

VARIABLES
    listing,    \* file -> peers listed for it
    catalogue,  \* file -> its description
    silent,     \* peers that have been silent for too long
    serving     \* the process runs

vars == <<listing, catalogue, silent, serving>>

Nobody == [f \in Files |-> {}]

Init ==
    /\ listing   = Nobody
    /\ catalogue = [f \in Files |-> NULL]
    /\ silent    = {}
    /\ serving   = TRUE

\* The lists become l; a file that nobody shares loses its description.
Become(l) ==
    /\ listing'   = l
    /\ catalogue' = [f \in Files |-> IF l[f] = {} THEN NULL ELSE catalogue[f]]

Announce(f, p, h) ==
    /\ listing'   = [listing EXCEPT ![f] = @ \cup {p}]
    /\ catalogue' = [catalogue EXCEPT ![f] = h]
    /\ silent'    = silent \ {p}
    /\ UNCHANGED serving

\* A peer reports all that it shares.
Report(p, sharing) ==
    /\ Become([f \in Files |->
          IF f \in sharing THEN listing[f] \cup {p} ELSE listing[f] \ {p}])
    /\ silent' = silent \ {p}
    /\ UNCHANGED serving

Withdraw(f, p) ==
    /\ Become([listing EXCEPT ![f] = @ \ {p}])
    /\ UNCHANGED <<silent, serving>>

\* A peer is taken off all the lists: on request, or all the silent ones.
Leave(gone) ==
    /\ Become([f \in Files |-> listing[f] \ gone])
    /\ silent' = silent \ gone
    /\ UNCHANGED serving

Seen(p) ==
    /\ silent' = silent \ {p}
    /\ UNCHANGED <<listing, catalogue, serving>>

TimePasses ==
    /\ silent \subseteq silent'
    /\ UNCHANGED <<listing, catalogue, serving>>

\* The process ends and nothing is kept.
Forget ==
    /\ listing'   = Nobody
    /\ catalogue' = [f \in Files |-> NULL]
    /\ silent'    = {}
    /\ serving'   = FALSE

Restart ==
    /\ serving' = TRUE
    /\ UNCHANGED <<listing, catalogue, silent>>

Serve ==
    \/ \E f \in Files, p \in Addrs, h \in Hashes : Announce(f, p, h)
    \/ \E p \in Addrs, sharing \in SUBSET Files : Report(p, sharing)
    \/ \E f \in Files, p \in Addrs : Withdraw(f, p)
    \/ \E p \in Addrs : Leave({p}) \/ Seen(p)
    \/ Leave(silent)
    \/ TimePasses
    \/ Forget

Next == IF serving THEN Serve ELSE Restart

Spec == Init /\ [][Next]_vars
=============================================================================
