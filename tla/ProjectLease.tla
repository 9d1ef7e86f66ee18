---------------------------- MODULE ProjectLease ----------------------------
(***************************************************************************)
(* What the project manager, the store and the handlers promise together   *)
(* for one project ID, without requests, locks, versions or failures: the  *)
(* ID is held by one generation at a time; its repository is complete      *)
(* whenever it is offered for use, is changed only while it is not, and    *)
(* never disappears under a process that uses it; the ID is not released   *)
(* while files of the generation remain.                                   *)
(***************************************************************************)
CONSTANTS Tokens,   \* creator tokens: the generations of the ID
          Nobody    \* the ID is free

VARIABLES holder,   \* the generation that holds the ID, or Nobody
          offered,  \* processes may start in its repository
          files,    \* its files: "none", "partial", "repo"
          users     \* generations with a process in their repository

vars == <<holder, offered, files, users>>

Init ==
    /\ holder = Nobody
    /\ offered = FALSE
    /\ files = "none"
    /\ users = {}

Reserve(t) ==
    /\ holder = Nobody
    /\ holder' = t
    /\ UNCHANGED <<offered, files, users>>

\* Files are built and removed while no process may use them.
ChangeFiles ==
    /\ holder # Nobody
    /\ ~offered
    /\ users = {}
    /\ files' \in {"none", "partial", "repo"}
    /\ UNCHANGED <<holder, offered, users>>

Offer ==
    /\ holder # Nobody
    /\ files = "repo"
    /\ ~offered
    /\ offered' = TRUE
    /\ UNCHANGED <<holder, files, users>>

Withdraw ==
    /\ offered
    /\ users = {}
    /\ offered' = FALSE
    /\ UNCHANGED <<holder, files, users>>

Enter ==
    /\ offered
    /\ users' = users \cup {holder}
    /\ UNCHANGED <<holder, offered, files>>

Leave ==
    /\ users' \in SUBSET users
    /\ UNCHANGED <<holder, offered, files>>

Release ==
    /\ ~offered
    /\ files = "none"
    /\ holder' = Nobody
    /\ UNCHANGED <<offered, files, users>>

Next ==
    \/ \E t \in Tokens : Reserve(t)
    \/ ChangeFiles
    \/ Offer
    \/ Withdraw
    \/ Enter
    \/ Leave
    \/ Release

Spec == Init /\ [][Next]_vars
=============================================================================
