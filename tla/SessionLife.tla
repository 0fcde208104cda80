----------------------------- MODULE SessionLife -----------------------------
(***************************************************************************)
(* What the two sides of the server may assume of each other about one     *)
(* session: the bus thread hands it out and starts its event loop, the     *)
(* loop closes it and ends.  SessionControl has the threads behind this    *)
(* and SessionLife for each of its sessions; CollabSession has the         *)
(* messages the loop handles, for one.                                     *)
(***************************************************************************)
VARIABLES
  active,  \* Session::active
  loop,    \* "running", "stopping" (stop() called, or run() failed), "ended"
  bus      \* "taken" from setActive(true) until startServer(), else "idle"

lifeVars == <<active, loop, bus>>

\* A session nobody has had yet, or one that has just been started.
LifeInit ==
  /\ bus = "idle"
  /\ \/ ~active /\ loop = "ended"
     \/ active /\ loop = "running"

\* Only a session nobody holds is handed out; its old loop may still turn.
Take ==
  /\ bus = "idle"
  /\ ~active
  /\ bus' = "taken"
  /\ active' = TRUE
  /\ UNCHANGED loop

\* A loop that has been asked to stop is neither stopped nor started anew.
Start ==
  /\ bus = "taken"
  /\ bus' = "idle"
  /\ loop' = IF loop = "ended" THEN "running" ELSE loop
  /\ UNCHANGED active

\* The loop marks the session inactive no earlier than it is asked to stop, and
\* goes on with what it has polled, perhaps another close.
Close ==
  /\ loop \in {"running", "stopping"}
  /\ loop' = "stopping"
  /\ active' = FALSE
  /\ UNCHANGED bus

\* The port could not be bound: the session stays active.
FailToBind ==
  /\ loop = "running"
  /\ loop' = "stopping"
  /\ UNCHANGED <<active, bus>>

End ==
  /\ loop = "stopping"
  /\ loop' = "ended"
  /\ UNCHANGED <<active, bus>>

LifeNext == Take \/ Start \/ Close \/ FailToBind \/ End

LifeSpec == LifeInit /\ [][LifeNext]_lifeVars
=============================================================================
