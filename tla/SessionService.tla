--------------------------- MODULE SessionService ---------------------------
(***************************************************************************)
(* What the control plane of the server promises to the users who create   *)
(* sessions, without queues, threads or promises: a creator is given at    *)
(* most one session, on a port nobody else holds while the session is      *)
(* open, and is told "ok" only about the session it was given.  Port NoPort*)
(* is the exception the code makes when all ports are taken: any number of *)
(* sessions can be given it.                                               *)
(***************************************************************************)
CONSTANTS CreateRequests, Sessions, Ports, NoPort, None

VARIABLES
  lease,  \* the port each open session holds
  given,  \* the session and port each creator was given
  told    \* what each creator has been told

serviceVars == <<lease, given, told>>

ServiceInit ==
  /\ lease = [s \in Sessions |-> None]
  /\ given = [r \in CreateRequests |-> None]
  /\ told = [r \in CreateRequests |-> "nothing"]

Give(r, s, p) ==
  /\ given[r] = None
  /\ lease[s] = None
  /\ p = NoPort \/ \A t \in Sessions : lease[t] # p
  /\ lease' = [lease EXCEPT ![s] = p]
  /\ given' = [given EXCEPT ![r] = [sid |-> s, ws_port |-> p]]
  /\ UNCHANGED told

TellOk(r) ==
  /\ told[r] = "nothing"
  /\ given[r] # None
  /\ told' = [told EXCEPT ![r] = "ok"]
  /\ UNCHANGED <<lease, given>>

\* An error can be reported at any time, also about a session that was given.
TellError(r) ==
  /\ told[r] = "nothing"
  /\ told' = [told EXCEPT ![r] = "error"]
  /\ UNCHANGED <<lease, given>>

Close(s) ==
  /\ lease[s] # None
  /\ lease' = [lease EXCEPT ![s] = None]
  /\ UNCHANGED <<given, told>>

ServiceNext ==
  \/ \E r \in CreateRequests, s \in Sessions, p \in Ports : Give(r, s, p)
  \/ \E r \in CreateRequests : TellOk(r) \/ TellError(r)
  \/ \E s \in Sessions : Close(s)

ServiceSpec == ServiceInit /\ [][ServiceNext]_serviceVars

-----------------------------------------------------------------------------
(* What a user may conclude from it.                                       *)

ServiceTypeOK ==
  /\ lease \in [Sessions -> Ports \cup {None}]
  /\ given \in [CreateRequests -> [sid : Sessions, ws_port : Ports] \cup {None}]
  /\ told \in [CreateRequests -> {"nothing", "ok", "error"}]

\* No port is held by two open sessions (SessionManager::find_free_port), but
\* for the one the code goes on with when all are taken.
LeasesExclusive ==
  \A s, t \in Sessions :
    s # t /\ lease[s] = lease[t] => lease[s] \in {NoPort, None}

\* Who was told ok was given a session (NetIO::handle_reply).
OkWasGiven == \A r \in CreateRequests : told[r] = "ok" => given[r] # None

\* What a creator was given is its for good, and what it was told is not taken
\* back, whatever the bus thread does for other creators (Server::circulate_messages).
AnswersLast ==
  [][\A r \in CreateRequests :
       /\ given[r] # None => given'[r] = given[r]
       /\ told[r] # "nothing" => told'[r] = told[r]]_serviceVars
=============================================================================
