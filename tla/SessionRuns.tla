---------------------------- MODULE SessionRuns ----------------------------
(***************************************************************************)
(* What the run service promises of a session: it has at most one live     *)
(* run, a run lives once, and a risky tool begins only in a live run that  *)
(* has not been cancelled.  RunService implements this specification.      *)
(***************************************************************************)
EXTENDS Naturals

CONSTANTS Sessions, Runs, None

VARIABLES
  live,     \* the live run of each session, or None
  over,     \* runs that have ended
  revoked,  \* runs that have been cancelled
  acting    \* runs in the middle of a risky tool call

absVars == <<live, over, revoked, acting>>

AbsInit ==
  /\ live = [s \in Sessions |-> None]
  /\ over = {}
  /\ revoked = {}
  /\ acting = {}

IsLive(r) == \E s \in Sessions : live[s] = r

\* A session without a live run takes a run that has never lived.
StartRun(s, r) ==
  /\ live[s] = None
  /\ ~IsLive(r) /\ r \notin over
  /\ live' = [live EXCEPT ![s] = r]
  /\ UNCHANGED <<over, revoked, acting>>

\* A live run ends; it is not in the middle of a tool call.
EndRun(s, r) ==
  /\ live[s] = r
  /\ r \notin acting
  /\ live' = [live EXCEPT ![s] = None]
  /\ over' = over \cup {r}
  /\ UNCHANGED <<revoked, acting>>

\* Runs are cancelled, at any time and as often as one likes.
Revoke(R) ==
  /\ revoked' = revoked \cup R
  /\ UNCHANGED <<live, over, acting>>

\* A live run that is not cancelled begins a risky tool call.
BeginTool(r) ==
  /\ IsLive(r)
  /\ r \notin revoked \cup acting
  /\ acting' = acting \cup {r}
  /\ UNCHANGED <<live, over, revoked>>

EndTool(r) ==
  /\ acting' = acting \ {r}
  /\ UNCHANGED <<live, over, revoked>>

AbsNext ==
  \/ \E s \in Sessions, r \in Runs : StartRun(s, r) \/ EndRun(s, r)
  \/ \E R \in SUBSET Runs : Revoke(R)
  \/ \E r \in Runs : BeginTool(r) \/ EndTool(r)

AbsSpec == AbsInit /\ [][AbsNext]_absVars
=============================================================================
