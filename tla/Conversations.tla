---------------------------- MODULE Conversations ----------------------------
(***************************************************************************)
(* The desktop's conversations: DesktopController (application/            *)
(* controller.py) over the sessions table, the session files               *)
(* (session_store.py), the cache of agents and the runs of                 *)
(* AssistantService.  Requests come from threads of the gateway and from   *)
(* the Feishu bridge; every read and write of a shared store is a step of  *)
(* its own, since nothing holds a lock across two of them.                 *)
(*                                                                         *)
(* An agent is an object on the heap that loads the session file when it   *)
(* is built, saves it at once (Poppy.__init__) and from then on rewrites   *)
(* the whole file at every message it records.  A message is named by its  *)
(* run and its place in the run.  The first half of start_run, which       *)
(* settles the document of the run, is in SessionDocument.                 *)
(***************************************************************************)
EXTENDS Naturals, FiniteSets, Sequences

CONSTANTS Sessions,      \* session ids
          Requests,      \* threads that serve requests
          MaxRequests,   \* bound: requests served
          MaxItems,      \* bound: messages a run records
          MaxOdd         \* bound: changes of settings and grants, crashes

VARIABLES type,       \* type[s]: "chat" or "project"
          exists,     \* exists[s]: the session has a row
          file,       \* file[s]: messages in the session file, or NoFile
          grant,      \* what the project folder's grant allows: "none", "read", "write"
          settings,   \* version of the model settings
          agents,     \* sequence of the agents built, [session, sign, tools, history]
          cached,     \* cached[s]: index in agents, 0 for none (_agents, _agent_signatures)
          runs,       \* sequence of runs
          req,        \* req[q]: the request thread q serves
          served, odd,
          said,       \* said[s]: every message recorded (history variable)
          forked      \* forked[s]: two agents of s were in use at once (history variable)

store == <<exists, file>>
config == <<type, grant, settings>>
ghosts == <<said, forked>>
vars == <<store, config, agents, cached, runs, req, served, odd, ghosts>>

NoFile == {<<0, 0>>}    \* no run has number 0
Idle == [kind |-> "none", pc |-> "idle"]

At(q, pc) == req[q].pc = pc
Goto(q, pc) == req' = [req EXCEPT ![q].pc = pc]
Return(q) == req' = [req EXCEPT ![q] = Idle]
Pending(s, pcs) == {q \in Requests : req[q].pc \in pcs /\ req[q].s = s}
ActiveRuns(s) == {r \in DOMAIN runs : runs[r].active /\ runs[r].s = s}

(***************************************************************************)
(* Tools and signatures                                                    *)
(***************************************************************************)
\* the tools of an agent: a chat gets the system tools when the request
\* activates tools, a project what its grant allows; a remote request reads only
ToolsFor(t, activate, readOnly, g) ==
  IF t = "chat"
  THEN IF activate /\ ~readOnly THEN {"library", "system"} ELSE {}
  ELSE {"read"} \cup (IF g = "write" /\ ~readOnly THEN {"write"} ELSE {})

\* variant: read-only requests share the agents of the others
SignatureNoReadOnly(t, activate, readOnly, g, version) ==
  [type |-> t, activate |-> activate, readOnly |-> FALSE,
   grant |-> IF t = "chat" THEN "none" ELSE g, settings |-> version]

Signature(t, activate, readOnly, g, version) ==
  [type |-> t, activate |-> activate, readOnly |-> readOnly,
   grant |-> IF t = "chat" THEN "none" ELSE g, settings |-> version]

-----------------------------------------------------------------------------
\* create_session is served before: each session has its row, its file and an
\* agent built with tools not activated
Init ==
  /\ type \in [Sessions -> {"chat", "project"}]
  /\ exists = [s \in Sessions |-> TRUE]
  /\ file = [s \in Sessions |-> {}]
  /\ grant \in {"read", "write"}
  /\ settings = 0
  /\ agents = <<>>
  /\ cached = [s \in Sessions |-> 0]
  /\ runs = <<>>
  /\ req = [q \in Requests |-> Idle]
  /\ served = 0 /\ odd = 0
  /\ said = [s \in Sessions |-> {}]
  /\ forked = [s \in Sessions |-> FALSE]

\* which of the idle threads serves a request does not matter
Begin(q, request) ==
  /\ At(q, "idle") /\ q = CHOOSE p \in Requests : At(p, "idle")
  /\ served < MaxRequests
  /\ served' = served + 1
  /\ req' = [req EXCEPT ![q] = request]

(***************************************************************************)
(* start_run                                                               *)
(***************************************************************************)
\* reads the row; readOnly is a request of the Feishu bridge, activate
\* everything but a quick context
BeginStart(q, s, activate, readOnly) ==
  /\ exists[s]
  /\ readOnly => activate
  /\ Begin(q, [kind |-> "start", s |-> s, pc |-> "agent", activate |-> activate, readOnly |-> readOnly,
               grants |-> {grant}, raced |-> \E p \in Requests : At(p, "drop"),
               agent |-> 0, loaded |-> {}, sign |-> <<>>])
  /\ UNCHANGED <<store, config, agents, cached, runs, odd, ghosts>>

\* _get_agent: the grant, the settings and the cache
LookUpAgent(q) ==
  LET s == req[q].s
      sign == Signature(type[s], req[q].activate, req[q].readOnly, grant, settings)
      c == cached[s]
  IN /\ At(q, "agent")
     /\ \/ /\ type[s] = "project" /\ grant = "none"
           /\ Return(q)
        \/ /\ type[s] = "chat" \/ grant # "none"
           /\ req' = IF c # 0 /\ agents[c].sign = sign
                     THEN [req EXCEPT ![q].agent = c, ![q].pc = "launch"]
                     ELSE [req EXCEPT ![q].sign = sign, ![q].pc = "load"]
     /\ UNCHANGED <<store, config, agents, cached, runs, served, odd, ghosts>>

\* variant: the rebuilt agent starts with an empty conversation
LoadSessionEmpty(q) ==
  /\ At(q, "load")
  /\ req' = [req EXCEPT ![q].pc = "build"]
  /\ UNCHANGED <<store, config, agents, cached, runs, served, odd, ghosts>>

\* Poppy.from_session reads the file ...
LoadSession(q) ==
  /\ At(q, "load")
  /\ req' = [req EXCEPT ![q] = IF file[req[q].s] = NoFile THEN Idle
                               ELSE [@ EXCEPT !.loaded = file[req[q].s], !.pc = "build"]]
  /\ UNCHANGED <<store, config, agents, cached, runs, served, odd, ghosts>>

\* ... Poppy.__init__ builds the tools and writes the file back, and the agent
\* replaces the cached one
BuildAgent(q) ==
  LET s == req[q].s
      sg == req[q].sign
  IN /\ At(q, "build")
     /\ agents' = Append(agents,
          [s |-> s, sign |-> sg, history |-> req[q].loaded,
           tools |-> ToolsFor(sg.type, sg.activate, req[q].readOnly, sg.grant)])
     /\ cached' = [cached EXCEPT ![s] = Len(agents) + 1]
     /\ file' = [file EXCEPT ![s] = req[q].loaded]
     /\ req' = [req EXCEPT ![q].agent = Len(agents) + 1, ![q].pc = "launch",
                             ![q].loaded = {}, ![q].sign = <<>>]
     /\ forked' = [forked EXCEPT ![s] = @ \/ ActiveRuns(s) # {}
                                          \/ Pending(s, {"build", "launch"}) # {q}]
     /\ UNCHANGED <<exists, config, runs, served, odd, said>>

\* AssistantService.start_run: refused while the session has an active run
LaunchRun(q) ==
  /\ At(q, "launch")
  /\ runs' = IF ActiveRuns(req[q].s) # {} THEN runs
             ELSE Append(runs, [s |-> req[q].s, agent |-> req[q].agent, active |-> TRUE,
                                cancelled |-> FALSE, items |-> 0,
                                activate |-> req[q].activate, readOnly |-> req[q].readOnly,
                                grants |-> req[q].grants, raced |-> req[q].raced])
  /\ Return(q)
  /\ UNCHANGED <<store, config, agents, cached, served, odd, ghosts>>

(***************************************************************************)
(* A run's thread                                                          *)
(***************************************************************************)
\* Poppy.record: the message joins the agent's history and the whole history
\* replaces the file
RecordMessage(r) ==
  LET s == runs[r].s
      a == runs[r].agent
      item == <<r, runs[r].items>>
  IN /\ runs[r].active /\ runs[r].items < MaxItems
     /\ runs' = [runs EXCEPT ![r].items = @ + 1]
     /\ agents' = [agents EXCEPT ![a].history = @ \cup {item}]
     /\ file' = [file EXCEPT ![s] = agents'[a].history]
     /\ said' = [said EXCEPT ![s] = @ \cup {item}]
     /\ forked' = [forked EXCEPT ![s] = @ \/ Pending(s, {"build"}) # {}]
     /\ UNCHANGED <<exists, config, cached, req, served, odd>>

\* the thread ends; what the run was is of no use any more
Ended(run) == [run EXCEPT !.active = FALSE, !.cancelled = FALSE, !.activate = FALSE, !.agent = 0,
                          !.items = 0, !.readOnly = FALSE, !.grants = {}, !.raced = FALSE]

EndRun(r) ==
  /\ runs[r].active
  /\ runs' = [runs EXCEPT ![r] = Ended(@)]
  /\ UNCHANGED <<store, config, agents, cached, req, served, odd, ghosts>>

(***************************************************************************)
(* delete_session and delete_grant                                         *)
(***************************************************************************)
BeginDelete(q, s) ==
  /\ exists[s] /\ ActiveRuns(s) = {}
  /\ Begin(q, [kind |-> "delete", s |-> s, pc |-> "forget"])
  /\ UNCHANGED <<store, config, agents, cached, runs, odd, ghosts>>

ForgetAgent(q) ==
  /\ At(q, "forget")
  /\ cached' = [cached EXCEPT ![req[q].s] = 0]
  /\ Goto(q, "row")
  /\ UNCHANGED <<store, config, agents, runs, served, odd, ghosts>>

DeleteRow(q) ==
  /\ At(q, "row")
  /\ exists' = [exists EXCEPT ![req[q].s] = FALSE]
  /\ IF exists[req[q].s] THEN Goto(q, "unlink") ELSE Return(q)
  /\ UNCHANGED <<file, config, agents, cached, runs, served, odd, ghosts>>

UnlinkFile(q) ==
  /\ At(q, "unlink")
  /\ file' = [file EXCEPT ![req[q].s] = NoFile]
  /\ Return(q)
  /\ UNCHANGED <<exists, config, agents, cached, runs, served, odd, ghosts>>

\* delete_grant: the runs of the folder's sessions are cancelled, of those that
\* list_sessions returns ...
BeginDeleteGrant(q) ==
  /\ grant # "none"
  /\ Begin(q, [kind |-> "revoke", s |-> "none", pc |-> "cancel"])
  /\ UNCHANGED <<store, config, agents, cached, runs, odd, ghosts>>

Raced(requests) ==
  [p \in Requests |-> IF requests[p].kind = "start" THEN [requests[p] EXCEPT !.raced = TRUE]
                      ELSE requests[p]]

\* variant: the grant goes without a word to the runs
CancelNoRuns(q) ==
  /\ At(q, "cancel")
  /\ req' = Raced([req EXCEPT ![q].pc = "drop"])
  /\ UNCHANGED <<store, config, agents, cached, runs, served, odd, ghosts>>

CancelFolderRuns(q) ==
  /\ At(q, "cancel")
  /\ runs' = [r \in DOMAIN runs |->
       [runs[r] EXCEPT !.cancelled = @ \/ (runs[r].active /\ exists[runs[r].s] /\ type[runs[r].s] = "project")]]
  /\ req' = Raced([req EXCEPT ![q].pc = "drop"])
  /\ UNCHANGED <<store, config, agents, cached, served, odd, ghosts>>

\* requests that are starting have seen this grant too
Seen(g) == [p \in Requests |->
  IF req[p].kind = "start" THEN [req[p] EXCEPT !.grants = @ \cup {g}] ELSE req[p]]

\* ... and then the grant goes
DropGrant(q) ==
  /\ At(q, "drop")
  /\ grant' = "none"
  /\ req' = [Seen("none") EXCEPT ![q] = Idle]
  /\ UNCHANGED <<store, type, settings, agents, cached, runs, served, odd, ghosts>>

(***************************************************************************)
(* The rest of the world                                                   *)
(***************************************************************************)
Odd == odd < MaxOdd /\ odd' = odd + 1

\* add_grant: a new grant, or the old one with other rights
AddGrant(g) ==
  /\ Odd /\ g # grant
  /\ grant' = g
  /\ req' = Seen(g)
  /\ UNCHANGED <<store, type, settings, agents, cached, runs, served, ghosts>>

UpdateSettings ==
  /\ Odd
  /\ settings' = settings + 1
  /\ UNCHANGED <<store, type, grant, agents, cached, runs, req, served, ghosts>>

\* the process ends and starts again: rows and files stay
Crash ==
  /\ Odd
  /\ req' = [q \in Requests |-> Idle]
  /\ runs' = [r \in DOMAIN runs |-> Ended(runs[r])]
  /\ cached' = [s \in Sessions |-> 0]
  /\ UNCHANGED <<store, config, agents, served, ghosts>>

-----------------------------------------------------------------------------
Request(q) ==
  \/ \E s \in Sessions, activate, readOnly \in BOOLEAN : BeginStart(q, s, activate, readOnly)
  \/ LookUpAgent(q) \/ LoadSession(q) \/ BuildAgent(q) \/ LaunchRun(q)
  \/ \E s \in Sessions : BeginDelete(q, s)
  \/ ForgetAgent(q) \/ DeleteRow(q) \/ UnlinkFile(q)
  \/ BeginDeleteGrant(q) \/ CancelFolderRuns(q) \/ DropGrant(q)

RunThread == \E r \in DOMAIN runs : RecordMessage(r) \/ EndRun(r)

World ==
  \/ \E g \in {"read", "write"} : AddGrant(g)
  \/ UpdateSettings
  \/ Crash

Next == (\E q \in Requests : Request(q)) \/ RunThread \/ World

Spec == Init /\ [][Next]_vars

-----------------------------------------------------------------------------
\* No message of a conversation is lost: whatever was recorded is in the
\* session's file and in the agent the next request will find, however often
\* agents are rebuilt, runs start and the process restarts.  The exception is a
\* session of which two agents were in use at once: the new agent was loaded
\* while a run was still recording into the old one (controller.py:690, the
\* service refuses the second run only after the agent was replaced).
HistoryKept ==
  \A s \in Sessions : exists[s] /\ ~forked[s] =>
    /\ file[s] # NoFile /\ said[s] \subseteq file[s]
    /\ cached[s] # 0 => said[s] \subseteq agents[cached[s]].history

\* A run works with the tools its start asked for: read only when it came from
\* the channel, the system tools only when they were activated, writing only if
\* the folder's grant allowed it at some moment of the request - although the
\* agent may have been built for another request (controller.py:669-698).
RunHasItsTools ==
  \A r \in DOMAIN runs : runs[r].active => \E g \in runs[r].grants :
    agents[runs[r].agent].tools
      = ToolsFor(type[runs[r].s], runs[r].activate, runs[r].readOnly, g)

\* After delete_grant no run of the folder goes on uncancelled, unless its start
\* and the deletion overlapped, or its session was deleted while it was starting:
\* delete_grant finds runs by the rows of their sessions (controller.py:133-142,
\* 522-531).
RevokedRunsStop ==
  grant = "none" =>
    \A r \in DOMAIN runs :
      runs[r].active /\ type[runs[r].s] = "project"
        => runs[r].cancelled \/ runs[r].raced \/ ~exists[runs[r].s]
=============================================================================
