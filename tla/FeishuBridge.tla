----------------------------- MODULE FeishuBridge -----------------------------
(***************************************************************************)
(* FeishuBridge (integrations/feishu.py): the connection to the messenger, *)
(* one thread per generation, started, stopped and restarted by requests   *)
(* of the gateway that may overlap, and the messages that arrive over it.  *)
(* Each section under self._lock and each statement of the database is a   *)
(* step.  The SDK's channel is external: it connects or fails, delivers a  *)
(* message at least once to any open connection, and may still be open     *)
(* while its thread has not noticed that it is out of date.                *)
(***************************************************************************)
EXTENDS Naturals, FiniteSets

CONSTANTS Callers,         \* threads of the gateway that change the connection
          Messages,        \* messages of one chat
          Handlers,        \* message handlers that may be in work at once
          MaxGenerations,  \* bound: starts and stops, _generation
          MaxCalls,        \* bound: requests of the callers
          MaxTrouble       \* bound: crashes and deletions of the chat's session

ASSUME BridgeAssumption == MaxGenerations \in Nat

VARIABLES enabled,      \* setting feishu_enabled
          generation,   \* self._generation
          thread,       \* self._thread: the generation it serves, 0 for None
          channel,      \* self._channel: the generation it belongs to, 0 for None
          conn,         \* conn[g]: where the thread of generation g is
          call,         \* call[c]: where the request of caller c is
          calls, trouble,
          stale,        \* a start used settings that had changed meanwhile (history variable)
          chatSession,  \* the chat's row of channel_sessions: a session number, 0 for none
          alive,        \* sessions that have a row
          created,      \* number of sessions created
          handler,      \* handler[h]: the message in work, [msg, from, session, pc]
          status,       \* status[m]: the row of channel_messages, "none" without one
          started       \* started[m]: runs started for m (history variable)

connection == <<enabled, generation, thread, channel, conn, call, calls, stale>>
messaging == <<chatSession, alive, created, handler, status, started>>
bridgeVars == <<connection, messaging, trouble>>

Generations == 1 .. MaxGenerations
NoMessage == [msg |-> "none", from |-> 0, session |-> 0, pc |-> "idle"]

Open == {"connecting", "serving"}
Alive(g) == g # 0 /\ conn[g] # "dead"

BridgeInit ==
  /\ enabled = TRUE
  /\ generation = 0 /\ thread = 0 /\ channel = 0
  /\ conn = [g \in Generations |-> "dead"]
  /\ call = [c \in Callers |-> "idle"]
  /\ calls = 0 /\ trouble = 0
  /\ stale = FALSE
  /\ chatSession = 0 /\ alive = {} /\ created = 0
  /\ handler = [h \in Handlers |-> NoMessage]
  /\ status = [m \in Messages |-> "none"]
  /\ started = [m \in Messages |-> 0]

(***************************************************************************)
(* Requests: update_settings, restart, start_integrations                  *)
(***************************************************************************)
\* update_settings saves the switch and then restarts
UpdateBridgeSettings(c, on) ==
  /\ call[c] = "idle" /\ c = CHOOSE d \in Callers : call[d] = "idle"
  /\ calls < MaxCalls
  /\ calls' = calls + 1
  /\ enabled' = on
  /\ call' = [call EXCEPT ![c] = "stop"]
  /\ UNCHANGED <<generation, thread, channel, conn, stale, messaging, trouble>>

\* start_integrations, before the gateway serves requests
StartIntegrations(c) ==
  /\ \A o \in Callers : call[o] = "idle"
  /\ c = CHOOSE d \in Callers : TRUE
  /\ \A g \in Generations : conn[g] = "dead"
  /\ calls < MaxCalls
  /\ calls' = calls + 1
  /\ call' = [call EXCEPT ![c] = "read"]
  /\ UNCHANGED <<enabled, generation, thread, channel, conn, stale, messaging, trouble>>

\* stop, first section: from here on the old thread is out of date
StopBridge(c) ==
  /\ call[c] = "stop" /\ generation < MaxGenerations
  /\ generation' = generation + 1
  /\ call' = [call EXCEPT ![c] = "join"]
  /\ UNCHANGED <<enabled, thread, channel, conn, calls, stale, messaging, trouble>>

\* stop, last section: the thread has ended or 4 seconds have passed
ClearBridge(c) ==
  /\ call[c] = "join"
  /\ channel' = 0 /\ thread' = 0
  /\ call' = [call EXCEPT ![c] = "read"]
  /\ UNCHANGED <<enabled, generation, conn, calls, stale, messaging, trouble>>

\* start reads the settings ...
ReadBridgeSettings(c) ==
  /\ call[c] = "read"
  /\ call' = [call EXCEPT ![c] = IF enabled THEN "start" ELSE "idle"]
  /\ UNCHANGED <<enabled, generation, thread, channel, conn, calls, stale, messaging, trouble>>

\* ... and starts the thread of a new generation, if none is alive
StartBridge(c) ==
  /\ call[c] = "start"
  /\ \/ /\ Alive(thread)
        /\ UNCHANGED <<generation, thread, conn, stale>>
     \/ /\ ~Alive(thread) /\ generation < MaxGenerations
        /\ generation' = generation + 1
        /\ thread' = generation + 1
        /\ conn' = [conn EXCEPT ![generation + 1] = "building"]
        /\ stale' = (stale \/ ~enabled)
  /\ call' = [call EXCEPT ![c] = "idle"]
  /\ UNCHANGED <<enabled, channel, calls, messaging, trouble>>

(***************************************************************************)
(* The thread of a generation: _thread_main and _serve                     *)
(***************************************************************************)
\* the finally of _thread_main: only the current thread clears the bridge
EndThread(g) ==
  /\ conn' = [conn EXCEPT ![g] = "dead"]
  /\ IF g = generation THEN channel' = 0 /\ thread' = 0 ELSE UNCHANGED <<channel, thread>>

\* variant: the thread does not look whether it is current
ServeAnyChannel(g) ==
  /\ conn[g] = "building"
  /\ channel' = g
  /\ conn' = [conn EXCEPT ![g] = "connecting"]
  /\ UNCHANGED <<enabled, generation, thread, call, calls, stale, messaging, trouble>>

\* the channel is built: it becomes the bridge's if the thread is still current
ServeChannel(g) ==
  /\ conn[g] = "building"
  /\ IF g = generation
     THEN /\ channel' = g
          /\ conn' = [conn EXCEPT ![g] = "connecting"]
          /\ UNCHANGED thread
     ELSE EndThread(g)
  /\ UNCHANGED <<enabled, generation, call, calls, stale, messaging, trouble>>

Connected(g) ==
  /\ conn[g] = "connecting"
  /\ IF g = generation
     THEN conn' = [conn EXCEPT ![g] = "serving"] /\ UNCHANGED <<channel, thread>>
     ELSE EndThread(g)
  /\ UNCHANGED <<enabled, generation, call, calls, stale, messaging, trouble>>

\* the SDK raises while it is built or connects, or the loop sees that it is
\* out of date (every 0.25 s, if no handler blocks it)
Disconnected(g) ==
  /\ \/ conn[g] \in {"building", "connecting"}
     \/ conn[g] = "serving" /\ g # generation
  /\ EndThread(g)
  /\ UNCHANGED <<enabled, generation, call, calls, stale, messaging, trouble>>

(***************************************************************************)
(* A message: _on_message and _process_message                             *)
(***************************************************************************)
\* the messenger delivers, to any connection, again and again; which of the idle
\* handlers takes the message does not matter
Deliver(h, g, m) ==
  /\ handler[h].pc = "idle" /\ h = CHOOSE i \in Handlers : handler[i].pc = "idle"
  /\ conn[g] \in Open
  /\ handler' = [handler EXCEPT ![h] = [msg |-> m, from |-> g, session |-> 0, pc |-> "claim"]]
  /\ UNCHANGED <<connection, chatSession, alive, created, status, started, trouble>>

\* variant: a message whose handling was cut off may be claimed again
ClaimFailedMessage(h) ==
  LET m == handler[h].msg
  IN /\ handler[h].pc = "claim"
     /\ handler' = [handler EXCEPT ![h] =
          IF status[m] \in {"none", "processing"} THEN [@ EXCEPT !.pc = "route"] ELSE NoMessage]
     /\ status' = [status EXCEPT ![m] = IF @ = "none" THEN "processing" ELSE @]
     /\ UNCHANGED <<connection, chatSession, alive, created, started, trouble>>

\* claim_channel_message: INSERT OR IGNORE, the row says who was first
ClaimMessage(h) ==
  LET m == handler[h].msg
  IN /\ handler[h].pc = "claim"
     /\ handler' = [handler EXCEPT ![h] =
          IF status[m] = "none" THEN [@ EXCEPT !.pc = "route"] ELSE NoMessage]
     /\ status' = [status EXCEPT ![m] = IF @ = "none" THEN "processing" ELSE @]
     /\ UNCHANGED <<connection, chatSession, alive, created, started, trouble>>

\* _process_message returns at once while the bridge has no channel, else it
\* looks for the chat's session
RouteMessage(h) ==
  /\ handler[h].pc = "route"
  /\ handler' = [handler EXCEPT ![h] =
       IF channel = 0 THEN [@ EXCEPT !.pc = "completed"]
       ELSE IF chatSession \in alive THEN [@ EXCEPT !.session = chatSession, !.pc = "run"]
       ELSE [@ EXCEPT !.pc = "create"]]
  /\ UNCHANGED <<connection, chatSession, alive, created, status, started, trouble>>

\* the command for a new conversation: a session whatever the mapping says,
\* and no run
NewConversation(h) ==
  /\ handler[h].pc = "route" /\ channel # 0
  /\ created' = created + 1
  /\ alive' = alive \cup {created + 1}
  /\ chatSession' = created + 1
  /\ handler' = [handler EXCEPT ![h].pc = "completed"]
  /\ UNCHANGED <<connection, status, started, trouble>>

CreateChatSession(h) ==
  /\ handler[h].pc = "create"
  /\ created' = created + 1
  /\ alive' = alive \cup {created + 1}
  /\ handler' = [handler EXCEPT ![h].session = created + 1, ![h].pc = "bind"]
  /\ UNCHANGED <<connection, chatSession, status, started, trouble>>

BindChatSession(h) ==
  /\ handler[h].pc = "bind"
  /\ chatSession' = handler[h].session
  /\ handler' = [handler EXCEPT ![h].pc = "run"]
  /\ UNCHANGED <<connection, alive, created, status, started, trouble>>

\* start_channel_run, after the attachments: it raises when the session is gone
\* or has an active run; a cloud document that cannot be read or an empty text
\* ends without a run
StartChannelRun(h) ==
  LET m == handler[h].msg
  IN /\ handler[h].pc = "run"
     /\ \/ /\ handler[h].session \in alive
           /\ started' = [started EXCEPT ![m] = @ + 1]
           /\ handler' = [handler EXCEPT ![h].pc = "completed"]
        \/ /\ started' = started
           /\ handler' = [handler EXCEPT ![h].pc = "failed"]
        \/ /\ handler[h].session \in alive
           /\ started' = started
           /\ handler' = [handler EXCEPT ![h].pc = "completed"]
     /\ UNCHANGED <<connection, chatSession, alive, created, status, trouble>>

\* finish_channel_message
FinishMessage(h) ==
  /\ handler[h].pc \in {"completed", "failed"}
  /\ status' = [status EXCEPT ![handler[h].msg] = handler[h].pc]
  /\ handler' = [handler EXCEPT ![h] = NoMessage]
  /\ UNCHANGED <<connection, chatSession, alive, created, started, trouble>>

\* the event loop of a thread that ends cancels its handlers, which then do not
\* reach finish_channel_message
CancelHandler(h) ==
  /\ handler[h].pc # "idle" /\ ~Alive(handler[h].from)
  /\ handler' = [handler EXCEPT ![h] = NoMessage]
  /\ UNCHANGED <<connection, chatSession, alive, created, status, started, trouble>>

(***************************************************************************)
(* Trouble                                                                 *)
(***************************************************************************)
Trouble == trouble < MaxTrouble /\ trouble' = trouble + 1

\* the user deletes the chat's session, or its mapping alone
DeleteChatSession ==
  /\ Trouble /\ chatSession # 0
  /\ alive' \in {alive, alive \ {chatSession}}
  /\ chatSession' = 0
  /\ UNCHANGED <<connection, created, handler, status, started>>

\* the process ends and starts again: the tables stay
CrashBridge ==
  /\ Trouble
  /\ thread' = 0 /\ channel' = 0
  /\ conn' = [g \in Generations |-> "dead"]
  /\ call' = [c \in Callers |-> "idle"]
  /\ handler' = [h \in Handlers |-> NoMessage]
  /\ UNCHANGED <<enabled, generation, calls, stale, chatSession, alive, created, status, started>>

-----------------------------------------------------------------------------
Gateway(c) ==
  \/ \E on \in BOOLEAN : UpdateBridgeSettings(c, on)
  \/ StartIntegrations(c)
  \/ StopBridge(c) \/ ClearBridge(c) \/ ReadBridgeSettings(c) \/ StartBridge(c)

Thread(g) == ServeChannel(g) \/ Connected(g) \/ Disconnected(g)

Handle(h) ==
  \/ \E g \in Generations, m \in Messages : Deliver(h, g, m)
  \/ ClaimMessage(h) \/ RouteMessage(h) \/ NewConversation(h)
  \/ CreateChatSession(h) \/ BindChatSession(h) \/ StartChannelRun(h)
  \/ FinishMessage(h) \/ CancelHandler(h)

BridgeNext ==
  \/ \E c \in Callers : Gateway(c)
  \/ \E g \in Generations : Thread(g)
  \/ \E h \in Handlers : Handle(h)
  \/ DeleteChatSession \/ CrashBridge

BridgeSpec == BridgeInit /\ [][BridgeNext]_bridgeVars

-----------------------------------------------------------------------------
\* A message of the messenger starts at most one run, although it is delivered
\* again after a reconnection, by an old and a new connection at once, and
\* after a crash (database.py:553-562).
MessageOnce == \A m \in Messages : started[m] <= 1

\* The bridge answers over the connection of its newest generation or over
\* none, except while a stop is still to clear it or that connection is still
\* being built; and once no request is in work, a connection that is current is
\* the one the bridge listens to and the settings want it - whichever restarts,
\* slow connects and 4-second timeouts overlapped (feishu.py:148-243).  The
\* exception is a start that read the settings just before another request
\* switched the bridge off.
ChannelIsCurrent ==
  /\ channel # 0 /\ (\A c \in Callers : call[c] # "join")
       => channel = generation \/ conn[generation] = "building"
  /\ generation # 0 /\ (\A c \in Callers : call[c] = "idle") /\ ~stale
       => (conn[generation] \in Open => enabled /\ channel = generation)
=============================================================================
