---------------------------- MODULE EventDelivery ----------------------------
(***************************************************************************)
(* How the events of one run reach those who show it: the list that        *)
(* AssistantService keeps (application/service.py), the /events WebSocket   *)
(* of the gateway (api/app.py), the desktop client that reconnects          *)
(* (desktop/src/lib/gateway.ts) and the Feishu reply that polls the same    *)
(* list (integrations/feishu.py).                                           *)
(*                                                                          *)
(* The run is RunService's, reduced to what a reader of its list sees: the  *)
(* events it records and the place among them where its status is set.      *)
(***************************************************************************)
EXTENDS Naturals, Sequences, FiniteSets, SequencesExt, Lists

CONSTANTS
  Kinds,     \* how the run may go: "answered", "stopped", "static", ...
  Deltas,    \* message.delta events of an answer
  Limit,     \* AssistantService.event_limit (2000, at least 100, in the code)
  MaxDrops   \* bound: connections lost

ASSUME DeliveryConstants ==
  /\ Kinds \subseteq {"answered", "stopped", "failed", "cancelled", "static"}
  /\ Deltas \in Nat /\ MaxDrops \in Nat /\ Limit \in Nat \ {0}

VARIABLES
  kind,    \* how this run goes
  script,  \* what it has still to do
  total,   \* sequence number of its last event
  events,  \* run.events
  status,  \* run.status
  server,  \* events_socket: where it is, last_sequence, the batch it sends
  net,     \* what is on its way to the client
  client,  \* connectEvents: where it is, lastSequence, what it handed on
  drops,
  reply    \* FeishuBridge._reply_with_run: where it is, sequence, answer, shown

vars == <<kind, script, total, events, status, server, net, client, drops, reply>>

Terminal == {"completed", "cancelled", "failed"}

(* The order of events and of the assignment of run.status.  _run_agent sets *)
(* the status after ask has recorded its events, but before the event it     *)
(* emits itself for an exception; _run_static sets it before its last two.   *)
(* A run that reaches a limit ends with run.completed and "stopped".         *)
Scripts(k) ==
  LET begun == <<"started">> \o [i \in 1..Deltas |-> "delta"]
  IN  CASE k = "answered" -> {begun \o <<"answer", "end", "status">>}
        [] k = "stopped"  -> {begun \o <<"end", "status">>}
        [] k = "static"   -> {<<"started", "status", "answer", "end">>}
        [] OTHER          -> {begun \o <<"end", "status">>, begun \o <<"status", "end">>}

LastStatus(k) == IF k \in {"answered", "static"} THEN "completed" ELSE k

Init ==
  /\ kind \in Kinds /\ script \in Scripts(kind)
  /\ total = 0 /\ events = <<>> /\ status = "running"
  /\ server = [at |-> "gone", last |-> 0, batch |-> <<>>] /\ net = <<>>
  /\ client = [at |-> "connecting", last |-> 0, applied |-> <<>>] /\ drops = 0
  /\ reply = [at |-> "read", sequence |-> 0, answer |-> "none", shown |-> "thinking"]

-----------------------------------------------------------------------------
(* The run *)

(* _record_event keeps the newest Limit events. *)
Kept(list) == IF Len(list) > Limit THEN SubSeq(list, Len(list) - Limit + 1, Len(list)) ELSE list

RecordEvent ==
  /\ script # <<>> /\ Head(script) # "status"
  /\ total' = total + 1
  /\ events' = Kept(Append(events, [sequence |-> total + 1, type |-> Head(script)]))
  /\ script' = Tail(script)
  /\ UNCHANGED <<kind, status, server, net, client, drops, reply>>

SetStatus ==
  /\ script # <<>> /\ Head(script) = "status"
  /\ status' = LastStatus(kind) /\ script' = Tail(script)
  /\ UNCHANGED <<kind, total, events, server, net, client, drops, reply>>

(* get_events *)
EventsAfter(after) == Filter(events, {e \in ToSet(events) : e.sequence > after})

-----------------------------------------------------------------------------
(* events_socket *)

ReadEvents ==
  /\ server.at = "read"
  /\ server' = [server EXCEPT !.at = "send", !.batch = EventsAfter(server.last)]
  /\ UNCHANGED <<kind, script, total, events, status, net, client, drops, reply>>

SendEvent ==
  /\ server.at = "send" /\ server.batch # <<>>
  /\ net' = Append(net, Head(server.batch))
  /\ server' = [server EXCEPT !.last = Head(server.batch).sequence, !.batch = Tail(@)]
  /\ UNCHANGED <<kind, script, total, events, status, client, drops, reply>>

Close == [sequence |-> 0, type |-> "close"]   \* close(code=1000)

(* The status is read after the events were sent. *)
CheckStatus ==
  /\ server.at = "send" /\ server.batch = <<>>
  /\ IF status \in Terminal
     THEN server' = [server EXCEPT !.at = "gone"] /\ net' = Append(net, Close)
     ELSE server' = [server EXCEPT !.at = "read"] /\ UNCHANGED net
  /\ UNCHANGED <<kind, script, total, events, status, client, drops, reply>>

-----------------------------------------------------------------------------
(* connectEvents *)

(* mutant: the server goes on from its own cursor *)
ConnectAtServerCursor ==
  /\ client.at = "connecting"
  /\ client' = [client EXCEPT !.at = "open"]
  /\ server' = [server EXCEPT !.at = "read", !.batch = <<>>]
  /\ UNCHANGED <<kind, script, total, events, status, net, drops, reply>>

Connect ==
  /\ client.at = "connecting"
  /\ client' = [client EXCEPT !.at = "open"]
  /\ server' = [at |-> "read", last |-> client.last, batch |-> <<>>]
  /\ UNCHANGED <<kind, script, total, events, status, net, drops, reply>>

IsNew(e) == e.sequence > client.last

Receive ==
  LET e == Head(net)
  IN  /\ client.at = "open" /\ net # <<>>
      /\ net' = Tail(net)
      /\ client' = CASE e = Close -> [client EXCEPT !.at = "closed"]
                     [] e # Close /\ IsNew(e) ->
                          [client EXCEPT !.last = e.sequence, !.applied = Append(@, e)]
                     [] OTHER -> client
      /\ UNCHANGED <<kind, script, total, events, status, server, drops, reply>>

(* The connection is lost with what is on its way; the client sees a close   *)
(* code other than 1000 and sets its timer.                                  *)
Drop ==
  /\ client.at = "open" /\ drops < MaxDrops
  /\ drops' = drops + 1 /\ net' = <<>>
  /\ server' = [server EXCEPT !.at = "gone", !.batch = <<>>]
  /\ client' = [client EXCEPT !.at = "waiting"]
  /\ UNCHANGED <<kind, script, total, events, status, reply>>

(* mutant: only the first loss is retried *)
RetryOnce ==
  /\ client.at = "waiting" /\ drops = 1
  /\ client' = [client EXCEPT !.at = "connecting"]
  /\ UNCHANGED <<kind, script, total, events, status, server, net, drops, reply>>

Retry ==
  /\ client.at = "waiting"
  /\ client' = [client EXCEPT !.at = "connecting"]
  /\ UNCHANGED <<kind, script, total, events, status, server, net, drops, reply>>

(* The function connectEvents returns: the window leaves the run. *)
Disconnect ==
  /\ client.at \in {"connecting", "open", "waiting"}
  /\ client' = [client EXCEPT !.at = "left"]
  /\ server' = [server EXCEPT !.at = "gone", !.batch = <<>>] /\ net' = <<>>
  /\ UNCHANGED <<kind, script, total, events, status, drops, reply>>

-----------------------------------------------------------------------------
(* _reply_with_run: producer, and _wait_for_run after the stream failed *)

Types(list) == {list[i].type : i \in DOMAIN list}

AnswerWith(answer, list) ==
  CASE "answer" \in Types(list) -> "full"
    [] "answer" \notin Types(list) /\ answer = "none" /\ "delta" \in Types(list) -> "partial"
    [] OTHER -> answer

PollEvents ==
  LET new == EventsAfter(reply.sequence)
  IN  /\ reply.at = "read"
      /\ reply' = [reply EXCEPT !.at = "status", !.answer = AnswerWith(@, new),
                                !.sequence = IF new = <<>> THEN @ ELSE Last(new).sequence]
      /\ UNCHANGED <<kind, script, total, events, status, server, net, client, drops>>

(* What the reply says at the end: run.answer only when no event gave one. *)
FinalText ==
  CASE status = "failed" -> "failed"
    [] status = "cancelled" -> "cancelled"
    [] status = "completed" /\ reply.answer = "none" -> "full"
    [] OTHER -> reply.answer

PollStatus ==
  /\ reply.at = "status"
  /\ IF status \in Terminal
     THEN reply' = [reply EXCEPT !.at = "done", !.shown = FinalText]
     ELSE \E shown \in {reply.shown, IF reply.answer = "none" THEN reply.shown ELSE reply.answer} :
            reply' = [reply EXCEPT !.at = "read", !.shown = shown]
  /\ UNCHANGED <<kind, script, total, events, status, server, net, client, drops>>

StreamFails ==
  /\ reply.at \in {"read", "status"}
  /\ reply' = [reply EXCEPT !.at = "wait"]
  /\ UNCHANGED <<kind, script, total, events, status, server, net, client, drops>>

WaitForRun ==
  /\ reply.at = "wait" /\ status \in Terminal
  /\ reply' = [reply EXCEPT !.at = "done",
                 !.shown = IF status = "completed" THEN "full" ELSE status]
  /\ UNCHANGED <<kind, script, total, events, status, server, net, client, drops>>

-----------------------------------------------------------------------------
RunStep == RecordEvent \/ SetStatus
ServerStep == ReadEvents \/ SendEvent \/ CheckStatus
ClientStep == Connect \/ Receive \/ Retry
ReplyStep == PollEvents \/ PollStatus \/ WaitForRun

Next == RunStep \/ ServerStep \/ ClientStep \/ ReplyStep \/ Drop \/ Disconnect \/ StreamFails

Spec == Init /\ [][Next]_vars

(* The run's thread, the gateway's loop and the client's timers go on; the   *)
(* network need not fail and the window need not leave.                      *)
FairSpec ==
  Spec /\ WF_vars(RunStep) /\ WF_vars(ServerStep) /\ WF_vars(ClientStep) /\ WF_vars(ReplyStep)

-----------------------------------------------------------------------------
(* A client applies each event at most once and in order, over any number of *)
(* lost connections, and misses only what the list had already dropped.      *)
AppliedOnceInOrder ==
  LET applied == client.applied
  IN  /\ \A i, j \in DOMAIN applied : i < j => applied[i].sequence < applied[j].sequence
      /\ \A n \in 1..client.last :
           \/ \E i \in DOMAIN applied : applied[i].sequence = n
           \/ n <= total - Limit

(* A run in a terminal status closes the socket of every client that stays,  *)
(* and ends the Feishu reply.                                                *)
TerminalEndsStreams ==
  (status \in Terminal) ~> (client.at \in {"closed", "left"} /\ reply.at = "done")

(* The event that ends a run ends the streams that show it: service.py keeps *)
(* "terminal events last".  A run that reached a limit has the status        *)
(* "stopped", which neither reader counts as the end.                        *)
EndClosesStreams ==
  (total > 0 /\ script = <<>>) ~> (client.at \in {"closed", "left"} /\ reply.at = "done")

=============================================================================
