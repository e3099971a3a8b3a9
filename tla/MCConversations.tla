--------------------------- MODULE MCConversations ---------------------------
(* The modules about conversations share no state: a behaviour runs one of  *)
(* them and leaves the others where they began.                             *)
EXTENDS Conversations, SessionDocument, FeishuBridge

VARIABLE part

PartsInit ==
  /\ part \in {"runs", "document", "bridge"}
  /\ Init /\ DocumentInit /\ BridgeInit
  /\ part # "runs" => grant = "read" /\ \A s \in Sessions : type[s] = "chat"
  /\ (\A s \in Sessions : type[s] = "chat") => grant = "read"

RunsNext == part = "runs" /\ Next /\ UNCHANGED <<part, documentVars, bridgeVars>>
DocumentPartNext == part = "document" /\ DocumentNext /\ UNCHANGED <<part, vars, bridgeVars>>
BridgePartNext == part = "bridge" /\ BridgeNext /\ UNCHANGED <<part, vars, documentVars>>

PartsNext == RunsNext \/ DocumentPartNext \/ BridgePartNext

PartsSpec == PartsInit /\ [][PartsNext]_<<part, vars, documentVars, bridgeVars>>
=============================================================================
