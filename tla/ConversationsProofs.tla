-------------------------- MODULE ConversationsProofs --------------------------
(***************************************************************************)
(* Theorems about the desktop's conversations, for any sessions, request   *)
(* threads, documents and bounds: what a session's row says of its         *)
(* document, what a session's file and its agent remember, what a run may  *)
(* do and when it is told to stop; and about the Feishu bridge: a message  *)
(* starts one run at most, and the bridge answers over its newest          *)
(* connection.                                                             *)
(***************************************************************************)
EXTENDS Conversations, SessionDocument, FeishuBridge, SequenceTheorems, TLAPS

-----------------------------------------------------------------------------
(* SessionDocument                                                          *)

Locking(w) == writer[w].pc = "scope" /\ writer[w].kind # "setLock"

DocumentTypes ==
  /\ live \in BOOLEAN /\ torn \in BOOLEAN
  /\ writer \in [Writers -> [kind : {"none", "start", "setScope", "setLock"}, doc : Documents \cup {None},
                             read : Documents \cup {None}, pc : {"idle", "choose", "lock", "scope", "relock"},
                             checked : BOOLEAN]]
  /\ lock \in Documents \cup {None}

\* Only set_session_document_lock writes the lock last, and then the document it
\* has written to the scope, unless that was dropped since.
WriterInv(w) ==
  /\ writer[w].pc \in {"choose", "lock"} => writer[w].kind # "setLock"
  /\ writer[w].pc = "relock" => writer[w].kind = "setLock"
  /\ live /\ ~torn /\ writer[w].pc = "relock" => writer[w].doc = scope \/ ~Indexed(w)

DocumentInv ==
  /\ DocumentTypes
  /\ \A w \in Writers : WriterInv(w)
  /\ live /\ ~torn /\ (\A w \in Writers : ~Locking(w)) => lock = scope

\* No request is between its two statements at the beginning.
LEMMA DocumentStart == DocumentInit => DocumentInv
<1> SUFFICES ASSUME DocumentInit PROVE DocumentInv
  OBVIOUS
<1>1. DocumentTypes
  BY DEF DocumentInit, DocumentTypes, Free
<1>2. \A w \in Writers : WriterInv(w)
  BY DEF DocumentInit, WriterInv, Free
<1>3. lock = scope
  BY DEF DocumentInit
<1>4. QED
  BY <1>1, <1>2, <1>3 DEF DocumentInv

\* What a writer's step does to the others: nothing.
LEMMA DocumentKept == DocumentInv /\ [DocumentNext]_documentVars => DocumentInv'
<1> SUFFICES ASSUME DocumentInv, [DocumentNext]_documentVars PROVE DocumentInv'
  OBVIOUS
<1> USE DEF DocumentInv, DocumentTypes, WriterInv, Locking, Indexed
<1>1. ASSUME NEW w \in Writers, NEW kind \in {"start", "setScope", "setLock"}, NEW d \in Documents \cup {None},
             Enter(w, kind, d)
      PROVE  DocumentInv'
  BY <1>1 DEF Enter
<1>2. ASSUME NEW w \in Writers, ChooseDocument(w) PROVE DocumentInv'
  BY <1>2, ZenonT(120) DEF ChooseDocument, Free
<1>3. ASSUME NEW w \in Writers, WriteLock(w) PROVE DocumentInv'
  <2>1. writer' = [writer EXCEPT ![w] = IF writer[w].pc = "relock" THEN Free
                                        ELSE [@ EXCEPT !.pc = "scope", !.checked = FALSE]]
    BY <1>3 DEF WriteLock, Advance
  <2>2. CASE writer[w].pc = "relock"
    BY <1>3, <2>1, <2>2 DEF WriteLock, LockToCome, Free
  <2>3. CASE writer[w].pc = "lock"
    BY <1>3, <2>1, <2>3, ZenonT(60) DEF WriteLock, LockToCome
  <2>4. QED
    BY <1>3, <2>2, <2>3 DEF WriteLock
<1>4. ASSUME NEW w \in Writers, WriteScope(w) PROVE DocumentInv'
  <2>1. writer' = [writer EXCEPT ![w] = IF writer[w].kind # "setLock" THEN Free
                                        ELSE [@ EXCEPT !.pc = "relock", !.checked = FALSE]]
    BY <1>4 DEF WriteScope, Advance
  <2>2. CASE writer[w].kind = "setLock"
    BY <1>4, <2>1, <2>2, ZenonT(60) DEF WriteScope, LockToCome
  <2>3. CASE writer[w].kind # "setLock"
    BY <1>4, <2>1, <2>3 DEF WriteScope, LockToCome, Free
  <2>4. QED
    BY <2>2, <2>3
<1>5. ASSUME NEW w \in Writers, WriteRefused(w) \/ CheckDocument(w) PROVE DocumentInv'
  <2>1. CASE WriteRefused(w)
    BY <2>1 DEF WriteRefused, Writing, Advance, Free
  <2>2. CASE CheckDocument(w)
    BY <2>2, ZenonT(60) DEF CheckDocument
  <2>3. QED
    BY <1>5, <2>1, <2>2
<1>6. CASE \E d \in Documents : DropDocument(d)
  BY <1>6 DEF DropDocument
<1>7. CASE DropRow
  BY <1>7 DEF DropRow
<1>8. CASE LoseRequests
  BY <1>8 DEF LoseRequests, Free
<1>9. CASE UNCHANGED documentVars
  BY <1>9 DEF documentVars
<1> HIDE DEF DocumentInv
<1>10. QED
  BY <1>1, <1>2, <1>3, <1>4, <1>5, <1>6, <1>7, <1>8, <1>9 DEF DocumentNext

\* The lock and the scope of a session name the same document whenever no request
\* is between its two statements: for any documents, requests and mishaps.
THEOREM LockAndScopeAgree == DocumentSpec => []LockFollowsScope
<1>1. DocumentInv => LockFollowsScope
  BY DEF DocumentInv, Locking, LockFollowsScope
<1>2. QED
  BY <1>1, DocumentStart, DocumentKept, PTL DEF DocumentSpec

-----------------------------------------------------------------------------
(* Conversations: the states                                                *)

Grants == {"none", "read", "write"}
Items == (Nat \ {0}) \X Nat
Tools == {"library", "system", "read", "write"}

Sign == [type : {"chat", "project"}, activate : BOOLEAN, readOnly : BOOLEAN, grant : Grants, settings : Nat]
Agent == [s : Sessions, sign : Sign, history : SUBSET Items, tools : SUBSET Tools]
Run == [s : Sessions, agent : Nat, active : BOOLEAN, cancelled : BOOLEAN, items : Nat, activate : BOOLEAN,
        readOnly : BOOLEAN, grants : SUBSET Grants, raced : BOOLEAN]

StartRequest ==
  [kind : {"start"}, s : Sessions, pc : {"agent", "load", "build", "launch"}, activate : BOOLEAN,
   readOnly : BOOLEAN, grants : SUBSET Grants, raced : BOOLEAN, agent : Nat, loaded : SUBSET Items,
   sign : Sign \cup {<<>>}]
DeleteRequest == [kind : {"delete"}, s : Sessions, pc : {"forget", "row", "unlink"}]
RevokeRequest == [kind : {"revoke"}, s : {"none"}, pc : {"cancel", "drop"}]

Types ==
  /\ type \in [Sessions -> {"chat", "project"}]
  /\ exists \in [Sessions -> BOOLEAN]
  /\ file \in [Sessions -> (SUBSET Items) \cup {NoFile}]
  /\ grant \in Grants /\ settings \in Nat
  /\ agents \in Seq(Agent) /\ runs \in Seq(Run)
  /\ cached \in [Sessions -> Nat]
  /\ req \in [Requests -> StartRequest \cup DeleteRequest \cup RevokeRequest \cup {Idle}]
  /\ said \in [Sessions -> SUBSET Items] /\ forked \in [Sessions -> BOOLEAN]

\* A signature is of what session s asked for, under one of the grants it has seen.
Fits(sign, s, activate, readOnly, grants) ==
  /\ sign.type = type[s] /\ sign.activate = activate /\ sign.readOnly = readOnly
  /\ type[s] = "project" => sign.grant \in grants

IsAgentOf(a, s) == a \in DOMAIN agents /\ agents[a].s = s

StartInv(q) ==
  LET x == req[q]
  IN  x.kind = "start" =>
        /\ grant \in x.grants
        /\ x.pc \in {"load", "build"} => x.sign \in Sign /\ Fits(x.sign, x.s, x.activate, x.readOnly, x.grants)
        /\ x.pc = "launch" =>
             IsAgentOf(x.agent, x.s) /\ Fits(agents[x.agent].sign, x.s, x.activate, x.readOnly, x.grants)

RunInv(r) ==
  LET x == runs[r]
  IN  x.active =>
        /\ IsAgentOf(x.agent, x.s) /\ x.grants # {}
        /\ Fits(agents[x.agent].sign, x.s, x.activate, x.readOnly, x.grants)

AgentInv(a) ==
  LET x == agents[a].sign
  IN  agents[a].tools = ToolsFor(x.type, x.activate, x.readOnly, x.grant)

BaseInv ==
  /\ Types
  /\ \A q \in Requests : StartInv(q)
  /\ \A r \in DOMAIN runs : RunInv(r)
  /\ \A a \in DOMAIN agents : AgentInv(a)
  /\ \A s \in Sessions : cached[s] # 0 => IsAgentOf(cached[s], s)

\* While a grant is about to go every start has raced with it; once it is gone,
\* only starts that have still to look for it have not.
Stopped(r) ==
  runs[r].active /\ type[runs[r].s] = "project" => runs[r].cancelled \/ runs[r].raced \/ ~exists[runs[r].s]

RevokeInv ==
  /\ (\E p \in Requests : At(p, "drop")) =>
       /\ \A q \in Requests : req[q].kind = "start" => req[q].raced
       /\ \A r \in DOMAIN runs : Stopped(r)
  /\ grant = "none" =>
       /\ \A q \in Requests : req[q].kind = "start" /\ type[req[q].s] = "project" => req[q].raced \/ req[q].pc = "agent"
       /\ \A r \in DOMAIN runs : Stopped(r)

\* The agents of a session that a run or a request will record into or reply from
InUse(s, a) ==
  \/ cached[s] = a /\ a # 0
  \/ \E q \in Requests : req[q].kind = "start" /\ req[q].pc = "launch" /\ req[q].s = s /\ req[q].agent = a
  \/ \E r \in DOMAIN runs : runs[r].active /\ runs[r].s = s /\ runs[r].agent = a

\* Without a fork there is one agent in use, and it, the file and what a request
\* has loaded have every message.
HistoryOf(s) ==
  exists[s] /\ ~forked[s] =>
    /\ file[s] # NoFile /\ said[s] \subseteq file[s]
    /\ \A q \in Requests : req[q].kind = "start" /\ req[q].pc = "build" /\ req[q].s = s => said[s] \subseteq req[q].loaded
    /\ \A a, b \in DOMAIN agents : InUse(s, a) /\ InUse(s, b) => a = b
    /\ \A a \in DOMAIN agents : InUse(s, a) => said[s] \subseteq agents[a].history

Unlinking(q) == At(q, "unlink") => ~exists[req[q].s]

HistoryInv ==
  /\ \A q \in Requests : Unlinking(q)
  /\ \A s \in Sessions : HistoryOf(s)

Served == StartRequest \cup DeleteRequest \cup RevokeRequest \cup {Idle}

\* What a request is can be told from where it is.
LEMMA ServedKinds ==
  ASSUME NEW x \in Served
  PROVE  /\ x.kind = "start" <=> x \in StartRequest
         /\ x.pc \in {"agent", "load", "build", "launch"} <=> x.kind = "start"
         /\ x.pc \in {"forget", "row", "unlink"} <=> x \in DeleteRequest
         /\ x.pc \in {"cancel", "drop"} <=> x \in RevokeRequest
         /\ x.pc = "idle" => x = Idle
BY DEF Served, StartRequest, DeleteRequest, RevokeRequest, Idle

\* A function on 1..n is a sequence.
LEMMA SeqOfFunction ==
  ASSUME NEW S, NEW n \in Nat, NEW f \in [1..n -> S]
  PROVE  f \in Seq(S) /\ Len(f) = n /\ DOMAIN f = 1..n
<1>1. f \in Seq(S)
  BY SeqDef
<1>2. QED
  BY <1>1, LenProperties

\* The types, and what they say of sequences.
LEMMA TypeFacts ==
  ASSUME Types
  PROVE  /\ DOMAIN agents = 1..Len(agents) /\ Len(agents) \in Nat /\ \A a \in DOMAIN agents : agents[a] \in Agent
         /\ DOMAIN runs = 1..Len(runs) /\ Len(runs) \in Nat /\ \A r \in DOMAIN runs : runs[r] \in Run
         /\ req \in [Requests -> Served]
BY DEF Types, Served

\* A request that the grants of the others pass by: only what it has seen grows.
Watches(p) ==
  /\ req'[p] \in Served
  /\ req'[p].kind = req[p].kind /\ req'[p].pc = req[p].pc /\ req'[p].s = req[p].s
  /\ req[p].kind = "start" =>
       /\ req'[p].activate = req[p].activate /\ req'[p].readOnly = req[p].readOnly
       /\ req'[p].agent = req[p].agent /\ req'[p].loaded = req[p].loaded /\ req'[p].sign = req[p].sign
       /\ req[p].grants \subseteq req'[p].grants /\ (req[p].raced => req'[p].raced)

\* A request watches while another one ends or waits.
LEMMA SeenWatches ==
  ASSUME Types, NEW g \in Grants, NEW p \in Requests
  PROVE  /\ Seen(g)[p] \in Served /\ (req[p].kind = "start" => Seen(g)[p].grants = req[p].grants \cup {g})
         /\ req'[p] = Seen(g)[p] => Watches(p)
<1>1. req[p] \in Served
  BY TypeFacts
<1>2. CASE req[p].kind = "start"
  <2>1. Seen(g)[p] = [req[p] EXCEPT !.grants = @ \cup {g}] /\ req[p] \in StartRequest
    BY <1>1, <1>2, ServedKinds DEF Seen
  <2>2. /\ Seen(g)[p] \in StartRequest /\ Seen(g)[p].pc = req[p].pc /\ Seen(g)[p].s = req[p].s
        /\ Seen(g)[p].kind = req[p].kind
        /\ Seen(g)[p].activate = req[p].activate /\ Seen(g)[p].readOnly = req[p].readOnly
        /\ Seen(g)[p].agent = req[p].agent /\ Seen(g)[p].loaded = req[p].loaded /\ Seen(g)[p].sign = req[p].sign
        /\ Seen(g)[p].grants = req[p].grants \cup {g} /\ Seen(g)[p].raced = req[p].raced
    BY <2>1 DEF StartRequest
  <2>3. QED
    BY <2>2 DEF Watches, Served
<1>3. CASE req[p].kind # "start"
  <2>1. Seen(g)[p] = req[p]
    BY <1>3 DEF Seen
  <2>2. QED
    BY <1>1, <1>3, <2>1 DEF Watches
<1>4. QED
  BY <1>2, <1>3

\* A request marked as overtaken is otherwise left alone.
LEMMA RacedWatches ==
  ASSUME NEW f, NEW p \in Requests, f[p] = req[p], req[p] \in Served
  PROVE  /\ Raced(f)[p] \in Served /\ (req[p].kind = "start" => Raced(f)[p].raced = TRUE)
         /\ req'[p] = Raced(f)[p] => Watches(p)
<1>2. CASE req[p].kind = "start"
  <2>1. Raced(f)[p] = [req[p] EXCEPT !.raced = TRUE] /\ req[p] \in StartRequest
    BY <1>2, ServedKinds DEF Raced
  <2>2. /\ Raced(f)[p] \in StartRequest /\ Raced(f)[p].pc = req[p].pc /\ Raced(f)[p].s = req[p].s
        /\ Raced(f)[p].kind = req[p].kind
        /\ Raced(f)[p].activate = req[p].activate /\ Raced(f)[p].readOnly = req[p].readOnly
        /\ Raced(f)[p].agent = req[p].agent /\ Raced(f)[p].loaded = req[p].loaded /\ Raced(f)[p].sign = req[p].sign
        /\ Raced(f)[p].grants = req[p].grants /\ Raced(f)[p].raced = TRUE
    BY <2>1 DEF StartRequest
  <2>3. QED
    BY <2>2 DEF Watches, Served
<1>3. CASE req[p].kind # "start"
  <2>1. Raced(f)[p] = req[p]
    BY <1>3 DEF Raced
  <2>2. QED
    BY <1>3, <2>1 DEF Watches
<1>4. QED
  BY <1>2, <1>3

-----------------------------------------------------------------------------
(* What the steps of a request do to it                                     *)

Others(q) == \A p \in Requests \ {q} : req'[p] = req[p]

\* A start goes on: it asks for the same.
GoesOn(q) ==
  /\ req[q] \in StartRequest /\ req'[q] \in StartRequest
  /\ req'[q].s = req[q].s /\ req'[q].activate = req[q].activate /\ req'[q].readOnly = req[q].readOnly
  /\ req'[q].grants = req[q].grants /\ req'[q].raced = req[q].raced

\* The types a request carries.
LEMMA RequestTypes ==
  ASSUME Types, NEW q \in Requests, Others(q), req' = [req EXCEPT ![q] = req'[q]], req'[q] \in Served
  PROVE  req' \in [Requests -> StartRequest \cup DeleteRequest \cup RevokeRequest \cup {Idle}]
BY DEF Types, Served

\* What the beginning of a start changes.
LEMMA BeginStartEffect ==
  ASSUME Types, NEW q \in Requests, NEW s \in Sessions, NEW activate \in BOOLEAN, NEW readOnly \in BOOLEAN,
         BeginStart(q, s, activate, readOnly)
  PROVE  /\ At(q, "idle") /\ Others(q) /\ req'[q] \in StartRequest /\ req' = [req EXCEPT ![q] = req'[q]]
         /\ req'[q].s = s /\ req'[q].pc = "agent" /\ req'[q].grants = {grant} /\ exists[s]
         /\ req'[q].raced = (\E p \in Requests : At(p, "drop"))
         /\ UNCHANGED <<store, config, agents, cached, runs, ghosts>>
<1> DEFINE raced == \E p \in Requests : At(p, "drop")
           x == [kind |-> "start", s |-> s, pc |-> "agent", activate |-> activate, readOnly |-> readOnly,
                 grants |-> {grant}, raced |-> raced, agent |-> 0, loaded |-> {}, sign |-> <<>>]
<1>1. At(q, "idle") /\ req' = [req EXCEPT ![q] = x] /\ exists[s] /\ UNCHANGED <<store, config, agents, cached, runs, ghosts>>
  BY Zenon DEF BeginStart, Begin
<1>2. raced \in BOOLEAN /\ grant \in Grants
  BY DEF Types
<1> HIDE DEF raced
<1>3. x \in StartRequest
  BY <1>2 DEF StartRequest
<1>4. req'[q] = x /\ Others(q)
  BY <1>1, TypeFacts DEF Others
<1>5. /\ req'[q].s = s /\ req'[q].pc = "agent" /\ req'[q].grants = {grant} /\ req'[q].raced = raced
      /\ req' = [req EXCEPT ![q] = req'[q]] /\ req'[q] \in StartRequest
  <2>1. x.s = s /\ x.pc = "agent" /\ x.grants = {grant} /\ x.raced = raced
    OBVIOUS
  <2> HIDE DEF x
  <2>2. QED
    BY <2>1, <1>1, <1>3, <1>4
<1>6. req'[q].raced = (\E p \in Requests : At(p, "drop"))
  BY <1>5, Zenon DEF raced
<1> HIDE DEF x
<1>7. QED
  BY <1>1, <1>4, <1>5, <1>6

\* What the look at the cached agent changes.
LEMMA LookUpEffect ==
  ASSUME Types, NEW q \in Requests, LookUpAgent(q)
  PROVE  /\ Others(q) /\ req' = [req EXCEPT ![q] = req'[q]] /\ req[q] \in StartRequest /\ req[q].pc = "agent"
         /\ UNCHANGED <<store, config, agents, cached, runs, ghosts>>
         /\ \/ req'[q] = Idle
            \/ /\ GoesOn(q) /\ req'[q].pc \in {"launch", "load"} /\ (type[req[q].s] = "project" => grant # "none")
               /\ req'[q].pc = "launch" =>
                    /\ req'[q].agent = cached[req[q].s] /\ cached[req[q].s] # 0
                    /\ agents[cached[req[q].s]].sign
                         = Signature(type[req[q].s], req[q].activate, req[q].readOnly, grant, settings)
               /\ req'[q].pc = "load" =>
                    req'[q].sign = Signature(type[req[q].s], req[q].activate, req[q].readOnly, grant, settings)
<1> DEFINE s == req[q].s
           sign == Signature(type[s], req[q].activate, req[q].readOnly, grant, settings)
           c == cached[s]
<1>1. req[q] \in Served /\ req \in [Requests -> Served]
  BY TypeFacts
<1>2. req[q] \in StartRequest /\ req[q].pc = "agent" /\ s \in Sessions
  BY <1>1, ServedKinds DEF LookUpAgent, At, StartRequest
<1>3. UNCHANGED <<store, config, agents, cached, runs, ghosts>>
  BY DEF LookUpAgent
<1>4. \/ req' = [req EXCEPT ![q] = Idle]
      \/ /\ type[s] = "chat" \/ grant # "none"
         /\ c # 0 /\ agents[c].sign = sign
         /\ req' = [req EXCEPT ![q].agent = c, ![q].pc = "launch"]
      \/ /\ type[s] = "chat" \/ grant # "none"
         /\ req' = [req EXCEPT ![q].sign = sign, ![q].pc = "load"]
  BY DEF LookUpAgent, Return
<1>5. c \in Nat /\ sign \in Sign
  BY <1>2 DEF Types, Signature, Sign, Grants, StartRequest
<1> HIDE DEF sign, c
<1>6. CASE req' = [req EXCEPT ![q] = Idle]
  BY <1>1, <1>2, <1>3, <1>6 DEF Others
<1>7. CASE /\ type[s] = "chat" \/ grant # "none"
           /\ c # 0 /\ agents[c].sign = sign
           /\ req' = [req EXCEPT ![q].agent = c, ![q].pc = "launch"]
  <2>1. Others(q) /\ req' = [req EXCEPT ![q] = req'[q]] /\ req'[q] = [req[q] EXCEPT !.agent = c, !.pc = "launch"]
    BY <1>1, <1>7 DEF Others
  <2>2. GoesOn(q) /\ req'[q].pc = "launch" /\ req'[q].agent = c
    BY <1>2, <1>5, <2>1 DEF GoesOn, StartRequest
  <2>3. QED
    BY <1>2, <1>3, <1>7, <2>1, <2>2 DEF c, sign
<1>8. CASE /\ type[s] = "chat" \/ grant # "none"
           /\ req' = [req EXCEPT ![q].sign = sign, ![q].pc = "load"]
  <2>1. Others(q) /\ req' = [req EXCEPT ![q] = req'[q]] /\ req'[q] = [req[q] EXCEPT !.sign = sign, !.pc = "load"]
    BY <1>1, <1>8 DEF Others
  <2>2. GoesOn(q) /\ req'[q].pc = "load" /\ req'[q].sign = sign
    BY <1>2, <1>5, <2>1 DEF GoesOn, StartRequest
  <2>3. QED
    BY <1>2, <1>3, <1>8, <2>1, <2>2 DEF sign
<1>9. QED
  BY <1>4, <1>6, <1>7, <1>8

\* What the load of the session file changes.
LEMMA LoadEffect ==
  ASSUME Types, NEW q \in Requests, LoadSession(q)
  PROVE  /\ Others(q) /\ req' = [req EXCEPT ![q] = req'[q]] /\ req[q] \in StartRequest /\ req[q].pc = "load"
         /\ UNCHANGED <<store, config, agents, cached, runs, ghosts>>
         /\ \/ req'[q] = Idle
            \/ /\ GoesOn(q) /\ req'[q].pc = "build" /\ req'[q].sign = req[q].sign
               /\ req'[q].loaded = file[req[q].s]
<1>1. req[q] \in Served /\ req \in [Requests -> Served]
  BY TypeFacts
<1>2. req[q] \in StartRequest /\ req[q].pc = "load" /\ req[q].s \in Sessions
  BY <1>1, ServedKinds DEF LoadSession, At, StartRequest
<1>3. UNCHANGED <<store, config, agents, cached, runs, ghosts>>
  BY DEF LoadSession
<1>4. \/ req' = [req EXCEPT ![q] = Idle]
      \/ /\ file[req[q].s] # NoFile
         /\ req' = [req EXCEPT ![q] = [req[q] EXCEPT !.loaded = file[req[q].s], !.pc = "build"]]
  BY DEF LoadSession
<1>5. CASE req' = [req EXCEPT ![q] = Idle]
  BY <1>1, <1>2, <1>3, <1>5 DEF Others
<1>6. CASE /\ file[req[q].s] # NoFile
           /\ req' = [req EXCEPT ![q] = [req[q] EXCEPT !.loaded = file[req[q].s], !.pc = "build"]]
  <2>1. file[req[q].s] \in SUBSET Items
    BY <1>2, <1>6 DEF Types
  <2>2. /\ Others(q) /\ req' = [req EXCEPT ![q] = req'[q]]
        /\ req'[q] = [req[q] EXCEPT !.loaded = file[req[q].s], !.pc = "build"]
    BY <1>1, <1>6 DEF Others
  <2>3. GoesOn(q) /\ req'[q].pc = "build" /\ req'[q].sign = req[q].sign /\ req'[q].loaded = file[req[q].s]
    BY <1>2, <2>1, <2>2 DEF GoesOn, StartRequest
  <2>4. QED
    BY <1>2, <1>3, <2>2, <2>3
<1>7. QED
  BY <1>4, <1>5, <1>6

\* What the building of an agent changes.
LEMMA BuildEffect ==
  ASSUME BaseInv, NEW q \in Requests, BuildAgent(q)
  PROVE  /\ Others(q) /\ req' = [req EXCEPT ![q] = req'[q]] /\ GoesOn(q) /\ req[q].pc = "build"
         /\ req'[q].pc = "launch" /\ req'[q].agent = Len(agents) + 1
         /\ agents' \in Seq(Agent) /\ Len(agents') = Len(agents) + 1
         /\ \A a \in DOMAIN agents : agents'[a] = agents[a]
         /\ LET x == agents'[Len(agents) + 1]
            IN  /\ x.s = req[q].s /\ x.sign = req[q].sign /\ x.history = req[q].loaded
                /\ x.tools = ToolsFor(x.sign.type, x.sign.activate, x.sign.readOnly, x.sign.grant)
         /\ UNCHANGED <<exists, config, runs, said>>
<1> DEFINE sg == req[q].sign
           new == [s |-> req[q].s, sign |-> sg, history |-> req[q].loaded,
                   tools |-> ToolsFor(sg.type, sg.activate, req[q].readOnly, sg.grant)]
<1>0. Types
  BY DEF BaseInv
<1>1. req[q] \in Served /\ req \in [Requests -> Served]
  BY <1>0, TypeFacts
<1>2. req[q] \in StartRequest /\ req[q].pc = "build" /\ req[q].kind = "start"
  BY <1>1, ServedKinds DEF BuildAgent, At
<1>3. sg \in Sign /\ sg.readOnly = req[q].readOnly
  BY <1>2 DEF BaseInv, StartInv, Fits
<1>4. ToolsFor(sg.type, sg.activate, req[q].readOnly, sg.grant) \in SUBSET Tools
  BY DEF ToolsFor, Tools
<1>5. new \in Agent
  BY <1>2, <1>3, <1>4 DEF Agent, StartRequest
<1>6. agents' = Append(agents, new) /\ UNCHANGED <<exists, config, runs, said>>
  BY Zenon DEF BuildAgent
<1>7. agents \in Seq(Agent)
  BY <1>0 DEF Types
<1>8. req' = [req EXCEPT ![q].agent = Len(agents) + 1, ![q].pc = "launch", ![q].loaded = {}, ![q].sign = <<>>]
  BY DEF BuildAgent
<1>9. /\ new.s = req[q].s /\ new.sign = sg /\ new.history = req[q].loaded
      /\ new.tools = ToolsFor(sg.type, sg.activate, sg.readOnly, sg.grant)
  BY <1>3
<1> HIDE DEF new
<1>10. /\ agents' \in Seq(Agent) /\ Len(agents') = Len(agents) + 1 /\ Len(agents) \in Nat
       /\ agents'[Len(agents) + 1] = new /\ \A a \in DOMAIN agents : agents'[a] = agents[a]
  BY <1>5, <1>6, <1>7
<1>11. /\ Others(q) /\ req' = [req EXCEPT ![q] = req'[q]]
       /\ req'[q] = [req[q] EXCEPT !.agent = Len(agents) + 1, !.pc = "launch", !.loaded = {}, !.sign = <<>>]
  BY <1>1, <1>8 DEF Others
<1>12. GoesOn(q) /\ req'[q].pc = "launch" /\ req'[q].agent = Len(agents) + 1
  <2> DEFINE none == <<>>
             n == Len(agents) + 1
  <2>1. none \in Sign \cup {<<>>} /\ n \in Nat
    BY <1>10
  <2>2. req'[q] = [req[q] EXCEPT !.agent = n, !.pc = "launch", !.loaded = {}, !.sign = none]
    BY <1>11
  <2> HIDE DEF none, n
  <2>3. GoesOn(q) /\ req'[q].pc = "launch" /\ req'[q].agent = n
    BY <1>2, <2>1, <2>2 DEF GoesOn, StartRequest
  <2>4. QED
    BY <2>3 DEF n
<1>13. QED
  BY <1>2, <1>6, <1>9, <1>10, <1>11, <1>12

\* A run goes on as what it was, or is over.
RunGoesOn(r) ==
  /\ r \in DOMAIN runs'
  /\ runs'[r].active =>
       /\ runs[r].active /\ runs'[r].s = runs[r].s /\ runs'[r].agent = runs[r].agent
       /\ runs'[r].activate = runs[r].activate /\ runs'[r].readOnly = runs[r].readOnly
       /\ runs'[r].grants = runs[r].grants /\ runs'[r].raced = runs[r].raced
       /\ runs[r].cancelled => runs'[r].cancelled

\* Agents are never taken away, and what they are does not change.
AgentsStay ==
  /\ agents' \in Seq(Agent) /\ DOMAIN agents \subseteq DOMAIN agents'
  /\ \A a \in DOMAIN agents :
       agents'[a].s = agents[a].s /\ agents'[a].sign = agents[a].sign /\ agents'[a].tools = agents[a].tools

\* What the start of a run changes.
LEMMA LaunchEffect ==
  ASSUME Types, NEW q \in Requests, LaunchRun(q)
  PROVE  /\ Others(q) /\ req' = [req EXCEPT ![q] = Idle] /\ req'[q] = Idle
         /\ req[q] \in StartRequest /\ req[q].pc = "launch"
         /\ runs' \in Seq(Run) /\ DOMAIN runs \subseteq DOMAIN runs' /\ \A r \in DOMAIN runs : runs'[r] = runs[r]
         /\ \A r \in DOMAIN runs' \ DOMAIN runs :
              /\ runs'[r].active /\ ~runs'[r].cancelled
              /\ runs'[r].s = req[q].s /\ runs'[r].agent = req[q].agent
              /\ runs'[r].activate = req[q].activate /\ runs'[r].readOnly = req[q].readOnly
              /\ runs'[r].grants = req[q].grants /\ runs'[r].raced = req[q].raced
         /\ UNCHANGED <<store, config, agents, cached, ghosts>>
<1> DEFINE new == [s |-> req[q].s, agent |-> req[q].agent, active |-> TRUE, cancelled |-> FALSE, items |-> 0,
                   activate |-> req[q].activate, readOnly |-> req[q].readOnly,
                   grants |-> req[q].grants, raced |-> req[q].raced]
<1>1. req[q] \in Served /\ req \in [Requests -> Served]
  BY TypeFacts
<1>2. req[q] \in StartRequest /\ req[q].pc = "launch" /\ runs \in Seq(Run)
  BY <1>1, ServedKinds DEF LaunchRun, At, Types
<1>3. (runs' = runs \/ runs' = Append(runs, new)) /\ req' = [req EXCEPT ![q] = Idle]
      /\ UNCHANGED <<store, config, agents, cached, ghosts>>
  BY DEF LaunchRun, Return
<1>4. /\ new \in Run
      /\ new.active /\ ~new.cancelled /\ new.s = req[q].s /\ new.agent = req[q].agent
      /\ new.activate = req[q].activate /\ new.readOnly = req[q].readOnly
      /\ new.grants = req[q].grants /\ new.raced = req[q].raced
  BY <1>2 DEF Run, StartRequest
<1> HIDE DEF new
<1>5. Others(q) /\ req'[q] = Idle
  BY <1>1, <1>3 DEF Others
<1>6. CASE runs' = runs
  BY <1>2, <1>3, <1>5, <1>6
<1>7. CASE runs' = Append(runs, new)
  <2>1. /\ runs' \in Seq(Run) /\ DOMAIN runs' = 1..(Len(runs) + 1) /\ DOMAIN runs = 1..Len(runs) /\ Len(runs) \in Nat
        /\ runs'[Len(runs) + 1] = new /\ \A r \in DOMAIN runs : runs'[r] = runs[r]
    BY <1>2, <1>4, <1>7
  <2>2. \A r \in DOMAIN runs' \ DOMAIN runs : runs'[r] = new
    BY <2>1
  <2>3. DOMAIN runs \subseteq DOMAIN runs'
    BY <2>1
  <2>4. QED
    BY <1>2, <1>3, <1>4, <1>5, <2>1, <2>2, <2>3
<1>8. QED
  BY <1>3, <1>6, <1>7

\* What the recording of a message changes.
LEMMA RecordEffect ==
  ASSUME BaseInv, NEW r \in DOMAIN runs, RecordMessage(r)
  PROVE  LET s == runs[r].s
             a == runs[r].agent
             item == <<r, runs[r].items>>
         IN  /\ runs[r].active /\ s \in Sessions /\ a \in DOMAIN agents /\ item \in Items
             /\ runs' \in Seq(Run) /\ DOMAIN runs' = DOMAIN runs
             /\ \A x \in DOMAIN runs : RunGoesOn(x)
             /\ AgentsStay /\ DOMAIN agents' = DOMAIN agents
             /\ agents'[a].history = agents[a].history \cup {item}
             /\ \A b \in DOMAIN agents \ {a} : agents'[b] = agents[b]
             /\ file' = [file EXCEPT ![s] = agents[a].history \cup {item}]
             /\ said' = [said EXCEPT ![s] = said[s] \cup {item}]
             /\ forked' = [forked EXCEPT ![s] = forked[s] \/ Pending(s, {"build"}) # {}]
             /\ UNCHANGED <<exists, config, cached, req>>
<1> DEFINE s == runs[r].s
           a == runs[r].agent
           item == <<r, runs[r].items>>
<1>0. Types
  BY DEF BaseInv
<1>1. runs \in Seq(Run) /\ agents \in Seq(Agent) /\ runs[r] \in Run /\ r \in Nat \ {0}
  BY <1>0 DEF Types
<1>2. runs[r].active /\ s \in Sessions /\ a \in DOMAIN agents /\ item \in Items
  BY <1>1 DEF RecordMessage, BaseInv, RunInv, IsAgentOf, Run, Items
<1>3. agents[a] \in Agent /\ agents[a].history \cup {item} \in SUBSET Items
  <2> HIDE DEF s, a, item
  <2>1. agents[a] \in Agent
    BY <1>1, <1>2
  <2>2. QED
    BY <1>2, <2>1 DEF Agent
<1>4. /\ runs' = [runs EXCEPT ![r].items = @ + 1]
      /\ agents' = [agents EXCEPT ![a].history = @ \cup {item}]
      /\ file' = [file EXCEPT ![s] = agents'[a].history]
      /\ said' = [said EXCEPT ![s] = @ \cup {item}]
      /\ forked' = [forked EXCEPT ![s] = @ \/ Pending(s, {"build"}) # {}]
      /\ UNCHANGED <<exists, config, cached, req>>
  BY DEF RecordMessage
<1> HIDE DEF s, a, item
<1>5. agents' = [agents EXCEPT ![a] = [agents[a] EXCEPT !.history = agents[a].history \cup {item}]]
  BY <1>4
<1> DEFINE more == [agents[a] EXCEPT !.history = agents[a].history \cup {item}]
<1>6. /\ more \in Agent /\ more.history = agents[a].history \cup {item}
      /\ more.s = agents[a].s /\ more.sign = agents[a].sign /\ more.tools = agents[a].tools
  BY <1>3 DEF Agent
<1>7. agents' = [agents EXCEPT ![a] = more]
  BY <1>5
<1> HIDE DEF more
<1>8. /\ agents' \in Seq(Agent) /\ DOMAIN agents' = DOMAIN agents /\ agents'[a] = more
      /\ \A b \in DOMAIN agents \ {a} : agents'[b] = agents[b]
  BY <1>1, <1>2, <1>6, <1>7
<1>9. AgentsStay
  BY <1>6, <1>8 DEF AgentsStay
<1>10. /\ runs' \in Seq(Run) /\ DOMAIN runs' = DOMAIN runs
       /\ \A x \in DOMAIN runs : RunGoesOn(x)
  <2> DEFINE n == runs[r].items + 1
             one == [runs[r] EXCEPT !.items = n]
  <2>0. n \in Nat
    BY <1>1 DEF Run
  <2> HIDE DEF n
  <2>1. /\ one \in Run /\ one.active = runs[r].active /\ one.s = runs[r].s /\ one.agent = runs[r].agent
        /\ one.activate = runs[r].activate /\ one.readOnly = runs[r].readOnly /\ one.grants = runs[r].grants
        /\ one.raced = runs[r].raced /\ one.cancelled = runs[r].cancelled
    BY <1>1, <2>0 DEF Run
  <2>2. runs' = [runs EXCEPT ![r] = one]
    BY <1>4 DEF n
  <2> HIDE DEF one
  <2>3. /\ runs' \in Seq(Run) /\ DOMAIN runs' = DOMAIN runs
        /\ runs'[r] = one /\ \A x \in DOMAIN runs \ {r} : runs'[x] = runs[x]
    BY <1>1, <2>1, <2>2
  <2>4. \A x \in DOMAIN runs : RunGoesOn(x)
    BY <2>1, <2>3 DEF RunGoesOn
  <2>5. QED
    BY <2>3, <2>4
<1>11. QED
  BY <1>2, <1>4, <1>6, <1>8, <1>9, <1>10 DEF s, a, item

\* What the end of a run changes.
LEMMA EndEffect ==
  ASSUME Types, NEW r \in DOMAIN runs, EndRun(r)
  PROVE  /\ runs' \in Seq(Run) /\ DOMAIN runs' = DOMAIN runs /\ \A x \in DOMAIN runs : RunGoesOn(x)
         /\ UNCHANGED <<store, config, agents, cached, req, ghosts>>
<1>1. runs \in Seq(Run) /\ runs[r] \in Run
  BY DEF Types
<1>2. Ended(runs[r]) \in Run /\ ~Ended(runs[r]).active
  BY <1>1 DEF Ended, Run
<1>3. runs' = [runs EXCEPT ![r] = Ended(runs[r])] /\ UNCHANGED <<store, config, agents, cached, req, ghosts>>
  BY DEF EndRun
<1>4. /\ runs' \in Seq(Run) /\ DOMAIN runs' = DOMAIN runs
      /\ runs'[r] = Ended(runs[r]) /\ \A x \in DOMAIN runs \ {r} : runs'[x] = runs[x]
  BY <1>1, <1>2, <1>3
<1>5. \A x \in DOMAIN runs : RunGoesOn(x)
  BY <1>2, <1>4 DEF RunGoesOn
<1>6. QED
  BY <1>3, <1>4, <1>5

\* What a cancellation changes.
LEMMA CancelEffect ==
  ASSUME Types, NEW q \in Requests, CancelFolderRuns(q)
  PROVE  /\ runs' \in Seq(Run) /\ DOMAIN runs' = DOMAIN runs /\ \A r \in DOMAIN runs : RunGoesOn(r)
         /\ \A r \in DOMAIN runs : Stopped(r)'
         /\ req[q] \in RevokeRequest /\ req'[q] \in RevokeRequest /\ req'[q].pc = "drop"
         /\ req' \in [Requests -> Served]
         /\ \A p \in Requests \ {q} : Watches(p) /\ (req[p].kind = "start" => req'[p].raced = TRUE)
         /\ UNCHANGED <<store, config, agents, cached, ghosts>>
<1>1. runs \in Seq(Run) /\ DOMAIN runs = 1..Len(runs) /\ Len(runs) \in Nat /\ \A r \in DOMAIN runs : runs[r] \in Run
  BY TypeFacts DEF Types
<1>2. req \in [Requests -> Served] /\ req[q] \in RevokeRequest
  BY TypeFacts, ServedKinds DEF CancelFolderRuns, At
<1> DEFINE ended == [r \in DOMAIN runs |->
                       [runs[r] EXCEPT !.cancelled = @ \/ (runs[r].active /\ exists[runs[r].s] /\ type[runs[r].s] = "project")]]
<1>3. runs' = ended /\ req' = Raced([req EXCEPT ![q].pc = "drop"]) /\ UNCHANGED <<store, config, agents, cached, ghosts>>
  BY DEF CancelFolderRuns
<1>4. ASSUME NEW r \in DOMAIN runs
      PROVE  /\ ended[r] \in Run /\ ended[r].active = runs[r].active /\ ended[r].s = runs[r].s
             /\ ended[r].agent = runs[r].agent /\ ended[r].activate = runs[r].activate
             /\ ended[r].readOnly = runs[r].readOnly /\ ended[r].grants = runs[r].grants
             /\ ended[r].raced = runs[r].raced
             /\ ended[r].cancelled <=> runs[r].cancelled \/ (runs[r].active /\ exists[runs[r].s] /\ type[runs[r].s] = "project")
  <2> DEFINE c == runs[r].cancelled \/ (runs[r].active /\ exists[runs[r].s] /\ type[runs[r].s] = "project")
  <2>1. ended[r] = [runs[r] EXCEPT !.cancelled = c] /\ runs[r] \in Run /\ c \in BOOLEAN
    BY <1>1
  <2> HIDE DEF c, ended
  <2>2. /\ ended[r] \in Run /\ ended[r].active = runs[r].active /\ ended[r].s = runs[r].s
        /\ ended[r].agent = runs[r].agent /\ ended[r].activate = runs[r].activate
        /\ ended[r].readOnly = runs[r].readOnly /\ ended[r].grants = runs[r].grants
        /\ ended[r].raced = runs[r].raced /\ ended[r].cancelled = c
    BY <2>1 DEF Run
  <2>3. QED
    BY <2>2 DEF c
<1>5. DOMAIN ended = DOMAIN runs
  OBVIOUS
<1> HIDE DEF ended
<1>6. \A r \in DOMAIN runs : ended[r] \in Run
  BY <1>4
<1>7. ended \in [1..Len(runs) -> Run]
  <2>1. ended = [r \in DOMAIN runs |-> ended[r]]
    BY DEF ended
  <2>2. QED
    BY <1>1, <1>6, <2>1
<1>8. ended \in Seq(Run)
  BY <1>1, <1>7, SeqOfFunction
<1>9. \A r \in DOMAIN runs : RunGoesOn(r) /\ Stopped(r)'
  BY <1>3, <1>4, <1>5 DEF RunGoesOn, Stopped, config, store
<1>10. ASSUME NEW p \in Requests \ {q} PROVE Watches(p) /\ req'[p] \in Served /\ (req[p].kind = "start" => req'[p].raced = TRUE)
  BY <1>2, <1>3, RacedWatches
<1>11. req'[q] = [req[q] EXCEPT !.pc = "drop"]
  BY <1>2, <1>3 DEF Raced, RevokeRequest
<1>12. req'[q] \in RevokeRequest /\ req'[q].pc = "drop"
  BY <1>2, <1>11 DEF RevokeRequest
<1>13. req' \in [Requests -> Served]
  <2>1. \A p \in Requests : req'[p] \in Served
    BY <1>10, <1>12 DEF Served
  <2>2. req' = [p \in Requests |-> req'[p]]
    BY <1>3 DEF Raced
  <2>3. QED
    BY <2>1, <2>2
<1>14. QED
  BY <1>2, <1>3, <1>5, <1>8, <1>9, <1>10, <1>12, <1>13

\* A deletion of a session, or the first step of a deletion of the grant
DeletionStep(q) ==
  \/ \E s \in Sessions : BeginDelete(q, s)
  \/ ForgetAgent(q) \/ DeleteRow(q) \/ UnlinkFile(q) \/ BeginDeleteGrant(q)

\* What a deletion changes, and a revocation before it drops the grant.
LEMMA DeletionEffect ==
  ASSUME Types, NEW q \in Requests, DeletionStep(q)
  PROVE  /\ Others(q) /\ req' = [req EXCEPT ![q] = req'[q]]
         /\ req[q] \in DeleteRequest \cup {Idle} /\ req'[q] \in DeleteRequest \cup RevokeRequest \cup {Idle}
         /\ req'[q].pc # "drop"
         /\ req'[q].pc = "unlink" => req'[q].s \in Sessions /\ exists' = [exists EXCEPT ![req'[q].s] = FALSE]
         /\ file' = file \/ (req[q].pc = "unlink" /\ file' = [file EXCEPT ![req[q].s] = NoFile])
         /\ cached' = cached \/ \E s \in Sessions : cached' = [cached EXCEPT ![s] = 0]
         /\ exists' = exists \/ \E s \in Sessions : exists' = [exists EXCEPT ![s] = FALSE]
         /\ UNCHANGED <<config, agents, runs, ghosts>>
<1>1. req[q] \in Served /\ req \in [Requests -> Served]
  BY TypeFacts
<1>2. ASSUME NEW s \in Sessions, BeginDelete(q, s)
      PROVE  /\ req[q] = Idle /\ req'[q] \in DeleteRequest /\ req'[q].pc = "forget"
             /\ req' = [req EXCEPT ![q] = req'[q]] /\ UNCHANGED <<store, config, agents, cached, runs, ghosts>>
  <2>1. /\ req[q].pc = "idle" /\ req' = [req EXCEPT ![q] = [kind |-> "delete", s |-> s, pc |-> "forget"]]
        /\ UNCHANGED <<store, config, agents, cached, runs, ghosts>>
    BY <1>2 DEF BeginDelete, Begin, At
  <2>2. QED
    BY <1>1, <2>1, ServedKinds DEF DeleteRequest
<1>3. ASSUME BeginDeleteGrant(q)
      PROVE  /\ req[q] = Idle /\ req'[q] \in RevokeRequest /\ req'[q].pc = "cancel"
             /\ req' = [req EXCEPT ![q] = req'[q]] /\ UNCHANGED <<store, config, agents, cached, runs, ghosts>>
  <2>1. /\ req[q].pc = "idle" /\ req' = [req EXCEPT ![q] = [kind |-> "revoke", s |-> "none", pc |-> "cancel"]]
        /\ UNCHANGED <<store, config, agents, cached, runs, ghosts>>
    BY <1>3 DEF BeginDeleteGrant, Begin, At
  <2>2. QED
    BY <1>1, <2>1, ServedKinds DEF RevokeRequest
<1>4. ASSUME ForgetAgent(q) \/ DeleteRow(q) \/ UnlinkFile(q)
      PROVE  req[q] \in DeleteRequest /\ req[q].s \in Sessions
  BY <1>1, <1>4, ServedKinds DEF ForgetAgent, DeleteRow, UnlinkFile, At, DeleteRequest
<1>5. ASSUME ForgetAgent(q)
      PROVE  /\ req'[q] \in DeleteRequest /\ req'[q].pc = "row" /\ req' = [req EXCEPT ![q] = req'[q]]
             /\ cached' = [cached EXCEPT ![req[q].s] = 0] /\ UNCHANGED <<store, config, agents, runs, ghosts>>
  BY <1>1, <1>4, <1>5 DEF ForgetAgent, Goto, DeleteRequest
<1>6. ASSUME DeleteRow(q)
      PROVE  /\ req'[q] \in DeleteRequest \cup {Idle} /\ req'[q].pc \in {"unlink", "idle"}
             /\ req' = [req EXCEPT ![q] = req'[q]]
             /\ req'[q].pc = "unlink" => req'[q].s = req[q].s
             /\ exists' = [exists EXCEPT ![req[q].s] = FALSE] /\ UNCHANGED <<file, cached, config, agents, runs, ghosts>>
  BY <1>1, <1>4, <1>6 DEF DeleteRow, Goto, Return, DeleteRequest, Idle
<1>7. ASSUME UnlinkFile(q)
      PROVE  /\ req'[q] = Idle /\ req' = [req EXCEPT ![q] = req'[q]] /\ req[q].pc = "unlink"
             /\ file' = [file EXCEPT ![req[q].s] = NoFile]
             /\ UNCHANGED <<exists, cached, config, agents, runs, ghosts>>
  BY <1>1, <1>4, <1>7 DEF UnlinkFile, Return, At
<1>8. ASSUME req' = [req EXCEPT ![q] = req'[q]] PROVE Others(q)
  BY <1>1, <1>8 DEF Others
<1>9. CASE \E s \in Sessions : BeginDelete(q, s)
  BY <1>2, <1>8, <1>9 DEF store
<1>10. CASE BeginDeleteGrant(q)
  BY <1>3, <1>8, <1>10 DEF store
<1>11. CASE ForgetAgent(q)
  BY <1>4, <1>5, <1>8, <1>11 DEF store
<1>12. CASE DeleteRow(q)
  BY <1>4, <1>6, <1>8, <1>12 DEF Idle
<1>13. CASE UnlinkFile(q)
  BY <1>4, <1>7, <1>8, <1>13 DEF Idle
<1>14. QED
  BY <1>9, <1>10, <1>11, <1>12, <1>13 DEF DeletionStep

\* What the dropping of the grant changes.
LEMMA DropEffect ==
  ASSUME Types, NEW q \in Requests, DropGrant(q)
  PROVE  /\ grant' = "none" /\ req'[q] = Idle /\ req[q] \in RevokeRequest /\ req[q].pc = "drop"
         /\ req' \in [Requests -> Served]
         /\ \A p \in Requests \ {q} : Watches(p) /\ (req[p].kind = "start" => req'[p].grants = req[p].grants \cup {"none"})
         /\ UNCHANGED <<store, type, settings, agents, cached, runs, ghosts>>
<1>1. req \in [Requests -> Served] /\ req[q] \in RevokeRequest /\ req[q].pc = "drop"
  BY TypeFacts, ServedKinds DEF DropGrant, At
<1>2. /\ req' = [Seen("none") EXCEPT ![q] = Idle] /\ grant' = "none"
      /\ UNCHANGED <<store, type, settings, agents, cached, runs, ghosts>>
  BY DEF DropGrant
<1>3. DOMAIN Seen("none") = Requests
  BY DEF Seen
<1>4. \A p \in Requests \ {q} : req'[p] = Seen("none")[p]
  BY <1>2, <1>3
<1>5. ASSUME NEW p \in Requests \ {q}
      PROVE  Watches(p) /\ req'[p] \in Served /\ (req[p].kind = "start" => req'[p].grants = req[p].grants \cup {"none"})
  <2>1. "none" \in Grants
    BY DEF Grants
  <2>2. QED
    BY <1>4, <2>1, SeenWatches
<1>6. req'[q] = Idle /\ DOMAIN req' = Requests
  BY <1>2, <1>3
<1>7. req' \in [Requests -> Served]
  <2>1. \A p \in Requests : req'[p] \in Served
    BY <1>5, <1>6 DEF Served
  <2>2. req' = [p \in Requests |-> req'[p]]
    BY <1>2, <1>3
  <2>3. QED
    BY <2>1, <2>2
<1>8. QED
  BY <1>1, <1>2, <1>5, <1>6, <1>7

\* What a new grant changes.
LEMMA AddGrantEffect ==
  ASSUME Types, NEW g \in {"read", "write"}, AddGrant(g)
  PROVE  /\ grant' = g /\ req' \in [Requests -> Served]
         /\ \A p \in Requests : Watches(p) /\ (req[p].kind = "start" => req'[p].grants = req[p].grants \cup {g})
         /\ UNCHANGED <<store, type, settings, agents, cached, runs, ghosts>>
<1>1. grant' = g /\ req' = Seen(g) /\ UNCHANGED <<store, type, settings, agents, cached, runs, ghosts>> /\ g \in Grants
  BY DEF AddGrant, Grants
<1>2. ASSUME NEW p \in Requests
      PROVE  Watches(p) /\ Seen(g)[p] \in Served /\ (req[p].kind = "start" => req'[p].grants = req[p].grants \cup {g})
  BY <1>1, SeenWatches
<1>3. req' \in [Requests -> Served]
  <2>1. \A p \in Requests : Seen(g)[p] \in Served
    BY <1>2
  <2>2. Seen(g) = [p \in Requests |-> Seen(g)[p]]
    BY DEF Seen
  <2>3. QED
    BY <1>1, <2>1, <2>2
<1>4. QED
  BY <1>1, <1>2, <1>3

\* What a crash leaves.
LEMMA CrashEffect ==
  ASSUME Types, Crash
  PROVE  /\ req' = [q \in Requests |-> Idle] /\ cached' = [s \in Sessions |-> 0]
         /\ runs' \in Seq(Run) /\ DOMAIN runs' = DOMAIN runs /\ \A r \in DOMAIN runs : ~runs'[r].active
         /\ UNCHANGED <<store, config, agents, ghosts>>
<1>1. DOMAIN runs = 1..Len(runs) /\ Len(runs) \in Nat /\ \A r \in DOMAIN runs : runs[r] \in Run
  BY TypeFacts
<1> DEFINE ended == [r \in DOMAIN runs |-> Ended(runs[r])]
<1>2. runs' = ended /\ req' = [q \in Requests |-> Idle] /\ cached' = [s \in Sessions |-> 0]
      /\ UNCHANGED <<store, config, agents, ghosts>>
  BY DEF Crash
<1>3. \A x \in Run : Ended(x) \in Run /\ ~Ended(x).active
  BY DEF Ended, Run
<1>4. \A r \in DOMAIN runs : ended[r] \in Run /\ ~ended[r].active
  BY <1>1, <1>3
<1>5. ended \in [1..Len(runs) -> Run]
  BY <1>1, <1>4
<1>6. ended \in Seq(Run)
  BY <1>1, <1>5, SeqOfFunction
<1>7. QED
  BY <1>2, <1>4, <1>6

-----------------------------------------------------------------------------
(* The invariant of agents, requests and runs                               *)

\* The first state satisfies the base invariant.
LEMMA BaseStart == Init => BaseInv
<1> SUFFICES ASSUME Init PROVE BaseInv
  OBVIOUS
<1>1. Types
  <2>1. /\ type \in [Sessions -> {"chat", "project"}] /\ exists \in [Sessions -> BOOLEAN]
        /\ file \in [Sessions -> (SUBSET Items) \cup {NoFile}]
        /\ grant \in Grants /\ settings \in Nat /\ cached \in [Sessions -> Nat]
        /\ said \in [Sessions -> SUBSET Items] /\ forked \in [Sessions -> BOOLEAN]
    BY DEF Init, Grants
  <2>2. agents \in Seq(Agent) /\ runs \in Seq(Run)
    BY DEF Init
  <2>3. req \in [Requests -> StartRequest \cup DeleteRequest \cup RevokeRequest \cup {Idle}]
    BY DEF Init
  <2>4. QED
    BY <2>1, <2>2, <2>3 DEF Types
<1>2. DOMAIN agents = {} /\ DOMAIN runs = {}
  BY DEF Init
<1>3. \A q \in Requests : StartInv(q)
  BY DEF Init, StartInv, Idle
<1>4. \A s \in Sessions : cached[s] = 0
  BY DEF Init
<1>5. QED
  BY <1>1, <1>2, <1>3, <1>4 DEF BaseInv

\* A request that watches, or stands still, keeps what it was promised.
LEMMA WatcherKept ==
  ASSUME BaseInv, NEW q \in Requests, AgentsStay, type' = type,
         (req'[q] = req[q] /\ grant' = grant) \/ (Watches(q) /\ (req[q].kind = "start" => grant' \in req'[q].grants))
  PROVE  StartInv(q)'
<1>1. StartInv(q) /\ (req'[q].kind = "start" => req[q].kind = "start" /\ grant' \in req'[q].grants)
  BY DEF BaseInv, StartInv, Watches
<1> SUFFICES ASSUME req'[q].kind = "start", req[q].kind = "start" PROVE StartInv(q)'
  BY <1>1 DEF StartInv
<1>2. /\ req'[q].pc = req[q].pc /\ req'[q].s = req[q].s /\ req'[q].agent = req[q].agent /\ req'[q].sign = req[q].sign
      /\ req'[q].activate = req[q].activate /\ req'[q].readOnly = req[q].readOnly
      /\ req[q].grants \subseteq req'[q].grants
  BY DEF Watches
<1>3. req[q].pc \in {"load", "build"} =>
        req'[q].sign \in Sign /\ Fits(req[q].sign, req[q].s, req[q].activate, req[q].readOnly, req[q].grants)'
  BY <1>1, <1>2 DEF StartInv, Fits
<1>4. req[q].pc = "launch" =>
        /\ IsAgentOf(req[q].agent, req[q].s)'
        /\ Fits(agents[req[q].agent].sign, req[q].s, req[q].activate, req[q].readOnly, req[q].grants)'
  BY <1>1, <1>2 DEF StartInv, Fits, IsAgentOf, AgentsStay
<1>5. QED
  BY <1>1, <1>2, <1>3, <1>4 DEF StartInv

\* A run that goes on satisfies its invariant while the agents stay.
LEMMA RunnerKept ==
  ASSUME BaseInv, NEW r \in DOMAIN runs, AgentsStay, type' = type, RunGoesOn(r)
  PROVE  RunInv(r)'
<1>1. RunInv(r)
  BY DEF BaseInv
<1> SUFFICES ASSUME runs'[r].active PROVE RunInv(r)'
  BY DEF RunInv
<1>2. /\ runs[r].active /\ runs'[r].s = runs[r].s /\ runs'[r].agent = runs[r].agent
      /\ runs'[r].activate = runs[r].activate /\ runs'[r].readOnly = runs[r].readOnly /\ runs'[r].grants = runs[r].grants
  BY DEF RunGoesOn
<1>3. QED
  BY <1>1, <1>2 DEF RunInv, IsAgentOf, Fits, AgentsStay

\* An agent that stays satisfies its invariant.
LEMMA AgentKept ==
  ASSUME BaseInv, NEW a \in DOMAIN agents, AgentsStay
  PROVE  AgentInv(a)'
BY DEF BaseInv, AgentsStay, AgentInv

\* Steps that leave the agents alone.
LEMMA AgentsSame == ASSUME Types, agents' = agents PROVE AgentsStay
BY DEF Types, AgentsStay

\* Steps that leave the runs alone.
LEMMA RunsSame == ASSUME runs' = runs, NEW r \in DOMAIN runs PROVE RunGoesOn(r)
BY DEF RunGoesOn

\* Steps that build no agent and start no run
LEMMA QuietStep ==
  ASSUME BaseInv, Types', AgentsStay, DOMAIN agents' = DOMAIN agents, type' = type,
         DOMAIN runs' = DOMAIN runs, \A r \in DOMAIN runs : RunGoesOn(r),
         \A s \in Sessions : cached'[s] \in {0, cached[s]},
         \A q \in Requests : StartInv(q)'
  PROVE  BaseInv'
<1>1. \A r \in DOMAIN runs' : RunInv(r)'
  BY RunnerKept
<1>2. \A a \in DOMAIN agents' : AgentInv(a)'
  BY AgentKept
<1>3. \A s \in Sessions : cached'[s] # 0 => IsAgentOf(cached[s], s)'
  BY DEF BaseInv, IsAgentOf, AgentsStay
<1>4. QED
  BY <1>1, <1>2, <1>3 DEF BaseInv

\* A request's first steps
LEMMA BaseRequestStep ==
  ASSUME BaseInv, NEW q \in Requests,
         \/ \E s \in Sessions, activate, readOnly \in BOOLEAN : BeginStart(q, s, activate, readOnly)
         \/ LookUpAgent(q) \/ LoadSession(q) \/ DeletionStep(q)
  PROVE  BaseInv'
<1>0. Types
  BY DEF BaseInv
<1>1. ASSUME Others(q), req' = [req EXCEPT ![q] = req'[q]], req'[q] \in Served, StartInv(q)',
             UNCHANGED <<config, agents, runs, ghosts>>,
             exists' \in [Sessions -> BOOLEAN], file' \in [Sessions -> (SUBSET Items) \cup {NoFile}],
             \A s \in Sessions : cached'[s] \in {0, cached[s]}, cached' \in [Sessions -> Nat]
      PROVE  BaseInv'
  <2>1. AgentsStay /\ type' = type /\ grant' = grant /\ runs' = runs /\ agents' = agents
    BY <1>0, <1>1, AgentsSame DEF config
  <2>2. Types'
    BY <1>0, <1>1, RequestTypes DEF Types, config, ghosts
  <2>3. ASSUME NEW p \in Requests PROVE StartInv(p)'
    <3>1. CASE p = q
      BY <1>1, <3>1
    <3>2. CASE p # q
      BY <1>1, <2>1, <3>2, WatcherKept DEF Others
    <3>3. QED
      BY <3>1, <3>2
  <2>4. \A r \in DOMAIN runs : RunGoesOn(r)
    BY <2>1, RunsSame
  <2>5. QED
    BY <1>1, <2>1, <2>2, <2>3, <2>4, QuietStep
<1>2. ASSUME NEW s \in Sessions, NEW activate \in BOOLEAN, NEW readOnly \in BOOLEAN,
             BeginStart(q, s, activate, readOnly)
      PROVE  BaseInv'
  <2>1. /\ Others(q) /\ req'[q] \in StartRequest /\ req' = [req EXCEPT ![q] = req'[q]]
        /\ req'[q].pc = "agent" /\ req'[q].grants = {grant}
        /\ UNCHANGED <<store, config, agents, cached, runs, ghosts>>
    BY <1>0, <1>2, BeginStartEffect
  <2>2. StartInv(q)'
    BY <2>1 DEF StartInv, config
  <2>3. QED
    BY <1>0, <1>1, <2>1, <2>2 DEF Types, store, Served
<1>3. CASE LookUpAgent(q)
  <2> DEFINE s == req[q].s
             sign == Signature(type[s], req[q].activate, req[q].readOnly, grant, settings)
  <2>1. /\ Others(q) /\ req' = [req EXCEPT ![q] = req'[q]] /\ req[q] \in StartRequest
        /\ UNCHANGED <<store, config, agents, cached, runs, ghosts>>
        /\ \/ req'[q] = Idle
           \/ /\ GoesOn(q) /\ req'[q].pc \in {"launch", "load"}
              /\ req'[q].pc = "launch" =>
                   req'[q].agent = cached[s] /\ cached[s] # 0 /\ agents[cached[s]].sign = sign
              /\ req'[q].pc = "load" => req'[q].sign = sign
    BY <1>0, <1>3, LookUpEffect
  <2>2. s \in Sessions /\ grant \in req[q].grants /\ sign \in Sign
    BY <1>0, <2>1 DEF BaseInv, StartInv, StartRequest, Types, Signature, Sign, Grants
  <2>3. Fits(sign, s, req[q].activate, req[q].readOnly, req[q].grants)
    BY <1>0, <2>2 DEF Fits, Signature, Types
  <2> HIDE DEF sign
  <2>4. CASE req'[q] = Idle
    <3>1. StartInv(q)'
      BY <2>4 DEF StartInv, Idle
    <3>2. QED
      BY <1>0, <1>1, <2>1, <2>4, <3>1 DEF Types, store, Served
  <2>5. CASE GoesOn(q) /\ req'[q].pc = "load" /\ req'[q].sign = sign
    <3>1. StartInv(q)'
      BY <2>1, <2>2, <2>3, <2>5 DEF StartInv, GoesOn, Fits, config
    <3>2. QED
      BY <1>0, <1>1, <2>1, <2>5, <3>1 DEF Types, store, Served, GoesOn
  <2>6. CASE GoesOn(q) /\ req'[q].pc = "launch" /\ req'[q].agent = cached[s] /\ cached[s] # 0 /\ agents[cached[s]].sign = sign
    <3>1. IsAgentOf(cached[s], s)
      BY <2>2, <2>6 DEF BaseInv
    <3>2. StartInv(q)'
      BY <2>1, <2>2, <2>3, <2>6, <3>1 DEF StartInv, GoesOn, Fits, config, IsAgentOf
    <3>3. QED
      BY <1>0, <1>1, <2>1, <2>6, <3>2 DEF Types, store, Served, GoesOn
  <2>7. QED
    BY <2>1, <2>4, <2>5, <2>6
<1>4. CASE LoadSession(q)
  <2>1. /\ Others(q) /\ req' = [req EXCEPT ![q] = req'[q]] /\ req[q] \in StartRequest /\ req[q].pc = "load"
        /\ UNCHANGED <<store, config, agents, cached, runs, ghosts>>
        /\ \/ req'[q] = Idle
           \/ GoesOn(q) /\ req'[q].pc = "build" /\ req'[q].sign = req[q].sign
    BY <1>0, <1>4, LoadEffect
  <2>2. StartInv(q) /\ req[q].kind = "start"
    BY <2>1 DEF BaseInv, StartRequest
  <2>3. StartInv(q)'
    BY <2>1, <2>2 DEF StartInv, GoesOn, Fits, config, Idle
  <2>4. req'[q] \in Served
    BY <2>1 DEF Served, GoesOn
  <2>5. QED
    BY <1>0, <1>1, <2>1, <2>3, <2>4 DEF Types, store
<1>5. CASE DeletionStep(q)
  <2>1. /\ Others(q) /\ req' = [req EXCEPT ![q] = req'[q]]
        /\ req[q] \in DeleteRequest \cup {Idle} /\ req'[q] \in DeleteRequest \cup RevokeRequest \cup {Idle}
        /\ file' = file \/ (req[q].pc = "unlink" /\ file' = [file EXCEPT ![req[q].s] = NoFile])
        /\ cached' = cached \/ \E s \in Sessions : cached' = [cached EXCEPT ![s] = 0]
        /\ exists' = exists \/ \E s \in Sessions : exists' = [exists EXCEPT ![s] = FALSE]
        /\ UNCHANGED <<config, agents, runs, ghosts>>
    BY <1>0, <1>5, DeletionEffect
  <2>2. /\ exists' \in [Sessions -> BOOLEAN] /\ file' \in [Sessions -> (SUBSET Items) \cup {NoFile}]
        /\ cached' \in [Sessions -> Nat] /\ \A s \in Sessions : cached'[s] \in {0, cached[s]}
    <3>1. exists' \in [Sessions -> BOOLEAN]
      BY <1>0, <2>1 DEF Types
    <3>2. file' \in [Sessions -> (SUBSET Items) \cup {NoFile}]
      BY <1>0, <2>1 DEF Types
    <3>3. cached' \in [Sessions -> Nat] /\ \A s \in Sessions : cached'[s] \in {0, cached[s]}
      BY <1>0, <2>1 DEF Types
    <3>4. QED
      BY <3>1, <3>2, <3>3
  <2>3. StartInv(q)'
    BY <2>1 DEF StartInv, DeleteRequest, RevokeRequest, Idle
  <2>4. QED
    BY <1>1, <2>1, <2>2, <2>3 DEF Served
<1>6. QED
  BY <1>2, <1>3, <1>4, <1>5

\* A new agent is what the request asked for.
LEMMA BaseBuildStep ==
  ASSUME BaseInv, NEW q \in Requests, BuildAgent(q)
  PROVE  BaseInv'
<1>0. Types /\ DOMAIN agents = 1..Len(agents) /\ Len(agents) \in Nat
  BY TypeFacts DEF BaseInv
<1> PICK n \in Nat : n = Len(agents) + 1
  BY <1>0
<1>1. /\ Others(q) /\ req' = [req EXCEPT ![q] = req'[q]] /\ GoesOn(q) /\ req[q].pc = "build"
      /\ req'[q].pc = "launch" /\ req'[q].agent = n
      /\ agents' \in Seq(Agent) /\ Len(agents') = n /\ \A a \in DOMAIN agents : agents'[a] = agents[a]
      /\ agents'[n].s = req[q].s /\ agents'[n].sign = req[q].sign /\ agents'[n].history = req[q].loaded
      /\ AgentInv(n)'
      /\ UNCHANGED <<exists, config, runs, said>>
  BY BuildEffect DEF AgentInv
<1>2. DOMAIN agents' = 1..n /\ n \in DOMAIN agents' /\ n # 0 /\ n \in Nat /\ DOMAIN agents \subseteq DOMAIN agents'
  BY <1>0, <1>1
<1>3. AgentsStay /\ \A a \in DOMAIN agents' : a = n \/ a \in DOMAIN agents
  BY <1>0, <1>1, <1>2 DEF AgentsStay
<1>4. /\ cached' = [cached EXCEPT ![req[q].s] = n] /\ file' = [file EXCEPT ![req[q].s] = req[q].loaded]
      /\ forked' = [forked EXCEPT ![req[q].s] = @ \/ ActiveRuns(req[q].s) # {}
                                               \/ Pending(req[q].s, {"build", "launch"}) # {q}]
  BY DEF BuildAgent
<1>5. req[q] \in StartRequest /\ req'[q] \in StartRequest /\ req[q].s \in Sessions /\ req[q].loaded \in SUBSET Items
  BY <1>1 DEF GoesOn, StartRequest
<1>6. Types'
  <2>1. cached' \in [Sessions -> Nat] /\ file' \in [Sessions -> (SUBSET Items) \cup {NoFile}]
    BY <1>0, <1>2, <1>4, <1>5 DEF Types
  <2>2. forked' \in [Sessions -> BOOLEAN]
    BY <1>0, <1>4, <1>5 DEF Types
  <2>3. req' \in [Requests -> StartRequest \cup DeleteRequest \cup RevokeRequest \cup {Idle}]
    BY <1>0, <1>1, <1>5, RequestTypes DEF Served
  <2>4. QED
    BY <1>0, <1>1, <2>1, <2>2, <2>3 DEF Types, config
<1>7. ASSUME NEW p \in Requests PROVE StartInv(p)'
  <2>1. CASE p = q
    <3>1. StartInv(q) /\ req[q].kind = "start"
      BY <1>5 DEF BaseInv, StartRequest
    <3>2. IsAgentOf(n, req[q].s)'
      BY <1>1, <1>2 DEF IsAgentOf, GoesOn
    <3>3. QED
      BY <2>1, <1>1, <3>1, <3>2 DEF StartInv, GoesOn, Fits, config
  <2>2. CASE p # q
    BY <2>2, <1>1, <1>3, WatcherKept DEF Others, config
  <2>3. QED
    BY <2>1, <2>2
<1>8. \A r \in DOMAIN runs' : RunInv(r)'
  BY <1>1, <1>3, RunnerKept, RunsSame DEF config
<1>9. \A a \in DOMAIN agents' : AgentInv(a)'
  BY <1>1, <1>3, AgentKept
<1>10. \A s \in Sessions : cached'[s] # 0 => IsAgentOf(cached[s], s)'
  BY <1>0, <1>1, <1>2, <1>3, <1>4, <1>5 DEF BaseInv, IsAgentOf, Types
<1>11. QED
  BY <1>6, <1>7, <1>8, <1>9, <1>10 DEF BaseInv

\* A run that is started has the agent of its request.
LEMMA BaseLaunchStep ==
  ASSUME BaseInv, NEW q \in Requests, LaunchRun(q)
  PROVE  BaseInv'
<1>0. Types
  BY DEF BaseInv
<1>1. /\ Others(q) /\ req' = [req EXCEPT ![q] = Idle] /\ req'[q] = Idle
      /\ req[q] \in StartRequest /\ req[q].pc = "launch"
      /\ runs' \in Seq(Run) /\ DOMAIN runs \subseteq DOMAIN runs' /\ \A r \in DOMAIN runs : runs'[r] = runs[r]
      /\ UNCHANGED <<store, config, agents, cached, ghosts>>
  BY <1>0, LaunchEffect
<1>2. \A r \in DOMAIN runs' \ DOMAIN runs :
         /\ runs'[r].active /\ runs'[r].s = req[q].s /\ runs'[r].agent = req[q].agent
         /\ runs'[r].activate = req[q].activate /\ runs'[r].readOnly = req[q].readOnly
         /\ runs'[r].grants = req[q].grants
  BY <1>0, LaunchEffect
<1>3. AgentsStay /\ type' = type /\ grant' = grant
  BY <1>0, <1>1, AgentsSame DEF config
<1>4. Types'
  <2>1. req'[q] \in Served
    BY <1>1 DEF Served
  <2>2. req' \in [Requests -> StartRequest \cup DeleteRequest \cup RevokeRequest \cup {Idle}]
    BY <1>0, <1>1, <2>1, RequestTypes
  <2>3. QED
    BY <1>0, <1>1, <2>2 DEF Types, store, config, ghosts
<1>5. ASSUME NEW p \in Requests PROVE StartInv(p)'
  <2>1. CASE p = q
    BY <2>1, <1>1 DEF StartInv, Idle
  <2>2. CASE p # q
    BY <2>2, <1>1, <1>3, WatcherKept DEF Others
  <2>3. QED
    BY <2>1, <2>2
<1>6. ASSUME NEW r \in DOMAIN runs' PROVE RunInv(r)'
  <2>1. CASE r \in DOMAIN runs
    <3>1. RunGoesOn(r)
      BY <2>1, <1>1 DEF RunGoesOn
    <3>2. QED
      BY <2>1, <3>1, <1>3, RunnerKept
  <2>2. CASE r \notin DOMAIN runs
    <3>1. StartInv(q) /\ req[q].kind = "start"
      BY <1>1 DEF BaseInv, StartRequest
    <3>2. /\ IsAgentOf(req[q].agent, req[q].s) /\ req[q].grants # {}
          /\ Fits(agents[req[q].agent].sign, req[q].s, req[q].activate, req[q].readOnly, req[q].grants)
      BY <3>1, <1>1 DEF StartInv
    <3>3. QED
      BY <2>2, <1>1, <1>2, <1>3, <3>2 DEF RunInv, IsAgentOf, Fits
  <2>3. QED
    BY <2>1, <2>2
<1>7. QED
  BY <1>1, <1>3, <1>4, <1>5, <1>6 DEF BaseInv, AgentInv, IsAgentOf

\* A run's thread
LEMMA BaseRunStep ==
  ASSUME BaseInv, NEW r \in DOMAIN runs, RecordMessage(r) \/ EndRun(r)
  PROVE  BaseInv'
<1>0. Types
  BY DEF BaseInv
<1>1. CASE RecordMessage(r)
  <2> DEFINE s == runs[r].s
             a == runs[r].agent
             item == <<r, runs[r].items>>
  <2>1. /\ s \in Sessions /\ a \in DOMAIN agents /\ item \in Items
        /\ runs' \in Seq(Run) /\ DOMAIN runs' = DOMAIN runs /\ \A x \in DOMAIN runs : RunGoesOn(x)
        /\ AgentsStay /\ DOMAIN agents' = DOMAIN agents
        /\ file' = [file EXCEPT ![s] = agents[a].history \cup {item}]
        /\ said' = [said EXCEPT ![s] = said[s] \cup {item}]
        /\ forked' = [forked EXCEPT ![s] = forked[s] \/ Pending(s, {"build"}) # {}]
        /\ UNCHANGED <<exists, config, cached, req>>
    BY <1>1, RecordEffect
  <2>2. agents[a].history \in SUBSET Items
    BY <1>0, <2>1, TypeFacts DEF Agent
  <2> HIDE DEF s, a, item
  <2>3. file' \in [Sessions -> (SUBSET Items) \cup {NoFile}]
    BY <1>0, <2>1, <2>2 DEF Types
  <2>4. said' \in [Sessions -> SUBSET Items] /\ forked' \in [Sessions -> BOOLEAN]
    BY <1>0, <2>1 DEF Types
  <2>5. Types'
    BY <1>0, <2>1, <2>3, <2>4 DEF Types, config, AgentsStay
  <2>6. \A q \in Requests : StartInv(q)'
    BY <2>1, WatcherKept DEF config
  <2>7. QED
    BY <2>1, <2>5, <2>6, QuietStep DEF config
<1>2. CASE EndRun(r)
  <2>1. /\ runs' \in Seq(Run) /\ DOMAIN runs' = DOMAIN runs /\ \A x \in DOMAIN runs : RunGoesOn(x)
        /\ UNCHANGED <<store, config, agents, cached, req, ghosts>>
    BY <1>0, <1>2, EndEffect
  <2>2. AgentsStay
    BY <1>0, <2>1, AgentsSame
  <2>3. Types'
    BY <1>0, <2>1 DEF Types, store, config, ghosts
  <2>4. \A q \in Requests : StartInv(q)'
    BY <2>1, <2>2, WatcherKept DEF config
  <2>5. QED
    BY <2>1, <2>2, <2>3, <2>4, QuietStep DEF config
<1>3. QED
  BY <1>1, <1>2

\* Grants, settings and crashes
LEMMA BaseWorldStep ==
  ASSUME BaseInv,
         (\E q \in Requests : CancelFolderRuns(q) \/ DropGrant(q)) \/ World
  PROVE  BaseInv'
<1>0. Types
  BY DEF BaseInv
<1>1. ASSUME NEW q \in Requests, CancelFolderRuns(q) PROVE BaseInv'
  <2>1. /\ runs' \in Seq(Run) /\ DOMAIN runs' = DOMAIN runs /\ \A r \in DOMAIN runs : RunGoesOn(r)
        /\ req[q] \in RevokeRequest /\ req'[q] \in RevokeRequest
        /\ req' \in [Requests -> Served]
        /\ \A p \in Requests \ {q} : Watches(p)
        /\ UNCHANGED <<store, config, agents, cached, ghosts>>
    BY <1>0, <1>1, CancelEffect
  <2>2. AgentsStay
    BY <1>0, <2>1, AgentsSame
  <2>3. Types'
    BY <1>0, <2>1 DEF Types, store, config, ghosts, Served
  <2>4. ASSUME NEW p \in Requests PROVE StartInv(p)'
    <3>1. CASE p = q
      BY <3>1, <2>1 DEF StartInv, RevokeRequest
    <3>2. CASE p # q
      <4>1. req[p].kind = "start" => grant' \in req'[p].grants
        BY <3>2, <2>1 DEF BaseInv, StartInv, Watches, config
      <4>2. QED
        BY <3>2, <4>1, <2>1, <2>2, WatcherKept DEF config
    <3>3. QED
      BY <3>1, <3>2
  <2>5. QED
    BY <2>1, <2>2, <2>3, <2>4, QuietStep DEF config
<1>2. ASSUME NEW q \in Requests, DropGrant(q) PROVE BaseInv'
  <2>1. /\ grant' = "none" /\ req'[q] = Idle
        /\ req' \in [Requests -> Served]
        /\ \A p \in Requests \ {q} : Watches(p) /\ (req[p].kind = "start" => req'[p].grants = req[p].grants \cup {"none"})
        /\ UNCHANGED <<store, type, settings, agents, cached, runs, ghosts>>
    BY <1>0, <1>2, DropEffect
  <2>2. AgentsStay
    BY <1>0, <2>1, AgentsSame
  <2>3. Types'
    BY <1>0, <2>1 DEF Types, store, ghosts, Served, Grants
  <2>4. ASSUME NEW p \in Requests PROVE StartInv(p)'
    <3>1. CASE p = q
      BY <3>1, <2>1 DEF StartInv, Idle
    <3>2. CASE p # q
      BY <3>2, <2>1, <2>2, WatcherKept
    <3>3. QED
      BY <3>1, <3>2
  <2>5. QED
    BY <2>1, <2>2, <2>3, <2>4, QuietStep, RunsSame
<1>3. ASSUME NEW g \in {"read", "write"}, AddGrant(g) PROVE BaseInv'
  <2>1. /\ grant' = g /\ req' \in [Requests -> Served]
        /\ \A p \in Requests : Watches(p) /\ (req[p].kind = "start" => req'[p].grants = req[p].grants \cup {g})
        /\ UNCHANGED <<store, type, settings, agents, cached, runs, ghosts>>
    BY <1>0, <1>3, AddGrantEffect
  <2>2. AgentsStay
    BY <1>0, <2>1, AgentsSame
  <2>3. Types'
    BY <1>0, <2>1 DEF Types, store, ghosts, Served, Grants
  <2>4. \A p \in Requests : StartInv(p)'
    BY <2>1, <2>2, WatcherKept
  <2>5. QED
    BY <2>1, <2>2, <2>3, <2>4, QuietStep, RunsSame
<1>4. CASE UpdateSettings
  <2>1. settings' = settings + 1 /\ UNCHANGED <<store, type, grant, agents, cached, runs, req, ghosts>>
    BY <1>4 DEF UpdateSettings
  <2>2. AgentsStay
    BY <1>0, <2>1, AgentsSame
  <2>3. Types'
    BY <1>0, <2>1 DEF Types, store, ghosts
  <2>4. \A p \in Requests : StartInv(p)'
    BY <2>1, <2>2, WatcherKept
  <2>5. QED
    BY <2>1, <2>2, <2>3, <2>4, QuietStep, RunsSame
<1>5. CASE Crash
  <2>1. /\ req' = [q \in Requests |-> Idle] /\ cached' = [s \in Sessions |-> 0]
        /\ runs' \in Seq(Run) /\ DOMAIN runs' = DOMAIN runs /\ \A r \in DOMAIN runs : ~runs'[r].active
        /\ UNCHANGED <<store, config, agents, ghosts>>
    BY <1>0, <1>5, CrashEffect
  <2>2. AgentsStay /\ \A r \in DOMAIN runs : RunGoesOn(r)
    BY <1>0, <2>1, AgentsSame DEF RunGoesOn
  <2>3. Types'
    BY <1>0, <2>1 DEF Types, store, ghosts, config
  <2>4. \A p \in Requests : StartInv(p)'
    BY <2>1 DEF StartInv, Idle
  <2>5. QED
    BY <2>1, <2>2, <2>3, <2>4, QuietStep DEF config
<1>6. QED
  BY <1>1, <1>2, <1>3, <1>4, <1>5 DEF World

\* Every step keeps the base invariant.
LEMMA BaseKept == BaseInv /\ [Next]_vars => BaseInv'
<1> SUFFICES ASSUME BaseInv, [Next]_vars PROVE BaseInv'
  OBVIOUS
<1>1. CASE UNCHANGED vars
  BY <1>1 DEF vars, store, config, ghosts, BaseInv, Types, StartInv, RunInv, AgentInv, IsAgentOf, Fits
<1>2. CASE Next
  BY <1>2, BaseRequestStep, BaseBuildStep, BaseLaunchStep, BaseRunStep, BaseWorldStep
  DEF Next, Request, RunThread, DeletionStep
<1>3. QED
  BY <1>1, <1>2

\* A run works with the tools its start asked for, under a grant the request saw,
\* although its agent may have been built for another request: for any sessions,
\* requests, changes of grants and settings, and crashes.
THEOREM RunsHaveTheirTools == Spec => []RunHasItsTools
<1>1. BaseInv => RunHasItsTools
  <2> SUFFICES ASSUME BaseInv, NEW r \in DOMAIN runs, runs[r].active
               PROVE  \E g \in runs[r].grants : agents[runs[r].agent].tools
                        = ToolsFor(type[runs[r].s], runs[r].activate, runs[r].readOnly, g)
    BY DEF RunHasItsTools
  <2> DEFINE x == agents[runs[r].agent].sign
             s == runs[r].s
  <2>1. /\ runs[r].agent \in DOMAIN agents /\ runs[r].grants # {}
        /\ Fits(x, s, runs[r].activate, runs[r].readOnly, runs[r].grants)
    BY DEF BaseInv, RunInv, IsAgentOf
  <2>2. agents[runs[r].agent].tools = ToolsFor(x.type, x.activate, x.readOnly, x.grant)
    BY <2>1 DEF BaseInv, AgentInv
  <2>3. CASE type[s] = "project"
    BY <2>1, <2>2, <2>3 DEF Fits
  <2>4. CASE type[s] = "chat"
    <3>1. PICK g \in runs[r].grants : TRUE
      BY <2>1
    <3>2. ToolsFor("chat", x.activate, x.readOnly, x.grant) = ToolsFor("chat", x.activate, x.readOnly, g)
      BY DEF ToolsFor
    <3>3. QED
      BY <2>1, <2>2, <2>4, <3>2 DEF Fits
  <2>5. type[s] \in {"chat", "project"}
    BY TypeFacts DEF BaseInv, Types, Run
  <2>6. QED
    BY <2>3, <2>4, <2>5
<1>2. QED
  BY <1>1, BaseStart, BaseKept, PTL DEF Spec

-----------------------------------------------------------------------------
(* A grant that goes stops the runs that work under it                      *)

Dropping == \E p \in Requests : At(p, "drop")

\* What a start may do without escaping the end of the grant: it begins, or it
\* goes on, and passes the look at the grant only while there is one.
Cautious(q) ==
  req'[q].kind = "start" =>
    \/ req'[q].pc = "agent" /\ (Dropping => req'[q].raced)
    \/ /\ req[q].kind = "start" /\ req'[q].s = req[q].s /\ (req[q].raced => req'[q].raced)
       /\ req[q].pc # "agent" \/ req'[q].pc = "agent" \/ (type[req[q].s] = "project" => grant' # "none")

\* The row of a session that was deleted does not come back.
NoRowReturns == \A s \in Sessions : exists'[s] => exists[s]

\* A run that goes on as it was stays stopped.
LEMMA StoppedStays ==
  ASSUME Types, NEW r \in DOMAIN runs, RunGoesOn(r), type' = type, NoRowReturns, Stopped(r)
  PROVE  Stopped(r)'
<1>1. runs[r].s \in Sessions
  BY TypeFacts DEF Run
<1>2. QED
  BY <1>1 DEF RunGoesOn, Stopped, NoRowReturns

\* Steps that start no run and announce no end of the grant
LEMMA RevokeQuiet ==
  ASSUME Types, RevokeInv, type' = type, DOMAIN runs' = DOMAIN runs, \A r \in DOMAIN runs : RunGoesOn(r),
         NoRowReturns, Dropping' => Dropping, grant' = "none" => grant = "none" \/ Dropping,
         \A q \in Requests : Cautious(q)
  PROVE  RevokeInv'
<1>1. ASSUME Dropping'
      PROVE  /\ \A q \in Requests : req'[q].kind = "start" => req'[q].raced
             /\ \A r \in DOMAIN runs' : Stopped(r)'
  <2>1. Dropping /\ (\A r \in DOMAIN runs : Stopped(r)) /\ \A q \in Requests : req[q].kind = "start" => req[q].raced
    BY <1>1 DEF RevokeInv, Dropping
  <2>2. \A q \in Requests : req'[q].kind = "start" => req'[q].raced
    BY <2>1 DEF Cautious
  <2>3. QED
    BY <2>1, <2>2, StoppedStays
<1>2. ASSUME grant' = "none"
      PROVE  /\ \A q \in Requests : req'[q].kind = "start" /\ type[req'[q].s] = "project" => req'[q].raced \/ req'[q].pc = "agent"
             /\ \A r \in DOMAIN runs' : Stopped(r)'
  <2>1. /\ \A q \in Requests : req[q].kind = "start" /\ type[req[q].s] = "project" => req[q].raced \/ req[q].pc = "agent"
        /\ \A r \in DOMAIN runs : Stopped(r)
    BY <1>2 DEF RevokeInv, Dropping
  <2>2. \A q \in Requests : req'[q].kind = "start" /\ type[req'[q].s] = "project" => req'[q].raced \/ req'[q].pc = "agent"
    BY <1>2, <2>1 DEF Cautious
  <2>3. QED
    BY <2>1, <2>2, StoppedStays
<1>3. QED
  BY <1>1, <1>2 DEF RevokeInv, Dropping, At

\* A request that stands still, or watches, is cautious.
LEMMA WatcherCautious ==
  ASSUME NEW q \in Requests, req'[q] = req[q] \/ Watches(q)
  PROVE  Cautious(q) /\ (At(q, "drop")' => At(q, "drop"))
BY DEF Watches, Cautious, At

\* Steps of a request keep the invariant about revoked folders.
LEMMA RevokeRequestStep ==
  ASSUME BaseInv, RevokeInv, NEW q \in Requests,
         \/ \E s \in Sessions, activate, readOnly \in BOOLEAN : BeginStart(q, s, activate, readOnly)
         \/ LookUpAgent(q) \/ LoadSession(q) \/ BuildAgent(q) \/ DeletionStep(q)
  PROVE  RevokeInv'
<1>0. Types /\ req \in [Requests -> Served]
  BY TypeFacts DEF BaseInv
<1>1. ASSUME Others(q), Cautious(q), req'[q].pc # "drop", type' = type, grant' = grant, runs' = runs, NoRowReturns
      PROVE  RevokeInv'
  <2>1. \A p \in Requests : Cautious(p)
    BY <1>1, WatcherCautious DEF Others
  <2>2. Dropping' => Dropping
    BY <1>1, WatcherCautious DEF Others, Dropping, At
  <2>3. QED
    BY <1>0, <1>1, <2>1, <2>2, RevokeQuiet, RunsSame
<1>2. ASSUME NEW s \in Sessions, NEW activate \in BOOLEAN, NEW readOnly \in BOOLEAN,
             BeginStart(q, s, activate, readOnly)
      PROVE  RevokeInv'
  <2>1. /\ Others(q) /\ req'[q].pc = "agent" /\ req'[q].raced = Dropping
        /\ UNCHANGED <<store, config, agents, cached, runs, ghosts>>
    BY <1>0, <1>2, BeginStartEffect DEF Dropping
  <2>2. QED
    BY <1>1, <2>1 DEF Cautious, config, store, NoRowReturns
<1>3. CASE LookUpAgent(q)
  <2>1. /\ Others(q) /\ req[q] \in StartRequest /\ UNCHANGED <<store, config, agents, cached, runs, ghosts>>
        /\ \/ req'[q] = Idle
           \/ /\ GoesOn(q) /\ req'[q].pc \in {"launch", "load"} /\ (type[req[q].s] = "project" => grant # "none")
    BY <1>0, <1>3, LookUpEffect
  <2>2. QED
    BY <1>1, <2>1 DEF Cautious, config, store, NoRowReturns, GoesOn, Idle, StartRequest
<1>4. CASE LoadSession(q)
  <2>1. /\ Others(q) /\ req[q] \in StartRequest /\ UNCHANGED <<store, config, agents, cached, runs, ghosts>>
        /\ req[q].pc = "load" /\ (req'[q] = Idle \/ (GoesOn(q) /\ req'[q].pc = "build"))
    BY <1>0, <1>4, LoadEffect
  <2>2. QED
    BY <1>1, <2>1 DEF Cautious, config, store, NoRowReturns, GoesOn, Idle, StartRequest
<1>5. CASE BuildAgent(q)
  <2>1. Others(q) /\ GoesOn(q) /\ req[q].pc = "build" /\ req'[q].pc = "launch" /\ UNCHANGED <<exists, config, runs>>
    BY <1>5, BuildEffect
  <2>2. QED
    BY <1>1, <2>1 DEF Cautious, config, NoRowReturns, GoesOn, StartRequest
<1>6. CASE DeletionStep(q)
  <2>1. /\ Others(q) /\ req'[q] \in DeleteRequest \cup RevokeRequest \cup {Idle} /\ req'[q].pc # "drop"
        /\ UNCHANGED <<config, runs>>
        /\ exists' = exists \/ \E s \in Sessions : exists' = [exists EXCEPT ![s] = FALSE]
    BY <1>0, <1>6, DeletionEffect
  <2>2. Cautious(q)
    BY <2>1 DEF Cautious, DeleteRequest, RevokeRequest, Idle
  <2>3. NoRowReturns
    BY <1>0, <2>1 DEF NoRowReturns, Types
  <2>4. QED
    BY <1>1, <2>1, <2>2, <2>3 DEF config
<1>7. QED
  BY <1>2, <1>3, <1>4, <1>5, <1>6

\* The run a request starts has raced if the request has.
LEMMA RevokeLaunchStep ==
  ASSUME BaseInv, RevokeInv, NEW q \in Requests, LaunchRun(q)
  PROVE  RevokeInv'
<1>0. Types
  BY DEF BaseInv
<1>1. /\ Others(q) /\ req'[q] = Idle /\ req[q] \in StartRequest /\ req[q].pc = "launch"
      /\ DOMAIN runs \subseteq DOMAIN runs' /\ \A r \in DOMAIN runs : runs'[r] = runs[r]
      /\ \A r \in DOMAIN runs' \ DOMAIN runs : runs'[r].s = req[q].s /\ runs'[r].raced = req[q].raced
      /\ UNCHANGED <<store, config, agents, cached, ghosts>>
  BY <1>0, LaunchEffect
<1>2. type' = type /\ grant' = grant /\ exists' = exists /\ req[q].kind = "start"
  BY <1>1 DEF config, store, StartRequest
<1>3. \A p \in Requests : req'[p] = req[p] \/ req'[p] = Idle
  BY <1>1 DEF Others
<1>4. Dropping' => Dropping
  BY <1>3 DEF Dropping, At, Idle
<1>5. (Dropping \/ grant = "none") => \A r \in DOMAIN runs' : Stopped(r)'
  <2> SUFFICES ASSUME Dropping \/ grant = "none", NEW r \in DOMAIN runs' PROVE Stopped(r)'
    OBVIOUS
  <2>1. CASE r \in DOMAIN runs
    <3>1. Stopped(r)
      BY <2>1 DEF RevokeInv, Dropping
    <3>2. QED
      BY <1>1, <1>2, <2>1, <3>1 DEF Stopped
  <2>2. CASE r \notin DOMAIN runs
    <3>1. type[req[q].s] = "project" => req[q].raced
      BY <1>1, <1>2 DEF RevokeInv, Dropping
    <3>2. QED
      BY <1>1, <1>2, <2>2, <3>1 DEF Stopped
  <2>3. QED
    BY <2>1, <2>2
<1>6. QED
  BY <1>2, <1>3, <1>4, <1>5 DEF RevokeInv, Dropping, Idle

\* All other steps keep it.
LEMMA RevokeOtherStep ==
  ASSUME BaseInv, RevokeInv,
         RunThread \/ (\E q \in Requests : CancelFolderRuns(q) \/ DropGrant(q)) \/ World
  PROVE  RevokeInv'
<1>0. Types
  BY DEF BaseInv
<1>1. ASSUME NEW r \in DOMAIN runs, RecordMessage(r) PROVE RevokeInv'
  <2>1. /\ DOMAIN runs' = DOMAIN runs /\ \A x \in DOMAIN runs : RunGoesOn(x)
        /\ UNCHANGED <<exists, config, cached, req>>
    BY <1>1, RecordEffect
  <2>2. QED
    BY <1>0, <2>1, RevokeQuiet, WatcherCautious DEF config, store, NoRowReturns, Dropping, At
<1>2. ASSUME NEW r \in DOMAIN runs, EndRun(r) PROVE RevokeInv'
  <2>1. /\ DOMAIN runs' = DOMAIN runs /\ \A x \in DOMAIN runs : RunGoesOn(x)
        /\ UNCHANGED <<store, config, agents, cached, req, ghosts>>
    BY <1>0, <1>2, EndEffect
  <2>2. QED
    BY <1>0, <2>1, RevokeQuiet, WatcherCautious DEF config, store, NoRowReturns, Dropping, At
<1>3. ASSUME NEW q \in Requests, CancelFolderRuns(q) PROVE RevokeInv'
  <2>1. /\ DOMAIN runs' = DOMAIN runs /\ \A r \in DOMAIN runs : Stopped(r)'
        /\ req'[q] \in RevokeRequest
        /\ \A p \in Requests \ {q} : Watches(p) /\ (req[p].kind = "start" => req'[p].raced = TRUE)
    BY <1>0, <1>3, CancelEffect
  <2>2. \A p \in Requests : req'[p].kind = "start" => req'[p].raced
    BY <2>1 DEF Watches, RevokeRequest
  <2>3. QED
    BY <2>1, <2>2 DEF RevokeInv
<1>4. ASSUME NEW q \in Requests, DropGrant(q) PROVE RevokeInv'
  <2>1. /\ req'[q] = Idle /\ req[q].pc = "drop" /\ \A p \in Requests \ {q} : Watches(p)
        /\ UNCHANGED <<store, type, settings, agents, cached, runs, ghosts>>
    BY <1>0, <1>4, DropEffect
  <2>2. Dropping /\ \A p \in Requests : Cautious(p)
    BY <2>1, WatcherCautious DEF Dropping, At, Cautious, Idle
  <2>3. QED
    BY <1>0, <2>1, <2>2, RevokeQuiet, RunsSame DEF store, NoRowReturns
<1>5. ASSUME NEW g \in {"read", "write"}, AddGrant(g) PROVE RevokeInv'
  <2>1. /\ grant' = g /\ \A p \in Requests : Watches(p)
        /\ UNCHANGED <<store, type, settings, agents, cached, runs, ghosts>>
    BY <1>0, <1>5, AddGrantEffect
  <2>2. (Dropping' => Dropping) /\ \A p \in Requests : Cautious(p)
    BY <2>1, WatcherCautious DEF Dropping
  <2>3. QED
    BY <1>0, <2>1, <2>2, RevokeQuiet, RunsSame DEF store, NoRowReturns
<1>6. CASE UpdateSettings
  <2>1. UNCHANGED <<store, type, grant, agents, cached, runs, req, ghosts>>
    BY <1>6 DEF UpdateSettings
  <2>2. QED
    BY <1>0, <2>1, RevokeQuiet, RunsSame, WatcherCautious DEF store, NoRowReturns, Dropping, At
<1>7. CASE Crash
  <2>1. /\ req' = [q \in Requests |-> Idle] /\ DOMAIN runs' = DOMAIN runs /\ \A r \in DOMAIN runs : ~runs'[r].active
    BY <1>0, <1>7, CrashEffect
  <2>2. \A r \in DOMAIN runs' : Stopped(r)'
    BY <2>1 DEF Stopped
  <2>3. QED
    BY <2>1, <2>2 DEF RevokeInv, Idle
<1>8. QED
  BY <1>1, <1>2, <1>3, <1>4, <1>5, <1>6, <1>7 DEF World, RunThread

\* Every step keeps the invariant about revoked folders.
LEMMA RevokeKept == BaseInv /\ RevokeInv /\ [Next]_vars => RevokeInv'
<1> SUFFICES ASSUME BaseInv, RevokeInv, [Next]_vars PROVE RevokeInv'
  OBVIOUS
<1>1. CASE UNCHANGED vars
  BY <1>1 DEF vars, store, config, RevokeInv, Stopped, At
<1>2. CASE Next
  BY <1>2, RevokeRequestStep, RevokeLaunchStep, RevokeOtherStep DEF Next, Request, DeletionStep
<1>3. QED
  BY <1>1, <1>2

\* Once the grant of the folder is gone, every run of its sessions is cancelled,
\* or its start overlapped the revocation, or its session has no row: for any
\* requests, in any order.
THEOREM RevokedStop == Spec => []RevokedRunsStop
<1>1. Init => RevokeInv
  BY DEF Init, RevokeInv, Idle, At
<1>2. RevokeInv => RevokedRunsStop
  BY DEF RevokeInv, RevokedRunsStop, Stopped
<1>3. QED
  BY <1>1, <1>2, BaseStart, BaseKept, RevokeKept, PTL DEF Spec

-----------------------------------------------------------------------------
(* No message is lost                                                       *)

\* Whatever is in use is an agent of its session.
LEMMA InUseIsAgent ==
  ASSUME BaseInv, NEW s \in Sessions, NEW a, InUse(s, a)
  PROVE  IsAgentOf(a, s)
BY DEF BaseInv, InUse, StartInv, RunInv

\* No file is the file that is not there.
LEMMA ItemsAreAFile == \A h \in SUBSET Items : h # NoFile
<1>1. <<0, 0>> \notin Items
  <2>1. SUFFICES ASSUME <<0, 0>> \in Items PROVE FALSE
    OBVIOUS
  <2>2. <<0, 0>>[1] \in Nat \ {0}
    BY <2>1 DEF Items
  <2>3. QED
    BY <2>2
<1>2. QED
  BY <1>1 DEF NoFile

\* What a request may do without a part in the history: it does not build, and
\* what it finds in the cache or loads from the file is what is there.
Reads(q) ==
  req'[q].kind = "start" =>
    /\ req'[q].pc = "build" =>
         \/ req'[q].loaded = file[req'[q].s]
         \/ req[q].kind = "start" /\ req[q].pc = "build" /\ req[q].s = req'[q].s /\ req'[q].loaded = req[q].loaded
    /\ req'[q].pc = "launch" =>
         \/ req'[q].agent = cached[req'[q].s] /\ req'[q].agent # 0
         \/ req[q].kind = "start" /\ req[q].pc = "launch" /\ req[q].s = req'[q].s /\ req[q].agent = req'[q].agent

\* A run is in a session what it was, or has an agent a request was about to run.
Follows(r) ==
  runs'[r].active => InUse(runs'[r].s, runs'[r].agent)

\* A request left alone or marked as overtaken reads what it was reading.
LEMMA WatcherReads ==
  ASSUME NEW q \in Requests, req'[q] = req[q] \/ Watches(q), UNCHANGED exists
  PROVE  Reads(q) /\ (Unlinking(q) => Unlinking(q)')
BY DEF Watches, Reads, Unlinking, At

\* A run that goes on follows its agent.
LEMMA RunnerFollows ==
  ASSUME NEW r \in DOMAIN runs, RunGoesOn(r)
  PROVE  Follows(r)
BY DEF RunGoesOn, Follows, InUse

\* Steps that neither build an agent nor record: nothing new is in use.
LEMMA HistoryQuiet ==
  ASSUME BaseInv, HistoryInv, UNCHANGED <<agents, ghosts>>,
         \A q \in Requests : Reads(q), \A r \in DOMAIN runs' : Follows(r), \A q \in Requests : Unlinking(q)',
         \A s \in Sessions : cached'[s] \in {0, cached[s]},
         \A s \in Sessions : exists'[s] => exists[s] /\ file'[s] = file[s]
  PROVE  HistoryInv'
<1>1. ASSUME NEW s \in Sessions, NEW a, InUse(s, a)' PROVE InUse(s, a)
  <2>1. CASE cached'[s] = a /\ a # 0
    BY <2>1 DEF InUse
  <2>2. CASE \E q \in Requests : req'[q].kind = "start" /\ req'[q].pc = "launch" /\ req'[q].s = s /\ req'[q].agent = a
    BY <2>2 DEF InUse, Reads
  <2>3. CASE \E r \in DOMAIN runs' : runs'[r].active /\ runs'[r].s = s /\ runs'[r].agent = a
    BY <2>3 DEF Follows
  <2>4. QED
    BY <1>1, <2>1, <2>2, <2>3 DEF InUse
<1>2. ASSUME NEW s \in Sessions, exists'[s], ~forked'[s]
      PROVE  /\ file'[s] # NoFile /\ said'[s] \subseteq file'[s]
             /\ \A q \in Requests : req'[q].kind = "start" /\ req'[q].pc = "build" /\ req'[q].s = s => said'[s] \subseteq req'[q].loaded
             /\ \A a, b \in DOMAIN agents' : InUse(s, a)' /\ InUse(s, b)' => a = b
             /\ \A a \in DOMAIN agents' : InUse(s, a)' => said'[s] \subseteq agents'[a].history
  <2>1. HistoryOf(s) /\ exists[s] /\ ~forked[s] /\ said'[s] = said[s] /\ file'[s] = file[s] /\ agents' = agents
    BY <1>2 DEF HistoryInv, ghosts
  <2>2. \A q \in Requests : req'[q].kind = "start" /\ req'[q].pc = "build" /\ req'[q].s = s => said[s] \subseteq req'[q].loaded
    BY <2>1 DEF HistoryOf, Reads
  <2>3. QED
    BY <1>1, <2>1, <2>2 DEF HistoryOf
<1>3. \A s \in Sessions : HistoryOf(s)'
  BY <1>2 DEF HistoryOf
<1>4. QED
  BY <1>3 DEF HistoryInv

\* Steps of a request keep the invariant about the history.
LEMMA HistoryRequestStep ==
  ASSUME BaseInv, HistoryInv, NEW q \in Requests,
         \/ \E s \in Sessions, activate, readOnly \in BOOLEAN : BeginStart(q, s, activate, readOnly)
         \/ LookUpAgent(q) \/ LoadSession(q) \/ LaunchRun(q)
  PROVE  HistoryInv'
<1>0. Types /\ \A p \in Requests : Unlinking(p)
  BY DEF BaseInv, HistoryInv
<1>1. ASSUME Others(q), Reads(q), req'[q].pc # "unlink", UNCHANGED <<store, config, agents, cached, ghosts>>,
             \A r \in DOMAIN runs' : Follows(r)
      PROVE  HistoryInv'
  <2>1. exists' = exists /\ file' = file
    BY <1>1 DEF store
  <2>2. \A p \in Requests : Reads(p)
    BY <1>1, <2>1, WatcherReads DEF Others
  <2>3. \A p \in Requests : Unlinking(p)'
    BY <1>0, <1>1, <2>1, WatcherReads DEF Others, Unlinking, At
  <2>4. QED
    BY <1>1, <2>1, <2>2, <2>3, HistoryQuiet
<1>2. runs' = runs => \A r \in DOMAIN runs' : Follows(r)
  BY RunsSame, RunnerFollows
<1>3. ASSUME NEW s \in Sessions, NEW activate \in BOOLEAN, NEW readOnly \in BOOLEAN,
             BeginStart(q, s, activate, readOnly)
      PROVE  HistoryInv'
  <2>1. /\ Others(q) /\ req'[q].pc = "agent" /\ UNCHANGED <<store, config, agents, cached, runs, ghosts>>
    BY <1>0, <1>3, BeginStartEffect
  <2>2. QED
    BY <1>1, <1>2, <2>1 DEF Reads
<1>4. CASE LookUpAgent(q)
  <2>1. /\ Others(q) /\ UNCHANGED <<store, config, agents, cached, runs, ghosts>>
        /\ \/ req'[q] = Idle
           \/ /\ GoesOn(q) /\ req'[q].pc \in {"launch", "load"}
              /\ req'[q].pc = "launch" => req'[q].agent = cached[req[q].s] /\ cached[req[q].s] # 0
    BY <1>0, <1>4, LookUpEffect
  <2>2. Reads(q) /\ req'[q].pc # "unlink"
    BY <2>1 DEF Reads, GoesOn, Idle
  <2>3. QED
    BY <1>1, <1>2, <2>1, <2>2
<1>5. CASE LoadSession(q)
  <2>1. /\ Others(q) /\ UNCHANGED <<store, config, agents, cached, runs, ghosts>>
        /\ \/ req'[q] = Idle
           \/ /\ GoesOn(q) /\ req'[q].pc = "build" /\ req'[q].loaded = file[req[q].s]
    BY <1>0, <1>5, LoadEffect
  <2>2. Reads(q) /\ req'[q].pc # "unlink"
    BY <2>1 DEF Reads, GoesOn, Idle
  <2>3. QED
    BY <1>1, <1>2, <2>1, <2>2
<1>6. CASE LaunchRun(q)
  <2>1. /\ Others(q) /\ req'[q] = Idle /\ req[q] \in StartRequest /\ req[q].pc = "launch"
        /\ DOMAIN runs \subseteq DOMAIN runs' /\ \A r \in DOMAIN runs : runs'[r] = runs[r]
        /\ \A r \in DOMAIN runs' \ DOMAIN runs : runs'[r].s = req[q].s /\ runs'[r].agent = req[q].agent
        /\ UNCHANGED <<store, config, agents, cached, ghosts>>
    BY <1>0, <1>6, LaunchEffect
  <2>2. Reads(q) /\ req'[q].pc # "unlink"
    BY <2>1 DEF Reads, Idle
  <2>3. InUse(req[q].s, req[q].agent)
    BY <2>1 DEF InUse, StartRequest
  <2>4. \A r \in DOMAIN runs' : Follows(r)
    BY <2>1, <2>3, RunnerFollows DEF Follows, RunGoesOn
  <2>5. QED
    BY <1>1, <2>1, <2>2, <2>4
<1>7. QED
  BY <1>3, <1>4, <1>5, <1>6

\* The file of a session goes after its row.
LEMMA HistoryDeletionStep ==
  ASSUME BaseInv, HistoryInv, NEW q \in Requests, DeletionStep(q)
  PROVE  HistoryInv'
<1>0. Types /\ req \in [Requests -> Served] /\ \A p \in Requests : Unlinking(p)
  BY TypeFacts DEF BaseInv, HistoryInv
<1>1. /\ Others(q) /\ req[q] \in DeleteRequest \cup {Idle} /\ req'[q] \in DeleteRequest \cup RevokeRequest \cup {Idle}
      /\ req'[q].pc = "unlink" => req'[q].s \in Sessions /\ exists' = [exists EXCEPT ![req'[q].s] = FALSE]
      /\ file' = file \/ (req[q].pc = "unlink" /\ file' = [file EXCEPT ![req[q].s] = NoFile])
      /\ cached' = cached \/ \E s \in Sessions : cached' = [cached EXCEPT ![s] = 0]
      /\ exists' = exists \/ \E s \in Sessions : exists' = [exists EXCEPT ![s] = FALSE]
      /\ UNCHANGED <<config, agents, runs, ghosts>>
  BY <1>0, DeletionEffect
<1>2. \A s \in Sessions : exists'[s] => exists[s]
  BY <1>0, <1>1 DEF Types
<1>3. \A s \in Sessions : cached'[s] \in {0, cached[s]}
  BY <1>0, <1>1 DEF Types
<1>4. ASSUME NEW s \in Sessions, exists'[s] PROVE file'[s] = file[s]
  <2>1. CASE file' = file
    BY <2>1
  <2>2. CASE req[q].pc = "unlink" /\ file' = [file EXCEPT ![req[q].s] = NoFile]
    <3>1. s # req[q].s
      BY <1>0, <1>2, <1>4, <2>2 DEF Unlinking, At
    <3>2. QED
      BY <1>0, <2>2, <3>1 DEF Types
  <2>3. QED
    BY <1>1, <2>1, <2>2
<1>5. ASSUME NEW p \in Requests PROVE Unlinking(p)'
  <2>1. CASE p = q
    BY <1>0, <1>1, <2>1 DEF Unlinking, At, Types
  <2>2. CASE p # q
    <3>1. At(p, "unlink") => req[p].s \in Sessions
      BY <1>0, ServedKinds DEF At, DeleteRequest
    <3>2. QED
      BY <1>0, <1>1, <1>2, <2>2, <3>1 DEF Unlinking, At, Others
  <2>3. QED
    BY <2>1, <2>2
<1>6. \A p \in Requests : Reads(p)
  BY <1>1 DEF Others, Reads, DeleteRequest, RevokeRequest, Idle
<1>7. \A r \in DOMAIN runs' : Follows(r)
  BY <1>1, RunsSame, RunnerFollows
<1>8. QED
  BY <1>1, <1>2, <1>3, <1>4, <1>5, <1>6, <1>7, HistoryQuiet

\* A new agent replaces the one in use only if nobody is using it, or it is a fork.
LEMMA HistoryBuildStep ==
  ASSUME BaseInv, HistoryInv, NEW q \in Requests, BuildAgent(q)
  PROVE  HistoryInv'
<1>0. Types /\ DOMAIN agents = 1..Len(agents) /\ Len(agents) \in Nat
  BY TypeFacts DEF BaseInv
<1> PICK n \in Nat : n = Len(agents) + 1
  BY <1>0
<1> PICK s \in Sessions : s = req[q].s
  BY BuildEffect DEF GoesOn, StartRequest
<1>1. /\ Others(q) /\ GoesOn(q) /\ req[q].pc = "build" /\ req'[q].pc = "launch" /\ req'[q].agent = n
      /\ agents' \in Seq(Agent) /\ Len(agents') = n /\ \A a \in DOMAIN agents : agents'[a] = agents[a]
      /\ agents'[n].history = req[q].loaded
      /\ UNCHANGED <<exists, config, runs, said>>
  BY BuildEffect
<1>2. /\ cached' = [cached EXCEPT ![s] = n] /\ file' = [file EXCEPT ![s] = req[q].loaded]
      /\ forked' = [forked EXCEPT ![s] = forked[s] \/ ActiveRuns(s) # {} \/ Pending(s, {"build", "launch"}) # {q}]
  BY DEF BuildAgent
<1>3. req[q].kind = "start" /\ req'[q].kind = "start" /\ req'[q].s = s /\ req[q].loaded \in SUBSET Items
  BY <1>1 DEF GoesOn, StartRequest
<1>4. DOMAIN agents' = 1..n /\ n \notin DOMAIN agents /\ n # 0 /\ n \in DOMAIN agents'
      /\ \A a \in DOMAIN agents' : a = n \/ a \in DOMAIN agents
  BY <1>0, <1>1
<1>5. \A p \in Requests : Unlinking(p)'
  <2>1. \A p \in Requests : Unlinking(p)
    BY DEF HistoryInv
  <2>2. QED
    BY <1>1, <2>1 DEF Unlinking, At, Others
<1>6. ASSUME NEW t \in Sessions, t # s PROVE HistoryOf(t)'
  <2>1. /\ file'[t] = file[t] /\ said'[t] = said[t] /\ exists'[t] = exists[t] /\ forked'[t] = forked[t]
        /\ cached'[t] = cached[t]
    BY <1>0, <1>1, <1>2, <1>6 DEF Types
  <2>2. HistoryOf(t)
    BY DEF HistoryInv
  <2>3. ASSUME NEW a, InUse(t, a)' PROVE InUse(t, a) /\ a \in DOMAIN agents
    <3>1. InUse(t, a)
      BY <1>1, <1>3, <1>6, <2>1, <2>3 DEF InUse, Others
    <3>2. QED
      BY <3>1, InUseIsAgent DEF IsAgentOf
  <2>4. \A p \in Requests : req'[p].kind = "start" /\ req'[p].pc = "build" /\ req'[p].s = t => req'[p] = req[p]
    BY <1>1 DEF Others
  <2>5. QED
    BY <1>1, <2>1, <2>2, <2>3, <2>4 DEF HistoryOf
<1>7. HistoryOf(s)'
  <2> SUFFICES ASSUME exists'[s], ~forked'[s]
               PROVE  /\ file'[s] # NoFile /\ said'[s] \subseteq file'[s]
                      /\ \A p \in Requests : req'[p].kind = "start" /\ req'[p].pc = "build" /\ req'[p].s = s
                                               => said'[s] \subseteq req'[p].loaded
                      /\ \A a, b \in DOMAIN agents' : InUse(s, a)' /\ InUse(s, b)' => a = b
                      /\ \A a \in DOMAIN agents' : InUse(s, a)' => said'[s] \subseteq agents'[a].history
    BY DEF HistoryOf
  <2>1. ~forked[s] /\ ActiveRuns(s) = {} /\ Pending(s, {"build", "launch"}) = {q}
    BY <1>0, <1>2 DEF Types
  <2>2. /\ \A r \in DOMAIN runs : ~(runs[r].active /\ runs[r].s = s)
        /\ \A p \in Requests \ {q} : ~(req[p].pc \in {"build", "launch"} /\ req[p].s = s)
    BY <2>1 DEF ActiveRuns, Pending
  <2>3. cached'[s] = n /\ file'[s] = req[q].loaded /\ exists[s] /\ said'[s] = said[s]
    BY <1>0, <1>1, <1>2 DEF Types
  <2>4. said[s] \subseteq req[q].loaded
    BY <1>1, <1>3, <2>1, <2>3 DEF HistoryInv, HistoryOf
  <2>5. ASSUME NEW a, InUse(s, a)' PROVE a = n
    BY <1>1, <2>2, <2>3, <2>5 DEF InUse, Others
  <2>6. \A p \in Requests : ~(req'[p].kind = "start" /\ req'[p].pc = "build" /\ req'[p].s = s)
    BY <1>1, <2>2 DEF Others
  <2>7. file'[s] # NoFile
    BY <1>3, <2>3, ItemsAreAFile
  <2>8. QED
    BY <1>1, <2>3, <2>4, <2>5, <2>6, <2>7
<1>8. QED
  BY <1>5, <1>6, <1>7 DEF HistoryInv

\* A message that is recorded is in the one agent in use and in the file.
LEMMA HistoryRecordStep ==
  ASSUME BaseInv, HistoryInv, NEW r \in DOMAIN runs, RecordMessage(r)
  PROVE  HistoryInv'
<1>0. Types
  BY DEF BaseInv
<1> PICK s, a, item : s = runs[r].s /\ a = runs[r].agent /\ item = <<r, runs[r].items>>
  OBVIOUS
<1>1. /\ runs[r].active /\ s \in Sessions /\ a \in DOMAIN agents /\ item \in Items
      /\ DOMAIN runs' = DOMAIN runs /\ \A x \in DOMAIN runs : RunGoesOn(x)
      /\ DOMAIN agents' = DOMAIN agents
      /\ agents'[a].history = agents[a].history \cup {item}
      /\ \A b \in DOMAIN agents \ {a} : agents'[b] = agents[b]
      /\ file' = [file EXCEPT ![s] = agents[a].history \cup {item}]
      /\ said' = [said EXCEPT ![s] = said[s] \cup {item}]
      /\ forked' = [forked EXCEPT ![s] = forked[s] \/ Pending(s, {"build"}) # {}]
      /\ UNCHANGED <<exists, config, cached, req>>
  BY RecordEffect
<1>2. \A p \in Requests : Unlinking(p)'
  BY <1>1 DEF HistoryInv, Unlinking, At
<1>3. ASSUME NEW t \in Sessions, NEW b, InUse(t, b)' PROVE InUse(t, b)
  BY <1>1, <1>3 DEF InUse, RunGoesOn
<1>4. ASSUME NEW t \in Sessions, t # s PROVE HistoryOf(t)'
  <2>1. file'[t] = file[t] /\ said'[t] = said[t] /\ exists'[t] = exists[t] /\ forked'[t] = forked[t]
    BY <1>0, <1>1, <1>4 DEF Types
  <2>2. HistoryOf(t)
    BY DEF HistoryInv
  <2>3. InUse(s, a)
    BY <1>1 DEF InUse
  <2>4. ASSUME NEW b, InUse(t, b) PROVE agents'[b] = agents[b]
    BY <1>1, <1>4, <2>3, <2>4, InUseIsAgent DEF IsAgentOf
  <2>5. QED
    BY <1>1, <1>3, <2>1, <2>2, <2>4 DEF HistoryOf
<1>5. HistoryOf(s)'
  <2> SUFFICES ASSUME exists'[s], ~forked'[s]
               PROVE  /\ file'[s] # NoFile /\ said'[s] \subseteq file'[s]
                      /\ \A p \in Requests : req'[p].kind = "start" /\ req'[p].pc = "build" /\ req'[p].s = s
                                               => said'[s] \subseteq req'[p].loaded
                      /\ \A b, c \in DOMAIN agents' : InUse(s, b)' /\ InUse(s, c)' => b = c
                      /\ \A b \in DOMAIN agents' : InUse(s, b)' => said'[s] \subseteq agents'[b].history
    BY DEF HistoryOf
  <2>1. ~forked[s] /\ Pending(s, {"build"}) = {} /\ exists[s]
    BY <1>0, <1>1 DEF Types
  <2>2. file'[s] = agents[a].history \cup {item} /\ said'[s] = said[s] \cup {item}
    BY <1>0, <1>1 DEF Types
  <2>3. InUse(s, a)
    BY <1>1 DEF InUse
  <2>4. said[s] \subseteq agents[a].history /\ \A b \in DOMAIN agents : InUse(s, b) => b = a
    BY <1>1, <2>1, <2>3 DEF HistoryInv, HistoryOf
  <2>5. \A p \in Requests : ~(req'[p].kind = "start" /\ req'[p].pc = "build" /\ req'[p].s = s)
    BY <1>1, <2>1 DEF Pending
  <2>6. file'[s] # NoFile
    <3>1. agents[a].history \cup {item} \in SUBSET Items
      BY <1>0, <1>1, TypeFacts DEF Agent
    <3>2. QED
      BY <2>2, <3>1, ItemsAreAFile
  <2>7. QED
    BY <1>1, <1>3, <2>2, <2>4, <2>5, <2>6
<1>6. QED
  BY <1>2, <1>4, <1>5 DEF HistoryInv

\* All other steps keep it.
LEMMA HistoryOtherStep ==
  ASSUME BaseInv, HistoryInv,
         (\E r \in DOMAIN runs : EndRun(r)) \/ (\E q \in Requests : CancelFolderRuns(q) \/ DropGrant(q)) \/ World
  PROVE  HistoryInv'
<1>0. Types /\ \A p \in Requests : Unlinking(p)
  BY DEF BaseInv, HistoryInv
<1>1. ASSUME UNCHANGED <<store, agents, ghosts>>, \A s \in Sessions : cached'[s] \in {0, cached[s]},
             \A p \in Requests : Reads(p) /\ Unlinking(p)',
             \A r \in DOMAIN runs : RunGoesOn(r), DOMAIN runs' = DOMAIN runs
      PROVE  HistoryInv'
  <2>1. \A r \in DOMAIN runs' : Follows(r)
    BY <1>1, RunnerFollows
  <2>2. exists' = exists /\ file' = file
    BY <1>1 DEF store
  <2>3. QED
    BY <1>1, <2>1, <2>2, HistoryQuiet
<1>2. ASSUME NEW r \in DOMAIN runs, EndRun(r) PROVE HistoryInv'
  <2>1. /\ DOMAIN runs' = DOMAIN runs /\ \A x \in DOMAIN runs : RunGoesOn(x)
        /\ UNCHANGED <<store, config, agents, cached, req, ghosts>>
    BY <1>0, <1>2, EndEffect
  <2>2. QED
    BY <1>0, <1>1, <2>1, WatcherReads DEF store
<1>3. ASSUME NEW q \in Requests, CancelFolderRuns(q) PROVE HistoryInv'
  <2>1. /\ DOMAIN runs' = DOMAIN runs /\ \A r \in DOMAIN runs : RunGoesOn(r)
        /\ req'[q] \in RevokeRequest /\ \A p \in Requests \ {q} : Watches(p)
        /\ UNCHANGED <<store, config, agents, cached, ghosts>>
    BY <1>0, <1>3, CancelEffect
  <2>2. \A p \in Requests : Reads(p) /\ Unlinking(p)'
    BY <1>0, <2>1, WatcherReads DEF store, Reads, Unlinking, At, RevokeRequest
  <2>3. QED
    BY <1>1, <2>1, <2>2
<1>4. ASSUME NEW q \in Requests, DropGrant(q) PROVE HistoryInv'
  <2>1. /\ req'[q] = Idle /\ \A p \in Requests \ {q} : Watches(p)
        /\ UNCHANGED <<store, type, settings, agents, cached, runs, ghosts>>
    BY <1>0, <1>4, DropEffect
  <2>2. \A p \in Requests : Reads(p) /\ Unlinking(p)'
    BY <1>0, <2>1, WatcherReads DEF store, Reads, Unlinking, At, Idle
  <2>3. QED
    BY <1>1, <2>1, <2>2, RunsSame
<1>5. ASSUME NEW g \in {"read", "write"}, AddGrant(g) PROVE HistoryInv'
  <2>1. (\A p \in Requests : Watches(p)) /\ UNCHANGED <<store, type, settings, agents, cached, runs, ghosts>>
    BY <1>0, <1>5, AddGrantEffect
  <2>2. \A p \in Requests : Reads(p) /\ Unlinking(p)'
    BY <1>0, <2>1, WatcherReads DEF store
  <2>3. QED
    BY <1>1, <2>1, <2>2, RunsSame
<1>6. CASE UpdateSettings
  <2>1. UNCHANGED <<store, type, grant, agents, cached, runs, req, ghosts>>
    BY <1>6 DEF UpdateSettings
  <2>2. \A p \in Requests : Reads(p) /\ Unlinking(p)'
    BY <1>0, <2>1, WatcherReads DEF store
  <2>3. QED
    BY <1>1, <2>1, <2>2, RunsSame
<1>7. CASE Crash
  <2>1. /\ req' = [q \in Requests |-> Idle] /\ cached' = [s \in Sessions |-> 0]
        /\ DOMAIN runs' = DOMAIN runs /\ \A r \in DOMAIN runs : ~runs'[r].active
        /\ UNCHANGED <<store, config, agents, ghosts>>
    BY <1>0, <1>7, CrashEffect
  <2>2. \A p \in Requests : Reads(p) /\ Unlinking(p)'
    BY <2>1 DEF Reads, Unlinking, At, Idle
  <2>3. \A r \in DOMAIN runs : RunGoesOn(r)
    BY <2>1 DEF RunGoesOn
  <2>4. QED
    BY <1>1, <2>1, <2>2, <2>3
<1>8. QED
  BY <1>2, <1>3, <1>4, <1>5, <1>6, <1>7 DEF World

\* Every step keeps the invariant about the history.
LEMMA HistoryInvKept == BaseInv /\ HistoryInv /\ [Next]_vars => HistoryInv'
<1> SUFFICES ASSUME BaseInv, HistoryInv, [Next]_vars PROVE HistoryInv'
  OBVIOUS
<1>1. CASE UNCHANGED vars
  BY <1>1 DEF vars, store, ghosts, HistoryInv, HistoryOf, Unlinking, InUse, At
<1>2. CASE Next
  BY <1>2, HistoryRequestStep, HistoryDeletionStep, HistoryBuildStep, HistoryRecordStep, HistoryOtherStep
  DEF Next, Request, RunThread, DeletionStep
<1>3. QED
  BY <1>1, <1>2

\* No message of a conversation is lost, in its file or in the agent the next
\* request finds, unless two of its agents were in use at once: for any sessions,
\* requests, rebuilt agents and crashes.
THEOREM MessagesKept == Spec => []HistoryKept
<1>1. Init => HistoryInv
  <2> SUFFICES ASSUME Init PROVE HistoryInv
    OBVIOUS
  <2>1. \A q \in Requests : Unlinking(q)
    BY DEF Init, Unlinking, At, Idle
  <2>2. \A s \in Sessions : file[s] = {} /\ said[s] = {} /\ file[s] # NoFile
    BY DEF Init, NoFile
  <2>3. DOMAIN agents = {} /\ \A q \in Requests : req[q].kind # "start"
    BY DEF Init, Idle
  <2>4. QED
    BY <2>1, <2>2, <2>3 DEF HistoryInv, HistoryOf
<1>2. BaseInv /\ HistoryInv => HistoryKept
  <2> SUFFICES ASSUME BaseInv, HistoryInv, NEW s \in Sessions, exists[s], ~forked[s]
               PROVE  /\ file[s] # NoFile /\ said[s] \subseteq file[s]
                      /\ cached[s] # 0 => said[s] \subseteq agents[cached[s]].history
    BY DEF HistoryKept
  <2>1. cached[s] # 0 => InUse(s, cached[s]) /\ cached[s] \in DOMAIN agents
    BY DEF BaseInv, InUse, IsAgentOf
  <2>2. QED
    BY <2>1 DEF HistoryInv, HistoryOf
<1>3. QED
  BY <1>1, <1>2, BaseStart, BaseKept, HistoryInvKept, PTL DEF Spec

-----------------------------------------------------------------------------
(* FeishuBridge: messages                                                   *)

HandlerState == [msg : Messages \cup {"none"}, from : Nat, session : Nat,
                 pc : {"idle", "claim", "route", "create", "bind", "run", "completed", "failed"}]

MessageTypes ==
  /\ handler \in [Handlers -> HandlerState]
  /\ \A h \in Handlers : handler[h].pc # "idle" => handler[h].msg \in Messages
  /\ status \in [Messages -> {"none", "processing", "completed", "failed"}]
  /\ started \in [Messages -> Nat]
  /\ created \in Nat /\ chatSession \in Nat

\* The handler has claimed its message and may still start its run.
Working(h) == handler[h].pc \in {"route", "create", "bind", "run"}

\* The row of a claimed message keeps every other handler away from its run.
MessageInv ==
  /\ MessageTypes
  /\ \A h \in Handlers : Working(h) => status[handler[h].msg] # "none" /\ started[handler[h].msg] = 0
  /\ \A h, i \in Handlers : Working(h) /\ Working(i) /\ handler[h].msg = handler[i].msg => h = i
  /\ \A m \in Messages : (status[m] = "none" => started[m] = 0) /\ started[m] \in {0, 1}

\* No handler is at work when the bridge starts.
LEMMA MessageStart == BridgeInit => MessageInv
<1> SUFFICES ASSUME BridgeInit PROVE MessageInv
  OBVIOUS
<1>1. NoMessage \in HandlerState
  BY DEF NoMessage, HandlerState
<1>2. MessageTypes
  BY <1>1 DEF BridgeInit, MessageTypes, NoMessage
<1>3. \A h \in Handlers : ~Working(h)
  BY DEF BridgeInit, Working, NoMessage
<1>4. QED
  BY <1>2, <1>3 DEF MessageInv, BridgeInit

\* Handlers that lose their work, or go on with it, do no harm.
LEMMA MessageQuiet ==
  ASSUME MessageInv, MessageTypes', UNCHANGED started, \A m \in Messages : status'[m] = "none" <=> status[m] = "none",
         \A h \in Handlers : Working(h)' => Working(h) /\ handler'[h].msg = handler[h].msg
  PROVE  MessageInv'
BY DEF MessageInv, MessageTypes, HandlerState, Working

\* What a handler does to its message.
LEMMA HandlerStep ==
  ASSUME MessageInv, NEW h \in Handlers, Handle(h)
  PROVE  MessageInv'
<1>0. MessageTypes /\ handler[h] \in HandlerState
  BY DEF MessageInv, MessageTypes
<1>1. ASSUME NEW x \in HandlerState, handler' = [handler EXCEPT ![h] = x], x.pc # "idle" => x.msg \in Messages,
             status' \in [Messages -> {"none", "processing", "completed", "failed"}],
             started' \in [Messages -> Nat], created' \in Nat, chatSession' \in Nat
      PROVE  MessageTypes' /\ handler'[h] = x /\ \A i \in Handlers \ {h} : handler'[i] = handler[i]
  BY <1>0, <1>1 DEF MessageTypes
<1>2. ASSUME NEW x \in HandlerState, handler' = [handler EXCEPT ![h] = x], x.pc # "idle" => x.msg \in Messages,
             UNCHANGED <<status, started>>, created' \in Nat, chatSession' \in Nat,
             x.pc \in {"route", "create", "bind", "run"} => Working(h) /\ x.msg = handler[h].msg
      PROVE  MessageInv'
  <2>1. MessageTypes' /\ handler'[h] = x /\ \A i \in Handlers \ {h} : handler'[i] = handler[i]
    BY <1>0, <1>1, <1>2 DEF MessageTypes
  <2>2. \A i \in Handlers : Working(i)' => Working(i) /\ handler'[i].msg = handler[i].msg
    BY <1>2, <2>1 DEF Working
  <2>3. QED
    BY <1>2, <2>1, <2>2, MessageQuiet
<1>3. NoMessage \in HandlerState /\ NoMessage.pc = "idle"
  BY DEF NoMessage, HandlerState
<1>4. handler[h].pc # "idle" => handler[h].msg \in Messages
  BY <1>0 DEF MessageTypes
<1>5. ASSUME NEW g \in Generations, NEW m \in Messages, Deliver(h, g, m) PROVE MessageInv'
  <2> DEFINE x == [msg |-> m, from |-> g, session |-> 0, pc |-> "claim"]
  <2>1. x \in HandlerState /\ x.msg \in Messages /\ x.pc = "claim"
    BY DEF HandlerState, Generations
  <2>2. handler' = [handler EXCEPT ![h] = x] /\ UNCHANGED <<status, started, created, chatSession>>
    BY <1>5 DEF Deliver
  <2> HIDE DEF x
  <2>3. QED
    BY <1>0, <1>2, <2>1, <2>2 DEF MessageTypes
<1>6. CASE ClaimMessage(h)
  <2> DEFINE m == handler[h].msg
             x == [handler[h] EXCEPT !.pc = "route"]
  <2>1. m \in Messages /\ handler[h].pc = "claim"
    BY <1>4, <1>6 DEF ClaimMessage
  <2>2. CASE status[m] = "none"
    <3>1. x \in HandlerState /\ x.msg = m /\ x.pc = "route"
      BY <1>0 DEF HandlerState
    <3>2. handler' = [handler EXCEPT ![h] = x] /\ status' = [status EXCEPT ![m] = "processing"]
          /\ UNCHANGED <<started, created, chatSession>>
      BY <1>6, <2>2 DEF ClaimMessage
    <3> HIDE DEF x, m
    <3>3. status' \in [Messages -> {"none", "processing", "completed", "failed"}] /\ status'[m] = "processing"
          /\ \A k \in Messages \ {m} : status'[k] = status[k]
      BY <1>0, <2>1, <3>2 DEF MessageTypes
    <3>4. MessageTypes' /\ handler'[h] = x /\ \A i \in Handlers \ {h} : handler'[i] = handler[i]
      BY <1>0, <1>1, <2>1, <3>1, <3>2, <3>3 DEF MessageTypes
    <3>5. \A i \in Handlers \ {h} : Working(i)' => Working(i) /\ handler'[i].msg = handler[i].msg /\ handler[i].msg # m
      BY <2>2, <3>4 DEF Working, MessageInv
    <3>6. started[m] = 0
      BY <2>1, <2>2 DEF MessageInv
    <3>7. \A i \in Handlers : Working(i)' => status'[handler'[i].msg] # "none" /\ started'[handler'[i].msg] = 0
      BY <1>0, <3>1, <3>2, <3>3, <3>4, <3>5, <3>6 DEF MessageInv, MessageTypes, Working
    <3>8. \A i, j \in Handlers : Working(i)' /\ Working(j)' /\ handler'[i].msg = handler'[j].msg => i = j
      BY <3>1, <3>4, <3>5 DEF MessageInv
    <3>9. QED
      BY <3>2, <3>3, <3>4, <3>6, <3>7, <3>8 DEF MessageInv
  <2>3. CASE status[m] # "none"
    <3>1. handler' = [handler EXCEPT ![h] = NoMessage] /\ UNCHANGED <<started, created, chatSession>>
          /\ status' = [status EXCEPT ![m] = status[m]]
      BY <1>6, <2>3 DEF ClaimMessage
    <3>2. status' = status
      BY <1>0, <3>1 DEF MessageTypes
    <3>3. QED
      BY <1>0, <1>2, <1>3, <3>1, <3>2 DEF MessageTypes
  <2>4. QED
    BY <2>2, <2>3
<1>7. CASE RouteMessage(h)
  <2>1. /\ handler[h].pc = "route" /\ UNCHANGED <<status, started, created, chatSession>>
        /\ \/ handler' = [handler EXCEPT ![h] = [handler[h] EXCEPT !.pc = "completed"]]
           \/ handler' = [handler EXCEPT ![h] = [handler[h] EXCEPT !.session = chatSession, !.pc = "run"]]
           \/ handler' = [handler EXCEPT ![h] = [handler[h] EXCEPT !.pc = "create"]]
    BY <1>7 DEF RouteMessage
  <2>2. ASSUME NEW x \in HandlerState, handler' = [handler EXCEPT ![h] = x], x.msg = handler[h].msg PROVE MessageInv'
    BY <1>0, <1>2, <1>4, <2>1, <2>2 DEF Working, MessageTypes
  <2>3. /\ [handler[h] EXCEPT !.pc = "completed"] \in HandlerState
        /\ [handler[h] EXCEPT !.pc = "completed"].msg = handler[h].msg
    BY <1>0 DEF HandlerState
  <2>4. /\ [handler[h] EXCEPT !.session = chatSession, !.pc = "run"] \in HandlerState
        /\ [handler[h] EXCEPT !.session = chatSession, !.pc = "run"].msg = handler[h].msg
    BY <1>0 DEF HandlerState, MessageTypes
  <2>c. /\ [handler[h] EXCEPT !.pc = "create"] \in HandlerState
        /\ [handler[h] EXCEPT !.pc = "create"].msg = handler[h].msg
    BY <1>0 DEF HandlerState
  <2>5. QED
    BY <2>c, <2>1, <2>2, <2>3, <2>4
<1>8. CASE NewConversation(h) \/ CreateChatSession(h) \/ BindChatSession(h)
  <2> DEFINE n == created + 1
  <2>1. n \in Nat
    BY <1>0 DEF MessageTypes
  <2>2. /\ Working(h) /\ UNCHANGED <<status, started>> /\ created' \in Nat
        /\ \/ chatSession' = n /\ handler' = [handler EXCEPT ![h] = [handler[h] EXCEPT !.pc = "completed"]]
           \/ chatSession' = chatSession /\ handler' = [handler EXCEPT ![h] = [handler[h] EXCEPT !.session = n, !.pc = "bind"]]
           \/ chatSession' = handler[h].session /\ handler' = [handler EXCEPT ![h] = [handler[h] EXCEPT !.pc = "run"]]
    BY <1>0, <1>8, <2>1 DEF NewConversation, CreateChatSession, BindChatSession, Working, MessageTypes
  <2>3. chatSession' \in Nat
    BY <1>0, <2>1, <2>2 DEF MessageTypes, HandlerState
  <2> HIDE DEF n
  <2>4. ASSUME NEW x \in HandlerState, handler' = [handler EXCEPT ![h] = x], x.msg = handler[h].msg PROVE MessageInv'
    BY <1>2, <1>4, <2>2, <2>3, <2>4 DEF Working
  <2>5. /\ [handler[h] EXCEPT !.pc = "completed"] \in HandlerState
        /\ [handler[h] EXCEPT !.pc = "completed"].msg = handler[h].msg
    BY <1>0 DEF HandlerState
  <2>6. /\ [handler[h] EXCEPT !.session = n, !.pc = "bind"] \in HandlerState
        /\ [handler[h] EXCEPT !.session = n, !.pc = "bind"].msg = handler[h].msg
    BY <1>0, <2>1 DEF HandlerState
  <2>7. /\ [handler[h] EXCEPT !.pc = "run"] \in HandlerState
        /\ [handler[h] EXCEPT !.pc = "run"].msg = handler[h].msg
    BY <1>0 DEF HandlerState
  <2>8. QED
    BY <2>2, <2>4, <2>5, <2>6, <2>7
<1>9. CASE StartChannelRun(h)
  <2> DEFINE m == handler[h].msg
  <2>1. /\ handler[h].pc = "run" /\ UNCHANGED <<status, created, chatSession>>
        /\ \/ handler' = [handler EXCEPT ![h] = [handler[h] EXCEPT !.pc = "completed"]]
           \/ handler' = [handler EXCEPT ![h] = [handler[h] EXCEPT !.pc = "failed"]]
        /\ started' = started \/ started' = [started EXCEPT ![m] = @ + 1]
    BY <1>9 DEF StartChannelRun
  <2>2. PICK x \in HandlerState : handler' = [handler EXCEPT ![h] = x] /\ x.msg = m /\ x.pc \in {"completed", "failed"}
    <3>1. /\ [handler[h] EXCEPT !.pc = "completed"] \in HandlerState
          /\ [handler[h] EXCEPT !.pc = "completed"].msg = m /\ [handler[h] EXCEPT !.pc = "completed"].pc = "completed"
      BY <1>0 DEF HandlerState
    <3>2. /\ [handler[h] EXCEPT !.pc = "failed"] \in HandlerState
          /\ [handler[h] EXCEPT !.pc = "failed"].msg = m /\ [handler[h] EXCEPT !.pc = "failed"].pc = "failed"
      BY <1>0 DEF HandlerState
    <3>3. QED
      BY <2>1, <3>1, <3>2
  <2>3. m \in Messages /\ status[m] # "none" /\ started[m] = 0 /\ Working(h)
    BY <1>4, <2>1 DEF MessageInv, Working
  <2>4. CASE started' = started
    BY <1>0, <1>2, <1>4, <2>1, <2>2, <2>4 DEF MessageTypes
  <2>5. CASE started' = [started EXCEPT ![m] = @ + 1]
    <3> HIDE DEF m
    <3>1. started' \in [Messages -> Nat] /\ started'[m] = 1 /\ \A k \in Messages \ {m} : started'[k] = started[k]
      BY <1>0, <2>3, <2>5 DEF MessageTypes
    <3>2. MessageTypes' /\ handler'[h] = x /\ \A i \in Handlers \ {h} : handler'[i] = handler[i]
      BY <1>0, <1>1, <2>1, <2>2, <2>3, <3>1 DEF MessageTypes
    <3>3. \A i \in Handlers : Working(i)' => i # h /\ Working(i) /\ handler'[i].msg = handler[i].msg
      BY <2>2, <3>2 DEF Working
    <3>4. \A i \in Handlers : Working(i) /\ i # h => handler[i].msg # m /\ handler[i].msg \in Messages
      BY <1>0, <2>3 DEF MessageInv, m, MessageTypes, Working
    <3>5. \A i \in Handlers : Working(i)' => status'[handler'[i].msg] # "none" /\ started'[handler'[i].msg] = 0
      BY <2>1, <3>1, <3>3, <3>4 DEF MessageInv
    <3>6. \A i, j \in Handlers : Working(i)' /\ Working(j)' /\ handler'[i].msg = handler'[j].msg => i = j
      BY <3>3 DEF MessageInv
    <3>7. \A k \in Messages : (status'[k] = "none" => started'[k] = 0) /\ started'[k] \in {0, 1}
      BY <2>1, <2>3, <3>1 DEF MessageInv
    <3>8. QED
      BY <3>2, <3>5, <3>6, <3>7 DEF MessageInv
  <2>6. QED
    BY <2>1, <2>4, <2>5
<1>10. CASE FinishMessage(h)
  <2> DEFINE m == handler[h].msg
             pc == handler[h].pc
  <2>1. /\ pc \in {"completed", "failed"} /\ m \in Messages /\ status' = [status EXCEPT ![m] = pc]
        /\ handler' = [handler EXCEPT ![h] = NoMessage] /\ UNCHANGED <<started, created, chatSession>>
    BY <1>4, <1>10 DEF FinishMessage
  <2> HIDE DEF m, pc
  <2>2. status' \in [Messages -> {"none", "processing", "completed", "failed"}] /\ status'[m] # "none"
        /\ \A k \in Messages \ {m} : status'[k] = status[k]
    BY <1>0, <2>1 DEF MessageTypes
  <2>3. MessageTypes' /\ handler'[h] = NoMessage /\ \A i \in Handlers \ {h} : handler'[i] = handler[i]
    BY <1>0, <1>1, <1>3, <2>1, <2>2 DEF MessageTypes
  <2>4. \A i \in Handlers : Working(i)' => Working(i) /\ handler'[i].msg = handler[i].msg
    BY <1>3, <2>3 DEF Working
  <2>5. QED
    BY <2>1, <2>2, <2>3, <2>4 DEF MessageInv, MessageTypes, HandlerState, Working
<1>11. CASE CancelHandler(h)
  BY <1>0, <1>2, <1>3, <1>11 DEF CancelHandler, MessageTypes
<1>12. QED
  BY <1>5, <1>6, <1>7, <1>8, <1>9, <1>10, <1>11 DEF Handle

\* The connection, the gateway, deletions and crashes leave no message claimed twice.
LEMMA MessageKept == MessageInv /\ [BridgeNext]_bridgeVars => MessageInv'
<1> SUFFICES ASSUME MessageInv, [BridgeNext]_bridgeVars PROVE MessageInv'
  OBVIOUS
<1>1. UNCHANGED messaging => MessageInv'
  BY DEF messaging, MessageInv, MessageTypes, Working
<1>2. ASSUME NEW c \in Callers, Gateway(c) PROVE UNCHANGED messaging
  BY <1>2 DEF Gateway, UpdateBridgeSettings, StartIntegrations, StopBridge, ClearBridge, ReadBridgeSettings, StartBridge
<1>3. ASSUME NEW g \in Generations, Thread(g) PROVE UNCHANGED messaging
  BY <1>3 DEF Thread, ServeChannel, Connected, Disconnected
<1>4. CASE DeleteChatSession
  BY <1>4, MessageQuiet DEF DeleteChatSession, MessageInv, MessageTypes, Working
<1>5. CASE CrashBridge
  <2>1. handler' = [h \in Handlers |-> NoMessage] /\ UNCHANGED <<status, started, created, chatSession>>
    BY <1>5 DEF CrashBridge
  <2>2. NoMessage \in HandlerState /\ NoMessage.pc = "idle"
    BY DEF NoMessage, HandlerState
  <2>3. MessageTypes'
    BY <2>1, <2>2 DEF MessageInv, MessageTypes
  <2>4. QED
    BY <2>1, <2>2, <2>3, MessageQuiet DEF Working
<1>6. CASE UNCHANGED bridgeVars
  BY <1>1, <1>6 DEF bridgeVars
<1>7. QED
  BY <1>1, <1>2, <1>3, <1>4, <1>5, <1>6, HandlerStep DEF BridgeNext

\* A message of the messenger starts one run at most, however often and over
\* whichever connections it is delivered, and whatever crashes in between.
THEOREM MessageStartsOneRun == BridgeSpec => []MessageOnce
<1>1. MessageInv => MessageOnce
  <2> SUFFICES ASSUME MessageInv, NEW m \in Messages PROVE started[m] <= 1
    BY DEF MessageOnce
  <2>1. started[m] \in {0, 1}
    BY DEF MessageInv
  <2>2. QED
    BY <2>1
<1>2. QED
  BY <1>1, MessageStart, MessageKept, PTL DEF BridgeSpec

-----------------------------------------------------------------------------
(* FeishuBridge: the connection                                             *)

ConnectionTypes ==
  /\ generation \in 0 .. MaxGenerations /\ thread \in Nat
  /\ enabled \in BOOLEAN /\ stale \in BOOLEAN
  /\ conn \in [Generations -> {"dead", "building", "connecting", "serving"}]
  /\ call \in [Callers -> {"idle", "stop", "join", "read", "start"}]

Calling(pcs) == \E c \in Callers : call[c] \in pcs

\* A current connection that no request is about to stop is wanted; once it is
\* built the bridge listens to it, or a request is about to start the bridge again
\* and will look at the settings first.
ConnectionInv ==
  /\ ConnectionTypes
  /\ channel \in 0 .. generation
  /\ \A g \in Generations : g > generation => conn[g] = "dead"
  /\ channel # 0 /\ ~Calling({"join"}) => channel = generation \/ conn[generation] = "building"
  /\ generation # 0 /\ ~stale /\ ~Calling({"stop"}) =>
       /\ conn[generation] # "dead" => enabled
       /\ conn[generation] \in Open => channel = generation \/ (thread = 0 /\ Calling({"read", "start"}))

\* The bridge starts without a connection.
LEMMA ConnectionStart == BridgeInit => ConnectionInv
<1> SUFFICES ASSUME BridgeInit PROVE ConnectionInv
  OBVIOUS
<1>1. /\ generation = 0 /\ channel = 0 /\ thread = 0 /\ enabled = TRUE /\ stale = FALSE
      /\ conn = [g \in Generations |-> "dead"] /\ call = [c \in Callers |-> "idle"]
  BY DEF BridgeInit
<1>2. ConnectionTypes
  <2>1. generation \in 0 .. MaxGenerations /\ thread \in Nat
    BY <1>1, BridgeAssumption
  <2>2. conn \in [Generations -> {"dead", "building", "connecting", "serving"}]
    BY <1>1
  <2>3. call \in [Callers -> {"idle", "stop", "join", "read", "start"}]
    BY <1>1
  <2>4. enabled \in BOOLEAN /\ stale \in BOOLEAN
    BY <1>1
  <2>5. QED
    BY <2>1, <2>2, <2>3, <2>4 DEF ConnectionTypes
<1>3. \A g \in Generations : conn[g] = "dead"
  BY <1>1
<1>4. QED
  BY <1>1, <1>2, <1>3 DEF ConnectionInv

\* A request of the gateway
LEMMA GatewayStep ==
  ASSUME ConnectionInv, NEW c \in Callers, Gateway(c)
  PROVE  ConnectionInv'
<1>0. ConnectionTypes /\ generation \in Nat /\ MaxGenerations \in Nat
  BY BridgeAssumption DEF ConnectionInv, ConnectionTypes
<1>1. ASSUME NEW pc \in {"idle", "stop", "join", "read", "start"}, call' = [call EXCEPT ![c] = pc]
      PROVE  /\ call' \in [Callers -> {"idle", "stop", "join", "read", "start"}]
             /\ call'[c] = pc /\ \A d \in Callers \ {c} : call'[d] = call[d]
  BY <1>0, <1>1 DEF ConnectionTypes
<1>2. ASSUME NEW on \in BOOLEAN, UpdateBridgeSettings(c, on) PROVE ConnectionInv'
  <2>1. /\ call[c] = "idle" /\ call' = [call EXCEPT ![c] = "stop"] /\ enabled' = on
        /\ UNCHANGED <<generation, thread, channel, conn, stale>>
    BY <1>2 DEF UpdateBridgeSettings
  <2>2. Calling({"stop"})' /\ (Calling({"join"})' <=> Calling({"join"}))
    BY <1>1, <2>1 DEF Calling
  <2>3. ConnectionTypes'
    BY <1>0, <1>1, <2>1 DEF ConnectionTypes
  <2>4. QED
    BY <2>1, <2>2, <2>3 DEF ConnectionInv
<1>3. CASE StartIntegrations(c)
  <2>1. /\ call[c] = "idle" /\ call' = [call EXCEPT ![c] = "read"]
        /\ \A g \in Generations : conn[g] = "dead"
        /\ UNCHANGED <<enabled, generation, thread, channel, conn, stale>>
    BY <1>3 DEF StartIntegrations
  <2>2. (Calling({"join"})' <=> Calling({"join"})) /\ (Calling({"stop"})' <=> Calling({"stop"}))
    BY <1>1, <2>1 DEF Calling
  <2>3. ConnectionTypes'
    BY <1>0, <1>1, <2>1 DEF ConnectionTypes
  <2>4. generation # 0 => conn[generation] = "dead"
    BY <1>0, <2>1 DEF Generations, ConnectionTypes
  <2>5. QED
    BY <2>1, <2>2, <2>3, <2>4 DEF ConnectionInv, Open
<1>4. CASE StopBridge(c)
  <2>1. /\ generation < MaxGenerations /\ generation' = generation + 1 /\ call' = [call EXCEPT ![c] = "join"]
        /\ UNCHANGED <<enabled, thread, channel, conn, stale>>
    BY <1>4 DEF StopBridge
  <2>2. Calling({"join"})'
    BY <1>1, <2>1 DEF Calling
  <2>3. ConnectionTypes'
    BY <1>0, <1>1, <2>1 DEF ConnectionTypes
  <2>4. conn'[generation'] = "dead" /\ \A g \in Generations : g > generation' => conn'[g] = "dead"
    BY <1>0, <2>1 DEF ConnectionInv, Generations
  <2>5. channel' \in 0 .. generation'
    BY <1>0, <2>1 DEF ConnectionInv
  <2>6. QED
    BY <2>2, <2>3, <2>4, <2>5 DEF ConnectionInv, Open
<1>5. CASE ClearBridge(c)
  <2>1. /\ call[c] = "join" /\ channel' = 0 /\ thread' = 0 /\ call' = [call EXCEPT ![c] = "read"]
        /\ UNCHANGED <<enabled, generation, conn, stale>>
    BY <1>5 DEF ClearBridge
  <2>2. (Calling({"stop"})' <=> Calling({"stop"})) /\ Calling({"read", "start"})'
    BY <1>1, <2>1 DEF Calling
  <2>3. ConnectionTypes'
    BY <1>0, <1>1, <2>1 DEF ConnectionTypes
  <2>4. QED
    BY <1>0, <2>1, <2>2, <2>3 DEF ConnectionInv
<1>6. CASE ReadBridgeSettings(c)
  <2>1. /\ call[c] = "read" /\ call' = [call EXCEPT ![c] = IF enabled THEN "start" ELSE "idle"]
        /\ UNCHANGED <<enabled, generation, thread, channel, conn, stale>>
    BY <1>6 DEF ReadBridgeSettings
  <2>2. /\ (Calling({"stop"})' <=> Calling({"stop"})) /\ (Calling({"join"})' <=> Calling({"join"}))
        /\ enabled => Calling({"read", "start"})'
    BY <1>1, <2>1 DEF Calling
  <2>3. ConnectionTypes'
    BY <1>0, <1>1, <2>1 DEF ConnectionTypes
  <2>4. QED
    BY <2>1, <2>2, <2>3 DEF ConnectionInv, Open
<1>7. CASE StartBridge(c)
  <2>1. /\ call[c] = "start" /\ call' = [call EXCEPT ![c] = "idle"] /\ UNCHANGED <<enabled, channel>>
        /\ \/ thread # 0 /\ UNCHANGED <<generation, thread, conn, stale>>
           \/ /\ generation < MaxGenerations /\ generation' = generation + 1 /\ thread' = generation + 1
              /\ conn' = [conn EXCEPT ![generation + 1] = "building"] /\ stale' = (stale \/ ~enabled)
    BY <1>7 DEF StartBridge, Alive
  <2>2. (Calling({"stop"})' <=> Calling({"stop"})) /\ (Calling({"join"})' <=> Calling({"join"}))
    BY <1>1, <2>1 DEF Calling
  <2>3. CASE thread # 0 /\ UNCHANGED <<generation, thread, conn, stale>>
    <3>1. ConnectionTypes'
      BY <1>0, <1>1, <2>1, <2>3 DEF ConnectionTypes
    <3>2. QED
      BY <2>1, <2>2, <2>3, <3>1 DEF ConnectionInv
  <2>4. CASE /\ generation < MaxGenerations /\ generation' = generation + 1 /\ thread' = generation + 1
             /\ conn' = [conn EXCEPT ![generation + 1] = "building"] /\ stale' = (stale \/ ~enabled)
    <3>1. /\ generation + 1 \in Generations /\ conn'[generation'] = "building"
          /\ \A g \in Generations : g > generation' => conn'[g] = "dead"
      BY <1>0, <2>4 DEF ConnectionInv, ConnectionTypes, Generations
    <3>2. ConnectionTypes'
      BY <1>0, <1>1, <2>1, <2>4, <3>1 DEF ConnectionTypes
    <3>3. channel' \in 0 .. generation'
      BY <1>0, <2>1, <2>4 DEF ConnectionInv
    <3>4. QED
      BY <2>1, <2>4, <3>1, <3>2, <3>3 DEF ConnectionInv, Open
  <2>5. QED
    BY <2>1, <2>3, <2>4
<1>8. QED
  BY <1>2, <1>3, <1>4, <1>5, <1>6, <1>7 DEF Gateway

\* A thread of the bridge: what it does depends on whether it is still current.
LEMMA ThreadStep ==
  ASSUME ConnectionInv, NEW g \in Generations, Thread(g)
  PROVE  ConnectionInv'
<1>0. ConnectionTypes /\ generation \in Nat /\ g \in Nat /\ g # 0 /\ g <= MaxGenerations
  BY BridgeAssumption DEF ConnectionInv, ConnectionTypes, Generations
<1>1. conn[g] # "dead" /\ UNCHANGED <<enabled, generation, call, stale>>
  BY DEF Thread, ServeChannel, Connected, Disconnected
<1>2. g <= generation
  BY <1>0, <1>1 DEF ConnectionInv
<1>3. \A pcs : Calling(pcs)' <=> Calling(pcs)
  BY <1>1 DEF Calling
<1>4. \/ g = generation /\ conn[g] = "building" /\ channel' = g /\ conn' = [conn EXCEPT ![g] = "connecting"] /\ UNCHANGED thread
      \/ g = generation /\ conn[g] = "connecting" /\ conn' = [conn EXCEPT ![g] = "serving"] /\ UNCHANGED <<channel, thread>>
      \/ EndThread(g)
  BY DEF Thread, ServeChannel, Connected, Disconnected
<1>5. CASE g = generation /\ conn[g] = "building" /\ channel' = g /\ conn' = [conn EXCEPT ![g] = "connecting"] /\ UNCHANGED thread
  <2>1. ConnectionTypes' /\ \A h \in Generations \ {g} : conn'[h] = conn[h]
    BY <1>0, <1>1, <1>5 DEF ConnectionTypes
  <2>2. QED
    BY <1>0, <1>1, <1>3, <1>5, <2>1 DEF ConnectionInv, Open
<1>6. CASE g = generation /\ conn[g] = "connecting" /\ conn' = [conn EXCEPT ![g] = "serving"] /\ UNCHANGED <<channel, thread>>
  <2>1. ConnectionTypes' /\ \A h \in Generations \ {g} : conn'[h] = conn[h]
    BY <1>0, <1>1, <1>6 DEF ConnectionTypes
  <2>2. conn'[generation] = "serving"
    BY <1>0, <1>6 DEF ConnectionTypes
  <2>3. QED
    BY <1>0, <1>1, <1>3, <1>6, <2>1, <2>2 DEF ConnectionInv, Open
<1>7. CASE EndThread(g)
  <2>1. /\ conn' = [conn EXCEPT ![g] = "dead"]
        /\ g = generation => channel' = 0 /\ thread' = 0
        /\ g # generation => UNCHANGED <<channel, thread>>
    BY <1>7 DEF EndThread
  <2>2. ConnectionTypes' /\ conn'[g] = "dead" /\ \A h \in Generations \ {g} : conn'[h] = conn[h]
    BY <1>0, <1>1, <2>1 DEF ConnectionTypes
  <2>3. CASE g = generation
    BY <1>0, <1>1, <1>3, <2>1, <2>2, <2>3 DEF ConnectionInv, Open
  <2>4. CASE g # generation
    <3>1. generation \in Generations /\ conn'[generation] = conn[generation]
      BY <1>0, <1>2, <2>2, <2>4 DEF ConnectionTypes, Generations
    <3>2. QED
      BY <1>0, <1>1, <1>3, <2>1, <2>2, <2>4, <3>1 DEF ConnectionInv, Open
  <2>5. QED
    BY <2>3, <2>4
<1>8. QED
  BY <1>4, <1>5, <1>6, <1>7

\* Handlers do not touch the connection, and a crash ends it.
LEMMA ConnectionKept == ConnectionInv /\ [BridgeNext]_bridgeVars => ConnectionInv'
<1> SUFFICES ASSUME ConnectionInv, [BridgeNext]_bridgeVars PROVE ConnectionInv'
  OBVIOUS
<1>1. UNCHANGED connection => ConnectionInv'
  BY DEF connection, ConnectionInv, ConnectionTypes, Calling
<1>2. ASSUME NEW h \in Handlers, Handle(h) PROVE UNCHANGED connection
  BY <1>2 DEF Handle, Deliver, ClaimMessage, RouteMessage, NewConversation, CreateChatSession, BindChatSession,
              StartChannelRun, FinishMessage, CancelHandler
<1>3. CASE DeleteChatSession
  BY <1>1, <1>3 DEF DeleteChatSession
<1>4. CASE CrashBridge
  <2>1. /\ thread' = 0 /\ channel' = 0 /\ conn' = [g \in Generations |-> "dead"] /\ call' = [c \in Callers |-> "idle"]
        /\ UNCHANGED <<enabled, generation, stale>>
    BY <1>4 DEF CrashBridge
  <2>2. ConnectionTypes' /\ generation \in Nat /\ generation <= MaxGenerations
    BY <2>1, BridgeAssumption DEF ConnectionInv, ConnectionTypes
  <2>3. generation # 0 => conn'[generation] = "dead"
    BY <2>1, <2>2 DEF Generations
  <2>4. QED
    BY <2>1, <2>2, <2>3 DEF ConnectionInv, Open
<1>5. CASE UNCHANGED bridgeVars
  BY <1>1, <1>5 DEF bridgeVars
<1>6. QED
  BY <1>1, <1>2, <1>3, <1>4, <1>5, GatewayStep, ThreadStep DEF BridgeNext

\* The bridge answers over its newest connection or over none, and a connection
\* that is current is the one it listens to and the settings want - for any
\* number of requests, threads and crashes, in any order.
THEOREM NewestConnection == BridgeSpec => []ChannelIsCurrent
<1>1. ConnectionInv => ChannelIsCurrent
  BY DEF ConnectionInv, ChannelIsCurrent, Calling, Open
<1>2. QED
  BY <1>1, ConnectionStart, ConnectionKept, PTL DEF BridgeSpec

=============================================================================
