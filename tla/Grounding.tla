------------------------------ MODULE Grounding ------------------------------
(***************************************************************************)
(* From a message to the evidence its answer may use:                      *)
(* DesktopController.start_run (poppy/application/controller.py).  The     *)
(* request reads the session's row, the grants, the attachments, a text    *)
(* selected in another application, the index and the notes, each on its   *)
(* own, and then starts the agent with what it found or answers itself     *)
(* that there is no evidence.  Meanwhile grants come and go and files are  *)
(* indexed anew.  What a search returns is taken from Retrieval; here it   *)
(* is pieces of any authorized documents, the best of them strong or weak; *)
(* a piece is the document it comes from.                                  *)
(***************************************************************************)
EXTENDS Naturals, FiniteSets

CONSTANTS
  Papers,        \* documents
  GrantRoots,         \* folders that may be granted
  RootOf,        \* RootOf[d]: the folder the file of d lies in
  Workspace,     \* the folder of a project's session
  NoPaper,       \* "", None
  Queries,      \* what is asked: [path, mentions, brings, quick, intent, full, channel, needs, scope]
  MaxChanges     \* bound: changes of grants and index

Query ==
  [path : Papers \cup {NoPaper}, mentions : Papers \cup {NoPaper}, brings : SUBSET Papers,
   quick : BOOLEAN, intent : {"translate", "explain", "summarize", "ask"}, full : BOOLEAN,
   channel : BOOLEAN, needs : BOOLEAN, scope : STRING]

ASSUME GroundAssumption ==
  Queries \subseteq Query /\ Queries # {} /\ RootOf \in [Papers -> GrantRoots] /\ Workspace \in GrantRoots

VARIABLES
  granted,   \* folders with a grant to read
  indexed,   \* documents with a row
  attached,  \* documents attached to the session
  tied,      \* locked_document_id
  project,   \* session_type
  selection, \* the captured selection, and the piece it was located in, if any
  ask,       \* the request
  allowed,   \* documents the user has let it read (history variable)
  changes

groundVars == <<granted, indexed, attached, tied, project, selection, ask, allowed, changes>>

Covered(d) == RootOf[d] \in granted

(* A message that nothing was looked up for yet *)
Unread(m) ==
  [message |-> m, at |-> "idle", roots |-> {}, files |-> {}, row |-> NoPaper, paper |-> NoPaper,
   match |-> {}, hits |-> {}, strong |-> FALSE, notes |-> FALSE]

(* between requests *)
Waiting == Unread(CHOOSE m \in Queries : TRUE)

NoSelection == [held |-> FALSE, where |-> {}]

GroundInit ==
  /\ granted \in SUBSET GrantRoots /\ attached = {} /\ tied = NoPaper /\ project \in BOOLEAN
  /\ indexed = {d \in Papers : Covered(d)}
  /\ selection = NoSelection
  /\ ask = Waiting
  /\ allowed = {} /\ changes = 0

Goes(to) == ask' = [ask EXCEPT !.at = to]
Refuse == ask' = Waiting

-----------------------------------------------------------------------------
(* The message and its reach *)

Pose(m) ==
  /\ ask.at \in {"idle", "run"}
  /\ ask' = [Unread(m) EXCEPT !.at = "reach", !.row = tied]
  /\ indexed' = indexed \cup m.brings /\ attached' = attached \cup m.brings
  /\ allowed' = {d \in Papers : Covered(d)} \cup attached'
  /\ UNCHANGED <<granted, tied, project, selection, changes>>

(* _resolved_knowledge_scope: a project asks its own folder, unless the    *)
(* scope is wider or names what is gone                                    *)
AsksWorkspace ==
  /\ project
  /\ IF ask.row = NoPaper THEN ask.message.scope = "auto" ELSE ask.row \in indexed

ReadReach ==
  /\ ask.at = "reach"
  /\ IF ask.message.channel
       THEN ask' = [ask EXCEPT !.at = "paper", !.files = attached]
     ELSE IF ~AsksWorkspace
       THEN ask' = [ask EXCEPT !.at = "paper", !.files = attached, !.roots = granted]
     ELSE IF Workspace \in granted
       THEN ask' = [ask EXCEPT !.at = "paper", !.files = attached, !.roots = {Workspace}]
     ELSE Refuse
  /\ UNCHANGED <<granted, indexed, attached, tied, project, selection, allowed, changes>>

Reach == {d \in indexed : RootOf[d] \in ask.roots \/ d \in ask.files}

(* The document the client names, else the one the message mentions, else  *)
(* the row's; each becomes the session's.                                  *)
ChoosePaper ==
  LET m == ask.message
  IN  /\ ask.at = "paper"
      /\ IF m.path # NoPaper /\ m.path \notin ask.files /\ ~Covered(m.path)
           THEN Refuse /\ UNCHANGED <<indexed, tied>>
         ELSE IF m.path # NoPaper
           THEN /\ indexed' = indexed \cup {m.path} /\ tied' = m.path
                /\ ask' = [ask EXCEPT !.at = "quick", !.paper = m.path]
         ELSE /\ ask' = [ask EXCEPT !.at = "quick",
                   !.paper = IF m.mentions \in Reach THEN m.mentions
                             ELSE IF ask.row \in Reach THEN ask.row ELSE NoPaper]
              /\ tied' = IF m.mentions \in Reach THEN m.mentions
                         ELSE IF ask.row = NoPaper THEN tied
                         ELSE IF ask.row \in Reach THEN tied ELSE NoPaper
              /\ UNCHANGED indexed
  /\ UNCHANGED <<granted, attached, project, selection, allowed, changes>>

-----------------------------------------------------------------------------
(* A selection captured before *)

(* resolve_quick_context, over all grants                                  *)
CaptureSelection ==
  /\ \E where \in {{}} \cup {{d} : d \in {e \in indexed : Covered(e)}} :
       selection' = [held |-> TRUE, where |-> where]
  /\ ~selection.held
  /\ UNCHANGED <<granted, indexed, attached, tied, project, ask, allowed, changes>>

SelectionExpires ==
  /\ selection.held /\ selection' = NoSelection
  /\ UNCHANGED <<granted, indexed, attached, tied, project, ask, allowed, changes>>

(* _quick_context: where it was located still has to be below a grant      *)
CapturedMatch == {d \in selection.where : Covered(d)}

(* With attachments the selection is located anew, in what the session may *)
(* read.  The document must still have a row to become the session's.      *)
ReadSelection ==
  /\ ask.at = "quick"
  /\ IF ~ask.message.quick THEN Goes("search") /\ UNCHANGED tied
     ELSE IF ~selection.held THEN Refuse /\ UNCHANGED tied
     ELSE \E match \in {CapturedMatch}
                         \cup (IF ask.files = {} THEN {} ELSE {{d} : d \in Reach}) :
            LET there == match \cap indexed
            IN  /\ ask' = [ask EXCEPT !.at = "search", !.match = match,
                             !.paper = IF there = {} THEN @ ELSE CHOOSE d \in there : TRUE]
                /\ tied' = IF there = {} THEN tied ELSE CHOOSE d \in there : TRUE
  /\ UNCHANGED <<granted, indexed, attached, project, selection, allowed, changes>>

-----------------------------------------------------------------------------
(* Evidence *)

(* search_document of one document, search of all; what lies around a      *)
(* selection is what was there when it was captured                        *)
SearchFor ==
  IF ask.message.quick
    THEN IF ask.message.intent = "ask"
           THEN {found \cup ask.match : found \in SUBSET (ask.match \cap Reach)}
           ELSE {ask.match}
  ELSE IF ask.paper # NoPaper THEN SUBSET ({ask.paper} \cap Reach)
  ELSE SUBSET Reach

FindEvidence ==
  /\ ask.at = "search"
  /\ \E hits \in SearchFor, strong \in BOOLEAN :
       ask' = [ask EXCEPT !.at = "notes", !.hits = hits, !.strong = strong /\ hits # {},
                            !.row = NoPaper, !.match = {}]
  /\ UNCHANGED <<granted, indexed, attached, tied, project, selection, allowed, changes>>

ReadNotes ==
  /\ ask.at = "notes"
  /\ \E notes \in BOOLEAN : ask' = [ask EXCEPT !.at = "preview", !.notes = notes]
  /\ UNCHANGED <<granted, indexed, attached, tied, project, selection, allowed, changes>>

(* Nothing found: the first pieces of the files that came with the message,*)
(* which matched nothing and so are weak                                   *)
Preview ==
  /\ ask.at = "preview"
  /\ ask' = [ask EXCEPT !.at = "start",
       !.hits = IF @ # {} THEN @ ELSE ask.message.brings \cap indexed]
  /\ UNCHANGED <<granted, indexed, attached, tied, project, selection, allowed, changes>>

(* variant: any row is evidence                                            *)
SomeEvidence == ask.hits # {}

(* evidence_sufficient: the first row decides                              *)
EvidenceSufficient == ask.strong

(* The two cases in which Poppy answers by itself that it has no evidence  *)
LacksEvidence ==
  /\ ~ask.message.quick /\ ~EvidenceSufficient
  /\ ask.paper = NoPaper => ask.message.needs /\ ~ask.notes

(* the agent is given the evidence                                         *)
Started == [ask EXCEPT !.at = "run", !.roots = {}, !.files = {}, !.strong = FALSE, !.notes = FALSE]

StartAnswer ==
  /\ ask.at = "start"
  /\ \/ /\ ask.message.full /\ ask.paper # NoPaper
        /\ ask' = [Started EXCEPT !.hits = {ask.paper} \cap Reach]
     \/ /\ ~ask.message.full
        /\ ask' = IF LacksEvidence THEN Waiting ELSE Started
     \/ ask.message.full /\ ask.paper = NoPaper /\ ask' = Waiting
  /\ UNCHANGED <<granted, indexed, attached, tied, project, selection, allowed, changes>>

-----------------------------------------------------------------------------
(* What others do meanwhile *)

MayChange == changes < MaxChanges /\ changes' = changes + 1

(* add_grant and the scan that follows                                     *)
Grant(r) ==
  /\ MayChange /\ r \notin granted /\ granted' = granted \cup {r}
  /\ indexed' = indexed \cup {d \in Papers : RootOf[d] = r}
  /\ allowed' = allowed \cup {d \in Papers : RootOf[d] = r}
  /\ UNCHANGED <<attached, tied, project, selection, ask>>

(* delete_grant: the folder's documents go with it                         *)
Revoke(r) ==
  /\ MayChange /\ r \in granted /\ granted' = granted \ {r}
  /\ indexed' = {d \in indexed : RootOf[d] # r}
  /\ UNCHANGED <<attached, tied, project, selection, ask, allowed>>

(* the indexer, of a file that is gone                                     *)
DropPaper(d) ==
  /\ MayChange /\ d \in indexed /\ indexed' = indexed \ {d}
  /\ UNCHANGED <<granted, attached, tied, project, selection, ask, allowed>>

GroundNext ==
  \/ \E m \in Queries : Pose(m)
  \/ ReadReach \/ ChoosePaper \/ ReadSelection \/ FindEvidence \/ ReadNotes \/ Preview \/ StartAnswer
  \/ CaptureSelection \/ SelectionExpires
  \/ \E r \in GrantRoots : Grant(r) \/ Revoke(r)
  \/ \E d \in Papers : DropPaper(d)

GroundSpec == GroundInit /\ [][GroundNext]_groundVars

-----------------------------------------------------------------------------
(* Properties *)

(* When the agent is started, each piece it is given comes from a document *)
(* that the user had granted when the message was sent, or since, or that  *)
(* is attached to the conversation; and a conversation about one document  *)
(* is answered from that document or not at all, although the files of the *)
(* message stand in when nothing is found                                  *)
(* (docs/architecture/poppy-document-reliability.md:33, 68).  A selection  *)
(* is its own evidence.                                                    *)
AnswersAreGrounded ==
  ask.at = "run" =>
    /\ ask.hits \subseteq allowed
    /\ ask.paper # NoPaper /\ ~ask.message.quick => ask.hits \subseteq {ask.paper}
    /\ ask.paper # NoPaper /\ ~ask.message.quick /\ ~ask.message.full => ask.hits # {}
=============================================================================
