---------------------------- MODULE DurableMemory ----------------------------
(***************************************************************************)
(* The durable memory of a folder: DurableMemoryStore.promote              *)
(* (poppy/features/memory.py), called at the end of a run by               *)
(* Poppy.promote_durable_memory.  The sessions of a folder share its       *)
(* files, an index of topics and a file of notes for each, and no lock     *)
(* guards them: promote reads everything and then writes file by file.     *)
(***************************************************************************)
EXTENDS Naturals, Sequences, FiniteSets

CONSTANTS Agents,         \* sessions of the folder
          Topics,         \* DURABLE_TOPIC_DEFAULTS
          Facts,      \* notes
          Subject,        \* Subject[n]: what note n is about, None if that cannot be told
          None,
          MaxPromotions,  \* bound: runs that end with something to keep
          MaxTears        \* bound: crashes inside a promotion

VARIABLES index,     \* topics listed in MEMORY.md
          topicFile, \* the notes of each topic's file, in order
          agent,     \* agent[a]: where its promotion is, and what it writes
          promotions, tears,
          kept,      \* history: notes promoted and not superseded since
          clashed    \* history: two promotions overlapped, or a file was cut by a crash

durableVars == <<index, topicFile, agent, promotions, tears, kept, clashed>>

Quiet == [pc |-> "idle", topic |-> None, note |-> None, index |-> {}, notes |-> [t \in Topics |-> <<>>], left |-> {}]

DurableInit ==
  /\ index = {} /\ topicFile = [t \in Topics |-> <<>>]
  /\ agent = [a \in Agents |-> Quiet]
  /\ promotions = 0 /\ tears = 0
  /\ kept = {} /\ clashed = FALSE

\* the note of the same subject, or 0
SameSubject(notes, n) ==
  LET same == {i \in DOMAIN notes : Subject[n] # None /\ Subject[notes[i]] = Subject[n]}
  IN IF same = {} THEN 0 ELSE CHOOSE i \in same : \A j \in same : i <= j

\* the notes of a topic with one more: in place of the one about the same subject
WithNote(notes, n) ==
  IF \E i \in DOMAIN notes : notes[i] = n THEN notes
  ELSE IF SameSubject(notes, n) # 0 THEN [notes EXCEPT ![SameSubject(notes, n)] = n]
  ELSE Append(notes, n)

\* mutant: promote starts from the topics it adds to, not from the index
OnlyPromoted(t) == {t}

\* the topics a promotion writes: those of the index and the new one
Written(t) == index \cup {t}

\* load_index and load_topic_notes; a promotion is one note here
Load(a) ==
  /\ agent[a].pc = "idle" /\ promotions < MaxPromotions
  /\ \E t \in Topics, n \in Facts :
       agent' = [agent EXCEPT ![a] =
         [pc |-> "index", topic |-> t, note |-> n, index |-> Written(t), left |-> Written(t),
          notes |-> [[u \in Topics |-> IF u \in index THEN topicFile[u] ELSE <<>>]
                       EXCEPT ![t] = WithNote(@, n)]]]
  /\ promotions' = promotions + 1
  /\ clashed' = (clashed \/ \E b \in Agents : agent[b].pc # "idle")
  /\ UNCHANGED <<index, topicFile, tears, kept>>

WriteIndex(a) ==
  /\ agent[a].pc = "index"
  /\ index' = agent[a].index
  /\ agent' = [agent EXCEPT ![a].pc = "topics"]
  /\ UNCHANGED <<topicFile, promotions, tears, kept, clashed>>

\* _write_topic, for every topic; with the last one the note is kept
WriteTopic(a) ==
  /\ agent[a].pc = "topics"
  /\ \E t \in agent[a].left :
       /\ topicFile' = [topicFile EXCEPT ![t] = agent[a].notes[t]]
       /\ IF agent[a].left = {t}
          THEN /\ agent' = [agent EXCEPT ![a] = Quiet]
               /\ kept' = {k \in kept : ~(k[1] = agent[a].topic /\ Subject[k[2]] # None
                                          /\ Subject[k[2]] = Subject[agent[a].note])}
                          \cup {<<agent[a].topic, agent[a].note>>}
          ELSE /\ agent' = [agent EXCEPT ![a].left = @ \ {t}]
               /\ UNCHANGED kept
  /\ UNCHANGED <<index, promotions, tears, clashed>>

\* the program ends; write_text empties a file before it fills it
Tear ==
  /\ tears < MaxTears /\ \E a \in Agents : agent[a].pc # "idle"
  /\ tears' = tears + 1
  /\ agent' = [a \in Agents |-> Quiet]
  /\ \/ UNCHANGED <<index, topicFile, clashed>>
     \/ \E a \in Agents : agent[a].pc = "index" /\ index' = {} /\ clashed' = TRUE /\ UNCHANGED topicFile
     \/ \E a \in Agents : \E t \in agent[a].left :
          agent[a].pc = "topics" /\ topicFile' = [topicFile EXCEPT ![t] = <<>>] /\ clashed' = TRUE
          /\ UNCHANGED index
  /\ UNCHANGED <<promotions, kept>>

DurableNext == Tear \/ \E a \in Agents : Load(a) \/ WriteIndex(a) \/ WriteTopic(a)

DurableSpec == DurableInit /\ [][DurableNext]_durableVars

\* A note once promoted can be recalled until a newer one about the same subject
\* takes its place, also when a later promotion crashes between two files, unless
\* two promotions overlapped or a crash cut a file.
DurableNotesKept ==
  ~clashed => \A k \in kept : k[1] \in index /\ \E i \in DOMAIN topicFile[k[1]] :
     \/ topicFile[k[1]][i] = k[2]
     \/ Subject[k[2]] # None /\ Subject[topicFile[k[1]][i]] = Subject[k[2]]
=============================================================================
