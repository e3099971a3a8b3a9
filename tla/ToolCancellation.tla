--------------------------- MODULE ToolCancellation ---------------------------
(***************************************************************************)
(* CancellationToken (poppy/application/cancellation.py) with the two ways *)
(* in which something that waits hears of it: readers that register a      *)
(* callback, as complete_stream does with the close of its response, and   *)
(* tool_run_shell (poppy/tools.py), which looks at the token every tenth   *)
(* of a second and ends its shell and the processes the shell has started. *)
(***************************************************************************)
EXTENDS Naturals, FiniteSets

CONSTANTS
  Readers,   \* threads that register a callback
  Children   \* processes the shell may start in its group

VARIABLES
  set,        \* _event
  callbacks,  \* _callbacks: the readers registered
  canceller,  \* the thread inside cancel: its state and the callbacks it took
  reader,     \* reader[x]: where it is with add_cancel_callback
  called,     \* called[x]: how often x's callback was called
  shell,      \* the shell process
  child,      \* child[p]: a process of the shell's group, and whether it holds its pipes
  command,     \* where tool_run_shell is
  left        \* children the signals missed: alive when the shell had ended by
              \* itself, or started by a shell that ignored SIGTERM (history variable)

cancelVars == <<set, callbacks, canceller, reader, called, shell, child, command, left>>
tokenVars == <<set, callbacks, canceller, reader, called>>
shellVars == <<shell, child, command, left>>

(* A process runs or, "deaf", runs and ignores SIGTERM; "signalled" is one *)
(* that will end.                                                          *)
Alive == {"runs", "deaf", "signalled"}

CancelInit ==
  /\ set = FALSE /\ callbacks = {}
  /\ canceller = [at |-> "out", taken |-> {}]
  /\ reader = [x \in Readers |-> "out"] /\ called = [x \in Readers |-> 0]
  /\ shell = "none" /\ child = [p \in Children |-> [is |-> "none", pipes |-> FALSE]]
  /\ command = "out" /\ left = {}

-----------------------------------------------------------------------------
(* cancel *)

SetEvent ==
  /\ canceller.at = "out"
  /\ set' = TRUE /\ canceller' = [canceller EXCEPT !.at = "set"]
  /\ UNCHANGED <<callbacks, reader, called, shellVars>>

(* under the lock                                                          *)
TakeCallbacks ==
  /\ canceller.at = "set"
  /\ canceller' = [at |-> "calling", taken |-> callbacks] /\ callbacks' = {}
  /\ UNCHANGED <<set, reader, called, shellVars>>

CallBack(x) ==
  /\ canceller.at = "calling" /\ x \in canceller.taken
  /\ called' = [called EXCEPT ![x] = @ + 1]
  /\ canceller' = [canceller EXCEPT !.taken = @ \ {x}]
  /\ UNCHANGED <<set, callbacks, reader, shellVars>>

(* A session's cancellation and a client's may both call cancel.           *)
CancelReturns ==
  /\ canceller = [at |-> "calling", taken |-> {}]
  /\ canceller' = [canceller EXCEPT !.at = "out"]
  /\ UNCHANGED <<set, callbacks, reader, called, shellVars>>

-----------------------------------------------------------------------------
(* add_cancel_callback, and the function it returns *)

(* mutant: the look at the event is before the lock                        *)
RegisterLooksFirst(x) ==
  /\ \/ reader[x] = "out" /\ reader' = [reader EXCEPT ![x] = IF set THEN "now" ELSE "looked"]
        /\ UNCHANGED callbacks
     \/ reader[x] = "looked" /\ reader' = [reader EXCEPT ![x] = "registered"]
        /\ callbacks' = callbacks \cup {x}
  /\ UNCHANGED <<set, canceller, called, shellVars>>

(* The look at the event is under the lock that cancel takes after setting *)
(* the event.                                                              *)
Register(x) ==
  /\ reader[x] = "out"
  /\ IF set
       THEN reader' = [reader EXCEPT ![x] = "now"] /\ UNCHANGED callbacks
       ELSE reader' = [reader EXCEPT ![x] = "registered"] /\ callbacks' = callbacks \cup {x}
  /\ UNCHANGED <<set, canceller, called, shellVars>>

CallNow(x) ==
  /\ reader[x] = "now" /\ called' = [called EXCEPT ![x] = @ + 1]
  /\ reader' = [reader EXCEPT ![x] = "registered"]
  /\ UNCHANGED <<set, callbacks, canceller, shellVars>>

Unregister(x) ==
  /\ reader[x] = "registered"
  /\ reader' = [reader EXCEPT ![x] = "done"] /\ callbacks' = callbacks \ {x}
  /\ UNCHANGED <<set, canceller, called, shellVars>>

-----------------------------------------------------------------------------
(* The processes *)

Spawn(p, pipes) ==
  /\ shell \in {"runs", "deaf"} /\ child[p].is = "none"
  /\ \E is \in {"runs", "deaf"} : child' = [child EXCEPT ![p] = [is |-> is, pipes |-> pipes]]
  /\ left' = IF command = "ending" THEN left \cup {p} ELSE left
  /\ UNCHANGED <<tokenVars, shell, command>>

ShellEnds ==
  /\ shell \in Alive /\ shell' = "gone"
  /\ UNCHANGED <<tokenVars, child, command, left>>

ChildEnds(p) ==
  /\ child[p].is \in Alive
  /\ child' = [child EXCEPT ![p] = [is |-> "gone", pipes |-> FALSE]]
  /\ UNCHANGED <<tokenVars, shell, command, left>>

Struck(signal, is) == IF is = "runs" \/ (is = "deaf" /\ signal = "KILL") THEN "signalled" ELSE is

(* os.killpg                                                               *)
KillGroup(signal) ==
  /\ shell' = Struck(signal, shell)
  /\ child' = [p \in Children |-> [child[p] EXCEPT !.is = Struck(signal, @)]]

-----------------------------------------------------------------------------
(* tool_run_shell *)

StartShell ==
  /\ command = "out" /\ command' = (IF set THEN "over" ELSE "waiting")
  /\ IF set THEN UNCHANGED shell ELSE \E is \in {"runs", "deaf"} : shell' = is
  /\ UNCHANGED <<tokenVars, child, left>>

(* communicate returns when the shell has ended and nothing holds its      *)
(* pipes.                                                                  *)
Answered ==
  /\ command = "waiting" /\ shell = "gone" /\ \A p \in Children : ~child[p].pipes
  /\ command' = "over" /\ left' = {p \in Children : child[p].is \in Alive}
  /\ UNCHANGED <<tokenVars, shell, child>>

(* The token is set, or the deadline has passed.  A shell that has ended   *)
(* is not looked behind.                                                   *)
Terminate ==
  /\ command = "waiting"
  /\ IF shell = "gone"
       THEN /\ command' = "over" /\ left' = {p \in Children : child[p].is \in Alive}
            /\ UNCHANGED <<shell, child>>
       ELSE KillGroup("TERM") /\ command' = "ending" /\ UNCHANGED left
  /\ UNCHANGED tokenVars

(* process.wait within its second                                          *)
ShellWaited ==
  /\ command \in {"ending", "killing"} /\ shell = "gone" /\ command' = "over"
  /\ UNCHANGED <<tokenVars, shell, child, left>>

WaitExpires ==
  /\ command = "ending" /\ shell # "gone"
  /\ KillGroup("KILL") /\ command' = "killing"
  /\ UNCHANGED <<tokenVars, left>>

(* The second wait expires: its exception leaves the tool in place of the  *)
(* one that began the termination.                                         *)
KillExpires ==
  /\ command = "killing" /\ shell # "gone" /\ command' = "over"
  /\ UNCHANGED <<tokenVars, shell, child, left>>

CancelNext ==
  \/ SetEvent \/ TakeCallbacks \/ CancelReturns
  \/ \E x \in Readers : CallBack(x) \/ Register(x) \/ CallNow(x) \/ Unregister(x)
  \/ \E p \in Children, pipes \in BOOLEAN : Spawn(p, pipes)
  \/ ShellEnds \/ \E p \in Children : ChildEnds(p)
  \/ StartShell \/ Answered \/ Terminate \/ ShellWaited \/ WaitExpires \/ KillExpires

CancelSpec == CancelInit /\ [][CancelNext]_cancelVars

-----------------------------------------------------------------------------
(* Properties *)

(* No reader is forgotten and none is called twice: once cancel has        *)
(* returned, the callback of every reader that had registered or registers *)
(* later has been called, or the reader was done with it first.            *)
ReadersAreTold ==
  \A x \in Readers :
    /\ called[x] <= 1
    /\ set /\ canceller.at = "out" /\ reader[x] = "registered" => called[x] = 1

(* A shell command that was cut off, and one that ended, leaves no shell   *)
(* behind, and of its group only what ignores SIGTERM, what was there when *)
(* the shell had already ended, whose children nobody looks for            *)
(* (tools.py:407), and what a shell deaf to SIGTERM started after it.      *)
CommandIsOver ==
  command = "over" =>
    /\ shell \notin {"runs", "deaf"}
    /\ \A p \in Children \ left : child[p].is # "runs"

CancellationReaches == ReadersAreTold /\ CommandIsOver
=============================================================================
