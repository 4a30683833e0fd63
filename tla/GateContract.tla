---------------------------- MODULE GateContract ----------------------------
(***************************************************************************)
(* What hot reload promises, without locks, goroutines or file stamps: the *)
(* configuration file has a history of contents, and the gateway serves    *)
(* one entry of that history at a time.  The entry it serves can be loaded *)
(* and routed as the first one was, and it never moves back.  Readers that *)
(* only know this module may rely on no more than this.                    *)
(***************************************************************************)
EXTENDS Integers, Sequences

CONSTANTS
  Contents,            \* what the configuration file may hold
  Servable(_),         \* contents the gateway is able to serve
  SameRoute(_, _)      \* two contents share database and listener settings

VARIABLES
  history,             \* contents of the file, oldest first
  served               \* index in history of the served entry; 0 before any

vars == <<history, served>>

Init ==
  /\ \E c \in Contents : history = <<c>>
  /\ served = 0

\* An operator saves the file.
Save == \E c \in Contents :
  /\ history' = Append(history, c)
  /\ UNCHANGED served

\* The gateway starts to serve an entry at least as recent as the last one.
Serve == \E v \in 1..Len(history) :
  /\ v >= served
  /\ Servable(history[v])
  /\ served # 0 => SameRoute(history[served], history[v])
  /\ served' = v
  /\ UNCHANGED history

Next == Save \/ Serve

Spec == Init /\ [][Next]_vars
=============================================================================
