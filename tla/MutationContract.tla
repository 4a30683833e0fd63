-------------------------- MODULE MutationContract --------------------------
(***************************************************************************)
(* What mutations promise, without transactions, locks, hooks and          *)
(* statements: between the moment a mutation is asked for and the moment   *)
(* it is answered it takes place once, as a whole, or not at all; each row *)
(* that it changes is one that the filters of the client let through at    *)
(* that moment, and has its entry in the audit trail from then on.  A      *)
(* client that is not answered with an error may rely on it.               *)
(***************************************************************************)
EXTENDS Integers

CONSTANTS
  Clients, Keys, Row, Absent,
  MayUpdate, MayDelete,   \* rows that the filters of a client let through
  Owns(_, _),             \* the row is the client's own
  Turns(_, _, _)          \* the client may turn one row into the other

VARIABLES
  rows,      \* the table
  trail,     \* trail[k]: entries of the audit trail about key k
  state      \* how far every client's mutation is

vars == <<rows, trail, state>>

Init ==
  /\ rows \in [Keys -> Row \cup {Absent}]
  /\ trail = [k \in Keys |-> 0]
  /\ state = [c \in Clients |-> "idle"]

Writes == UNION {[S -> Row \cup {Absent}] : S \in SUBSET Keys}

\* A row that is moved to another key leaves one place and turns up in another.
Leaves(t, w, k) == t[k] # Absent /\ w[k] = Absent
TurnsUp(t, w, k) == t[k] = Absent /\ w[k] # Absent

\* Client c may do the writes w to the table t.
Permits(c, t, w) ==
  \A k \in DOMAIN w :
    \/ TurnsUp(t, w, k) /\ Owns(c, w[k])
    \/ Leaves(t, w, k) /\ t[k] \in MayDelete[c]
    \/ t[k] \in MayUpdate[c] /\ w[k] # Absent /\ Turns(c, t[k], w[k])
    \/ /\ t[k] \in MayUpdate[c] /\ Leaves(t, w, k)
       /\ \E j \in DOMAIN w : TurnsUp(t, w, j) /\ Turns(c, t[k], w[j])
    \/ /\ TurnsUp(t, w, k)
       /\ \E j \in DOMAIN w : Leaves(t, w, j) /\ t[j] \in MayUpdate[c] /\ Turns(c, t[j], w[k])

Becomes(c, from, to) == state[c] \in from /\ state' = [state EXCEPT ![c] = to]

Ask(c) == Becomes(c, {"idle", "done", "failed"}, "asked") /\ UNCHANGED <<rows, trail>>

\* A client whose connection broke is told of a failure all the same.
Apply(c) ==
  /\ \E to \in {"applied", "done", "failed"} : Becomes(c, {"asked"}, to)
  /\ \E w \in Writes :
       /\ Permits(c, rows, w)
       /\ rows' = [k \in Keys |-> IF k \in DOMAIN w THEN w[k] ELSE rows[k]]
       /\ trail' = [k \in Keys |-> IF k \in DOMAIN w THEN trail[k] + 1 ELSE trail[k]]

Tell(c) ==
  /\ \E to \in {"done", "failed"} : Becomes(c, {"applied"}, to)
  /\ UNCHANGED <<rows, trail>>

GiveUp(c) == Becomes(c, {"asked"}, "failed") /\ UNCHANGED <<rows, trail>>

Next == \E c \in Clients : Ask(c) \/ Apply(c) \/ Tell(c) \/ GiveUp(c)

Spec == Init /\ [][Next]_vars
=============================================================================
