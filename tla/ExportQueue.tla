---------------------------- MODULE ExportQueue ----------------------------
(***************************************************************************)
(* What the export manager of a pod promises to the requests that start    *)
(* exports: an export is accepted at most once in the life of the pod,     *)
(* exports are worked on one at a time and in the order of their           *)
(* acceptance, and what was accepted is settled unless the pod restarts.   *)
(* Nothing is said of the map, its mutex, the channel or the worker.       *)
(***************************************************************************)
EXTENDS Naturals, Sequences

CONSTANT Exports

VARIABLES
    state, \* what has become of each export
    line   \* the accepted exports that nobody works on yet

vars == <<state, line>>

Init ==
    /\ state = [e \in Exports |-> "new"]
    /\ line = <<>>

Accept(e) ==
    /\ state[e] = "new"
    /\ state' = [state EXCEPT ![e] = "waiting"]
    /\ line' = Append(line, e)

\* There is no room: the export is never worked on, and never asked for again.
Refuse(e) ==
    /\ state[e] = "new"
    /\ state' = [state EXCEPT ![e] = "refused"]
    /\ UNCHANGED line

Start(e) ==
    /\ \A other \in Exports : state[other] # "running"
    /\ line # <<>>
    /\ e = Head(line)
    /\ line' = Tail(line)
    /\ state' = [state EXCEPT ![e] = "running"]

Settle(e) ==
    /\ state[e] = "running"
    /\ state' = [state EXCEPT ![e] = "settled"]
    /\ UNCHANGED line

\* The pod restarts and forgets everything.
Restart == state' = [e \in Exports |-> "new"] /\ line' = <<>>

Next ==
    \/ \E e \in Exports : Accept(e) \/ Refuse(e) \/ Start(e) \/ Settle(e)
    \/ Restart

\* The liveness is a conjunct of its own: an accepted export is settled, or the
\* pod has restarted.
Spec ==
    /\ Init /\ [][Next]_vars
    /\ \A e \in Exports :
          state[e] \in {"waiting", "running"} ~> state[e] \in {"settled", "new"}
=============================================================================
