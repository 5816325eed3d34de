-------------------------------- MODULE Pod --------------------------------
(***************************************************************************)
(* One pod of the service: the export manager behind the rate limiter that *)
(* the router puts in front of every route.  A request reaches its handler *)
(* once it is admitted; another pod shares the counter in Redis, and       *)
(* requests that land there know nothing of this pod's exports.            *)
(***************************************************************************)
EXTENDS Exporter, RateLimit

CONSTANTS
    Here,   \* this pod
    Roaming \* bound: the requests that may reach another pod instead

ASSUME PodAssumption ==
    Here \in Pods /\ Requests = Starters \cup Pollers /\ Roaming \subseteq Requests

podVars == <<vars, rateVars>>

PodInit ==
    /\ Init /\ RateInit
    /\ \A r \in Requests \ Roaming : gate[r].pod = Here

Admitted(r) == gate[r].pc = "admitted" /\ gate[r].pod = Here

\* The handlers of the requests that passed the limiter.
Handler ==
    \/ \E s \in Starters, e \in Exports : Admitted(s) /\ Enqueue(s, e)
    \/ \E p \in Pollers, e \in Exports : Admitted(p) /\ Get(p, e)

PodNext ==
    \/ /\ \/ Handler
          \/ WorkerStep
          \/ \E s \in Starters : Send(s)
          \/ \E p \in Pollers : ReadStorageID(p) \/ Presign(p) \/ Render(p)
       /\ UNCHANGED rateVars
    \/ /\ \/ EndWindow
          \/ \E r \in Requests : Middleware(r)
          \/ \E p \in Pods : Refill(p)
          \/ \E p \in Pods \ {Here} : RestartPod(p)
       /\ UNCHANGED vars
    \/ Restart /\ RestartPod(Here)

PodSpec == PodInit /\ [][PodNext]_podVars

\* In addition to FairSpec: time passes, so a key with a time to live is dropped,
\* and a request that is about to set it goes on to do so.
PodFairSpec ==
    /\ PodSpec
    /\ WF_vars(WorkerStep) /\ \A s \in Starters : WF_vars(Send(s))
    /\ WF_rateVars(EndWindow) /\ \A r \in Requests : WF_rateVars(SetExpire(r))
=============================================================================
