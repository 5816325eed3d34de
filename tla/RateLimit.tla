----------------------------- MODULE RateLimit -----------------------------
(***************************************************************************)
(* RateLimitMiddleware: the requests of one client address, at most Limit  *)
(* of them per window.  With Redis the pods share a counter, incremented   *)
(* by every request; the request that makes it 1 gives the key its time to *)
(* live in a call of its own.  Without Redis, or when the increment fails, *)
(* a token bucket of the pod decides.                                      *)
(*                                                                         *)
(* Addresses do not affect one another, so the model has one.  Redis and   *)
(* its client library, which repeats a command whose answer was lost, are  *)
(* outside the repository.                                                 *)
(***************************************************************************)
EXTENDS Naturals, FiniteSets

CONSTANTS
    Requests,    \* requests of one client address
    Pods,        \* pods of the service, one memory each
    Limit,       \* RATE_LIMIT_RPS, an integer here
    MaxFaults,   \* bound on the times that Redis is down or a call of it fails
    Restarts     \* TRUE if pods may restart

ASSUME LimitAssumption == Limit \in Nat
ASSUME RateAssumption == MaxFaults \in Nat /\ Restarts \in BOOLEAN

VARIABLES
    counter, \* the value of the key in Redis; 0 if there is no key
    expires, \* whether the key has a time to live
    redis,   \* for each pod, what getRedisClient found the first time
    tokens,  \* for each pod, the whole tokens in its bucket
    gate,    \* where each request is, and in which pod
    passed,  \* the requests that the counter let pass in this window
    orphaned, \* whether whoever had to set the time to live could not
    faults   \* how often Redis failed so far

rateVars == <<counter, expires, redis, tokens, gate, passed, orphaned, faults>>

GatePc == {"new", "count", "recount", "expire", "bucket", "admitted", "refused", "gone"}

RateTypeOK ==
    /\ counter \in 0 .. 2 * Cardinality(Requests)
    /\ expires \in BOOLEAN
    /\ redis \in [Pods -> {"unknown", "up", "down"}]
    /\ tokens \in [Pods -> 0 .. Limit]
    /\ gate \in [Requests -> [pc: GatePc, pod: Pods]]
    /\ passed \subseteq Requests
    /\ orphaned \in BOOLEAN
    /\ faults \in 0 .. MaxFaults

RateInit ==
    /\ counter = 0 /\ expires = FALSE
    /\ redis = [p \in Pods |-> "unknown"]
    /\ tokens = [p \in Pods |-> Limit]
    /\ gate \in [Requests -> {[pc |-> "new", pod |-> p] : p \in Pods}]
    /\ passed = {} /\ orphaned = FALSE /\ faults = 0

\* One more failure of Redis, within the bound.
Fault == faults < MaxFaults /\ faults' = faults + 1

GoTo(r, pc) == gate' = [gate EXCEPT ![r].pc = pc]
Verdict(ok) == IF ok THEN "admitted" ELSE "refused"

\* A request arrives; the first one of a pod decides, for the life of the pod,
\* whether it uses Redis.
Arrive(r) ==
    LET pod == gate[r].pod IN
    /\ gate[r].pc = "new"
    /\ \E found \in {"up", "down"} :
          /\ redis[pod] \in {"unknown", found}
          /\ IF redis[pod] = "unknown" /\ found = "down" THEN Fault ELSE UNCHANGED faults
          /\ redis' = [redis EXCEPT ![pod] = found]
          /\ GoTo(r, IF found = "up" THEN "count" ELSE "bucket")
    /\ UNCHANGED <<counter, expires, tokens, passed, orphaned>>

\* A deliberate bug, used by no specification: the check is on the value before
\* the increment.
LateIncr(r) ==
    /\ gate[r].pc \in {"count", "recount"}
    /\ counter' = counter + 1
    /\ passed' = IF counter <= Limit THEN passed \cup {r} ELSE passed
    /\ GoTo(r, IF counter = 0 THEN "expire" ELSE Verdict(counter <= Limit))
    /\ UNCHANGED <<expires, redis, tokens, orphaned, faults>>

\* A deliberate bug, used by no specification: the time to live is set by the
\* request that reaches the limit.
LazyIncr(r) ==
    /\ gate[r].pc \in {"count", "recount"}
    /\ counter' = counter + 1
    /\ passed' = IF counter' <= Limit THEN passed \cup {r} ELSE passed
    /\ GoTo(r, IF counter' = Limit + 1 THEN "expire" ELSE Verdict(counter' <= Limit))
    /\ UNCHANGED <<expires, redis, tokens, orphaned, faults>>

\* INCR with its answer.
Incr(r) ==
    /\ gate[r].pc \in {"count", "recount"}
    /\ counter' = counter + 1
    /\ passed' = IF counter' <= Limit THEN passed \cup {r} ELSE passed
    /\ GoTo(r, IF counter' = 1 THEN "expire" ELSE Verdict(counter' <= Limit))
    /\ UNCHANGED <<expires, redis, tokens, orphaned, faults>>

\* The answer is lost and the client library repeats the command (here once).  A
\* key that only a lost answer showed to be new gets no time to live.
IncrLost(r) ==
    /\ Fault
    /\ gate[r].pc = "count"
    /\ counter' = counter + 1
    /\ orphaned' = (orphaned \/ counter = 0)
    /\ GoTo(r, "recount")
    /\ UNCHANGED <<expires, redis, tokens, passed>>

\* Incr returns an error: the bucket of the pod decides.
IncrFails(r) ==
    /\ Fault
    /\ gate[r].pc \in {"count", "recount"}
    /\ GoTo(r, "bucket")
    /\ UNCHANGED <<counter, expires, redis, tokens, passed, orphaned>>

\* EXPIRE, whose error nobody reads; the request is the first of its window.
SetExpire(r) ==
    /\ gate[r].pc = "expire"
    /\ \/ expires' = TRUE /\ UNCHANGED <<orphaned, faults>>
       \/ Fault /\ orphaned' = TRUE /\ UNCHANGED expires
    /\ GoTo(r, Verdict(1 <= Limit))
    /\ UNCHANGED <<counter, redis, tokens, passed>>

\* The token bucket, under its mutex.
TakeToken(r) ==
    LET pod == gate[r].pod IN
    /\ gate[r].pc = "bucket"
    /\ IF tokens[pod] >= 1
       THEN tokens' = [tokens EXCEPT ![pod] = @ - 1] /\ GoTo(r, "admitted")
       ELSE GoTo(r, "refused") /\ UNCHANGED tokens
    /\ UNCHANGED <<counter, expires, redis, passed, orphaned, faults>>

\* A deliberate bug, used by no specification: a bucket overflows.
BrokenRefill(pod) ==
    /\ tokens' = [tokens EXCEPT ![pod] = @ + 1]
    /\ UNCHANGED <<counter, expires, redis, gate, passed, orphaned, faults>>

\* Time passes: a bucket is refilled up to its size...
Refill(pod) ==
    /\ tokens[pod] < Limit
    /\ tokens' = [tokens EXCEPT ![pod] = @ + 1]
    /\ UNCHANGED <<counter, expires, redis, gate, passed, orphaned, faults>>

\* ... and Redis drops the key when its time to live is over.
EndWindow ==
    /\ counter > 0 /\ expires
    /\ counter' = 0 /\ expires' = FALSE /\ passed' = {}
    /\ UNCHANGED <<redis, tokens, gate, orphaned, faults>>

\* A pod restarts: its bucket, its client and its open requests are gone.
RestartPod(pod) ==
    LET here == {r \in Requests : gate[r].pod = pod} IN
    /\ Restarts
    /\ redis' = [redis EXCEPT ![pod] = "unknown"]
    /\ tokens' = [tokens EXCEPT ![pod] = Limit]
    /\ orphaned' = (orphaned \/ \E r \in here : gate[r].pc = "expire")
    /\ gate' = [r \in Requests |->
                   IF r \in here /\ gate[r].pc # "new"
                   THEN [gate[r] EXCEPT !.pc = "gone"] ELSE gate[r]]
    /\ UNCHANGED <<counter, expires, passed, faults>>

Middleware(r) ==
    Arrive(r) \/ Incr(r) \/ IncrLost(r) \/ IncrFails(r) \/ SetExpire(r) \/ TakeToken(r)

---------------------------------------------------------------------------
\* However the requests and the pods interleave, whatever answers are lost and
\* whoever restarts, the counter lets no more than Limit requests pass in one
\* window.  (The buckets let pass what they hold on top of that.)
PassedWithinLimit == Cardinality(passed) <= Limit

\* A client that was counted is not counted for ever: the window ends, unless
\* the one request that had to give the key its time to live was cut off, or
\* its call failed, or the answer that told it so was lost.
RefusalEnds == counter > 0 ~> (counter = 0 \/ orphaned)
=============================================================================
