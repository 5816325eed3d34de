----------------------------- MODULE Pod_proofs -----------------------------
(***************************************************************************)
(* Proofs about a pod: behind the rate limiter the export manager takes    *)
(* only steps it takes without it, and the counter in Redis, which the pods*)
(* share and which lost answers may raise twice for one request, neither   *)
(* lets more than Limit requests pass in a window nor counts a request more*)
(* than twice.                                                             *)
(***************************************************************************)
EXTENDS Pod, Exporter_proofs

---------------------------------------------------------------------------
(***************************************************************************)
(* The export manager behind the limiter                                   *)
(***************************************************************************)

LEMMA PodStepIsExporterStep ==
    ASSUME [PodNext]_podVars
    PROVE  [Next]_vars
<1>1. CASE Handler
  BY <1>1 DEF Handler, Next
<1>2. CASE WorkerStep
  BY <1>2 DEF Next
<1>3. CASE \E s \in Starters : Send(s)
  BY <1>3 DEF Next
<1>4. CASE \E p \in Pollers : ReadStorageID(p) \/ Presign(p) \/ Render(p)
  BY <1>4 DEF Next
<1>5. CASE Restart
  BY <1>5 DEF Next
<1>6. CASE UNCHANGED podVars
  BY <1>6 DEF podVars
<1> QED
  BY <1>1, <1>2, <1>3, <1>4, <1>5, <1>6 DEF PodNext

(***************************************************************************)
(* The router puts the limiter in front of every route: whatever it admits *)
(* or refuses, and whichever pod restarts, the manager's behaviours are    *)
(* those of Exporter on its own.                                           *)
(***************************************************************************)
THEOREM PodIsExporter == PodSpec => Spec
<1>1. PodInit => Init
  BY DEF PodInit
<1>2. [PodNext]_podVars => [Next]_vars
  BY PodStepIsExporterStep
<1> QED
  BY <1>1, <1>2, PTL DEF PodSpec, Spec

(***************************************************************************)
(* So an accepted export is in one place, what is done is stored, and what *)
(* GET requests answer is true, in a pod behind the limiter as well.       *)
(***************************************************************************)
THEOREM PodKeepsExports == PodSpec => [](InOnePlace /\ DoneIsStored /\ PollIsHonest)
BY PodIsExporter, ExportInOnePlace, DoneExportIsStored, ExportAnswersHonest, PTL

(***************************************************************************)
(* And the manager is still the queue of ExportQueue: the limiter neither  *)
(* reorders exports nor makes one start twice.                             *)
(***************************************************************************)
THEOREM PodKeepsQueue == PodSpec => Queue!Init /\ [][Queue!Next]_(Queue!vars)
BY PodIsExporter, KeepsQueue

---------------------------------------------------------------------------
(***************************************************************************)
(* The steps of the limiter                                                *)
(***************************************************************************)

RateStep ==
    \/ EndWindow
    \/ \E r \in Requests : Middleware(r)
    \/ \E p \in Pods : Refill(p) \/ RestartPod(p)

LEMMA PodStepIsRateStep ==
    ASSUME [PodNext]_podVars
    PROVE  [RateStep]_rateVars
<1>1. CASE UNCHANGED rateVars
  BY <1>1
<1>2. CASE EndWindow
  BY <1>2 DEF RateStep
<1>3. CASE \E r \in Requests : Middleware(r)
  BY <1>3 DEF RateStep
<1>4. CASE \E p \in Pods : Refill(p)
  BY <1>4 DEF RateStep
<1>5. CASE \E p \in Pods \ {Here} : RestartPod(p)
  BY <1>5 DEF RateStep
<1>6. CASE RestartPod(Here)
  BY <1>6, PodAssumption DEF RateStep
<1>7. CASE UNCHANGED podVars
  BY <1>7 DEF podVars
<1> QED
  BY <1>1, <1>2, <1>3, <1>4, <1>5, <1>6, <1>7 DEF PodNext

---------------------------------------------------------------------------
(***************************************************************************)
(* No more than Limit requests pass                                        *)
(***************************************************************************)

\* Every request that passed in this window was counted in it.
WindowInv ==
    /\ counter \in Nat
    /\ IsFiniteSet(passed)
    /\ Cardinality(passed) <= counter
    /\ Cardinality(passed) <= Limit

LEMMA WindowInvInit ==
    ASSUME RateInit
    PROVE  WindowInv
BY FS_EmptySet, LimitAssumption DEF RateInit, WindowInv

\* A step that leaves the set alone may raise the counter.
LEMMA WindowKept ==
    ASSUME WindowInv, passed' = passed, counter' = counter \/ counter' = counter + 1
    PROVE  WindowInv'
<1>1. Cardinality(passed) \in Nat
  BY FS_CardinalityType DEF WindowInv
<1> QED
  BY <1>1, LimitAssumption DEF WindowInv

LEMMA WindowInvStep ==
    ASSUME WindowInv, [RateStep]_rateVars
    PROVE  WindowInv'
<1>1. ASSUME NEW r \in Requests, Incr(r)
      PROVE  WindowInv'
  <2>1. counter' = counter + 1
    BY <1>1 DEF Incr
  <2>2. Cardinality(passed) \in Nat
    BY FS_CardinalityType DEF WindowInv
  <2>3. CASE counter + 1 <= Limit
    <3>1. passed' = passed \cup {r}
      BY <1>1, <2>1, <2>3 DEF Incr
    <3>2. /\ IsFiniteSet(passed')
          /\ Cardinality(passed') \in {Cardinality(passed), Cardinality(passed) + 1}
      BY <3>1, FS_AddElement DEF WindowInv
    <3> QED
      BY <2>1, <2>2, <2>3, <3>2, LimitAssumption DEF WindowInv
  <2>4. CASE ~(counter + 1 <= Limit)
    <3>1. passed' = passed
      BY <1>1, <2>1, <2>4 DEF Incr
    <3> QED
      BY <2>1, <3>1, WindowKept
  <2> QED
    BY <2>3, <2>4
<1>2. ASSUME NEW r \in Requests, Arrive(r) \/ IncrLost(r) \/ IncrFails(r) \/ SetExpire(r) \/ TakeToken(r)
      PROVE  WindowInv'
  BY <1>2, WindowKept DEF Arrive, IncrLost, IncrFails, SetExpire, TakeToken
<1>3. CASE EndWindow
  BY <1>3, FS_EmptySet, LimitAssumption DEF EndWindow, WindowInv
<1>4. ASSUME NEW p \in Pods, Refill(p) \/ RestartPod(p)
      PROVE  WindowInv'
  BY <1>4, WindowKept DEF Refill, RestartPod
<1>5. CASE UNCHANGED rateVars
  BY <1>5, WindowKept DEF rateVars
<1> QED
  BY <1>1, <1>2, <1>3, <1>4, <1>5 DEF RateStep, Middleware

(***************************************************************************)
(* RateLimitMiddleware compares the value after its own increment: however *)
(* the requests and the pods interleave, whatever answers are lost and     *)
(* whoever restarts, at most Limit requests pass in one window.            *)
(***************************************************************************)
THEOREM WindowIsLimited == PodSpec => []PassedWithinLimit
<1>1. PodInit => WindowInv
  BY WindowInvInit DEF PodInit
<1>2. WindowInv /\ [PodNext]_podVars => WindowInv'
  BY WindowInvStep, PodStepIsRateStep
<1>3. WindowInv => PassedWithinLimit
  BY DEF WindowInv, PassedWithinLimit
<1> QED
  BY <1>1, <1>2, <1>3, PTL DEF PodSpec

---------------------------------------------------------------------------
(***************************************************************************)
(* No request is counted more than twice                                   *)
(***************************************************************************)

\* Requests that Redis may have counted once, and those it may have counted
\* again: the client library repeats a command once.
Counted == {r \in Requests : gate[r].pc \notin {"new", "count"}}
Twice   == {r \in Requests : gate[r].pc \notin {"new", "count", "recount"}}

\* Each request raises the counter when it enters one of the two.
CounterInv == counter <= Cardinality(Counted) + Cardinality(Twice)

\* The types, without the bound on the counter.
RateShape ==
    /\ counter \in Nat
    /\ expires \in BOOLEAN
    /\ redis \in [Pods -> {"unknown", "up", "down"}]
    /\ tokens \in [Pods -> 0 .. Limit]
    /\ gate \in [Requests -> [pc: GatePc, pod: Pods]]
    /\ passed \subseteq Requests
    /\ orphaned \in BOOLEAN
    /\ faults \in 0 .. MaxFaults

RateInv == RateShape /\ CounterInv

\* The two sets of a finite number of requests have sizes that grow with them.
LEMMA CountedSizes ==
    ASSUME IsFiniteSet(Requests)
    PROVE  /\ IsFiniteSet(Counted) /\ IsFiniteSet(Twice)
           /\ Cardinality(Counted) \in Nat /\ Cardinality(Twice) \in Nat
           /\ Cardinality(Requests) \in Nat
           /\ Cardinality(Counted) <= Cardinality(Requests)
           /\ Cardinality(Twice) <= Cardinality(Requests)
<1>1. Counted \subseteq Requests /\ Twice \subseteq Requests
  BY DEF Counted, Twice
<1> QED
  BY <1>1, FS_Subset, FS_CardinalityType

LEMMA CountedSizesNext ==
    ASSUME IsFiniteSet(Requests)
    PROVE  /\ IsFiniteSet(Counted') /\ IsFiniteSet(Twice')
           /\ Cardinality(Counted') \in Nat /\ Cardinality(Twice') \in Nat
<1>1. Counted' \subseteq Requests /\ Twice' \subseteq Requests
  BY DEF Counted, Twice
<1> QED
  BY <1>1, FS_Subset, FS_CardinalityType

\* A request that moves on without being counted.
LEMMA CounterKept ==
    ASSUME IsFiniteSet(Requests), RateInv, counter' \in Nat, counter' <= counter,
           Counted \subseteq Counted', Twice \subseteq Twice'
    PROVE  CounterInv'
<1>1. /\ Cardinality(Counted) <= Cardinality(Counted')
      /\ Cardinality(Twice) <= Cardinality(Twice')
  BY CountedSizesNext, FS_Subset
<1> QED
  BY <1>1, CountedSizes, CountedSizesNext DEF RateInv, RateShape, CounterInv

\* A request that goes on from pc in the limiter, by itself.
LEMMA GateMoves ==
    ASSUME RateShape, NEW r \in Requests, NEW pc \in GatePc, GoTo(r, pc)
    PROVE  /\ gate' \in [Requests -> [pc: GatePc, pod: Pods]]
           /\ gate'[r].pc = pc
           /\ \A q \in Requests \ {r} : gate'[q] = gate[q]
<1>1. gate[r] \in [pc: GatePc, pod: Pods]
  BY DEF RateShape
<1>2. [gate[r] EXCEPT !.pc = pc] \in [pc: GatePc, pod: Pods]
  BY <1>1
<1>3. gate' = [gate EXCEPT ![r] = [gate[r] EXCEPT !.pc = pc]]
  BY DEF GoTo
<1>4. [gate[r] EXCEPT !.pc = pc].pc = pc
  BY <1>1
<1> QED
  BY <1>2, <1>3, <1>4 DEF RateShape

LEMMA RateInvInit ==
    ASSUME IsFiniteSet(Requests), RateInit
    PROVE  RateInv
<1>1. gate \in [Requests -> [pc: GatePc, pod: Pods]]
  BY DEF RateInit, GatePc
<1>2. 0 \in 0 .. MaxFaults /\ Limit \in 0 .. Limit
  BY LimitAssumption, RateAssumption
<1>3. tokens \in [Pods -> 0 .. Limit] /\ redis \in [Pods -> {"unknown", "up", "down"}]
  BY <1>2 DEF RateInit
<1>4. RateShape
  BY <1>1, <1>2, <1>3 DEF RateInit, RateShape
<1>5. CounterInv
  BY CountedSizes DEF RateInit, CounterInv
<1> QED
  BY <1>4, <1>5 DEF RateInv

LEMMA VerdictPc == \A ok : Verdict(ok) \in {"admitted", "refused"}
BY DEF Verdict

LEMMA FaultCounts ==
    ASSUME RateShape, Fault
    PROVE  faults' \in 0 .. MaxFaults
BY RateAssumption DEF RateShape, Fault

LEMMA RateInvStep ==
    ASSUME IsFiniteSet(Requests), RateInv, [RateStep]_rateVars
    PROVE  RateInv'
<1> USE DEF RateInv
<1>1. ASSUME NEW r \in Requests, Arrive(r)
      PROVE  RateInv'
  <2>1. PICK found \in {"up", "down"} :
           /\ IF redis[gate[r].pod] = "unknown" /\ found = "down" THEN Fault ELSE UNCHANGED faults
           /\ redis' = [redis EXCEPT ![gate[r].pod] = found]
           /\ GoTo(r, IF found = "up" THEN "count" ELSE "bucket")
    BY <1>1 DEF Arrive
  <2>2. /\ gate' \in [Requests -> [pc: GatePc, pod: Pods]]
        /\ gate'[r].pc \in {"count", "bucket"}
        /\ \A q \in Requests \ {r} : gate'[q] = gate[q]
    BY <2>1, GateMoves DEF GatePc
  <2>3. faults' \in 0 .. MaxFaults
    BY <2>1, FaultCounts DEF RateShape
  <2>4. redis' \in [Pods -> {"unknown", "up", "down"}]
    BY <2>1 DEF RateShape
  <2>5. RateShape'
    BY <1>1, <2>2, <2>3, <2>4 DEF RateShape, Arrive
  <2>6. Counted \subseteq Counted' /\ Twice \subseteq Twice'
    BY <1>1, <2>2 DEF Arrive, Counted, Twice
  <2>7. counter' = counter
    BY <1>1 DEF Arrive
  <2> QED
    BY <2>5, <2>6, <2>7, CounterKept DEF RateShape
<1>2. ASSUME NEW r \in Requests, Incr(r)
      PROVE  RateInv'
  <2>1. PICK pc \in {"expire", "admitted", "refused"} : GoTo(r, pc)
    BY <1>2, VerdictPc DEF Incr
  <2>2. /\ gate' \in [Requests -> [pc: GatePc, pod: Pods]]
        /\ gate'[r].pc \in {"expire", "admitted", "refused"}
        /\ \A q \in Requests \ {r} : gate'[q] = gate[q]
    BY <2>1, GateMoves DEF GatePc
  <2>3. passed' \subseteq Requests
    BY <1>2 DEF Incr, RateShape
  <2>4. RateShape'
    BY <1>2, <2>2, <2>3 DEF RateShape, Incr
  <2>5. /\ r \notin Twice
        /\ Twice' = Twice \cup {r}
        /\ Counted \subseteq Counted'
    BY <1>2, <2>2 DEF Incr, Counted, Twice
  <2>6. Cardinality(Twice') = Cardinality(Twice) + 1
    BY <2>5, CountedSizes, FS_AddElement
  <2>7. Cardinality(Counted) <= Cardinality(Counted')
    BY <2>5, CountedSizesNext, FS_Subset
  <2>8. counter' = counter + 1
    BY <1>2 DEF Incr
  <2>9. CounterInv'
    BY <2>6, <2>7, <2>8, CountedSizes, CountedSizesNext DEF CounterInv, RateShape
  <2> QED
    BY <2>4, <2>9
<1>3. ASSUME NEW r \in Requests, IncrLost(r)
      PROVE  RateInv'
  <2>1. /\ gate' \in [Requests -> [pc: GatePc, pod: Pods]]
        /\ gate'[r].pc = "recount"
        /\ \A q \in Requests \ {r} : gate'[q] = gate[q]
    BY <1>3, GateMoves DEF IncrLost, GatePc
  <2>2. orphaned' \in BOOLEAN
    BY <1>3 DEF IncrLost, RateShape
  <2>3. RateShape'
    BY <1>3, <2>1, <2>2, FaultCounts DEF RateShape, IncrLost
  <2>4. /\ r \notin Counted
        /\ Counted' = Counted \cup {r}
        /\ Twice \subseteq Twice'
    BY <1>3, <2>1 DEF IncrLost, Counted, Twice
  <2>5. Cardinality(Counted') = Cardinality(Counted) + 1
    BY <2>4, CountedSizes, FS_AddElement
  <2>6. Cardinality(Twice) <= Cardinality(Twice')
    BY <2>4, CountedSizesNext, FS_Subset
  <2>7. counter' = counter + 1
    BY <1>3 DEF IncrLost
  <2>8. CounterInv'
    BY <2>5, <2>6, <2>7, CountedSizes, CountedSizesNext DEF CounterInv, RateShape
  <2> QED
    BY <2>3, <2>8
<1>4. ASSUME NEW r \in Requests, IncrFails(r)
      PROVE  RateInv'
  <2>1. /\ gate' \in [Requests -> [pc: GatePc, pod: Pods]]
        /\ gate'[r].pc = "bucket"
        /\ \A q \in Requests \ {r} : gate'[q] = gate[q]
    BY <1>4, GateMoves DEF IncrFails, GatePc
  <2>2. RateShape'
    BY <1>4, <2>1, FaultCounts DEF RateShape, IncrFails
  <2>3. Counted \subseteq Counted' /\ Twice \subseteq Twice'
    BY <2>1 DEF Counted, Twice
  <2> QED
    BY <1>4, <2>2, <2>3, CounterKept DEF IncrFails, RateShape
<1>5. ASSUME NEW r \in Requests, SetExpire(r)
      PROVE  RateInv'
  <2>1. PICK pc \in {"admitted", "refused"} : GoTo(r, pc)
    BY <1>5, VerdictPc DEF SetExpire
  <2>2. /\ gate' \in [Requests -> [pc: GatePc, pod: Pods]]
        /\ gate'[r].pc \in {"admitted", "refused"}
        /\ \A q \in Requests \ {r} : gate'[q] = gate[q]
    BY <2>1, GateMoves DEF GatePc
  <2>3. expires' \in BOOLEAN /\ orphaned' \in BOOLEAN /\ faults' \in 0 .. MaxFaults
    BY <1>5, FaultCounts DEF SetExpire, RateShape
  <2>4. RateShape'
    BY <1>5, <2>2, <2>3 DEF RateShape, SetExpire
  <2>5. Counted \subseteq Counted' /\ Twice \subseteq Twice'
    BY <2>2 DEF Counted, Twice
  <2> QED
    BY <1>5, <2>4, <2>5, CounterKept DEF SetExpire, RateShape
<1>6. ASSUME NEW r \in Requests, TakeToken(r)
      PROVE  RateInv'
  <2>1. PICK pc \in {"admitted", "refused"} : GoTo(r, pc)
    BY <1>6 DEF TakeToken
  <2>2. /\ gate' \in [Requests -> [pc: GatePc, pod: Pods]]
        /\ gate'[r].pc \in {"admitted", "refused"}
        /\ \A q \in Requests \ {r} : gate'[q] = gate[q]
    BY <2>1, GateMoves DEF GatePc
  <2>3. gate[r].pod \in Pods
    BY DEF RateShape
  <2>4. tokens' \in [Pods -> 0 .. Limit]
    <3>1. CASE tokens[gate[r].pod] >= 1
      <4>1. tokens' = [tokens EXCEPT ![gate[r].pod] = tokens[gate[r].pod] - 1]
        BY <1>6, <3>1 DEF TakeToken
      <4>2. tokens[gate[r].pod] - 1 \in 0 .. Limit
        BY <2>3, <3>1, LimitAssumption DEF RateShape
      <4> QED
        BY <4>1, <4>2 DEF RateShape
    <3>2. CASE ~(tokens[gate[r].pod] >= 1)
      BY <1>6, <3>2 DEF TakeToken, RateShape
    <3> QED
      BY <3>1, <3>2
  <2>5. RateShape'
    BY <1>6, <2>2, <2>4 DEF RateShape, TakeToken
  <2>6. Counted \subseteq Counted' /\ Twice \subseteq Twice'
    BY <2>2 DEF Counted, Twice
  <2> QED
    BY <1>6, <2>5, <2>6, CounterKept DEF TakeToken, RateShape
<1>7. CASE EndWindow
  <2>1. RateShape'
    BY <1>7 DEF EndWindow, RateShape
  <2>2. Counted \subseteq Counted' /\ Twice \subseteq Twice'
    BY <1>7 DEF EndWindow, Counted, Twice
  <2>3. counter' \in Nat /\ counter' <= counter
    BY <1>7 DEF EndWindow, RateShape
  <2> QED
    BY <2>1, <2>2, <2>3, CounterKept
<1>8. ASSUME NEW p \in Pods, Refill(p)
      PROVE  RateInv'
  <2>1. tokens[p] + 1 \in 0 .. Limit
    BY <1>8, LimitAssumption DEF Refill, RateShape
  <2>2. tokens' \in [Pods -> 0 .. Limit]
    BY <1>8, <2>1 DEF Refill, RateShape
  <2>3. RateShape'
    BY <1>8, <2>2 DEF Refill, RateShape
  <2>4. Counted \subseteq Counted' /\ Twice \subseteq Twice'
    BY <1>8 DEF Refill, Counted, Twice
  <2> QED
    BY <1>8, <2>3, <2>4, CounterKept DEF Refill, RateShape
<1>9. ASSUME NEW p \in Pods, RestartPod(p)
      PROVE  RateInv'
  <2>1. \A r \in Requests :
           /\ gate'[r] \in [pc: GatePc, pod: Pods]
           /\ gate'[r].pc = gate[r].pc \/ (gate'[r].pc = "gone" /\ gate[r].pc # "new")
    <3> TAKE r \in Requests
    <3>1. gate[r] \in [pc: GatePc, pod: Pods]
      BY DEF RateShape
    <3>2. /\ [gate[r] EXCEPT !.pc = "gone"] \in [pc: GatePc, pod: Pods]
          /\ [gate[r] EXCEPT !.pc = "gone"].pc = "gone"
      BY <3>1 DEF GatePc
    <3>3. \/ gate'[r] = gate[r]
          \/ gate[r].pc # "new" /\ gate'[r] = [gate[r] EXCEPT !.pc = "gone"]
      BY <1>9 DEF RestartPod
    <3> QED
      BY <3>1, <3>2, <3>3
  <2>2. gate' \in [Requests -> [pc: GatePc, pod: Pods]]
    <3>1. gate' = [r \in Requests |-> gate'[r]]
      BY <1>9 DEF RestartPod
    <3> QED
      BY <2>1, <3>1
  <2>3. /\ redis' \in [Pods -> {"unknown", "up", "down"}]
        /\ tokens' \in [Pods -> 0 .. Limit]
        /\ orphaned' \in BOOLEAN
    BY <1>9, LimitAssumption DEF RestartPod, RateShape
  <2>4. RateShape'
    BY <1>9, <2>2, <2>3 DEF RestartPod, RateShape
  <2>5. Counted \subseteq Counted' /\ Twice \subseteq Twice'
    BY <2>1 DEF Counted, Twice
  <2> QED
    BY <1>9, <2>4, <2>5, CounterKept DEF RestartPod, RateShape
<1>10. CASE UNCHANGED rateVars
  <2>1. RateShape'
    BY <1>10 DEF rateVars, RateShape
  <2>2. Counted \subseteq Counted' /\ Twice \subseteq Twice'
    BY <1>10 DEF rateVars, Counted, Twice
  <2> QED
    BY <1>10, <2>1, <2>2, CounterKept DEF rateVars, RateShape
<1> QED
  BY <1>1, <1>2, <1>3, <1>4, <1>5, <1>6, <1>7, <1>8, <1>9, <1>10 DEF RateStep, Middleware

(***************************************************************************)
(* The types of the limiter: with finitely many requests the counter never *)
(* exceeds twice their number, whatever answers of Redis were lost (the    *)
(* client library repeats INCR once), and a bucket neither runs below zero *)
(* nor holds more tokens than its size.                                    *)
(***************************************************************************)
THEOREM RateTypes == IsFiniteSet(Requests) => (PodSpec => []RateTypeOK)
<1> SUFFICES ASSUME IsFiniteSet(Requests)
             PROVE  PodSpec => []RateTypeOK
  OBVIOUS
<1>1. PodInit => RateInv
  BY RateInvInit DEF PodInit
<1>2. RateInv /\ [PodNext]_podVars => RateInv'
  BY RateInvStep, PodStepIsRateStep
<1>3. RateInv => RateTypeOK
  BY CountedSizes DEF RateInv, RateShape, CounterInv, RateTypeOK
<1> QED
  BY <1>1, <1>2, <1>3, PTL DEF PodSpec

---------------------------------------------------------------------------
(***************************************************************************)
(* Who ends the window                                                     *)
(***************************************************************************)

\* A key that counts and has no time to live has a request about to set it,
\* unless that failed, was cut off, or nobody was told to do it.
SomeoneExpires ==
    counter > 0 /\ ~expires /\ ~orphaned => \E r \in Requests : gate[r].pc = "expire"

LEMMA SomeoneExpiresStep ==
    ASSUME RateShape, SomeoneExpires, [RateStep]_rateVars
    PROVE  SomeoneExpires'
<1>1. ASSUME NEW r \in Requests,
             Arrive(r) \/ Incr(r) \/ IncrLost(r) \/ IncrFails(r) \/ TakeToken(r),
             ~(Incr(r) /\ counter = 0)
      PROVE  SomeoneExpires'
  <2>1. gate[r].pc # "expire"
    BY <1>1 DEF Arrive, Incr, IncrLost, IncrFails, TakeToken
  <2>2. \A q \in Requests \ {r} : gate'[q] = gate[q]
    BY <1>1 DEF RateShape, GoTo, Arrive, Incr, IncrLost, IncrFails, TakeToken
  <2>3. expires' = expires
    BY <1>1 DEF Arrive, Incr, IncrLost, IncrFails, TakeToken
  <2>4. (counter > 0 /\ ~orphaned) \/ ~(counter' > 0 /\ ~orphaned')
    <3>1. CASE Incr(r)
      BY <1>1, <3>1 DEF Incr, RateShape
    <3>2. CASE IncrLost(r)
      <4>1. orphaned' = (orphaned \/ counter = 0)
        BY <3>2 DEF IncrLost
      <4>2. counter = 0 \/ counter > 0
        BY DEF RateShape
      <4> QED
        BY <4>1, <4>2, Zenon
    <3>3. CASE Arrive(r) \/ IncrFails(r) \/ TakeToken(r)
      BY <3>3 DEF Arrive, IncrFails, TakeToken
    <3> QED
      BY <1>1, <3>1, <3>2, <3>3
  <2> QED
    BY <2>1, <2>2, <2>3, <2>4 DEF SomeoneExpires
<1>2. ASSUME NEW r \in Requests, Incr(r), counter = 0
      PROVE  SomeoneExpires'
  <2>1. GoTo(r, "expire")
    BY <1>2 DEF Incr
  <2>2. gate'[r].pc = "expire"
    BY <2>1, GateMoves DEF GatePc
  <2> QED
    BY <2>2 DEF SomeoneExpires
<1>3. ASSUME NEW r \in Requests, SetExpire(r)
      PROVE  SomeoneExpires'
  BY <1>3 DEF SetExpire, SomeoneExpires
<1>4. CASE EndWindow
  BY <1>4 DEF EndWindow, SomeoneExpires
<1>5. ASSUME NEW p \in Pods, Refill(p)
      PROVE  SomeoneExpires'
  BY <1>5 DEF Refill, SomeoneExpires
<1>6. ASSUME NEW p \in Pods, RestartPod(p)
      PROVE  SomeoneExpires'
  <2>1. SUFFICES ASSUME counter > 0, ~expires, ~orphaned'
                 PROVE  \E r \in Requests : gate'[r].pc = "expire"
    BY <1>6 DEF RestartPod, SomeoneExpires
  <2>2. ~orphaned
    BY <1>6, <2>1 DEF RestartPod
  <2>3. PICK r \in Requests : gate[r].pc = "expire"
    BY <2>1, <2>2 DEF SomeoneExpires
  <2>4. gate[r].pod # p
    BY <1>6, <2>1, <2>3 DEF RestartPod
  <2>5. gate'[r] = gate[r]
    BY <1>6, <2>4 DEF RestartPod
  <2> QED
    BY <2>3, <2>5
<1>7. CASE UNCHANGED rateVars
  BY <1>7 DEF rateVars, SomeoneExpires
<1> QED
  BY <1>1, <1>2, <1>3, <1>4, <1>5, <1>6, <1>7 DEF RateStep, Middleware

(***************************************************************************)
(* The safety half of RefusalEnds: a client that is counted has a key that *)
(* Redis will drop, or a request that goes on to give it a time to live,   *)
(* unless that call failed, was cut off, or nobody was told to make it.    *)
(***************************************************************************)
THEOREM WindowHasAnEnd == IsFiniteSet(Requests) => (PodSpec => []SomeoneExpires)
<1> SUFFICES ASSUME IsFiniteSet(Requests)
             PROVE  PodSpec => []SomeoneExpires
  OBVIOUS
<1>1. PodInit => RateInv /\ SomeoneExpires
  <2>1. PodInit => RateInv
    BY RateInvInit DEF PodInit
  <2>2. PodInit => SomeoneExpires
    BY DEF PodInit, RateInit, SomeoneExpires
  <2> QED
    BY <2>1, <2>2
<1>2. RateInv /\ SomeoneExpires /\ [PodNext]_podVars => RateInv' /\ SomeoneExpires'
  BY RateInvStep, SomeoneExpiresStep, PodStepIsRateStep DEF RateInv
<1> QED
  BY <1>1, <1>2, PTL DEF PodSpec
=============================================================================
