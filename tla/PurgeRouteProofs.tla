--------------------------- MODULE PurgeRouteProofs ---------------------------
(***************************************************************************)
(* Proofs about PurgeRoute, for any number of requests, isolates and keys. *)
(* The route composes two systems that have proofs of their own: seen from *)
(* the object, it is a run of Gatekeeper, and seen from the isolates, a    *)
(* run of RequestCollapse, so what was proved of either holds of it.  What *)
(* is left to prove is what relates the two.                               *)
(***************************************************************************)
EXTENDS PurgeRoute, GatekeeperProofs

IsolateProofs == INSTANCE RequestCollapseProofs
                   WITH Calls <- Reqs, Keys <- IsolateKeys,
                        calls <- icalls, flights <- iflights,
                        inflight <- iinflight, timers <- itimers

-----------------------------------------------------------------------------
(***************************************************************************)
(* The route as a run of the object.                                       *)
(***************************************************************************)

\* Every step of the route is a step of the object, or none of its business.
LEMMA RouteStepsObject ==
  ASSUME [RouteNext]_allVars
  PROVE  [Next]_vars
<1>1. ASSUME NEW r \in Reqs, Handle(r) PROVE [Next]_vars
  <2>1. CASE RpcArrives(r)
    BY <2>1 DEF RpcArrives, Next, ServePurges
  <2>2. CASE Arrive(r) \/ Authorize(r) \/ Resolve(r)
    BY <2>2 DEF Arrive, Authorize, Resolve
  <2>3. CASE Enter(r) \/ RpcReturns(r) \/ IsolateResumes(r) \/ IsolateSweeps(r)
    BY <2>3 DEF Enter, RpcReturns, IsolateResumes, IsolateSweeps, Isolate!Lead,
                Isolate!Follow, Isolate!Settle, Isolate!Resume, Isolate!Share,
                Isolate!Retry, Isolate!Finish, Isolate!Sweep, vars
  <2>4. QED
    BY <1>1, <2>1, <2>2, <2>3 DEF Handle
<1>2. CASE ObjectRuns
  BY <1>2 DEF ObjectRuns, Next, ServePurges
<1>3. CASE UNCHANGED allVars
  BY <1>3 DEF allVars
<1>4. QED
  BY <1>1, <1>2, <1>3 DEF RouteNext

\* What was proved of the object holds with the Worker in front of it.
THEOREM RouteRunsObject == RouteSpec => Spec
<1>1. RouteInit => Init
  BY DEF RouteInit
<1>2. [RouteNext]_allVars => [Next]_vars
  BY RouteStepsObject
<1>3. QED
  BY <1>1, <1>2, PTL DEF RouteSpec, Spec

\* Whatever the Worker's requests do between their RPCs, the limits of the
\* object hold: the settings in force, the upstream's budget and the bound on
\* the per-key buckets (durable-object.ts purge, doPurge, checkPerKeyRateLimit).
THEOREM RouteKeepsLimits == RouteSpec => [](SettingsInForce /\ UpstreamWithinLimit /\ KeyBucketsBounded)
BY RouteRunsObject, SettingsStayInForce, UpstreamStaysWithinLimit, KeyBucketsStayBounded, PTL

\* The invariants of the object that the route relies on.
ObjectPart == KeyPart /\ FormPart /\ KeyedPart

LEMMA ObjectInvariance == RouteSpec => []ObjectPart
<1>1. IInv /\ FormPart /\ KeyedPart => ObjectPart
  BY DEF IInv, ObjectPart
<1>2. QED
  BY <1>1, RouteRunsObject, Invariance, CollapserInvariance, PTL

-----------------------------------------------------------------------------
(***************************************************************************)
(* The route as a run of the isolates' collapsers.                         *)
(***************************************************************************)

\* What RequestCollapse assumes of its constants.
LEMMA IsolatesCollapse ==
  /\ IsolateProofs!CollapseAssumption
  /\ \A r \in Reqs : IsolateKey(r) \in IsolateKeys
<1>1. IsolateProofs!CollapseAssumption
  BY GatekeeperAssumption DEF IsolateProofs!CollapseAssumption
<1>2. ASSUME NEW r \in Reqs PROVE IsolateKey(r) \in IsolateKeys
  BY ObjectCollapses, PurgeRouteAssumption DEF IsolateKey, IsolateKeys
<1>3. QED
  BY <1>1, <1>2

\* Only Tick moves the clock.
LEMMA ClockMoves ==
  ASSUME [Next]_vars
  PROVE  clock' = clock \/ Tick
<1>1. ASSUME NEW r \in Reqs, Purge(r) PROVE clock' = clock
  BY <1>1 DEF Purge, PurgeKeyLimited, PurgeLead, PurgeFollow, Collapser!Lead,
              Collapser!Follow
<1>2. ASSUME NEW r \in Reqs,
             Repurge(r) \/ UpstreamThrottles(r) \/ PurgeEnds(r) \/ Respond(r) \/ Cleanup(r)
      PROVE  clock' = clock
  BY <1>2 DEF Repurge, UpstreamThrottles, PurgeEnds, AccountLimited, Answered, Throttled,
              BodyLost, Respond, Cleanup, Collapser!Retry, Collapser!Settle,
              Collapser!Share, Collapser!Finish, Collapser!Sweep
<1>3. CASE Administer
  BY <1>3 DEF Administer, UpdateKey, RevokeKey, DeleteKey, ExpireKey, SetConfig
<1>4. CASE ConsumeForDns \/ Restart \/ UNCHANGED vars
  BY <1>4 DEF ConsumeForDns, Restart, vars
<1>5. QED
  BY <1>1, <1>2, <1>3, <1>4 DEF Next, ServePurges

\* Every step of the route is a step of the collapsers, or leaves them alone.
LEMMA RouteStepsIsolates ==
  ASSUME [RouteNext]_allVars
  PROVE  [IsolateProofs!Next]_(IsolateProofs!vars)
<1>1. ASSUME NEW r \in Reqs, Enter(r) PROVE IsolateProofs!Next
  <2>1. IsolateProofs!Lead(r, IsolateKey(r)) \/ IsolateProofs!Follow(r, IsolateKey(r))
    BY <1>1 DEF Enter, Isolate!Lead, Isolate!Follow, Isolate!Joinable, Isolate!Stale,
                Isolate!Settled, Isolate!Start, IsolateProofs!Lead,
                IsolateProofs!Follow, IsolateProofs!Joinable, IsolateProofs!Stale,
                IsolateProofs!Settled, IsolateProofs!Start
  <2>2. QED
    BY <2>1, IsolatesCollapse DEF IsolateProofs!Next
<1>2. ASSUME NEW r \in Reqs, RpcReturns(r) \/ IsolateResumes(r) \/ IsolateSweeps(r)
      PROVE  IsolateProofs!Next
  <2>1. \/ IsolateProofs!Settle(r, "ok") \/ IsolateProofs!Settle(r, "failed")
        \/ IsolateProofs!Share(r) \/ IsolateProofs!Retry(r)
        \/ IsolateProofs!Finish(r) \/ IsolateProofs!Sweep(r)
    BY <1>2 DEF RpcReturns, IsolateResumes, IsolateSweeps, Isolate!Settle,
                Isolate!Resume, Isolate!Share, Isolate!Retry, Isolate!Start,
                Isolate!Finish, Isolate!Settled, Isolate!Sweep, IsolateProofs!Settle,
                IsolateProofs!Share, IsolateProofs!Retry, IsolateProofs!Start,
                IsolateProofs!Finish, IsolateProofs!Settled, IsolateProofs!Sweep
  <2>2. QED
    BY <2>1 DEF IsolateProofs!Next, IsolateProofs!Resume
<1>3. ASSUME UNCHANGED isolateState
      PROVE  [IsolateProofs!Next]_(IsolateProofs!vars)
  <2>1. clock' = clock \/ Tick
    BY RouteStepsObject, ClockMoves
  <2>2. CASE clock' = clock
    BY <1>3, <2>2 DEF isolateState, IsolateProofs!vars
  <2>3. CASE Tick
    BY <1>3, <2>3 DEF isolateState, Tick, Collapser!Tick, IsolateProofs!Tick,
                      IsolateProofs!Next
  <2>4. QED
    BY <2>1, <2>2, <2>3
<1>4. ASSUME NEW r \in Reqs, Arrive(r) \/ Authorize(r) \/ Resolve(r) \/ RpcArrives(r)
      PROVE  UNCHANGED isolateState
  BY <1>4 DEF Arrive, Authorize, Resolve, RpcArrives, routeVars
<1>5. ASSUME ObjectRuns \/ UNCHANGED allVars PROVE UNCHANGED isolateState
  BY <1>5 DEF ObjectRuns, routeVars, allVars
<1>6. QED
  BY <1>1, <1>2, <1>3, <1>4, <1>5 DEF RouteNext, Handle

\* What was proved of a collapser holds of every isolate's.
THEOREM RouteRunsIsolates == RouteSpec => IsolateProofs!Spec
<1>1. RouteInit => IsolateProofs!Init
  BY DEF RouteInit, Init, Collapser!Init, Isolate!Init, IsolateProofs!Init
<1>2. [RouteNext]_allVars => [IsolateProofs!Next]_(IsolateProofs!vars)
  BY RouteStepsIsolates
<1>3. QED
  BY <1>1, <1>2, PTL DEF RouteSpec, IsolateProofs!Spec

LEMMA IsolateInvariance == RouteSpec => []IsolateProofs!IInv
BY RouteRunsIsolates, IsolateProofs!Invariance, IsolatesCollapse

-----------------------------------------------------------------------------
(***************************************************************************)
(* A handler has passed the authorization when it enters the collapser,    *)
(* and a key that is unusable stays so: what was usable at authorization   *)
(* was usable when the request arrived.                                    *)
(***************************************************************************)
Admitted == {"authorized", "resolved", "noUpstream", "collapsing"}

RoutePart ==
  /\ route \in [Reqs -> {"idle", "arrived", "refused", "failed"} \cup Admitted]
  /\ entitled \in [Reqs -> BOOLEAN]
  /\ \A r \in Reqs :
       /\ icalls[r].pc # "idle" => route[r] = "collapsing"
       /\ route[r] \in Admitted => entitled[r]
       /\ route[r] # "idle" /\ Usable(Ask[r].key) => entitled[r]

\* Revocation, expiry and deletion are for good.
LEMMA UnusableStays ==
  ASSUME KeyPart, [Next]_vars, NEW k \in KeyIds, Usable(k)'
  PROVE  Usable(k)
<1>1. rows \in [KeyIds -> KeyRow \cup {NoRow}]
  BY DEF KeyPart
<1>2. ASSUME rows' = rows PROVE Usable(k)
  BY <1>2 DEF Usable
<1>3. CASE ServePurges
  <2>1. rows' = rows
    BY <1>3 DEF ServePurges, Purge, PurgeKeyLimited, PurgeLead, PurgeFollow, Repurge,
                UpstreamThrottles, PurgeEnds, AccountLimited, Answered, Throttled,
                BodyLost, Respond, Cleanup, core
  <2>2. QED
    BY <1>2, <2>1
<1>4. CASE Administer
  <2>1. ASSUME NEW j \in KeyIds, NEW limits \in RowLimits, UpdateKey(j, limits)
        PROVE  Usable(k)
    <3>1. rows[j] \in KeyRow /\ rows' = [rows EXCEPT ![j].limits = limits]
          /\ ~rows[j].revoked /\ rows[j] # NoRow
      BY <1>1, <2>1 DEF UpdateKey
    <3>2. QED
      BY <1>1, <3>1 DEF Usable
  <2>2. ASSUME NEW j \in KeyIds, RevokeKey(j) \/ ExpireKey(j)
        PROVE  Usable(k)
    <3>1. rows[j] \in KeyRow /\ rows' = [rows EXCEPT ![j].revoked = TRUE]
      BY <1>1, <2>2 DEF RevokeKey, ExpireKey
    <3>2. j # k
      BY <1>1, <3>1 DEF Usable, KeyRow
    <3>3. QED
      BY <1>1, <3>1, <3>2 DEF Usable
  <2>3. ASSUME NEW j \in KeyIds, DeleteKey(j) PROVE Usable(k)
    BY <1>1, <2>3 DEF DeleteKey, Usable
  <2>4. ASSUME NEW new \in Configs, SetConfig(new) PROVE Usable(k)
    BY <1>2, <2>4 DEF SetConfig
  <2>5. QED
    BY <1>4, <2>1, <2>2, <2>3, <2>4 DEF Administer
<1>5. CASE ConsumeForDns \/ Restart \/ Tick \/ UNCHANGED vars
  BY <1>2, <1>5 DEF ConsumeForDns, Restart, Tick, core, vars
<1>6. QED
  BY <1>3, <1>4, <1>5 DEF Next

\* The calls that an isolate's collapser changes: one that entered it.
LEMMA IsolateCallSteps ==
  ASSUME IsolateProofs!TypeOK, NEW r \in Reqs,
         RpcReturns(r) \/ IsolateResumes(r) \/ IsolateSweeps(r),
         NEW s \in Reqs, icalls[s].pc = "idle"
  PROVE  icalls'[s].pc = "idle"
<1>1. icalls \in [Reqs -> IsolateProofs!CallState]
  BY DEF IsolateProofs!TypeOK
<1>2. CASE RpcReturns(r) \/ IsolateSweeps(r)
  BY <1>2 DEF RpcReturns, IsolateSweeps, Isolate!Settle, Isolate!Sweep
<1>3. CASE IsolateResumes(r)
  BY <1>1, <1>3 DEF IsolateResumes, Isolate!Resume, Isolate!Share, Isolate!Retry,
                    Isolate!Finish, IsolateProofs!CallState
<1>4. QED
  BY <1>2, <1>3

LEMMA RouteInductive ==
  ASSUME RoutePart, ObjectPart, IsolateProofs!TypeOK, [RouteNext]_allVars
  PROVE  RoutePart'
<1>1. \A r \in Reqs : Ask[r].key \in KeyIds
  BY GatekeeperAssumption
<1>2. \A r \in Reqs : Usable(Ask[r].key)' => Usable(Ask[r].key)
  BY <1>1, RouteStepsObject, UnusableStays DEF ObjectPart
<1>3. ASSUME UNCHANGED <<route, entitled>>,
             \A r \in Reqs : icalls[r].pc = "idle" => icalls'[r].pc = "idle"
      PROVE  RoutePart'
  BY <1>2, <1>3 DEF RoutePart
<1>4. ASSUME NEW r \in Reqs, NEW to \in {"arrived", "refused", "failed"} \cup Admitted,
             route' = [route EXCEPT ![r] = to],
             \A s \in Reqs : s # r => entitled'[s] = entitled[s]
                                      /\ (icalls[s].pc = "idle" => icalls'[s].pc = "idle"),
             entitled' \in [Reqs -> BOOLEAN],
             icalls'[r].pc # "idle" => to = "collapsing",
             to \in Admitted \/ Usable(Ask[r].key)' => entitled'[r]
      PROVE  RoutePart'
  <2>1. /\ route' \in [Reqs -> {"idle", "arrived", "refused", "failed"} \cup Admitted]
        /\ route'[r] = to /\ \A s \in Reqs : s # r => route'[s] = route[s]
    BY <1>4 DEF RoutePart
  <2>2. QED
    BY <1>2, <1>4, <2>1 DEF RoutePart
<1>5. ASSUME NEW r \in Reqs, Arrive(r) PROVE RoutePart'
  <2>1. /\ route[r] = "idle" /\ route' = [route EXCEPT ![r] = "arrived"]
        /\ entitled' = [entitled EXCEPT ![r] = Usable(Ask[r].key)]
        /\ icalls' = icalls
    BY <1>5 DEF Arrive, isolateState
  <2>2. icalls[r].pc = "idle"
    BY <2>1 DEF RoutePart
  <2>3. Usable(Ask[r].key) \in BOOLEAN
    <3>1. rows[Ask[r].key] \in KeyRow \cup {NoRow}
      BY <1>1 DEF ObjectPart, KeyPart
    <3>2. QED
      BY <3>1 DEF Usable, KeyRow
  <2>4. /\ entitled' \in [Reqs -> BOOLEAN] /\ entitled'[r] = Usable(Ask[r].key)
        /\ \A s \in Reqs : s # r => entitled'[s] = entitled[s]
    BY <2>1, <2>3 DEF RoutePart
  <2>5. "arrived" \notin Admitted
    BY DEF Admitted
  <2>6. QED
    BY <1>2, <1>4, <2>1, <2>2, <2>4, <2>5
<1>6. ASSUME NEW r \in Reqs, Authorize(r) PROVE RoutePart'
  <2>1. PICK to \in {IF Usable(Ask[r].key) THEN "authorized" ELSE "refused", "failed"} :
          /\ route[r] = "arrived" /\ UNCHANGED <<entitled, icalls>>
          /\ route' = [route EXCEPT ![r] = to]
    BY <1>6 DEF Authorize, isolateState
  <2>2. icalls[r].pc = "idle" /\ (Usable(Ask[r].key) => entitled[r])
    BY <2>1 DEF RoutePart
  <2>3. entitled' \in [Reqs -> BOOLEAN]
    BY <2>1 DEF RoutePart
  <2>4. /\ to \in {"refused", "failed"} \cup Admitted
        /\ to \in Admitted => Usable(Ask[r].key)
    BY DEF Admitted
  <2>5. QED
    BY <1>2, <1>4, <2>1, <2>2, <2>3, <2>4
<1>7. ASSUME NEW r \in Reqs, Resolve(r) PROVE RoutePart'
  <2>1. PICK found \in {"resolved", "noUpstream", "failed"} :
          /\ route[r] = "authorized" /\ UNCHANGED <<entitled, icalls>>
          /\ route' = [route EXCEPT ![r] = found]
    BY <1>7 DEF Resolve, isolateState
  <2>2. icalls[r].pc = "idle" /\ entitled[r] /\ found \in {"failed"} \cup Admitted
    BY <2>1 DEF RoutePart, Admitted
  <2>3. entitled' \in [Reqs -> BOOLEAN]
    BY <2>1 DEF RoutePart
  <2>4. QED
    BY <1>4, <2>1, <2>2, <2>3
<1>8. ASSUME NEW r \in Reqs, Enter(r) PROVE RoutePart'
  <2>1. /\ route[r] = "resolved" /\ entitled' = entitled
        /\ route' = [route EXCEPT ![r] = "collapsing"]
    BY <1>8 DEF Enter
  <2>2. \A s \in Reqs : s # r => icalls'[s] = icalls[s]
    BY <1>8 DEF Enter, Isolate!Lead, Isolate!Follow, IsolateProofs!TypeOK
  <2>3. entitled[r] /\ "collapsing" \in Admitted
    BY <2>1 DEF RoutePart, Admitted
  <2>4. entitled' \in [Reqs -> BOOLEAN]
    BY <2>1 DEF RoutePart
  <2>5. QED
    BY <1>4, <2>1, <2>2, <2>3, <2>4
<1>9. ASSUME NEW r \in Reqs, RpcArrives(r) PROVE RoutePart'
  BY <1>3, <1>9 DEF RpcArrives, routeVars, isolateState
<1>10. ASSUME NEW r \in Reqs, RpcReturns(r) \/ IsolateResumes(r) \/ IsolateSweeps(r)
       PROVE  RoutePart'
  <2>1. UNCHANGED <<route, entitled>>
    BY <1>10 DEF RpcReturns, IsolateResumes, IsolateSweeps
  <2>2. QED
    BY <1>3, <1>10, <2>1, IsolateCallSteps
<1>11. CASE ObjectRuns \/ UNCHANGED allVars
  BY <1>3, <1>11 DEF ObjectRuns, allVars, routeVars, isolateState
<1>12. QED
  BY <1>5, <1>6, <1>7, <1>8, <1>9, <1>10, <1>11 DEF RouteNext, Handle

LEMMA RouteInvariance == RouteSpec => []RoutePart
<1>1. RouteInit => RoutePart
  BY DEF RouteInit, RoutePart, Isolate!Init, Admitted
<1>2. IsolateProofs!IInv => IsolateProofs!TypeOK
  BY DEF IsolateProofs!IInv
<1>3. RoutePart /\ ObjectPart /\ IsolateProofs!TypeOK /\ [RouteNext]_allVars => RoutePart'
  BY RouteInductive
<1>4. QED
  BY <1>1, <1>2, <1>3, ObjectInvariance, IsolateInvariance, PTL DEF RouteSpec

\* The Worker's state and the object's stay well typed.
THEOREM RouteType == RouteSpec => []RouteTypeOK
<1>1. TypeOK /\ RoutePart /\ IsolateProofs!IInv => RouteTypeOK
  <2> SUFFICES ASSUME TypeOK, RoutePart, IsolateProofs!IInv PROVE RouteTypeOK
    OBVIOUS
  <2>1. Isolate!TypeOK
    BY DEF IsolateProofs!IInv, IsolateProofs!TypeOK, IsolateProofs!CallState,
           IsolateProofs!FlightState, Isolate!TypeOK, Isolate!CallState,
           Isolate!FlightState
  <2>2. QED
    BY <2>1 DEF RoutePart, Admitted, RouteTypeOK
<1>2. QED
  BY <1>1, RouteRunsObject, ObjectType, RouteInvariance, IsolateInvariance, PTL

\* Nobody whose key was unusable at arrival waits for, or gets, a purge result:
\* neither the isolate's collapser nor the object's lets them share one.
THEOREM RevokedAreNotServed == RouteSpec => []RevokedNeverServed
<1>1. RoutePart => RevokedNeverServed
  BY DEF RoutePart, Admitted, RevokedNeverServed
<1>2. QED
  BY <1>1, RouteInvariance, PTL

-----------------------------------------------------------------------------
(***************************************************************************)
(* Answers.  An isolate's flight of a request that led it succeeds when    *)
(* that request's own RPC returned; a request's flights have its own key.  *)
(***************************************************************************)
IsolatesKeyed ==
  \A r \in Reqs :
    /\ icalls[r].pc # "idle" => icalls[r].key = IsolateKey(r)
    /\ iflights[r].status # "none" => iflights[r].key = IsolateKey(r)

RpcAnswered(f) == rpc[f] = "keyLimited" \/ calls[f].pc = "returned"

AnswerPart ==
  /\ IsolatesKeyed
  /\ \A f \in Reqs : iflights[f].status = "ok" => RpcAnswered(f)

\* An RPC that has returned stays so, across restarts too.
LEMMA AnswersStay ==
  ASSUME FormPart, [Next]_vars, NEW f \in Reqs, RpcAnswered(f)
  PROVE  RpcAnswered(f)'
<1>1. calls \in [Reqs -> CollapserProofs!CallState]
  BY DEF FormPart, CollapserProofs!TypeOK
<1>2. ASSUME UNCHANGED <<rpc, calls>> PROVE RpcAnswered(f)'
  BY <1>2 DEF RpcAnswered
<1>3. ASSUME NEW r \in Reqs, Purge(r) PROVE RpcAnswered(f)'
  <2>1. /\ rpc[r] = "none" /\ calls[r].pc = "idle"
        /\ \A s \in Reqs : s # r => calls'[s] = calls[s]
        /\ \E v : rpc' = [rpc EXCEPT ![r] = v]
    BY <1>1, <1>3 DEF Purge, PurgeKeyLimited, PurgeLead, PurgeFollow, Collapser!Lead,
                      Collapser!Follow, collapser
  <2>2. f # r
    BY <2>1 DEF RpcAnswered
  <2>3. QED
    BY <2>1, <2>2 DEF RpcAnswered
<1>4. ASSUME NEW r \in Reqs,
             Repurge(r) \/ UpstreamThrottles(r) \/ PurgeEnds(r) \/ Respond(r) \/ Cleanup(r)
      PROVE  RpcAnswered(f)'
  <2>1. rpc' = rpc
    BY <1>4 DEF Repurge, UpstreamThrottles, PurgeEnds, AccountLimited, Answered,
                Throttled, BodyLost, Respond, Cleanup, core
  <2>2. \/ calls' = calls
        \/ /\ calls[r].pc \in {"leading", "following"}
           /\ \A s \in Reqs : s # r => calls'[s] = calls[s]
    <3>1. CASE Repurge(r) \/ Respond(r)
      BY <1>1, <3>1 DEF Repurge, Respond, Collapser!Retry, Collapser!Share, Collapser!Finish
    <3>2. CASE UpstreamThrottles(r) \/ PurgeEnds(r) \/ Cleanup(r)
      BY <3>2 DEF UpstreamThrottles, PurgeEnds, AccountLimited, Answered, Throttled,
                  BodyLost, Cleanup, Collapser!Settle, Collapser!Sweep, collapser
    <3>3. QED
      BY <1>4, <3>1, <3>2
  <2>3. QED
    BY <2>1, <2>2 DEF RpcAnswered
<1>5. CASE Administer
  BY <1>2, <1>5 DEF Administer, UpdateKey, RevokeKey, DeleteKey, ExpireKey, SetConfig,
                    collapser
<1>6. CASE ConsumeForDns \/ Tick \/ UNCHANGED vars
  BY <1>2, <1>6 DEF ConsumeForDns, Tick, Collapser!Tick, collapser, core, vars
<1>7. CASE Restart
  BY <1>7 DEF Restart, RpcAnswered
<1>8. QED
  BY <1>3, <1>4, <1>5, <1>6, <1>7 DEF Next, ServePurges

\* What entering and the steps of a flight do to the keys and the statuses.
LEMMA IsolateFlightSteps ==
  ASSUME AnswerPart, IsolateProofs!TypeOK, IsolateProofs!WellFormed, NEW r \in Reqs,
         Enter(r) \/ RpcReturns(r) \/ IsolateResumes(r) \/ IsolateSweeps(r),
         NEW s \in Reqs
  PROVE  /\ icalls'[s].pc # "idle" => icalls'[s].key = IsolateKey(s)
         /\ iflights'[s].status # "none" => iflights'[s].key = IsolateKey(s)
         /\ iflights'[s].status = "ok" => RpcAnswered(s)
<1>1. /\ icalls \in [Reqs -> IsolateProofs!CallState]
      /\ iflights \in [Reqs -> IsolateProofs!FlightState]
  BY DEF IsolateProofs!TypeOK
<1>2. /\ icalls[s].pc # "idle" => icalls[s].key = IsolateKey(s)
      /\ iflights[s].status # "none" => iflights[s].key = IsolateKey(s)
      /\ iflights[s].status = "ok" => RpcAnswered(s)
  BY DEF AnswerPart, IsolatesKeyed
<1>3. CASE Enter(r)
  <2>1. /\ s # r => icalls'[s] = icalls[s] /\ iflights'[s] = iflights[s]
        /\ icalls'[r].key = IsolateKey(r)
        /\ \/ iflights'[r] = iflights[r]
           \/ iflights'[r].key = IsolateKey(r) /\ iflights'[r].status = "pending"
    BY <1>1, <1>3 DEF Enter, Isolate!Lead, Isolate!Follow, Isolate!Start
  <2>2. QED
    BY <1>2, <2>1
<1>4. CASE RpcReturns(r)
  <2>1. /\ icalls' = icalls /\ iflights[r].status = "pending"
        /\ s # r => iflights'[s] = iflights[s]
        /\ iflights'[r].key = iflights[r].key
        /\ iflights'[r].status = "ok" => RpcAnswered(r)
    BY <1>1, <1>4 DEF RpcReturns, Isolate!Settle, RpcAnswered, IsolateProofs!FlightState
  <2>2. QED
    BY <1>2, <2>1
<1>5. CASE IsolateResumes(r)
  <2>1. CASE Isolate!Share(r) \/ Isolate!Finish(r)
    <3>1. /\ iflights' = iflights /\ icalls[r].pc # "idle"
          /\ s # r => icalls'[s] = icalls[s]
          /\ icalls'[r].key = icalls[r].key
      BY <1>1, <2>1 DEF Isolate!Share, Isolate!Finish, IsolateProofs!CallState
    <3>2. QED
      BY <1>2, <3>1
  <2>2. CASE Isolate!Retry(r)
    <3>1. /\ icalls[r].pc # "idle"
          /\ s # r => icalls'[s] = icalls[s] /\ iflights'[s] = iflights[s]
          /\ icalls'[r].key = icalls[r].key
          /\ iflights'[r].key = icalls[r].key /\ iflights'[r].status = "pending"
      BY <1>1, <2>2 DEF Isolate!Retry, Isolate!Start, IsolateProofs!CallState
    <3>2. QED
      BY <1>2, <3>1
  <2>3. QED
    BY <1>5, <2>1, <2>2 DEF IsolateResumes, Isolate!Resume
<1>6. CASE IsolateSweeps(r)
  BY <1>2, <1>6 DEF IsolateSweeps, Isolate!Sweep
<1>7. QED
  BY <1>3, <1>4, <1>5, <1>6

LEMMA AnswerInductive ==
  ASSUME AnswerPart, ObjectPart, IsolateProofs!TypeOK, IsolateProofs!WellFormed,
         [RouteNext]_allVars
  PROVE  AnswerPart'
<1>1. \A f \in Reqs : RpcAnswered(f) => RpcAnswered(f)'
  BY RouteStepsObject, AnswersStay DEF ObjectPart
<1>2. ASSUME UNCHANGED isolateState PROVE AnswerPart'
  BY <1>1, <1>2 DEF isolateState, AnswerPart, IsolatesKeyed, IsolateKey, CollapseKey
<1>3. ASSUME NEW r \in Reqs,
             Enter(r) \/ RpcReturns(r) \/ IsolateResumes(r) \/ IsolateSweeps(r)
      PROVE  AnswerPart'
  <2>1. \A s \in Reqs :
          /\ icalls'[s].pc # "idle" => icalls'[s].key = IsolateKey(s)
          /\ iflights'[s].status # "none" => iflights'[s].key = IsolateKey(s)
          /\ iflights'[s].status = "ok" => RpcAnswered(s)
    BY <1>3, IsolateFlightSteps
  <2>2. QED
    BY <1>1, <2>1 DEF AnswerPart, IsolatesKeyed, IsolateKey, CollapseKey
<1>4. ASSUME NEW r \in Reqs, Arrive(r) \/ Authorize(r) \/ Resolve(r) \/ RpcArrives(r)
      PROVE  AnswerPart'
  BY <1>2, <1>4 DEF Arrive, Authorize, Resolve, RpcArrives, routeVars
<1>5. CASE ObjectRuns \/ UNCHANGED allVars
  BY <1>2, <1>5 DEF ObjectRuns, routeVars, allVars
<1>6. QED
  BY <1>3, <1>4, <1>5 DEF RouteNext, Handle

LEMMA AnswerInvariance == RouteSpec => []AnswerPart
<1>1. RouteInit => AnswerPart
  BY DEF RouteInit, AnswerPart, IsolatesKeyed, Isolate!Init
<1>2. IsolateProofs!IInv => IsolateProofs!TypeOK /\ IsolateProofs!WellFormed
  BY DEF IsolateProofs!IInv
<1>3. /\ AnswerPart /\ ObjectPart /\ IsolateProofs!TypeOK /\ IsolateProofs!WellFormed
      /\ [RouteNext]_allVars
      => AnswerPart'
  BY AnswerInductive
<1>4. QED
  BY <1>1, <1>2, <1>3, ObjectInvariance, IsolateInvariance, PTL DEF RouteSpec

\* Through the isolate's collapser and the object's, also when leaders fail,
\* followers retry, entries go stale and the object restarts in between, a
\* request is answered for its own zone and body.
THEOREM AnswersAreOnesOwn == RouteSpec => []AnsweredForOwnRequest
<1>1. AnswerPart /\ ObjectPart /\ IsolateProofs!IInv => AnsweredForOwnRequest
  <2> SUFFICES ASSUME AnswerPart, ObjectPart, IsolateProofs!IInv,
                      NEW r \in Reqs, icalls[r].pc = "returned"
               PROVE  LET f == icalls[r].flight IN
                      /\ Same(f, r)
                      /\ \/ rpc[f] = "keyLimited"
                         \/ calls[f].pc = "returned" /\ Same(calls[f].flight, r)
    BY DEF AnsweredForOwnRequest
  <2> DEFINE f == icalls[r].flight
             g == calls[f].flight
  <2>1. /\ f \in Reqs /\ iflights[f].status = "ok"
        /\ iflights[f].key = icalls[r].key
    BY DEF IsolateProofs!IInv, IsolateProofs!WellFormed, IsolateProofs!EndsWithItsDue
  <2>2. IsolateKey(f) = IsolateKey(r) /\ RpcAnswered(f)
    BY <2>1 DEF AnswerPart, IsolatesKeyed
  <2>3. CollapseKey(f) = CollapseKey(r)
    BY <2>2 DEF IsolateKey
  <2>4. ASSUME calls[f].pc = "returned" PROVE CollapseKey(g) = CollapseKey(f)
    BY <2>1, <2>4 DEF ObjectPart, FormPart, KeyedPart, CollapserProofs!WellFormed,
                      CollapserProofs!Started
  <2> HIDE DEF f, g
  <2>5. Same(f, r) /\ (calls[f].pc = "returned" => Same(g, r))
    BY <2>3, <2>4 DEF CollapseKey, Same
  <2>6. QED
    BY <2>2, <2>5 DEF RpcAnswered, f, g
<1>2. QED
  BY <1>1, AnswerInvariance, ObjectInvariance, IsolateInvariance, PTL
=============================================================================
