----------------------------- MODULE PurgeRoute -----------------------------
(***************************************************************************)
(* A purge request from end to end: the handler in the Worker              *)
(* (src/src/routes/purge.ts), with the collapser of the isolate that runs  *)
(* it, in front of the Gatekeeper object.  Authorizing, resolving the      *)
(* upstream token and purging are separate RPCs: keys, configuration and   *)
(* the object itself can change between any two of them, and requests in   *)
(* one isolate share the RPC of the one that leads their flight.           *)
(***************************************************************************)
EXTENDS Gatekeeper

CONSTANTS
  Isolates,
  Home       \* Home[r]: the isolate that request r arrives in

ASSUME PurgeRouteAssumption == Home \in [Reqs -> Isolates]

VARIABLES
  route,     \* how far the handler has come
  entitled,  \* whether the key was usable when the request arrived (history)
  icalls, iflights, iinflight, itimers   \* the isolates' collapsers

isolateState == <<icalls, iflights, iinflight, itimers>>

routeVars == <<route, entitled, isolateState>>

allVars == <<vars, routeVars>>

\* One collapser in each isolate: together, one whose keys name the isolate.
IsolateKeys == Isolates \X (Zones \X Bodies)

Isolate == INSTANCE RequestCollapse
             WITH Calls <- Reqs, Keys <- IsolateKeys,
                  calls <- icalls, flights <- iflights,
                  inflight <- iinflight, timers <- itimers

IsolateKey(r) == <<Home[r], CollapseKey(r)>>

Usable(k) == rows[k] # NoRow /\ ~rows[k].revoked

RouteInit ==
  /\ Init
  /\ route = [r \in Reqs |-> "idle"]
  /\ entitled = [r \in Reqs |-> FALSE]
  /\ Isolate!Init

\* Well formed and validated; a malformed request ends before it has an effect.
Arrive(r) ==
  /\ route[r] = "idle"
  /\ route' = [route EXCEPT ![r] = "arrived"]
  /\ entitled' = [entitled EXCEPT ![r] = Usable(Ask[r].key)]
  /\ UNCHANGED <<isolateState, vars>>

\* The authorizeFromBody RPC.  Which requests the policy allows is the
\* business of Credentials; here a key allows them while it is usable.  An
\* exception of this RPC or the next is answered with a 500.
Authorize(r) ==
  /\ route[r] = "arrived"
  /\ \E to \in {IF Usable(Ask[r].key) THEN "authorized" ELSE "refused", "failed"} :
       route' = [route EXCEPT ![r] = to]
  /\ UNCHANGED <<entitled, isolateState, vars>>

\* The resolveUpstreamToken or resolveUpstreamTokenById RPC: a token or none.
Resolve(r) ==
  /\ route[r] = "authorized"
  /\ \E found \in {"resolved", "noUpstream", "failed"} : route' = [route EXCEPT ![r] = found]
  /\ UNCHANGED <<entitled, isolateState, vars>>

\* Mutant of Enter: identical requests are collapsed before authorization.
EnterEarly(r) ==
  /\ route[r] \in {"arrived", "resolved"}
  /\ route' = [route EXCEPT ![r] = "collapsing"]
  /\ \/ route[r] = "resolved" /\ Isolate!Lead(r, IsolateKey(r))
     \/ Isolate!Follow(r, IsolateKey(r))
  /\ UNCHANGED <<entitled, core, collapser>>

\* isolateCollapser.collapseOrCreate: a leader's purge RPC is on its way.
Enter(r) ==
  /\ route[r] = "resolved"
  /\ route' = [route EXCEPT ![r] = "collapsing"]
  /\ \/ Isolate!Lead(r, IsolateKey(r))
     \/ Isolate!Follow(r, IsolateKey(r))
  /\ UNCHANGED <<entitled, core, collapser>>

\* The purge RPC of an isolate's flight reaches the object.
RpcArrives(r) ==
  /\ iflights[r].status = "pending"
  /\ Purge(r)
  /\ UNCHANGED routeVars

\* Mutant of RpcReturns: nobody is told of an exception.
RpcReturnsResult(r) ==
  /\ rpc[r] = "keyLimited" \/ calls[r].pc = "returned"
  /\ Isolate!Settle(r, "ok")
  /\ UNCHANGED <<route, entitled, core, collapser>>

\* Its result, or its exception, comes back.
RpcReturns(r) ==
  /\ \/ /\ rpc[r] = "keyLimited" \/ calls[r].pc = "returned"
        /\ Isolate!Settle(r, "ok")
     \/ /\ calls[r].pc = "rejected"
        /\ Isolate!Settle(r, "failed")
  /\ UNCHANGED <<route, entitled, core, collapser>>

\* The handler resumes: it answers with the result, answers 500, or, as a
\* follower of an RPC that threw, starts an RPC of its own.
IsolateResumes(r) ==
  /\ Isolate!Resume(r)
  /\ UNCHANGED <<route, entitled, core, collapser>>

IsolateSweeps(r) ==
  /\ Isolate!Sweep(r)
  /\ UNCHANGED <<route, entitled, core, collapser>>

Handle(r) ==
  \/ Arrive(r) \/ Authorize(r) \/ Resolve(r) \/ Enter(r)
  \/ RpcArrives(r) \/ RpcReturns(r)
  \/ IsolateResumes(r) \/ IsolateSweeps(r)

\* What the object does besides receiving purge RPCs.
ObjectRuns ==
  /\ \/ \E r \in Reqs : \/ Repurge(r) \/ UpstreamThrottles(r) \/ PurgeEnds(r)
                        \/ Respond(r) \/ Cleanup(r)
     \/ Administer
     \/ ConsumeForDns
     \/ Restart
     \/ Tick
  /\ UNCHANGED routeVars

RouteNext == (\E r \in Reqs : Handle(r)) \/ ObjectRuns

RouteSpec == RouteInit /\ [][RouteNext]_allVars

(***************************************************************************)
(* Fairness: handlers, RPCs and promises make progress, and the upstream   *)
(* answers or fails.  Nothing is assumed of clients, administrators,       *)
(* timers, the clock or evictions.                                         *)
(***************************************************************************)
ObjectServes(r) == (Repurge(r) \/ PurgeEnds(r) \/ Respond(r)) /\ UNCHANGED routeVars

RouteFairness ==
  \A r \in Reqs :
    /\ WF_allVars(Authorize(r) \/ Resolve(r) \/ Enter(r))
    /\ WF_allVars(RpcArrives(r))
    /\ WF_allVars(ObjectServes(r))
    /\ WF_allVars(RpcReturns(r))
    /\ WF_allVars(IsolateResumes(r))

FairRouteSpec == RouteSpec /\ RouteFairness

-----------------------------------------------------------------------------
\* Type invariant.
RouteTypeOK ==
  /\ TypeOK
  /\ route \in [Reqs -> {"idle", "arrived", "authorized", "refused", "resolved",
                         "noUpstream", "failed", "collapsing"}]
  /\ entitled \in [Reqs -> BOOLEAN]
  /\ Isolate!TypeOK

\* A request whose key was revoked or deleted before it arrived is never given
\* a purge result, not even one that an entitled request leads or has led.
RevokedNeverServed ==
  \A r \in Reqs : icalls[r].pc # "idle" => entitled[r]

Same(f, r) == Ask[f].zone = Ask[r].zone /\ Ask[f].body = Ask[r].body

\* Through both collapsers, a request is answered with the result of a purge of
\* its own zone and body: of the request that led its isolate's flight, and of
\* the one that led the object's.
AnsweredForOwnRequest ==
  \A r \in Reqs : icalls[r].pc = "returned" =>
    LET f == icalls[r].flight IN
    /\ Same(f, r)
    /\ rpc[f] = "keyLimited" \/ (calls[f].pc = "returned" /\ Same(calls[f].flight, r))

\* Every purge request that arrives is answered, whatever fails on its way.
EveryRequestAnswered ==
  \A r \in Reqs :
    route[r] = "arrived" ~>
      \/ route[r] \in {"refused", "noUpstream", "failed"}
      \/ icalls[r].pc \in {"returned", "rejected"}

\* "Each key's budget is independent": a request is refused for a per-key
\* budget only if that budget is its own key's.
BudgetsIndependent ==
  \A r \in Reqs :
    icalls[r].pc = "returned" /\ rpc[icalls[r].flight] = "keyLimited"
      => Ask[icalls[r].flight].key = Ask[r].key
=============================================================================
