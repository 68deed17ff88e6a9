------------------------------ MODULE MCWorker ------------------------------
(***************************************************************************)
(* Instances of the parts that share no state with one another, in one     *)
(* run: each behaviour is one of one part.                                 *)
(***************************************************************************)
EXTENDS Decisions, ServiceProxy, ConfigCache, AdminRoutes, RateLimit

CONSTANTS a, b  \* targets

VARIABLE part

MCExtents == {{a}, {a, b}}

ASSUME MCExtents \subseteq SUBSET Targets

PartNames == {"decisions", "proxy", "config", "admin", "rate"}

MCInit ==
  /\ part \in PartNames
  /\ DecisionsInit /\ ProxyInit /\ ConfigInit /\ AdminInit /\ Init

MCNext ==
  /\ UNCHANGED part
  /\ \/ /\ part = "decisions" /\ DecisionsNext
        /\ UNCHANGED <<proxyVars, configVars, adminVars, vars>>
     \/ /\ part = "proxy" /\ ProxyNext
        /\ UNCHANGED <<accepted, configVars, adminVars, vars>>
     \/ /\ part = "config" /\ ConfigNext
        /\ UNCHANGED <<accepted, proxyVars, adminVars, vars>>
     \/ /\ part = "admin" /\ AdminNext
        /\ UNCHANGED <<accepted, proxyVars, configVars, vars>>
     \/ /\ part = "rate" /\ Next
        /\ UNCHANGED <<accepted, proxyVars, configVars, adminVars>>

allVars == <<part, accepted, proxyVars, configVars, adminVars, vars>>

MCSpec == MCInit /\ [][MCNext]_allVars
=============================================================================
