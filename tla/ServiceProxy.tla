---------------------------- MODULE ServiceProxy ----------------------------
(***************************************************************************)
(* The proxies for Cloudflare services and for R2: what the handler of a   *)
(* request does between its arrival and its answer, one RPC to the         *)
(* Gatekeeper object at a time (src/src/cf/, src/src/s3/routes.ts), with   *)
(* what administrators do to keys and upstream credentials meanwhile.      *)
(*                                                                         *)
(* A target is an account, a zone or a bucket.  A policy stands for the    *)
(* targets it allows and an upstream credential for those it covers; that  *)
(* policies mean this, and that a binding is accepted only for a policy    *)
(* within its credential, is what the module Decisions checks.  API keys   *)
(* and S3 credentials are keys here, and upstream tokens and R2 endpoints  *)
(* are upstream credentials.  How a lookup chooses among the credentials   *)
(* that cover a target, through its cache, is the module Upstreams.        *)
(***************************************************************************)
EXTENDS Integers, Sequences

CONSTANTS
  Callers,      \* requests in progress at a time
  KeyIds,
  LegacyKeys,   \* keys of before there was an upstream_token_id
  UpstreamIds,
  Targets,
  Extents,      \* the sets of targets that keys permit and credentials cover
  Unpinned,     \* upstream_token_id = NULL, or "" after a rotation
  NoRow, NoCall, NoChoice, NoDraft,
  Capacity      \* of a bucket

\* handleCfServiceRequest (D1, Queues, Vectorize, Hyperdrive); the handlers that
\* KV and Workers have of their own; DNS; S3, and in S3 the requests that name no
\* bucket (ListBuckets), whose target stands for the list.
CfHandlers == {"shared", "own"}
Handlers == CfHandlers \cup {"dns", "s3", "s3_list"}

KeyRow == [policy : SUBSET Targets, pin : UpstreamIds \cup {Unpinned}, live : BOOLEAN]
UpstreamRow == [covers : SUBSET Targets, live : BOOLEAN]

ASSUME ServiceProxyAssumption ==
  /\ LegacyKeys \subseteq KeyIds
  /\ Extents \subseteq SUBSET Targets
  /\ Unpinned \notin UpstreamIds /\ NoChoice \notin UpstreamIds
  /\ NoRow \notin KeyRow /\ NoRow \notin UpstreamRow
  /\ NoDraft \notin [policy : SUBSET Targets, pin : UpstreamIds]
  /\ Capacity \in Nat \ {0}

VARIABLES
  keys,       \* api_keys and s3_credentials; a deleted row is remembered
  upstreams,  \* upstream_tokens and upstream_r2, likewise
  calls,      \* requests: Caller -> record or NoCall
  tokens,     \* what is left in the CF bucket of the account
  drains,     \* whose waitUntil(drainCfProxyBucket()) has yet to run
  draft       \* a key whose binding was validated and that is not created yet

proxyVars == <<keys, upstreams, calls, tokens, drains, draft>>

ProxyInit ==
  /\ keys = [k \in KeyIds |->
       IF k \in LegacyKeys THEN [policy |-> Targets, pin |-> Unpinned, live |-> TRUE] ELSE NoRow]
  /\ upstreams = [u \in UpstreamIds |-> NoRow]
  /\ calls = [r \in Callers |-> NoCall]
  /\ tokens = Capacity
  /\ drains = {}
  /\ draft = NoDraft

-----------------------------------------------------------------------------
(* Requests. *)

Registered(u) == upstreams[u] # NoRow /\ upstreams[u].live
Known(k) == keys[k] # NoRow /\ keys[k].live
Permits(k, target) == keys[k] # NoRow /\ target \in keys[k].policy

\* The key was bound to a credential that has been deleted.
Orphaned(k) ==
  keys[k] # NoRow /\ keys[k].pin # Unpinned /\ ~Registered(keys[k].pin)

\* Mutant of Pipeline: "which accounts have upstream tokens" before who asks.
PipelineResolvingFirst ==
  [h \in Handlers |-> <<"resolve", "authorize", "consume", "fetch">>]

\* The steps of a handler, in its order.
Pipeline ==
  [shared |-> <<"consume", "authorize", "resolve", "fetch">>,
   own    |-> <<"consume", "authorize", "resolve", "fetch">>,
   dns    |-> <<"authorize", "resolve", "consume", "fetch">>,
   s3     |-> <<"authorize", "consume", "resolve", "fetch">>,
   s3_list |-> <<"authorize", "consume", "resolve", "fetch">>]

Stage(r) == IF calls[r] = NoCall \/ calls[r].done = 0 THEN "none"
            ELSE Pipeline[calls[r].handler][calls[r].done]

At(r, stage) == calls[r] # NoCall /\ Stage(r) = stage

\* On to the next step, with what this one found out.
Proceed(r, call) == calls' = [calls EXCEPT ![r] = [call EXCEPT !.done = @ + 1]]

\* Answered: done = 0.
Reply(r, answer) == calls' = [calls EXCEPT ![r].done = 0, ![r].answer = answer]

Arrive(r, handler, k, target) ==
  /\ calls[r] = NoCall /\ r \notin drains
  /\ calls' = [calls EXCEPT ![r] =
       [handler |-> handler, key |-> k, target |-> target, done |-> 1, pin |-> Unpinned,
        via |-> NoChoice, answer |-> "none", orphan |-> Orphaned(k)]]
  /\ UNCHANGED <<keys, upstreams, tokens, drains, draft>>

\* The rate limit of the account: in the middleware before anything else, or
\* where the handler has it.  DNS takes from the bulk bucket and S3 from one of
\* its own, which say yes or no.
Consume(r) ==
  /\ At(r, "consume")
  /\ \/ /\ calls[r].handler \in CfHandlers => tokens > 0
        /\ tokens' = IF calls[r].handler \in CfHandlers THEN tokens - 1 ELSE tokens
        /\ Proceed(r, calls[r])
     \/ /\ calls[r].handler \in CfHandlers => tokens = 0
        /\ Reply(r, "rate_limited")
        /\ UNCHANGED tokens
  /\ UNCHANGED <<keys, upstreams, drains, draft>>

\* The pin that a handler hands on to the resolver: KV and Workers, which have
\* handlers of their own, hand on none.
Pin(handler, k) == IF handler = "own" THEN Unpinned ELSE keys[k].pin

\* authorize, or getS3Secret and authorizeS3, which look the same row up.
Authorize(r) ==
  LET call == calls[r] IN
  /\ At(r, "authorize")
  /\ IF Known(call.key) /\ Permits(call.key, call.target)
       THEN Proceed(r, [call EXCEPT !.pin = Pin(call.handler, call.key)])
       ELSE Reply(r, "denied")
  /\ UNCHANGED <<keys, upstreams, tokens, drains, draft>>

\* Mutant of Candidates: a pin that is gone falls back to the account.
CandidatesOrAny(handler, pin, target) ==
  {u \in UpstreamIds :
     Registered(u) /\ (u = pin \/ handler = "s3_list" \/ target \in upstreams[u].covers)}

\* resolveUpstreamTokenOrError, its variant for zones, and the choice of an R2
\* endpoint: the pinned credential takes priority and has no substitute.  To
\* list buckets any endpoint will do (resolveR2ForListBuckets).
Candidates(handler, pin, target) ==
  {u \in UpstreamIds :
     /\ Registered(u)
     /\ IF pin # Unpinned THEN u = pin
        ELSE handler = "s3_list" \/ target \in upstreams[u].covers}

Lookup(r) ==
  LET call == calls[r]
      found == Candidates(call.handler, call.pin, call.target)
  IN /\ At(r, "resolve")
     /\ IF found = {} THEN Reply(r, "no_upstream")
        ELSE \E u \in found : Proceed(r, [call EXCEPT !.via = u])
     /\ UNCHANGED <<keys, upstreams, tokens, drains, draft>>

\* The upstream's answer is passed on, or the handler ends with a 500: because
\* the fetch failed, or the body of the answer could not be read.  Then it has
\* not come to look at the status; otherwise, when that is 429, the handlers on
\* the CF bucket leave a call of drainCfProxyBucket behind.
Forward(r) ==
  /\ At(r, "fetch")
  /\ \E upstream \in {"ok", "throttled", "failed"}, readable \in BOOLEAN :
       LET throttled == upstream = "throttled" /\ calls[r].handler \in CfHandlers IN
       /\ Reply(r, IF readable THEN upstream ELSE "failed")
       /\ drains' = IF throttled /\ readable THEN drains \cup {r} ELSE drains
  /\ UNCHANGED <<keys, upstreams, tokens, draft>>

\* The RPC is sent once, after the response.  It empties the bucket or is lost.
RunDrain(r) ==
  /\ r \in drains
  /\ drains' = drains \ {r}
  /\ tokens' \in {0, tokens}
  /\ UNCHANGED <<keys, upstreams, calls, draft>>

Finish(r) ==
  /\ calls[r] # NoCall /\ calls[r].done = 0
  /\ calls' = [calls EXCEPT ![r] = NoCall]
  /\ UNCHANGED <<keys, upstreams, tokens, drains, draft>>

RefillTokens ==
  /\ tokens < Capacity
  /\ tokens' = tokens + 1
  /\ UNCHANGED <<keys, upstreams, calls, drains, draft>>

-----------------------------------------------------------------------------
(* Administration. *)

RegisterUpstream(u, covers) ==
  /\ upstreams[u] = NoRow
  /\ upstreams' = [upstreams EXCEPT ![u] = [covers |-> covers, live |-> TRUE]]
  /\ UNCHANGED <<keys, calls, tokens, drains, draft>>

\* The keys bound to it are counted, in an RPC before, for a warning only.
\* The daily cleanup deletes what has expired in the same way.
DeleteUpstream(u) ==
  /\ Registered(u)
  /\ upstreams' = [upstreams EXCEPT ![u].live = FALSE]
  /\ UNCHANGED <<keys, calls, tokens, drains, draft>>

\* Mutant of ValidateKey: the credential exists, whatever it covers.
ValidateKeyExists(policy, u) ==
  /\ draft = NoDraft
  /\ Registered(u)
  /\ draft' = [policy |-> policy, pin |-> u]
  /\ UNCHANGED <<keys, upstreams, calls, tokens, drains>>

\* Creating a key takes two RPCs: one looks the credential up that it is to be
\* bound to, ...
ValidateKey(policy, u) ==
  /\ draft = NoDraft
  /\ Registered(u) /\ policy \subseteq upstreams[u].covers
  /\ draft' = [policy |-> policy, pin |-> u]
  /\ UNCHANGED <<keys, upstreams, calls, tokens, drains>>

\* ... the other writes the row, whatever became of the credential.
CreateKey(k) ==
  /\ draft # NoDraft /\ keys[k] = NoRow
  /\ keys' = [keys EXCEPT ![k] = [policy |-> draft.policy, pin |-> draft.pin, live |-> TRUE]]
  /\ draft' = NoDraft
  /\ UNCHANGED <<upstreams, calls, tokens, drains>>

\* The new key takes over the policy and the pin, without validation.
RotateKey(k, new) ==
  /\ Known(k) /\ keys[new] = NoRow
  /\ keys' = [keys EXCEPT ![new] = keys[k], ![k].live = FALSE]
  /\ UNCHANGED <<upstreams, calls, tokens, drains, draft>>

\* Revoked, deleted, or expired.
EndKey(k) ==
  /\ Known(k)
  /\ keys' = [keys EXCEPT ![k].live = FALSE]
  /\ UNCHANGED <<upstreams, calls, tokens, drains, draft>>

-----------------------------------------------------------------------------
Handle(r) == Consume(r) \/ Authorize(r) \/ Lookup(r) \/ Forward(r)

ProxyNext ==
  \/ \E r \in Callers, h \in Handlers, k \in KeyIds, t \in Targets : Arrive(r, h, k, t)
  \/ \E r \in Callers : Handle(r) \/ RunDrain(r) \/ Finish(r)
  \/ RefillTokens
  \/ \E u \in UpstreamIds, covers \in Extents : RegisterUpstream(u, covers)
  \/ \E u \in UpstreamIds : DeleteUpstream(u)
  \/ \E u \in UpstreamIds, policy \in Extents : ValidateKey(policy, u)
  \/ \E k \in KeyIds : CreateKey(k) \/ EndKey(k)
  \/ \E k, new \in KeyIds : RotateKey(k, new)

ProxySpec == ProxyInit /\ [][ProxyNext]_proxyVars

-----------------------------------------------------------------------------
Forwarded(r) == calls[r] # NoCall /\ calls[r].via # NoChoice

\* "were bound to this upstream token and will no longer be able to reach
\* upstream" (admin-upstream-tokens.ts:186): a request whose key lost its
\* credential before it arrived is not forwarded.
OrphansNeverReach == \A r \in Callers : Forwarded(r) => ~calls[r].orphan

\* The same for the handlers that hand the pin on: whatever other credential
\* covers the target, and although a key may be created for a credential, or
\* rotated, after that was deleted (proxy-helpers.ts:76, s3/routes.ts:266).
OrphansDoNotReach ==
  \A r \in Callers :
    Forwarded(r) /\ calls[r].handler # "own" => ~calls[r].orphan

\* A request is forwarded with a credential that covers its target, although
\* the credential is looked up by the key's pin and only the creation of the
\* key, which may be long ago, compared the two (token-binding.ts:38).  A list of
\* buckets has no bucket to be covered.
ForwardedInScope ==
  \A r \in Callers :
    Forwarded(r) /\ calls[r].handler # "s3_list"
      => calls[r].target \in upstreams[calls[r].via].covers

\* That there is no credential for a target is said only to holders of a key
\* that permits it: "unauthorized callers cannot probe which accounts have
\* upstream tokens registered" (service-handler.ts:44).
NoProbing ==
  \A r \in Callers :
    calls[r] # NoCall /\ calls[r].answer = "no_upstream"
      => Permits(calls[r].key, calls[r].target)
=============================================================================
