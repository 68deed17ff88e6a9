---------------------------- MODULE WorkerProofs ----------------------------
(***************************************************************************)
(* The parts of the worker that run before and beside the Gatekeeper       *)
(* object, for any number of isolates, requests, keys and credentials: the *)
(* configuration that an isolate keeps is recent; the proxies forward a    *)
(* request only in scope and never for a key that lost its credential; the *)
(* administration API changes nothing but for those who may change it, and *)
(* says in the log what it did; a token bucket keeps to its rate and keeps *)
(* its promises, for every size, rate and clock.  The parts share no       *)
(* state, and each has an invariant of its own.                            *)
(***************************************************************************)
EXTENDS ServiceProxy, ConfigCache, AdminRoutes, RateLimit, TokenBucketProofs, SequenceTheorems,
        WellFoundedInduction

(***************************************************************************)
(* The isolates' copies of the configuration.                              *)
(***************************************************************************)

\* The clock, the moments at which the configuration was set, and what the
\* isolates and the readers hold.
ConfigTypeOK ==
  /\ time \in Nat
  /\ setAt \in Seq(Nat) /\ Len(setAt) >= 1
  /\ copies \in [Isolates -> [version : Version, at : Nat] \cup {NoCopy}]
  /\ reads \in [Readers -> [isolate : Isolates, began : Nat, version : Nat] \cup {NoRead}]

\* Nothing was set in the future.
SetBefore == \A n \in 1 .. Len(setAt) : setAt[n] <= time

\* A copy is as old as some moment at which its version was in force.
CopiesAge ==
  \A i \in Isolates : copies[i] # NoCopy =>
    copies[i].at <= time /\ InForceSince(copies[i].version, copies[i].at)

\* What a read was answered was in force after the read began.
ReadsAge ==
  \A r \in Readers : reads[r] # NoRead =>
    /\ reads[r].began <= time
    /\ reads[r].version # 0 => InForceSince(reads[r].version, reads[r].began)

ConfigInv == ConfigTypeOK /\ SetBefore /\ CopiesAge /\ ReadsAge

\* A version that was in force since a moment still was, when another is set.
LEMMA SettingKeepsForce ==
  ASSUME NEW v, NEW t \in Nat, NEW now \in Nat, t <= now,
         ConfigTypeOK, InForceSince(v, t), setAt' = Append(setAt, now)
  PROVE  v \in 1 .. Len(setAt') /\ (v < Len(setAt') => setAt'[v + 1] >= t)
<1>1. Len(setAt') = Len(setAt) + 1 /\ setAt'[Len(setAt) + 1] = now
  BY DEF ConfigTypeOK
<1>2. \A n \in 1 .. Len(setAt) : setAt'[n] = setAt[n]
  BY DEF ConfigTypeOK
<1>3. v \in 1 .. Len(setAt) /\ Len(setAt) \in Nat
  BY DEF InForceSince, ConfigTypeOK
<1>4. v \in 1 .. Len(setAt')
  BY <1>1, <1>3
<1>5. CASE v = Len(setAt)
  BY <1>1, <1>3, <1>4, <1>5
<1>6. CASE v < Len(setAt)
  <2>1. setAt[v + 1] >= t
    BY <1>6 DEF InForceSince
  <2>2. v + 1 \in 1 .. Len(setAt)
    BY <1>3, <1>6
  <2> QED
    BY <1>2, <1>4, <2>1, <2>2
<1> QED
  BY <1>3, <1>5, <1>6

LEMMA ConfigInitially == ConfigInit => ConfigInv /\ ConfigRecent
<1> SUFFICES ASSUME ConfigInit PROVE ConfigInv /\ ConfigRecent
  OBVIOUS
<1>1. ConfigTypeOK /\ SetBefore
  BY DEF ConfigInit, ConfigTypeOK, SetBefore
<1>2. CopiesAge /\ ReadsAge /\ ConfigRecent
  BY DEF ConfigInit, CopiesAge, ReadsAge, ConfigRecent
<1> QED
  BY <1>1, <1>2 DEF ConfigInv

LEMMA ConfigStep == ConfigInv /\ [ConfigNext]_configVars => ConfigInv'
<1> SUFFICES ASSUME ConfigInv, [ConfigNext]_configVars PROVE ConfigInv'
  OBVIOUS
<1> USE ConfigCacheAssumption DEF ConfigInv
<1>1. ASSUME NEW r \in Readers, NEW i \in Isolates, ReadCopy(r, i) PROVE ConfigInv'
  BY <1>1 DEF ReadCopy, ConfigTypeOK, SetBefore, CopiesAge, ReadsAge, InForceSince
<1>2. ASSUME NEW r \in Readers, NEW i \in Isolates, BeginRead(r, i) PROVE ConfigInv'
  <2> DEFINE read == [isolate |-> i, began |-> time, version |-> 0]
  <2>1. /\ reads' = [reads EXCEPT ![r] = read]
        /\ UNCHANGED <<setAt, copies, time>>
    BY <1>2 DEF BeginRead
  <2>2. read \in [isolate : Isolates, began : Nat, version : Nat]
    BY DEF ConfigTypeOK
  <2>3. ConfigTypeOK' /\ SetBefore' /\ CopiesAge'
    BY <2>1, <2>2 DEF ConfigTypeOK, SetBefore, CopiesAge, InForceSince
  <2>4. ReadsAge'
    BY <2>1 DEF ConfigTypeOK, ReadsAge, InForceSince
  <2> QED
    BY <2>3, <2>4
<1>3. ASSUME NEW r \in Readers, FetchConfig(r) PROVE ConfigInv'
  <2> DEFINE read == [reads[r] EXCEPT !.version = Len(setAt)]
  <2>1. /\ reads' = [reads EXCEPT ![r] = read]
        /\ UNCHANGED <<setAt, copies, time>> /\ reads[r] # NoRead
    BY <1>3 DEF FetchConfig
  <2>2. /\ read \in [isolate : Isolates, began : Nat, version : Nat]
        /\ read.began = reads[r].began /\ read.version = Len(setAt)
    BY <2>1 DEF ConfigTypeOK
  <2>3. ConfigTypeOK' /\ SetBefore' /\ CopiesAge'
    BY <2>1, <2>2 DEF ConfigTypeOK, SetBefore, CopiesAge, InForceSince
  <2>4. InForceSince(Len(setAt), read.began)
    BY DEF InForceSince, ConfigTypeOK
  <2>5. ReadsAge'
    BY <2>1, <2>2, <2>4 DEF ConfigTypeOK, ReadsAge, InForceSince
  <2> QED
    BY <2>3, <2>5
<1>4. ASSUME NEW r \in Readers, StoreConfig(r) PROVE ConfigInv'
  <2> DEFINE copy == [version |-> reads[r].version, at |-> reads[r].began]
  <2>1. /\ copies' = [copies EXCEPT ![reads[r].isolate] = copy]
        /\ reads' = [reads EXCEPT ![r] = NoRead]
        /\ UNCHANGED <<setAt, time>> /\ reads[r] # NoRead /\ reads[r].version # 0
    BY <1>4 DEF StoreConfig
  <2>2. copy \in [version : Version, at : Nat]
    BY <2>1 DEF ConfigTypeOK, Version
  <2>3. ConfigTypeOK' /\ SetBefore' /\ ReadsAge'
    BY <2>1, <2>2 DEF ConfigTypeOK, SetBefore, ReadsAge, InForceSince
  <2>4. copy.at <= time /\ InForceSince(copy.version, copy.at)
    BY <2>1 DEF ReadsAge
  <2>5. CopiesAge'
    BY <2>1, <2>4 DEF ConfigTypeOK, CopiesAge, InForceSince
  <2> QED
    BY <2>3, <2>5
<1>5. ASSUME NEW i \in Isolates, ChangeConfig(i) PROVE ConfigInv'
  <2>1. setAt' = Append(setAt, time) /\ UNCHANGED <<copies, reads, time>>
    BY <1>5 DEF ChangeConfig
  <2>2. ConfigTypeOK' /\ SetBefore'
    BY <2>1 DEF ConfigTypeOK, SetBefore
  <2>3. CopiesAge'
    <3> SUFFICES ASSUME NEW j \in Isolates, copies[j] # NoCopy
                 PROVE  copies[j].at <= time /\ InForceSince(copies[j].version, copies[j].at)'
      BY <2>1 DEF CopiesAge
    <3>1. copies[j].at <= time /\ copies[j].at \in Nat /\ time \in Nat
          /\ InForceSince(copies[j].version, copies[j].at)
      BY DEF CopiesAge, ConfigTypeOK
    <3> QED
      BY <2>1, <3>1, SettingKeepsForce DEF InForceSince
  <2>4. ReadsAge'
    <3> SUFFICES ASSUME NEW r \in Readers, reads[r] # NoRead
                 PROVE  /\ reads[r].began <= time
                        /\ reads[r].version # 0 => InForceSince(reads[r].version, reads[r].began)'
      BY <2>1 DEF ReadsAge
    <3>1. reads[r].began <= time /\ reads[r].began \in Nat /\ time \in Nat
          /\ (reads[r].version # 0 => InForceSince(reads[r].version, reads[r].began))
      BY DEF ReadsAge, ConfigTypeOK
    <3> QED
      BY <2>1, <3>1, SettingKeepsForce DEF InForceSince
  <2> QED
    BY <2>2, <2>3, <2>4
<1>6. ASSUME NEW i \in Isolates, ResetNothing(i) PROVE ConfigInv'
  BY <1>6 DEF ResetNothing, ConfigTypeOK, SetBefore, CopiesAge, ReadsAge, InForceSince
<1>7. ASSUME NEW i \in Isolates, InvalidateCopy(i) PROVE ConfigInv'
  BY <1>7 DEF InvalidateCopy, ConfigTypeOK, SetBefore, CopiesAge, ReadsAge, InForceSince
<1>8. ASSUME NEW i \in Isolates, Recycle(i) PROVE ConfigInv'
  BY <1>8 DEF Recycle, ConfigTypeOK, SetBefore, CopiesAge, ReadsAge, InForceSince
<1>9. ASSUME Pass PROVE ConfigInv'
  <2>1. time' = time + 1 /\ UNCHANGED <<setAt, copies, reads>>
    BY <1>9 DEF Pass
  <2>2. ConfigTypeOK' /\ SetBefore'
    BY <2>1 DEF ConfigTypeOK, SetBefore
  <2>3. CopiesAge'
    BY <2>1 DEF ConfigTypeOK, CopiesAge, InForceSince
  <2>4. ReadsAge'
    BY <2>1 DEF ConfigTypeOK, ReadsAge, InForceSince
  <2> QED
    BY <2>2, <2>3, <2>4
<1>10. CASE UNCHANGED configVars
  BY <1>10 DEF configVars, ConfigTypeOK, SetBefore, CopiesAge, ReadsAge, InForceSince
<1> QED
  BY <1>1, <1>2, <1>3, <1>4, <1>5, <1>6, <1>7, <1>8, <1>9, <1>10 DEF ConfigNext

\* Whatever a step returns is recent, when the copies and the reads are.
LEMMA RecentStep ==
  ConfigInv /\ ConfigRecent /\ [ConfigNext]_configVars => ConfigRecent'
<1> SUFFICES ASSUME ConfigInv, ConfigRecent, [ConfigNext]_configVars PROVE ConfigRecent'
  OBVIOUS
<1> USE ConfigCacheAssumption DEF ConfigInv
<1>1. ASSUME NEW r \in Readers, NEW i \in Isolates, ReadCopy(r, i) PROVE ConfigRecent'
  <2>1. /\ got' = [version |-> copies[i].version, began |-> time]
        /\ UNCHANGED <<setAt, time>> /\ Usable(i)
    BY <1>1 DEF ReadCopy
  <2> DEFINE v == copies[i].version
             at == copies[i].at
  <2>2. /\ at \in Nat /\ time \in Nat /\ time - at < CacheTTL
        /\ InForceSince(v, at)
    BY <2>1 DEF Usable, CopiesAge, ConfigTypeOK
  <2>3. at >= time - CacheTTL + 1
    BY <2>2
  <2>4. v < Len(setAt) => v + 1 \in 1 .. Len(setAt)
    BY <2>2 DEF InForceSince, ConfigTypeOK
  <2>5. v < Len(setAt) => setAt[v + 1] \in Nat
    BY <2>4 DEF ConfigTypeOK
  <2>6. InForceSince(v, time - CacheTTL + 1)
    BY <2>2, <2>3, <2>5 DEF InForceSince
  <2>7. got'.version = v
    BY <2>1
  <2> QED
    BY <2>1, <2>6, <2>7 DEF ConfigRecent, InForceSince
<1>2. ASSUME NEW r \in Readers, StoreConfig(r) PROVE ConfigRecent'
  <2>1. /\ got' = [version |-> reads[r].version, began |-> reads[r].began]
        /\ UNCHANGED <<setAt, time>> /\ reads[r] # NoRead /\ reads[r].version # 0
    BY <1>2 DEF StoreConfig
  <2>2. InForceSince(reads[r].version, reads[r].began)
    BY <2>1 DEF ReadsAge
  <2>3. got'.version = reads[r].version /\ got'.began = reads[r].began
    BY <2>1
  <2> QED
    BY <2>1, <2>2, <2>3 DEF ConfigRecent, InForceSince
<1>3. ASSUME got' = NoAnswer PROVE ConfigRecent'
  BY <1>3 DEF ConfigRecent
<1>4. CASE UNCHANGED configVars
  BY <1>4 DEF configVars, ConfigRecent, InForceSince
<1> QED
  BY <1>1, <1>2, <1>3, <1>4 DEF ConfigNext, BeginRead, FetchConfig, ChangeConfig,
     ResetNothing, InvalidateCopy, Recycle, Pass

\* A caller is given a configuration that was in force while it was reading or
\* less than CONFIG_CACHE_TTL_MS before, in however many isolates and through
\* whatever changes (config-cache.ts:29).
THEOREM ConfigStaysRecent == ConfigSpec => []ConfigRecent
<1> SUFFICES ConfigSpec => [](ConfigInv /\ ConfigRecent)
  BY PTL
<1> QED
  BY ConfigInitially, ConfigStep, RecentStep, PTL DEF ConfigSpec

-----------------------------------------------------------------------------
(***************************************************************************)
(* The proxies for Cloudflare services and for R2.                         *)
(***************************************************************************)

Answers == {"none", "rate_limited", "denied", "no_upstream", "ok", "throttled", "failed"}

Call == [handler : Handlers, key : KeyIds, target : Targets, done : 0 .. 4,
         pin : UpstreamIds \cup {Unpinned}, via : UpstreamIds \cup {NoChoice},
         answer : Answers, orphan : BOOLEAN]

Draft == [policy : SUBSET Targets, pin : UpstreamIds]

ProxyTypeOK ==
  /\ keys \in [KeyIds -> KeyRow \cup {NoRow}]
  /\ upstreams \in [UpstreamIds -> UpstreamRow \cup {NoRow}]
  /\ calls \in [Callers -> Call \cup {NoCall}]
  /\ draft \in Draft \cup {NoDraft}

\* A policy was within the reach of the credential it was bound to, which may
\* have been deleted since.
Within(policy, pin) == upstreams[pin] # NoRow /\ policy \subseteq upstreams[pin].covers

KeysBound ==
  \A k \in KeyIds : keys[k] # NoRow /\ keys[k].pin # Unpinned
    => Within(keys[k].policy, keys[k].pin)

DraftBound == draft # NoDraft => Within(draft.policy, draft.pin)

\* The step of a handler that authorizes the request.
AuthorizedAt(h) == IF h \in CfHandlers THEN 2 ELSE 1

\* What a request has found out of its key and of the credential it goes by
\* is still so, whatever was done to either.
CallSound(call) ==
  /\ call.done > AuthorizedAt(call.handler) =>
       Permits(call.key, call.target) /\ call.pin = Pin(call.handler, call.key)
  /\ call.via # NoChoice =>
       /\ upstreams[call.via] # NoRow
       /\ call.handler # "s3_list" => call.target \in upstreams[call.via].covers
       /\ call.handler # "own" => ~call.orphan
  /\ call.answer = "no_upstream" => Permits(call.key, call.target)
  /\ call.orphan => Orphaned(call.key)

CallsSound == \A r \in Callers : calls[r] # NoCall => CallSound(calls[r])

ProxyInv == ProxyTypeOK /\ KeysBound /\ DraftBound /\ CallsSound

\* What no step takes back: a row stays, with its policy, its pin and what it
\* covers, and a deleted credential is not registered again.
RowsStay ==
  /\ \A k \in KeyIds : keys[k] # NoRow =>
       keys'[k] # NoRow /\ keys'[k].policy = keys[k].policy /\ keys'[k].pin = keys[k].pin
  /\ \A u \in UpstreamIds : upstreams[u] # NoRow =>
       /\ upstreams'[u] # NoRow /\ upstreams'[u].covers = upstreams[u].covers
       /\ ~upstreams[u].live => ~upstreams'[u].live

\* Authorization comes before whatever depends on it, in every handler.
LEMMA PipelineOrder ==
  ASSUME NEW h \in Handlers, NEW d \in 1 .. 4
  PROVE  /\ Pipeline[h][d] = "authorize" => d = AuthorizedAt(h)
         /\ Pipeline[h][d] = "consume" => d # AuthorizedAt(h)
         /\ Pipeline[h][d] \in {"resolve", "fetch"} => d > AuthorizedAt(h)
         /\ Pipeline[h][d] # "fetch" => d + 1 \in 1 .. 4
<1>1. d = 1 \/ d = 2 \/ d = 3 \/ d = 4
  OBVIOUS
<1>2. CASE h = "shared"
  <2>1. Pipeline[h] = <<"consume", "authorize", "resolve", "fetch">> /\ AuthorizedAt(h) = 2
    BY <1>2 DEF Pipeline, AuthorizedAt, CfHandlers
  <2> QED
    BY <1>1, <2>1
<1>3. CASE h = "own"
  <2>1. Pipeline[h] = <<"consume", "authorize", "resolve", "fetch">> /\ AuthorizedAt(h) = 2
    BY <1>3 DEF Pipeline, AuthorizedAt, CfHandlers
  <2> QED
    BY <1>1, <2>1
<1>4. CASE h = "dns"
  <2>1. Pipeline[h] = <<"authorize", "resolve", "consume", "fetch">> /\ AuthorizedAt(h) = 1
    BY <1>4 DEF Pipeline, AuthorizedAt, CfHandlers
  <2> QED
    BY <1>1, <2>1
<1>5. CASE h \in {"s3", "s3_list"}
  <2>1. Pipeline[h] = <<"authorize", "consume", "resolve", "fetch">> /\ AuthorizedAt(h) = 1
    BY <1>5 DEF Pipeline, AuthorizedAt, CfHandlers
  <2> QED
    BY <1>1, <2>1
<1> QED
  BY <1>2, <1>3, <1>4, <1>5 DEF Handlers, CfHandlers

LEMMA AtStage ==
  ASSUME ProxyTypeOK, NEW r \in Callers, NEW s \in {"consume", "authorize", "resolve", "fetch"},
         At(r, s)
  PROVE  /\ calls[r] # NoCall /\ calls[r] \in Call
         /\ calls[r].done \in 1 .. 4
         /\ Pipeline[calls[r].handler][calls[r].done] = s
<1>1. calls[r] # NoCall /\ calls[r] \in Call /\ Stage(r) = s
  BY DEF At, ProxyTypeOK
<1>2. calls[r].done # 0
  BY <1>1 DEF Stage
<1> QED
  BY <1>1, <1>2 DEF Stage, Call

\* What a request found out stays sound, when rows stay.
LEMMA SoundStays ==
  ASSUME ProxyTypeOK, KeysBound, RowsStay, NEW call \in Call, CallSound(call)
  PROVE  CallSound(call)'
<1> DEFINE k == call.key
           u == call.via
<1>1. k \in KeyIds /\ u \in UpstreamIds \cup {NoChoice}
  BY DEF Call
<1>2. Permits(k, call.target) =>
        Permits(k, call.target)' /\ Pin(call.handler, k)' = Pin(call.handler, k)
  BY <1>1 DEF Permits, Pin, RowsStay
<1>3. Orphaned(k) => Orphaned(k)'
  <2> SUFFICES ASSUME Orphaned(k) PROVE Orphaned(k)'
    OBVIOUS
  <2> DEFINE p == keys[k].pin
  <2>1. keys[k] # NoRow /\ p # Unpinned /\ ~Registered(p)
    BY DEF Orphaned
  <2>2. p \in UpstreamIds
    BY <1>1, <2>1 DEF ProxyTypeOK, KeyRow
  <2>3. upstreams[p] # NoRow
    BY <1>1, <2>1 DEF KeysBound, Within
  <2>4. keys'[k] # NoRow /\ keys'[k].pin = p
    BY <1>1, <2>1 DEF RowsStay
  <2>5. ~upstreams'[p].live
    BY <2>1, <2>2, <2>3 DEF RowsStay, Registered
  <2> QED
    BY <2>1, <2>4, <2>5 DEF Orphaned, Registered
<1>4. u # NoChoice =>
        /\ upstreams'[u] # NoRow
        /\ call.handler # "s3_list" => call.target \in upstreams'[u].covers
  BY <1>1 DEF RowsStay, CallSound
<1> QED
  BY <1>2, <1>3, <1>4 DEF CallSound

LEMMA CallStays ==
  ASSUME ProxyInv, RowsStay, NEW r \in Callers, UNCHANGED calls, calls[r] # NoCall
  PROVE  CallSound(calls[r])'
<1> DEFINE call == calls[r]
<1>1. call \in Call /\ CallSound(call) /\ ProxyTypeOK /\ KeysBound
  BY DEF ProxyInv, ProxyTypeOK, CallsSound
<1>2. PICK c \in Call : c = call
  BY <1>1
<1>3. CallSound(c)'
  BY <1>1, <1>2, SoundStays
<1>4. CallSound(c)' <=> CallSound(calls[r])'
  <2>1. c = calls'[r]
    BY <1>2
  <2> QED
    BY <2>1 DEF CallSound
<1> QED
  BY <1>3, <1>4

\* Bindings stay within their credentials, when rows stay and none is added.
LEMMA BindingsStay ==
  ASSUME ProxyInv, RowsStay, UNCHANGED <<keys, draft>>
  PROVE  KeysBound' /\ DraftBound'
<1>1. KeysBound'
  BY DEF ProxyInv, ProxyTypeOK, KeysBound, KeyRow, Within, RowsStay
<1>2. DraftBound'
  BY DEF ProxyInv, ProxyTypeOK, DraftBound, Draft, Within, RowsStay
<1> QED
  BY <1>1, <1>2

\* A step of one request.
LEMMA RequestStep ==
  ASSUME ProxyInv, NEW r \in Callers, NEW call \in Call \cup {NoCall},
         call # NoCall => CallSound(call),
         calls' = [calls EXCEPT ![r] = call], UNCHANGED <<keys, upstreams, draft>>
  PROVE  ProxyInv'
<1>1. ProxyTypeOK'
  BY DEF ProxyInv, ProxyTypeOK
<1>2. KeysBound' /\ DraftBound'
  BY DEF ProxyInv, KeysBound, DraftBound, Within
<1>3. ASSUME NEW q \in Callers, calls'[q] # NoCall PROVE CallSound(calls[q])'
  <2> DEFINE c == calls'[q]
  <2>1. CallSound(c)
    BY <1>3 DEF ProxyInv, ProxyTypeOK, CallsSound
  <2>2. CallSound(calls[q])' <=> CallSound(c)
    BY DEF CallSound, Permits, Pin, Orphaned, Registered
  <2> QED
    BY <2>1, <2>2
<1>4. CallsSound'
  BY <1>3 DEF CallsSound
<1> QED
  BY <1>1, <1>2, <1>4 DEF ProxyInv

LEMMA ReplyStep ==
  ASSUME ProxyInv, NEW r \in Callers, NEW a \in Answers, calls[r] # NoCall, Reply(r, a),
         a = "no_upstream" => Permits(calls[r].key, calls[r].target),
         UNCHANGED <<keys, upstreams, draft>>
  PROVE  ProxyInv'
<1> DEFINE call == [calls[r] EXCEPT !.done = 0, !.answer = a]
<1>1. calls[r] \in Call /\ CallSound(calls[r])
  BY DEF ProxyInv, ProxyTypeOK, CallsSound
<1>2. call \in Call
  <2>1. [calls[r] EXCEPT !.done = 0] \in Call
    BY <1>1 DEF Call
  <2>2. [[calls[r] EXCEPT !.done = 0] EXCEPT !.answer = a] \in Call
    BY <2>1 DEF Call
  <2> QED
    BY <2>2
<1>3. /\ call.handler = calls[r].handler /\ call.key = calls[r].key
      /\ call.target = calls[r].target /\ call.done = 0 /\ call.pin = calls[r].pin
      /\ call.via = calls[r].via /\ call.answer = a /\ call.orphan = calls[r].orphan
  BY <1>1 DEF Call
<1>4. calls' = [calls EXCEPT ![r] = call]
  BY DEF Reply, ProxyInv, ProxyTypeOK
<1>5. ~(0 > AuthorizedAt(call.handler))
  BY DEF AuthorizedAt
<1> HIDE DEF call
<1>6. CallSound(call)
  BY <1>1, <1>3, <1>5 DEF CallSound
<1> QED
  BY <1>2, <1>4, <1>6, RequestStep

\* On to the next step, with a pin and a choice.
LEMMA ProceedStep ==
  ASSUME ProxyInv, NEW r \in Callers, calls[r] # NoCall, calls[r].done + 1 \in 1 .. 4,
         NEW pin \in UpstreamIds \cup {Unpinned}, NEW via \in UpstreamIds \cup {NoChoice},
         calls' = [calls EXCEPT ![r] =
           [calls[r] EXCEPT !.pin = pin, !.via = via, !.done = @ + 1]],
         calls[r].done + 1 > AuthorizedAt(calls[r].handler) =>
           /\ Permits(calls[r].key, calls[r].target)
           /\ pin = Pin(calls[r].handler, calls[r].key),
         via # NoChoice =>
           /\ upstreams[via] # NoRow
           /\ calls[r].handler # "s3_list" => calls[r].target \in upstreams[via].covers
           /\ calls[r].handler # "own" => ~calls[r].orphan,
         UNCHANGED <<keys, upstreams, draft>>
  PROVE  ProxyInv'
<1> DEFINE call == [calls[r] EXCEPT !.pin = pin, !.via = via, !.done = @ + 1]
<1>1. calls[r] \in Call /\ CallSound(calls[r])
  BY DEF ProxyInv, ProxyTypeOK, CallsSound
<1>2. call \in Call
  <2> DEFINE c1 == [calls[r] EXCEPT !.pin = pin]
             c2 == [c1 EXCEPT !.via = via]
  <2>1. c1 \in Call /\ c1.done = calls[r].done
    BY <1>1 DEF Call
  <2> HIDE DEF c1
  <2>2. c2 \in Call /\ c2.done = calls[r].done
    BY <2>1 DEF Call
  <2> HIDE DEF c2
  <2>3. [c2 EXCEPT !.done = calls[r].done + 1] \in Call
    BY <2>2 DEF Call
  <2> QED
    BY <2>3 DEF c1, c2
<1>3. /\ call.handler = calls[r].handler /\ call.key = calls[r].key
      /\ call.target = calls[r].target /\ call.done = calls[r].done + 1 /\ call.pin = pin
      /\ call.via = via /\ call.answer = calls[r].answer /\ call.orphan = calls[r].orphan
  BY <1>1 DEF Call
<1>4. calls' = [calls EXCEPT ![r] = call]
  OBVIOUS
<1> HIDE DEF call
<1>5. CallSound(call)
  BY <1>1, <1>3 DEF CallSound
<1> QED
  BY <1>2, <1>4, <1>5, RequestStep

LEMMA ArriveStep ==
  ASSUME ProxyInv, NEW r \in Callers, NEW h \in Handlers, NEW k \in KeyIds, NEW t \in Targets,
         Arrive(r, h, k, t)
  PROVE  ProxyInv'
<1> DEFINE call == [handler |-> h, key |-> k, target |-> t, done |-> 1, pin |-> Unpinned,
                    via |-> NoChoice, answer |-> "none", orphan |-> Orphaned(k)]
<1>1. calls' = [calls EXCEPT ![r] = call] /\ UNCHANGED <<keys, upstreams, draft>>
  BY DEF Arrive
<1>2. Orphaned(k) \in BOOLEAN
  BY DEF Orphaned
<1>3. call \in Call
  BY <1>2 DEF Call, Answers
<1>4. ~(1 > AuthorizedAt(h))
  BY DEF AuthorizedAt
<1>5. CallSound(call)
  BY <1>4 DEF CallSound
<1> HIDE DEF call
<1> QED
  BY <1>1, <1>3, <1>5, RequestStep

LEMMA ConsumeStep ==
  ASSUME ProxyInv, NEW r \in Callers, Consume(r)
  PROVE  ProxyInv'
<1>1. At(r, "consume") /\ UNCHANGED <<keys, upstreams, draft>>
  BY DEF Consume
<1> DEFINE call == calls[r]
<1>2. /\ call # NoCall /\ call \in Call /\ call.done \in 1 .. 4
      /\ Pipeline[call.handler][call.done] = "consume" /\ CallSound(call)
  BY <1>1, AtStage DEF ProxyInv, CallsSound
<1>3. call.done # AuthorizedAt(call.handler) /\ call.done + 1 \in 1 .. 4
  BY <1>2, PipelineOrder DEF Call
<1>4. CASE Proceed(r, calls[r])
  <2>1. [call EXCEPT !.done = @ + 1] = [call EXCEPT !.pin = call.pin, !.via = call.via, !.done = @ + 1]
    BY <1>2 DEF Call
  <2>2. calls' = [calls EXCEPT ![r] = [call EXCEPT !.pin = call.pin, !.via = call.via, !.done = @ + 1]]
    BY <1>4, <2>1 DEF Proceed
  <2>3. call.done + 1 > AuthorizedAt(call.handler) => call.done > AuthorizedAt(call.handler)
    BY <1>2, <1>3 DEF AuthorizedAt
  <2>4. /\ call.pin \in UpstreamIds \cup {Unpinned}
        /\ call.via \in UpstreamIds \cup {NoChoice}
    BY <1>2 DEF Call
  <2> QED
    BY <1>1, <1>2, <1>3, <2>2, <2>3, <2>4, ProceedStep DEF CallSound
<1>5. CASE Reply(r, "rate_limited")
  BY <1>1, <1>2, <1>5, ReplyStep DEF Answers
<1> QED
  BY <1>4, <1>5 DEF Consume

LEMMA AuthorizeStep ==
  ASSUME ProxyInv, NEW r \in Callers, Authorize(r)
  PROVE  ProxyInv'
<1>1. At(r, "authorize") /\ UNCHANGED <<keys, upstreams, draft>>
  BY DEF Authorize
<1> DEFINE call == calls[r]
<1>2. /\ call # NoCall /\ call \in Call /\ call.done \in 1 .. 4
      /\ Pipeline[call.handler][call.done] = "authorize" /\ CallSound(call)
  BY <1>1, AtStage DEF ProxyInv, CallsSound
<1>3. call.done + 1 \in 1 .. 4
  BY <1>2, PipelineOrder DEF Call
<1>4. CASE Known(call.key) /\ Permits(call.key, call.target)
  <2> DEFINE pin == Pin(call.handler, call.key)
  <2>1. Proceed(r, [call EXCEPT !.pin = pin])
    BY <1>4 DEF Authorize
  <2>2. [[call EXCEPT !.pin = pin] EXCEPT !.done = @ + 1]
          = [call EXCEPT !.pin = pin, !.via = call.via, !.done = @ + 1]
    BY <1>2 DEF Call
  <2>3. calls' = [calls EXCEPT ![r] = [call EXCEPT !.pin = pin, !.via = call.via, !.done = @ + 1]]
    BY <2>1, <2>2 DEF Proceed
  <2>4. /\ pin \in UpstreamIds \cup {Unpinned}
        /\ call.via \in UpstreamIds \cup {NoChoice}
    BY <1>2, <1>4 DEF Call, Pin, Permits, ProxyInv, ProxyTypeOK, KeyRow
  <2> QED
    BY <1>1, <1>2, <1>3, <1>4, <2>3, <2>4, ProceedStep DEF CallSound
<1>5. CASE ~(Known(call.key) /\ Permits(call.key, call.target))
  <2>1. Reply(r, "denied")
    BY <1>5 DEF Authorize
  <2> QED
    BY <1>1, <1>2, <2>1, ReplyStep DEF Answers
<1> QED
  BY <1>4, <1>5

\* The credential that a request is forwarded with is its key's own, which
\* covers what the key permits, or was chosen for the target.
LEMMA LookupStep ==
  ASSUME ProxyInv, NEW r \in Callers, Lookup(r)
  PROVE  ProxyInv'
<1>1. At(r, "resolve") /\ UNCHANGED <<keys, upstreams, draft>>
  BY DEF Lookup
<1> DEFINE call == calls[r]
           found == Candidates(call.handler, call.pin, call.target)
<1>2. /\ call # NoCall /\ call \in Call /\ call.done \in 1 .. 4
      /\ Pipeline[call.handler][call.done] = "resolve" /\ CallSound(call)
  BY <1>1, AtStage DEF ProxyInv, CallsSound
<1>3. call.done + 1 \in 1 .. 4 /\ call.done > AuthorizedAt(call.handler)
  BY <1>2, PipelineOrder DEF Call
<1>4. Permits(call.key, call.target) /\ call.pin = Pin(call.handler, call.key)
  BY <1>2, <1>3 DEF CallSound
<1>5. CASE found = {}
  <2>1. Reply(r, "no_upstream")
    BY <1>5 DEF Lookup
  <2> QED
    BY <1>1, <1>2, <1>4, <2>1, ReplyStep DEF Answers
<1>6. CASE found # {}
  <2>1. PICK u \in found : Proceed(r, [call EXCEPT !.via = u])
    BY <1>6 DEF Lookup
  <2>2. u \in UpstreamIds /\ Registered(u)
        /\ IF call.pin # Unpinned THEN u = call.pin
           ELSE call.handler = "s3_list" \/ call.target \in upstreams[u].covers
    BY DEF Candidates
  <2>3. call.key \in KeyIds /\ keys[call.key] # NoRow /\ call.target \in keys[call.key].policy
    BY <1>2, <1>4 DEF Call, Permits
  <2>4. call.handler # "s3_list" => call.target \in upstreams[u].covers
    <3>1. CASE call.pin = Unpinned
      BY <2>2, <3>1
    <3>2. CASE call.pin # Unpinned
      <4>1. u = keys[call.key].pin /\ keys[call.key].pin # Unpinned
        BY <1>4, <2>2, <3>2 DEF Pin
      <4> QED
        BY <2>3, <4>1 DEF ProxyInv, KeysBound, Within
    <3> QED
      BY <3>1, <3>2
  <2>5. call.handler # "own" => ~call.orphan
    <3> SUFFICES ASSUME call.handler # "own", call.orphan PROVE FALSE
      BY <1>2 DEF Call
    <3>1. Orphaned(call.key)
      BY <1>2 DEF CallSound
    <3>2. call.pin = keys[call.key].pin
      BY <1>4 DEF Pin
    <3> QED
      BY <2>2, <3>1, <3>2 DEF Orphaned
  <2>6. [[call EXCEPT !.via = u] EXCEPT !.done = @ + 1]
          = [call EXCEPT !.pin = call.pin, !.via = u, !.done = @ + 1]
    BY <1>2 DEF Call
  <2>7. calls' = [calls EXCEPT ![r] = [call EXCEPT !.pin = call.pin, !.via = u, !.done = @ + 1]]
    BY <2>1, <2>6 DEF Proceed
  <2>8. call.pin \in UpstreamIds \cup {Unpinned} /\ upstreams[u] # NoRow
    BY <1>2, <2>2 DEF Call, Registered
  <2> QED
    BY <1>1, <1>2, <1>3, <1>4, <2>2, <2>4, <2>5, <2>7, <2>8, ProceedStep
<1> QED
  BY <1>5, <1>6

LEMMA ForwardStep ==
  ASSUME ProxyInv, NEW r \in Callers, Forward(r)
  PROVE  ProxyInv'
<1>1. At(r, "fetch") /\ UNCHANGED <<keys, upstreams, draft>>
  BY DEF Forward
<1>2. PICK a \in {"ok", "throttled", "failed"} : Reply(r, a)
  <2>1. PICK upstream \in {"ok", "throttled", "failed"}, readable \in BOOLEAN :
          Reply(r, IF readable THEN upstream ELSE "failed")
    BY DEF Forward
  <2> QED
    BY <2>1
<1>3. calls[r] # NoCall /\ a \in Answers /\ a # "no_upstream"
  BY <1>1 DEF At, Answers
<1> QED
  BY <1>1, <1>2, <1>3, ReplyStep

LEMMA FinishStep ==
  ASSUME ProxyInv, NEW r \in Callers, Finish(r)
  PROVE  ProxyInv'
<1>1. calls' = [calls EXCEPT ![r] = NoCall] /\ UNCHANGED <<keys, upstreams, draft>>
  BY DEF Finish
<1> QED
  BY <1>1, RequestStep

\* A step of an administrator, who leaves the requests alone.
LEMMA RowStep ==
  ASSUME ProxyInv, RowsStay, UNCHANGED calls,
         keys' \in [KeyIds -> KeyRow \cup {NoRow}],
         upstreams' \in [UpstreamIds -> UpstreamRow \cup {NoRow}],
         draft' \in Draft \cup {NoDraft}, KeysBound', DraftBound'
  PROVE  ProxyInv'
<1>1. ProxyTypeOK'
  BY DEF ProxyInv, ProxyTypeOK
<1>2. ASSUME NEW r \in Callers, calls'[r] # NoCall PROVE CallSound(calls[r])'
  BY <1>2, CallStays
<1>3. CallsSound'
  BY <1>2 DEF CallsSound
<1> QED
  BY <1>1, <1>3 DEF ProxyInv

LEMMA RegisterStep ==
  ASSUME ProxyInv, NEW u \in UpstreamIds, NEW covers \in Extents, RegisterUpstream(u, covers)
  PROVE  ProxyInv'
<1> DEFINE new == [covers |-> covers, live |-> TRUE]
<1>1. /\ upstreams[u] = NoRow /\ upstreams' = [upstreams EXCEPT ![u] = new]
      /\ UNCHANGED <<keys, calls, draft>>
  BY DEF RegisterUpstream
<1>2. new \in UpstreamRow /\ new # NoRow
  <2>1. covers \in SUBSET Targets
    BY ServiceProxyAssumption
  <2>2. new \in UpstreamRow
    BY <2>1 DEF UpstreamRow
  <2> QED
    BY <2>2, ServiceProxyAssumption
<1> HIDE DEF new
<1>3. upstreams' \in [UpstreamIds -> UpstreamRow \cup {NoRow}]
  BY <1>1, <1>2 DEF ProxyInv, ProxyTypeOK
<1>4. RowsStay
  BY <1>1, <1>2 DEF RowsStay, ProxyInv, ProxyTypeOK
<1>5. KeysBound' /\ DraftBound'
  BY <1>1, <1>4, BindingsStay DEF ProxyInv
<1> QED
  BY <1>1, <1>3, <1>4, <1>5, RowStep DEF ProxyInv, ProxyTypeOK

LEMMA DeleteStep ==
  ASSUME ProxyInv, NEW u \in UpstreamIds, DeleteUpstream(u)
  PROVE  ProxyInv'
<1> DEFINE dead == [upstreams[u] EXCEPT !.live = FALSE]
<1>1. /\ upstreams[u] # NoRow /\ upstreams' = [upstreams EXCEPT ![u] = dead]
      /\ UNCHANGED <<keys, calls, draft>>
  BY DEF DeleteUpstream, Registered
<1>2. upstreams[u] \in UpstreamRow
  BY <1>1 DEF ProxyInv, ProxyTypeOK
<1>3. dead \in UpstreamRow /\ dead.covers = upstreams[u].covers /\ dead.live = FALSE
  BY <1>2 DEF UpstreamRow
<1>4. dead # NoRow
  BY <1>3, ServiceProxyAssumption
<1> HIDE DEF dead
<1>5. upstreams' \in [UpstreamIds -> UpstreamRow \cup {NoRow}]
  BY <1>1, <1>3 DEF ProxyInv, ProxyTypeOK
<1>6. RowsStay
  BY <1>1, <1>3, <1>4 DEF RowsStay, ProxyInv, ProxyTypeOK
<1>7. KeysBound' /\ DraftBound'
  BY <1>1, <1>6, BindingsStay DEF ProxyInv
<1> QED
  BY <1>1, <1>5, <1>6, <1>7, RowStep DEF ProxyInv, ProxyTypeOK

LEMMA ValidateStep ==
  ASSUME ProxyInv, NEW u \in UpstreamIds, NEW policy \in Extents, ValidateKey(policy, u)
  PROVE  ProxyInv'
<1>1. /\ draft' = [policy |-> policy, pin |-> u] /\ Within(policy, u)
      /\ UNCHANGED <<keys, upstreams, calls>>
  BY DEF ValidateKey, Registered, Within
<1>2. draft' \in Draft
  BY <1>1, ServiceProxyAssumption DEF Draft
<1>3. RowsStay /\ KeysBound'
  BY <1>1 DEF RowsStay, ProxyInv, KeysBound, Within
<1>4. DraftBound'
  BY <1>1 DEF DraftBound, Within
<1> QED
  BY <1>1, <1>2, <1>3, <1>4, RowStep DEF ProxyInv, ProxyTypeOK

LEMMA CreateStep ==
  ASSUME ProxyInv, NEW k \in KeyIds, CreateKey(k)
  PROVE  ProxyInv'
<1> DEFINE new == [policy |-> draft.policy, pin |-> draft.pin, live |-> TRUE]
<1>1. /\ draft # NoDraft /\ keys[k] = NoRow /\ keys' = [keys EXCEPT ![k] = new]
      /\ draft' = NoDraft /\ UNCHANGED <<upstreams, calls>>
  BY DEF CreateKey
<1>2. /\ draft \in Draft /\ Within(draft.policy, draft.pin)
  BY <1>1 DEF ProxyInv, ProxyTypeOK, DraftBound
<1>3. new \in KeyRow /\ new.policy = draft.policy /\ new.pin = draft.pin
  BY <1>2 DEF Draft, KeyRow
<1>4. new # NoRow
  BY <1>3, ServiceProxyAssumption
<1> HIDE DEF new
<1>5. keys' \in [KeyIds -> KeyRow \cup {NoRow}]
  BY <1>1, <1>3 DEF ProxyInv, ProxyTypeOK
<1>6. RowsStay
  BY <1>1, <1>4 DEF RowsStay, ProxyInv, ProxyTypeOK
<1>7. KeysBound'
  BY <1>1, <1>2, <1>3 DEF KeysBound, ProxyInv, ProxyTypeOK, Within
<1>8. DraftBound'
  BY <1>1 DEF DraftBound
<1> QED
  BY <1>1, <1>5, <1>6, <1>7, <1>8, RowStep DEF ProxyInv, ProxyTypeOK

LEMMA RotateStep ==
  ASSUME ProxyInv, NEW k \in KeyIds, NEW new \in KeyIds, RotateKey(k, new)
  PROVE  ProxyInv'
<1> DEFINE old == [keys[k] EXCEPT !.live = FALSE]
<1>1. /\ keys[k] # NoRow /\ keys[new] = NoRow /\ k # new
      /\ UNCHANGED <<upstreams, calls, draft>>
  BY DEF RotateKey, Known
<1>2. keys' = [keys EXCEPT ![new] = keys[k], ![k] = old]
  BY <1>1 DEF RotateKey, ProxyInv, ProxyTypeOK
<1>3. keys[k] \in KeyRow
  BY <1>1 DEF ProxyInv, ProxyTypeOK
<1>4. old \in KeyRow /\ old.policy = keys[k].policy /\ old.pin = keys[k].pin
  BY <1>3 DEF KeyRow
<1>5. old # NoRow
  BY <1>4, ServiceProxyAssumption
<1> HIDE DEF old
<1>6. keys' \in [KeyIds -> KeyRow \cup {NoRow}]
  BY <1>2, <1>3, <1>4 DEF ProxyInv, ProxyTypeOK
<1>7. RowsStay
  BY <1>1, <1>2, <1>4, <1>5 DEF RowsStay, ProxyInv, ProxyTypeOK
<1>8. KeysBound' /\ DraftBound'
  BY <1>1, <1>2, <1>4 DEF KeysBound, DraftBound, ProxyInv, ProxyTypeOK, Within
<1> QED
  BY <1>1, <1>6, <1>7, <1>8, RowStep DEF ProxyInv, ProxyTypeOK

LEMMA EndStep ==
  ASSUME ProxyInv, NEW k \in KeyIds, EndKey(k)
  PROVE  ProxyInv'
<1> DEFINE old == [keys[k] EXCEPT !.live = FALSE]
<1>1. /\ keys[k] # NoRow /\ keys' = [keys EXCEPT ![k] = old]
      /\ UNCHANGED <<upstreams, calls, draft>>
  BY DEF EndKey, Known
<1>2. keys[k] \in KeyRow
  BY <1>1 DEF ProxyInv, ProxyTypeOK
<1>3. old \in KeyRow /\ old.policy = keys[k].policy /\ old.pin = keys[k].pin
  BY <1>2 DEF KeyRow
<1>4. old # NoRow
  BY <1>3, ServiceProxyAssumption
<1> HIDE DEF old
<1>5. keys' \in [KeyIds -> KeyRow \cup {NoRow}]
  BY <1>1, <1>3 DEF ProxyInv, ProxyTypeOK
<1>6. RowsStay
  BY <1>1, <1>3, <1>4 DEF RowsStay, ProxyInv, ProxyTypeOK
<1>7. KeysBound' /\ DraftBound'
  BY <1>1, <1>3 DEF KeysBound, DraftBound, ProxyInv, ProxyTypeOK, Within
<1> QED
  BY <1>1, <1>5, <1>6, <1>7, RowStep DEF ProxyInv, ProxyTypeOK

LEMMA ProxyInitially == ProxyInit => ProxyInv
<1> SUFFICES ASSUME ProxyInit PROVE ProxyInv
  OBVIOUS
<1>1. [policy |-> Targets, pin |-> Unpinned, live |-> TRUE] \in KeyRow
  BY DEF KeyRow
<1>2. ProxyTypeOK
  BY <1>1 DEF ProxyInit, ProxyTypeOK
<1>3. KeysBound /\ DraftBound /\ CallsSound
  BY DEF ProxyInit, KeysBound, DraftBound, CallsSound
<1> QED
  BY <1>2, <1>3 DEF ProxyInv

LEMMA ProxyStep == ProxyInv /\ [ProxyNext]_proxyVars => ProxyInv'
<1> SUFFICES ASSUME ProxyInv, [ProxyNext]_proxyVars PROVE ProxyInv'
  OBVIOUS
<1>1. ASSUME NEW r \in Callers, Handle(r) PROVE ProxyInv'
  BY <1>1, ConsumeStep, AuthorizeStep, LookupStep, ForwardStep DEF Handle
<1>2. ASSUME UNCHANGED <<keys, upstreams, calls, draft>> PROVE ProxyInv'
  BY <1>2 DEF ProxyInv, ProxyTypeOK, KeysBound, DraftBound, Within, CallsSound, CallSound,
              Permits, Pin, Orphaned, Registered
<1>3. ASSUME NEW r \in Callers, RunDrain(r) PROVE ProxyInv'
  BY <1>2, <1>3 DEF RunDrain
<1>4. CASE RefillTokens
  BY <1>2, <1>4 DEF RefillTokens
<1>5. CASE UNCHANGED proxyVars
  BY <1>2, <1>5 DEF proxyVars
<1> QED
  BY <1>1, <1>3, <1>4, <1>5, ArriveStep, FinishStep, RegisterStep, DeleteStep, ValidateStep,
     CreateStep, RotateStep, EndStep DEF ProxyNext

LEMMA ProxyInvariance == ProxySpec => []ProxyInv
  BY ProxyInitially, ProxyStep, PTL DEF ProxySpec

\* Only a holder of a key that permits a target is told that no upstream
\* credential covers it, in whatever order a handler takes its steps
\* (service-handler.ts:44).
THEOREM StrangersLearnNothing == ProxySpec => []NoProbing
<1>1. ProxyInv => NoProbing
  BY DEF ProxyInv, CallsSound, CallSound, NoProbing
<1> QED
  BY <1>1, ProxyInvariance, PTL

\* The credential that a request is forwarded with covers its target, however
\* long ago the key was bound to it, and whatever was rotated, deleted or
\* created since (token-binding.ts:38).
THEOREM ForwardingStaysInScope == ProxySpec => []ForwardedInScope
<1>1. ProxyInv => ForwardedInScope
  BY DEF ProxyInv, CallsSound, CallSound, ForwardedInScope, Forwarded
<1> QED
  BY <1>1, ProxyInvariance, PTL

\* Outside KV and Workers no request is forwarded whose key had lost its
\* credential when it arrived (proxy-helpers.ts:76, s3/routes.ts:266).
THEOREM OrphansAreRefused == ProxySpec => []OrphansDoNotReach
<1>1. ProxyInv => OrphansDoNotReach
  BY DEF ProxyInv, CallsSound, CallSound, OrphansDoNotReach, Forwarded
<1> QED
  BY <1>1, ProxyInvariance, PTL

-----------------------------------------------------------------------------
(***************************************************************************)
(* The administration API.                                                 *)
(***************************************************************************)

\* Until a request is answered it has changed nothing and audited nothing.
NothingYet == stage # "answered" => ~changed /\ ~audited

LEMMA AuditInitially == AdminInit => NothingYet /\ ChangesAudited
  BY DEF AdminInit, NothingYet, ChangesAudited

LEMMA AuditStep ==
  NothingYet /\ ChangesAudited /\ [AdminNext]_adminVars => NothingYet' /\ ChangesAudited'
<1> SUFFICES ASSUME NothingYet, ChangesAudited, [AdminNext]_adminVars
             PROVE  NothingYet' /\ ChangesAudited'
  OBVIOUS
<1> USE DEF NothingYet, ChangesAudited
<1>1. CASE SendAny
  BY <1>1 DEF SendAny, SendCall
<1>2. CASE RouteCall
  BY <1>2 DEF RouteCall, Respond
<1>3. CASE RefuseCall \/ ServeRead
  BY <1>3 DEF RefuseCall, ServeRead, Respond, Quietly
<1>4. CASE LookFirst
  BY <1>4 DEF LookFirst, Respond, Quietly
<1>5. CASE Act
  <2>1. stage \in {"routed", "looked"} /\ stage' = "answered" /\ handler' = handler
    BY <1>5 DEF Act, Ready, Respond
  <2>2. changed' <=> row \in Affected
    BY <1>5, <2>1 DEF Act, WriteRow
  <2>3. CASE row \in Affected \/ handler.does \in Bulk
    BY <1>5, <2>1, <2>2, <2>3 DEF Act, Respond
  <2>4. CASE ~(row \in Affected \/ handler.does \in Bulk)
    <3>1. audited' = audited /\ ~changed'
      BY <1>5, <2>2, <2>4 DEF Act
    <3> QED
      BY <2>1, <3>1
  <2> QED
    BY <2>3, <2>4
<1>6. CASE RpcFails
  BY <1>6 DEF RpcFails, Respond
<1>7. CASE OthersAct
  BY <1>7 DEF OthersAct
<1>8. CASE NextCall
  BY <1>8 DEF NextCall
<1>9. CASE UNCHANGED adminVars
  BY <1>9 DEF adminVars
<1> QED
  BY <1>1, <1>2, <1>3, <1>4, <1>5, <1>6, <1>7, <1>8, <1>9 DEF AdminNext

\* What was confirmed is in the log and what is in the log was confirmed,
\* although the row is looked up in one RPC and written in another
\* (admin-keys.ts:257).
THEOREM LogTellsTheTruth == AdminSpec => []ChangesAudited
<1> SUFFICES AdminSpec => [](NothingYet /\ ChangesAudited)
  BY PTL
<1> QED
  BY AuditInitially, AuditStep, PTL DEF AdminSpec

-----------------------------------------------------------------------------
(* The handlers, whatever the order they are registered in. *)

Segment == [key |-> "keys", cred |-> "s3", token |-> "upstream-tokens",
            endpoint |-> "upstream-r2", config |-> "config"]

\* A handler that writes is for a resource and not for GET or HEAD, and what
\* there are rows of has handlers nowhere but under its own segment of /admin.
Fit(h) ==
  /\ h.does \in Writing => h.kind \in Stored /\ h.method \notin {"GET", "HEAD"}
  /\ h.kind \in Stored =>
       /\ Len(h.path) \in Nat /\ Len(h.path) >= 2
       /\ h.path[1] = "admin" /\ h.path[2] = Segment[h.kind]

AllFit(list) == \E S : list \in Seq(S) /\ \A h \in S : Fit(h)

\* What a table may register for a kind.
RowFits(kind, entry) ==
  /\ \E S : entry[2] \in Seq(S)
  /\ entry[3] \in Writing => kind \in Stored /\ entry[1] \notin {"GET", "HEAD"}

RowsFit(kind, rows) == \E S : rows \in Seq(S) /\ \A entry \in S : RowFits(kind, entry)

LEMMA RowsOfRows ==
  ASSUME NEW kind, NEW e1, RowFits(kind, e1), NEW e2, RowFits(kind, e2),
         NEW e3, RowFits(kind, e3), NEW e4, RowFits(kind, e4)
  PROVE  /\ RowsFit(kind, <<e1>>) /\ RowsFit(kind, <<e1, e2>>)
         /\ RowsFit(kind, <<e1, e2, e3>>) /\ RowsFit(kind, <<e1, e2, e3, e4>>)
<1> DEFINE S == {e1, e2, e3, e4}
<1>1. \A entry \in S : RowFits(kind, entry)
  OBVIOUS
<1>2. e1 \in S /\ e2 \in S /\ e3 \in S /\ e4 \in S
  OBVIOUS
<1> HIDE DEF S
<1>3. <<e1>> \in Seq(S) /\ <<e1, e2>> \in Seq(S)
  BY <1>2
<1>4. <<e1, e2, e3>> \in Seq(S) /\ <<e1, e2, e3, e4>> \in Seq(S)
  BY <1>2
<1> QED
  BY <1>1, <1>3, <1>4 DEF RowsFit

LEMMA FitTogether ==
  ASSUME NEW s, NEW t, AllFit(s), AllFit(t)
  PROVE  AllFit(s \o t)
<1>1. PICK S : s \in Seq(S) /\ \A h \in S : Fit(h)
  BY DEF AllFit
<1>2. PICK T : t \in Seq(T) /\ \A h \in T : Fit(h)
  BY DEF AllFit
<1>3. s \in Seq(S \cup T) /\ t \in Seq(S \cup T)
  BY <1>1, <1>2
<1>4. s \o t \in Seq(S \cup T)
  BY <1>3, ConcatProperties
<1> QED
  BY <1>1, <1>2, <1>4 DEF AllFit

LEMMA OnFits ==
  ASSUME NEW S, NEW mount \in Seq(S), NEW kind, NEW rows, RowsFit(kind, rows),
         kind \in Stored => Len(mount) >= 2 /\ mount[1] = "admin" /\ mount[2] = Segment[kind]
  PROVE  AllFit(On(mount, kind, rows))
<1> DEFINE Made(i) == [method |-> rows[i][1], path |-> mount \o rows[i][2], kind |-> kind,
                       does |-> rows[i][3]]
<1>1. PICK R : rows \in Seq(R) /\ \A entry \in R : RowFits(kind, entry)
  BY DEF RowsFit
<1>2. ASSUME NEW i \in 1 .. Len(rows) PROVE Fit(Made(i))
  <2> DEFINE tail == rows[i][2]
  <2>1. RowFits(kind, rows[i])
    BY <1>1
  <2>2. PICK T : tail \in Seq(T)
    BY <2>1 DEF RowFits
  <2>3. mount \in Seq(S \cup T) /\ tail \in Seq(S \cup T)
    BY <2>2
  <2> HIDE DEF tail
  <2>4. /\ Len(mount \o tail) = Len(mount) + Len(tail)
        /\ \A j \in 1 .. Len(mount) : (mount \o tail)[j] = mount[j]
        /\ Len(mount) \in Nat /\ Len(tail) \in Nat
    BY <2>3, ConcatProperties
  <2>5. kind \in Stored =>
          /\ Len(mount \o tail) \in Nat /\ Len(mount \o tail) >= 2
          /\ (mount \o tail)[1] = "admin" /\ (mount \o tail)[2] = Segment[kind]
    BY <2>4
  <2>6. kind \in Stored =>
          /\ Len(Made(i).path) \in Nat /\ Len(Made(i).path) >= 2
          /\ Made(i).path[1] = "admin" /\ Made(i).path[2] = Segment[kind]
    BY <2>5 DEF tail
  <2>7. Made(i).does \in Writing => Made(i).kind \in Stored /\ Made(i).method \notin {"GET", "HEAD"}
    BY <2>1 DEF RowFits
  <2>8. Made(i).kind = kind
    OBVIOUS
  <2> HIDE DEF Made
  <2> QED
    BY <2>6, <2>7, <2>8 DEF Fit
<1>3. On(mount, kind, rows) = [i \in 1 .. Len(rows) |-> Made(i)]
  BY <1>1 DEF On
<1> DEFINE M == {Made(i) : i \in 1 .. Len(rows)}
<1>4. \A h \in M : Fit(h)
  BY <1>2
<1> HIDE DEF Made
<1>5. [i \in 1 .. Len(rows) |-> Made(i)] \in Seq(M)
  <2>1. Len(rows) \in Nat
    BY <1>1
  <2>2. \A i \in 1 .. Len(rows) : Made(i) \in M
    OBVIOUS
  <2> HIDE DEF M
  <2> QED
    BY <2>1, <2>2
<1> QED
  BY <1>3, <1>4, <1>5 DEF AllFit

LEMMA EntryFits ==
  ASSUME NEW kind, NEW m, NEW S, NEW tail \in Seq(S), NEW d,
         d \in Writing => kind \in Stored /\ m \notin {"GET", "HEAD"}
  PROVE  RowFits(kind, <<m, tail, d>>)
<1> DEFINE entry == <<m, tail, d>>
<1>1. entry[1] = m /\ entry[2] = tail /\ entry[3] = d
  OBVIOUS
<1> HIDE DEF entry
<1>2. RowFits(kind, entry)
  BY <1>1 DEF RowFits
<1> QED
  BY <1>2 DEF entry

\* Every tail of a path is a sequence of something.
LEMMA TailFits ==
  ASSUME NEW kind, NEW m, NEW d,
         d \in Writing => kind \in Stored /\ m \notin {"GET", "HEAD"}
  PROVE  /\ RowFits(kind, <<m, <<>>, d>>)
         /\ \A x : RowFits(kind, <<m, <<x>>, d>>)
         /\ \A x, y : RowFits(kind, <<m, <<x, y>>, d>>)
<1>1. <<>> \in Seq({})
  OBVIOUS
<1>2. \A x : <<x>> \in Seq({x})
  OBVIOUS
<1>3. \A x, y : <<x, y>> \in Seq({x, y})
  OBVIOUS
<1>4. RowFits(kind, <<m, <<>>, d>>)
  BY <1>1, EntryFits
<1>5. ASSUME NEW x PROVE RowFits(kind, <<m, <<x>>, d>>)
  BY <1>2, EntryFits
<1>6. ASSUME NEW x, NEW y PROVE RowFits(kind, <<m, <<x, y>>, d>>)
  BY <1>3, EntryFits
<1> QED
  BY <1>4, <1>5, <1>6

LEMMA Reads ==
  ASSUME NEW kind, NEW d, d \notin Writing
  PROVE  \A m : /\ RowFits(kind, <<m, <<>>, d>>)
                /\ \A x : RowFits(kind, <<m, <<x>>, d>>)
BY TailFits

LEMMA Writes ==
  ASSUME NEW kind \in Stored, NEW m \in {"POST", "PUT", "PATCH", "DELETE"}
  PROVE  \A d : /\ RowFits(kind, <<m, <<>>, d>>)
                /\ \A x : RowFits(kind, <<m, <<x>>, d>>)
                /\ \A x, y : RowFits(kind, <<m, <<x, y>>, d>>)
BY TailFits

LEMMA NotWriting ==
  /\ "get" \notin Writing /\ "list" \notin Writing /\ "events" \notin Writing
  /\ "summary" \notin Writing /\ "timeseries" \notin Writing /\ "purge" \notin Writing
  /\ "forward" \notin Writing
BY DEF Writing, Bulk

\* Where the resources are.
LEMMA Bases ==
  /\ \A rows : RowsFit("key", rows) => AllFit(On(<<"admin", "keys">>, "key", rows))
  /\ \A rows : RowsFit("cred", rows) =>
       AllFit(On(<<"admin", "s3", "credentials">>, "cred", rows))
  /\ \A rows : RowsFit("token", rows) => AllFit(On(<<"admin", "upstream-tokens">>, "token", rows))
  /\ \A rows : RowsFit("endpoint", rows) =>
       AllFit(On(<<"admin", "upstream-r2">>, "endpoint", rows))
  /\ \A rows : RowsFit("config", rows) => AllFit(On(<<"admin", "config">>, "config", rows))
<1>1. /\ Segment["key"] = "keys" /\ Segment["cred"] = "s3" /\ Segment["token"] = "upstream-tokens"
      /\ Segment["endpoint"] = "upstream-r2" /\ Segment["config"] = "config"
  BY DEF Segment
<1>2. ASSUME NEW x, NEW kind, Segment[kind] = x, NEW rows, RowsFit(kind, rows)
      PROVE  AllFit(On(<<"admin", x>>, kind, rows))
  <2> DEFINE mount == <<"admin", x>>
  <2>1. mount \in Seq({"admin", x}) /\ Len(mount) = 2 /\ mount[1] = "admin" /\ mount[2] = x
    OBVIOUS
  <2> HIDE DEF mount
  <2>2. AllFit(On(mount, kind, rows))
    BY <1>2, <2>1, OnFits
  <2> QED
    BY <2>2 DEF mount
<1>3. ASSUME NEW rows, RowsFit("cred", rows)
      PROVE  AllFit(On(<<"admin", "s3", "credentials">>, "cred", rows))
  <2> DEFINE mount == <<"admin", "s3", "credentials">>
  <2>1. /\ mount \in Seq({"admin", "s3", "credentials"}) /\ Len(mount) = 3
        /\ mount[1] = "admin" /\ mount[2] = "s3"
    OBVIOUS
  <2> HIDE DEF mount
  <2>2. AllFit(On(mount, "cred", rows))
    BY <1>1, <1>3, <2>1, OnFits
  <2> QED
    BY <2>2 DEF mount
<1> QED
  BY <1>1, <1>2, <1>3

LEMMA ResourceRows ==
  ASSUME NEW kind \in Stored
  PROVE  /\ RowsFit(kind, <<<<"POST", <<>>, "create">>, <<"GET", <<>>, "list">>, <<"GET", <<"?">>, "get">>>>)
         /\ RowsFit(kind, <<<<"POST", <<"?", "rotate">>, "rotate">>, <<"PATCH", <<"?">>, "update">>>>)
         /\ RowsFit(kind, <<<<"DELETE", <<"?">>, "end">>, <<"POST", <<"bulk-revoke">>, "bulk_revoke">>,
                            <<"POST", <<"bulk-delete">>, "bulk_delete">>>>)
         /\ RowsFit(kind, <<<<"POST", <<>>, "create">>, <<"GET", <<>>, "list">>, <<"GET", <<"?">>, "get">>,
                            <<"PATCH", <<"?">>, "update">>>>)
         /\ RowsFit(kind, <<<<"DELETE", <<"?">>, "delete">>, <<"POST", <<"bulk-delete">>, "bulk_delete">>>>)
         /\ RowsFit(kind, <<<<"GET", <<>>, "get">>, <<"PUT", <<>>, "set">>, <<"DELETE", <<"?">>, "reset">>>>)
<1>1. /\ RowFits(kind, <<"POST", <<>>, "create">>)
      /\ RowFits(kind, <<"POST", <<"?", "rotate">>, "rotate">>)
      /\ RowFits(kind, <<"PATCH", <<"?">>, "update">>)
      /\ RowFits(kind, <<"DELETE", <<"?">>, "end">>)
      /\ RowFits(kind, <<"DELETE", <<"?">>, "delete">>)
      /\ RowFits(kind, <<"PUT", <<>>, "set">>)
      /\ RowFits(kind, <<"DELETE", <<"?">>, "reset">>)
      /\ RowFits(kind, <<"POST", <<"bulk-revoke">>, "bulk_revoke">>)
      /\ RowFits(kind, <<"POST", <<"bulk-delete">>, "bulk_delete">>)
  BY Writes
<1>2. /\ RowFits(kind, <<"GET", <<>>, "list">>) /\ RowFits(kind, <<"GET", <<"?">>, "get">>)
      /\ RowFits(kind, <<"GET", <<>>, "get">>)
  BY Reads, NotWriting
<1>3. /\ RowsFit(kind, <<<<"POST", <<>>, "create">>, <<"GET", <<>>, "list">>, <<"GET", <<"?">>, "get">>>>)
      /\ RowsFit(kind, <<<<"POST", <<>>, "create">>, <<"GET", <<>>, "list">>, <<"GET", <<"?">>, "get">>,
                         <<"PATCH", <<"?">>, "update">>>>)
  BY <1>1, <1>2, RowsOfRows
<1>4. /\ RowsFit(kind, <<<<"POST", <<"?", "rotate">>, "rotate">>, <<"PATCH", <<"?">>, "update">>>>)
      /\ RowsFit(kind, <<<<"DELETE", <<"?">>, "delete">>, <<"POST", <<"bulk-delete">>, "bulk_delete">>>>)
  BY <1>1, RowsOfRows
<1>5. /\ RowsFit(kind, <<<<"DELETE", <<"?">>, "end">>, <<"POST", <<"bulk-revoke">>, "bulk_revoke">>,
                         <<"POST", <<"bulk-delete">>, "bulk_delete">>>>)
      /\ RowsFit(kind, <<<<"GET", <<>>, "get">>, <<"PUT", <<>>, "set">>, <<"DELETE", <<"?">>, "reset">>>>)
  BY <1>1, <1>2, RowsOfRows
<1> QED
  BY <1>3, <1>4, <1>5

LEMMA KeysFit == AllFit(KeyHandlers) /\ AllFit(KeyChangeHandlers) /\ AllFit(KeyEndHandlers)
<1>1. "key" \in Stored
  BY DEF Stored
<1> QED
  BY <1>1, ResourceRows, Bases DEF KeyHandlers, KeyChangeHandlers, KeyEndHandlers

LEMMA CredsFit == AllFit(S3Handlers) /\ AllFit(S3ChangeHandlers) /\ AllFit(S3EndHandlers)
<1>1. "cred" \in Stored
  BY DEF Stored
<1> QED
  BY <1>1, ResourceRows, Bases DEF S3Handlers, S3ChangeHandlers, S3EndHandlers

LEMMA UpstreamsFit ==
  /\ AllFit(UpstreamTokenHandlers) /\ AllFit(UpstreamTokenEndHandlers)
  /\ AllFit(UpstreamR2Handlers) /\ AllFit(UpstreamR2EndHandlers)
<1>1. "token" \in Stored /\ "endpoint" \in Stored
  BY DEF Stored
<1>2. AllFit(UpstreamTokenHandlers) /\ AllFit(UpstreamTokenEndHandlers)
  BY <1>1, ResourceRows, Bases DEF UpstreamTokenHandlers, UpstreamTokenEndHandlers
<1>3. AllFit(UpstreamR2Handlers) /\ AllFit(UpstreamR2EndHandlers)
  BY <1>1, ResourceRows, Bases DEF UpstreamR2Handlers, UpstreamR2EndHandlers
<1> QED
  BY <1>2, <1>3

LEMMA ConfigFits == AllFit(ConfigHandlers)
<1>1. "config" \in Stored
  BY DEF Stored
<1> QED
  BY <1>1, ResourceRows, Bases DEF ConfigHandlers

\* What there are no rows of may be anywhere.
LEMMA ReadsFit ==
  ASSUME NEW kind, kind \notin Stored, NEW S, NEW mount \in Seq(S)
  PROVE  /\ AllFit(On(mount, kind, Reports))
         /\ AllFit(On(mount, kind, <<<<"GET", <<"events">>, "events">>>>))
         /\ AllFit(On(mount, kind, <<<<"GET", <<>>, "get">>>>))
         /\ AllFit(On(mount, kind, <<<<"GET", <<"health">>, "get">>, <<"GET", <<"logout">>, "get">>>>))
         /\ AllFit(On(mount, kind, <<<<"POST", <<"purge_cache">>, "purge">>>>))
<1>1. /\ RowFits(kind, <<"GET", <<"events">>, "events">>)
      /\ RowFits(kind, <<"GET", <<"summary">>, "summary">>)
      /\ RowFits(kind, <<"GET", <<"timeseries">>, "timeseries">>)
      /\ RowFits(kind, <<"GET", <<>>, "get">>)
      /\ RowFits(kind, <<"GET", <<"health">>, "get">>)
      /\ RowFits(kind, <<"GET", <<"logout">>, "get">>)
      /\ RowFits(kind, <<"POST", <<"purge_cache">>, "purge">>)
  BY Reads, NotWriting
<1>2. RowsFit(kind, Reports)
  BY <1>1, RowsOfRows DEF Reports
<1>3. /\ RowsFit(kind, <<<<"GET", <<"events">>, "events">>>>)
      /\ RowsFit(kind, <<<<"GET", <<>>, "get">>>>)
      /\ RowsFit(kind, <<<<"GET", <<"health">>, "get">>, <<"GET", <<"logout">>, "get">>>>)
      /\ RowsFit(kind, <<<<"POST", <<"purge_cache">>, "purge">>>>)
  BY <1>1, RowsOfRows
<1> QED
  BY <1>2, <1>3, OnFits

LEMMA LogsFit ==
  /\ AllFit(AnalyticsHandlers) /\ AllFit(S3AnalyticsHandlers)
  /\ AllFit(DnsAnalyticsHandlers) /\ AllFit(CfAnalyticsHandlers)
  /\ AllFit(AuditHandlers) /\ AllFit(MeHandlers)
<1>1. /\ <<"admin", "analytics">> \in Seq({"admin", "analytics"})
      /\ <<"admin", "s3", "analytics">> \in Seq({"admin", "s3", "analytics"})
      /\ <<"admin", "dns", "analytics">> \in Seq({"admin", "dns", "analytics"})
      /\ <<"admin", "cf", "analytics">> \in Seq({"admin", "cf", "analytics"})
  OBVIOUS
<1>2. /\ <<"admin", "audit">> \in Seq({"admin", "audit"})
      /\ <<"admin", "me">> \in Seq({"admin", "me"})
  OBVIOUS
<1>3. {"purge_log", "s3_log", "dns_log", "cf_log", "audit_log", "me"} \cap Stored = {}
  BY DEF Stored
<1>4. /\ "purge_log" \notin Stored /\ "s3_log" \notin Stored /\ "dns_log" \notin Stored
      /\ "cf_log" \notin Stored /\ "audit_log" \notin Stored /\ "me" \notin Stored
  BY <1>3
<1>5. AllFit(AnalyticsHandlers) /\ AllFit(S3AnalyticsHandlers)
  BY <1>1, <1>4, ReadsFit DEF AnalyticsHandlers, S3AnalyticsHandlers
<1>6. AllFit(DnsAnalyticsHandlers) /\ AllFit(CfAnalyticsHandlers)
  BY <1>1, <1>4, ReadsFit DEF DnsAnalyticsHandlers, CfAnalyticsHandlers
<1>7. AllFit(AuditHandlers) /\ AllFit(MeHandlers)
  BY <1>2, <1>4, ReadsFit DEF AuditHandlers, MeHandlers
<1> QED
  BY <1>5, <1>6, <1>7

LEMMA AppFits == AllFit(AppHandlers)
<1>1. <<>> \in Seq({}) /\ <<"v1", "zones", "?">> \in Seq({"v1", "zones", "?"})
  OBVIOUS
<1>2. "app" \notin Stored /\ "purge" \notin Stored
  BY DEF Stored
<1> QED
  BY <1>1, <1>2, ReadsFit, FitTogether DEF AppHandlers

LEMMA ForwardsFit == AllFit(ForwardHandlers)
<1> DEFINE Methods == <<"GET", "HEAD", "POST", "PUT", "PATCH", "DELETE">>
           Entry(i) == <<Methods[i], <<"**">>, "forward">>
           rows == [i \in 1 .. 6 |-> Entry(i)]
           S == {Entry(i) : i \in 1 .. 6}
<1>1. ASSUME NEW kind PROVE RowsFit(kind, rows)
  <2>1. \A i \in 1 .. 6 : RowFits(kind, Entry(i))
    BY Reads, NotWriting
  <2>2. \A entry \in S : RowFits(kind, entry)
    BY <2>1
  <2> HIDE DEF Entry
  <2>3. rows \in Seq(S)
    OBVIOUS
  <2> QED
    BY <2>2, <2>3 DEF RowsFit
<1> HIDE DEF rows
<1>2. /\ <<"s3">> \in Seq({"s3"}) /\ <<"cf">> \in Seq({"cf"})
      /\ <<"v1", "zones", "?", "dns_records">> \in Seq({"v1", "zones", "?", "dns_records"})
  OBVIOUS
<1>3. "s3" \notin Stored /\ "cf" \notin Stored /\ "dns" \notin Stored
  BY DEF Stored
<1>4. /\ AllFit(On(<<"s3">>, "s3", rows)) /\ AllFit(On(<<"cf">>, "cf", rows))
      /\ AllFit(On(<<"v1", "zones", "?", "dns_records">>, "dns", rows))
  BY <1>1, <1>2, <1>3, OnFits
<1> QED
  BY <1>4, FitTogether DEF ForwardHandlers, rows

\* Whatever takes a request is as it should be.
LEMMA RegistrationsFit == AllFit(Registrations)
  BY AppFits, LogsFit, KeysFit, CredsFit, UpstreamsFit, ConfigFits, ForwardsFit, FitTogether, ZenonT(60)
     DEF Registrations

LEMMA Least ==
  ASSUME NEW T, T \subseteq Nat, T # {}
  PROVE  \E i \in T : \A j \in T : i <= j
<1>1. PICK i \in T : \A j \in T : ~ (<<j, i>> \in OpToRel(<, Nat))
  BY WFMin, NatLessThanWellFounded, Zenon
<1>2. ASSUME NEW j \in T PROVE ~(j < i)
  <2>1. <<j, i>> \in Nat \X Nat
    OBVIOUS
  <2>2. ~ (<<j, i>> \in OpToRel(<, Nat))
    BY <1>1
  <2> QED
    BY <2>1, <2>2, Zenon DEF OpToRel
<1>3. \A j \in T : i <= j
  BY <1>2
<1> QED
  BY <1>3

\* The handler that takes a request is a registered one that matches it.
LEMMA HandlerFits ==
  ASSUME NEW method, NEW path, Takers(method, path) # {}
  PROVE  /\ Fit(HandlerOf(method, path))
         /\ HandlerOf(method, path).method = method
         /\ PathMatches(HandlerOf(method, path).path, path)
<1> DEFINE T == Takers(method, path)
           first == CHOOSE i \in T : \A j \in T : i <= j
<1>1. PICK S : Registrations \in Seq(S) /\ \A h \in S : Fit(h)
  BY RegistrationsFit DEF AllFit
<1>2. T \subseteq DOMAIN Registrations /\ DOMAIN Registrations = 1 .. Len(Registrations)
  BY <1>1 DEF Takers
<1>3. T \subseteq Nat
  BY <1>2
<1>4. first \in T
  BY <1>3, Least
<1>5. HandlerOf(method, path) = Registrations[first]
  BY DEF HandlerOf
<1> HIDE DEF first
<1>6. /\ Registrations[first].method = method
      /\ PathMatches(Registrations[first].path, path) /\ first \in DOMAIN Registrations
  BY <1>4 DEF Takers
<1>7. Registrations[first] \in S
  BY <1>1, <1>6
<1> QED
  BY <1>1, <1>5, <1>6, <1>7

LEMMA SegmentOfPath ==
  ASSUME NEW h, Fit(h), h.kind \in Stored, NEW path, PathMatches(h.path, path)
  PROVE  2 \in DOMAIN path /\ path[2] = Segment[h.kind]
<1> DEFINE pattern == h.path
<1>1. /\ Len(pattern) \in Nat /\ Len(pattern) >= 2
      /\ pattern[1] = "admin" /\ pattern[2] = Segment[h.kind]
  BY DEF Fit
<1>2. pattern[1] # "**" /\ pattern[2] # "**" /\ pattern[2] # "?"
  BY <1>1 DEF Segment, Stored
<1> HIDE DEF pattern
<1>3. PICK n \in 0 .. Len(pattern) :
        /\ IF n < Len(pattern) THEN pattern[n + 1] = "**" /\ 1 .. n \subseteq DOMAIN path
           ELSE DOMAIN path = 1 .. n
        /\ \A i \in 1 .. n : pattern[i] = path[i] \/ pattern[i] = "?"
  BY DEF PathMatches, pattern
<1>4. n >= 2
  <2>1. n # 0
    BY <1>1, <1>2, <1>3
  <2>2. n # 1
    <3> SUFFICES ASSUME n = 1 PROVE FALSE
      OBVIOUS
    <3>1. n < Len(pattern) /\ n + 1 = 2
      BY <1>1
    <3> QED
      BY <1>2, <1>3, <3>1
  <2> QED
    BY <1>1, <2>1, <2>2
<1>5. 2 \in 1 .. n /\ 1 .. n \subseteq DOMAIN path
  BY <1>1, <1>3, <1>4
<1> QED
  BY <1>1, <1>2, <1>3, <1>5 DEF pattern

-----------------------------------------------------------------------------
(* The roles. *)

LEMMA Highest ==
  ASSUME NEW mine, mine \subseteq Roles, mine # {}
  PROVE  \E r \in mine : \A s \in mine : Rank[s] <= Rank[r]
<1>1. Rank["viewer"] = 1 /\ Rank["operator"] = 2 /\ Rank["admin"] = 3
  BY DEF Rank
<1>2. \A s \in mine : s = "viewer" \/ s = "operator" \/ s = "admin"
  BY DEF Roles
<1>3. CASE "admin" \in mine
  BY <1>1, <1>2, <1>3
<1>4. CASE "admin" \notin mine /\ "operator" \in mine
  BY <1>1, <1>2, <1>4
<1>5. CASE "admin" \notin mine /\ "operator" \notin mine
  BY <1>1, <1>2, <1>5
<1> QED
  BY <1>3, <1>4, <1>5

LEMMA RoleEntitles ==
  ASSUME NEW who \in AnyCaller, AdminAuth(who) # "none",
         NEW role \in Roles, Rank[AdminAuth(who)] >= Rank[role]
  PROVE  Entitled(who, role)
<1>1. CASE who = AdminKey
  BY <1>1, AdminAssumption DEF Entitled
<1>2. CASE who = Stranger
  BY <1>2, AdminAssumption DEF AdminAuth
<1>3. CASE who # AdminKey /\ who # Stranger
  <2> DEFINE mine == who.groups \cap who.rbac
  <2>1. who.groups \subseteq Roles
    BY <1>3 DEF AnyCaller, Members
  <2>2. AdminAuth(who) = ResolveRole(who.groups, who.rbac)
    BY <1>3 DEF AdminAuth
  <2>3. CASE who.rbac = {}
    BY <1>3, <2>3 DEF Entitled
  <2>4. CASE who.rbac # {}
    <3>1. mine # {}
      BY <2>2, <2>4 DEF ResolveRole
    <3>2. AdminAuth(who) = CHOOSE r \in mine : \A s \in mine : Rank[s] <= Rank[r]
      BY <2>2, <2>4, <3>1 DEF ResolveRole
    <3>3. mine \subseteq Roles
      BY <2>1
    <3> HIDE DEF mine
    <3>4. AdminAuth(who) \in mine
      BY <3>1, <3>2, <3>3, Highest
    <3> QED
      BY <1>3, <3>4 DEF Entitled, mine
  <2> QED
    BY <2>3, <2>4
<1> QED
  BY <1>1, <1>2, <1>3

\* What the middleware asks for the segment of a resource is what its owner has.
LEMMA GuardsSuffice ==
  ASSUME NEW kind \in Stored, NEW role, NEW method, NEW path, LetThrough(role, method, path),
         2 \in DOMAIN path, path[2] = Segment[kind]
  PROVE  /\ role # "none"
         /\ method \notin {"GET", "HEAD"} => Rank[role] >= Rank[Owner[kind]]
         /\ kind \in {"token", "endpoint"} => Rank[role] >= Rank["admin"]
<1>1. \A g \in Guards : path[2] = g.at =>
        Rank[role] >= Rank[IF method \in {"GET", "HEAD"} THEN g.read ELSE g.write]
  BY DEF LetThrough
<1>2. role # "none"
  BY DEF LetThrough
<1>3. /\ Guard("keys", "viewer", "operator") \in Guards
      /\ Guard("s3", "viewer", "operator") \in Guards
      /\ Guard("upstream-tokens", "admin", "admin") \in Guards
      /\ Guard("upstream-r2", "admin", "admin") \in Guards
      /\ Guard("config", "viewer", "admin") \in Guards
  BY DEF Guards
<1>4. ASSUME NEW at, NEW read, NEW write, Guard(at, read, write) \in Guards, path[2] = at
      PROVE  /\ method \in {"GET", "HEAD"} => Rank[role] >= Rank[read]
             /\ method \notin {"GET", "HEAD"} => Rank[role] >= Rank[write]
  <2> DEFINE g == Guard(at, read, write)
  <2>1. g.at = at /\ g.read = read /\ g.write = write
    BY DEF Guard
  <2> QED
    BY <1>1, <1>4, <2>1
<1>5. CASE kind = "key"
  <2>1. Segment[kind] = "keys" /\ Owner[kind] = "operator"
    BY <1>5 DEF Segment, Owner
  <2> QED
    BY <1>2, <1>3, <1>4, <1>5, <2>1
<1>6. CASE kind = "cred"
  <2>1. Segment[kind] = "s3" /\ Owner[kind] = "operator"
    BY <1>6 DEF Segment, Owner
  <2> QED
    BY <1>2, <1>3, <1>4, <1>6, <2>1
<1>7. CASE kind = "token"
  <2>1. Segment[kind] = "upstream-tokens" /\ Owner[kind] = "admin"
    BY <1>7 DEF Segment, Owner
  <2> QED
    BY <1>2, <1>3, <1>4, <1>7, <2>1
<1>8. CASE kind = "endpoint"
  <2>1. Segment[kind] = "upstream-r2" /\ Owner[kind] = "admin"
    BY <1>8 DEF Segment, Owner
  <2> QED
    BY <1>2, <1>3, <1>4, <1>8, <2>1
<1>9. CASE kind = "config"
  <2>1. Segment[kind] = "config" /\ Owner[kind] = "admin"
    BY <1>9 DEF Segment, Owner
  <2> QED
    BY <1>2, <1>3, <1>4, <1>9, <2>1
<1> QED
  BY <1>5, <1>6, <1>7, <1>8, <1>9 DEF Stored

\* The request got as far as a handler.
Taken ==
  \/ stage \in {"routed", "looked"}
  \/ stage = "answered" /\ answer \notin {"forbidden", "no_route"}

\* The handler is one for the request, and the caller was let through to it.
RightHandler ==
  LET call == request.call IN
  /\ Fit(handler) /\ handler.method = call.method /\ PathMatches(handler.path, call.path)
  /\ call.path[1] = "admin" => LetThrough(AdminAuth(request.who), call.method, call.path)

\* What was changed was changed by a handler that writes.
RoleInv ==
  /\ stage # "idle" => request.who \in AnyCaller
  /\ Taken => RightHandler
  /\ stage = "looked" => handler.does \in Writing
  /\ changed => stage = "answered" /\ Taken /\ handler.does \in Writing

LEMMA RolesInitially == AdminInit => RoleInv
  BY DEF AdminInit, RoleInv, Taken

\* The answer of a handler, which changes something only when it writes.
LEMMA RolesAnswer ==
  ASSUME RoleInv, Taken, UNCHANGED <<request, handler>>, stage' = "answered",
         answer' \notin {"forbidden", "no_route"}, changed' => changed \/ handler.does \in Writing
  PROVE  RoleInv'
<1>1. RightHandler /\ stage # "idle"
  BY DEF RoleInv, Taken
<1>2. RightHandler'
  BY <1>1 DEF RightHandler
<1> QED
  BY <1>1, <1>2 DEF RoleInv, Taken

LEMMA RolesStep == RoleInv /\ [AdminNext]_adminVars => RoleInv'
<1> SUFFICES ASSUME RoleInv, [AdminNext]_adminVars PROVE RoleInv'
  OBVIOUS
<1>1. CASE SendAny
  <2>1. stage = "idle"
    BY <1>1 DEF SendAny
  <2>2. AdminKey \in AnyCaller /\ Members \subseteq AnyCaller
    BY DEF AnyCaller
  <2>3. ASSUME NEW call, NEW who \in AnyCaller, NEW asked, SendCall(call, who, asked)
        PROVE  request'.who \in AnyCaller /\ stage' = "sent" /\ changed' = changed
    BY <2>3 DEF SendCall
  <2>4. request'.who \in AnyCaller /\ stage' = "sent" /\ changed' = changed
    BY <1>1, <2>2, <2>3 DEF SendAny
  <2> QED
    BY <2>1, <2>4 DEF RoleInv, Taken
<1>2. CASE RouteCall
  <2>1. stage = "sent" /\ request' = request /\ changed' = changed /\ ~changed
    BY <1>2 DEF RouteCall, RoleInv
  <2>2. \/ stage' = "answered" /\ answer' \in {"forbidden", "no_route"}
        \/ stage' = "routed" /\ RightHandler'
    <3> DEFINE call == request.call
               kept == call.path[1] = "admin"
                         /\ ~LetThrough(AdminAuth(request.who), call.method, call.path)
    <3>1. CASE kept
      BY <1>2, <3>1 DEF RouteCall, Respond
    <3>2. CASE ~kept /\ Takers(call.method, call.path) = {}
      BY <1>2, <3>2 DEF RouteCall, Respond
    <3>3. CASE ~kept /\ Takers(call.method, call.path) # {}
      <4>1. stage' = "routed" /\ handler' = HandlerOf(call.method, call.path)
        BY <1>2, <3>3 DEF RouteCall
      <4>2. /\ Fit(handler') /\ handler'.method = call.method
            /\ PathMatches(handler'.path, call.path)
        BY <3>3, <4>1, HandlerFits
      <4> QED
        BY <2>1, <3>3, <4>1, <4>2 DEF RightHandler
    <3> QED
      BY <3>1, <3>2, <3>3
  <2> QED
    BY <2>1, <2>2 DEF RoleInv, Taken
<1>3. CASE RefuseCall \/ ServeRead
  <2>1. /\ stage = "routed" /\ UNCHANGED <<request, handler, changed>>
        /\ stage' = "answered" /\ answer' \in {"invalid", "not_found", "ok"}
    BY <1>3 DEF RefuseCall, ServeRead, Respond, Quietly
  <2> QED
    BY <2>1, RolesAnswer DEF Taken
<1>4. CASE LookFirst
  <2>1. /\ stage = "routed" /\ handler.does \in Writing
        /\ UNCHANGED <<request, handler, changed>>
    BY <1>4 DEF LookFirst, Quietly, Writing
  <2>2. \/ stage' = "answered" /\ answer' = "not_found"
        \/ stage' = "looked"
    BY <1>4 DEF LookFirst, Respond
  <2>3. CASE stage' = "answered" /\ answer' = "not_found"
    BY <2>1, <2>3, RolesAnswer DEF Taken
  <2>4. CASE stage' = "looked"
    <3>1. RightHandler' /\ request'.who \in AnyCaller /\ ~changed'
      BY <2>1 DEF RoleInv, Taken, RightHandler
    <3> QED
      BY <2>1, <2>4, <3>1 DEF RoleInv, Taken
  <2> QED
    BY <2>2, <2>3, <2>4
<1>5. ASSUME Ready PROVE Taken /\ handler.does \in Writing
  BY <1>5 DEF Ready, RoleInv, Taken
<1>6. CASE Act
  <2>1. /\ Ready /\ UNCHANGED <<request, handler>> /\ stage' = "answered"
        /\ answer' \in {"ok", "not_found"}
    BY <1>6 DEF Act, Respond
  <2> QED
    BY <1>5, <2>1, RolesAnswer
<1>7. CASE RpcFails
  <2>1. /\ Taken /\ UNCHANGED <<request, handler>> /\ stage' = "answered" /\ answer' = "error"
        /\ changed' = changed \/ Ready
    BY <1>7 DEF RpcFails, Respond, Taken
  <2> QED
    BY <1>5, <2>1, RolesAnswer
<1>8. CASE OthersAct \/ UNCHANGED adminVars
  BY <1>8 DEF OthersAct, adminVars, RoleInv, Taken, RightHandler
<1>9. CASE NextCall
  BY <1>9 DEF NextCall, RoleInv, Taken
<1> QED
  BY <1>1, <1>2, <1>3, <1>4, <1>6, <1>7, <1>8, <1>9 DEF AdminNext

LEMMA RolesFollow == RoleInv => RolesHonoured
<1> SUFFICES ASSUME RoleInv, stage = "answered", answer # "no_route", request.call.path[1] = "admin"
             PROVE  /\ changed => Entitled(request.who, Owner[handler.kind])
                    /\ answer # "forbidden" /\ handler.kind \in {"token", "endpoint"}
                         => Entitled(request.who, "admin")
  BY DEF RolesHonoured
<1> DEFINE role == AdminAuth(request.who)
           path == request.call.path
           method == request.call.method
           kind == handler.kind
<1>1. ASSUME Taken, kind \in Stored
      PROVE  /\ request.who \in AnyCaller /\ role # "none" /\ handler.method = method
             /\ method \notin {"GET", "HEAD"} => Rank[role] >= Rank[Owner[kind]]
             /\ kind \in {"token", "endpoint"} => Rank[role] >= Rank["admin"]
  <2>1. Fit(handler) /\ handler.method = method /\ PathMatches(handler.path, path)
        /\ LetThrough(role, method, path)
    BY <1>1 DEF RoleInv, RightHandler
  <2>2. 2 \in DOMAIN path /\ path[2] = Segment[kind]
    BY <1>1, <2>1, SegmentOfPath
  <2>3. request.who \in AnyCaller
    BY DEF RoleInv
  <2> QED
    BY <1>1, <2>1, <2>2, <2>3, GuardsSuffice
<1>2. ASSUME changed PROVE Entitled(request.who, Owner[kind])
  <2>1. Taken /\ handler.does \in Writing /\ Fit(handler)
    BY <1>2 DEF RoleInv, RightHandler
  <2>2. kind \in Stored /\ handler.method \notin {"GET", "HEAD"}
    BY <2>1 DEF Fit
  <2>3. Owner[kind] \in Roles
    BY <2>2 DEF Owner, Stored, Roles
  <2> QED
    BY <1>1, <2>1, <2>2, <2>3, RoleEntitles
<1>3. ASSUME answer # "forbidden", kind \in {"token", "endpoint"}
      PROVE  Entitled(request.who, "admin")
  <2>1. Taken
    BY <1>3 DEF Taken
  <2>2. kind \in Stored /\ "admin" \in Roles
    BY <1>3 DEF Stored, Roles
  <2> QED
    BY <1>1, <1>3, <2>1, <2>2, RoleEntitles
<1> QED
  BY <1>2, <1>3

\* Nothing of a resource changes but for a caller whose groups give the role
\* for it, and nobody else sees an upstream credential, whichever of the
\* registrations takes the request and whatever its method is (admin.ts:20).
THEOREM RolesAreHonoured == AdminSpec => []RolesHonoured
<1> SUFFICES AdminSpec => []RoleInv
  BY RolesFollow, PTL
<1> QED
  BY RolesInitially, RolesStep, PTL DEF AdminSpec

(***************************************************************************)
(* One token bucket in use.  The inductive invariant adds to the stated    *)
(* properties the ledger of the bucket (what was admitted and what is      *)
(* still held never exceed what came in) and what a standing promise says  *)
(* of the tokens held, at any instant between the refusal and the moment   *)
(* it named.                                                               *)
(***************************************************************************)


\* What was admitted and what is left came from the opening balance or time.
Ledger ==
  /\ since <= bucket.last
  /\ used * Grain + bucket.tokens <= base + (bucket.last - since) * Drip

Demand == Cost(promise.count) * Grain

\* At the promised time the tokens will be there, if the bucket is left alone.
PromiseCovered ==
  promise # NoPromise =>
    /\ Cost(promise.count) <= Size
    /\ bucket.last <= clock
    /\ bucket.last <= promise.at
         => Demand <= bucket.tokens + (promise.at - bucket.last) * Drip
    /\ promise.at < bucket.last => Demand <= bucket.tokens

\* A second before the promised time they will not.
PromiseNeeded ==
  promise # NoPromise /\ bucket.last + Second <= promise.at
    => bucket.tokens + ((promise.at - Second) - bucket.last) * Drip < Demand

IInv ==
  /\ TypeOK
  /\ Ledger
  /\ PromiseCovered
  /\ PromiseNeeded

-----------------------------------------------------------------------------
(***************************************************************************)
(* The bucket and the promise of a typed state.                            *)
(***************************************************************************)

\* What a refill or a purchase keeps of the bucket's identity.
LEMMA BucketTyped ==
  ASSUME TypeOK
  PROVE  /\ bucket \in Bucket /\ WithinSize(bucket)
         /\ bucket.size = Size /\ bucket.drip = Drip
         /\ bucket.tokens \in Nat /\ bucket.last \in Nat
         /\ Size * Grain \in Nat /\ bucket.tokens <= Size * Grain
         /\ Drip \in Nat \ {0} /\ Grain \in Nat \ {0} /\ Second \in Nat \ {0}
<1>1. /\ bucket \in Bucket /\ WithinSize(bucket)
      /\ bucket.size = Size /\ bucket.drip = Drip
  BY DEF TypeOK
<1>2. bucket.tokens \in Nat /\ bucket.last \in Nat
  BY <1>1 DEF Bucket
<1>3. Size * Grain \in Nat
  BY RateLimitAssumption, BucketAssumption, TimesNat
<1>4. bucket.tokens <= Size * Grain
  BY <1>1 DEF WithinSize
<1>5. QED
  BY <1>1, <1>2, <1>3, <1>4, RateLimitAssumption, BucketAssumption

\* A standing promise names a request and an instant.
LEMMA PromiseTyped ==
  ASSUME TypeOK, promise # NoPromise
  PROVE  promise.count \in Int /\ promise.at \in Nat /\ Demand \in Nat
BY CostPositive DEF TypeOK, Demand

-----------------------------------------------------------------------------
(***************************************************************************)
(* The invariant is kept by every step.                                    *)
(***************************************************************************)
LEMMA Initially == Init => IInv
<1> SUFFICES ASSUME Init PROVE IInv
  OBVIOUS
<1>1. bucket = [size |-> Size, drip |-> Drip, tokens |-> Size * Grain, last |-> 0]
  BY DEF Init, NewBucket
<1>2. Size * Grain \in Nat /\ Size \in Nat \ {0} /\ Drip \in Nat \ {0}
  BY RateLimitAssumption, BucketAssumption, TimesNat
<1>3. TypeOK
  BY <1>1, <1>2 DEF Init, TypeOK, Bucket, WithinSize
<1>4. Ledger
  <2>1. used * Grain = 0 /\ (bucket.last - since) * Drip = 0
    BY <1>1, <1>2, BucketAssumption DEF Init
  <2>2. QED
    BY <1>1, <1>2, <2>1 DEF Init, Ledger
<1>5. QED
  BY <1>3, <1>4 DEF Init, IInv, PromiseCovered, PromiseNeeded

\* The ledger over a refill to r: time buys what it is worth or less.
LEMMA LedgerRefilled ==
  ASSUME TypeOK, Ledger, NEW r, r = Refilled(bucket, clock)
  PROVE  /\ since <= r.last
         /\ used * Grain + r.tokens <= base + (r.last - since) * Drip
<1>1. /\ bucket.last \in Nat /\ since \in Nat /\ base \in Nat /\ used \in Nat
      /\ Drip \in Nat /\ Grain \in Nat /\ clock \in Nat /\ bucket.tokens \in Nat
  BY BucketTyped DEF TypeOK
<1>2. /\ r \in Bucket /\ bucket.last <= r.last
      /\ r.tokens <= bucket.tokens + (r.last - bucket.last) * Drip
  BY <1>1, BucketTyped, RefillFacts
<1>3. r.last \in Nat /\ r.tokens \in Nat
  BY <1>2 DEF Bucket
<1>4. ((bucket.last - since) + (r.last - bucket.last)) * Drip
        = (bucket.last - since) * Drip + (r.last - bucket.last) * Drip
  BY <1>1, <1>3, TimesPlus
<1>5. (bucket.last - since) + (r.last - bucket.last) = r.last - since
  BY <1>1, <1>3
<1>6. /\ used * Grain \in Int /\ (bucket.last - since) * Drip \in Int
      /\ (r.last - bucket.last) * Drip \in Int
  BY <1>1, <1>3, TimesInt
<1>7. QED
  BY <1>1, <1>2, <1>3, <1>4, <1>5, <1>6 DEF Ledger
\* A promise over a refill that leaves the bucket otherwise alone.
LEMMA PromiseRefilled ==
  ASSUME TypeOK, PromiseCovered, PromiseNeeded, promise # NoPromise,
         NEW r, r = Refilled(bucket, clock)
  PROVE  /\ r.last = clock
         /\ clock <= promise.at => Demand <= r.tokens + (promise.at - clock) * Drip
         /\ promise.at < clock => Demand <= r.tokens
         /\ clock + Second <= promise.at
              => r.tokens + ((promise.at - Second) - clock) * Drip < Demand
<1> DEFINE at == promise.at
           last == bucket.last
           gain == (clock - last) * Drip
<1>1. /\ last \in Nat /\ clock \in Nat /\ Drip \in Nat /\ Second \in Nat \ {0}
      /\ bucket.tokens \in Nat /\ Size * Grain \in Nat
  BY BucketTyped DEF TypeOK
<1>2. at \in Nat /\ Demand \in Nat /\ promise.count \in Int
  BY PromiseTyped
<1>3. last <= clock /\ Cost(promise.count) <= Size
  BY DEF PromiseCovered
<1>4. /\ r \in Bucket /\ r.last = clock
      /\ r.tokens <= bucket.tokens + gain
      /\ r.tokens = bucket.tokens + gain \/ r.tokens = Size * Grain
  <2>1. /\ bucket \in Bucket /\ WithinSize(bucket)
        /\ bucket.size = Size /\ bucket.drip = Drip
    BY BucketTyped
  <2>2. /\ r \in Bucket /\ r.last = clock
        /\ r.tokens <= bucket.tokens + (r.last - bucket.last) * bucket.drip
        /\ \/ r.tokens = bucket.tokens + (r.last - bucket.last) * bucket.drip
           \/ r.tokens = bucket.size * Grain
    <3>1. clock \in Nat /\ clock >= bucket.last
      BY <1>1, <1>3
    <3>2. /\ r \in Bucket
          /\ clock >= bucket.last => r.last = clock
          /\ r.tokens <= bucket.tokens + (r.last - bucket.last) * bucket.drip
          /\ \/ r.tokens = bucket.tokens + (r.last - bucket.last) * bucket.drip
             \/ r.tokens = bucket.size * Grain
      BY <2>1, <3>1, RefillFacts
    <3>3. QED
      BY <3>1, <3>2
  <2>3. QED
    BY <2>1, <2>2
<1>5. r.tokens \in Nat
  BY <1>4 DEF Bucket
<1>6. gain \in Nat
  BY <1>1, <1>3, TimesNat
<1>7. Demand <= Size * Grain
  <2>1. Cost(promise.count) \in Int /\ Size \in Int /\ Grain \in Nat
    BY <1>2, CostPositive, RateLimitAssumption, BucketAssumption
  <2>2. Cost(promise.count) * Grain <= Size * Grain
    BY <1>3, <2>1, TimesMonotone
  <2>3. QED
    BY <2>2 DEF Demand
<1>8. ASSUME NEW x \in Int
      PROVE  /\ (x - clock) * Drip \in Int
             /\ (x - last) * Drip = gain + (x - clock) * Drip
             /\ x >= clock => (x - clock) * Drip >= 0
             /\ x <= clock => (x - clock) * Drip <= 0
  <2>1. (x - clock) * Drip \in Int
    BY <1>1, TimesInt
  <2>2. ((clock - last) + (x - clock)) * Drip = gain + (x - clock) * Drip
    BY <1>1, TimesPlus
  <2>3. (clock - last) + (x - clock) = x - last
    BY <1>1
  <2>4. x >= clock => (x - clock) * Drip >= 0
    BY <1>1, TimesNat
  <2>5. x <= clock => (x - clock) * Drip <= 0 * Drip
    BY <1>1, TimesMonotone
  <2>6. 0 * Drip = 0
    BY <1>1
  <2>7. QED
    BY <2>1, <2>2, <2>3, <2>4, <2>5, <2>6
<1> DEFINE rest == (at - clock) * Drip
           early == ((at - Second) - clock) * Drip
<1>9. /\ rest \in Int /\ (at - last) * Drip = gain + rest
      /\ at >= clock => rest >= 0
      /\ at <= clock => rest <= 0
  BY <1>2, <1>8
<1>10. early \in Int /\ ((at - Second) - last) * Drip = gain + early
  <2>1. at - Second \in Int
    BY <1>1, <1>2
  <2>2. QED
    BY <1>8, <2>1
<1>11. last <= at => Demand <= bucket.tokens + gain + rest
  BY <1>1, <1>6, <1>9 DEF PromiseCovered
<1>12. at < last => Demand <= bucket.tokens
  BY DEF PromiseCovered
<1>13. clock + Second <= at => bucket.tokens + gain + early < Demand
  <2>1. clock + Second <= at => last + Second <= at
    BY <1>1, <1>2, <1>3
  <2>2. QED
    BY <1>1, <1>6, <1>10, <2>1 DEF PromiseNeeded
<1> HIDE DEF gain, rest, early
<1>15. clock <= at => Demand <= r.tokens + rest
  BY <1>1, <1>2, <1>3, <1>4, <1>5, <1>6, <1>7, <1>9, <1>11
<1>16. at < clock => Demand <= r.tokens
  BY <1>1, <1>2, <1>3, <1>4, <1>5, <1>6, <1>7, <1>9, <1>11, <1>12
<1>17. clock + Second <= at => r.tokens + early < Demand
  BY <1>1, <1>2, <1>4, <1>5, <1>6, <1>10, <1>13
<1>18. QED
  BY <1>4, <1>15, <1>16, <1>17 DEF rest, early

\* A new promise: the bucket holds r after the refusal.
LEMMA PromiseMade ==
  ASSUME TypeOK, NEW n \in Requests, ~Admits(bucket, n, clock), clock >= bucket.last,
         NEW r, r = Refilled(bucket, clock),
         NEW at, at = clock + RetryAfter(bucket, n, clock) * Second,
         NEW demand, demand = Cost(n) * Grain
  PROVE  /\ at \in Nat /\ r.last = clock /\ clock <= at
         /\ demand <= r.tokens + (at - clock) * Drip
         /\ r.tokens + ((at - Second) - clock) * Drip < demand
<1> DEFINE pace == Drip * Second
           deficit == demand - r.tokens
           wait == CeilDiv(deficit, pace)
<1>1. /\ clock \in Nat /\ bucket.last \in Nat
      /\ Drip \in Nat \ {0} /\ Second \in Nat \ {0} /\ n \in Int
  BY BucketTyped, RateLimitAssumption DEF TypeOK
<1>2. r \in Bucket /\ r.last = clock
  <2>1. bucket \in Bucket /\ WithinSize(bucket)
    BY BucketTyped
  <2>2. QED
    <3>1. clock \in Nat
      BY <1>1
    <3>2. r \in Bucket /\ (clock >= bucket.last => r.last = clock)
      BY <2>1, <3>1, RefillFacts
    <3>3. QED
      BY <3>2
<1>3. r.tokens \in Nat /\ demand \in Nat
  BY <1>1, <1>2, CostPositive DEF Bucket
<1>4. r.tokens < demand
  BY <1>3 DEF Admits
<1>5. deficit \in Nat /\ pace \in Nat \ {0}
  <2>1. pace \in Nat \ {0}
    BY <1>1, SMT
  <2>2. QED
    BY <1>3, <1>4, <2>1
<1>6. at = clock + wait * Second
  BY BucketTyped DEF RetryAfter
<1>7. /\ wait \in Nat /\ deficit <= wait * pace /\ wait * pace < deficit + pace
  <2> HIDE DEF deficit, pace
  <2>1. QED
    BY <1>5, CeilDivBounds
<1> HIDE DEF wait
<1>8. wait * Second \in Nat /\ at \in Nat
  BY <1>1, <1>6, <1>7, TimesNat
<1>9. (at - clock) * Drip = wait * pace
  <2>1. at - clock = wait * Second
    BY <1>1, <1>6, <1>8
  <2>2. (wait * Second) * Drip = wait * (Drip * Second)
    BY <1>1, <1>7, TimesRegroup
  <2>3. QED
    BY <2>1, <2>2
<1>10. ((at - Second) - clock) * Drip = wait * pace - pace
  <2>1. ((at - clock) + (0 - Second)) * Drip = (at - clock) * Drip + (0 - Second) * Drip
    BY <1>1, <1>8, TimesPlus
  <2>2. (at - clock) + (0 - Second) = (at - Second) - clock
    BY <1>1, <1>8
  <2>3. (0 - Second) * Drip = 0 - pace
    BY <1>1, SMT
  <2>4. QED
    BY <1>5, <1>7, <1>9, <2>1, <2>2, <2>3
<1>11. wait * pace \in Nat
  BY <1>5, <1>7, TimesNat
<1> HIDE DEF pace
<1>12. QED
  BY <1>1, <1>2, <1>3, <1>5, <1>6, <1>7, <1>8, <1>9, <1>10, <1>11
-----------------------------------------------------------------------------
(***************************************************************************)
(* Each action keeps the invariant.                                        *)
(***************************************************************************)
LEMMA AdmitKeeps ==
  ASSUME IInv, NEW n \in Requests, Admit(n)
  PROVE  IInv'
<1> DEFINE r == Refilled(bucket, clock)
<1>1. TypeOK /\ Ledger /\ n \in Int /\ clock \in Nat /\ used \in Nat
  BY RateLimitAssumption DEF IInv, TypeOK
<1>2. /\ bucket \in Bucket /\ WithinSize(bucket)
      /\ bucket.size = Size /\ bucket.drip = Drip
  BY <1>1, BucketTyped
<1>3. /\ bucket' \in Bucket /\ WithinSize(bucket')
      /\ bucket'.size = Size /\ bucket'.drip = Drip /\ bucket'.last = r.last
      /\ bucket'.tokens = r.tokens - Cost(n) * Grain
  BY <1>1, <1>2, SpendFacts DEF Admit
<1>4. r \in Bucket
  BY <1>1, <1>2, RefillFacts
<1>5. /\ since <= r.last
      /\ used * Grain + r.tokens <= base + (r.last - since) * Drip
  BY <1>1, LedgerRefilled
<1>6. Cost(n) \in Nat /\ Cost(n) * Grain \in Nat /\ used' = used + Cost(n)
  BY <1>1, CostPositive DEF Admit
<1>7. TypeOK'
  BY <1>1, <1>3, <1>6 DEF TypeOK, Admit, WithinSize
<1>8. Ledger'
  <2>1. used' * Grain = used * Grain + Cost(n) * Grain
    BY <1>1, <1>6, BucketAssumption, TimesPlus
  <2>2. /\ r.tokens \in Nat /\ r.last \in Nat /\ since \in Nat /\ base \in Nat
        /\ Drip \in Nat /\ since' = since /\ base' = base
    BY <1>1, <1>4, RateLimitAssumption DEF TypeOK, Admit, Bucket
  <2>3. used * Grain \in Int /\ (r.last - since) * Drip \in Int
    BY <1>1, <2>2, BucketAssumption, TimesInt
  <2> HIDE DEF r
  <2>4. QED
    BY <1>3, <1>5, <1>6, <2>1, <2>2, <2>3 DEF Ledger
<1>9. PromiseCovered' /\ PromiseNeeded'
  BY DEF Admit, PromiseCovered, PromiseNeeded
<1>10. QED
  BY <1>7, <1>8, <1>9 DEF IInv

LEMMA RefuseKeeps ==
  ASSUME IInv, NEW n \in Requests, Refuse(n)
  PROVE  IInv'
<1> DEFINE r == Refilled(bucket, clock)
           at == clock + RetryAfter(bucket, n, clock) * Second
<1>1. TypeOK /\ Ledger /\ n \in Int /\ clock \in Nat
  BY RateLimitAssumption DEF IInv, TypeOK
<1>2. /\ bucket \in Bucket /\ WithinSize(bucket)
      /\ bucket.size = Size /\ bucket.drip = Drip
  BY <1>1, BucketTyped
<1>3. /\ bucket' \in Bucket /\ WithinSize(bucket')
      /\ bucket'.size = Size /\ bucket'.drip = Drip
  BY <1>1, <1>2, SpendFacts DEF Refuse
<1>4. bucket' = r
  BY <1>1, <1>2, SpendFacts DEF Refuse
<1>5. Ledger'
  BY <1>1, <1>4, LedgerRefilled DEF Ledger, Refuse
<1>6. CASE promise' = NoPromise
  <2>1. TypeOK'
    BY <1>1, <1>3, <1>6 DEF TypeOK, Refuse, WithinSize
  <2>2. PromiseCovered' /\ PromiseNeeded'
    BY <1>6 DEF PromiseCovered, PromiseNeeded
  <2>3. QED
    BY <1>5, <2>1, <2>2 DEF IInv
<1>7. CASE promise' # NoPromise
  <2>1. /\ Cost(n) <= Size /\ clock >= bucket.last
        /\ promise' = [count |-> n, at |-> at]
    BY <1>7 DEF Refuse, Promise
  <2>2. /\ at \in Nat /\ r.last = clock /\ clock <= at
        /\ Cost(n) * Grain <= r.tokens + (at - clock) * Drip
        /\ r.tokens + ((at - Second) - clock) * Drip < Cost(n) * Grain
    BY <1>1, <2>1, PromiseMade DEF Refuse
  <2> HIDE DEF at, r
  <2>3. promise'.count = n /\ promise'.at = at
    BY <2>1
  <2>4. TypeOK'
    BY <1>1, <1>3, <2>1, <2>2 DEF TypeOK, Refuse, WithinSize
  <2>5. clock' = clock
    BY DEF Refuse
  <2>6. PromiseCovered'
    BY <1>1, <1>4, <2>1, <2>2, <2>3, <2>5 DEF PromiseCovered, Demand
  <2>7. PromiseNeeded'
    BY <1>4, <2>2, <2>3 DEF PromiseNeeded, Demand
  <2>8. QED
    BY <1>5, <2>4, <2>6, <2>7 DEF IInv
<1>8. QED
  BY <1>6, <1>7

LEMMA DrainKeeps ==
  ASSUME IInv, Drain
  PROVE  IInv'
<1>1. /\ bucket \in Bucket /\ bucket.size = Size /\ bucket.drip = Drip
      /\ clock \in Nat /\ Size * Grain \in Nat /\ Drip \in Nat
  BY BucketTyped DEF IInv, TypeOK
<1>2. /\ bucket' \in Bucket /\ bucket'.size = Size /\ bucket'.drip = Drip
      /\ bucket'.tokens = 0 /\ bucket'.last = clock
  BY <1>1 DEF Drain, Drained, Bucket
<1>3. TypeOK'
  BY <1>1, <1>2 DEF TypeOK, Drain, WithinSize
<1>4. used' * Grain = 0 /\ (bucket'.last - since') * Drip = 0
  BY <1>1, <1>2, BucketAssumption DEF Drain
<1>5. Ledger'
  BY <1>1, <1>2, <1>4 DEF Drain, Ledger
<1>6. QED
  BY <1>3, <1>5 DEF Drain, IInv, PromiseCovered, PromiseNeeded

LEMMA ObserveKeeps ==
  ASSUME IInv, Observe
  PROVE  IInv'
<1> DEFINE r == Refilled(bucket, clock)
<1>1. TypeOK /\ Ledger /\ PromiseCovered /\ PromiseNeeded /\ clock \in Nat
  BY DEF IInv, TypeOK
<1>2. /\ bucket \in Bucket /\ WithinSize(bucket)
      /\ bucket.size = Size /\ bucket.drip = Drip
  BY <1>1, BucketTyped
<1>3. /\ bucket' = r
      /\ UNCHANGED <<clock, used, base, since, promise>>
  BY DEF Observe
<1>4. r \in Bucket /\ WithinSize(r) /\ r.size = Size /\ r.drip = Drip
  BY <1>1, <1>2, RefillFacts
<1>5. TypeOK'
  BY <1>1, <1>3, <1>4 DEF TypeOK, WithinSize
<1>6. Ledger'
  BY <1>1, <1>3, LedgerRefilled DEF Ledger
<1>7. PromiseCovered' /\ PromiseNeeded'
  <2>1. CASE promise = NoPromise
    BY <1>3, <2>1 DEF PromiseCovered, PromiseNeeded
  <2>2. CASE promise # NoPromise
    <3>1. /\ r.last = clock
          /\ clock <= promise.at => Demand <= r.tokens + (promise.at - clock) * Drip
          /\ promise.at < clock => Demand <= r.tokens
          /\ clock + Second <= promise.at
               => r.tokens + ((promise.at - Second) - clock) * Drip < Demand
      BY <1>1, <2>2, PromiseRefilled
    <3>2. Demand' = Demand
      BY <1>3 DEF Demand
    <3> HIDE DEF r
    <3>3. PromiseCovered'
      BY <1>1, <1>3, <3>1, <3>2 DEF PromiseCovered
    <3>4. PromiseNeeded'
      BY <1>3, <3>1, <3>2 DEF PromiseNeeded
    <3>5. QED
      BY <3>3, <3>4
  <2>3. QED
    BY <2>1, <2>2
<1>8. QED
  BY <1>5, <1>6, <1>7 DEF IInv

LEMMA ClockKeeps ==
  ASSUME IInv, Tick \/ SetBack
  PROVE  IInv'
<1>1. UNCHANGED <<bucket, used, base, since>> /\ clock' \in Nat
  BY DEF IInv, TypeOK, Tick, SetBack
<1>2. \/ promise' = NoPromise
      \/ promise' = promise /\ clock' >= clock
  BY DEF Tick, SetBack, IInv, TypeOK
<1>3. TypeOK'
  BY <1>1, <1>2 DEF IInv, TypeOK, WithinSize
<1>4. Ledger'
  BY <1>1 DEF IInv, Ledger
<1>5. bucket.last \in Nat /\ clock \in Nat
  BY BucketTyped DEF IInv, TypeOK
<1>6. PromiseCovered' /\ PromiseNeeded'
  BY <1>1, <1>2, <1>5 DEF IInv, PromiseCovered, PromiseNeeded, Demand
<1>7. QED
  BY <1>3, <1>4, <1>6 DEF IInv

LEMMA Invariance == Spec => []IInv
<1>1. IInv /\ [Next]_vars => IInv'
  <2> SUFFICES ASSUME IInv, [Next]_vars PROVE IInv'
    OBVIOUS
  <2>1. CASE \E n \in Requests : Admit(n)
    BY <2>1, AdmitKeeps
  <2>2. CASE \E n \in Requests : Refuse(n)
    BY <2>2, RefuseKeeps
  <2>3. CASE Drain
    BY <2>3, DrainKeeps
  <2>4. CASE Observe
    BY <2>4, ObserveKeeps
  <2>5. CASE Tick \/ SetBack
    BY <2>5, ClockKeeps
  <2>6. CASE UNCHANGED vars
    BY <2>6 DEF vars, IInv, TypeOK, WithinSize, Ledger, PromiseCovered,
                PromiseNeeded, Demand
  <2>7. QED
    BY <2>1, <2>2, <2>3, <2>4, <2>5, <2>6 DEF Next
<1>2. QED
  BY <1>1, Initially, PTL DEF Spec

-----------------------------------------------------------------------------
(***************************************************************************)
(* The theorems.                                                           *)
(***************************************************************************)

\* No sequence of requests, drains and clock corrections takes the bucket of
\* src/src/token-bucket.ts below zero or above its size.
THEOREM BucketInBounds == Spec => []TypeOK
<1>1. IInv => TypeOK
  BY DEF IInv
<1>2. QED
  BY <1>1, Invariance, PTL

\* consume() never admits more than the opening balance and the elapsed time
\* are worth, also when the clock goes back (the guard in refill()).
THEOREM RateIsEnforced == Spec => []AdmissionBounded
<1>1. IInv => AdmissionBounded
  <2> SUFFICES ASSUME IInv PROVE AdmissionBounded
    OBVIOUS
  <2>1. /\ bucket.tokens \in Nat /\ bucket.last \in Nat /\ Drip \in Nat
        /\ used \in Nat /\ base \in Nat /\ since \in Nat /\ Grain \in Nat
    BY BucketTyped DEF IInv, TypeOK
  <2>2. used * Grain \in Int /\ (bucket.last - since) * Drip \in Int
    BY <2>1, TimesInt
  <2>3. QED
    BY <2>1, <2>2 DEF IInv, Ledger, AdmissionBounded
<1>2. QED
  BY <1>1, Invariance, PTL

\* Waiting for the Retry-After that consume() computes is enough.
THEOREM RetryAfterIsEnough == Spec => []RetryAfterSuffices
<1>1. IInv => RetryAfterSuffices
  <2> SUFFICES ASSUME IInv, promise # NoPromise, clock >= promise.at
               PROVE  Admits(bucket, promise.count, clock)
    BY DEF RetryAfterSuffices
  <2> DEFINE r == Refilled(bucket, clock)
  <2>1. /\ bucket \in Bucket /\ WithinSize(bucket) /\ clock \in Nat
        /\ promise.at \in Nat /\ Demand \in Nat /\ Drip \in Nat
    BY BucketTyped, PromiseTyped DEF IInv, TypeOK
  <2>2. /\ clock <= promise.at => Demand <= r.tokens + (promise.at - clock) * Drip
        /\ promise.at < clock => Demand <= r.tokens
    BY PromiseRefilled DEF IInv
  <2>3. r.tokens \in Nat
    BY <2>1, RefillFacts DEF Bucket
  <2> HIDE DEF r
  <2>4. clock = promise.at => (promise.at - clock) * Drip = 0
    BY <2>1
  <2>5. Demand <= r.tokens
    BY <2>1, <2>2, <2>3, <2>4
  <2>6. QED
    BY <2>1, <2>3, <2>5 DEF Admits, Demand, r
<1>2. QED
  BY <1>1, Invariance, PTL

\* A whole second less than that Retry-After would not have been enough.
THEOREM RetryAfterIsTight == Spec => []RetryAfterTight
<1>1. IInv => RetryAfterTight
  <2> SUFFICES ASSUME IInv, promise # NoPromise, clock + Second <= promise.at
               PROVE  ~Admits(bucket, promise.count, clock)
    BY DEF RetryAfterTight
  <2> DEFINE r == Refilled(bucket, clock)
             early == ((promise.at - Second) - clock) * Drip
  <2>1. /\ bucket \in Bucket /\ WithinSize(bucket) /\ clock \in Nat
        /\ promise.at \in Nat /\ Demand \in Nat /\ Drip \in Nat /\ Second \in Nat
    BY BucketTyped, PromiseTyped DEF IInv, TypeOK
  <2>2. r.tokens + early < Demand
    BY PromiseRefilled DEF IInv
  <2>3. r.tokens \in Nat
    BY <2>1, RefillFacts DEF Bucket
  <2>4. early \in Nat
    BY <2>1, TimesNat
  <2> HIDE DEF r, early
  <2>5. ~(r.tokens >= Demand)
    BY <2>1, <2>2, <2>3, <2>4
  <2>6. QED
    BY <2>5 DEF Admits, Demand, r
<1>2. QED
  BY <1>1, Invariance, PTL
==============================================================================
