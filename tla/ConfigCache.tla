---------------------------- MODULE ConfigCache ----------------------------
(***************************************************************************)
(* The copy of the gateway configuration that each isolate keeps           *)
(* (src/src/config-cache.ts), read by purge requests and cleared by the    *)
(* admin routes that change the configuration through that isolate.  A     *)
(* read takes the time, may find the copy fresh, and otherwise awaits an   *)
(* RPC to the object and stores what it answered.                          *)
(***************************************************************************)
EXTENDS Integers, Sequences

CONSTANTS
  Isolates, Readers,
  NoCopy, NoRead, NoAnswer,
  CacheTTL,     \* CONFIG_CACHE_TTL_MS
  MaxChanges,   \* bound on changes (model checking only)
  MaxTime       \* bound on the clock (model checking only)

Version == Nat \ {0}

ASSUME ConfigCacheAssumption ==
  /\ CacheTTL \in Nat /\ MaxChanges \in Nat /\ MaxTime \in Nat
  /\ NoCopy \notin [version : Version, at : Nat]
  /\ NoRead \notin [isolate : Isolates, began : Nat, version : Nat]
  /\ NoAnswer \notin [version : Version, began : Nat]

VARIABLES
  setAt,     \* when each version of the configuration was set; the last is in force
  copies,    \* `cached` of each isolate: [version, at] or NoCopy
  reads,     \* reads that wait for the RPC; version 0 until it was answered
  changing,  \* isolates whose admin request has yet to clear the copy
  got,       \* what the last step returned to a caller, if it was a read
  time       \* Date.now()

configVars == <<setAt, copies, reads, changing, got, time>>

ConfigInit ==
  /\ setAt = <<0>>
  /\ copies = [i \in Isolates |-> NoCopy]
  /\ reads = [r \in Readers |-> NoRead]
  /\ changing = {}
  /\ got = NoAnswer
  /\ time = 0

Usable(i) == copies[i] # NoCopy /\ time - copies[i].at < CacheTTL

ReadCopy(r, i) ==
  /\ reads[r] = NoRead
  /\ Usable(i)
  /\ got' = [version |-> copies[i].version, began |-> time]
  /\ UNCHANGED <<setAt, copies, reads, changing, time>>

BeginRead(r, i) ==
  /\ reads[r] = NoRead
  /\ ~Usable(i)
  /\ reads' = [reads EXCEPT ![r] = [isolate |-> i, began |-> time, version |-> 0]]
  /\ got' = NoAnswer
  /\ UNCHANGED <<setAt, copies, changing, time>>

\* The object answers the RPC.
FetchConfig(r) ==
  /\ reads[r] # NoRead /\ reads[r].version = 0
  /\ reads' = [reads EXCEPT ![r].version = Len(setAt)]
  /\ got' = NoAnswer
  /\ UNCHANGED <<setAt, copies, changing, time>>

\* Mutant of StoreConfig: the copy is as old as the end of the await.
StoreConfigNow(r) ==
  /\ reads[r] # NoRead /\ reads[r].version # 0
  /\ copies' = [copies EXCEPT ![reads[r].isolate] = [version |-> reads[r].version, at |-> time]]
  /\ got' = [version |-> reads[r].version, began |-> reads[r].began]
  /\ reads' = [reads EXCEPT ![r] = NoRead]
  /\ UNCHANGED <<setAt, changing, time>>

\* The await returns.  The copy is as old as the beginning of the read, and it
\* replaces whatever is there, cleared or newer.
StoreConfig(r) ==
  /\ reads[r] # NoRead /\ reads[r].version # 0
  /\ copies' = [copies EXCEPT ![reads[r].isolate] =
                  [version |-> reads[r].version, at |-> reads[r].began]]
  /\ got' = [version |-> reads[r].version, began |-> reads[r].began]
  /\ reads' = [reads EXCEPT ![r] = NoRead]
  /\ UNCHANGED <<setAt, changing, time>>

\* setConfig or resetConfigKey, for an admin request at isolate i.
ChangeConfig(i) ==
  /\ Len(setAt) <= MaxChanges
  /\ setAt' = Append(setAt, time)
  /\ changing' = changing \cup {i}
  /\ got' = NoAnswer
  /\ UNCHANGED <<copies, reads, time>>

\* resetConfigKey of a key that has no override.
ResetNothing(i) ==
  /\ changing' = changing \cup {i}
  /\ got' = NoAnswer
  /\ UNCHANGED <<setAt, copies, reads, time>>

\* The admin request goes on.
InvalidateCopy(i) ==
  /\ i \in changing
  /\ copies' = [copies EXCEPT ![i] = NoCopy]
  /\ changing' = changing \ {i}
  /\ got' = NoAnswer
  /\ UNCHANGED <<setAt, reads, time>>

\* The isolate is discarded, with what it was doing, and another begins.
Recycle(i) ==
  /\ copies' = [copies EXCEPT ![i] = NoCopy]
  /\ reads' = [r \in Readers |->
       IF reads[r] # NoRead /\ reads[r].isolate = i THEN NoRead ELSE reads[r]]
  /\ changing' = changing \ {i}
  /\ got' = NoAnswer
  /\ UNCHANGED <<setAt, time>>

Pass ==
  /\ time < MaxTime
  /\ time' = time + 1
  /\ got' = NoAnswer
  /\ UNCHANGED <<setAt, copies, reads, changing>>

ConfigNext ==
  \/ \E r \in Readers, i \in Isolates : ReadCopy(r, i) \/ BeginRead(r, i)
  \/ \E r \in Readers : FetchConfig(r) \/ StoreConfig(r)
  \/ \E i \in Isolates :
       ChangeConfig(i) \/ ResetNothing(i) \/ InvalidateCopy(i) \/ Recycle(i)
  \/ Pass

ConfigSpec == ConfigInit /\ [][ConfigNext]_configVars

-----------------------------------------------------------------------------
\* Version v was in force at some moment from t on.
InForceSince(v, t) == v \in 1 .. Len(setAt) /\ (v < Len(setAt) => setAt[v + 1] >= t)

\* A caller gets a configuration that was in force while it was reading or less
\* than CacheTTL before: an entry is never counted as younger than the value in
\* it, although a read in flight may store, after a change cleared the copy,
\* the value from before the change (config-cache.ts:29).
ConfigRecent ==
  got # NoAnswer =>
    \/ InForceSince(got.version, got.began)
    \/ InForceSince(got.version, time - CacheTTL + 1)
=============================================================================
