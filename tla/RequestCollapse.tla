--------------------------- MODULE RequestCollapse ---------------------------
(***************************************************************************)
(* RequestCollapser (src/src/request-collapse.ts): concurrent calls of     *)
(* collapseOrCreate that share one upstream call per key.  A call runs     *)
(* without interruption up to its await, so an action here is one stretch  *)
(* of code between two awaits; the calls of different requests resume in   *)
(* any order.  A call starts at most one flight, so a flight is named by   *)
(* the call that leads it.                                                 *)
(*                                                                         *)
(* The actions are written to be conjoined with those of the code that     *)
(* uses a collapser: Lead and Retry are where createFlight() is called,    *)
(* Settle is where its promise settles.                                    *)
(***************************************************************************)
EXTENDS Integers

CONSTANTS
  Calls,     \* calls of collapseOrCreate
  Keys,      \* collapse keys
  NoFlight,
  Grace,     \* graceMs
  MaxClock   \* bound on the clock (model checking only)

ASSUME CollapseAssumption ==
  /\ NoFlight \notin Calls
  /\ Grace \in Nat /\ MaxClock \in Nat

VARIABLES
  calls,     \* what each call is doing, for which key, since when
  flights,   \* the flight each call leads, if it does
  inflight,  \* the collapser's map: key -> flight
  timers,    \* flights whose setTimeout cleanup has not run
  clock      \* Date.now()

vars == <<calls, flights, inflight, timers, clock>>

CallState ==
  [pc     : {"idle", "leading", "following", "returned", "rejected"},
   key    : Keys,
   flight : Calls \cup {NoFlight},   \* the flight whose promise is awaited
   at     : Nat]                     \* when collapseOrCreate was called

\* settledAt has a meaning once the flight is no longer pending.
FlightState ==
  [status    : {"none", "pending", "ok", "failed"},
   key       : Keys,
   startedAt : Nat,
   settledAt : Nat]

Ended == {"returned", "rejected"}

Started(f) == flights[f].status # "none"

Settled(f) == flights[f].status \in {"ok", "failed"}

Init ==
  /\ \E k \in Keys :
       /\ calls = [c \in Calls |->
                     [pc |-> "idle", key |-> k, flight |-> NoFlight, at |-> 0]]
       /\ flights = [c \in Calls |->
                       [status |-> "none", key |-> k, startedAt |-> 0, settledAt |-> 0]]
  /\ inflight = [k \in Keys |-> NoFlight]
  /\ timers = {}
  /\ clock = 0

\* Mutant of Stale: leaves the expiry to the timer.
StaleByTimer(f) == FALSE

\* Mutant of Stale: no grace window.
StaleAtOnce(f) == Settled(f)

\* The grace window is over: checked at lookup, whatever the timers did.
Stale(f) == Settled(f) /\ clock - flights[f].settledAt > Grace

\* The key has an entry, in flight or in its grace window.
Joinable(k) == inflight[k] # NoFlight /\ ~Stale(inflight[k])

\* Starting a flight for key k, led by call c, and entering it in the map.
Start(c, k) ==
  /\ flights' = [flights EXCEPT ![c] = [status    |-> "pending",
                                        key       |-> k,
                                        startedAt |-> clock,
                                        settledAt |-> clock]]
  /\ inflight' = [inflight EXCEPT ![k] = c]

\* No entry, or a stale one (which is deleted): the call becomes the leader.
Lead(c, k) ==
  /\ calls[c].pc = "idle"
  /\ ~Joinable(k)
  /\ Start(c, k)
  /\ calls' = [calls EXCEPT ![c] =
                 [pc |-> "leading", key |-> k, flight |-> c, at |-> clock]]
  /\ UNCHANGED <<timers, clock>>

\* Mutant of Follow: does not check that there is an entry.
FollowBlindly(c, k) ==
  /\ calls[c].pc = "idle"
  /\ inflight[k] = NoFlight \/ Joinable(k)
  /\ calls' = [calls EXCEPT ![c] =
                 [pc |-> "following", key |-> k, flight |-> inflight[k], at |-> clock]]
  /\ UNCHANGED <<flights, inflight, timers, clock>>

\* The call awaits the promise it found.
Follow(c, k) ==
  /\ calls[c].pc = "idle"
  /\ Joinable(k)
  /\ calls' = [calls EXCEPT ![c] =
                 [pc |-> "following", key |-> k, flight |-> inflight[k], at |-> clock]]
  /\ UNCHANGED <<flights, inflight, timers, clock>>

\* The flight's promise settles; its finally callback notes the time and arms
\* the cleanup before any awaiting call resumes.
Settle(f, outcome) ==
  /\ flights[f].status = "pending"
  /\ flights' = [flights EXCEPT ![f].status = outcome, ![f].settledAt = clock]
  /\ timers' = timers \cup {f}
  /\ UNCHANGED <<calls, inflight, clock>>

\* A follower resumes with the leader's result.
Share(c) ==
  /\ calls[c].pc = "following"
  /\ flights[calls[c].flight].status = "ok"
  /\ calls' = [calls EXCEPT ![c].pc = "returned"]
  /\ UNCHANGED <<flights, inflight, timers, clock>>

\* Mutant of Retry: looks the key up again instead of dropping the entry.
RetryFollowing(c) ==
  /\ calls[c].pc = "following"
  /\ flights[calls[c].flight].status = "failed"
  /\ inflight[calls[c].key] # NoFlight
  /\ calls' = [calls EXCEPT ![c].flight = inflight[calls[c].key]]
  /\ UNCHANGED <<flights, inflight, timers, clock>>

\* A follower resumes with the leader's failure: it deletes the key's entry,
\* whichever flight that now holds, and leads a flight of its own.
Retry(c) ==
  /\ calls[c].pc = "following"
  /\ flights[calls[c].flight].status = "failed"
  /\ Start(c, calls[c].key)
  /\ calls' = [calls EXCEPT ![c].pc = "leading", ![c].flight = c]
  /\ UNCHANGED <<timers, clock>>

\* The leader resumes with its own result or failure.
Finish(c) ==
  /\ calls[c].pc = "leading"
  /\ Settled(c)
  /\ calls' = [calls EXCEPT
       ![c].pc = IF flights[c].status = "ok" THEN "returned" ELSE "rejected"]
  /\ UNCHANGED <<flights, inflight, timers, clock>>

\* Mutant of Sweep: does not look whose entry it deletes.
SweepAny(f) ==
  /\ f \in timers
  /\ flights[f].settledAt + Grace <= clock
  /\ timers' = timers \ {f}
  /\ inflight' = [inflight EXCEPT ![flights[f].key] = NoFlight]
  /\ UNCHANGED <<calls, flights, clock>>

\* The setTimeout callback, which may come late or never.
Sweep(f) ==
  /\ f \in timers
  /\ flights[f].settledAt + Grace <= clock
  /\ timers' = timers \ {f}
  /\ inflight' = [k \in Keys |-> IF k = flights[f].key /\ inflight[k] = f
                                   THEN NoFlight ELSE inflight[k]]
  /\ UNCHANGED <<calls, flights, clock>>

Tick ==
  /\ clock < MaxClock
  /\ clock' = clock + 1
  /\ UNCHANGED <<calls, flights, inflight, timers>>

Resume(c) == Share(c) \/ Retry(c) \/ Finish(c)

Next ==
  \/ \E c \in Calls, k \in Keys : Lead(c, k) \/ Follow(c, k)
  \/ \E f \in Calls, outcome \in {"ok", "failed"} : Settle(f, outcome)
  \/ \E c \in Calls : Resume(c)
  \/ \E f \in Calls : Sweep(f)
  \/ Tick

Spec == Init /\ [][Next]_vars

\* Upstream calls end, one way or the other, and settled promises resume the
\* calls that await them.  Nobody has to call, and timers need not fire.
Fairness ==
  /\ \A f \in Calls : WF_vars(\E outcome \in {"ok", "failed"} : Settle(f, outcome))
  /\ \A c \in Calls : WF_vars(Resume(c))

FairSpec == Spec /\ Fairness

-----------------------------------------------------------------------------
\* Type invariant; a call that awaits a promise has a flight to await.
TypeOK ==
  /\ calls \in [Calls -> CallState]
  /\ flights \in [Calls -> FlightState]
  /\ inflight \in [Keys -> Calls \cup {NoFlight}]
  /\ timers \subseteq Calls
  /\ clock \in Nat
  /\ \A c \in Calls :
       calls[c].pc \in {"leading", "following"} => calls[c].flight \in Calls

\* A call ends with what it is owed: a result comes from a successful flight
\* for the same key that was still in flight, or in its grace window, when the
\* call was made; a rejection comes from a flight the call led itself, never
\* from a leader it had been waiting for.
EndsWithItsDue ==
  \A c \in Calls :
    LET f == calls[c].flight IN
    /\ calls[c].pc = "returned" =>
         /\ flights[f].status = "ok"
         /\ flights[f].key = calls[c].key
         /\ calls[c].at <= flights[f].settledAt + Grace
    /\ calls[c].pc = "rejected" => f = c /\ flights[c].status = "failed"

NoFailure(k) ==
  \A f \in Calls : flights[f].key = k => flights[f].status # "failed"

\* Flight g started when f was settled and its grace window over.
After(g, f) == Settled(f) /\ flights[f].settledAt + Grace <= flights[g].startedAt

\* As long as no flight for a key fails, no two flights for it overlap or
\* start within the grace window of one another, whatever the order in which
\* timers fire and calls resume: one upstream call and one token deduction.
OneFlightPerWindow ==
  \A k \in Keys : NoFailure(k) =>
    \A f, g \in Calls :
      /\ f # g /\ Started(f) /\ Started(g)
      /\ flights[f].key = k /\ flights[g].key = k
      => After(f, g) \/ After(g, f)

\* A cleanup removes nothing but a flight whose own grace window is over: a
\* late timer never takes a newer flight out of the map.
EntryKeptForGrace ==
  [][\A k \in Keys :
       inflight[k] # NoFlight /\ inflight'[k] = NoFlight
         => Settled(inflight[k]) /\ flights[inflight[k]].settledAt + Grace <= clock]_vars

\* Every call of collapseOrCreate ends, also when leaders fail in a row.
EveryCallEnds ==
  \A c \in Calls : calls[c].pc # "idle" ~> calls[c].pc \in Ended

\* What the header of src/src/request-collapse.ts says: identical requests
\* in flight share a single upstream call.
SingleFlight ==
  \A f, g \in Calls :
    /\ flights[f].status = "pending" /\ flights[g].status = "pending"
    /\ flights[f].key = flights[g].key
    => f = g
=============================================================================
