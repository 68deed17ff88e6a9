------------------------ MODULE RequestCollapseProofs ------------------------
(***************************************************************************)
(* Proofs about RequestCollapse, for any set of calls and keys, any grace  *)
(* window and an unbounded clock.                                          *)
(***************************************************************************)
EXTENDS RequestCollapse, TLAPS

Pending(f) == flights[f].status = "pending"

\* The map holds flights of the right key, every call has a flight of its key,
\* a flight exists only once its leader leads, and timers are for settled ones.
WellFormed ==
  /\ \A k \in Keys : inflight[k] # NoFlight =>
       Started(inflight[k]) /\ flights[inflight[k]].key = k
  /\ \A c \in Calls :
       /\ calls[c].pc # "idle" =>
            /\ calls[c].flight \in Calls
            /\ Started(calls[c].flight)
            /\ flights[calls[c].flight].key = calls[c].key
       /\ calls[c].pc = "leading" => calls[c].flight = c
       /\ Started(c) => calls[c].pc \notin {"idle", "following"}
  /\ \A f \in timers : Settled(f)

\* Nothing lies in the future.
InOrder ==
  /\ \A f \in Calls : /\ flights[f].startedAt <= clock
                      /\ flights[f].settledAt <= clock
  /\ \A c \in Calls : calls[c].at <= clock

\* A flight that some call waits for is in flight or was not stale when the
\* call was made.
Awaited ==
  \A c \in Calls : calls[c].pc \in {"leading", "following"} =>
    LET f == calls[c].flight IN
    Pending(f) \/ calls[c].at <= flights[f].settledAt + Grace

\* Unless a flight of the key fails, the flight in the map is the last one,
\* and a key without an entry may start another.
MapHoldsLatest ==
  \A k \in Keys : NoFailure(k) =>
    \A f \in Calls :
      Started(f) /\ flights[f].key = k /\ inflight[k] # f =>
        /\ Settled(f)
        /\ flights[f].settledAt + Grace <= clock
        /\ inflight[k] # NoFlight => After(inflight[k], f)

IInv ==
  /\ TypeOK
  /\ WellFormed
  /\ InOrder
  /\ Awaited
  /\ EndsWithItsDue
  /\ MapHoldsLatest
  /\ OneFlightPerWindow

-----------------------------------------------------------------------------
LEMMA Initially == Init => IInv
<1> SUFFICES ASSUME Init PROVE IInv
  OBVIOUS
<1> PICK k0 \in Keys :
      /\ calls = [c \in Calls |->
                    [pc |-> "idle", key |-> k0, flight |-> NoFlight, at |-> 0]]
      /\ flights = [c \in Calls |->
                      [status |-> "none", key |-> k0, startedAt |-> 0, settledAt |-> 0]]
  BY DEF Init
<1>1. /\ inflight = [k \in Keys |-> NoFlight] /\ timers = {} /\ clock = 0
  BY DEF Init
<1>2. \A c \in Calls : ~Started(c)
  BY DEF Started
<1>3. TypeOK
  BY <1>1 DEF TypeOK, CallState, FlightState
<1>4. WellFormed /\ InOrder /\ Awaited /\ EndsWithItsDue
  BY <1>1, <1>2 DEF WellFormed, InOrder, Awaited, EndsWithItsDue
<1>5. MapHoldsLatest /\ OneFlightPerWindow
  BY <1>2 DEF MapHoldsLatest, OneFlightPerWindow
<1>6. QED
  BY <1>3, <1>4, <1>5 DEF IInv

-----------------------------------------------------------------------------
(***************************************************************************)
(* Starting a flight, for a new call or for a follower whose leader failed.*)
(***************************************************************************)

\* What changes when c, which led no flight, starts one for k.
LEMMA StartFacts ==
  ASSUME TypeOK, NEW c \in Calls, NEW k \in Keys, ~Started(c), Start(c, k)
  PROVE  /\ flights' \in [Calls -> FlightState]
         /\ inflight' \in [Keys -> Calls \cup {NoFlight}]
         /\ inflight'[k] = c
         /\ \A j \in Keys : j # k => inflight'[j] = inflight[j]
         /\ flights'[c] = [status |-> "pending", key |-> k,
                           startedAt |-> clock, settledAt |-> clock]
         /\ \A f \in Calls : f # c => flights'[f] = flights[f]
         /\ \A f \in Calls : Started(f) => f # c /\ flights'[f] = flights[f]
BY DEF TypeOK, Start, FlightState, Started

-----------------------------------------------------------------------------
(***************************************************************************)
(* Types and form: all that remains of the invariant when the collapser is *)
(* part of an object that restarts, so every step keeps them by itself.    *)
(***************************************************************************)
LEMMA FormKept ==
  ASSUME TypeOK, WellFormed, [Next]_vars
  PROVE  TypeOK' /\ WellFormed'
<1>1. ASSUME NEW c \in Calls, NEW k \in Keys, ~Started(c), Start(c, k),
             calls' \in [Calls -> CallState],
             calls'[c].pc = "leading", calls'[c].flight = c, calls'[c].key = k,
             \A d \in Calls : d # c => calls'[d] = calls[d],
             UNCHANGED <<timers, clock>>
      PROVE  TypeOK' /\ WellFormed'
  <2>1. /\ flights' \in [Calls -> FlightState]
        /\ inflight' \in [Keys -> Calls \cup {NoFlight}]
        /\ inflight'[k] = c
        /\ \A j \in Keys : j # k => inflight'[j] = inflight[j]
        /\ flights'[c] = [status |-> "pending", key |-> k,
                          startedAt |-> clock, settledAt |-> clock]
        /\ \A f \in Calls : f # c => flights'[f] = flights[f]
        /\ \A f \in Calls : Started(f) => f # c /\ flights'[f] = flights[f]
    BY <1>1, StartFacts
  <2>2. TypeOK'
    BY <1>1, <2>1 DEF TypeOK
  <2>3. WellFormed'
    BY <1>1, <2>1 DEF WellFormed, Started, Settled, TypeOK
  <2>4. QED
    BY <2>2, <2>3
<1>2. ASSUME NEW c \in Calls, NEW k \in Keys, Lead(c, k)
      PROVE  TypeOK' /\ WellFormed'
  <2>1. ~Started(c) /\ Start(c, k) /\ UNCHANGED <<timers, clock>>
    BY <1>2 DEF Lead, WellFormed
  <2>2. /\ calls' \in [Calls -> CallState]
        /\ calls'[c] = [pc |-> "leading", key |-> k, flight |-> c, at |-> clock]
        /\ \A d \in Calls : d # c => calls'[d] = calls[d]
    BY <1>2 DEF Lead, TypeOK, CallState
  <2>3. QED
    BY <1>1, <2>1, <2>2
<1>3. ASSUME NEW c \in Calls, Retry(c)
      PROVE  TypeOK' /\ WellFormed'
  <2>1. /\ ~Started(c) /\ Start(c, calls[c].key) /\ calls[c].key \in Keys
        /\ UNCHANGED <<timers, clock>>
    BY <1>3 DEF Retry, WellFormed, TypeOK, CallState
  <2>2. /\ calls' \in [Calls -> CallState]
        /\ calls'[c].pc = "leading" /\ calls'[c].flight = c
        /\ calls'[c].key = calls[c].key
        /\ \A d \in Calls : d # c => calls'[d] = calls[d]
    BY <1>3 DEF Retry, TypeOK, CallState
  <2>3. QED
    BY <1>1, <2>1, <2>2
<1>4. ASSUME NEW c \in Calls, NEW k \in Keys, Follow(c, k)
      PROVE  TypeOK' /\ WellFormed'
  <2> DEFINE f == inflight[k]
  <2>1. /\ f \in Calls /\ Started(f) /\ flights[f].key = k
        /\ calls[c].pc = "idle" /\ UNCHANGED <<flights, inflight, timers, clock>>
    BY <1>4 DEF Follow, Joinable, TypeOK, WellFormed
  <2>2. /\ calls' \in [Calls -> CallState]
        /\ calls'[c] = [pc |-> "following", key |-> k, flight |-> f, at |-> clock]
        /\ \A d \in Calls : d # c => calls'[d] = calls[d]
    BY <1>4, <2>1 DEF Follow, TypeOK, CallState
  <2> HIDE DEF f
  <2>3. TypeOK'
    BY <2>1, <2>2 DEF TypeOK
  <2>4. WellFormed'
    BY <2>1, <2>2 DEF WellFormed, Started, Settled, TypeOK
  <2>5. QED
    BY <2>3, <2>4
<1>5. ASSUME NEW f \in Calls, NEW outcome \in {"ok", "failed"}, Settle(f, outcome)
      PROVE  TypeOK' /\ WellFormed'
  <2>1. /\ flights[f].status = "pending" /\ timers' = timers \cup {f}
        /\ UNCHANGED <<calls, inflight, clock>>
    BY <1>5 DEF Settle
  <2>2. /\ flights' \in [Calls -> FlightState]
        /\ flights'[f].status = outcome /\ flights'[f].key = flights[f].key
        /\ \A g \in Calls : g # f => flights'[g] = flights[g]
    BY <1>5 DEF Settle, TypeOK, FlightState
  <2>3. /\ \A g \in Calls : /\ Started(g)' <=> Started(g)
                            /\ Settled(g) => Settled(g)'
                            /\ flights'[g].key = flights[g].key
        /\ Settled(f)'
    BY <2>1, <2>2 DEF Started, Settled
  <2>4. TypeOK'
    BY <2>1, <2>2 DEF TypeOK
  <2>5. WellFormed'
    BY <2>1, <2>3 DEF WellFormed, TypeOK
  <2>6. QED
    BY <2>4, <2>5
<1>6. ASSUME NEW c \in Calls, Share(c) \/ Finish(c)
      PROVE  TypeOK' /\ WellFormed'
  <2>1. /\ UNCHANGED <<flights, inflight, timers, clock>>
        /\ calls[c].pc \in {"leading", "following"}
        /\ \E pc \in {"returned", "rejected"} : calls' = [calls EXCEPT ![c].pc = pc]
    BY <1>6 DEF Share, Finish
  <2>2. /\ calls' \in [Calls -> CallState]
        /\ calls'[c].pc \in Ended
        /\ calls'[c].flight = calls[c].flight /\ calls'[c].key = calls[c].key
        /\ \A d \in Calls : d # c => calls'[d] = calls[d]
    BY <2>1 DEF TypeOK, CallState, Ended
  <2>3. TypeOK'
    BY <2>1, <2>2 DEF TypeOK, Ended
  <2>4. WellFormed'
    BY <2>1, <2>2 DEF WellFormed, Started, Settled, Ended
  <2>5. QED
    BY <2>3, <2>4
<1>7. ASSUME NEW f \in Calls, Sweep(f)
      PROVE  TypeOK' /\ WellFormed'
  <2>1. /\ timers' \subseteq timers /\ UNCHANGED <<calls, flights, clock>>
        /\ inflight' = [k \in Keys |-> IF k = flights[f].key /\ inflight[k] = f
                                         THEN NoFlight ELSE inflight[k]]
    BY <1>7 DEF Sweep
  <2>2. TypeOK'
    BY <2>1 DEF TypeOK
  <2>3. WellFormed'
    BY <2>1 DEF WellFormed, Started, Settled
  <2>4. QED
    BY <2>2, <2>3
<1>8. CASE Tick
  BY <1>8 DEF Tick, TypeOK, WellFormed, Started, Settled
<1>9. CASE UNCHANGED vars
  BY <1>9 DEF vars, TypeOK, WellFormed, Started, Settled
<1>10. QED
  BY <1>2, <1>3, <1>4, <1>5, <1>6, <1>7, <1>8, <1>9 DEF Next, Resume

-----------------------------------------------------------------------------

\* A flight of k starts: MapHoldsLatest and OneFlightPerWindow.
LEMMA StartKeepsApart ==
  ASSUME IInv, NEW c \in Calls, NEW k \in Keys, ~Started(c), Start(c, k),
         clock' = clock,
         NoFailure(k) => ~Joinable(k)
  PROVE  MapHoldsLatest' /\ OneFlightPerWindow'
<1>1. /\ TypeOK /\ WellFormed /\ InOrder /\ MapHoldsLatest /\ OneFlightPerWindow
  BY DEF IInv
<1>2. /\ inflight'[k] = c
      /\ \A j \in Keys : j # k => inflight'[j] = inflight[j]
      /\ flights'[c] = [status |-> "pending", key |-> k,
                        startedAt |-> clock, settledAt |-> clock]
      /\ \A f \in Calls : f # c => flights'[f] = flights[f]
  BY <1>1, StartFacts
<1>3. \A f \in Calls : f # c => /\ Started(f)' <=> Started(f)
                                /\ Settled(f)' <=> Settled(f)
  BY <1>2 DEF Started, Settled
<1>4. \A j \in Keys : NoFailure(j)' => NoFailure(j)
  BY <1>2 DEF NoFailure, Started
<1>5. ASSUME NoFailure(k), NEW f \in Calls, f # c, Started(f), flights[f].key = k
      PROVE  Settled(f) /\ flights[f].settledAt + Grace <= clock
  <2>1. CASE inflight[k] = f
    <3>1. Stale(f)
      BY <1>5, <2>1, CollapseAssumption DEF Joinable
    <3>2. flights[f].settledAt \in Nat /\ clock \in Nat
      BY <1>1 DEF TypeOK, FlightState
    <3>3. QED
      BY <3>1, <3>2, CollapseAssumption DEF Stale
  <2>2. CASE inflight[k] # f
    BY <1>1, <1>5, <2>2 DEF MapHoldsLatest
  <2>3. QED
    BY <2>1, <2>2
<1>6. ASSUME NoFailure(k), NEW f \in Calls, f # c, Started(f), flights[f].key = k
      PROVE  After(c, f)'
  BY <1>2, <1>3, <1>5, <1>6 DEF After
<1>7. MapHoldsLatest'
  <2> SUFFICES ASSUME NEW j \in Keys, NoFailure(j)',
                      NEW f \in Calls, Started(f)', flights'[f].key = j,
                      inflight'[j] # f
               PROVE  /\ Settled(f)'
                      /\ flights'[f].settledAt + Grace <= clock'
                      /\ inflight'[j] # NoFlight => After(inflight[j], f)'
    BY DEF MapHoldsLatest
  <2>1. f # c
    BY <1>2
  <2>2. Started(f) /\ flights[f].key = j /\ NoFailure(j) /\ flights'[f] = flights[f]
    BY <1>2, <1>3, <1>4, <2>1
  <2>3. CASE j = k
    BY <1>2, <1>3, <1>5, <1>6, <2>1, <2>2, <2>3
  <2>4. CASE j # k
    <3>1. inflight'[j] = inflight[j]
      BY <1>2, <2>4
    <3>2. /\ Settled(f) /\ flights[f].settledAt + Grace <= clock
          /\ inflight[j] # NoFlight => After(inflight[j], f)
      BY <1>1, <2>2, <3>1 DEF MapHoldsLatest
    <3>3. ASSUME inflight[j] # NoFlight
          PROVE  flights'[inflight[j]] = flights[inflight[j]]
      BY <1>1, <1>2, <3>3 DEF WellFormed, TypeOK
    <3>4. QED
      BY <1>3, <2>1, <2>2, <3>1, <3>2, <3>3 DEF After
  <2>5. QED
    BY <2>3, <2>4
<1>8. OneFlightPerWindow'
  <2> SUFFICES ASSUME NEW j \in Keys, NoFailure(j)',
                      NEW f \in Calls, NEW g \in Calls, f # g,
                      Started(f)', Started(g)',
                      flights'[f].key = j, flights'[g].key = j
               PROVE  After(f, g)' \/ After(g, f)'
    BY DEF OneFlightPerWindow
  <2>1. CASE f = c
    BY <1>2, <1>3, <1>4, <1>6, <2>1
  <2>2. CASE g = c
    BY <1>2, <1>3, <1>4, <1>6, <2>2
  <2>3. CASE f # c /\ g # c
    <3>1. After(f, g) \/ After(g, f)
      BY <1>1, <1>2, <1>3, <1>4, <2>3 DEF OneFlightPerWindow
    <3>2. QED
      BY <1>2, <1>3, <2>3, <3>1 DEF After
  <2>4. QED
    BY <2>1, <2>2, <2>3
<1>9. QED
  BY <1>7, <1>8
LEMMA LeadKeeps ==
  ASSUME IInv, NEW c \in Calls, NEW k \in Keys, Lead(c, k)
  PROVE  IInv'
<1>1. /\ TypeOK /\ WellFormed /\ InOrder /\ Awaited /\ EndsWithItsDue
  BY DEF IInv
<1>2. /\ calls[c].pc = "idle" /\ ~Started(c) /\ ~Joinable(k) /\ Start(c, k)
      /\ UNCHANGED <<timers, clock>>
  BY <1>1 DEF Lead, WellFormed
<1>3. /\ flights' \in [Calls -> FlightState]
      /\ inflight' \in [Keys -> Calls \cup {NoFlight}]
      /\ inflight'[k] = c
      /\ \A j \in Keys : j # k => inflight'[j] = inflight[j]
      /\ flights'[c] = [status |-> "pending", key |-> k,
                        startedAt |-> clock, settledAt |-> clock]
      /\ \A f \in Calls : f # c => flights'[f] = flights[f]
      /\ \A f \in Calls : Started(f) => f # c /\ flights'[f] = flights[f]
  BY <1>1, <1>2, StartFacts
<1>4. /\ calls' \in [Calls -> CallState]
      /\ calls'[c] = [pc |-> "leading", key |-> k, flight |-> c, at |-> clock]
      /\ \A d \in Calls : d # c => calls'[d] = calls[d]
  BY <1>1 DEF Lead, TypeOK, CallState
<1>5. TypeOK' /\ WellFormed'
  BY <1>1, FormKept DEF Next
<1>6. InOrder'
  BY <1>1, <1>2, <1>3, <1>4 DEF InOrder, TypeOK
<1>7. Awaited'
  BY <1>1, <1>2, <1>3, <1>4 DEF Awaited, WellFormed, TypeOK, Pending
<1>8. EndsWithItsDue'
  BY <1>1, <1>2, <1>3, <1>4 DEF EndsWithItsDue, WellFormed
<1>9. MapHoldsLatest' /\ OneFlightPerWindow'
  BY <1>2, StartKeepsApart
<1>10. QED
  BY <1>5, <1>6, <1>7, <1>8, <1>9 DEF IInv

LEMMA RetryKeeps ==
  ASSUME IInv, NEW c \in Calls, Retry(c)
  PROVE  IInv'
<1> DEFINE k == calls[c].key
<1>1. /\ TypeOK /\ WellFormed /\ InOrder /\ Awaited /\ EndsWithItsDue
  BY DEF IInv
<1>2. /\ calls[c].pc = "following" /\ flights[calls[c].flight].status = "failed"
      /\ ~Started(c) /\ Start(c, k) /\ k \in Keys
      /\ UNCHANGED <<timers, clock>>
  BY <1>1 DEF Retry, WellFormed, TypeOK, CallState
<1>3. ~NoFailure(k)
  BY <1>1, <1>2 DEF NoFailure, WellFormed, TypeOK
<1>4. /\ calls' \in [Calls -> CallState]
      /\ calls'[c].pc = "leading" /\ calls'[c].flight = c /\ calls'[c].key = k
      /\ calls'[c].at = calls[c].at
      /\ \A d \in Calls : d # c => calls'[d] = calls[d]
  BY <1>1 DEF Retry, TypeOK, CallState
<1> HIDE DEF k
<1>5. /\ flights' \in [Calls -> FlightState]
      /\ inflight' \in [Keys -> Calls \cup {NoFlight}]
      /\ inflight'[k] = c
      /\ \A j \in Keys : j # k => inflight'[j] = inflight[j]
      /\ flights'[c] = [status |-> "pending", key |-> k,
                        startedAt |-> clock, settledAt |-> clock]
      /\ \A f \in Calls : f # c => flights'[f] = flights[f]
      /\ \A f \in Calls : Started(f) => f # c /\ flights'[f] = flights[f]
  BY <1>1, <1>2, StartFacts
<1>6. TypeOK' /\ WellFormed'
  BY <1>1, FormKept DEF Next, Resume
<1>7. InOrder'
  BY <1>1, <1>2, <1>4, <1>5 DEF InOrder, TypeOK
<1>8. Awaited'
  BY <1>1, <1>2, <1>4, <1>5 DEF Awaited, WellFormed, TypeOK, Pending
<1>9. EndsWithItsDue'
  BY <1>1, <1>2, <1>4, <1>5 DEF EndsWithItsDue, WellFormed
<1>10. MapHoldsLatest' /\ OneFlightPerWindow'
  BY <1>2, <1>3, StartKeepsApart
<1>11. QED
  BY <1>6, <1>7, <1>8, <1>9, <1>10 DEF IInv

-----------------------------------------------------------------------------
(***************************************************************************)
(* The other steps.                                                        *)
(***************************************************************************)
LEMMA FollowKeeps ==
  ASSUME IInv, NEW c \in Calls, NEW k \in Keys, Follow(c, k)
  PROVE  IInv'
<1> DEFINE f == inflight[k]
<1>1. /\ TypeOK /\ WellFormed /\ InOrder /\ Awaited /\ EndsWithItsDue
      /\ MapHoldsLatest /\ OneFlightPerWindow
  BY DEF IInv
<1>2. /\ calls[c].pc = "idle" /\ Joinable(k)
      /\ UNCHANGED <<flights, inflight, timers, clock>>
  BY DEF Follow
<1>3. f \in Calls /\ Started(f) /\ flights[f].key = k /\ ~Stale(f)
  BY <1>1, <1>2 DEF Joinable, TypeOK, WellFormed
<1>4. /\ calls' \in [Calls -> CallState]
      /\ calls'[c] = [pc |-> "following", key |-> k, flight |-> f, at |-> clock]
      /\ \A d \in Calls : d # c => calls'[d] = calls[d]
  BY <1>1, <1>3 DEF Follow, TypeOK, CallState
<1> HIDE DEF f
<1>5. TypeOK' /\ WellFormed'
  BY <1>1, FormKept DEF Next
<1>6. InOrder'
  BY <1>1, <1>2, <1>4 DEF InOrder, TypeOK
<1>7. Awaited'
  <2>1. flights[f].status \in {"pending", "ok", "failed"}
    BY <1>1, <1>3 DEF Started, TypeOK, FlightState
  <2>2. Pending(f) \/ clock <= flights[f].settledAt + Grace
    BY <1>1, <1>3, <2>1, CollapseAssumption
       DEF Stale, Settled, Pending, TypeOK, FlightState
  <2>3. QED
    BY <1>1, <1>2, <1>4, <2>2 DEF Awaited, Pending
<1>8. EndsWithItsDue'
  BY <1>1, <1>2, <1>4 DEF EndsWithItsDue
<1>9. MapHoldsLatest' /\ OneFlightPerWindow'
  BY <1>1, <1>2 DEF MapHoldsLatest, OneFlightPerWindow, NoFailure, Started,
                    Settled, After
<1>10. QED
  BY <1>5, <1>6, <1>7, <1>8, <1>9 DEF IInv

LEMMA SettleKeeps ==
  ASSUME IInv, NEW f \in Calls, NEW outcome \in {"ok", "failed"}, Settle(f, outcome)
  PROVE  IInv'
<1>1. /\ TypeOK /\ WellFormed /\ InOrder /\ Awaited /\ EndsWithItsDue
      /\ MapHoldsLatest /\ OneFlightPerWindow
  BY DEF IInv
<1>2. /\ flights[f].status = "pending" /\ timers' = timers \cup {f}
      /\ UNCHANGED <<calls, inflight, clock>>
  BY DEF Settle
<1>3. /\ flights' \in [Calls -> FlightState]
      /\ flights'[f].status = outcome /\ flights'[f].settledAt = clock
      /\ flights'[f].key = flights[f].key
      /\ flights'[f].startedAt = flights[f].startedAt
      /\ \A g \in Calls : g # f => flights'[g] = flights[g]
  BY <1>1 DEF Settle, TypeOK, FlightState
<1>4. \A g \in Calls : /\ Started(g)' <=> Started(g)
                       /\ Settled(g) => Settled(g)'
                       /\ Settled(g) => g # f
                       /\ flights'[g].key = flights[g].key
  BY <1>2, <1>3 DEF Started, Settled
<1>5. TypeOK' /\ WellFormed'
  BY <1>1, FormKept DEF Next
<1>6. InOrder'
  BY <1>1, <1>2, <1>3 DEF InOrder, TypeOK
<1>7. Awaited'
  <2> SUFFICES ASSUME NEW c \in Calls, calls[c].pc \in {"leading", "following"}
               PROVE  LET g == calls[c].flight IN
                      Pending(g)' \/ calls[c].at <= flights'[g].settledAt + Grace
    BY <1>2 DEF Awaited
  <2>1. CASE calls[c].flight = f
    BY <1>1, <1>3, <2>1, CollapseAssumption DEF InOrder, TypeOK, CallState
  <2>2. CASE calls[c].flight # f
    <3>1. calls[c].flight \in Calls
      BY <1>1 DEF TypeOK
    <3>2. flights'[calls[c].flight] = flights[calls[c].flight]
      BY <1>3, <2>2, <3>1
    <3>3. QED
      BY <1>1, <1>2, <3>2 DEF Awaited, Pending
  <2>3. QED
    BY <2>1, <2>2
<1>8. EndsWithItsDue'
  <2> SUFFICES ASSUME NEW c \in Calls
               PROVE  LET g == calls[c].flight IN
                      /\ calls[c].pc = "returned" =>
                           /\ flights'[g].status = "ok"
                           /\ flights'[g].key = calls[c].key
                           /\ calls[c].at <= flights'[g].settledAt + Grace
                      /\ calls[c].pc = "rejected" => g = c /\ flights'[c].status = "failed"
    BY <1>2 DEF EndsWithItsDue
  <2>1. CASE calls[c].pc \notin Ended
    BY <2>1 DEF Ended
  <2>2. CASE calls[c].pc \in Ended
    <3>1. calls[c].flight \in Calls /\ flights[calls[c].flight].status # "pending"
      BY <1>1, <2>2 DEF Ended, WellFormed, EndsWithItsDue
    <3>2. flights'[calls[c].flight] = flights[calls[c].flight]
      BY <1>2, <1>3, <3>1
    <3>3. QED
      BY <1>1, <3>2 DEF EndsWithItsDue
  <2>3. QED
    BY <2>1, <2>2
<1>9. MapHoldsLatest'
  <2> SUFFICES ASSUME NEW k \in Keys, NoFailure(k)',
                      NEW g \in Calls, Started(g)', flights'[g].key = k,
                      inflight[k] # g
               PROVE  /\ Settled(g)'
                      /\ flights'[g].settledAt + Grace <= clock
                      /\ inflight[k] # NoFlight => After(inflight[k], g)'
    BY <1>2 DEF MapHoldsLatest
  <2>1. NoFailure(k)
    BY <1>2, <1>3, <1>4 DEF NoFailure
  <2>2. /\ Settled(g)
        /\ flights[g].settledAt + Grace <= clock
        /\ inflight[k] # NoFlight => After(inflight[k], g)
    BY <1>1, <1>4, <2>1 DEF MapHoldsLatest
  <2>3. g # f /\ flights'[g] = flights[g] /\ Settled(g)'
    BY <1>3, <1>4, <2>2
  <2>4. inflight[k] # NoFlight =>
          flights'[inflight[k]].startedAt = flights[inflight[k]].startedAt
    BY <1>1, <1>3 DEF TypeOK
  <2>5. QED
    BY <1>2, <2>2, <2>3, <2>4 DEF After
<1>10. OneFlightPerWindow'
  <2> SUFFICES ASSUME NEW k \in Keys, NoFailure(k)',
                      NEW g \in Calls, NEW h \in Calls, g # h,
                      Started(g)', Started(h)',
                      flights'[g].key = k, flights'[h].key = k
               PROVE  After(g, h)' \/ After(h, g)'
    BY DEF OneFlightPerWindow
  <2>1. NoFailure(k)
    BY <1>2, <1>3, <1>4 DEF NoFailure
  <2>2. After(g, h) \/ After(h, g)
    BY <1>1, <1>4, <2>1 DEF OneFlightPerWindow
  <2>3. \A x \in Calls : flights'[x].startedAt = flights[x].startedAt
    BY <1>3
  <2>4. \A x \in Calls : Settled(x) => flights'[x] = flights[x] /\ Settled(x)'
    BY <1>3, <1>4
  <2>5. QED
    BY <2>2, <2>3, <2>4 DEF After
<1>11. QED
  BY <1>5, <1>6, <1>7, <1>8, <1>9, <1>10 DEF IInv

LEMMA EndKeeps ==
  ASSUME IInv, NEW c \in Calls, Share(c) \/ Finish(c)
  PROVE  IInv'
<1> DEFINE f == calls[c].flight
<1>1. /\ TypeOK /\ WellFormed /\ InOrder /\ Awaited /\ EndsWithItsDue
      /\ MapHoldsLatest /\ OneFlightPerWindow
  BY DEF IInv
<1>2. UNCHANGED <<flights, inflight, timers, clock>>
  BY DEF Share, Finish
<1>3. /\ calls[c].pc \in {"leading", "following"} /\ f \in Calls
      /\ flights[f].key = calls[c].key
  BY <1>1 DEF Share, Finish, WellFormed, TypeOK
<1>4. \/ calls' = [calls EXCEPT ![c].pc = "returned"] /\ flights[f].status = "ok"
      \/ /\ calls' = [calls EXCEPT ![c].pc = "rejected"]
         /\ f = c /\ flights[c].status = "failed"
  BY <1>1 DEF Share, Finish, Settled, WellFormed
<1>5. /\ calls' \in [Calls -> CallState]
      /\ calls'[c].pc \in Ended /\ calls'[c].flight = f
      /\ calls'[c].key = calls[c].key /\ calls'[c].at = calls[c].at
      /\ \A d \in Calls : d # c => calls'[d] = calls[d]
      /\ \/ calls'[c].pc = "returned" /\ flights[f].status = "ok"
         \/ calls'[c].pc = "rejected" /\ f = c /\ flights[c].status = "failed"
  <2> HIDE DEF f
  <2>1. calls \in [Calls -> CallState]
    BY <1>1 DEF TypeOK
  <2>2. QED
    BY <1>4, <2>1 DEF CallState, Ended, f
<1>6. TypeOK' /\ WellFormed'
  BY <1>1, FormKept DEF Next, Resume
<1>7. InOrder'
  BY <1>1, <1>2, <1>5 DEF InOrder
<1>8. Awaited'
  BY <1>1, <1>2, <1>5 DEF Awaited, Pending, Ended
<1>9. EndsWithItsDue'
  <2>1. Pending(f) \/ calls[c].at <= flights[f].settledAt + Grace
    BY <1>1, <1>3 DEF Awaited
  <2> HIDE DEF f
  <2>2. QED
    BY <1>1, <1>2, <1>3, <1>5, <2>1 DEF EndsWithItsDue, Pending
<1>10. MapHoldsLatest' /\ OneFlightPerWindow'
  BY <1>1, <1>2 DEF MapHoldsLatest, OneFlightPerWindow, NoFailure, Started,
                    Settled, After
<1>11. QED
  BY <1>6, <1>7, <1>8, <1>9, <1>10 DEF IInv

LEMMA SweepKeeps ==
  ASSUME IInv, NEW f \in Calls, Sweep(f)
  PROVE  IInv'
<1>1. /\ TypeOK /\ WellFormed /\ InOrder /\ Awaited /\ EndsWithItsDue
      /\ MapHoldsLatest /\ OneFlightPerWindow
  BY DEF IInv
<1>2. /\ f \in timers /\ flights[f].settledAt + Grace <= clock
      /\ timers' \subseteq timers
      /\ UNCHANGED <<calls, flights, clock>>
      /\ inflight' = [k \in Keys |-> IF k = flights[f].key /\ inflight[k] = f
                                       THEN NoFlight ELSE inflight[k]]
  BY DEF Sweep
<1>3. /\ f \in Calls /\ Settled(f)
      /\ \A k \in Keys : \/ inflight'[k] = inflight[k]
                         \/ inflight'[k] = NoFlight /\ inflight[k] = f
  BY <1>1, <1>2 DEF WellFormed, TypeOK
<1>4. TypeOK'
  BY <1>1, <1>2 DEF TypeOK
<1>5. WellFormed' /\ InOrder' /\ Awaited' /\ EndsWithItsDue'
  BY <1>1, <1>2, <1>3 DEF WellFormed, Started, Settled, InOrder, Awaited,
                          Pending, EndsWithItsDue
<1>6. OneFlightPerWindow'
  BY <1>1, <1>2 DEF OneFlightPerWindow, NoFailure, Started, Settled, After
<1>7. MapHoldsLatest'
  <2> SUFFICES ASSUME NEW k \in Keys, NoFailure(k),
                      NEW g \in Calls, Started(g), flights[g].key = k,
                      inflight'[k] # g
               PROVE  /\ Settled(g)
                      /\ flights[g].settledAt + Grace <= clock
                      /\ inflight'[k] # NoFlight => After(inflight'[k], g)
    BY <1>2 DEF MapHoldsLatest, NoFailure, Started, Settled, After
  <2>1. CASE inflight[k] = g
    BY <1>2, <1>3, <2>1
  <2>2. CASE inflight[k] # g
    BY <1>1, <1>3, <2>2 DEF MapHoldsLatest
  <2>3. QED
    BY <2>1, <2>2
<1>8. QED
  BY <1>4, <1>5, <1>6, <1>7 DEF IInv
LEMMA TickKeeps ==
  ASSUME IInv, Tick
  PROVE  IInv'
<1>1. clock \in Nat /\ clock' = clock + 1 /\ UNCHANGED <<calls, flights, inflight, timers>>
  BY DEF IInv, TypeOK, Tick
<1>2. TypeOK' /\ WellFormed' /\ Awaited' /\ EndsWithItsDue' /\ OneFlightPerWindow'
  BY <1>1 DEF IInv, TypeOK, WellFormed, Started, Settled, Awaited, Pending,
              EndsWithItsDue, OneFlightPerWindow, NoFailure, After
<1>3. /\ \A f \in Calls : flights[f].startedAt \in Nat /\ flights[f].settledAt \in Nat
      /\ \A c \in Calls : calls[c].at \in Nat
  BY DEF IInv, TypeOK, FlightState, CallState
<1>4. InOrder'
  BY <1>1, <1>3 DEF IInv, InOrder
<1>5. MapHoldsLatest'
  <2> SUFFICES ASSUME NEW k \in Keys, NoFailure(k),
                      NEW f \in Calls, Started(f), flights[f].key = k,
                      inflight[k] # f
               PROVE  /\ Settled(f)
                      /\ flights[f].settledAt + Grace <= clock + 1
                      /\ inflight[k] # NoFlight => After(inflight[k], f)
    BY <1>1 DEF MapHoldsLatest, NoFailure, Started, Settled, After
  <2>1. /\ Settled(f)
        /\ flights[f].settledAt + Grace <= clock
        /\ inflight[k] # NoFlight => After(inflight[k], f)
    BY DEF IInv, MapHoldsLatest
  <2>2. QED
    BY <1>1, <1>3, <2>1, CollapseAssumption
<1>6. QED
  BY <1>2, <1>4, <1>5 DEF IInv

LEMMA Invariance == Spec => []IInv
<1>1. IInv /\ [Next]_vars => IInv'
  <2> SUFFICES ASSUME IInv, [Next]_vars PROVE IInv'
    OBVIOUS
  <2>1. CASE \E c \in Calls, k \in Keys : Lead(c, k) \/ Follow(c, k)
    BY <2>1, LeadKeeps, FollowKeeps
  <2>2. CASE \E f \in Calls, outcome \in {"ok", "failed"} : Settle(f, outcome)
    BY <2>2, SettleKeeps
  <2>3. CASE \E c \in Calls : Resume(c)
    BY <2>3, EndKeeps, RetryKeeps DEF Resume
  <2>4. CASE \E f \in Calls : Sweep(f)
    BY <2>4, SweepKeeps
  <2>5. CASE Tick
    BY <2>5, TickKeeps
  <2>6. CASE UNCHANGED vars
    BY <2>6 DEF vars, IInv, TypeOK, WellFormed, Started, Settled, InOrder, Awaited,
                Pending, EndsWithItsDue, MapHoldsLatest, OneFlightPerWindow,
                NoFailure, After
  <2>7. QED
    BY <2>1, <2>2, <2>3, <2>4, <2>5, <2>6 DEF Next
<1>2. QED
  BY <1>1, Initially, PTL DEF Spec

-----------------------------------------------------------------------------
(***************************************************************************)
(* The theorems.                                                           *)
(***************************************************************************)

\* The collapser's bookkeeping stays well typed.
THEOREM CollapseType == Spec => []TypeOK
<1>1. IInv => TypeOK
  BY DEF IInv
<1>2. QED
  BY <1>1, Invariance, PTL

\* collapseOrCreate answers with a result that is the caller's own key's and
\* no staler than the grace window, and never with a leader's failure.
THEOREM CallsEndWithTheirDue == Spec => []EndsWithItsDue
<1>1. IInv => EndsWithItsDue
  BY DEF IInv
<1>2. QED
  BY <1>1, Invariance, PTL

\* Without failures there is one upstream call per key and grace window.
THEOREM FlightsDoNotOverlap == Spec => []OneFlightPerWindow
<1>1. IInv => OneFlightPerWindow
  BY DEF IInv
<1>2. QED
  BY <1>1, Invariance, PTL

\* The setTimeout cleanup never shortens the life of another flight's entry.
THEOREM CleanupIsHarmless == Spec => EntryKeptForGrace
<1> DEFINE Kept == \A k \in Keys :
             inflight[k] # NoFlight /\ inflight'[k] = NoFlight
               => Settled(inflight[k]) /\ flights[inflight[k]].settledAt + Grace <= clock
<1>1. IInv /\ [Next]_vars => [Kept]_vars
  <2> SUFFICES ASSUME IInv, Next,
                      NEW k \in Keys, inflight[k] # NoFlight, inflight'[k] = NoFlight
               PROVE  /\ Settled(inflight[k])
                      /\ flights[inflight[k]].settledAt + Grace <= clock
    OBVIOUS
  <2>1. inflight \in [Keys -> Calls \cup {NoFlight}]
    BY DEF IInv, TypeOK
  <2>2. ASSUME NEW c \in Calls, NEW j, Start(c, j)
        PROVE  FALSE
    BY <2>1, <2>2, CollapseAssumption DEF Start
  <2>3. ~(\E c \in Calls, j \in Keys : Lead(c, j) \/ Follow(c, j))
    BY <2>2 DEF Lead, Follow
  <2>4. ~(\E c \in Calls : Resume(c))
    BY <2>2 DEF Resume, Share, Retry, Finish
  <2>5. PICK f \in Calls : Sweep(f)
    BY <2>3, <2>4 DEF Next, Settle, Tick
  <2>6. f = inflight[k] /\ f \in timers /\ flights[f].settledAt + Grace <= clock
    BY <2>1, <2>5 DEF Sweep
  <2>7. QED
    BY <2>6 DEF IInv, WellFormed
<1>2. QED
  BY <1>1, Invariance, PTL DEF Spec, EntryKeptForGrace
==============================================================================
