---------------------------- MODULE RateLimiter -----------------------------
(***************************************************************************)
(* The per-key limits of apps/api/src/limits.rs: the middleware lets a     *)
(* request pass when its key has sent fewer than requests_per_minute in    *)
(* the last Window and has fewer than max_concurrency in flight.  The      *)
(* table of keys is one locked map, pruned at every request.               *)
(*                                                                         *)
(* Time runs in ticks, several to a second, because the answer of a        *)
(* limited request is given in whole seconds.                              *)
(***************************************************************************)
EXTENDS Integers, Sequences, FiniteSetsExt

CONSTANTS
    ApiKeys,           \* digests of the credentials
    RequestsPerMinute,
    MaxPerKey,         \* max_concurrency of a key
    TicksPerSecond,
    WindowSeconds,     \* 60
    RetentionSeconds,  \* 300
    Lag,               \* bound: how many ticks a request waits for the lock
    Horizon,           \* bound: the last tick a run looks at
    Never              \* no time

Window == WindowSeconds * TicksPerSecond
Retention == RetentionSeconds * TicksPerSecond

ASSUME LimiterAssumption ==
    /\ RequestsPerMinute \in Nat \ {0} /\ MaxPerKey \in Nat \ {0}
    /\ TicksPerSecond \in Nat \ {0} /\ WindowSeconds \in Nat \ {0}
    /\ RetentionSeconds \in Nat /\ Horizon \in Nat /\ Lag \in Nat /\ Never \notin Nat
    /\ Lag < Window /\ Window + Lag <= Retention

VARIABLES
    now,       \* the monotonic clock
    entries,   \* the map: a function on the keys it holds
    permits,   \* the permits in flight, by key
    admitted,  \* history: when requests were admitted, for Window - Lag ticks
    promised   \* history: when a limited key was told to come back

limiterVars == <<now, entries, permits, admitted, promised>>

-----------------------------------------------------------------------------
(* try_acquire reads the clock, then waits for the lock of the table: a    *)
(* request carries a time t that requests before it in the table can be    *)
(* later than.                                                             *)
ReadTimes == {t \in now - Lag .. now : t >= 0}

EmptyEntry == [requests |-> << >>, active |-> 0, seen |-> Never]

BadKeptByAge(k, t) ==
    entries[k].seen # Never /\ t - entries[k].seen < Retention

BadKeptInUse(k, t) == entries[k].active > 0

(* states.retain: an entry in use or seen within the retention stays.      *)
Kept(k, t) ==
    \/ entries[k].active > 0
    \/ entries[k].seen # Never /\ t - entries[k].seen < Retention

Retained(t) == {k \in DOMAIN entries : Kept(k, t)}

(* The times from the first one on that is not `size` ticks before t.      *)
Since(times, t, size) ==
    LET recent == {i \in DOMAIN times : t - times[i] < size}
    IN IF recent = {} THEN << >> ELSE SubSeq(times, Min(recent), Len(times))

(* pop_front as long as the front has left the window, and no further.     *)
Current(requests, t) == Since(requests, t, Window)

(* The entry of k after the prune.                                         *)
EntryOf(k, t) ==
    [(IF k \in Retained(t) THEN entries[k] ELSE EmptyEntry) EXCEPT !.requests = Current(@, t)]

Table(k, t, entry) ==
    [x \in Retained(t) \cup {k} |-> IF x = k THEN entry ELSE entries[x]]

Admit(k, t) ==
    LET entry == EntryOf(k, t) IN
    /\ entry.active < MaxPerKey /\ Len(entry.requests) < RequestsPerMinute
    /\ entries' = Table(k, t, [requests |-> Append(entry.requests, t),
                               active |-> entry.active + 1, seen |-> t])
    /\ permits' = [permits EXCEPT ![k] = @ + 1]
    /\ admitted' = [admitted EXCEPT ![k] = Append(@, now)]
    /\ promised' = [promised EXCEPT ![k] = Never]
    /\ UNCHANGED now

RefuseBusy(k, t) ==
    /\ EntryOf(k, t).active >= MaxPerKey
    /\ entries' = Table(k, t, EntryOf(k, t))
    /\ UNCHANGED <<now, permits, admitted, promised>>

BadRetryAfter(k, t) ==
    Max({1, WindowSeconds - 1 - Max({0, t - Head(EntryOf(k, t).requests)}) \div TicksPerSecond})

(* Whole seconds until the front request leaves the window, at least one.  *)
RetryAfter(k, t) ==
    Max({1, WindowSeconds - Max({0, t - Head(EntryOf(k, t).requests)}) \div TicksPerSecond})

RefuseRate(k, t) ==
    LET entry == EntryOf(k, t) IN
    /\ entry.active < MaxPerKey /\ Len(entry.requests) >= RequestsPerMinute
    /\ entries' = Table(k, t, entry)
    /\ promised' = [promised EXCEPT ![k] = now + RetryAfter(k, t) * TicksPerSecond]
    /\ UNCHANGED <<now, permits, admitted>>

(* The permit is dropped when the handler returns or its client goes away; *)
(* here the clock is read under the lock.                                  *)
Release(k) ==
    /\ permits[k] > 0
    /\ permits' = [permits EXCEPT ![k] = @ - 1]
    /\ entries' = IF k \in DOMAIN entries
                  THEN [entries EXCEPT ![k].active = IF @ = 0 THEN 0 ELSE @ - 1,
                                       ![k].seen = now]
                  ELSE entries
    /\ UNCHANGED <<now, admitted, promised>>

Tick ==
    /\ now < Horizon
    /\ now' = now + 1
    /\ admitted' = [k \in ApiKeys |-> Since(admitted[k], now', Window - Lag)]
    /\ UNCHANGED <<entries, permits, promised>>

LimiterInit ==
    /\ now = 0
    /\ entries = << >>
    /\ permits = [k \in ApiKeys |-> 0]
    /\ admitted = [k \in ApiKeys |-> << >>]
    /\ promised = [k \in ApiKeys |-> Never]

LimiterNext ==
    \/ \E k \in ApiKeys :
          \/ \E t \in ReadTimes : Admit(k, t) \/ RefuseBusy(k, t) \/ RefuseRate(k, t)
          \/ Release(k)
    \/ Tick

LimiterSpec == LimiterInit /\ [][LimiterNext]_limiterVars

-----------------------------------------------------------------------------
(* No key is admitted more than requests_per_minute times within a window, *)
(* less the time requests waited for the lock with the time they had read, *)
(* although its entry is pruned and made anew while the key is quiet, and  *)
(* requests enter the table in another order than that of their readings   *)
(* (RateLimiter::try_acquire).                                             *)
WindowHeld == \A k \in ApiKeys : Len(admitted[k]) <= RequestsPerMinute

(* The number of active requests of a key is the number of its permits: a  *)
(* prune never forgets a request in flight, whose drop would then be       *)
(* counted against another one (states.retain, RatePermit::drop).          *)
ActiveExact ==
    \A k \in ApiKeys :
        permits[k] = IF k \in DOMAIN entries THEN entries[k].active ELSE 0

(* A client that waits as long as Retry-After says finds the window open,  *)
(* however the seconds were rounded and whichever request stands at the    *)
(* front (RateLimiter::try_acquire).                                       *)
RetryAfterSuffices ==
    \A k \in ApiKeys :
        promised[k] # Never /\ now >= promised[k] =>
            Len(EntryOf(k, now).requests) < RequestsPerMinute
=============================================================================
