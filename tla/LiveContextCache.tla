--------------------------- MODULE LiveContextCache ---------------------------
(***************************************************************************)
(* The live context proxy (pkg/livecontext): documents show data of        *)
(* NightOwl, fetched over HTTP and kept in Redis.  An entry is served      *)
(* without asking for FreshTTL, is a fallback for as long as Redis keeps   *)
(* it, and nothing makes concurrent requests for one key wait for each     *)
(* other, so their reads and writes of the entry interleave.               *)
(*                                                                         *)
(* Time is counted in ticks.  What NightOwl answers is abstracted to the   *)
(* query it answered and the time it did (seen): what its data is about.   *)
(* The HTTP client gives a call up after Timeout, and the Redis client a   *)
(* command, with its retries, after RedisTimeout, so time does not pass    *)
(* beyond that while one is in flight.  Any command to Redis may fail.     *)
(***************************************************************************)
EXTENDS Naturals

CONSTANTS
  Queries,       \* what a block asks: a roster, a service, severities and a limit, an incident
  Keys,          \* Redis keys
  KeyOf,         \* KeyOf[q]: the key the handler builds for q
  Readers,       \* requests in flight at one time
  FreshTTL,      \* 30 seconds
  StaleTTL,      \* 5 minutes
  Timeout,       \* 10 seconds
  RedisTimeout,  \* how long a command to Redis takes at most, and takes effect after being sent
  MaxTime        \* bound on the clock

ASSUME KeyAssumption == KeyOf \in [Queries -> Keys]
ASSUME TimesAssumption == {FreshTTL, StaleTTL, Timeout, RedisTimeout, MaxTime} \subseteq Nat

VARIABLES
  now,      \* the clock
  cache,    \* cache[k]: the entry last written to Redis under k, or NoEntry
  readers   \* readers[r]: where request r is

lvars == <<now, cache, readers>>

-----------------------------------------------------------------------------
(* Entries and requests *)

NoEntry == [state |-> "none"]
\* written is when Redis took the entry in, which is when its time to live begins.
Entry == [state : {"cached"}, query : Queries, seen : Nat, cached_at : Nat, written : Nat]

Idle == [pc |-> "idle"]
\* A request with Redis' reply, as of the time asked, on its way.
Looking == [pc : {"looking"}, query : Queries, cached : {NoEntry} \cup Entry, asked : Nat]
\* One that has found no fresh entry and has called NightOwl.
Fetching == [pc : {"fetching"}, query : Queries, cached : {NoEntry} \cup Entry, started : Nat]
\* One whose call NightOwl has answered, with the answer on its way back.
Reached  == [pc : {"reached"}, query : Queries, cached : {NoEntry} \cup Entry, started : Nat,
             seen : Nat]
\* One that has sent the answer to Redis, under the stamp cached_at.
Storing == [pc : {"storing"}, query : Queries, seen : Nat, cached_at : Nat]
\* One that has responded: the envelope's source and cached_at, and what the data is.
Answered == [pc : {"answered"}, query : Queries, source : {"cache", "live", "stale"},
             at : Nat, about : Queries, seen : Nat, cached_at : Nat]
Unavailable == [pc : {"answered"}, query : Queries, source : {"unavailable"}, at : Nat]

TypeOK ==
  /\ now \in Nat
  /\ cache \in [Keys -> {NoEntry} \cup Entry]
  /\ readers \in [Readers -> {Idle} \cup Looking \cup Fetching \cup Reached \cup Storing
                             \cup Answered \cup Unavailable]

Calling(r) == readers[r].pc \in {"fetching", "reached"}
InFlight(r) == readers[r].pc \in {"looking", "fetching", "reached", "storing"}

\* Redis drops an entry StaleTTL after it was written.
Stored(k) == IF cache[k] # NoEntry /\ now < cache[k].written + StaleTTL THEN cache[k] ELSE NoEntry

IsFresh(e) == e # NoEntry /\ now < e.cached_at + FreshTTL

\* The answer made of an entry.
AnswerFrom(q, e, source) ==
  [pc |-> "answered", query |-> q, source |-> source, at |-> now, about |-> e.query,
   seen |-> e.seen, cached_at |-> e.cached_at]

-----------------------------------------------------------------------------
(* proxyWithCache, step by step *)

Init ==
  /\ now = 0
  /\ cache = [k \in Keys |-> NoEntry]
  /\ readers = [r \in Readers |-> Idle]

\* Cache.Get: Redis looks the key up.  There is no entry, or none is found as Redis fails.
Get(r, q) ==
  /\ ~InFlight(r)
  /\ \E cached \in {Stored(KeyOf[q]), NoEntry} :
       readers' = [readers EXCEPT ![r] =
         [pc |-> "looking", query |-> q, cached |-> cached, asked |-> now]]
  /\ UNCHANGED <<now, cache>>

\* An entry that is fresh when it arrives is returned as it is.
ServeFresh(r) ==
  /\ readers[r].pc = "looking" /\ IsFresh(readers[r].cached)
  /\ readers' = [readers EXCEPT ![r] = AnswerFrom(readers[r].query, readers[r].cached, "cache")]
  /\ UNCHANGED <<now, cache>>

\* Otherwise NightOwl is called; what Redis held is kept for the case that this fails.
Call(r) ==
  /\ readers[r].pc = "looking" /\ ~IsFresh(readers[r].cached)
  /\ readers' = [readers EXCEPT ![r] =
       [pc |-> "fetching", query |-> readers[r].query, cached |-> readers[r].cached, started |-> now]]
  /\ UNCHANGED <<now, cache>>

\* NightOwl (external) computes its answer.
NightOwlAnswers(r) ==
  /\ readers[r].pc = "fetching"
  /\ readers' = [readers EXCEPT ![r] =
       [pc |-> "reached", query |-> readers[r].query, cached |-> readers[r].cached,
        started |-> readers[r].started, seen |-> now]]
  /\ UNCHANGED <<now, cache>>

\* The call fails (unreachable, timed out, not 200): the entry found at the start is the
\* answer, whatever the cache holds by now, or there is none.
FetchFails(r) ==
  /\ Calling(r)
  /\ readers' = [readers EXCEPT ![r] =
       IF readers[r].cached # NoEntry
         THEN AnswerFrom(readers[r].query, readers[r].cached, "stale")
         ELSE [pc |-> "answered", query |-> readers[r].query, source |-> "unavailable",
               at |-> now]]
  /\ UNCHANGED <<now, cache>>

\* Mutant: the freshness window is added to the stamp of the entry already.
StampAhead(r) ==
  /\ readers[r].pc = "reached"
  /\ readers' = [readers EXCEPT ![r] =
       [pc |-> "storing", query |-> readers[r].query, seen |-> readers[r].seen,
        cached_at |-> now + FreshTTL]]
  /\ UNCHANGED <<now, cache>>

\* The answer arrives: Cache.Set stamps it with the time and sends it.
Stamp(r) ==
  /\ readers[r].pc = "reached"
  /\ readers' = [readers EXCEPT ![r] =
       [pc |-> "storing", query |-> readers[r].query, seen |-> readers[r].seen, cached_at |-> now]]
  /\ UNCHANGED <<now, cache>>

\* What r has stamped, as Redis takes it in.
Stamped(r) ==
  [state |-> "cached", query |-> readers[r].query, seen |-> readers[r].seen,
   cached_at |-> readers[r].cached_at, written |-> now]

\* Mutant: the data is cached bare, without the envelope that holds cached_at.
WriteBare(r) ==
  /\ readers[r].pc = "storing"
  /\ cache' = [cache EXCEPT ![KeyOf[readers[r].query]] =
                 [state |-> "cached", query |-> readers[r].query, seen |-> readers[r].seen,
                  written |-> now]]
  /\ UNCHANGED <<now, readers>>

\* Mutant: the data is cached under the key of another query.
WriteUnderAnyKey(r) ==
  /\ readers[r].pc = "storing"
  /\ \E k \in Keys : cache' = [cache EXCEPT ![k] = Stamped(r)]
  /\ UNCHANGED <<now, readers>>

\* Redis takes it in, over whatever entry is there by now: once, not at all, or again when
\* the client repeats the command.
Write(r) ==
  /\ readers[r].pc = "storing"
  /\ cache' = [cache EXCEPT ![KeyOf[readers[r].query]] = Stamped(r)]
  /\ UNCHANGED <<now, readers>>

\* Redis has confirmed, or failed, which is only logged: the answer is passed on, with a
\* cached_at of its own.
Respond(r) ==
  /\ readers[r].pc = "storing"
  /\ readers' = [readers EXCEPT ![r] =
       [AnswerFrom(readers[r].query, Stamped(r), "live") EXCEPT !.cached_at = now]]
  /\ UNCHANGED <<now, cache>>

\* Mutant: http.Client without a Timeout.
TickForever ==
  /\ now < MaxTime
  /\ now' = now + 1
  /\ UNCHANGED <<cache, readers>>

Tick ==
  /\ now < MaxTime
  /\ \A r \in Readers :
       /\ readers[r].pc = "looking" => now < readers[r].asked + RedisTimeout
       /\ Calling(r) => now < readers[r].started + Timeout
       /\ readers[r].pc = "storing" => now < readers[r].cached_at + RedisTimeout
  /\ now' = now + 1
  /\ UNCHANGED <<cache, readers>>

-----------------------------------------------------------------------------
(* Specification *)

Next ==
  \/ \E r \in Readers :
       \/ \E q \in Queries : Get(r, q)
       \/ ServeFresh(r) \/ Call(r)
       \/ NightOwlAnswers(r) \/ FetchFails(r)
       \/ Stamp(r) \/ Write(r) \/ Respond(r)
  \/ Tick

Spec == Init /\ [][Next]_lvars

-----------------------------------------------------------------------------
(* Properties *)

HasData(r) == readers[r].pc = "answered" /\ readers[r].source # "unavailable"

\* How old what a reader is shown can be, whichever requests raced to fill the entry: a
\* cached answer is younger than FreshTTL and one call, a live one than one call and one
\* command to Redis, and a fallback than StaleTTL, two calls (the one that filled the entry
\* and the one that failed) and two commands (the SET of the one, the GET of the other).  A
\* slow request that overwrites a newer entry does not stretch this.
AnswersAreRecent ==
  \A r \in Readers : HasData(r) =>
    /\ readers[r].source = "cache" => readers[r].at < readers[r].seen + Timeout + FreshTTL
    /\ readers[r].source = "live"  => readers[r].at <= readers[r].seen + Timeout + RedisTimeout
    /\ readers[r].source = "stale" =>
         readers[r].at < readers[r].seen + Timeout + RedisTimeout + StaleTTL + RedisTimeout + Timeout

\* The envelope's cached_at is never earlier than the data, and later by at most one call, of
\* NightOwl; in a live answer, which is stamped behind the SET, by the time of that too.
CachedAtIsHonest ==
  \A r \in Readers : HasData(r) =>
    /\ readers[r].seen <= readers[r].cached_at
    /\ readers[r].cached_at <=
         readers[r].seen + Timeout + (IF readers[r].source = "live" THEN RedisTimeout ELSE 0)

\* A block is shown the data it asked for: so, unless queries share a key, as active-alerts
\* queries that differ only in their limit do (cache.go, ActiveAlertsKey).
AnswersTheQuery ==
  \A r \in Readers : HasData(r) => readers[r].about = readers[r].query

\* The inductive invariant behind the first two: an entry was stamped at most one call after
\* NightOwl computed it, and written at most one command later; and what a request in flight
\* waits for is no older than its limit, with an entry that Redis still had when it looked.
StampedSoon(e) == e.seen <= e.cached_at /\ e.cached_at <= e.seen + Timeout

WrittenSoon(e) == StampedSoon(e) /\ e.cached_at <= e.written /\ e.written <= e.cached_at + RedisTimeout

CacheInv == \A k \in Keys : cache[k] # NoEntry => WrittenSoon(cache[k]) /\ cache[k].written <= now

FlightInv ==
  \A r \in Readers :
    /\ readers[r].pc = "looking" =>
         /\ readers[r].asked <= now /\ now <= readers[r].asked + RedisTimeout
         /\ readers[r].cached # NoEntry =>
              WrittenSoon(readers[r].cached) /\ readers[r].asked < readers[r].cached.written + StaleTTL
    /\ Calling(r) =>
         /\ readers[r].started <= now /\ now <= readers[r].started + Timeout
         /\ readers[r].cached # NoEntry =>
              /\ WrittenSoon(readers[r].cached)
              /\ readers[r].started < readers[r].cached.written + StaleTTL + RedisTimeout
    /\ readers[r].pc = "reached" => readers[r].started <= readers[r].seen /\ readers[r].seen <= now
    /\ readers[r].pc = "storing" =>
         StampedSoon(readers[r]) /\ readers[r].cached_at <= now /\ now <= readers[r].cached_at + RedisTimeout

AgeInv == TypeOK /\ CacheInv /\ FlightInv /\ AnswersAreRecent /\ CachedAtIsHonest

\* And the one behind AnswersTheQuery: what is kept under a key, carried along as a fallback
\* or shown answers a query with that key, whichever requests overwrite each other's entry.
KeyInv ==
  /\ \A k \in Keys : cache[k] # NoEntry => KeyOf[cache[k].query] = k
  /\ \A r \in Readers : (readers[r].pc = "looking" \/ Calling(r)) /\ readers[r].cached # NoEntry =>
       KeyOf[readers[r].cached.query] = KeyOf[readers[r].query]
  /\ \A r \in Readers : HasData(r) => KeyOf[readers[r].about] = KeyOf[readers[r].query]
=============================================================================
