----------------------- MODULE LiveContextCacheProofs -----------------------
(***************************************************************************)
(* How old live context data can be, for any queries, keys, readers and    *)
(* durations.                                                              *)
(***************************************************************************)
EXTENDS LiveContextCache, TLAPS

\* Where a request is says which record it is.
LEMMA ReaderType ==
  ASSUME TypeOK, NEW r \in Readers
  PROVE  /\ readers[r].pc = "looking" => readers[r] \in Looking
         /\ readers[r].pc = "fetching" => readers[r] \in Fetching
         /\ readers[r].pc = "reached" => readers[r] \in Reached
         /\ readers[r].pc = "storing" => readers[r] \in Storing
         /\ Calling(r) => /\ readers[r].query \in Queries /\ readers[r].started \in Nat
                          /\ readers[r].cached \in {NoEntry} \cup Entry
  BY DEF TypeOK, Calling, Idle, Looking, Fetching, Reached, Storing, Answered, Unavailable

\* What Redis still holds is an entry.
LEMMA StoredType ==
  ASSUME TypeOK, NEW k \in Keys
  PROVE  /\ Stored(k) \in {NoEntry} \cup Entry
         /\ Stored(k) # NoEntry => Stored(k) = cache[k] /\ now < cache[k].written + StaleTTL
  BY DEF TypeOK, Stored

\* The answer made of an entry is one with data.
LEMMA AnswerType ==
  ASSUME TypeOK, NEW q \in Queries, NEW e \in Entry, NEW source \in {"cache", "live", "stale"}
  PROVE  /\ AnswerFrom(q, e, source) \in Answered
         /\ AnswerFrom(q, e, source).pc = "answered"
         /\ AnswerFrom(q, e, source).source = source
         /\ AnswerFrom(q, e, source).at = now
         /\ AnswerFrom(q, e, source).seen = e.seen
         /\ AnswerFrom(q, e, source).cached_at = e.cached_at
  BY DEF TypeOK, AnswerFrom, Answered, Entry

\* What FlightInv, AnswersAreRecent and CachedAtIsHonest say of one request.
OnItsWay(x, time) ==
  /\ x.pc = "looking" =>
       /\ x.asked <= time /\ time <= x.asked + RedisTimeout
       /\ x.cached # NoEntry => WrittenSoon(x.cached) /\ x.asked < x.cached.written + StaleTTL
  /\ x.pc \in {"fetching", "reached"} =>
       /\ x.started <= time /\ time <= x.started + Timeout
       /\ x.cached # NoEntry =>
            WrittenSoon(x.cached) /\ x.started < x.cached.written + StaleTTL + RedisTimeout
  /\ x.pc = "reached" => x.started <= x.seen /\ x.seen <= time
  /\ x.pc = "storing" => StampedSoon(x) /\ x.cached_at <= time /\ time <= x.cached_at + RedisTimeout

Recent(x) ==
  x.pc = "answered" /\ x.source # "unavailable" =>
    /\ x.source = "cache" => x.at < x.seen + Timeout + FreshTTL
    /\ x.source = "live"  => x.at <= x.seen + Timeout + RedisTimeout
    /\ x.source = "stale" => x.at < x.seen + Timeout + RedisTimeout + StaleTTL + RedisTimeout + Timeout
    /\ x.seen <= x.cached_at
    /\ x.cached_at <= x.seen + Timeout + (IF x.source = "live" THEN RedisTimeout ELSE 0)

LEMMA AgeByReader ==
  /\ FlightInv <=> \A r \in Readers : OnItsWay(readers[r], now)
  /\ AnswersAreRecent /\ CachedAtIsHonest <=> \A r \in Readers : Recent(readers[r])
  BY DEF FlightInv, AnswersAreRecent, CachedAtIsHonest, OnItsWay, Recent, Calling, HasData

\* A step that moves one request, without letting time pass, keeps the invariant if the
\* request's new state satisfies what the invariant says of it and the cache is well kept.
LEMMA OneReaderStep ==
  ASSUME AgeInv, now' = now, TypeOK', CacheInv',
         NEW r \in Readers, NEW x, readers' = [readers EXCEPT ![r] = x], OnItsWay(x, now), Recent(x)
  PROVE  AgeInv'
<1>1. \A p \in Readers : readers'[p] = IF p = r THEN x ELSE readers[p]
  BY DEF AgeInv, TypeOK
<1>2. \A p \in Readers : OnItsWay(readers[p], now) /\ Recent(readers[p])
  BY AgeByReader DEF AgeInv
<1>3. \A p \in Readers : OnItsWay(readers'[p], now') /\ Recent(readers'[p])
  BY <1>1, <1>2
<1>4. FlightInv'
  BY <1>3 DEF FlightInv, OnItsWay, Calling
<1>5. AnswersAreRecent' /\ CachedAtIsHonest'
  BY <1>3 DEF AnswersAreRecent, CachedAtIsHonest, Recent, HasData
<1> QED BY <1>4, <1>5 DEF AgeInv

\* AgeInv holds of every reachable state: NightOwl data is never shown older than the
\* windows of cache.go and the limits of the two clients together allow.
THEOREM DataIsRecent == Spec => []AgeInv
<1> USE TimesAssumption, KeyAssumption
<1>1. Init => AgeInv
  BY DEF Init, AgeInv, TypeOK, CacheInv, FlightInv, AnswersAreRecent, CachedAtIsHonest,
         HasData, Calling, Idle, NoEntry
<1>2. AgeInv /\ [Next]_lvars => AgeInv'
  <2> SUFFICES ASSUME AgeInv, [Next]_lvars PROVE AgeInv'
    OBVIOUS
  <2> TypeOK /\ CacheInv /\ FlightInv
    BY DEF AgeInv
  <2>0. \A r \in Readers : OnItsWay(readers[r], now)
    BY AgeByReader
  <2>1. ASSUME NEW r \in Readers, NEW q \in Queries, Get(r, q)
        PROVE  AgeInv'
    <3> DEFINE k == KeyOf[q]
    <3>1. PICK cached \in {Stored(k), NoEntry} :
            readers' = [readers EXCEPT ![r] =
              [pc |-> "looking", query |-> q, cached |-> cached, asked |-> now]]
      BY <2>1 DEF Get
    <3> DEFINE x == [pc |-> "looking", query |-> q, cached |-> cached, asked |-> now]
    <3>2. /\ cached \in {NoEntry} \cup Entry
          /\ cached # NoEntry => WrittenSoon(cached) /\ now < cached.written + StaleTTL
      BY StoredType DEF CacheInv
    <3>3. now' = now /\ cache' = cache
      BY <2>1 DEF Get
    <3>4. x \in Looking
      BY <3>2 DEF Looking, TypeOK
    <3>5. TypeOK' /\ CacheInv'
      BY <3>1, <3>3, <3>4 DEF TypeOK, CacheInv, StampedSoon, WrittenSoon
    <3>6. OnItsWay(x, now) /\ Recent(x)
      BY <3>2 DEF OnItsWay, Recent, TypeOK
    <3> HIDE DEF x, k
    <3> QED BY <3>1, <3>3, <3>5, <3>6, OneReaderStep DEF x
  <2>2. ASSUME NEW r \in Readers, ServeFresh(r)
        PROVE  AgeInv'
    <3> DEFINE e == readers[r].cached
               x == AnswerFrom(readers[r].query, e, "cache")
    <3>1. readers[r] \in Looking /\ e \in Entry /\ e # NoEntry /\ now < e.cached_at + FreshTTL
      BY <2>2, ReaderType DEF ServeFresh, IsFresh, Looking
    <3>2. StampedSoon(e)
      BY <2>0, <3>1 DEF OnItsWay, WrittenSoon, Looking
    <3>3. /\ x \in Answered /\ x.pc = "answered" /\ x.source = "cache" /\ x.at = now
          /\ x.seen = e.seen /\ x.cached_at = e.cached_at
      BY <3>1, AnswerType DEF Looking
    <3>4. readers' = [readers EXCEPT ![r] = x] /\ now' = now /\ cache' = cache
      BY <2>2 DEF ServeFresh
    <3>5. TypeOK' /\ CacheInv'
      BY <3>3, <3>4 DEF TypeOK, CacheInv, StampedSoon, WrittenSoon
    <3>6. OnItsWay(x, now) /\ Recent(x)
      BY <3>1, <3>2, <3>3 DEF OnItsWay, Recent, StampedSoon, Entry, TypeOK
    <3> HIDE DEF x, e
    <3> QED BY <3>4, <3>5, <3>6, OneReaderStep
  <2>3. ASSUME NEW r \in Readers, Call(r)
        PROVE  AgeInv'
    <3> DEFINE e == readers[r].cached
               x == [pc |-> "fetching", query |-> readers[r].query, cached |-> e, started |-> now]
    <3>1. readers[r] \in Looking /\ readers[r].pc = "looking"
      BY <2>3, ReaderType DEF Call
    <3>2. x \in Fetching
      BY <3>1 DEF Looking, Fetching, TypeOK
    <3>3. readers' = [readers EXCEPT ![r] = x] /\ now' = now /\ cache' = cache
      BY <2>3 DEF Call
    <3>4. TypeOK' /\ CacheInv'
      BY <3>2, <3>3 DEF TypeOK, CacheInv, StampedSoon, WrittenSoon
    <3>5. /\ now <= readers[r].asked + RedisTimeout
          /\ e # NoEntry => WrittenSoon(e) /\ readers[r].asked < e.written + StaleTTL
      BY <2>0, <3>1 DEF OnItsWay
    <3>6. readers[r].asked \in Nat /\ now \in Nat /\ (e # NoEntry => e.written \in Nat)
      BY <3>1 DEF Looking, Entry, TypeOK
    <3>7. e # NoEntry => WrittenSoon(e) /\ now < e.written + StaleTTL + RedisTimeout
      BY <3>5, <3>6
    <3>8. OnItsWay(x, now) /\ Recent(x)
      BY <3>6, <3>7 DEF OnItsWay, Recent
    <3> HIDE DEF x, e
    <3> QED BY <3>3, <3>4, <3>8, OneReaderStep
  <2>4. ASSUME NEW r \in Readers, NightOwlAnswers(r)
        PROVE  AgeInv'
    <3> DEFINE x == [pc |-> "reached", query |-> readers[r].query, cached |-> readers[r].cached,
                     started |-> readers[r].started, seen |-> now]
    <3>1. readers[r] \in Fetching /\ readers[r].pc = "fetching"
      BY <2>4, ReaderType DEF NightOwlAnswers
    <3>2. x \in Reached
      BY <3>1 DEF Fetching, Reached, TypeOK
    <3>3. readers' = [readers EXCEPT ![r] = x] /\ now' = now /\ cache' = cache
      BY <2>4 DEF NightOwlAnswers
    <3>4. TypeOK' /\ CacheInv'
      BY <3>2, <3>3 DEF TypeOK, CacheInv, StampedSoon, WrittenSoon
    <3>5. OnItsWay(x, now) /\ Recent(x)
      BY <2>0, <3>1 DEF OnItsWay, Recent, TypeOK
    <3> HIDE DEF x
    <3> QED BY <3>3, <3>4, <3>5, OneReaderStep
  <2>5. ASSUME NEW r \in Readers, Stamp(r)
        PROVE  AgeInv'
    <3> DEFINE x == [pc |-> "storing", query |-> readers[r].query, seen |-> readers[r].seen,
                     cached_at |-> now]
    <3>1. readers[r] \in Reached /\ readers[r].pc = "reached"
      BY <2>5, ReaderType DEF Stamp
    <3>2. x \in Storing
      BY <3>1 DEF Reached, Storing, TypeOK
    <3>3. readers' = [readers EXCEPT ![r] = x] /\ now' = now /\ cache' = cache
      BY <2>5 DEF Stamp
    <3>4. TypeOK' /\ CacheInv'
      BY <3>2, <3>3 DEF TypeOK, CacheInv, StampedSoon, WrittenSoon
    <3>5. /\ now <= readers[r].started + Timeout
          /\ readers[r].started <= readers[r].seen /\ readers[r].seen <= now
          /\ readers[r].started \in Nat /\ readers[r].seen \in Nat /\ now \in Nat
      BY <2>0, <3>1 DEF OnItsWay, Reached, TypeOK
    <3>6. OnItsWay(x, now) /\ Recent(x)
      BY <3>5 DEF OnItsWay, Recent, StampedSoon
    <3> HIDE DEF x
    <3> QED BY <3>3, <3>4, <3>6, OneReaderStep
  <2>6. ASSUME NEW r \in Readers, Write(r)
        PROVE  AgeInv'
    <3> DEFINE e == Stamped(r)
    <3>1. readers[r] \in Storing /\ readers[r].pc = "storing"
      BY <2>6, ReaderType DEF Write
    <3>2. /\ e \in Entry /\ e # NoEntry /\ e.seen = readers[r].seen
          /\ e.cached_at = readers[r].cached_at /\ e.written = now
      BY <3>1 DEF Stamped, Storing, Entry, NoEntry, TypeOK
    <3>3. WrittenSoon(e) /\ e.written <= now
      BY <2>0, <3>1, <3>2 DEF OnItsWay, StampedSoon, WrittenSoon, TypeOK
    <3>4. cache' = [cache EXCEPT ![KeyOf[readers[r].query]] = e] /\ now' = now /\ readers' = readers
      BY <2>6 DEF Write
    <3> HIDE DEF e
    <3>5. TypeOK'
      BY <3>2, <3>4 DEF TypeOK
    <3>6. \A k \in Keys : cache'[k] = cache[k] \/ cache'[k] = e
      BY <3>4 DEF TypeOK
    <3>7. CacheInv'
      BY <3>3, <3>4, <3>6 DEF CacheInv, StampedSoon, WrittenSoon
    <3>8. FlightInv' /\ AnswersAreRecent' /\ CachedAtIsHonest'
      BY <3>4 DEF AgeInv, FlightInv, AnswersAreRecent, CachedAtIsHonest, HasData, Calling,
                  StampedSoon, WrittenSoon
    <3> QED BY <3>5, <3>7, <3>8 DEF AgeInv
  <2>7. ASSUME NEW r \in Readers, Respond(r)
        PROVE  AgeInv'
    <3> DEFINE e == Stamped(r)
               q == readers[r].query
               x == [AnswerFrom(q, e, "live") EXCEPT !.cached_at = now]
    <3>1. readers[r] \in Storing /\ readers[r].pc = "storing" /\ q \in Queries
      BY <2>7, ReaderType DEF Respond, Storing
    <3>2. e \in Entry /\ e.seen = readers[r].seen
      BY <3>1 DEF Stamped, Storing, Entry, TypeOK
    <3>3. /\ x \in Answered /\ x.pc = "answered" /\ x.source = "live" /\ x.at = now
          /\ x.seen = e.seen /\ x.cached_at = now
      <4>1. PICK a : a = AnswerFrom(q, e, "live")
        OBVIOUS
      <4>2. a \in Answered /\ a.pc = "answered" /\ a.source = "live" /\ a.at = now /\ a.seen = e.seen
        BY <3>1, <3>2, <4>1, AnswerType
      <4>3. x = [a EXCEPT !.cached_at = now]
        BY <4>1
      <4> QED BY <4>2, <4>3 DEF Answered, TypeOK
    <3>4. readers' = [readers EXCEPT ![r] = x] /\ now' = now /\ cache' = cache
      BY <2>7 DEF Respond
    <3>5. TypeOK' /\ CacheInv'
      BY <3>3, <3>4 DEF TypeOK, CacheInv, StampedSoon, WrittenSoon
    <3>6. /\ StampedSoon(readers[r]) /\ readers[r].cached_at <= now
          /\ now <= readers[r].cached_at + RedisTimeout
          /\ readers[r].seen \in Nat /\ readers[r].cached_at \in Nat /\ now \in Nat
      BY <2>0, <3>1 DEF OnItsWay, Storing, TypeOK
    <3> HIDE DEF x, e
    <3>7. OnItsWay(x, now) /\ Recent(x)
      BY <3>2, <3>3, <3>6 DEF OnItsWay, Recent, StampedSoon
    <3> QED BY <3>4, <3>5, <3>7, OneReaderStep
  <2>8. ASSUME NEW r \in Readers, FetchFails(r)
        PROVE  AgeInv'
    <3> DEFINE e == readers[r].cached
               q == readers[r].query
    <3>1. now' = now /\ cache' = cache /\ Calling(r)
      BY <2>8 DEF FetchFails
    <3>2. CacheInv'
      BY <3>1 DEF CacheInv, StampedSoon, WrittenSoon
    <3>3. q \in Queries /\ e \in {NoEntry} \cup Entry /\ readers[r].started \in Nat
      BY <3>1, ReaderType
    <3>4. CASE e # NoEntry
      <4> DEFINE x == AnswerFrom(q, e, "stale")
      <4>1. /\ x \in Answered /\ x.pc = "answered" /\ x.source = "stale" /\ x.at = now
            /\ x.seen = e.seen /\ x.cached_at = e.cached_at /\ e \in Entry
        BY <3>3, <3>4, AnswerType
      <4>2. readers' = [readers EXCEPT ![r] = x]
        BY <2>8, <3>4 DEF FetchFails
      <4>3. TypeOK'
        BY <3>1, <4>1, <4>2 DEF TypeOK
      <4>4. /\ WrittenSoon(e) /\ readers[r].started < e.written + StaleTTL + RedisTimeout
            /\ now <= readers[r].started + Timeout
        BY <3>1, <3>4 DEF FlightInv
      <4>5. OnItsWay(x, now) /\ Recent(x)
        BY <3>3, <4>1, <4>4 DEF OnItsWay, Recent, StampedSoon, WrittenSoon, Entry, TypeOK
      <4> HIDE DEF x
      <4> QED BY <3>1, <3>2, <4>2, <4>3, <4>5, OneReaderStep
    <3>5. CASE e = NoEntry
      <4> DEFINE x == [pc |-> "answered", query |-> q, source |-> "unavailable", at |-> now]
      <4>1. x \in Unavailable /\ OnItsWay(x, now) /\ Recent(x)
        BY <3>3 DEF Unavailable, OnItsWay, Recent, TypeOK
      <4>2. readers' = [readers EXCEPT ![r] = x]
        BY <2>8, <3>5 DEF FetchFails
      <4>3. TypeOK'
        BY <3>1, <4>1, <4>2 DEF TypeOK
      <4> HIDE DEF x
      <4> QED BY <3>1, <3>2, <4>1, <4>2, <4>3, OneReaderStep
    <3> QED BY <3>4, <3>5
  <2>9. CASE Tick
    <3>1. now' = now + 1 /\ cache' = cache /\ readers' = readers
      BY <2>9 DEF Tick
    <3>2. TypeOK'
      BY <3>1 DEF TypeOK
    <3>3. CacheInv'
      BY <3>1 DEF CacheInv, StampedSoon, WrittenSoon, TypeOK, Entry
    <3>4. ASSUME NEW r \in Readers
          PROVE  OnItsWay(readers[r], now + 1)
      <4>1. /\ readers[r].pc = "looking" => now < readers[r].asked + RedisTimeout
            /\ Calling(r) => now < readers[r].started + Timeout
            /\ readers[r].pc = "storing" => now < readers[r].cached_at + RedisTimeout
        BY <2>9 DEF Tick
      <4>2. CASE readers[r].pc = "looking"
        BY <2>0, <4>1, <4>2, ReaderType DEF OnItsWay, Looking, TypeOK
      <4>3. CASE Calling(r)
        BY <2>0, <4>1, <4>3, ReaderType DEF OnItsWay, Calling, Fetching, Reached, TypeOK
      <4>4. CASE readers[r].pc = "storing"
        BY <2>0, <4>1, <4>4, ReaderType DEF OnItsWay, Storing, TypeOK
      <4> QED BY <4>2, <4>3, <4>4 DEF OnItsWay, Calling
    <3>5. FlightInv'
      BY <3>1, <3>4 DEF FlightInv, OnItsWay, Calling, StampedSoon, WrittenSoon
    <3>6. AnswersAreRecent' /\ CachedAtIsHonest'
      BY <3>1 DEF AgeInv, AnswersAreRecent, CachedAtIsHonest, HasData
    <3> QED BY <3>2, <3>3, <3>5, <3>6 DEF AgeInv
  <2>10. CASE UNCHANGED lvars
    BY <2>10 DEF lvars, AgeInv, TypeOK, CacheInv, FlightInv, AnswersAreRecent, CachedAtIsHonest,
                 HasData, Calling, StampedSoon, WrittenSoon
  <2> QED BY <2>1, <2>2, <2>3, <2>4, <2>5, <2>6, <2>7, <2>8, <2>9, <2>10 DEF Next
<1> QED BY <1>1, <1>2, PTL DEF Spec

\* The readers, the cache and the clock keep their types, whatever fails or expires.
THEOREM TypeCorrect == Spec => []TypeOK
<1>1. AgeInv => TypeOK
  BY DEF AgeInv
<1> QED BY <1>1, DataIsRecent, PTL

\* No answer shows data older than its source promises.
THEOREM AnswersRecent == Spec => []AnswersAreRecent
<1>1. AgeInv => AnswersAreRecent
  BY DEF AgeInv
<1> QED BY <1>1, DataIsRecent, PTL

\* The cached_at that a block shows is never older than the data, and at most one call newer,
\* or, for a live answer, one call and one command to Redis.
THEOREM CachedAtHonest == Spec => []CachedAtIsHonest
<1>1. AgeInv => CachedAtIsHonest
  BY DEF AgeInv
<1> QED BY <1>1, DataIsRecent, PTL

\* Data goes to queries with the key of the query it answers, whatever the keys are.
THEOREM DataKeepsItsKey == Spec => []KeyInv
<1>1. Init => KeyInv
  BY DEF Init, KeyInv, Calling, HasData, NoEntry, Idle
<1>2. TypeOK /\ KeyInv /\ [Next]_lvars => KeyInv'
  <2> SUFFICES ASSUME TypeOK, KeyInv, [Next]_lvars PROVE KeyInv'
    OBVIOUS
  <2>1. ASSUME NEW r \in Readers, NEW q \in Queries, Get(r, q) PROVE KeyInv'
    <3>1. KeyOf[q] \in Keys
      BY KeyAssumption
    <3>2. PICK c \in {Stored(KeyOf[q]), NoEntry} :
            readers' = [readers EXCEPT ![r] =
              [pc |-> "looking", query |-> q, cached |-> c, asked |-> now]]
      BY <2>1 DEF Get
    <3>3. c # NoEntry => KeyOf[c.query] = KeyOf[q]
      BY <3>1, <3>2 DEF Stored, KeyInv
    <3> QED BY <2>1, <3>2, <3>3 DEF Get, KeyInv, Calling, HasData, TypeOK
  <2>2. ASSUME NEW r \in Readers, ServeFresh(r) PROVE KeyInv'
    BY <2>2 DEF ServeFresh, IsFresh, AnswerFrom, KeyInv, Calling, HasData, TypeOK
  <2>3. ASSUME NEW r \in Readers, Call(r) PROVE KeyInv'
    BY <2>3 DEF Call, KeyInv, Calling, HasData, TypeOK
  <2>4. ASSUME NEW r \in Readers, NightOwlAnswers(r) PROVE KeyInv'
    BY <2>4 DEF NightOwlAnswers, KeyInv, Calling, HasData, TypeOK
  <2>5. ASSUME NEW r \in Readers, Stamp(r) PROVE KeyInv'
    BY <2>5 DEF Stamp, KeyInv, Calling, HasData, TypeOK
  <2>6. ASSUME NEW r \in Readers, Write(r) PROVE KeyInv'
    BY <2>6 DEF Write, Stamped, KeyInv, Calling, HasData, TypeOK
  <2>7. ASSUME NEW r \in Readers, Respond(r) PROVE KeyInv'
    BY <2>7 DEF Respond, Stamped, AnswerFrom, KeyInv, Calling, HasData, TypeOK
  <2>8. ASSUME NEW r \in Readers, FetchFails(r) PROVE KeyInv'
    <3>1. CASE readers[r].cached # NoEntry
      BY <2>8, <3>1 DEF FetchFails, AnswerFrom, KeyInv, Calling, HasData, TypeOK
    <3>2. CASE readers[r].cached = NoEntry
      BY <2>8, <3>2 DEF FetchFails, KeyInv, Calling, HasData, TypeOK
    <3> QED BY <3>1, <3>2
  <2>9. CASE Tick
    BY <2>9 DEF Tick, KeyInv, Calling, HasData
  <2>10. CASE UNCHANGED lvars
    BY <2>10 DEF lvars, KeyInv, Calling, HasData
  <2> QED BY <2>1, <2>2, <2>3, <2>4, <2>5, <2>6, <2>7, <2>8, <2>9, <2>10 DEF Next
<1>3. AgeInv => TypeOK
  BY DEF AgeInv
<1> QED BY <1>1, <1>2, <1>3, DataIsRecent, PTL DEF Spec

\* Whoever asks with a key that no other query has is shown the data he asked for, whatever the
\* others share: rosters and incidents have keys of their own, lists of alerts only as long as
\* nobody asks for them with another limit.
THEOREM OwnKeyOwnData ==
  ASSUME NEW q \in Queries, \A p \in Queries : KeyOf[p] = KeyOf[q] => p = q
  PROVE  Spec => [](\A r \in Readers : HasData(r) /\ readers[r].query = q => readers[r].about = q)
<1>1. TypeOK /\ KeyInv => \A r \in Readers : HasData(r) /\ readers[r].query = q => readers[r].about = q
  <2> SUFFICES ASSUME TypeOK, KeyInv, NEW r \in Readers, HasData(r), readers[r].query = q
               PROVE  readers[r].about = q
    OBVIOUS
  <2>1. readers[r].about \in Queries
    BY DEF TypeOK, HasData, Idle, Looking, Fetching, Reached, Storing, Answered, Unavailable
  <2> QED BY <2>1 DEF KeyInv
<1>2. AgeInv => TypeOK
  BY DEF AgeInv
<1> QED BY <1>1, <1>2, DataIsRecent, DataKeepsItsKey, PTL
=============================================================================
