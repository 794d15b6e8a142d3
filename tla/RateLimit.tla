------------------------------ MODULE RateLimit ------------------------------
(***************************************************************************)
(* RateLimitMiddleware of apps/api and its TokenBucketRateLimiter, which   *)
(* despite its name counts requests in fixed windows, one per client key.  *)
(* Requests of one process are handled one after the other.                *)
(***************************************************************************)
EXTENDS Integers, FiniteSets

CONSTANTS
  Hosts,            \* addresses of direct callers, and values of X-Forwarded-For
  NoHost,           \* no X-Forwarded-For header
  TrustProxy,       \* RATE_LIMIT_TRUST_PROXY
  Window,           \* windowMs
  Max,              \* maxRequests
  CleanupInterval,  \* cleanupIntervalMs
  MaxTime,          \* bound: the clock
  MaxCount          \* bound: requests of one key in one window

ASSUME WindowAssumption == Window \in Nat \ {0}
ASSUME MaxAssumption == Max \in Nat \ {0}
ASSUME CleanupAssumption == CleanupInterval \in Nat \ {0}
ASSUME TimeAssumption == MaxTime \in Nat /\ MaxTime >= CleanupInterval /\ MaxCount \in Nat
ASSUME TrustAssumption == TrustProxy \in BOOLEAN
ASSUME HostsAssumption ==
  /\ NoHost \notin Hosts
  /\ NoHost \notin [count : Nat, resetAt : Nat]
  /\ NoHost \notin [key : Hosts, allowed : BOOLEAN]

VARIABLES
  now,            \* Date.now()
  buckets,        \* the Map; NoHost where it has no entry
  lastCleanupAt,
  answer,         \* [key, allowed] of the last request (history)
  admitted        \* [key, ip, at, nth] of each admitted request (history)

limiterVars == <<now, buckets, lastCleanupAt, answer, admitted>>

Bucket == [count : Nat, resetAt : Nat]

\* The limiter starts empty, at a time far from 0.
LimiterInit ==
  /\ now = CleanupInterval
  /\ buckets = [k \in Hosts |-> NoHost]
  /\ lastCleanupAt = 0
  /\ answer = NoHost
  /\ admitted = {}

\* resolveClientKey
ClientKey(ip, forwarded) ==
  IF TrustProxy /\ forwarded # NoHost THEN forwarded ELSE ip

\* Mutant of Consumed: every request opens the window anew.
ConsumedExtending(k) ==
  IF buckets[k] = NoHost \/ buckets[k].resetAt <= now
  THEN [count |-> 1, resetAt |-> now + Window]
  ELSE [count |-> buckets[k].count + 1, resetAt |-> now + Window]

\* consume(): the bucket of a key after one more request.
Consumed(k) ==
  IF buckets[k] = NoHost \/ buckets[k].resetAt <= now
  THEN [count |-> 1, resetAt |-> now + Window]
  ELSE [buckets[k] EXCEPT !.count = @ + 1]

\* Mutant of Cleaned: the whole map is emptied.
CleanedAll(bs) == [k \in Hosts |-> NoHost]

\* cleanup(): passed windows leave the map.
Cleaned(bs) ==
  [k \in Hosts |-> IF bs[k] # NoHost /\ bs[k].resetAt <= now THEN NoHost ELSE bs[k]]

\* use(): the request is counted, then refused with 429, or admitted and the map
\* cleaned if that was long ago.
Use(ip, forwarded) ==
  LET k == ClientKey(ip, forwarded)
      b == Consumed(k)
      bs == [buckets EXCEPT ![k] = b]
  IN /\ b.count <= MaxCount
     /\ answer' = [key |-> k, allowed |-> b.count <= Max]
     /\ IF b.count > Max
        THEN /\ buckets' = bs
             /\ UNCHANGED <<lastCleanupAt, admitted>>
        ELSE /\ admitted' = admitted \cup {[key |-> k, ip |-> ip, at |-> now, nth |-> b.count,
                                            until |-> b.resetAt]}
             /\ IF now >= lastCleanupAt + CleanupInterval
                THEN lastCleanupAt' = now /\ buckets' = Cleaned(bs)
                ELSE buckets' = bs /\ UNCHANGED lastCleanupAt
     /\ UNCHANGED now

Tick ==
  /\ now < MaxTime
  /\ now' = now + 1
  /\ answer' = NoHost
  /\ UNCHANGED <<buckets, lastCleanupAt, admitted>>

LimiterNext ==
  \/ Tick
  \/ \E ip \in Hosts, forwarded \in Hosts \cup {NoHost} : Use(ip, forwarded)

LimiterSpec == LimiterInit /\ [][LimiterNext]_limiterVars

------------------------------------------------------------------------------
(* Properties.                                                             *)

\* Types of the limiter's state.
LimiterTypeOK ==
  /\ now \in Nat
  /\ buckets \in [Hosts -> Bucket \cup {NoHost}]
  /\ lastCleanupAt \in Nat
  /\ answer \in [key : Hosts, allowed : BOOLEAN] \cup {NoHost}
  /\ admitted \in SUBSET [key : Hosts, ip : Hosts, at : Nat, nth : Nat,
                             until : Nat]

\* The promise of a fixed window over any stretch of time as long as one window:
\* at most 2 * Max requests with one key, and, when the header is not trusted,
\* with one address, whatever headers it sends.
AtMostTwoWindows ==
  \A h \in Hosts, t \in 0 .. now :
    LET Within(r) == t <= r.at /\ r.at < t + Window
    IN /\ Cardinality({r \in admitted : r.key = h /\ Within(r)}) <= 2 * Max
       /\ ~TrustProxy => Cardinality({r \in admitted : r.ip = h /\ Within(r)}) <= 2 * Max

\* Refused requests are counted too, and yet they lock nobody out: whoever is
\* refused was admitted Max times during the last Window.
RefusedOnlyWhenExhausted ==
  answer # NoHost /\ ~answer.allowed =>
    Cardinality({r \in admitted : r.key = answer.key /\ r.at > now - Window}) >= Max

\* The map does not keep the keys of clients long gone: every bucket still ran at
\* the last cleanup, and the last cleanup is recent whenever a request was admitted.
BucketsAreRecent ==
  /\ \A k \in Hosts : buckets[k] # NoHost => buckets[k].resetAt > lastCleanupAt
  /\ answer # NoHost /\ answer.allowed => now < lastCleanupAt + CleanupInterval

------------------------------------------------------------------------------
\* A bucket whose window has passed is as good as none.
Open ==
  [k \in Hosts |-> IF buckets[k] # NoHost /\ buckets[k].resetAt > now
                   THEN buckets[k] ELSE NoHost]

Windows == INSTANCE FixedWindow
             WITH Keys <- Hosts, Closed <- NoHost, open <- Open

\* Cleaning up is invisible: the middleware admits and refuses exactly what a
\* limiter with one everlasting counter per key would.
WindowSpec == Windows!FWSpec
==============================================================================
