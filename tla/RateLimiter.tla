----------------------------- MODULE RateLimiter -----------------------------
(***************************************************************************)
(* The two sliding windows: SocketRateLimiter, one socket and one event    *)
(* name, in memory (infra/websocket/rate-limiter.ts), and checkRateLimit,  *)
(* one key in Redis (shared/middleware/rate-limiter.ts), where any command *)
(* may fail.  Time is in ticks of Date.now().                              *)
(***************************************************************************)
EXTENDS Naturals, Sequences, FiniteSets

CONSTANTS
    MaxEvents,      \* maxEvents and maxRequests
    Window,         \* windowMs
    MaxTime         \* bound on the clock

ASSUME LimiterAssumption == MaxEvents \in Nat \ {0} /\ Window \in Nat \ {0} /\ MaxTime \in Nat

VARIABLES
    now,
    timestamps,     \* the bucket of the event name
    entries,        \* the sorted set: its members are its scores
    ttl,            \* when Redis drops the key; 0 when it does not
    refused,        \* times of the refused requests whose zrem is under way
    allowed,        \* history: times of the events allowed, of this socket
    admitted,       \* history: times of the requests counted and let through
    crowded         \* history: a zrem was for the time of a request let through

limiterVars == <<now, timestamps, entries, ttl, refused, allowed, admitted, crowded>>

LimiterInit ==
    /\ now = Window /\ timestamps = << >>
    /\ entries = {} /\ ttl = 0 /\ refused = {}
    /\ allowed = << >> /\ admitted = {} /\ crowded = FALSE

Tick ==
    /\ now < MaxTime
    /\ now' = now + 1
    /\ IF ttl # 0 /\ ttl =< now' THEN entries' = {} /\ ttl' = 0
                                 ELSE UNCHANGED <<entries, ttl>>
    /\ UNCHANGED <<timestamps, refused, allowed, admitted, crowded>>

\* The oldest k timestamps lie before windowStart, the next does not.
LeftWindow(times, k) ==
    /\ \A i \in 1 .. k : times[i] < now - Window
    /\ k < Len(times) => times[k + 1] >= now - Window

Outdated(times) == CHOOSE k \in 0 .. Len(times) : LeftWindow(times, k)

\* They are shifted off.
Pruned(times) == SubSeq(times, Outdated(times) + 1, Len(times))

\* checkLimit
CheckLimit ==
    LET recent == Pruned(timestamps)
    IN  /\ \/ /\ Len(recent) < MaxEvents
              /\ timestamps' = Append(recent, now)
              /\ allowed' = Append(allowed, now)
           \/ /\ Len(recent) >= MaxEvents
              /\ timestamps' = recent
              /\ UNCHANGED allowed
        /\ UNCHANGED <<now, entries, ttl, refused, admitted, crowded>>

\* removeSocketRateLimiter: a socket of the user ends, the next starts anew.
RemoveSocketRateLimiter ==
    /\ timestamps' = << >> /\ allowed' = << >>
    /\ UNCHANGED <<now, entries, ttl, refused, admitted, crowded>>

\* zremrangebyscore leaves these.
Recent == {t \in entries : t > now - Window}

\* Mutant: the key lives for a window from its first request.
MutantFixedWindow == IF ttl = 0 THEN now + Window ELSE ttl

\* pexpire, with every request
KeyTtl == now + Window

\* checkRateLimit: one pipeline, then next() or the answer 429
CheckRateLimit ==
    /\ entries' = Recent \cup {now} /\ ttl' = KeyTtl
    /\ IF Cardinality(Recent) < MaxEvents
       THEN admitted' = admitted \cup {now} /\ UNCHANGED refused
       ELSE refused' = refused \cup {now} /\ UNCHANGED admitted
    /\ UNCHANGED <<now, timestamps, allowed, crowded>>

(***************************************************************************)
(* The pipeline, or commands of it, fail: each may have had its effect or  *)
(* not (Redis drops the time to live with an empty key).  Without a count  *)
(* the request is let through, or refused with 503 by a limiter that fails *)
(* closed; with one, it may be refused as always.                          *)
(***************************************************************************)
CheckRateLimitFails ==
    \E counted \in {entries, Recent}, added \in {{}, {now}}, lives \in BOOLEAN :
        /\ entries' = counted \cup added
        /\ ttl' = CASE entries' = {}                   -> 0
                    [] entries' # {} /\ lives           -> KeyTtl
                    [] entries' # {} /\ ~lives          -> IF counted = {} THEN 0 ELSE ttl
        /\ \/ UNCHANGED refused
           \/ Cardinality(counted) >= MaxEvents /\ refused' = refused \cup {now}
        /\ UNCHANGED <<now, timestamps, allowed, admitted, crowded>>

\* zrem of the member that the refused request added, which is also that of any
\* other request of its millisecond; it may fail.
RemoveRefused ==
    \E t \in refused :
        /\ refused' = refused \ {t}
        /\ \/ entries' = entries \ {t} /\ crowded' = (crowded \/ t \in admitted)
           \/ UNCHANGED <<entries, crowded>>
        /\ UNCHANGED <<now, timestamps, ttl, allowed, admitted>>

LimiterNext ==
    \/ Tick \/ CheckLimit \/ RemoveSocketRateLimiter
    \/ CheckRateLimit \/ CheckRateLimitFails \/ RemoveRefused

LimiterSpec == LimiterInit /\ [][LimiterNext]_limiterVars

-----------------------------------------------------------------------------
(* Properties.                                                             *)

\* Whenever a window begins, a socket gets no more events through in it than
\* allowed: there is no burst where two windows meet.  Nor do more of a client's
\* requests, told by their times, pass the count, whatever Redis lost of other
\* requests, unless a refused request has removed the entry of one let through in
\* the same millisecond.  (Those for which Redis failed are let through uncounted:
\* the limiter fails open.)
NoBurst ==
    \A t \in Window .. MaxTime :
        /\ Cardinality({i \in DOMAIN allowed : allowed[i] \in t .. t + Window}) =< MaxEvents
        /\ ~crowded => Cardinality(admitted \cap (t .. t + Window - 1)) =< MaxEvents

=============================================================================
