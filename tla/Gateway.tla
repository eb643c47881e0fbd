-------------------------------- MODULE Gateway --------------------------------
(***************************************************************************)
(* What a request meets before and after its handler                       *)
(* (internal/api/middleware.go): the cache of answers to requests that     *)
(* carry an Idempotency-Key, and the limiter of logins.  Both are kept in  *)
(* memory, each under a mutex that is held for one lookup or one change.   *)
(***************************************************************************)
EXTENDS Integers, FiniteSetsExt

CONSTANTS
  Keys,     \* method, path and key: what an answer is cached for
  Clients,  \* requests in flight
  Ips,
  Limit, Window,  \* logins in an interval, from one address
  Day,      \* how long an answer is kept
  Horizon,  \* bound of the clock
  None

VARIABLES
  idempotency,  \* when the answer of a key was cached
  inflight,     \* where the request of a client is
  records,      \* the logins of an address that are remembered
  time,
  answered,  \* history: when the last answer of a key was cached, in this life
  latest,    \* history: the youngest time that was recorded or refused
  logins     \* history: logins that were let in, but for those that another
             \* with a later time had overtaken on the way to the mutex

vars == <<idempotency, inflight, records, time, answered, latest, logins>>

(* seen is history: an answer had been cached, at most a day before.       *)
InFlight ==
  [at : {"handler", "success"}, key : Keys, seen : BOOLEAN]
    \union [at : {"limiter"}, ip : Ips, now : 0 .. Horizon]

(* A login is its time; the number tells logins of one time apart.  They   *)
(* are a set: of the slice in the code only the length is looked at.       *)
Login == [at : 0 .. Horizon, nr : 1 .. Limit]

TypeOK ==
  /\ idempotency \in [Keys -> 0 .. Horizon \union {None}]
  /\ inflight \in [Clients -> InFlight \union {None}]
  /\ records \in [Ips -> SUBSET Login]
  /\ \A ip \in Ips : Cardinality(records[ip]) <= Limit
  /\ time \in 0 .. Horizon
  /\ answered \in [Keys -> 0 .. Horizon \union {None}]
  /\ latest \in [Ips -> 0 .. Horizon]
  /\ logins \in [Ips -> SUBSET Login]

limiter == <<records, latest, logins>>
cache   == <<idempotency, answered>>

Old(at) == at # None /\ time - at > Day

Empty(S, value) == [x \in S |-> value]

Init ==
  /\ idempotency = Empty(Keys, None) /\ answered = Empty(Keys, None)
  /\ inflight = Empty(Clients, None)
  /\ records = Empty(Ips, {}) /\ logins = Empty(Ips, {})
  /\ latest = Empty(Ips, 0)
  /\ time = 0

-----------------------------------------------------------------------------
(* withIdempotency, for methods that change something.                     *)

LookupClearing(c, k) ==  \* a mutant: one old answer takes the others with it
  /\ inflight[c] = None
  /\ idempotency' = IF \E j \in Keys : Old(idempotency[j]) THEN Empty(Keys, None) ELSE idempotency
  /\ IF idempotency'[k] # None THEN inflight' = inflight
     ELSE inflight' = [inflight EXCEPT ![c] =
            [at |-> "handler", key |-> k,
             seen |-> answered[k] # None /\ ~Old(answered[k])]]
  /\ UNCHANGED <<limiter, time, answered>>

(* Old answers are dropped at every lookup; one that is left is replayed.  *)
Lookup(c, k) ==
  /\ inflight[c] = None
  /\ idempotency' = [j \in Keys |-> IF Old(idempotency[j]) THEN None ELSE idempotency[j]]
  /\ IF idempotency'[k] # None THEN inflight' = inflight
     ELSE inflight' = [inflight EXCEPT ![c] =
            [at |-> "handler", key |-> k,
             seen |-> answered[k] # None /\ ~Old(answered[k])]]
  /\ UNCHANGED <<limiter, time, answered>>

(* The handler answers 2xx, or something else, which is not cached: a      *)
(* panic is answered 500.                                                  *)
Handle(c) ==
  /\ inflight[c] # None /\ inflight[c].at = "handler"
  /\ inflight' \in {[inflight EXCEPT ![c].at = "success"], [inflight EXCEPT ![c] = None]}
  /\ UNCHANGED <<cache, limiter, time>>

Remember(c) ==
  /\ inflight[c] # None /\ inflight[c].at = "success"
  /\ LET k == inflight[c].key
     IN  /\ idempotency' = [idempotency EXCEPT ![k] = time]
         /\ answered' = [answered EXCEPT ![k] = time]
  /\ inflight' = [inflight EXCEPT ![c] = None]
  /\ UNCHANGED <<limiter, time>>

-----------------------------------------------------------------------------
(* loginRateLimiter: the clock is read before the mutex is taken.          *)

ReadClock(c, ip) ==
  /\ inflight[c] = None
  /\ inflight' = [inflight EXCEPT ![c] = [at |-> "limiter", ip |-> ip, now |-> time]]
  /\ UNCHANGED <<cache, limiter, time>>

(* A login now that is not among the entries: there is one if they are     *)
(* fewer than the limit.                                                   *)
Entry(now, entries) == CHOOSE login \in [at : {now}, nr : 1 .. Limit] : login \notin entries

AllowSinceFirst(c) ==  \* a mutant: the count starts anew, an interval after its first login
  /\ inflight[c] # None /\ inflight[c].at = "limiter"
  /\ LET ip  == inflight[c].ip
         now == inflight[c].now
         entries == IF \E login \in records[ip] : login.at <= now - Window
                    THEN {} ELSE records[ip]
         allowed == Cardinality(entries) < Limit
     IN  /\ records' = [records EXCEPT ![ip] =
              IF allowed THEN entries \union {Entry(now, entries)} ELSE entries]
         /\ latest' = [latest EXCEPT ![ip] = IF now > @ THEN now ELSE @]
         /\ logins' = [logins EXCEPT ![ip] =
              IF allowed /\ now >= latest[ip] THEN @ \union {Entry(now, entries)} ELSE @]
  /\ inflight' = [inflight EXCEPT ![c] = None]
  /\ UNCHANGED <<cache, time>>

Allow(c) ==
  /\ inflight[c] # None /\ inflight[c].at = "limiter"
  /\ LET ip  == inflight[c].ip
         now == inflight[c].now
         filtered == {login \in records[ip] : login.at > now - Window}
         allowed == Cardinality(filtered) < Limit
     IN  /\ records' = [records EXCEPT ![ip] =
              IF allowed THEN filtered \union {Entry(now, filtered)} ELSE filtered]
         /\ latest' = [latest EXCEPT ![ip] = IF now > @ THEN now ELSE @]
         /\ logins' = [logins EXCEPT ![ip] =
              IF allowed /\ now >= latest[ip] THEN @ \union {Entry(now, filtered)} ELSE @]
  /\ inflight' = [inflight EXCEPT ![c] = None]
  /\ UNCHANGED <<cache, time>>

-----------------------------------------------------------------------------
(* All of it is in memory.                                                 *)
Restart ==
  /\ idempotency' = Empty(Keys, None) /\ answered' = Empty(Keys, None)
  /\ inflight' = Empty(Clients, None)
  /\ records' = Empty(Ips, {}) /\ logins' = Empty(Ips, {})
  /\ latest' = Empty(Ips, 0)
  /\ time' = time

Tick ==
  /\ time < Horizon
  /\ time' = time + 1
  /\ UNCHANGED <<inflight, cache, limiter>>

Next ==
  \/ \E c \in Clients :
       \/ \E k \in Keys : Lookup(c, k)
       \/ Handle(c) \/ Remember(c)
       \/ \E ip \in Ips : ReadClock(c, ip)
       \/ Allow(c)
  \/ Restart \/ Tick

Spec == Init /\ [][Next]_vars

-----------------------------------------------------------------------------
(* A request that succeeds is not run again when its key comes again: only *)
(* if the second came before the first was done, or more than a day later, *)
(* or the process was started anew in between.                             *)
KeyedRunsOnce ==
  \A c \in Clients : inflight[c] # None /\ inflight[c].at = "success" => ~inflight[c].seen

(* No interval of that length sees more logins than the limit from one     *)
(* address, wherever it begins; logins that were overtaken are not         *)
(* counted, and may come in addition.                                      *)
AtMostLimitPerWindow ==
  \A ip \in Ips, t \in 0 .. Horizon :
    Cardinality({login \in logins[ip] : t - Window < login.at /\ login.at <= t}) <= Limit
================================================================================
