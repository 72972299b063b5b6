----------------------------- MODULE RateLimiter -----------------------------
(***************************************************************************)
(* ratelimiter/ratelimiter.go: a middleware that asks a RateLimiter before *)
(* it runs the next handler, and the implementation NewRateLimiter returns *)
(* (one token bucket per source, the buckets kept in an LRU cache).        *)
(*                                                                         *)
(* Every session runs on a goroutine of its own, so the steps of Allow     *)
(* interleave.  The cache and a bucket each have a mutex of their own:     *)
(* one cache call, or one call of a bucket, is one step; nothing makes the *)
(* lookup, the test and the insertion of one Allow a single step.          *)
(*                                                                         *)
(* A bucket is named by the session whose Allow created it.  Tokens are    *)
(* counted in units: an event takes Cost units and a tick of the clock     *)
(* adds Rate of them, so Rate/Cost is the code's rate per tick.            *)
(***************************************************************************)
EXTENDS Integers, Sequences, FiniteSets

CONSTANTS Sessions,    \* the sessions that connect, each calling Allow once
          Addrs,       \* remote addresses, records [net, ip, port]
          Burst,       \* NewRateLimiter's burst
          Rate,        \* units a bucket gains in a tick
          Cost,        \* units of one token
          MaxEntries,  \* NewRateLimiter's maxEntries, any integer
          MaxTime      \* bound on the clock

ASSUME RateAssumption == /\ Burst \in Nat
                         /\ Rate \in Nat
                         /\ Cost \in Nat \ {0}

ASSUME EntriesAssumption == MaxEntries \in Int

ASSUME TimeAssumption == MaxTime \in Nat

ASSUME AddrsAssumption == \A a \in Addrs : {"net", "ip", "port"} \subseteq DOMAIN a

VARIABLES
    pc,       \* where each session is in the middleware
    addr,     \* s.RemoteAddr()
    limiter,  \* the bucket Allow holds; a session's own name until a hit
    allowed,  \* Allow's local variable
    cache,    \* r.cache, most recently used entry first
    bucket,   \* each bucket's [tokens, last]
    now,      \* time.Now()
    grants,   \* history: the times at which each bucket gave a token
    past,     \* history: the sessions whose Allow was over at s's lookup
    lost      \* history: the keys whose entry was evicted or replaced

vars == <<pc, addr, limiter, allowed, cache, bucket, now, grants, past, lost>>

-----------------------------------------------------------------------------
(* An address and its key: the IP alone for TCP, all of it otherwise.      *)

(* Mutant: the port is part of every key. *)
KeyOfWithPort(a) == <<a.ip, a.port>>

(* Mutant: every address is reduced to its host. *)
KeyOfHostOnly(a) == <<a.ip>>

KeyOf(a) == IF a.net = "tcp" THEN <<a.ip>> ELSE <<a.ip, a.port>>

Keys == {KeyOf(a) : a \in Addrs}

Key(s) == KeyOf(addr[s])

(* The cache's capacity: NewRateLimiter never asks for an empty cache. *)
Entries == IF MaxEntries <= 0 THEN 1 ELSE MaxEntries

-----------------------------------------------------------------------------
(* golang-lru: Get moves the entry it finds to the front; Add replaces and *)
(* moves the entry of a known key, or pushes and drops the oldest entry.   *)

Holds(c, i, k) == i \in DOMAIN c /\ c[i].key = k

Known(c, k) == \E i \in DOMAIN c : c[i].key = k

Promote(c, i) == [j \in 1..Len(c) |-> IF j = 1 THEN c[i]
                                      ELSE IF j <= i THEN c[j - 1] ELSE c[j]]

(* Mutant: the oldest entry stays. *)
PushUnbounded(c, e) == <<e>> \o c

Push(c, e) == [j \in 1..(IF Len(c) < Entries THEN Len(c) + 1 ELSE Entries) |->
                 IF j = 1 THEN e ELSE c[j - 1]]

(* x/time/rate: tokens accrue with time up to the burst, and are counted   *)
(* when the bucket is asked.  A refusal leaves the bucket as it was.       *)

Full == Burst * Cost

Available(b) == LET accrued == b.tokens + Rate * (now - b.last)
                IN  IF accrued > Full THEN Full ELSE accrued

(* Mutant: the last whole token is never given. *)
PermitsStrict(b) == Available(b) > Cost

Permits(b) == Available(b) >= Cost

(* Mutant: a refusal is charged too. *)
TakenAlways(b) == [tokens |-> Available(b) - Cost, last |-> now]

(* Mutant: the time of the last event is not moved forward. *)
TakenStale(b) == IF Permits(b) THEN [tokens |-> Available(b) - Cost, last |-> b.last] ELSE b

Taken(b) == IF Permits(b) THEN [tokens |-> Available(b) - Cost, last |-> now] ELSE b

NewLimiter == [tokens |-> Full, last |-> now]

-----------------------------------------------------------------------------

Init == /\ pc = [s \in Sessions |-> "idle"]
        /\ addr \in [Sessions -> Addrs]
        /\ limiter = [s \in Sessions |-> s]
        /\ allowed = [s \in Sessions |-> FALSE]
        /\ cache = <<>>
        /\ bucket = [s \in Sessions |-> [tokens |-> Full, last |-> 0]]
        /\ now = 0
        /\ grants = [s \in Sessions |-> <<>>]
        /\ past = [s \in Sessions |-> {}]
        /\ lost = {}

Goto(s, from, to) == pc[s] = from /\ pc' = [pc EXCEPT ![s] = to]

(* A session reaches the middleware; Allow is called. *)
Connect(s) == /\ Goto(s, "idle", "get")
              /\ UNCHANGED <<addr, limiter, allowed, cache, bucket, now, grants, past, lost>>

Over == {t \in Sessions : pc[t] \in {"checked", "served", "refused"}}

(* limiter, ok := r.cache.Get(key), and ok *)
CacheHit(s) ==
    /\ Goto(s, "get", "hit")
    /\ \E i \in DOMAIN cache : /\ Holds(cache, i, Key(s))
                               /\ limiter' = [limiter EXCEPT ![s] = cache[i].lim]
                               /\ cache' = Promote(cache, i)
    /\ past' = [past EXCEPT ![s] = Over]
    /\ UNCHANGED <<addr, allowed, bucket, now, grants, lost>>

(* limiter, ok := r.cache.Get(key), and !ok *)
CacheMiss(s) ==
    /\ Goto(s, "get", "miss")
    /\ ~ Known(cache, Key(s))
    /\ past' = [past EXCEPT ![s] = Over]
    /\ UNCHANGED <<addr, limiter, allowed, cache, bucket, now, grants, lost>>

(* limiter.Allow() on bucket l, whose state is b when it is called *)
Take(s, l, b) ==
    /\ allowed' = [allowed EXCEPT ![s] = Permits(b)]
    /\ bucket' = [bucket EXCEPT ![l] = Taken(b)]
    /\ grants' = IF Permits(b) THEN [grants EXCEPT ![l] = Append(@, now)] ELSE grants

LimiterAllow(s) == /\ Goto(s, "hit", "checked")
                   /\ Take(s, limiter[s], bucket[limiter[s]])
                   /\ UNCHANGED <<addr, limiter, cache, now, past, lost>>

(* The fresh bucket is asked before any other session can see it. *)
NewLimiterAllow(s) == /\ Goto(s, "miss", "add")
                      /\ Take(s, s, NewLimiter)
                      /\ limiter' = [limiter EXCEPT ![s] = s]
                      /\ UNCHANGED <<addr, cache, now, past, lost>>

(* r.cache.Add(key, limiter) *)
CacheAdd(s) ==
    LET entry == [key |-> Key(s), lim |-> limiter[s]]
    IN  /\ Goto(s, "add", "checked")
        /\ \/ \E i \in DOMAIN cache :
                /\ Holds(cache, i, Key(s))
                /\ cache' = [Promote(cache, i) EXCEPT ![1] = entry]
                /\ lost' = lost \cup {Key(s)}
           \/ /\ ~ Known(cache, Key(s))
              /\ cache' = Push(cache, entry)
              /\ lost' = IF Len(cache) < Entries THEN lost
                         ELSE lost \cup {cache[Len(cache)].key}
        /\ UNCHANGED <<addr, limiter, allowed, bucket, now, grants, past>>

(* Allow returned nil: sh(s) runs. *)
Serve(s) == /\ allowed[s]
            /\ Goto(s, "checked", "served")
            /\ UNCHANGED <<addr, limiter, allowed, cache, bucket, now, grants, past, lost>>

(* Allow returned ErrRateLimitExceeded: wish.Fatal(s, err), exit status 1. *)
Refuse(s) == /\ ~ allowed[s]
             /\ Goto(s, "checked", "refused")
             /\ UNCHANGED <<addr, limiter, allowed, cache, bucket, now, grants, past, lost>>

Tick == /\ now < MaxTime
        /\ now' = now + 1
        /\ UNCHANGED <<pc, addr, limiter, allowed, cache, bucket, grants, past, lost>>

Step(s) == CacheHit(s) \/ CacheMiss(s) \/ LimiterAllow(s) \/ NewLimiterAllow(s)
             \/ CacheAdd(s) \/ Serve(s) \/ Refuse(s)

Next == Tick \/ \E s \in Sessions : Connect(s) \/ Step(s)

(* A goroutine that is not blocked runs; a client need not connect. *)
Spec == Init /\ [][Next]_vars /\ \A s \in Sessions : WF_vars(Step(s))

-----------------------------------------------------------------------------
(* Properties *)

Entry == [key : Keys, lim : Sessions]

Bucket == [tokens : 0..Full, last : Nat]

(* The values each variable takes. *)
TypeOK == /\ pc \in [Sessions -> {"idle", "get", "hit", "miss", "add",
                                  "checked", "served", "refused"}]
          /\ addr \in [Sessions -> Addrs]
          /\ limiter \in [Sessions -> Sessions]
          /\ allowed \in [Sessions -> BOOLEAN]
          /\ cache \in Seq(Entry)
          /\ bucket \in [Sessions -> Bucket]
          /\ now \in Nat
          /\ grants \in [Sessions -> Seq(Nat)]
          /\ past \in [Sessions -> SUBSET Sessions]
          /\ lost \in SUBSET Keys

(* What a token bucket promises of a sequence of grant times: in every     *)
(* window that starts and ends at a grant, at most burst tokens plus what  *)
(* accrued in the window.                                                  *)
WindowBound(g) == \A i, j \in DOMAIN g :
                     i <= j => Cost * (j - i + 1) <= Full + Rate * (g[j] - g[i])

(* "allows events up to rate r, permits bursts of at most burst tokens"    *)
(* (NewRateLimiter): no interleaving of the sessions that share a bucket   *)
(* draws more from it, in any window, than the burst and the accrual.      *)
BucketBound == \A l \in Sessions : WindowBound(grants[l])

(* Sources do not share buckets: sessions whose addresses differ in the IP *)
(* (or, off TCP, in anything) are never charged to one bucket, however     *)
(* lookups, insertions and evictions interleave (Allow's key).             *)
SourcesIsolated ==
    \A s, t \in Sessions :
        /\ pc[s] \in {"hit", "checked", "served", "refused"}
        /\ pc[t] \in {"hit", "checked", "served", "refused"}
        /\ limiter[s] = limiter[t]
        => /\ (addr[s].net = "tcp") <=> (addr[t].net = "tcp")
           /\ addr[s].ip = addr[t].ip
           /\ addr[s].net = "tcp" \/ addr[s].port = addr[t].port

(* The cache holds one bucket per key and never more than maxEntries of    *)
(* them (one when maxEntries is not positive), each put there for its key. *)
CacheSound == /\ Len(cache) <= Entries
              /\ \A i, j \in DOMAIN cache : cache[i].key = cache[j].key => i = j
              /\ \A i \in DOMAIN cache : Key(cache[i].lim) = cache[i].key

(* A TCP client does not get a fresh burst by connecting again from        *)
(* another port: a session that looks its key up after an earlier one of   *)
(* the same IP was done is charged to the same bucket, unless that bucket  *)
(* was evicted or replaced in the cache.                                   *)
SameBucket ==
    \A t \in Sessions : pc[t] \in {"hit", "miss", "add", "checked", "served", "refused"} =>
      \A s \in past[t] :
        (/\ addr[s].net = "tcp" /\ addr[t].net = "tcp"
         /\ addr[s].ip = addr[t].ip
         /\ KeyOf(addr[s]) \notin lost)
           => (pc[t] # "miss" /\ limiter[t] = limiter[s])

(* The middleware implements the gate of module TokenGate: the lookup, the *)
(* test and the insertion of an Allow come to one decision, on one bucket, *)
(* which refuses exactly when a grant would break the bound, and every     *)
(* session that asks is answered with what was decided for it.             *)
Verdict(s) == CASE pc[s] = "idle" -> "out"
                [] pc[s] \in {"get", "hit", "miss"} -> "asked"
                [] pc[s] \in {"add", "checked"} -> IF allowed[s] THEN "yes" ELSE "no"
                [] OTHER -> pc[s]

Gate == INSTANCE TokenGate WITH Buckets <- Sessions, log <- grants, clock <- now,
                                verdict <- [s \in Sessions |-> Verdict(s)]

ImplementsGate == Gate!GateSpec

(* NewRateLimiter's comment taken as what it says of a source, "the key is *)
(* the remote IP address": the grants of all the buckets of one TCP        *)
(* address keep the bound together while the cache has room for everyone.  *)
GrantsOf(ip) == UNION {{l} \X DOMAIN grants[l] :
                         l \in {s \in Sessions : addr[s].net = "tcp" /\ addr[s].ip = ip}}

SourceBound ==
    \A a \in Addrs : a.net = "tcp" =>
        Cost * Cardinality(GrantsOf(a.ip)) <= Full + Rate * now
=============================================================================
