-------------------------- MODULE RateLimiterProofs --------------------------
(***************************************************************************)
(* What RateLimiter guarantees for every set of sessions and addresses,    *)
(* every rate and burst and every cache size.                              *)
(*                                                                         *)
(* BucketBound is not inductive: whether the next grant keeps the bound    *)
(* depends on the tokens left.  Ledger ties them to the grants: from any   *)
(* earlier grant on, the tokens spent plus the tokens left never exceed    *)
(* the burst and the accrual.  Fresh says why creating a bucket cannot     *)
(* forget grants (a bucket is filled once, before anyone else holds it),   *)
(* and Owned why a bucket found in the cache was made for the same key.    *)
(***************************************************************************)
EXTENDS RateLimiter, TLAPS

Done == {"checked", "served", "refused"}

Balanced(g, b) ==
    \A i \in DOMAIN g :
        Cost * (Len(g) - i + 1) + b.tokens <= Full + Rate * (b.last - g[i])

Ledger(l) == bucket[l].last <= now /\ Balanced(grants[l], bucket[l])

Fresh == /\ \A s \in Sessions : pc[s] \in {"idle", "get", "miss"} => grants[s] = <<>>
         /\ \A s \in Sessions : pc[s] = "add" => limiter[s] = s
         /\ \A s \in Sessions : pc[s] = "hit" => pc[limiter[s]] \in Done
         /\ \A i \in DOMAIN cache : pc[cache[i].lim] \in Done

Owned == \A s \in Sessions : KeyOf(addr[limiter[s]]) = KeyOf(addr[s])

Ledgers == \A l \in Sessions : Ledger(l) /\ WindowBound(grants[l])

Inv == TypeOK /\ Fresh /\ Ledgers /\ CacheSound /\ Owned

-----------------------------------------------------------------------------
(* The cache's capacity is a positive number whatever maxEntries is. *)
LEMMA EntriesPositive == Entries \in Nat \ {0}
  BY EntriesAssumption DEF Entries

(* A full bucket holds a natural number of units. *)
LEMMA FullNat == Full \in Nat
  BY RateAssumption DEF Full

(* A key of the cache is a key of an address. *)
LEMMA KeyType == ASSUME TypeOK, NEW s \in Sessions PROVE Key(s) \in Keys
  BY DEF TypeOK, Key, Keys

(* The place an entry had before Get moved the entry at i to the front. *)
Origin(i, j) == IF j = 1 THEN i ELSE IF j <= i THEN j - 1 ELSE j

(* What Get does to the cache: d holds the entries of c, and entries at    *)
(* different places come from different places.                            *)
Moved(c, d, i) ==
    /\ Len(d) = Len(c)
    /\ DOMAIN d = 1..Len(c)
    /\ DOMAIN c = 1..Len(c)
    /\ \A j \in 1..Len(c) : Origin(i, j) \in 1..Len(c) /\ d[j] = c[Origin(i, j)]
    /\ \A j, k \in 1..Len(c) : Origin(i, j) = Origin(i, k) => j = k

(* A hit keeps the entries and moves the one that was hit to the front. *)
LEMMA PromoteSeq ==
  ASSUME NEW S, NEW c \in Seq(S), NEW i \in DOMAIN c
  PROVE  Promote(c, i) \in Seq(S) /\ Moved(c, Promote(c, i), i)
  <1>1. DOMAIN c = 1..Len(c) /\ Len(c) \in Nat
    OBVIOUS
  <1>2. \A j \in 1..Len(c) : /\ Origin(i, j) \in DOMAIN c
                             /\ Promote(c, i)[j] = c[Origin(i, j)]
    BY <1>1 DEF Promote, Origin
  <1>3. \A j, k \in 1..Len(c) : Origin(i, j) = Origin(i, k) => j = k
    BY <1>1 DEF Origin
  <1>4. Promote(c, i) \in [1..Len(c) -> S]
    BY <1>1 DEF Promote
  <1> QED BY <1>1, <1>2, <1>3, <1>4 DEF Moved

(* Add of a new key: one entry more, or as many as the cache may hold. *)
Pushed(c, d, e) ==
    /\ Len(d) \in Nat
    /\ Len(d) <= Entries
    /\ DOMAIN d = 1..Len(d)
    /\ Len(d) <= Len(c) + 1
    /\ \A j \in DOMAIN d : d[j] = IF j = 1 THEN e ELSE c[j - 1]

(* An insertion puts one entry first and drops at most the oldest one. *)
LEMMA PushSeq ==
  ASSUME NEW S, NEW c \in Seq(S), NEW e \in S, Len(c) <= Entries
  PROVE  Push(c, e) \in Seq(S) /\ Pushed(c, Push(c, e), e)
  <1> DEFINE n == IF Len(c) < Entries THEN Len(c) + 1 ELSE Entries
  <1>1. n \in Nat /\ n >= 1 /\ n <= Entries /\ n <= Len(c) + 1
    BY EntriesPositive
  <1>2. \A j \in 1..n : (IF j = 1 THEN e ELSE c[j - 1]) \in S
    BY <1>1
  <1> HIDE DEF n
  <1>3. Push(c, e) = [j \in 1..n |-> IF j = 1 THEN e ELSE c[j - 1]]
    BY DEF Push, n
  <1> QED BY <1>1, <1>2, <1>3 DEF Pushed

(* Replacing the value of the first entry. *)
LEMMA ExceptSeq ==
  ASSUME NEW S, NEW c \in Seq(S), NEW e \in S
  PROVE  [c EXCEPT ![1] = e] \in Seq(S)
  <1>1. c \in [1..Len(c) -> S] /\ Len(c) \in Nat
    OBVIOUS
  <1>2. [c EXCEPT ![1] = e] \in [1..Len(c) -> S]
    BY <1>1
  <1> QED BY <1>1, <1>2

(* An entry of the cache is a key and a bucket. *)
LEMMA EntryType ==
  ASSUME TypeOK, NEW i \in DOMAIN cache
  PROVE  cache[i].lim \in Sessions /\ cache[i].key \in Keys
  <1>1. cache[i] \in Entry
    BY DEF TypeOK
  <1> QED BY <1>1 DEF Entry

(* The tokens at hand are between nothing and a full bucket. *)
LEMMA AvailableType ==
  ASSUME NEW b \in Bucket, now \in Nat, b.last <= now
  PROVE  /\ Available(b) \in 0..Full
         /\ Available(b) <= b.tokens + Rate * (now - b.last)
         /\ Taken(b) \in Bucket
         /\ Permits(b) => Taken(b) = [tokens |-> Available(b) - Cost, last |-> now]
         /\ ~ Permits(b) => Taken(b) = b
  <1>1. Rate * (now - b.last) \in Nat
    BY RateAssumption DEF Bucket
  <1>2. Available(b) \in 0..Full /\ Available(b) <= b.tokens + Rate * (now - b.last)
    BY <1>1, FullNat DEF Available, Bucket
  <1> QED BY <1>2, FullNat, RateAssumption DEF Taken, Permits, Bucket

-----------------------------------------------------------------------------
(* Arithmetic of products, which the solver does not find by itself. *)
LEMMA ProductType ==
  ASSUME NEW a \in Int, NEW b \in Int
  PROVE  /\ a * b \in Int
         /\ a * (b + 1) = a * b + a
         /\ (a >= 0 /\ b >= 0) => a * b >= 0
  OBVIOUS

(* What accrues from d to b is what accrues from d to c and from c to b. *)
LEMMA AccrualAdds ==
  ASSUME NEW a \in Int, NEW b \in Int, NEW c \in Int, NEW d \in Int
  PROVE  a * (b - d) = a * (b - c) + a * (c - d)
  OBVIOUS

(* Spending from what is at hand keeps spent and left within the bound. *)
LEMMA SpendBalanced ==
  ASSUME NEW spent \in Int, NEW left \in Int, NEW full \in Int, NEW before \in Int,
         NEW since \in Int, NEW avail \in Int, NEW cost \in Int,
         spent + left <= full + before, avail <= left + since
  PROVE  spent + cost + (avail - cost) <= full + (since + before)
  OBVIOUS

(* One limiter.Allow() on a bucket that keeps its ledger: whether it gives *)
(* a token or not, the ledger and the bound are kept.                      *)
LEMMA TakeKeepsLedger ==
  ASSUME NEW g \in Seq(Nat), NEW b \in Bucket, now \in Nat, b.last <= now,
         Balanced(g, b), WindowBound(g), Permits(b),
         NEW g1, g1 = Append(g, now)
  PROVE  Balanced(g1, Taken(b)) /\ WindowBound(g1)
  <1> DEFINE n == Len(g)
  <1>1. /\ Available(b) \in 0..Full
        /\ Available(b) <= b.tokens + Rate * (now - b.last)
        /\ Taken(b) = [tokens |-> Available(b) - Cost, last |-> now]
        /\ Available(b) >= Cost
    BY AvailableType DEF Permits
  <1>2. /\ g1 \in Seq(Nat) /\ Len(g1) = n + 1 /\ g1[n + 1] = now
        /\ DOMAIN g1 = 1..(n + 1) /\ DOMAIN g = 1..n /\ n \in Nat
        /\ \A i \in 1..n : g1[i] = g[i]
    OBVIOUS
  <1>3. ASSUME NEW i \in 1..n
        PROVE  Cost * (n + 1 - i + 1) + (Available(b) - Cost) <= Full + Rate * (now - g[i])
    <2> DEFINE spent == Cost * (n - i + 1)
               before == Rate * (b.last - g[i])
               since == Rate * (now - b.last)
    <2>1. /\ Cost \in Int /\ Rate \in Int /\ g[i] \in Int /\ n - i + 1 \in Int
          /\ b.last \in Int /\ b.tokens \in Int /\ now \in Int
      BY <1>2, RateAssumption DEF Bucket
    <2>2. /\ spent \in Int /\ Cost * (n + 1 - i + 1) = spent + Cost
      <3>1. n + 1 - i + 1 = (n - i + 1) + 1
        BY <1>2
      <3> QED BY <3>1, <2>1, ProductType
    <2>3. before \in Int /\ since \in Int
      <3>1. b.last - g[i] \in Int /\ now - b.last \in Int
        BY <2>1
      <3> QED BY <3>1, <2>1, ProductType
    <2>4. Rate * (now - g[i]) = since + before
      BY <2>1, AccrualAdds
    <2>5. spent + b.tokens <= Full + before
      BY <1>2 DEF Balanced
    <2>6. Available(b) <= b.tokens + since /\ Available(b) \in Int
      BY <1>1
    <2> HIDE DEF spent, before, since
    <2>7. spent + Cost + (Available(b) - Cost) <= Full + (since + before)
      <3>1. spent \in Int
        BY <2>2
      <3>2. Full \in Int
        BY FullNat
      <3> QED BY <3>1, <3>2, <2>1, <2>3, <2>5, <2>6, SpendBalanced
    <2> QED BY <2>2, <2>4, <2>7
  <1>4. Cost * (n + 1 - (n + 1) + 1) + (Available(b) - Cost) <= Full + Rate * (now - now)
    <2>1. Cost * (n + 1 - (n + 1) + 1) = Cost /\ Rate * (now - now) = 0
      BY <1>2, RateAssumption
    <2> QED BY <2>1, <1>1, RateAssumption, FullNat
  <1>5. \A i \in 1..(n + 1) :
            Cost * (n + 1 - i + 1) + (Available(b) - Cost) <= Full + Rate * (now - g1[i])
    <2> SUFFICES ASSUME NEW i \in 1..(n + 1)
                 PROVE  Cost * (n + 1 - i + 1) + (Available(b) - Cost)
                           <= Full + Rate * (now - g1[i])
      OBVIOUS
    <2>1. CASE i \in 1..n
      BY <2>1, <1>2, <1>3
    <2>2. CASE i = n + 1
      BY <2>2, <1>2, <1>4
    <2> QED BY <2>1, <2>2, <1>2
  <1>6. \A i \in DOMAIN g1 :
           Cost * (Len(g1) - i + 1) + Taken(b).tokens
              <= Full + Rate * (Taken(b).last - g1[i])
    BY <1>1, <1>2, <1>5
  <1>7. ASSUME NEW i \in DOMAIN g1, NEW j \in DOMAIN g1, i <= j
        PROVE  Cost * (j - i + 1) <= Full + Rate * (g1[j] - g1[i])
    <2>1. CASE j \in 1..n
      BY <2>1, <1>2, <1>7 DEF WindowBound
    <2>2. CASE j = n + 1
      <3> DEFINE spent == Cost * (n + 1 - i + 1)
                 gained == Rate * (now - g1[i])
      <3>1. spent + (Available(b) - Cost) <= Full + gained
        BY <1>2, <1>5
      <3>2. i \in Nat /\ g1[i] \in Nat /\ Cost \in Int /\ Rate \in Int
        BY <1>2, RateAssumption
      <3>3. spent \in Int /\ gained \in Int
        <4>1. n + 1 - i + 1 \in Int /\ now - g1[i] \in Int
          BY <3>2, <1>2
        <4> QED BY <4>1, <3>2, ProductType
      <3> HIDE DEF spent, gained
      <3>4. spent <= Full + gained
        BY <3>1, <3>2, <3>3, <1>1, FullNat
      <3>5. spent = Cost * (j - i + 1) /\ gained = Rate * (g1[j] - g1[i])
        BY <2>2, <1>2 DEF spent, gained
      <3> QED BY <3>4, <3>5
    <2> QED BY <2>1, <2>2, <1>2
  <1> QED BY <1>6, <1>7 DEF WindowBound, Balanced

-----------------------------------------------------------------------------
(* The values of every variable keep their types, clock and grant history  *)
(* included, in every interleaving of Allow (ratelimiter.go).               *)
LEMMA TypeInit == Init => TypeOK
  BY FullNat DEF Init, TypeOK, Bucket

(* Asking a bucket leaves a bucket, and a history of grants. *)
LEMMA TakeType ==
  ASSUME TypeOK, NEW s \in Sessions, NEW l \in Sessions, NEW b \in Bucket,
         b.last <= now, Take(s, l, b)
  PROVE  /\ allowed' \in [Sessions -> BOOLEAN]
         /\ bucket' \in [Sessions -> Bucket]
         /\ grants' \in [Sessions -> Seq(Nat)]
  <1>1. Taken(b) \in Bucket
    BY AvailableType DEF TypeOK
  <1>2. allowed' \in [Sessions -> BOOLEAN]
    <2>1. Permits(b) \in BOOLEAN
      BY DEF Permits
    <2> QED BY <2>1, Zenon DEF TypeOK, Take
  <1>3. bucket' \in [Sessions -> Bucket]
    BY <1>1 DEF TypeOK, Take
  <1>4. grants' \in [Sessions -> Seq(Nat)]
    <2>1. Append(grants[l], now) \in Seq(Nat)
      BY DEF TypeOK
    <2> QED BY <2>1 DEF TypeOK, Take
  <1> QED BY <1>2, <1>3, <1>4

(* rate.NewLimiter makes a bucket. *)
LEMMA NewLimiterType ==
  ASSUME TypeOK
  PROVE  NewLimiter \in Bucket /\ NewLimiter.last = now /\ NewLimiter.tokens = Full
  BY FullNat DEF NewLimiter, Bucket, TypeOK

(* Every action keeps the types. *)
LEMMA TypeStep ==
  ASSUME Inv, [Next]_vars
  PROVE  TypeOK'
  <1>0. TypeOK /\ Ledgers /\ Len(cache) <= Entries
    BY DEF Inv, CacheSound
  <1> USE <1>0
  <1>1. CASE Tick
    BY <1>1 DEF TypeOK, Tick
  <1>2. ASSUME NEW s \in Sessions, Connect(s) PROVE TypeOK'
    BY <1>2 DEF TypeOK, Connect, Goto
  <1>3. ASSUME NEW s \in Sessions, CacheHit(s) PROVE TypeOK'
    <2>1. PICK i \in DOMAIN cache : /\ limiter' = [limiter EXCEPT ![s] = cache[i].lim]
                                    /\ cache' = Promote(cache, i)
      BY <1>3 DEF CacheHit
    <2>2. cache[i].lim \in Sessions
      BY EntryType
    <2>3. cache' \in Seq(Entry)
      BY <2>1, PromoteSeq DEF TypeOK
    <2>4. past' \in [Sessions -> SUBSET Sessions]
      BY <1>3 DEF CacheHit, TypeOK, Over
    <2> QED BY <1>3, <2>1, <2>2, <2>3, <2>4 DEF TypeOK, CacheHit, Goto
  <1>4. ASSUME NEW s \in Sessions, CacheMiss(s) PROVE TypeOK'
    BY <1>4 DEF TypeOK, CacheMiss, Goto, Over
  <1>5. ASSUME NEW s \in Sessions, LimiterAllow(s) PROVE TypeOK'
    <2>1. limiter[s] \in Sessions /\ bucket[limiter[s]] \in Bucket
      BY DEF TypeOK
    <2>2. bucket[limiter[s]].last <= now
      BY <2>1 DEF Ledgers, Ledger
    <2> QED BY <1>5, <2>1, <2>2, TakeType DEF TypeOK, LimiterAllow, Goto
  <1>6. ASSUME NEW s \in Sessions, NewLimiterAllow(s) PROVE TypeOK'
    BY <1>6, TakeType, NewLimiterType DEF TypeOK, NewLimiterAllow, Goto
  <1>7. ASSUME NEW s \in Sessions, CacheAdd(s) PROVE TypeOK'
    <2> DEFINE entry == [key |-> Key(s), lim |-> limiter[s]]
    <2>1. entry \in Entry /\ Key(s) \in Keys
      BY KeyType DEF TypeOK, Entry
    <2>2. CASE \E i \in DOMAIN cache :
                 /\ cache' = [Promote(cache, i) EXCEPT ![1] = entry]
                 /\ lost' = lost \cup {Key(s)}
      <3>1. PICK i \in DOMAIN cache : /\ cache' = [Promote(cache, i) EXCEPT ![1] = entry]
                                      /\ lost' = lost \cup {Key(s)}
        BY <2>2
      <3>2. Promote(cache, i) \in Seq(Entry)
        BY PromoteSeq DEF TypeOK
      <3>3. cache' \in Seq(Entry)
        BY <3>1, <3>2, <2>1, ExceptSeq
      <3> QED BY <1>7, <3>1, <3>3, <2>1 DEF TypeOK, CacheAdd, Goto
    <2>3. CASE /\ cache' = Push(cache, entry)
               /\ lost' = IF Len(cache) < Entries THEN lost
                          ELSE lost \cup {cache[Len(cache)].key}
      <3>1. cache' \in Seq(Entry)
        BY <2>3, <2>1, PushSeq DEF TypeOK
      <3>2. lost' \in SUBSET Keys
        <4>1. CASE Len(cache) < Entries
          BY <2>3, <4>1 DEF TypeOK
        <4>2. CASE ~ (Len(cache) < Entries)
          <5>1. Len(cache) \in DOMAIN cache
            BY <4>2, EntriesPositive DEF TypeOK
          <5>2. cache[Len(cache)].key \in Keys
            BY <5>1, EntryType
          <5> QED BY <2>3, <4>2, <5>2 DEF TypeOK
        <4> QED BY <4>1, <4>2
      <3> QED BY <1>7, <3>1, <3>2 DEF TypeOK, CacheAdd, Goto
    <2> QED BY <1>7, <2>2, <2>3 DEF CacheAdd
  <1>8. ASSUME NEW s \in Sessions, Serve(s) \/ Refuse(s) PROVE TypeOK'
    BY <1>8 DEF TypeOK, Serve, Refuse, Goto
  <1>9. CASE UNCHANGED vars
    BY <1>9 DEF TypeOK, vars
  <1> QED BY <1>1, <1>2, <1>3, <1>4, <1>5, <1>6, <1>7, <1>8, <1>9 DEF Next, Step

(* A bucket is filled by its creator before anyone else can hold it. *)
LEMMA FreshStep ==
  ASSUME Inv, [Next]_vars
  PROVE  Fresh'
  <1> USE DEF Inv, Done
  <1>1. CASE Tick
    BY <1>1 DEF Fresh, Tick
  <1>2. ASSUME NEW s \in Sessions, Connect(s) PROVE Fresh'
    BY <1>2, EntryType DEF TypeOK, Fresh, Connect, Goto
  <1>3. ASSUME NEW s \in Sessions, CacheHit(s) PROVE Fresh'
    <2>1. PICK i \in DOMAIN cache : /\ limiter' = [limiter EXCEPT ![s] = cache[i].lim]
                                    /\ cache' = Promote(cache, i)
      BY <1>3 DEF CacheHit
    <2>2. /\ DOMAIN cache' = DOMAIN cache
          /\ \A j \in DOMAIN cache' : \E k \in DOMAIN cache : cache'[j] = cache[k]
      <3>1. Moved(cache, cache', i)
        BY <2>1, PromoteSeq DEF TypeOK
      <3> QED BY <3>1 DEF Moved
    <2>3. /\ pc' = [pc EXCEPT ![s] = "hit"] /\ pc[s] = "get"
          /\ grants' = grants
      BY <1>3 DEF CacheHit, Goto
    <2>4. \A l \in Sessions : pc[l] \in Done => pc'[l] \in Done
      BY <2>3 DEF TypeOK
    <2>5. \A j \in DOMAIN cache : cache[j].lim \in Sessions
      BY EntryType
    <2>6. \A j \in DOMAIN cache' : pc'[cache'[j].lim] \in Done
      BY <2>2, <2>4, <2>5 DEF Fresh
    <2>7. \A t \in Sessions : pc'[t] = "hit" => pc'[limiter'[t]] \in Done
      BY <2>1, <2>3, <2>4, <2>5 DEF Fresh, TypeOK
    <2>8. /\ \A t \in Sessions : pc'[t] \in {"idle", "get", "miss"} => grants'[t] = <<>>
          /\ \A t \in Sessions : pc'[t] = "add" => limiter'[t] = t
      BY <2>1, <2>3 DEF Fresh, TypeOK
    <2> QED BY <2>6, <2>7, <2>8 DEF Fresh
  <1>4. ASSUME NEW s \in Sessions, CacheMiss(s) PROVE Fresh'
    BY <1>4, EntryType DEF TypeOK, Fresh, CacheMiss, Goto
  <1>5. ASSUME NEW s \in Sessions, LimiterAllow(s) PROVE Fresh'
    <2>1. /\ pc' = [pc EXCEPT ![s] = "checked"] /\ pc[s] = "hit"
          /\ UNCHANGED <<limiter, cache>>
      BY <1>5 DEF LimiterAllow, Goto
    <2>2. \A t \in Sessions : t # limiter[s] => grants'[t] = grants[t]
      BY <1>5 DEF LimiterAllow, Take, TypeOK
    <2>3. pc[limiter[s]] \in Done /\ limiter[s] \in Sessions
      BY <2>1 DEF Fresh, TypeOK
    <2> QED BY <2>1, <2>2, <2>3, EntryType DEF Fresh, TypeOK
  <1>6. ASSUME NEW s \in Sessions, NewLimiterAllow(s) PROVE Fresh'
    <2>1. /\ pc' = [pc EXCEPT ![s] = "add"] /\ pc[s] = "miss"
          /\ limiter' = [limiter EXCEPT ![s] = s] /\ UNCHANGED cache
      BY <1>6 DEF NewLimiterAllow, Goto
    <2>2. \A t \in Sessions : t # s => grants'[t] = grants[t]
      BY <1>6 DEF NewLimiterAllow, Take, TypeOK
    <2> QED BY <2>1, <2>2, EntryType DEF Fresh, TypeOK
  <1>7. ASSUME NEW s \in Sessions, CacheAdd(s) PROVE Fresh'
    <2> DEFINE entry == [key |-> Key(s), lim |-> limiter[s]]
    <2>1. /\ pc' = [pc EXCEPT ![s] = "checked"] /\ pc[s] = "add"
          /\ UNCHANGED <<limiter, grants>>
      BY <1>7 DEF CacheAdd, Goto
    <2>2. limiter[s] = s
      BY <2>1 DEF Fresh
    <2>3. \A l \in Sessions : pc[l] \in Done => pc'[l] \in Done
      BY <2>1 DEF TypeOK
    <2>4. \A j \in DOMAIN cache' : \/ cache'[j].lim = s
                                    \/ \E k \in DOMAIN cache : cache'[j] = cache[k]
      <3>1. entry.lim = s
        BY <2>2
      <3>2. CASE \E i \in DOMAIN cache : cache' = [Promote(cache, i) EXCEPT ![1] = entry]
        <4>1. PICK i \in DOMAIN cache : cache' = [Promote(cache, i) EXCEPT ![1] = entry]
          BY <3>2
        <4>2. /\ DOMAIN cache' = 1..Len(cache)
              /\ \A j \in 1..Len(cache) :
                    cache'[j] = entry \/ cache'[j] = cache[Origin(i, j)]
              /\ \A j \in 1..Len(cache) : Origin(i, j) \in DOMAIN cache
          <5>1. Moved(cache, Promote(cache, i), i)
            BY PromoteSeq DEF TypeOK
          <5> QED BY <4>1, <5>1 DEF Moved
        <4> QED BY <3>1, <4>2
      <3>3. CASE cache' = Push(cache, entry)
        <4>1. entry \in Entry
          BY KeyType DEF Entry, TypeOK
        <4>2. Pushed(cache, cache', entry)
          BY <3>3, <4>1, PushSeq DEF TypeOK, CacheSound
        <4> QED BY <3>1, <4>2 DEF TypeOK, Pushed
      <3> QED BY <1>7, <3>2, <3>3 DEF CacheAdd
    <2>5. \A j \in DOMAIN cache' : pc'[cache'[j].lim] \in Done
      BY <2>1, <2>3, <2>4, EntryType DEF Fresh, TypeOK
    <2> QED BY <2>1, <2>3, <2>5 DEF Fresh, TypeOK
  <1>8. ASSUME NEW s \in Sessions, Serve(s) \/ Refuse(s) PROVE Fresh'
    <2>1. /\ \E d \in {"served", "refused"} : pc' = [pc EXCEPT ![s] = d]
          /\ pc[s] = "checked" /\ UNCHANGED <<limiter, grants, cache>>
      BY <1>8 DEF Serve, Refuse, Goto
    <2>2. \A t \in Sessions : \/ pc'[t] = pc[t]
                              \/ pc[t] \in Done /\ pc'[t] \in Done
      BY <2>1 DEF TypeOK
    <2> QED BY <2>1, <2>2, EntryType DEF TypeOK, Fresh
  <1>9. CASE UNCHANGED vars
    BY <1>9 DEF Fresh, vars
  <1> QED BY <1>1, <1>2, <1>3, <1>4, <1>5, <1>6, <1>7, <1>8, <1>9 DEF Next, Step

(* Every call of limiter.Allow() keeps the ledger of the bucket it asks,   *)
(* and the passing of time keeps them all.                                 *)
LEMMA LedgerStep ==
  ASSUME Inv, [Next]_vars
  PROVE  Ledgers'
  <1>0. TypeOK /\ Fresh /\ Ledgers
    BY DEF Inv
  <1>1. CASE Tick
    BY <1>0, <1>1 DEF Ledgers, Ledger, Balanced, WindowBound, Tick, TypeOK, Bucket
  <1>2. ASSUME NEW s \in Sessions, NEW l \in Sessions, NEW b \in Bucket,
               Take(s, l, b), now' = now, b.last <= now,
               Balanced(grants[l], b)
        PROVE  Ledgers'
    <2>1. ASSUME NEW k \in Sessions, k # l PROVE Ledger(k)' /\ WindowBound(grants'[k])
      <3>1. bucket'[k] = bucket[k] /\ grants'[k] = grants[k]
        BY <1>0, <1>2, <2>1 DEF Take, TypeOK
      <3> QED BY <1>0, <1>2, <3>1 DEF Ledgers, Ledger, Balanced
    <2>2. Ledger(l)' /\ WindowBound(grants'[l])
      <3>1. bucket'[l] = Taken(b) /\ now \in Nat /\ grants[l] \in Seq(Nat)
        BY <1>0, <1>2 DEF Take, TypeOK
      <3>2. CASE Permits(b)
        <4>1. grants'[l] = Append(grants[l], now) /\ Taken(b).last = now
          BY <1>0, <1>2, <3>2 DEF Take, TypeOK, Taken
        <4>2. WindowBound(grants[l])
          BY <1>0 DEF Ledgers
        <4>3. Balanced(grants'[l], Taken(b)) /\ WindowBound(grants'[l])
          BY <1>2, <3>1, <3>2, <4>1, <4>2, TakeKeepsLedger
        <4> QED BY <1>2, <3>1, <4>1, <4>3 DEF Ledger, Balanced
      <3>3. CASE ~ Permits(b)
        <4>1. grants'[l] = grants[l] /\ Taken(b) = b
          BY <1>2, <3>3 DEF Take, Taken
        <4> QED BY <1>0, <1>2, <3>1, <4>1 DEF Ledgers, Ledger, Balanced
      <3> QED BY <3>2, <3>3
    <2> QED BY <2>1, <2>2 DEF Ledgers, WindowBound
  <1>3. ASSUME NEW s \in Sessions, LimiterAllow(s) PROVE Ledgers'
    <2>1. limiter[s] \in Sessions /\ bucket[limiter[s]] \in Bucket
      BY <1>0 DEF TypeOK
    <2>2. bucket[limiter[s]].last <= now /\ Balanced(grants[limiter[s]], bucket[limiter[s]])
      BY <1>0, <2>1 DEF Ledgers, Ledger
    <2> QED BY <1>2, <1>3, <2>1, <2>2 DEF LimiterAllow
  <1>4. ASSUME NEW s \in Sessions, NewLimiterAllow(s) PROVE Ledgers'
    <2>1. NewLimiter \in Bucket /\ NewLimiter.last = now /\ now \in Nat
      BY <1>0, NewLimiterType DEF TypeOK
    <2>2. grants[s] = <<>>
      BY <1>0, <1>4 DEF Fresh, NewLimiterAllow, Goto
    <2>3. Balanced(grants[s], NewLimiter)
      BY <2>2 DEF Balanced
    <2> QED BY <1>2, <1>4, <2>1, <2>3 DEF NewLimiterAllow
  <1>5. ASSUME UNCHANGED <<bucket, grants, now>> PROVE Ledgers'
    BY <1>0, <1>5 DEF Ledgers, Ledger, Balanced, WindowBound
  <1>6. ASSUME NEW s \in Sessions,
               \/ Connect(s) \/ CacheHit(s) \/ CacheMiss(s) \/ CacheAdd(s)
               \/ Serve(s) \/ Refuse(s)
        PROVE  UNCHANGED <<bucket, grants, now>>
    BY <1>6 DEF Connect, CacheHit, CacheMiss, CacheAdd, Serve, Refuse
  <1> QED BY <1>1, <1>3, <1>4, <1>5, <1>6 DEF Next, Step, vars

(* Lookups and insertions keep one bucket per key, made for that key. *)
LEMMA CacheStep ==
  ASSUME Inv, [Next]_vars
  PROVE  CacheSound' /\ Owned'
  <1>0. TypeOK /\ CacheSound /\ Owned /\ Fresh
    BY DEF Inv
  <1>1. addr' = addr
    BY DEF Next, Step, Tick, Connect, CacheHit, CacheMiss, LimiterAllow,
           NewLimiterAllow, CacheAdd, Serve, Refuse, vars
  <1>2. ASSUME UNCHANGED <<cache, limiter>> PROVE CacheSound' /\ Owned'
    BY <1>0, <1>1, <1>2 DEF CacheSound, Owned, Key
  <1>3. ASSUME NEW s \in Sessions, CacheHit(s) PROVE CacheSound' /\ Owned'
    <2>1. PICK i \in DOMAIN cache : /\ cache[i].key = Key(s)
                                    /\ limiter' = [limiter EXCEPT ![s] = cache[i].lim]
                                    /\ cache' = Promote(cache, i)
      BY <1>3 DEF CacheHit, Holds
    <2>2. Moved(cache, cache', i)
      BY <1>0, <2>1, PromoteSeq DEF TypeOK
    <2>3. CacheSound'
      <3>1. /\ DOMAIN cache = 1..Len(cache) /\ DOMAIN cache' = 1..Len(cache)
            /\ Len(cache') = Len(cache)
            /\ \A j \in 1..Len(cache) : /\ Origin(i, j) \in 1..Len(cache)
                                        /\ cache'[j] = cache[Origin(i, j)]
        BY <2>2 DEF Moved
      <3>2. \A j, k \in 1..Len(cache) : cache'[j].key = cache'[k].key => j = k
        <4>1. /\ \A j, k \in 1..Len(cache) : Origin(i, j) = Origin(i, k) => j = k
              /\ \A j, k \in 1..Len(cache) : cache[j].key = cache[k].key => j = k
          BY <1>0, <2>2, <3>1 DEF Moved, CacheSound
        <4>2. \A j \in 1..Len(cache) : cache'[j].key = cache[Origin(i, j)].key
          BY <3>1
        <4> SUFFICES ASSUME NEW j \in 1..Len(cache), NEW k \in 1..Len(cache),
                            cache'[j].key = cache'[k].key
                     PROVE  j = k
          OBVIOUS
        <4>3. cache[Origin(i, j)].key = cache[Origin(i, k)].key
          BY <4>2
        <4>4. Origin(i, j) = Origin(i, k)
          BY <4>1, <4>3, <3>1
        <4> QED BY <4>4, <4>1
      <3>3. \A j \in 1..Len(cache) : Key(cache'[j].lim) = cache'[j].key
        BY <1>0, <3>1 DEF CacheSound
      <3> QED BY <1>0, <1>1, <3>1, <3>2, <3>3 DEF CacheSound, Key
    <2>4. KeyOf(addr[cache[i].lim]) = KeyOf(addr[s])
      BY <1>0, <2>1 DEF CacheSound, Key
    <2>5. Owned'
      BY <1>0, <1>1, <2>1, <2>4 DEF Owned, TypeOK
    <2> QED BY <2>3, <2>5
  <1>4. ASSUME NEW s \in Sessions, NewLimiterAllow(s) PROVE CacheSound' /\ Owned'
    BY <1>0, <1>1, <1>4 DEF CacheSound, Owned, Key, NewLimiterAllow, TypeOK
  <1>5. ASSUME NEW s \in Sessions, CacheAdd(s) PROVE CacheSound' /\ Owned'
    <2> DEFINE entry == [key |-> Key(s), lim |-> limiter[s]]
    <2>1. limiter' = limiter /\ Owned'
      BY <1>0, <1>1, <1>5 DEF CacheAdd, Owned
    <2>2. entry.key = Key(s) /\ Key(entry.lim) = Key(s) /\ entry \in Entry
      BY <1>0, KeyType DEF Owned, Key, Entry, TypeOK
    <2> HIDE DEF entry
    <2>3. CASE \E i \in DOMAIN cache :
                 Holds(cache, i, Key(s)) /\ cache' = [Promote(cache, i) EXCEPT ![1] = entry]
      <3>1. PICK i \in DOMAIN cache : /\ cache[i].key = Key(s)
                                      /\ cache' = [Promote(cache, i) EXCEPT ![1] = entry]
        BY <2>3 DEF Holds
      <3>2. Promote(cache, i) \in Seq(Entry) /\ Moved(cache, Promote(cache, i), i)
        BY <1>0, PromoteSeq DEF TypeOK
      <3>3. /\ DOMAIN cache' = 1..Len(cache) /\ Len(cache') = Len(cache)
            /\ \A j \in 1..Len(cache) :
                  /\ Origin(i, j) \in 1..Len(cache)
                  /\ cache'[j].key = cache[Origin(i, j)].key
                  /\ cache'[j] = entry \/ cache'[j] = cache[Origin(i, j)]
            /\ \A j, k \in 1..Len(cache) : Origin(i, j) = Origin(i, k) => j = k
        BY <3>1, <3>2, <2>2 DEF Moved, Origin
      <3>4. DOMAIN cache = 1..Len(cache)
        BY <3>2 DEF Moved
      <3>5. \A j, k \in 1..Len(cache) : cache'[j].key = cache'[k].key => j = k
        <4>1. \A j, k \in 1..Len(cache) : cache[j].key = cache[k].key => j = k
          BY <1>0, <3>4 DEF CacheSound
        <4> SUFFICES ASSUME NEW j \in 1..Len(cache), NEW k \in 1..Len(cache),
                            cache'[j].key = cache'[k].key
                     PROVE  j = k
          OBVIOUS
        <4>2. cache[Origin(i, j)].key = cache[Origin(i, k)].key
          BY <3>3
        <4>3. Origin(i, j) = Origin(i, k)
          BY <4>1, <4>2, <3>3
        <4> QED BY <4>3, <3>3
      <3>6. \A j \in 1..Len(cache) : Key(cache'[j].lim) = cache'[j].key
        BY <1>0, <2>2, <3>3, <3>4 DEF CacheSound
      <3> QED BY <1>0, <1>1, <2>1, <3>3, <3>5, <3>6 DEF CacheSound, Key
    <2>4. CASE ~ Known(cache, Key(s)) /\ cache' = Push(cache, entry)
      <3>1. /\ Len(cache') <= Entries /\ DOMAIN cache' = 1..Len(cache')
            /\ Len(cache') <= Len(cache) + 1 /\ Len(cache') \in Nat
            /\ \A j \in DOMAIN cache' : cache'[j] = IF j = 1 THEN entry ELSE cache[j - 1]
        <4>1. cache \in Seq(Entry) /\ Len(cache) <= Entries /\ entry \in Entry
          BY <1>0, <2>2 DEF TypeOK, CacheSound
        <4>2. Pushed(cache, cache', entry)
          BY <4>1, <2>4, PushSeq
        <4> QED BY <4>2 DEF Pushed
      <3>2. DOMAIN cache = 1..Len(cache) /\ Len(cache) \in Nat
        BY <1>0 DEF TypeOK
      <3>3. \A j \in DOMAIN cache' : j # 1 => j - 1 \in DOMAIN cache /\ cache'[j] = cache[j - 1]
        BY <3>1, <3>2
      <3>4. \A j \in DOMAIN cache : cache[j].key # Key(s)
        BY <2>4 DEF Known
      <3>5. cache'[1] = entry \/ DOMAIN cache' = {}
        BY <3>1
      <3>6. \A j \in DOMAIN cache' : Key(cache'[j].lim) = cache'[j].key
        BY <1>0, <2>2, <3>1, <3>3 DEF CacheSound
      <3>7. \A j, k \in DOMAIN cache' : cache'[j].key = cache'[k].key => j = k
        <4> SUFFICES ASSUME NEW j \in DOMAIN cache', NEW k \in DOMAIN cache',
                            cache'[j].key = cache'[k].key
                     PROVE  j = k
          OBVIOUS
        <4>1. CASE j = 1 \/ k = 1
          BY <4>1, <2>2, <3>1, <3>3, <3>4
        <4>2. CASE j # 1 /\ k # 1
          <5>1. j - 1 = k - 1
            BY <4>2, <1>0, <3>3 DEF CacheSound
          <5> QED BY <5>1, <3>1
        <4> QED BY <4>1, <4>2
      <3> QED BY <1>1, <2>1, <3>1, <3>6, <3>7 DEF CacheSound, Key
    <2> QED BY <1>5, <2>3, <2>4 DEF CacheAdd, entry
  <1>6. ASSUME NEW s \in Sessions,
               Connect(s) \/ CacheMiss(s) \/ LimiterAllow(s) \/ Serve(s) \/ Refuse(s)
        PROVE  UNCHANGED <<cache, limiter>>
    BY <1>6 DEF Connect, CacheMiss, LimiterAllow, Serve, Refuse
  <1>7. Tick \/ UNCHANGED vars => UNCHANGED <<cache, limiter>>
    BY DEF Tick, vars
  <1> QED BY <1>2, <1>3, <1>4, <1>5, <1>6, <1>7 DEF Next, Step

-----------------------------------------------------------------------------
(* The invariant holds in every behaviour. *)
THEOREM Invariant == Spec => []Inv
  <1>1. Init => Inv
    <2> SUFFICES ASSUME Init PROVE Inv
      OBVIOUS
    <2>1. TypeOK
      BY TypeInit
    <2>2. Fresh /\ CacheSound /\ Owned
      BY EntriesPositive DEF Init, Fresh, CacheSound, Owned
    <2>3. Ledgers
      BY DEF Init, Ledgers, Ledger, Balanced, WindowBound
    <2> QED BY <2>1, <2>2, <2>3 DEF Inv
  <1>2. Inv /\ [Next]_vars => Inv'
    BY TypeStep, FreshStep, LedgerStep, CacheStep DEF Inv
  <1> QED BY <1>1, <1>2, PTL DEF Spec

(* Type correctness, for every instance: in particular the tokens of a     *)
(* bucket are never negative and never more than the burst.                *)
THEOREM TypeCorrect == Spec => []TypeOK
  BY Invariant, PTL DEF Inv

(* For every rate, burst and number of sessions: no interleaving of the    *)
(* sessions that share a bucket draws more from it in any window than the  *)
(* burst and the accrual (ratelimiter.go, Allow).                          *)
THEOREM BurstsBounded == Spec => []BucketBound
  <1>1. Inv => BucketBound
    BY DEF Inv, Ledgers, BucketBound
  <1> QED BY <1>1, Invariant, PTL

(* For every cache size, zero and negative ones included: at most          *)
(* maxEntries buckets, one per key, each made for its key (NewRateLimiter, *)
(* Allow).                                                                 *)
THEOREM CacheCorrect == Spec => []CacheSound
  BY Invariant, PTL DEF Inv

(* For every set of addresses: sessions of different sources are never     *)
(* charged to one bucket.                                                  *)
THEOREM Isolation == Spec => []SourcesIsolated
  <1>1. Inv => SourcesIsolated
    BY DEF Inv, Owned, SourcesIsolated, KeyOf
  <1> QED BY <1>1, Invariant, PTL

-----------------------------------------------------------------------------
(* Which bucket a session finds.  SameBucket is about sessions whose Allow *)
(* was over when another one looked its key up: what links the two is the  *)
(* cache between them.  Kept says that a bucket that was found or put in   *)
(* the cache is still there under its key, unless the key lost it; Settled *)
(* that a session that missed had nobody's bucket to find.                 *)

Holding == {"hit"} \cup Done

InCache(s) == \E i \in DOMAIN cache : cache[i].key = Key(s) /\ cache[i].lim = limiter[s]

Kept == \A s \in Sessions : pc[s] \in Holding /\ Key(s) \notin lost => InCache(s)

Settled == \A t \in Sessions : pc[t] \in {"miss", "add"} \cup Holding =>
              \A s \in past[t] : /\ pc[s] \in Done
                                 /\ Key(s) = Key(t) /\ Key(t) \notin lost => pc[t] \in Holding

KeptInv == Inv /\ Kept /\ Settled

(* A lookup loses no entry, and has the one it found in front. *)
LEMMA PromoteKeeps ==
  ASSUME NEW S, NEW c \in Seq(S), NEW i \in DOMAIN c
  PROVE  /\ 1 \in DOMAIN Promote(c, i) /\ Promote(c, i)[1] = c[i]
         /\ \A k \in DOMAIN c : \E j \in DOMAIN Promote(c, i) : Promote(c, i)[j] = c[k]
         /\ \A k \in DOMAIN c : k # i =>
               \E j \in DOMAIN Promote(c, i) : j # 1 /\ Promote(c, i)[j] = c[k]
  <1>1. /\ DOMAIN c = 1..Len(c) /\ Len(c) \in Nat
        /\ DOMAIN Promote(c, i) = 1..Len(c)
    BY DEF Promote
  <1>2. 1 \in DOMAIN Promote(c, i) /\ Promote(c, i)[1] = c[i]
    BY <1>1 DEF Promote
  <1>3. ASSUME NEW k \in DOMAIN c, k # i
        PROVE  \E j \in DOMAIN Promote(c, i) : j # 1 /\ Promote(c, i)[j] = c[k]
    <2>1. CASE k < i
      <3>1. k + 1 \in 1..Len(c) /\ k + 1 # 1 /\ Promote(c, i)[k + 1] = c[k]
        BY <1>1, <2>1 DEF Promote
      <3> QED BY <1>1, <3>1
    <2>2. CASE k > i
      <3>1. k # 1 /\ Promote(c, i)[k] = c[k]
        BY <1>1, <2>2 DEF Promote
      <3> QED BY <1>1, <3>1
    <2> QED BY <1>1, <1>3, <2>1, <2>2
  <1> QED BY <1>2, <1>3

(* An insertion has the new entry in front and loses at most the last one. *)
LEMMA PushKeeps ==
  ASSUME NEW S, NEW c \in Seq(S), NEW e \in S, Len(c) <= Entries
  PROVE  /\ 1 \in DOMAIN Push(c, e) /\ Push(c, e)[1] = e
         /\ \A k \in DOMAIN c : Len(c) < Entries \/ k # Len(c) =>
               \E j \in DOMAIN Push(c, e) : Push(c, e)[j] = c[k]
  <1> DEFINE n == IF Len(c) < Entries THEN Len(c) + 1 ELSE Entries
  <1>1. n \in Nat /\ n >= 1 /\ DOMAIN c = 1..Len(c) /\ Len(c) \in Nat
    BY EntriesPositive
  <1>2. \A k \in DOMAIN c : Len(c) < Entries \/ k # Len(c) => k + 1 \in 1..n
    BY <1>1, EntriesPositive
  <1> HIDE DEF n
  <1>3. Push(c, e) = [j \in 1..n |-> IF j = 1 THEN e ELSE c[j - 1]]
    BY DEF Push, n
  <1>4. ASSUME NEW k \in DOMAIN c, k + 1 \in 1..n
        PROVE  \E j \in DOMAIN Push(c, e) : Push(c, e)[j] = c[k]
    <2>1. Push(c, e)[k + 1] = c[k]
      BY <1>1, <1>3, <1>4
    <2> QED BY <1>3, <1>4, <2>1
  <1> QED BY <1>1, <1>2, <1>3, <1>4

(* A step moves a session at most once, never out of Done, and forgets no  *)
(* lost key.                                                               *)
LEMMA KeptStep ==
  ASSUME KeptInv, [Next]_vars
  PROVE  Kept' /\ Settled'
  <1>0. TypeOK /\ CacheSound /\ Kept /\ Settled /\ Fresh
    BY DEF KeptInv, Inv
  <1>1. addr' = addr
    BY DEF Next, Step, Tick, Connect, CacheHit, CacheMiss, LimiterAllow,
           NewLimiterAllow, CacheAdd, Serve, Refuse, vars
  <1>2. ASSUME NEW s \in Sessions, Connect(s) PROVE Kept' /\ Settled'
    <2>1. /\ pc' = [pc EXCEPT ![s] = "get"] /\ pc[s] = "idle"
          /\ UNCHANGED <<limiter, cache, past, lost>>
      BY <1>2 DEF Connect, Goto
    <2>2. Kept'
      BY <1>0, <1>1, <2>1 DEF Kept, InCache, Key, Holding, Done, TypeOK
    <2>3. Settled'
      BY <1>0, <1>1, <2>1 DEF Settled, Key, Holding, Done, TypeOK
    <2> QED BY <2>2, <2>3
  <1>3. ASSUME NEW s \in Sessions, CacheHit(s) PROVE Kept' /\ Settled'
    <2>1. PICK i \in DOMAIN cache : /\ cache[i].key = Key(s)
                                    /\ limiter' = [limiter EXCEPT ![s] = cache[i].lim]
                                    /\ cache' = Promote(cache, i)
      BY <1>3 DEF CacheHit, Holds
    <2>2. /\ pc' = [pc EXCEPT ![s] = "hit"] /\ pc[s] = "get"
          /\ past' = [past EXCEPT ![s] = Over] /\ lost' = lost
      BY <1>3 DEF CacheHit, Goto
    <2>3. /\ 1 \in DOMAIN cache' /\ cache'[1] = cache[i]
          /\ \A k \in DOMAIN cache : \E j \in DOMAIN cache' : cache'[j] = cache[k]
      BY <1>0, <2>1, PromoteKeeps DEF TypeOK
    <2>4. Kept'
      <3> SUFFICES ASSUME NEW t \in Sessions, pc'[t] \in Holding, Key(t) \notin lost
                   PROVE  InCache(t)'
        BY <1>1, <2>2 DEF Kept, Key
      <3>1. CASE t = s
        <4>1. limiter'[s] = cache[i].lim
          BY <1>0, <2>1 DEF TypeOK
        <4> QED BY <1>1, <2>1, <2>3, <3>1, <4>1 DEF InCache, Key
      <3>2. CASE t # s
        <4>1. pc[t] \in Holding /\ limiter'[t] = limiter[t]
          BY <1>0, <2>1, <2>2, <3>2 DEF TypeOK
        <4>2. InCache(t)
          BY <1>0, <4>1 DEF Kept
        <4> QED BY <1>1, <2>3, <4>1, <4>2 DEF InCache, Key
      <3> QED BY <3>1, <3>2
    <2>5. Settled'
      BY <1>0, <1>1, <2>2 DEF Settled, Key, Holding, Done, Over, TypeOK
    <2> QED BY <2>4, <2>5
  <1>4. ASSUME NEW s \in Sessions, CacheMiss(s) PROVE Kept' /\ Settled'
    <2>1. /\ pc' = [pc EXCEPT ![s] = "miss"] /\ pc[s] = "get"
          /\ past' = [past EXCEPT ![s] = Over] /\ ~ Known(cache, Key(s))
          /\ UNCHANGED <<limiter, cache, lost>>
      BY <1>4 DEF CacheMiss, Goto
    <2>2. Kept'
      BY <1>0, <1>1, <2>1 DEF Kept, InCache, Key, Holding, Done, TypeOK
    <2>3. \A t \in Over : Key(t) = Key(s) => Key(s) \in lost
      BY <1>0, <2>1 DEF Kept, InCache, Known, Over, Holding, Done
    <2>4. Settled'
      BY <1>0, <1>1, <2>1, <2>3 DEF Settled, Key, Holding, Done, Over, TypeOK
    <2> QED BY <2>2, <2>4
  <1>5. ASSUME NEW s \in Sessions, LimiterAllow(s) PROVE Kept' /\ Settled'
    <2>1. /\ pc' = [pc EXCEPT ![s] = "checked"] /\ pc[s] = "hit"
          /\ UNCHANGED <<limiter, cache, past, lost>>
      BY <1>5 DEF LimiterAllow, Goto
    <2>2. Kept'
      BY <1>0, <1>1, <2>1 DEF Kept, InCache, Key, Holding, Done, TypeOK
    <2>3. Settled'
      BY <1>0, <1>1, <2>1 DEF Settled, Key, Holding, Done, TypeOK
    <2> QED BY <2>2, <2>3
  <1>6. ASSUME NEW s \in Sessions, NewLimiterAllow(s) PROVE Kept' /\ Settled'
    <2>1. /\ pc' = [pc EXCEPT ![s] = "add"] /\ pc[s] = "miss"
          /\ limiter' = [limiter EXCEPT ![s] = s]
          /\ UNCHANGED <<cache, past, lost>>
      BY <1>6 DEF NewLimiterAllow, Goto
    <2>2. Kept'
      BY <1>0, <1>1, <2>1 DEF Kept, InCache, Key, Holding, Done, TypeOK
    <2>3. Settled'
      BY <1>0, <1>1, <2>1 DEF Settled, Key, Holding, Done, TypeOK
    <2> QED BY <2>2, <2>3
  <1>7. ASSUME NEW s \in Sessions, CacheAdd(s) PROVE Kept' /\ Settled'
    <2> DEFINE entry == [key |-> Key(s), lim |-> limiter[s]]
    <2>1. /\ pc' = [pc EXCEPT ![s] = "checked"] /\ pc[s] = "add"
          /\ UNCHANGED <<limiter, past>> /\ lost \subseteq lost'
      BY <1>7 DEF CacheAdd, Goto
    <2>2. entry.key = Key(s) /\ entry.lim = limiter[s] /\ entry \in Entry
      BY <1>0, KeyType DEF Entry, TypeOK
    <2> HIDE DEF entry
    <2>3. Settled'
      BY <1>0, <1>1, <2>1 DEF Settled, Key, Holding, Done, TypeOK
    <2>4. CASE \E i \in DOMAIN cache : /\ Holds(cache, i, Key(s))
                                       /\ cache' = [Promote(cache, i) EXCEPT ![1] = entry]
                                       /\ lost' = lost \cup {Key(s)}
      <3>1. PICK i \in DOMAIN cache : /\ cache[i].key = Key(s)
                                      /\ cache' = [Promote(cache, i) EXCEPT ![1] = entry]
                                      /\ lost' = lost \cup {Key(s)}
        BY <2>4 DEF Holds
      <3>2. \A k \in DOMAIN cache : k # i => \E j \in DOMAIN cache' : cache'[j] = cache[k]
        <4>1. \A k \in DOMAIN cache : k # i =>
                 \E j \in DOMAIN Promote(cache, i) : j # 1 /\ Promote(cache, i)[j] = cache[k]
          BY <1>0, PromoteKeeps DEF TypeOK
        <4> QED BY <3>1, <4>1
      <3>3. ASSUME NEW t \in Sessions, pc'[t] \in Holding, Key(t) \notin lost'
            PROVE  InCache(t)'
        <4>1. Key(t) # Key(s) /\ Key(t) \notin lost
          BY <3>1, <3>3
        <4>2. pc[t] \in Holding
          BY <1>0, <2>1, <3>3, <4>1 DEF TypeOK
        <4>3. InCache(t)
          BY <1>0, <4>1, <4>2 DEF Kept
        <4> QED BY <1>1, <2>1, <3>1, <3>2, <4>1, <4>3 DEF InCache, Key
      <3> QED BY <1>1, <2>3, <3>3 DEF Kept, Key
    <2>5. CASE /\ ~ Known(cache, Key(s))
               /\ cache' = Push(cache, entry)
               /\ lost' = IF Len(cache) < Entries THEN lost
                          ELSE lost \cup {cache[Len(cache)].key}
      <3>1. /\ 1 \in DOMAIN cache' /\ cache'[1] = entry
            /\ \A k \in DOMAIN cache : Len(cache) < Entries \/ k # Len(cache) =>
                  \E j \in DOMAIN cache' : cache'[j] = cache[k]
        BY <1>0, <2>2, <2>5, PushKeeps DEF TypeOK, CacheSound
      <3>2. ASSUME NEW t \in Sessions, pc'[t] \in Holding, Key(t) \notin lost'
            PROVE  InCache(t)'
        <4>1. CASE t = s
          BY <1>1, <2>1, <2>2, <3>1, <4>1 DEF InCache, Key
        <4>2. CASE t # s
          <5>1. pc[t] \in Holding /\ Key(t) \notin lost
            BY <1>0, <2>1, <3>2, <4>2 DEF TypeOK
          <5>2. PICK k \in DOMAIN cache : cache[k].key = Key(t) /\ cache[k].lim = limiter[t]
            BY <1>0, <5>1 DEF Kept, InCache
          <5>3. Len(cache) < Entries \/ k # Len(cache)
            BY <2>5, <3>2, <5>2
          <5> QED BY <1>1, <2>1, <3>1, <5>2, <5>3 DEF InCache, Key
        <4> QED BY <4>1, <4>2
      <3> QED BY <1>1, <2>3, <3>2 DEF Kept, Key
    <2> QED BY <1>7, <2>4, <2>5 DEF CacheAdd, entry
  <1>8. ASSUME NEW s \in Sessions, Serve(s) \/ Refuse(s) PROVE Kept' /\ Settled'
    <2>1. /\ \E d \in {"served", "refused"} : pc' = [pc EXCEPT ![s] = d]
          /\ pc[s] = "checked" /\ UNCHANGED <<limiter, cache, past, lost>>
      BY <1>8 DEF Serve, Refuse, Goto
    <2>2. Kept'
      BY <1>0, <1>1, <2>1 DEF Kept, InCache, Key, Holding, Done, TypeOK
    <2>3. Settled'
      BY <1>0, <1>1, <2>1 DEF Settled, Key, Holding, Done, TypeOK
    <2> QED BY <2>2, <2>3
  <1>9. CASE Tick \/ UNCHANGED vars
    <2>1. UNCHANGED <<pc, limiter, cache, past, lost>>
      BY <1>9 DEF Tick, vars
    <2> QED BY <1>0, <1>1, <2>1 DEF Kept, Settled, InCache, Key
  <1> QED BY <1>2, <1>3, <1>4, <1>5, <1>6, <1>7, <1>8, <1>9 DEF Next, Step

(* For every cache size and every interleaving: a client that connects     *)
(* again, from whatever port, is charged to the bucket it was charged to   *)
(* before, as long as the cache still has it (ratelimiter.go, Allow).      *)
THEOREM NoFreshBurst == Spec => []SameBucket
  <1>1. Init => Kept /\ Settled
    BY DEF Init, Kept, Settled, Holding, Done
  <1>2. KeptInv /\ [Next]_vars => Kept' /\ Settled'
    BY KeptStep
  <1>3. KeptInv => SameBucket
    <2> SUFFICES ASSUME KeptInv, NEW t \in Sessions,
                        pc[t] \in {"hit", "miss", "add", "checked", "served", "refused"},
                        NEW s \in past[t], addr[s].net = "tcp", addr[t].net = "tcp",
                        addr[s].ip = addr[t].ip, KeyOf(addr[s]) \notin lost
                 PROVE  pc[t] # "miss" /\ limiter[t] = limiter[s]
      BY DEF SameBucket
    <2>1. s \in Sessions /\ Key(s) = Key(t)
      BY DEF KeptInv, Inv, TypeOK, Key, KeyOf
    <2>2. pc[s] \in Done /\ pc[t] \in Holding
      BY <2>1 DEF KeptInv, Settled, Key, Holding, Done
    <2>3. InCache(s) /\ InCache(t)
      BY <2>1, <2>2 DEF KeptInv, Kept, Key, Holding
    <2>4. limiter[t] = limiter[s]
      BY <2>1, <2>3 DEF KeptInv, Inv, CacheSound, InCache
    <2> QED BY <2>2, <2>4 DEF Holding, Done
  <1> QED BY <1>1, <1>2, <1>3, Invariant, PTL DEF Spec, KeptInv

-----------------------------------------------------------------------------
(* The token gate: the initial states are initial states of the gate, and  *)
(* each step is a step of the gate or changes nothing the gate shows.      *)
(*                                                                         *)
(* That a grant is within the bound follows from Ledger.  That a refusal   *)
(* is needed does not: Ledger only says that a bucket holds no more than   *)
(* the bound leaves.  Exact is the other half, that it holds no less: it   *)
(* is full, or from some grant on nothing that accrued was lost to the     *)
(* cap.                                                                    *)

(* What grant i, and those after it, left of a full bucket and the accrual *)
Rest(g, b, i) == Full + Rate * (b.last - g[i]) - Cost * (Len(g) - i + 1)

Exact(g, b) == b.tokens = Full \/ \E i \in DOMAIN g : b.tokens = Rest(g, b, i)

Exacts == \A l \in Sessions : Exact(grants[l], bucket[l])

GateInv == Inv /\ Exacts

-----------------------------------------------------------------------------
(* A token given by an exact bucket leaves an exact bucket. *)
LEMMA TakeKeepsExact ==
  ASSUME NEW g \in Seq(Nat), NEW b \in Bucket, now \in Nat, b.last <= now,
         Exact(g, b), Permits(b),
         NEW g1, g1 = Append(g, now)
  PROVE  Exact(g1, Taken(b))
  <1> DEFINE n == Len(g)
  <1>1. /\ Taken(b) = [tokens |-> Available(b) - Cost, last |-> now]
        /\ Available(b) \in Int
    BY AvailableType
  <1>2. /\ Len(g1) = n + 1 /\ g1[n + 1] = now
        /\ DOMAIN g1 = 1..(n + 1) /\ DOMAIN g = 1..n /\ n \in Nat
        /\ \A i \in 1..n : g1[i] = g[i]
    OBVIOUS
  <1>3. /\ Rate * (now - b.last) \in Nat /\ Full \in Nat /\ b.tokens \in Nat
        /\ Cost \in Int /\ Rate \in Int
    BY FullNat, RateAssumption DEF Bucket
  <1>4. CASE Available(b) = Full
    <2>1. Cost * (n + 1 - (n + 1) + 1) = Cost /\ Rate * (now - now) = 0
      BY <1>2, <1>3
    <2>2. Rest(g1, Taken(b), n + 1) = Full - Cost
      BY <1>1, <1>2, <1>3, <2>1 DEF Rest
    <2>3. n + 1 \in DOMAIN g1 /\ Taken(b).tokens = Full - Cost
      BY <1>1, <1>2, <1>4
    <2> QED BY <2>2, <2>3 DEF Exact
  <1>5. CASE Available(b) # Full
    <2>1. Available(b) = b.tokens + Rate * (now - b.last) /\ b.tokens # Full
      BY <1>3, <1>5 DEF Available
    <2>2. PICK i \in 1..n : b.tokens = Rest(g, b, i)
      BY <1>2, <2>1 DEF Exact
    <2>3. /\ Cost \in Int /\ Rate \in Int /\ g[i] \in Int /\ n - i + 1 \in Int
          /\ b.last \in Int /\ now \in Int
      BY <1>2, RateAssumption DEF Bucket
    <2> DEFINE spent == Cost * (n - i + 1)
               before == Rate * (b.last - g[i])
               since == Rate * (now - b.last)
    <2>4. spent \in Int /\ Cost * (n + 1 - i + 1) = spent + Cost
      <3>1. n + 1 - i + 1 = (n - i + 1) + 1
        BY <1>2
      <3> QED BY <3>1, <1>3, <2>3, ProductType
    <2>5. before \in Int /\ since \in Int /\ Rate * (now - g[i]) = since + before
      <3>1. b.last - g[i] \in Int
        BY <2>3
      <3>2. Rate * (now - g[i]) = since + before
        BY <2>3, AccrualAdds
      <3> QED BY <3>1, <3>2, <1>3, ProductType
    <2>6. b.tokens = Full + before - spent /\ Available(b) = b.tokens + since
      BY <2>1, <2>2 DEF Rest
    <2>7. Rest(g1, Taken(b), i) = Full + (since + before) - (spent + Cost)
      BY <1>1, <1>2, <2>4, <2>5 DEF Rest
    <2> HIDE DEF spent, before, since
    <2>8. Available(b) - Cost = Full + (since + before) - (spent + Cost)
      BY <1>3, <2>4, <2>5, <2>6
    <2>9. i \in DOMAIN g1 /\ Taken(b).tokens = Available(b) - Cost
      BY <1>1, <1>2
    <2> QED BY <2>7, <2>8, <2>9 DEF Exact
  <1> QED BY <1>4, <1>5

(* The bound, of two grants. *)
LEMMA WindowAt ==
  ASSUME NEW g, WindowBound(g), NEW i \in DOMAIN g, NEW j \in DOMAIN g, i <= j
  PROVE  Cost * (j - i + 1) <= Full + Rate * (g[j] - g[i])
  BY Zenon DEF WindowBound

(* An exact bucket refuses only what the bound forbids. *)
LEMMA RefusalNeeded ==
  ASSUME NEW g \in Seq(Nat), NEW b \in Bucket, now \in Nat, b.last <= now,
         Exact(g, b), ~ Permits(b),
         NEW g1, g1 = Append(g, now)
  PROVE  ~ WindowBound(g1)
  <1> DEFINE n == Len(g)
  <1>1. /\ Len(g1) = n + 1 /\ g1[n + 1] = now
        /\ DOMAIN g1 = 1..(n + 1) /\ DOMAIN g = 1..n /\ n \in Nat
        /\ \A i \in 1..n : g1[i] = g[i]
    OBVIOUS
  <1>2. /\ Rate * (now - b.last) \in Nat /\ Full \in Nat /\ b.tokens \in Nat
        /\ Cost \in Int /\ Rate \in Int
    BY FullNat, RateAssumption DEF Bucket
  <1>3. Available(b) < Cost /\ Available(b) \in Int
    BY <1>2, AvailableType DEF Permits
  <1>4. CASE Available(b) = Full
    <2>1. Cost * (n + 1 - (n + 1) + 1) = Cost /\ Rate * (now - now) = 0
      BY <1>1, <1>2
    <2>2. ~ (Cost * (n + 1 - (n + 1) + 1) <= Full + Rate * (g1[n + 1] - g1[n + 1]))
      BY <1>1, <1>2, <1>3, <1>4, <2>1
    <2>3. n + 1 \in DOMAIN g1 /\ n + 1 <= n + 1
      BY <1>1
    <2> QED BY <2>2, <2>3 DEF WindowBound
  <1>5. CASE Available(b) # Full
    <2>1. Available(b) = b.tokens + Rate * (now - b.last) /\ b.tokens # Full
      BY <1>2, <1>5 DEF Available
    <2>2. PICK i \in 1..n : b.tokens = Rest(g, b, i)
      BY <1>1, <2>1 DEF Exact
    <2>3. /\ Cost \in Int /\ Rate \in Int /\ g[i] \in Int /\ n - i + 1 \in Int
          /\ b.last \in Int /\ now \in Int
      BY <1>1, RateAssumption DEF Bucket
    <2> DEFINE spent == Cost * (n - i + 1)
               before == Rate * (b.last - g[i])
               since == Rate * (now - b.last)
    <2>4. spent \in Int /\ Cost * (n + 1 - i + 1) = spent + Cost
      <3>1. n + 1 - i + 1 = (n - i + 1) + 1
        BY <1>1
      <3> QED BY <3>1, <1>2, <2>3, ProductType
    <2>5. before \in Int /\ since \in Int /\ Rate * (now - g[i]) = since + before
      <3>1. b.last - g[i] \in Int
        BY <2>3
      <3>2. Rate * (now - g[i]) = since + before
        BY <2>3, AccrualAdds
      <3> QED BY <3>1, <3>2, <1>2, ProductType
    <2>6. b.tokens = Full + before - spent /\ Available(b) = b.tokens + since
      BY <2>1, <2>2 DEF Rest
    <2> HIDE DEF spent, before, since
    <2>7. ~ (spent + Cost <= Full + (since + before))
      BY <1>2, <1>3, <2>4, <2>5, <2>6
    <2>8. ~ (Cost * (n + 1 - i + 1) <= Full + Rate * (g1[n + 1] - g1[i]))
      BY <1>1, <2>4, <2>5, <2>7
    <2>9. i \in DOMAIN g1 /\ n + 1 \in DOMAIN g1 /\ i <= n + 1
      BY <1>1
    <2> DEFINE m == n + 1
    <2>10. ~ (Cost * (m - i + 1) <= Full + Rate * (g1[m] - g1[i])) /\ m \in DOMAIN g1 /\ i <= m
      BY <2>8, <2>9
    <2> HIDE DEF m
    <2> QED BY <2>9, <2>10, WindowAt, Zenon
  <1> QED BY <1>4, <1>5

(* The gate's bound is the one RateLimiter states. *)
LEMMA SameBound == ASSUME NEW g PROVE Gate!Within(g) <=> WindowBound(g)
  BY DEF Gate!Within, WindowBound, Full

(* The bucket an Allow asks, with the facts of it that GateInv has *)
Asked(s, l, b) == /\ l \in Sessions /\ b \in Bucket /\ b.last <= now
                  /\ Balanced(grants[l], b) /\ Exact(grants[l], b)
                  /\ Take(s, l, b) /\ now' = now

(* Both places where Allow asks a bucket ask one that is exact. *)
LEMMA AskedExact ==
  ASSUME GateInv, NEW s \in Sessions, LimiterAllow(s) \/ NewLimiterAllow(s)
  PROVE  \E l \in Sessions, b \in Bucket : Asked(s, l, b)
  <1>1. CASE LimiterAllow(s)
    <2>1. limiter[s] \in Sessions /\ bucket[limiter[s]] \in Bucket
      BY DEF GateInv, Inv, TypeOK
    <2>2. Asked(s, limiter[s], bucket[limiter[s]])
      BY <1>1, <2>1 DEF GateInv, Inv, Exacts, Ledgers, Ledger, Asked, LimiterAllow
    <2> QED BY <2>1, <2>2
  <1>2. CASE NewLimiterAllow(s)
    <2>1. NewLimiter \in Bucket /\ NewLimiter.last = now /\ NewLimiter.tokens = Full
          /\ now \in Nat
      BY NewLimiterType DEF GateInv, Inv, TypeOK
    <2>2. grants[s] = <<>>
      BY <1>2 DEF GateInv, Inv, Fresh, NewLimiterAllow, Goto
    <2>3. Balanced(grants[s], NewLimiter) /\ Exact(grants[s], NewLimiter)
      BY <2>1, <2>2 DEF Balanced, Exact
    <2>4. Asked(s, s, NewLimiter)
      BY <1>2, <2>1, <2>3 DEF Asked, NewLimiterAllow
    <2> QED BY <2>1, <2>4
  <1> QED BY <1>1, <1>2

(* Every step keeps the buckets exact. *)
LEMMA ExactStep ==
  ASSUME GateInv, [Next]_vars
  PROVE  Exacts'
  <1>0. TypeOK /\ Exacts
    BY DEF GateInv, Inv
  <1>1. ASSUME NEW s \in Sessions, LimiterAllow(s) \/ NewLimiterAllow(s) PROVE Exacts'
    <2>1. PICK l \in Sessions, b \in Bucket : Asked(s, l, b)
      BY <1>1, AskedExact
    <2>2. ASSUME NEW k \in Sessions, k # l PROVE Exact(grants'[k], bucket'[k])
      <3>1. bucket'[k] = bucket[k] /\ grants'[k] = grants[k]
        BY <1>0, <2>1, <2>2 DEF Asked, Take, TypeOK
      <3> QED BY <1>0, <3>1 DEF Exacts
    <2>3. Exact(grants'[l], bucket'[l])
      <3>1. bucket'[l] = Taken(b) /\ now \in Nat /\ grants[l] \in Seq(Nat)
        BY <1>0, <2>1 DEF Asked, Take, TypeOK
      <3>2. CASE Permits(b)
        <4>1. grants'[l] = Append(grants[l], now)
          BY <1>0, <2>1, <3>2 DEF Asked, Take, TypeOK
        <4> QED BY <2>1, <3>1, <3>2, <4>1, TakeKeepsExact DEF Asked
      <3>3. CASE ~ Permits(b)
        BY <2>1, <3>1, <3>3 DEF Asked, Take, Taken
      <3> QED BY <3>2, <3>3
    <2> QED BY <2>2, <2>3 DEF Exacts, Exact, Rest
  <1>2. ASSUME UNCHANGED <<bucket, grants>> PROVE Exacts'
    BY <1>0, <1>2 DEF Exacts, Exact, Rest
  <1>3. ASSUME NEW s \in Sessions,
               \/ Connect(s) \/ CacheHit(s) \/ CacheMiss(s) \/ CacheAdd(s)
               \/ Serve(s) \/ Refuse(s)
        PROVE  UNCHANGED <<bucket, grants>>
    BY <1>3 DEF Connect, CacheHit, CacheMiss, CacheAdd, Serve, Refuse
  <1>4. Tick \/ UNCHANGED vars => UNCHANGED <<bucket, grants>>
    BY DEF Tick, vars
  <1> QED BY <1>1, <1>2, <1>3, <1>4 DEF Next, Step

-----------------------------------------------------------------------------
(* A step of one session changes no verdict but its own. *)
LEMMA OneMoves ==
  ASSUME NEW s \in Sessions, NEW from, NEW to, from = Verdict(s), to = Verdict(s)',
         \A t \in Sessions : t # s => pc'[t] = pc[t] /\ allowed'[t] = allowed[t]
  PROVE  Gate!Move(s, from, to)
  <1>1. \A t \in Sessions : t # s => Verdict(t)' = Verdict(t)
    BY DEF Verdict
  <1>2. [t \in Sessions |-> Verdict(t)'] = [[t \in Sessions |-> Verdict(t)] EXCEPT ![s] = to]
    BY <1>1
  <1> QED BY <1>2 DEF Gate!Move

(* The initial states are those of the gate. *)
LEMMA GateStart == Init => Gate!GateInit
  BY DEF Init, Gate!GateInit, Verdict

(* The step that asks a bucket is the gate's decision on that bucket. *)
LEMMA AskDecides ==
  ASSUME GateInv, NEW s \in Sessions, LimiterAllow(s) \/ NewLimiterAllow(s)
  PROVE  Gate!Decide(s)
  <1>1. PICK l \in Sessions, b \in Bucket : Asked(s, l, b)
    BY AskedExact
  <1>2. /\ now \in Nat /\ grants[l] \in Seq(Nat) /\ grants \in [Sessions -> Seq(Nat)]
        /\ pc \in [Sessions -> {"idle", "get", "hit", "miss", "add",
                                "checked", "served", "refused"}]
        /\ allowed \in [Sessions -> BOOLEAN] /\ WindowBound(grants[l])
    BY DEF GateInv, Inv, TypeOK, Ledgers
  <1>3. /\ pc[s] \in {"hit", "miss"} /\ pc'[s] \in {"add", "checked"}
        /\ \A t \in Sessions : t # s => pc'[t] = pc[t]
    BY <1>2 DEF LimiterAllow, NewLimiterAllow, Goto
  <1>4. /\ allowed'[s] = Permits(b)
        /\ \A t \in Sessions : t # s => allowed'[t] = allowed[t]
    BY <1>1, <1>2, Zenon DEF Asked, Take
  <1>5. Verdict(s) = "asked"
    BY <1>3 DEF Verdict
  <1>6. CASE Permits(b)
    <2>1. Verdict(s)' = "yes"
      BY <1>3, <1>4, <1>6 DEF Verdict
    <2>2. Gate!Move(s, "asked", "yes")
      BY <1>3, <1>4, <1>5, <2>1, OneMoves
    <2>3. WindowBound(Append(grants[l], now))
      BY <1>1, <1>2, <1>6, TakeKeepsLedger DEF Asked
    <2>4. grants' = [grants EXCEPT ![l] = Append(@, now)] /\ now' = now
      BY <1>1, <1>6 DEF Asked, Take
    <2>5. Gate!Grant(s, l)
      BY <2>2, <2>3, <2>4, SameBound DEF Gate!Grant
    <2> QED BY <2>5 DEF Gate!Decide
  <1>7. CASE ~ Permits(b)
    <2>1. Verdict(s)' = "no"
      BY <1>3, <1>4, <1>7 DEF Verdict
    <2>2. Gate!Move(s, "asked", "no")
      BY <1>3, <1>4, <1>5, <2>1, OneMoves
    <2>3. ~ WindowBound(Append(grants[l], now))
      BY <1>1, <1>2, <1>7, RefusalNeeded DEF Asked
    <2>4. grants' = grants /\ now' = now
      BY <1>1, <1>7 DEF Asked, Take
    <2>5. Gate!Deny(s, l)
      BY <2>2, <2>3, <2>4, SameBound DEF Gate!Deny
    <2> QED BY <2>5 DEF Gate!Decide
  <1> QED BY <1>6, <1>7

(* Every step is a step of the gate, or one the gate does not see. *)
LEMMA GateStep ==
  ASSUME GateInv, [Next]_vars
  PROVE  [Gate!GateNext]_(Gate!gateVars)
  <1>0. /\ pc \in [Sessions -> {"idle", "get", "hit", "miss", "add",
                                "checked", "served", "refused"}]
        /\ allowed \in [Sessions -> BOOLEAN] /\ now \in Nat
    BY DEF GateInv, Inv, TypeOK
  <1>1. CASE Tick
    <2>1. Gate!Pass
      BY <1>1 DEF Tick, Gate!Pass, Verdict
    <2> QED BY <2>1 DEF Gate!GateNext
  <1>2. ASSUME NEW s \in Sessions, Connect(s) PROVE Gate!GateNext
    <2>1. Verdict(s) = "out" /\ Verdict(s)' = "asked"
      BY <1>0, <1>2 DEF Connect, Goto, Verdict
    <2>2. \A t \in Sessions : t # s => pc'[t] = pc[t] /\ allowed'[t] = allowed[t]
      BY <1>0, <1>2 DEF Connect, Goto
    <2>3. Gate!Move(s, "out", "asked")
      BY <2>1, <2>2, OneMoves
    <2>4. Gate!Ask(s)
      BY <1>2, <2>3 DEF Connect, Gate!Ask
    <2> QED BY <2>4 DEF Gate!GateNext
  <1>3. ASSUME NEW s \in Sessions, CacheHit(s) \/ CacheMiss(s) \/ CacheAdd(s)
        PROVE  UNCHANGED Gate!gateVars
    <2>1. /\ \E to \in {"hit", "miss", "checked"} :
                /\ pc' = [pc EXCEPT ![s] = to]
                /\ pc[s] = IF to = "checked" THEN "add" ELSE "get"
          /\ UNCHANGED <<allowed, grants, now>>
      BY <1>3 DEF CacheHit, CacheMiss, CacheAdd, Goto
    <2>2. \A t \in Sessions : Verdict(t)' = Verdict(t)
      BY <1>0, <2>1 DEF Verdict
    <2> QED BY <2>1, <2>2 DEF Gate!gateVars
  <1>4. ASSUME NEW s \in Sessions, LimiterAllow(s) \/ NewLimiterAllow(s)
        PROVE  Gate!GateNext
    BY <1>4, AskDecides DEF Gate!GateNext
  <1>5. ASSUME NEW s \in Sessions, Serve(s) \/ Refuse(s) PROVE Gate!GateNext
    <2>1. UNCHANGED <<allowed, grants, now>> /\ pc[s] = "checked"
      BY <1>5 DEF Serve, Refuse, Goto
    <2>2. \A t \in Sessions : t # s => pc'[t] = pc[t] /\ allowed'[t] = allowed[t]
      BY <1>0, <1>5 DEF Serve, Refuse, Goto
    <2>3. \/ Verdict(s) = "yes" /\ Verdict(s)' = "served"
          \/ Verdict(s) = "no" /\ Verdict(s)' = "refused"
      BY <1>0, <1>5 DEF Serve, Refuse, Goto, Verdict
    <2>4. Gate!Move(s, "yes", "served") \/ Gate!Move(s, "no", "refused")
      BY <2>2, <2>3, OneMoves
    <2>5. Gate!Answer(s)
      BY <2>1, <2>4 DEF Gate!Answer
    <2> QED BY <2>5 DEF Gate!GateNext
  <1>6. CASE UNCHANGED vars
    BY <1>6 DEF vars, Gate!gateVars, Verdict
  <1> QED BY <1>1, <1>2, <1>3, <1>4, <1>5, <1>6 DEF Next, Step

(* Every bucket holds exactly what its grants, the burst and the accrual   *)
(* leave it, in every interleaving of Allow.                               *)
THEOREM BucketsExact == Spec => []GateInv
  <1>1. Init => Exacts
    BY FullNat DEF Init, Exacts, Exact
  <1>2. GateInv /\ [Next]_vars => Exacts'
    BY ExactStep
  <1> QED BY <1>1, <1>2, Invariant, PTL DEF Spec, GateInv

(* The middleware with its cache, its buckets and the interleaved steps of *)
(* Allow does what the gate does, safety only: a session is decided once,  *)
(* refused exactly when a grant would break the bound of its bucket, and   *)
(* answered as it was decided (ratelimiter.go, Allow and Middleware).      *)
THEOREM GateImplemented == Spec => Gate!GateInit /\ [][Gate!GateNext]_(Gate!gateVars)
  BY GateStart, GateStep, BucketsExact, PTL DEF Spec

=============================================================================
