-------------------------- MODULE ScpSourceProofs --------------------------
(***************************************************************************)
(* What holds of a copy to the client for every command, every root and    *)
(* every tree of files.                                                    *)
(*                                                                         *)
(* The parts of the invariants: Closing, that an open file has its closer  *)
(* among those Return calls; Placed, that Place, which searches down from  *)
(* the root, answers with a directory appended before; Visiting, that the  *)
(* walk of an fs.FS goes through names only, so that no location it is     *)
(* called back with needs resolving; for Glob, that the place it looks at  *)
(* begins with the root (Longer) and has below it the names the command    *)
(* gave (AskedPlace); and for the copy as a whole, that every file that is *)
(* wanted has an entry in its directory or a call ahead of it (Gathered),  *)
(* that the client is, before each entry that is left to write, in the     *)
(* directory of that entry (Leaves), and that it has the entries written,  *)
(* each where it belongs (Sent).                                           *)
(***************************************************************************)
EXTENDS ScpSource, ScpPathsProofs

(* What is in a sequence with one element more. *)
LEMMA RangeAppend ==
  ASSUME NEW S, NEW s \in Seq(S), NEW x \in S
  PROVE  Range(Append(s, x)) = Range(s) \cup {x}
  <1> DEFINE t == Append(s, x)
  <1>1. /\ DOMAIN t = 1..(Len(s) + 1) /\ DOMAIN s = 1..Len(s) /\ Len(s) \in Nat
        /\ \A i \in 1..Len(s) : t[i] = s[i]
        /\ t[Len(s) + 1] = x
    OBVIOUS
  <1> HIDE DEF t
  <1>2. \A i \in DOMAIN t : t[i] \in Range(s) \cup {x}
    BY <1>1 DEF Range
  <1>3. \A i \in DOMAIN s : s[i] \in Range(t)
    BY <1>1 DEF Range
  <1>4. x \in Range(t)
    BY <1>1 DEF Range
  <1>5. Range(t) = Range(s) \cup {x}
    BY <1>2, <1>3, <1>4 DEF Range
  <1> QED BY <1>5 DEF t

(* Keep goes through the sequence one element after the other. *)
LEMMA KeepSteps ==
  ASSUME NEW S, NEW s \in Seq(S), NEW T
  PROVE  \E kept : /\ Keep(s, T) = kept[Len(s)]
                   /\ kept[0] = <<>>
                   /\ \A i \in 1..Len(s) :
                         kept[i] = IF s[i] \in T THEN Append(kept[i - 1], s[i]) ELSE kept[i - 1]
  <1> DEFINE n == Len(s)
             Body(f, k) == [i \in 0..k |->
                              CASE i = 0 -> <<>>
                                [] i > 0 /\ s[i] \in T -> Append(f[i - 1], s[i])
                                [] OTHER -> f[i - 1]]
             Defined == {k \in Nat : \E f : f = Body(f, k)}
             K == CHOOSE f : f = Body(f, n)
  <1>1. n \in Nat
    OBVIOUS
  <1>2. 0 \in Defined
    <2> DEFINE f == [i \in 0..0 |-> <<>>]
    <2>1. f = Body(f, 0)
      OBVIOUS
    <2> QED BY <2>1
  <1>3. ASSUME NEW k \in Nat, k \in Defined PROVE k + 1 \in Defined
    <2>1. PICK f : f = Body(f, k)
      BY <1>3
    <2> DEFINE new == IF s[k + 1] \in T THEN Append(f[k], s[k + 1]) ELSE f[k]
               g == [i \in 0..(k + 1) |-> IF i <= k THEN f[i] ELSE new]
    <2>2. \A i \in 0..k : f[i] = CASE i = 0 -> <<>>
                                   [] i > 0 /\ s[i] \in T -> Append(f[i - 1], s[i])
                                   [] OTHER -> f[i - 1]
      BY <2>1
    <2>3. \A i \in 0..(k + 1) : g[i] = CASE i = 0 -> <<>>
                                         [] i > 0 /\ s[i] \in T -> Append(g[i - 1], s[i])
                                         [] OTHER -> g[i - 1]
      BY <2>2
    <2>4. g = Body(g, k + 1) /\ k + 1 \in Nat
      BY <2>3
    <2> HIDE DEF g
    <2> QED BY <2>4
  <1>4. n \in Defined
    BY <1>1, <1>2, <1>3, NatSetInduction
  <1>5. K = Body(K, n)
    BY <1>4
  <1>6. Keep(s, T) = K[n]
    BY DEF Keep
  <1> HIDE DEF K
  <1>7. \A i \in 0..n : K[i] = CASE i = 0 -> <<>>
                                 [] i > 0 /\ s[i] \in T -> Append(K[i - 1], s[i])
                                 [] OTHER -> K[i - 1]
    BY <1>5
  <1>8. K[0] = <<>> /\ \A i \in 1..n : K[i] = IF s[i] \in T THEN Append(K[i - 1], s[i]) ELSE K[i - 1]
    BY <1>1, <1>7
  <1> QED BY <1>6, <1>8

(* It keeps exactly the elements that are in the set. *)
LEMMA KeepElements ==
  ASSUME NEW S, NEW s \in Seq(S), NEW T
  PROVE  /\ Keep(s, T) \in Seq(S)
         /\ Range(Keep(s, T)) = Range(s) \cap T
  <1>1. PICK kept : /\ Keep(s, T) = kept[Len(s)]
                    /\ kept[0] = <<>>
                    /\ \A i \in 1..Len(s) :
                         kept[i] = IF s[i] \in T THEN Append(kept[i - 1], s[i]) ELSE kept[i - 1]
    BY KeepSteps
  <1> DEFINE Upto(i) == {s[j] : j \in 1..i} \cap T
             Good == {i \in Nat : i <= Len(s) => kept[i] \in Seq(S) /\ Range(kept[i]) = Upto(i)}
  <1>2. 0 \in Good
    <2>1. Range(<<>>) = {} /\ <<>> \in Seq(S)
      BY DEF Range
    <2>2. Upto(0) = {}
      OBVIOUS
    <2>3. kept[0] = <<>>
      BY <1>1
    <2> QED BY <2>1, <2>2, <2>3
  <1>3. ASSUME NEW i \in Nat, i \in Good PROVE i + 1 \in Good
    <2> SUFFICES ASSUME i + 1 <= Len(s)
                 PROVE  kept[i + 1] \in Seq(S) /\ Range(kept[i + 1]) = Upto(i + 1)
      OBVIOUS
    <2>1. kept[i] \in Seq(S) /\ Range(kept[i]) = Upto(i)
      BY <1>3
    <2>2. s[i + 1] \in S
      OBVIOUS
    <2>3. kept[i + 1] = IF s[i + 1] \in T THEN Append(kept[i], s[i + 1]) ELSE kept[i]
      BY <1>1
    <2>4. {s[j] : j \in 1..(i + 1)} = {s[j] : j \in 1..i} \cup {s[i + 1]}
      OBVIOUS
    <2>5. CASE s[i + 1] \in T
      <3>1. kept[i + 1] = Append(kept[i], s[i + 1])
        BY <2>3, <2>5
      <3>2. Range(Append(kept[i], s[i + 1])) = Range(kept[i]) \cup {s[i + 1]}
        BY <2>1, <2>2, RangeAppend
      <3>3. Append(kept[i], s[i + 1]) \in Seq(S)
        BY <2>1, <2>2
      <3> QED BY <2>1, <2>4, <2>5, <3>1, <3>2, <3>3
    <2>6. CASE s[i + 1] \notin T
      BY <2>1, <2>3, <2>4, <2>6
    <2> QED BY <2>5, <2>6
  <1>4. Len(s) \in Good
    <2>1. Len(s) \in Nat
      OBVIOUS
    <2> HIDE DEF Good
    <2> QED BY <1>2, <1>3, <2>1, NatSetInduction
  <1>5. Range(s) = {s[j] : j \in 1..Len(s)}
    BY DEF Range
  <1> QED BY <1>1, <1>4, <1>5
-----------------------------------------------------------------------------
(* The least of some numbers, and the greatest up to a bound. *)
LEMMA LeastOf ==
  ASSUME NEW T, T \subseteq Nat, T # {}
  PROVE  Min(T) \in T /\ \A y \in T : Min(T) <= y
  <1> DEFINE Above == {n \in Nat : \A y \in T : n <= y}
  <1>1. SUFFICES ASSUME ~ \E x \in T : \A y \in T : x <= y PROVE FALSE
    BY DEF Min
  <1>2. 0 \in Above
    OBVIOUS
  <1>3. ASSUME NEW n \in Nat, n \in Above PROVE n + 1 \in Above
    <2>1. n \notin T
      BY <1>1, <1>3
    <2>2. \A y \in T : n <= y /\ y # n /\ y \in Nat
      BY <1>3, <2>1
    <2> QED BY <2>2
  <1>4. Nat \subseteq Above
    <2> HIDE DEF Above
    <2> QED BY <1>2, <1>3, NatSetInduction
  <1>5. PICK y \in T : TRUE
    OBVIOUS
  <1>6. y + 1 \in Nat /\ y \in Nat
    OBVIOUS
  <1>7. y + 1 <= y
    BY <1>4, <1>6
  <1> QED BY <1>6, <1>7

(* The greatest of some numbers that are bounded. *)
LEMMA GreatestOf ==
  ASSUME NEW n \in Nat, NEW T, T \subseteq 1..n, T # {}
  PROVE  Max(T) \in T
  <1> DEFINE U == {n - x : x \in T}
  <1>1. U \subseteq Nat /\ U # {}
    <2>1. \A x \in T : n - x \in Nat
      OBVIOUS
    <2> QED BY <2>1
  <1>2. Min(U) \in U /\ \A y \in U : Min(U) <= y
    BY <1>1, LeastOf
  <1>3. PICK x \in T : Min(U) = n - x
    BY <1>2
  <1>4. \A y \in T : n - x <= n - y
    BY <1>2, <1>3
  <1>5. \A y \in T : x >= y
    BY <1>4
  <1> QED BY <1>5 DEF Max

(* The directories of an entry that are searched for a place. *)
Searched(es, loc, k) ==
    {i \in DOMAIN es : /\ es[i].parent = k /\ es[i].dir
                       /\ es[i].loc = Dir(loc) \/ StringPrefix(es[i].loc, Dir(loc))}

(* The search goes down from the root to the first of those, and so to an  *)
(* entry that was appended later.                                          *)
LEMMA PlaceSteps ==
  ASSUME NEW S, NEW es \in Seq(S), NEW loc,
         \A i \in DOMAIN es : es[i].parent \in Nat /\ es[i].parent < i
  PROVE  /\ \A k \in 0..Len(es) : Searched(es, loc, k) # {} =>
               /\ Min(Searched(es, loc, k)) \in Searched(es, loc, k)
               /\ Min(Searched(es, loc, k)) \in (k + 1)..Len(es)
         /\ \E P : /\ Place(es, loc) = P[0]
                   /\ \A k \in 0..Len(es) :
                         P[k] = IF Searched(es, loc, k) = {} THEN k
                                ELSE LET i == Min(Searched(es, loc, k))
                                     IN  IF es[i].loc = Dir(loc) THEN i ELSE P[i]
  <1> DEFINE n == Len(es)
             parent == Dir(loc)
             Under(k) == Searched(es, loc, k)
             Next1(f, k) == IF Under(k) = {} THEN k
                            ELSE LET i == Min(Under(k)) IN IF es[i].loc = parent THEN i ELSE f[i]
             Body(f, m) == [k \in m..n |-> Next1(f, k)]
             Defined == {m \in Nat : m <= n => \E f : f = Body(f, n - m)}
             P == CHOOSE f : f = Body(f, 0)
  <1>1. n \in Nat /\ DOMAIN es = 1..n
    OBVIOUS
  <1>2. ASSUME NEW k \in 0..n, Under(k) # {}
        PROVE  Min(Under(k)) \in Under(k) /\ Min(Under(k)) \in (k + 1)..n
    <2>1. Under(k) \subseteq Nat
      BY <1>1 DEF Searched
    <2>2. Min(Under(k)) \in Under(k)
      BY <1>2, <2>1, LeastOf
    <2> QED BY <1>1, <2>2 DEF Searched
  <1> HIDE DEF Under
  <1>3. 0 \in Defined
    <2> DEFINE f == [k \in n..n |-> k]
    <2>1. Under(n) = {}
      BY <1>1, <1>2
    <2>2. f = Body(f, n)
      BY <1>1, <2>1
    <2>3. f = Body(f, n - 0)
      BY <1>1, <2>2
    <2> HIDE DEF f, Body
    <2> QED BY <2>3
  <1>4. ASSUME NEW m \in Nat, m \in Defined PROVE m + 1 \in Defined
    <2> SUFFICES ASSUME m + 1 <= n PROVE \E f : f = Body(f, n - (m + 1))
      <3> HIDE DEF Body
      <3> QED OBVIOUS
    <2>0. PICK f : f = Body(f, n - m)
      <3>1. m <= n
        BY <1>1
      <3> HIDE DEF Body
      <3> QED BY <1>4, <3>1
    <2> DEFINE d == n - (m + 1)
    <2>1. d \in 0..n /\ n - m = d + 1
      BY <1>1
    <2>2. f = Body(f, d + 1)
      BY <2>0, <2>1
    <2> HIDE DEF d
    <2> DEFINE g == [k \in d..n |-> IF k = d THEN Next1(f, d) ELSE f[k]]
    <2>3. \A k \in (d + 1)..n : f[k] = Next1(f, k)
      BY <2>2
    <2>4. \A k \in (d + 1)..n : g[k] = f[k]
      BY <2>1
    <2>5. \A k \in d..n : Next1(g, k) = Next1(f, k)
      <3> SUFFICES ASSUME NEW k \in d..n, Under(k) # {} PROVE g[Min(Under(k))] = f[Min(Under(k))]
        BY Zenon
      <3>1. Min(Under(k)) \in (k + 1)..n
        BY <1>1, <1>2, <2>1
      <3> QED BY <2>1, <2>4, <3>1
    <2>6. \A k \in d..n : g[k] = Next1(g, k)
      <3> TAKE k \in d..n
      <3>1. CASE k = d
        BY <2>5, <3>1
      <3>2. CASE k # d
        <4>1. k \in (d + 1)..n
          BY <1>1, <2>1, <3>2
        <4> HIDE DEF Next1, g
        <4> QED BY <2>3, <2>4, <2>5, <4>1
      <3> QED BY <3>1, <3>2
    <2>7. g = Body(g, d)
      BY <2>6
    <2> HIDE DEF g, Body
    <2> QED BY <2>7 DEF d
  <1>5. \E f : f = Body(f, 0)
    <2>1. n \in Defined
      <3> HIDE DEF Defined
      <3> QED BY <1>1, <1>3, <1>4, NatSetInduction
    <2>2. n - n = 0 /\ n <= n
      BY <1>1
    <2> HIDE DEF Body
    <2> QED BY <2>1, <2>2
  <1>6. P = Body(P, 0)
    <2> HIDE DEF Body
    <2> QED BY <1>5
  <1>7. Place(es, loc) = P[0]
    BY DEF Place, Under, Searched
  <1> HIDE DEF P
  <1>8. \A k \in 0..n : P[k] = Next1(P, k)
    BY <1>6
  <1> QED BY <1>2, <1>7, <1>8 DEF Under

(* The place of a new entry is the root or a directory that is there. *)
LEMMA PlaceFound ==
  ASSUME NEW S, NEW es \in Seq(S), NEW loc,
         \A i \in DOMAIN es : es[i].parent \in Nat /\ es[i].parent < i
  PROVE  Place(es, loc) = 0 \/ (Place(es, loc) \in DOMAIN es /\ es[Place(es, loc)].dir)
  <1> DEFINE n == Len(es)
             Under(k) == Searched(es, loc, k)
  <1>1. n \in Nat /\ DOMAIN es = 1..n
    OBVIOUS
  <1>2. \A k \in 0..n : Under(k) # {} => Min(Under(k)) \in Under(k) /\ Min(Under(k)) \in (k + 1)..n
    BY PlaceSteps
  <1>7. PICK P : /\ Place(es, loc) = P[0]
                 /\ \A k \in 0..n :
                       P[k] = IF Under(k) = {} THEN k
                              ELSE LET i == Min(Under(k)) IN IF es[i].loc = Dir(loc) THEN i ELSE P[i]
    BY PlaceSteps
  <1> HIDE DEF Under
  <1> DEFINE Found(x, k) == x = k \/ (x \in DOMAIN es /\ es[x].dir)
             Good == {m \in Nat : \A k \in 0..n : n - m <= k => Found(P[k], k)}
  <1>9. ASSUME NEW k \in 0..n, \A i \in (k + 1)..n : Found(P[i], i) PROVE Found(P[k], k)
    <2>1. CASE Under(k) = {}
      BY <1>7, <2>1
    <2>2. CASE Under(k) # {}
      <3> DEFINE i == Min(Under(k))
      <3>1. i \in (k + 1)..n /\ i \in DOMAIN es /\ es[i].dir
        BY <1>1, <1>2, <2>2 DEF Under, Searched
      <3>2. P[k] = IF es[i].loc = Dir(loc) THEN i ELSE P[i]
        BY <1>7, <2>2
      <3>3. Found(P[i], i)
        BY <1>9, <3>1
      <3> HIDE DEF i
      <3> QED BY <3>1, <3>2, <3>3
    <2> QED BY <2>1, <2>2
  <1>10. 0 \in Good
    <2> SUFFICES ASSUME NEW k \in 0..n, n - 0 <= k PROVE Found(P[k], k)
      OBVIOUS
    <2>1. (k + 1)..n = {}
      BY <1>1
    <2> HIDE DEF Found
    <2> QED BY <1>9, <2>1
  <1>11. ASSUME NEW m \in Nat, m \in Good PROVE m + 1 \in Good
    <2> SUFFICES ASSUME NEW k \in 0..n, n - (m + 1) <= k PROVE Found(P[k], k)
      OBVIOUS
    <2>1. \A i \in (k + 1)..n : i \in 0..n /\ n - m <= i
      BY <1>1
    <2> HIDE DEF Found
    <2>2. \A i \in (k + 1)..n : Found(P[i], i)
      BY <1>11, <2>1
    <2> QED BY <1>9, <2>2
  <1>12. Found(P[0], 0)
    <2>1. n \in Good
      <3> HIDE DEF Good
      <3> QED BY <1>1, <1>10, <1>11, NatSetInduction
    <2>2. 0 \in 0..n /\ n - n <= 0
      BY <1>1
    <2> HIDE DEF Found
    <2> QED BY <2>1, <2>2
  <1> QED BY <1>7, <1>12
-----------------------------------------------------------------------------
(* The paths of a copy *)

(* Component names, and the one of "." spelled out *)
Strings == STRING \cup {"."}

CallSet == [call : {"open", "walk", "visit"}, arg : Paths(Strings)]

(* Sequences, and paths, over a larger set. *)
LEMMA LargerSeq == ASSUME NEW A, NEW B, A \subseteq B PROVE Seq(A) \subseteq Seq(B)
  <1> SUFFICES ASSUME NEW s \in Seq(A) PROVE s \in Seq(B)
    OBVIOUS
  <1>1. Len(s) \in Nat /\ DOMAIN s = 1..Len(s) /\ \A i \in 1..Len(s) : s[i] \in B
    OBVIOUS
  <1> QED BY <1>1

(* A path of strings is a path of Strings, which also has the names ".".    *)
LEMMA LargerPaths == Paths(STRING) \subseteq Paths(Strings)
  <1>1. Seq(STRING) \subseteq Seq(Strings)
    BY LargerSeq DEF Strings
  <1> QED BY <1>1 DEF Paths

(* The names of the entries of a directory. *)
LEMMA NamesPlain ==
  /\ NameOrder \in Seq(Names) /\ Names \subseteq Strings
  /\ \A n \in Names : Plain(n)
  <1> DEFINE Ordinary == STRING \ {Empty, ".", ".."}
  <1>1. NameOrder \in Seq(Ordinary)
    BY NamesAssumption
  <1> HIDE DEF Ordinary
  <1>2. Names \subseteq Ordinary /\ NameOrder \in Seq(Names)
    BY <1>1 DEF Names, Range
  <1>3. Ordinary \subseteq Strings /\ \A n \in Ordinary : Plain(n)
    BY DEF Ordinary, Strings, Plain
  <1> QED BY <1>2, <1>3

(* The path of a command that asks for files. *)
LEMMA InfoPath ==
  ASSUME cmd \in Commands, info.ok, info.op = Word("-f")
  PROVE  info.path \in Paths(Strings)
  <1> DEFINE n == Len(cmd)
  <1>1. cmd \in Seq(Paths(Strings)) /\ n \in Nat /\ DOMAIN cmd = 1..n
    <2>1. cmd \in Seq(Paths(Strings))
      BY CommandsAssumption, LargerPaths, LargerSeq
    <2> QED BY <2>1
  <1>2. FlagsAt(cmd) # {}
    <2> SUFFICES ASSUME FlagsAt(cmd) = {} PROVE FALSE
      OBVIOUS
    <2>1. Word("-f") = Word(Empty)
      BY DEF info, GetInfo
    <2>2. "-f" # ""
      BY Zenon
    <2>3. Word("-f").names[1] = Word(Empty).names[1]
      BY <2>1
    <2>4. Word("-f").names[1] = "-f" /\ Word(Empty).names[1] = Empty
      BY DEF Word, Path
    <2> QED BY <2>2, <2>3, <2>4 DEF Empty
  <1>3. FlagsAt(cmd) \subseteq 1..n
    BY <1>1 DEF FlagsAt
  <1>4. Max(FlagsAt(cmd)) \in FlagsAt(cmd)
    BY <1>1, <1>2, <1>3, GreatestOf
  <1>5. n \notin FlagsAt(cmd)
    BY DEF info, GetInfo
  <1>6. info.path = cmd[Max(FlagsAt(cmd)) + 1]
    BY <1>2, <1>5 DEF info, GetInfo
  <1>7. Max(FlagsAt(cmd)) + 1 \in 1..n
    BY <1>1, <1>3, <1>4, <1>5
  <1> QED BY <1>1, <1>6, <1>7

(* The entries of a directory, each at its name. *)
LEMMA ListingPaths ==
  ASSUME NEW loc \in Paths(Strings)
  PROVE  LET there == {n \in Names : Append(Below(loc), n) \in DOMAIN tree}
         IN  /\ Listing(loc) \in Seq(Paths(Strings))
             /\ Range(Listing(loc)) = {Path(loc.abs, Append(loc.names, n)) : n \in there}
             /\ \A i \in DOMAIN Listing(loc) : Listing(loc)[i] \in Range(Listing(loc))
  <1> DEFINE there == {n \in Names : Append(Below(loc), n) \in DOMAIN tree}
             k == Keep(NameOrder, there)
             At(n) == Path(loc.abs, Append(loc.names, n))
  <1>1. k \in Seq(Names) /\ Range(k) = there
    <2>1. k \in Seq(Names) /\ Range(k) = Range(NameOrder) \cap there
      BY NamesPlain, KeepElements
    <2> QED BY <2>1 DEF Names
  <1>2. Listing(loc) = [i \in DOMAIN k |-> At(k[i])]
    BY DEF Listing
  <1>3. \A n \in Names : At(n) \in Paths(Strings)
    BY NamesPlain DEF Paths, Path
  <1> HIDE DEF k, there, At
  <1>4. DOMAIN k = 1..Len(k) /\ Len(k) \in Nat /\ \A i \in DOMAIN k : k[i] \in Names
    BY <1>1
  <1>5. Listing(loc) \in Seq(Paths(Strings)) /\ DOMAIN Listing(loc) = DOMAIN k
    BY <1>2, <1>3, <1>4
  <1>6. Range(Listing(loc)) = {At(n) : n \in Range(k)}
    BY <1>2 DEF Range
  <1>7. \A i \in DOMAIN Listing(loc) : Listing(loc)[i] \in Range(Listing(loc))
    BY DEF Range
  <1> QED BY <1>1, <1>5, <1>6, <1>7 DEF there, At

(* What Glob finds are paths. *)
LEMMA FoundPaths ==
  ASSUME NEW p \in Paths(Strings)
  PROVE  /\ Kept(Matches(p)) \in Seq(Paths(Strings)) /\ Matches(p) \in Seq(Paths(Strings))
         /\ Range(Kept(Matches(p))) = IF handler = "dir" THEN {m \in Range(Matches(p)) : AtOrBelow(root, m)}
                                      ELSE Range(Matches(p))
  <1> DEFINE d == Path(p.abs, Front(p.names))
             ms == Matches(p)
  <1>1. ASSUME Wild(p) PROVE d \in Paths(Strings)
    <2>1. p.names \in Seq(Strings) /\ p.names # <<>> /\ p.abs \in BOOLEAN
      BY <1>1 DEF Paths, Wild
    <2>2. Front(p.names) \in Seq(Strings)
      BY <2>1 DEF Front
    <2> QED BY <2>1, <2>2 DEF Paths, Path
  <1>2. ms \in Seq(Paths(Strings))
    BY <1>1, ListingPaths DEF Matches
  <1> HIDE DEF ms
  <1> DEFINE T == {m \in Range(ms) : AtOrBelow(root, m)}
  <1>3. Keep(ms, T) \in Seq(Paths(Strings)) /\ Range(Keep(ms, T)) = Range(ms) \cap T
    BY <1>2, KeepElements
  <1>4. Range(ms) \cap T = T
    OBVIOUS
  <1> HIDE DEF T
  <1>5. Kept(ms) = IF handler = "dir" THEN Keep(ms, T) ELSE ms
    BY DEF Kept, T
  <1> QED BY <1>2, <1>3, <1>4, <1>5 DEF ms, T

(* What a handler looks at for a path is a path. *)
LEMMA ResolvedPath ==
  ASSUME root \in Paths(Strings), NEW p \in Paths(Strings), Resolve(p).ok
  PROVE  /\ Resolve(p).loc \in Paths(Strings)
         /\ Normal(Resolve(p).loc.abs, Resolve(p).loc.names)
         /\ handler = "dir" => AtOrBelow(root, Resolve(p).loc)
  <1>1. CASE handler = "dir"
    BY <1>1, PrefixedSound DEF Resolve
  <1>2. CASE handler # "dir"
    BY <1>2, CleanNormal DEF Resolve
  <1> QED BY <1>1, <1>2

(* So is the argument made of a match. *)
LEMMA ArgumentPath ==
  ASSUME root \in Paths(Strings), NEW p \in Paths(Strings)
  PROVE  AsArgument(p) \in Paths(Strings)
  <1>1. Rel(root, p) \in Paths(Strings)
    <2>1. root.names \in Seq(Strings) /\ p.names \in Seq(Strings)
      BY DEF Paths
    <2>2. SubSeq(p.names, Len(root.names) + 1, Len(p.names)) \in Seq(Strings)
      BY <2>1
    <2> QED BY <2>2 DEF Rel, Path, Paths
  <1>2. Word(".") \in Paths(Strings)
    <2>1. "." \in Strings
      BY DEF Strings
    <2>2. <<".">> \in Seq(Strings)
      BY <2>1
    <2> QED BY <2>2 DEF Word, Path, Paths
  <1> QED BY <1>1, <1>2 DEF AsArgument
-----------------------------------------------------------------------------
(* The invariant *)

(* Where a session starts is not changed. *)
Setup == /\ cmd \in Commands
         /\ root \in Paths(Strings) /\ Normal(root.abs, root.names)
         /\ handler = "dir" => \E r \in Roots : root = Clean(r)
         /\ handler # "dir" => root = Path(FALSE, <<>>)

(* How far the copy is, and the calls that are left *)
Control == /\ phase \in {"start", "glob", "entries", "write"} \/ Ended
           /\ phase = "glob" => info.ok /\ info.op = Word("-f")
           /\ todo \in Seq(CallSet)

(* Every entry is in a directory that was appended before it. *)
Placed == /\ \E S : entries \in Seq(S)
          /\ \A i \in DOMAIN entries :
                /\ entries[i].parent \in Nat /\ entries[i].parent < i
                /\ entries[i].parent # 0 => entries[entries[i].parent].dir

(* A file that is open has its closer registered, and until the copy ends  *)
(* every file that has an entry is open.                                   *)
Closing == /\ closers \in Seq(Nat) /\ Range(closers) \subseteq DOMAIN entries \cup {0}
           /\ open \subseteq DOMAIN entries /\ open \subseteq Range(closers)
           /\ phase \in {"start", "glob"} => entries = <<>>
           /\ Ended => open = {}
           /\ phase \in {"entries", "write"} =>
                 \A i \in DOMAIN entries : ~ entries[i].dir => i \in open

Writing == pending \in Seq(Nat) /\ Range(pending) \subseteq DOMAIN entries \cup {0}

SourceInv == Setup /\ Control /\ Placed /\ Closing /\ Writing

(* The sequences that calls and entries to write are kept in. *)
LEMMA Queue ==
  ASSUME NEW S, NEW s \in Seq(S), s # <<>>, NEW t \in Seq(S)
  PROVE  /\ Tail(s) \in Seq(S) /\ Head(s) \in S /\ Head(s) \in Range(s)
         /\ t \o Tail(s) \in Seq(S)
         /\ Range(Tail(s)) \subseteq Range(s)
         /\ Range(t \o Tail(s)) \subseteq Range(t) \cup Range(s)
  <1>1. Tail(s) \in Seq(S) /\ Head(s) \in S /\ Len(s) \in Nat \ {0} /\ DOMAIN s = 1..Len(s)
        /\ Len(Tail(s)) = Len(s) - 1 /\ DOMAIN Tail(s) = 1..(Len(s) - 1)
        /\ \A i \in 1..(Len(s) - 1) : Tail(s)[i] = s[i + 1]
        /\ Head(s) = s[1]
    OBVIOUS
  <1>2. Head(s) \in Range(s)
    BY <1>1 DEF Range
  <1>3. Range(Tail(s)) \subseteq Range(s)
    BY <1>1 DEF Range
  <1> DEFINE u == Tail(s)
  <1>4. u \in Seq(S)
    BY <1>1
  <1> HIDE DEF u
  <1>5. t \o u \in Seq(S) /\ DOMAIN (t \o u) = 1..(Len(t) + Len(u))
        /\ (\A i \in 1..Len(t) : (t \o u)[i] = t[i])
        /\ (\A i \in (Len(t) + 1)..(Len(t) + Len(u)) : (t \o u)[i] = u[i - Len(t)])
    BY <1>4, ConcatNames
  <1>6. \A i \in DOMAIN (t \o u) : (t \o u)[i] \in Range(t) \cup Range(u)
    <2> TAKE i \in DOMAIN (t \o u)
    <2>1. DOMAIN t = 1..Len(t) /\ DOMAIN u = 1..Len(u) /\ Len(t) \in Nat /\ Len(u) \in Nat
      BY <1>4
    <2>2. CASE i \in 1..Len(t)
      BY <1>5, <2>1, <2>2 DEF Range
    <2>3. CASE i \notin 1..Len(t)
      <3>1. i \in (Len(t) + 1)..(Len(t) + Len(u)) /\ i - Len(t) \in 1..Len(u)
        BY <1>5, <2>1, <2>3
      <3> QED BY <1>5, <2>1, <3>1 DEF Range
    <2> QED BY <2>2, <2>3
  <1>7. Range(t \o u) \subseteq Range(t) \cup Range(u)
    BY <1>6 DEF Range
  <1> QED BY <1>1, <1>2, <1>3, <1>5, <1>7 DEF u

(* An entry more. *)
LEMMA EntryAdded ==
  ASSUME Placed, NEW loc, NEW asDir \in BOOLEAN, entries' = Append(entries, NewEntry(loc, asDir))
  PROVE  /\ Placed'
         /\ Len(entries) + 1 \in DOMAIN entries' /\ Len(entries) + 1 \in Nat
         /\ DOMAIN entries' = DOMAIN entries \cup {Len(entries) + 1}
         /\ \A i \in DOMAIN entries : entries'[i] = entries[i]
         /\ entries'[Len(entries) + 1].dir = asDir
  <1> DEFINE e == NewEntry(loc, asDir)
             n == Len(entries)
  <1>1. PICK S : entries \in Seq(S)
    BY DEF Placed
  <1>2. e.dir = asDir /\ e.parent = Place(entries, loc)
    BY DEF NewEntry
  <1>3. e.parent = 0 \/ (e.parent \in DOMAIN entries /\ entries[e.parent].dir)
    BY <1>1, <1>2, PlaceFound DEF Placed
  <1> HIDE DEF e
  <1>4. entries' \in Seq(S \cup {e})
    <2>1. entries \in Seq(S \cup {e})
      BY <1>1, LargerSeq
    <2> QED BY <2>1 DEF e
  <1>5. /\ n \in Nat /\ DOMAIN entries = 1..n /\ DOMAIN entries' = 1..(n + 1)
        /\ \A i \in 1..n : entries'[i] = entries[i]
        /\ entries'[n + 1] = e
    BY <1>1 DEF e
  <1>6. ASSUME NEW i \in DOMAIN entries'
        PROVE  /\ entries'[i].parent \in Nat /\ entries'[i].parent < i
               /\ entries'[i].parent # 0 => entries'[entries'[i].parent].dir
    <2>1. CASE i \in 1..n
      <3>1. entries'[i] = entries[i] /\ i \in DOMAIN entries
        BY <1>5, <2>1
      <3>2. entries[i].parent \in Nat /\ entries[i].parent < i
            /\ (entries[i].parent # 0 => entries[entries[i].parent].dir)
        BY <3>1 DEF Placed
      <3>3. entries[i].parent # 0 => entries[i].parent \in 1..n
        BY <1>5, <2>1, <3>2
      <3> QED BY <1>5, <3>1, <3>2, <3>3
    <2>2. CASE i = n + 1
      BY <1>3, <1>5, <2>2
    <2> QED BY <1>5, <2>1, <2>2
  <1>7. Placed'
    BY <1>4, <1>6 DEF Placed
  <1> QED BY <1>2, <1>5, <1>7

(* The entries of a directory to write. *)
LEMMA ChildrenIn ==
  ASSUME Placed, NEW k
  PROVE  /\ Children(k) \in Seq(Nat) /\ Range(Children(k)) \subseteq DOMAIN entries
         /\ Range(Children(k)) = {i \in DOMAIN entries : entries[i].parent = k}
  <1> DEFINE s == [i \in DOMAIN entries |-> i]
             T == {i \in DOMAIN entries : entries[i].parent = k}
  <1>1. PICK S : entries \in Seq(S)
    BY DEF Placed
  <1>2. s \in Seq(Nat) /\ DOMAIN s = DOMAIN entries
    BY <1>1
  <1>3. Keep(s, T) \in Seq(Nat) /\ Range(Keep(s, T)) = Range(s) \cap T
    BY <1>2, KeepElements
  <1>4. Children(k) = Keep(s, T)
    BY DEF Children
  <1>5. T \subseteq DOMAIN entries /\ Range(s) = DOMAIN entries
    BY DEF Range
  <1> HIDE DEF s
  <1>6. Range(s) \cap T = T
    BY <1>5
  <1> HIDE DEF T
  <1>7. Range(Children(k)) = T
    BY <1>3, <1>4, <1>6
  <1> QED BY <1>3, <1>4, <1>5, <1>7 DEF T

(* However a copy ends, its closers leave no file open. *)
LEMMA ReturnKeeps ==
  ASSUME SourceInv, NEW how \in {"done", "failed", "refused"},
         NEW registered \in Seq(Nat), Range(closers) \subseteq Range(registered),
         Range(registered) \subseteq DOMAIN entries \cup {0},
         Return(how, registered), UNCHANGED <<setup, todo, entries, pending>>
  PROVE  SourceInv'
  <1>1. Setup'
    BY DEF SourceInv, Setup, setup
  <1>2. phase' = how /\ closers' = registered /\ open' = open \ Range(registered)
    BY DEF Return
  <1>3. Control'
    BY <1>2 DEF SourceInv, Control, Ended
  <1>4. Placed'
    BY DEF SourceInv, Placed
  <1>5. open' = {}
    BY <1>2 DEF SourceInv, Closing
  <1>6. Closing'
    BY <1>2, <1>5 DEF SourceInv, Closing, Ended
  <1>7. Writing'
    BY DEF SourceInv, Writing
  <1> QED BY <1>1, <1>3, <1>4, <1>6, <1>7 DEF SourceInv

(* A failed call may have registered a nil closer. *)
LEMMA FailureKeeps ==
  ASSUME SourceInv, NEW how \in {"failed", "refused"}, NEW nil \in BOOLEAN,
         Return(how, IF nil THEN Append(closers, 0) ELSE closers),
         UNCHANGED <<setup, todo, entries, pending>>
  PROVE  SourceInv'
  <1>1. closers \in Seq(Nat) /\ Range(closers) \subseteq DOMAIN entries \cup {0}
    BY DEF SourceInv, Closing
  <1>2. Append(closers, 0) \in Seq(Nat) /\ Range(Append(closers, 0)) = Range(closers) \cup {0}
    BY <1>1, RangeAppend
  <1>3. CASE nil
    BY <1>1, <1>2, <1>3, ReturnKeeps
  <1>4. CASE ~ nil
    BY <1>1, <1>4, ReturnKeeps
  <1> QED BY <1>3, <1>4

(* A file that gets an entry is open, and its closer registered. *)
LEMMA FileKeeps ==
  ASSUME SourceInv, phase = "entries", NEW loc, AddFile(loc), todo' \in Seq(CallSet),
         UNCHANGED <<setup, phase, pending>>
  PROVE  SourceInv'
  <1> DEFINE n == Len(entries) + 1
  <1>1. entries' = Append(entries, NewEntry(loc, FALSE)) /\ open' = open \cup {n}
        /\ closers' = Append(closers, n)
    BY DEF AddFile
  <1>2. /\ Placed' /\ n \in DOMAIN entries' /\ n \in Nat
        /\ DOMAIN entries' = DOMAIN entries \cup {n}
        /\ \A i \in DOMAIN entries : entries'[i] = entries[i]
    BY <1>1, EntryAdded DEF SourceInv
  <1> HIDE DEF n
  <1>3. closers' \in Seq(Nat) /\ Range(closers') = Range(closers) \cup {n}
    BY <1>1, <1>2, RangeAppend DEF SourceInv, Closing
  <1>4. Setup' /\ Control'
    BY DEF SourceInv, Setup, setup, Control, Ended, info
  <1>5. Closing'
    <2>1. open' \subseteq DOMAIN entries' /\ open' \subseteq Range(closers')
          /\ Range(closers') \subseteq DOMAIN entries' \cup {0}
      BY <1>1, <1>2, <1>3 DEF SourceInv, Closing
    <2>2. ASSUME NEW i \in DOMAIN entries', ~ entries'[i].dir PROVE i \in open'
      BY <1>1, <1>2, <2>2 DEF SourceInv, Closing
    <2>3. phase' = "entries"
      OBVIOUS
    <2> QED BY <1>3, <2>1, <2>2, <2>3 DEF Closing, Ended
  <1>6. Writing'
    BY <1>2 DEF SourceInv, Writing
  <1> QED BY <1>2, <1>4, <1>5, <1>6 DEF SourceInv

(* A directory gets an entry and nothing is opened. *)
LEMMA DirKeeps ==
  ASSUME SourceInv, phase = "entries", NEW loc, entries' = Append(entries, NewEntry(loc, TRUE)),
         todo' \in Seq(CallSet), UNCHANGED <<setup, phase, pending, open, closers>>
  PROVE  SourceInv'
  <1> DEFINE n == Len(entries) + 1
  <1>2. /\ Placed' /\ n \in DOMAIN entries' /\ n \in Nat
        /\ DOMAIN entries' = DOMAIN entries \cup {n}
        /\ \A i \in DOMAIN entries : entries'[i] = entries[i]
        /\ entries'[n].dir = TRUE
    BY EntryAdded DEF SourceInv
  <1> HIDE DEF n
  <1>4. Setup' /\ Control'
    BY DEF SourceInv, Setup, setup, Control, Ended, info
  <1>5. Closing'
    <2>1. open' \subseteq DOMAIN entries' /\ open' \subseteq Range(closers') /\ closers' \in Seq(Nat)
          /\ Range(closers') \subseteq DOMAIN entries' \cup {0}
      BY <1>2 DEF SourceInv, Closing
    <2>2. ASSUME NEW i \in DOMAIN entries', ~ entries'[i].dir PROVE i \in open'
      BY <1>2, <2>2 DEF SourceInv, Closing
    <2>3. phase' = "entries"
      OBVIOUS
    <2> QED BY <2>1, <2>2, <2>3 DEF Closing, Ended
  <1>6. Writing'
    BY <1>2 DEF SourceInv, Writing
  <1> QED BY <1>2, <1>4, <1>5, <1>6 DEF SourceInv

(* The calls that are left change, or the entries to write, and nothing    *)
(* that is open.                                                           *)
LEMMA QuietKeeps ==
  ASSUME SourceInv, phase \in {"entries", "write"}, phase' \in {"entries", "write"},
         todo' \in Seq(CallSet),
         pending' \in Seq(Nat), Range(pending') \subseteq DOMAIN entries \cup {0},
         UNCHANGED <<setup, entries, open, closers>>
  PROVE  SourceInv'
  <1>1. Setup' /\ Control' /\ Placed'
    BY DEF SourceInv, Setup, setup, Control, Placed, Ended
  <1>2. Closing' /\ Writing'
    BY DEF SourceInv, Closing, Writing, Ended
  <1> QED BY <1>1, <1>2 DEF SourceInv
-----------------------------------------------------------------------------
(* The calls Glob leaves to make. *)
LEMMA GlobTodo ==
  ASSUME SourceInv, Glob
  PROVE  todo' \in Seq(CallSet)
  <1> DEFINE to == Resolve(info.path)
             all == IF to.ok THEN Kept(Matches(to.loc)) ELSE <<>>
             Args == [i \in DOMAIN all |->
                        [call |-> IF info.recursive THEN "walk" ELSE "open", arg |-> AsArgument(all[i])]]
  <1>1. info.path \in Paths(Strings)
    BY InfoPath DEF Glob, SourceInv, Setup, Control
  <1>2. all \in Seq(Paths(Strings))
    <2>1. CASE to.ok
      <3>1. to.loc \in Paths(Strings)
        BY <1>1, <2>1, ResolvedPath DEF SourceInv, Setup
      <3> QED BY <2>1, <3>1, FoundPaths
    <2> QED BY <2>1
  <1> HIDE DEF all
  <1>3. \A i \in DOMAIN all : AsArgument(all[i]) \in Paths(Strings)
    BY <1>2, ArgumentPath DEF SourceInv, Setup
  <1>4. Args \in Seq(CallSet)
    <2>1. \A i \in DOMAIN all : [call |-> IF info.recursive THEN "walk" ELSE "open",
                                 arg |-> AsArgument(all[i])] \in CallSet
      BY <1>3 DEF CallSet
    <2>2. DOMAIN all = 1..Len(all) /\ Len(all) \in Nat
      BY <1>2
    <2>3. \A i \in 1..Len(all) : Args[i] \in CallSet
      BY <2>1, <2>2
    <2>4. Args = [i \in 1..Len(all) |-> Args[i]]
      BY <2>2
    <2> HIDE DEF Args
    <2> QED BY <2>2, <2>3, <2>4
  <1>5. todo' = Args
    BY DEF Glob, all
  <1> QED BY <1>4, <1>5

(* The calls that visit a directory's entries. *)
LEMMA VisitsTyped ==
  ASSUME NEW loc \in Paths(Strings)
  PROVE  Visits(loc) \in Seq(CallSet)
  <1> DEFINE l == Listing(loc)
  <1>1. l \in Seq(Paths(Strings))
    BY ListingPaths
  <1> HIDE DEF l
  <1>2. [i \in DOMAIN l |-> [call |-> "visit", arg |-> l[i]]] \in Seq(CallSet)
    <2> DEFINE v == [i \in DOMAIN l |-> [call |-> "visit", arg |-> l[i]]]
    <2>1. DOMAIN l = 1..Len(l) /\ Len(l) \in Nat /\ \A i \in 1..Len(l) : l[i] \in Paths(Strings)
      BY <1>1
    <2>2. \A i \in 1..Len(l) : v[i] \in CallSet
      BY <2>1 DEF CallSet
    <2>3. v = [i \in 1..Len(l) |-> v[i]]
      BY <2>1
    <2> HIDE DEF v
    <2>4. v \in Seq(CallSet)
      BY <2>1, <2>2, <2>3
    <2> QED BY <2>4 DEF v
  <1> QED BY <1>2 DEF Visits, l

(* The argument of the next call, and the calls after it. *)
LEMMA NextCall ==
  ASSUME SourceInv, todo # <<>>
  PROVE  Arg \in Paths(Strings) /\ Tail(todo) \in Seq(CallSet)
         /\ \A t \in Seq(CallSet) : t \o Tail(todo) \in Seq(CallSet)
  <1>1. todo \in Seq(CallSet)
    BY DEF SourceInv, Control
  <1>2. Head(todo) \in CallSet
    BY <1>1, Queue
  <1>3. \A t \in Seq(CallSet) : t \o Tail(todo) \in Seq(CallSet)
    BY <1>1, Queue
  <1>4. Head(todo).arg \in Paths(Strings)
    BY <1>2 DEF CallSet
  <1> QED BY <1>1, <1>3, <1>4 DEF Arg

(* Until the entries are collected there is nothing to close. *)
LEMMA StartKeeps ==
  ASSUME SourceInv, phase \in {"start", "glob"},
         phase' \in {"glob", "entries", "failed", "refused", "next", "ignored", "sink"},
         phase' = "glob" => info.ok /\ info.op = Word("-f"),
         todo' \in Seq(CallSet), UNCHANGED <<setup, entries, open, closers, pending>>
  PROVE  SourceInv'
  <1>1. Setup' /\ Placed' /\ Writing'
    BY DEF SourceInv, Setup, setup, Placed, Writing
  <1>2. info' = info
    BY DEF info, setup
  <1>3. Control'
    BY <1>2 DEF Control, Ended
  <1>4. entries = <<>> /\ open = {}
    BY DEF SourceInv, Closing
  <1>5. DOMAIN entries = {}
    BY <1>4
  <1>6. Closing'
    BY <1>4, <1>5 DEF SourceInv, Closing, Ended
  <1> QED BY <1>1, <1>3, <1>6 DEF SourceInv

(* Every step keeps the invariant. *)
LEMMA SourceStep ==
  ASSUME SourceInv, Next
  PROVE  SourceInv'
  <1>1. ASSUME Middleware PROVE SourceInv'
    <2>1. phase' \in {"glob", "failed", "next", "ignored", "sink"}
          /\ (phase' = "glob" => info.ok /\ info.op = Word("-f"))
      BY <1>1 DEF Middleware
    <2>2. phase = "start" /\ todo' \in Seq(CallSet)
          /\ UNCHANGED <<setup, entries, open, closers, pending>>
      BY <1>1 DEF Middleware, SourceInv, Control
    <2> QED BY <2>1, <2>2, StartKeeps
  <1>2. ASSUME Glob PROVE SourceInv'
    <2>1. phase = "glob" /\ phase' \in {"refused", "entries", "failed"}
          /\ UNCHANGED <<setup, entries, open, closers, pending>>
      BY <1>2 DEF Glob
    <2> QED BY <1>2, <2>1, GlobTodo, StartKeeps
  <1>3. ASSUME Refusal PROVE SourceInv'
    <2> DEFINE nil == Head(todo).call = "open"
    <2>1. Return("refused", IF nil THEN Append(closers, 0) ELSE closers)
          /\ UNCHANGED <<setup, todo, entries, pending>>
      BY <1>3 DEF Refusal
    <2>2. nil \in BOOLEAN
      OBVIOUS
    <2> HIDE DEF nil
    <2> QED BY <2>1, <2>2, FailureKeeps
  <1>4. ASSUME EntryFails PROVE SourceInv'
    <2> DEFINE nil == Head(todo).call = "open"
    <2>1. Return("failed", IF nil THEN Append(closers, 0) ELSE closers)
          /\ UNCHANGED <<setup, todo, entries, pending>>
      BY <1>4 DEF EntryFails
    <2>2. nil \in BOOLEAN
      OBVIOUS
    <2> HIDE DEF nil
    <2> QED BY <2>1, <2>2, FailureKeeps
  <1>5. ASSUME OpenMatch PROVE SourceInv'
    <2>1. phase = "entries" /\ AddFile(Resolve(Arg).loc) /\ todo' = Tail(todo) /\ todo # <<>>
          /\ UNCHANGED <<setup, phase, pending>>
      BY <1>5 DEF OpenMatch, Calls
    <2> QED BY <2>1, NextCall, FileKeeps
  <1>6. ASSUME WalkDir PROVE SourceInv'
    <2> DEFINE loc == Resolve(Arg).loc
    <2>1. phase = "entries" /\ todo # <<>> /\ Resolve(Arg).ok
          /\ todo' = <<[call |-> "visit", arg |-> loc]>> \o Tail(todo)
          /\ UNCHANGED <<setup, phase, entries, open, closers, pending>>
      BY <1>6 DEF WalkDir, Calls
    <2>2. loc \in Paths(Strings)
      BY <2>1, NextCall, ResolvedPath DEF SourceInv, Setup
    <2> HIDE DEF loc
    <2>3. <<[call |-> "visit", arg |-> loc]>> \in Seq(CallSet)
      BY <2>2 DEF CallSet
    <2>4. todo' \in Seq(CallSet)
      BY <2>1, <2>3, NextCall
    <2> QED BY <2>1, <2>4, QuietKeeps DEF SourceInv, Writing
  <1>7. ASSUME VisitRoot PROVE SourceInv'
    <2>1. phase = "entries" /\ todo # <<>>
          /\ todo' = (IF IsDir(Arg) THEN Visits(Arg) ELSE <<>>) \o Tail(todo)
          /\ UNCHANGED <<setup, phase, entries, open, closers, pending>>
      BY <1>7 DEF VisitRoot, Calls
    <2>2. (IF IsDir(Arg) THEN Visits(Arg) ELSE <<>>) \in Seq(CallSet)
      BY <2>1, NextCall, VisitsTyped
    <2>3. todo' \in Seq(CallSet)
      BY <2>1, <2>2, NextCall
    <2> QED BY <2>1, <2>3, QuietKeeps DEF SourceInv, Writing
  <1>8. ASSUME VisitDir PROVE SourceInv'
    <2>1. phase = "entries" /\ todo # <<>> /\ todo' = Visits(Arg) \o Tail(todo)
          /\ entries' = Append(entries, NewEntry(Located.loc, TRUE))
          /\ UNCHANGED <<setup, phase, open, closers, pending>>
      BY <1>8 DEF VisitDir, Calls
    <2>2. todo' \in Seq(CallSet)
      BY <2>1, NextCall, VisitsTyped
    <2> QED BY <2>1, <2>2, DirKeeps
  <1>9. ASSUME VisitFile PROVE SourceInv'
    <2>1. phase = "entries" /\ AddFile(Located.loc) /\ todo' = Tail(todo) /\ todo # <<>>
          /\ UNCHANGED <<setup, phase, pending>>
      BY <1>9 DEF VisitFile, Calls
    <2> QED BY <2>1, NextCall, FileKeeps
  <1>10. ASSUME WriteRoot PROVE SourceInv'
    <2>1. phase = "entries" /\ phase' = "write" /\ pending' = Children(0)
          /\ UNCHANGED <<setup, todo, entries, open, closers>>
      BY <1>10 DEF WriteRoot
    <2>2. pending' \in Seq(Nat) /\ Range(pending') \subseteq DOMAIN entries \cup {0}
      BY <2>1, ChildrenIn DEF SourceInv
    <2> QED BY <2>1, <2>2, QuietKeeps DEF SourceInv, Control
  <1>11. ASSUME WriteDir PROVE SourceInv'
    <2> DEFINE c == Children(Head(pending))
    <2>1. phase = "write" /\ pending # <<>> /\ pending' = c \o <<0>> \o Tail(pending)
          /\ UNCHANGED <<setup, phase, todo, entries, open, closers>>
      BY <1>11 DEF WriteDir, Writes
    <2>2. c \in Seq(Nat) /\ Range(c) \subseteq DOMAIN entries
      BY ChildrenIn DEF SourceInv
    <2> HIDE DEF c
    <2>3. c \o <<0>> = Append(c, 0)
      BY <2>2
    <2>4. Append(c, 0) \in Seq(Nat) /\ Range(Append(c, 0)) = Range(c) \cup {0}
      BY <2>2, RangeAppend
    <2>5. /\ Append(c, 0) \o Tail(pending) \in Seq(Nat)
          /\ Range(Append(c, 0) \o Tail(pending)) \subseteq Range(c) \cup {0} \cup Range(pending)
      BY <2>1, <2>4, Queue DEF SourceInv, Writing
    <2>6. pending' \in Seq(Nat) /\ Range(pending') \subseteq DOMAIN entries \cup {0}
      BY <2>1, <2>2, <2>3, <2>5 DEF SourceInv, Writing
    <2> QED BY <2>1, <2>6, QuietKeeps DEF SourceInv, Control
  <1>12. ASSUME WriteDirEnd \/ WriteFile PROVE SourceInv'
    <2>1. phase = "write" /\ pending # <<>> /\ pending' = Tail(pending)
          /\ UNCHANGED <<setup, phase, todo, entries, open, closers>>
      BY <1>12 DEF WriteDirEnd, WriteFile, Writes
    <2>2. pending' \in Seq(Nat) /\ Range(pending') \subseteq DOMAIN entries \cup {0}
      BY <2>1, Queue DEF SourceInv, Writing
    <2> QED BY <2>1, <2>2, QuietKeeps DEF SourceInv, Control
  <1>13. ASSUME ReadFails \/ WriteFails PROVE SourceInv'
    <2>1. Return("failed", closers) /\ UNCHANGED <<setup, todo, entries, pending>>
      BY <1>13 DEF ReadFails, WriteFails
    <2> QED BY <2>1, ReturnKeeps DEF SourceInv, Closing
  <1>14. ASSUME Done PROVE SourceInv'
    <2>1. Return("done", closers) /\ UNCHANGED <<setup, todo, entries, pending>>
      BY <1>14 DEF Done
    <2> QED BY <2>1, ReturnKeeps DEF SourceInv, Closing
  <1>15. ASSUME Resize PROVE SourceInv'
    <2>1. phase \in {"entries", "write"}
          /\ UNCHANGED <<setup, phase, todo, entries, open, closers, pending>>
      BY <1>15 DEF Resize
    <2> QED BY <2>1, QuietKeeps DEF SourceInv, Control, Writing
  <1> QED BY <1>1, <1>2, <1>3, <1>4, <1>5, <1>6, <1>7, <1>8, <1>9, <1>10, <1>11, <1>12, <1>13,
             <1>14, <1>15 DEF Next

(* It holds at the start, *)
LEMMA SourceInit == Init => SourceInv
  <1> SUFFICES ASSUME Init PROVE SourceInv
    OBVIOUS
  <1>1. Setup
    <2>1. CASE handler = "dir"
      <3>1. PICK r \in Roots : root = Clean(r)
        BY <2>1 DEF Init
      <3>2. r \in Paths(Strings)
        BY CommandsAssumption, LargerPaths
      <3> QED BY <2>1, <3>1, <3>2, CleanNormal DEF Setup, Init
    <2>2. CASE handler # "dir"
      <3>1. root = Path(FALSE, <<>>)
        BY <2>2 DEF Init
      <3>2. root \in Paths(Strings) /\ Normal(root.abs, root.names)
        BY <3>1 DEF Paths, Path, Normal
      <3> QED BY <2>2, <3>1, <3>2 DEF Setup, Init
    <2> QED BY <2>1, <2>2
  <1>2. Control /\ Writing
    BY DEF Init, Control, Writing, Range
  <1>3. Placed
    <2>1. entries \in Seq(Nat) /\ DOMAIN entries = {}
      BY DEF Init
    <2> QED BY <2>1 DEF Placed
  <1>4. Closing
    BY DEF Init, Closing, Range, Ended
  <1> QED BY <1>1, <1>2, <1>3, <1>4 DEF SourceInv

(* when nothing happens, *)
LEMMA SourceStutter ==
  ASSUME SourceInv, UNCHANGED vars
  PROVE  SourceInv'
  <1>1. Setup' /\ Control' /\ Placed'
    BY DEF SourceInv, Setup, Control, Placed, vars, setup, Ended, info
  <1>2. Closing' /\ Writing'
    BY DEF SourceInv, Closing, Writing, vars, setup, Ended
  <1> QED BY <1>1, <1>2 DEF SourceInv

(* and so in every behaviour. *)
THEOREM SourceInvariant == Spec => []SourceInv
  <1>1. SourceInv /\ [Next]_vars => SourceInv'
    BY SourceStep, SourceStutter
  <1> QED BY SourceInit, <1>1, PTL DEF Spec

(* Every call left is one copyToClient makes, and an entry's parent is a   *)
(* directory that was appended before it, whatever the walk finds and      *)
(* whichever calls fail (scp.go RootEntry.Append, DirEntry.Append).        *)
THEOREM SourceTypeCorrect == Spec => []TypeOK
  <1>1. SourceInv => TypeOK
    <2> SUFFICES ASSUME SourceInv PROVE TypeOK
      OBVIOUS
    <2>1. \A i \in DOMAIN todo : todo[i].call \in {"open", "walk", "visit"}
      <3>1. \A i \in DOMAIN todo : todo[i] \in CallSet
        BY DEF SourceInv, Control
      <3> QED BY <3>1 DEF CallSet
    <2> QED BY <2>1 DEF SourceInv, Control, Placed, Closing, Writing, TypeOK
  <1> QED BY <1>1, SourceInvariant, PTL

(* However a copy ends, no file stays open, and a file is not closed       *)
(* before it was sent (copy_to_client.go: the deferred closers).           *)
THEOREM FilesGetClosed == Spec => []FilesClosed
  <1>1. SourceInv => FilesClosed
    BY DEF SourceInv, Closing, Writing, FilesClosed
  <1> QED BY <1>1, SourceInvariant, PTL
-----------------------------------------------------------------------------
(* Confinement *)

(* A path that names what it goes through, as an fs.FS wants them *)
Ordinary(p) == p.abs = FALSE /\ \A i \in DOMAIN p.names : Plain(p.names[i])

(* A sequence without its last element. *)
LEMMA FrontLast ==
  ASSUME NEW S, NEW s \in Seq(S), s # <<>>
  PROVE  /\ Front(s) \in Seq(S) /\ Last(s) \in S
         /\ Len(s) \in Nat /\ Len(s) > 0 /\ Len(Front(s)) = Len(s) - 1
         /\ \A i \in 1..(Len(s) - 1) : Front(s)[i] = s[i]
         /\ s = Append(Front(s), Last(s))
         /\ Last(s) = s[Len(s)] /\ Front(s) = SubSeq(s, 1, Len(s) - 1)
  <1> DEFINE n == Len(s)
             f == Front(s)
             t == Append(f, Last(s))
  <1>1. /\ n \in Nat /\ n > 0 /\ s = [i \in 1..n |-> s[i]]
        /\ Last(s) = s[n] /\ f = SubSeq(s, 1, n - 1)
    BY DEF Front, Last
  <1>2. /\ f \in Seq(S) /\ Last(s) \in S /\ Len(f) = n - 1
        /\ \A i \in 1..(n - 1) : f[i] = s[i]
    BY <1>1
  <1> HIDE DEF f, n
  <1>3. /\ Len(t) = n /\ t = [i \in 1..n |-> t[i]]
        /\ \A i \in 1..(n - 1) : t[i] = f[i]
        /\ t[n] = Last(s)
    BY <1>1, <1>2
  <1> HIDE DEF t
  <1>4. \A i \in 1..n : t[i] = s[i]
    <2> TAKE i \in 1..n
    <2>1. CASE i = n
      BY <1>1, <1>3, <2>1
    <2>2. CASE i # n
      <3>1. i \in 1..(n - 1)
        BY <1>1, <2>2
      <3> QED BY <1>2, <1>3, <3>1
    <2> QED BY <2>1, <2>2
  <1>5. s = t
    BY <1>1, <1>3, <1>4
  <1> QED BY <1>1, <1>2, <1>5 DEF f, n, t

(* Below a clean path that does not leave upwards nothing leaves it either. *)
LEMMA OrdinaryInside ==
  ASSUME NEW p \in Paths(Strings), Ordinary(p)
  PROVE  Inside(Path(FALSE, <<>>), p)
  <1> DEFINE top == Path(FALSE, <<>>)
             k == Len(p.names)
  <1>1. p.names \in Seq(Strings) /\ k \in Nat /\ DOMAIN p.names = 1..k
    BY DEF Paths
  <1>2. top \in Paths(Strings) /\ top.abs = FALSE /\ top.names = <<>>
    BY DEF Paths, Path
  <1> HIDE DEF top
  <1>5. Len(<<>>) = 0 /\ DOMAIN <<>> = {}
    OBVIOUS
  <1>6. Len(top.names) = 0 /\ DOMAIN top.names = {}
    BY <1>2, <1>5
  <1>7. p.abs = FALSE /\ \A i \in 1..k : Plain(p.names[i])
    BY <1>1 DEF Ordinary
  <1>3. Extends(top, p, k)
    <2>1. p.abs = top.abs
      BY <1>2, <1>7
    <2>2. Len(p.names) = Len(top.names) + k
      BY <1>1, <1>6
    <2>3. \A i \in DOMAIN top.names : p.names[i] = top.names[i]
      BY <1>6
    <2>4. \A i \in (Len(top.names) + 1)..Len(p.names) : Plain(p.names[i])
      BY <1>1, <1>6, <1>7
    <2> HIDE DEF k
    <2> QED BY <2>1, <2>2, <2>3, <2>4 DEF Extends
  <1>4. Inside(top, p)
    BY <1>1, <1>2, <1>3, ExtendsInside
  <1> QED BY <1>4 DEF top

(* One name more, and one less. *)
LEMMA OrdinaryNames ==
  ASSUME NEW p \in Paths(Strings), Ordinary(p)
  PROVE  /\ \A n \in Strings : Plain(n) => Ordinary(Path(p.abs, Append(p.names, n)))
         /\ p.names # <<>> => Ordinary(Path(p.abs, Front(p.names)))
  <1>1. p.names \in Seq(Strings)
    BY DEF Paths
  <1>2. ASSUME NEW n \in Strings, Plain(n) PROVE Ordinary(Path(p.abs, Append(p.names, n)))
    <2> DEFINE s == Append(p.names, n)
    <2>1. \A i \in DOMAIN s : Plain(s[i])
      BY <1>1, <1>2 DEF Ordinary
    <2> QED BY <2>1 DEF Ordinary, Path
  <1>3. ASSUME p.names # <<>> PROVE Ordinary(Path(p.abs, Front(p.names)))
    <2> DEFINE s == Front(p.names)
    <2>1. s \in Seq(Strings) /\ Len(s) = Len(p.names) - 1 /\ Len(p.names) \in Nat
          /\ \A i \in 1..(Len(p.names) - 1) : s[i] = p.names[i]
      BY <1>1, <1>3, FrontLast
    <2> HIDE DEF s
    <2>2. \A i \in DOMAIN s : Plain(s[i])
      BY <1>1, <2>1 DEF Ordinary
    <2> QED BY <2>2 DEF Ordinary, Path, s
  <1> QED BY <1>2, <1>3

(* The wildcard is an ordinary name. *)
LEMMA StarPlain == Plain("*")
  <1>1. "*" # ""
    BY Zenon
  <1>2. "*" # "." /\ "*" # ".."
    OBVIOUS
  <1> QED BY <1>1, <1>2, Zenon DEF Plain, Empty

(* What an fs.FS is asked for is clean and names what it goes through. *)
LEMMA ValidPathOrdinary ==
  ASSUME NEW p \in Paths(Strings), ValidPath(p)
  PROVE  Clean(p) \in Paths(Strings) /\ Ordinary(Clean(p))
  <1>1. Clean(p) \in Paths(Strings) /\ Clean(p).abs = FALSE /\ Normal(FALSE, Clean(p).names)
    BY CleanNormal DEF ValidPath, Paths
  <1>2. CASE p.names = <<".">>
    <2>1. p = Path(FALSE, Append(<<>>, "."))
      <3>1. p = [abs |-> p.abs, names |-> p.names] /\ p.abs = FALSE
        BY DEF Paths, ValidPath
      <3>2. Append(<<>>, ".") = <<".">>
        OBVIOUS
      <3> QED BY <1>2, <3>1, <3>2 DEF Path
    <2>2. <<>> \in Seq(Strings) /\ "." \in Strings
      BY DEF Strings
    <2>3. Clean(p).names = AddName(FALSE, Clean(Path(FALSE, <<>>)).names, ".")
      BY <2>1, <2>2, CleanAppend
    <2>4. Clean(p).names = <<>>
      BY <2>3, CleanEmpty DEF AddName
    <2> QED BY <1>1, <2>4 DEF Ordinary
  <1>3. CASE p.names # <<".">>
    <2>1. Clean(p).names = p.names /\ ".." \notin Range(p.names)
      BY <1>3 DEF ValidPath
    <2>2. \A i \in DOMAIN Clean(p).names : Clean(p).names[i] # ".."
      BY <2>1 DEF Range
    <2>3. \A i \in DOMAIN Clean(p).names : Clean(p).names[i] \notin {Empty, "."}
      BY <1>1 DEF Normal
    <2>4. \A i \in DOMAIN Clean(p).names : Plain(Clean(p).names[i])
      BY <2>2, <2>3, Zenon DEF Plain
    <2> QED BY <1>1, <2>4 DEF Ordinary
  <1> QED BY <1>2, <1>3

(* The same for the pattern Glob makes of such a path. *)
LEMMA PatternOrdinary ==
  ASSUME NEW p \in Paths(Strings), ValidPattern(p)
  PROVE  Clean(p) \in Paths(Strings) /\ Ordinary(Clean(p))
  <1>1. CASE ~ Wild(p)
    BY <1>1, ValidPathOrdinary DEF ValidPattern
  <1>2. CASE Wild(p)
    <2> DEFINE f == Front(p.names)
               d == Path(FALSE, f)
    <2>1. p.names \in Seq(Strings) /\ p.names # <<>> /\ Last(p.names) = "*" /\ p.abs = FALSE
      BY <1>2 DEF Wild, ValidPattern, Paths
    <2>2. f \in Seq(Strings) /\ p.names = Append(f, "*") /\ "*" \in Strings
          /\ Len(f) = Len(p.names) - 1
      BY <2>1, FrontLast
    <2> HIDE DEF f
    <2>3. p = Path(FALSE, Append(f, "*"))
      BY <2>1, <2>2 DEF Path, Paths
    <2>4. d \in Paths(Strings)
      BY <2>2 DEF Path, Paths
    <2>5. Clean(p) = Path(FALSE, Append(Clean(d).names, "*"))
      <3>1. f \in Seq(Strings) /\ "*" \in Strings
        BY <2>2
      <3>2. Clean(Path(p.abs, Append(f, "*"))) = Path(p.abs, Append(Clean(Path(p.abs, f)).names, "*"))
        BY <3>1, StarPlain, CleanPlain
      <3> QED BY <2>1, <2>3, <3>2
    <2>6. Clean(d) \in Paths(Strings) /\ Ordinary(Clean(d))
      <3>1. CASE Len(p.names) = 1
        <4>1. f = <<>>
          BY <2>2, <3>1
        <4>2. Clean(d).names = <<>>
          BY <4>1, CleanEmpty
        <4>3. Clean(d) \in Paths(Strings) /\ Clean(d).abs = FALSE
          BY <2>4, CleanNormal DEF Path
        <4>0. DOMAIN <<>> = {}
          OBVIOUS
        <4>4. DOMAIN Clean(d).names = {}
          BY <4>0, <4>2, Zenon
        <4>5. Ordinary(Clean(d))
          BY <4>3, <4>4, Zenon DEF Ordinary
        <4> QED BY <4>3, <4>5
      <3>2. CASE Len(p.names) # 1
        <4>1. ValidPath(d)
          BY <1>2, <3>2 DEF ValidPattern, f
        <4> QED BY <2>4, <4>1, ValidPathOrdinary
      <3> QED BY <3>1, <3>2
    <2>7. Clean(d).abs = FALSE
      BY <2>6 DEF Ordinary
    <2>8. Ordinary(Clean(p))
      BY <2>2, <2>5, <2>6, <2>7, StarPlain, OrdinaryNames
    <2>9. Clean(p) \in Paths(Strings)
      BY CleanNormal
    <2> QED BY <2>8, <2>9
  <1> QED BY <1>1, <1>2

(* A root whose last component is a name, and not the wildcard: a root "*" *)
(* is globbed as a pattern, for which the directory above it is read.      *)
Proper(r) == Named(r) /\ ~ Wild(r)

(* What a path is resolved to is in the root, or is the root itself. *)
LEMMA ResolvedInside ==
  ASSUME Setup, handler = "dir" => Proper(root), NEW p \in Paths(Strings), Resolve(p).ok
  PROVE  LET loc == Resolve(p).loc
         IN  /\ Inside(root, loc)
             /\ Wild(loc) => Inside(root, Dir(loc))
             /\ handler # "dir" => Ordinary(loc)
  <1> DEFINE loc == Resolve(p).loc
  <1>1. /\ loc \in Paths(Strings) /\ Normal(loc.abs, loc.names)
        /\ handler = "dir" => AtOrBelow(root, loc)
    BY ResolvedPath DEF Setup
  <1>2. CASE handler = "dir"
    <2>1. root \in Paths(Strings) /\ Named(root) /\ ~ Wild(root) /\ AtOrBelow(root, loc)
      BY <1>1, <1>2 DEF Setup, Proper
    <2> HIDE DEF loc
    <2> DEFINE n == Len(loc.names)
    <2>2. loc.names \in Seq(Strings) /\ root.names \in Seq(Strings) /\ n \in Nat /\ Len(root.names) \in Nat
      BY <1>1, <2>1 DEF Paths
    <2>3. loc.abs = root.abs /\ (loc.names = root.names \/ Len(root.names) < n)
      BY <1>1, <2>1, BelowRoot
    <2>4. Len(root.names) <= n
      BY <2>2, <2>3
    <2>5. Inside(root, loc)
      <3>1. n \in Len(root.names)..n
        BY <2>2, <2>4
      <3> QED BY <1>1, <2>1, <3>1, BelowIsInside
    <2>6. ASSUME Wild(loc) PROVE Inside(root, Dir(loc))
      <3>1. loc.names # <<>> /\ loc.names # root.names
        BY <2>1, <2>6 DEF Wild
      <3>2. n - 1 \in Len(root.names)..n
        BY <2>2, <2>3, <3>1
      <3>3. Dir(loc) = Path(root.abs, SubSeq(loc.names, 1, n - 1))
        <4>1. Dir(loc) = Path(loc.abs, Front(loc.names))
          BY <1>1, <3>1, ParentPath
        <4>2. Front(loc.names) = SubSeq(loc.names, 1, n - 1)
          BY <2>2, <3>1, FrontLast
        <4> QED BY <2>3, <4>1, <4>2
      <3> QED BY <1>1, <2>1, <3>2, <3>3, BelowIsInside
    <2> QED BY <1>2, <2>5, <2>6 DEF loc
  <1>3. CASE handler # "dir"
    <2>1. root = Path(FALSE, <<>>) /\ loc = Clean(p) /\ ValidPattern(p)
      BY <1>3 DEF Setup, Resolve
    <2>2. Ordinary(loc)
      BY <2>1, PatternOrdinary
    <2> HIDE DEF loc
    <2>3. ASSUME Wild(loc) PROVE Inside(root, Dir(loc))
      <3>1. loc.names # <<>>
        BY <2>3 DEF Wild
      <3>2. Dir(loc) = Path(loc.abs, Front(loc.names)) /\ Dir(loc) \in Paths(Strings)
        BY <1>1, <3>1, ParentPath
      <3>3. Ordinary(Dir(loc))
        BY <1>1, <2>2, <3>1, <3>2, OrdinaryNames
      <3> QED BY <2>1, <3>2, <3>3, OrdinaryInside
    <2> QED BY <1>1, <2>1, <2>2, <2>3, OrdinaryInside DEF loc
  <1> QED BY <1>2, <1>3

(* A walk of an fs.FS visits places that a copy may visit. *)
Visiting == handler # "dir" => \A c \in Range(todo) : c.call = "visit" => Ordinary(c.arg)

PlaceInv == /\ SourceInv
            /\ handler = "dir" => Proper(root)
            /\ Confined
            /\ Visiting

(* The calls that visit what a directory has stay with valid paths. *)
LEMMA VisitsOrdinary ==
  ASSUME NEW loc \in Paths(Strings), Ordinary(loc), NEW c \in Range(Visits(loc))
  PROVE  Ordinary(c.arg)
  <1> DEFINE l == Listing(loc)
  <1>1. Range(l) = {Path(loc.abs, Append(loc.names, n)) :
                       n \in {m \in Names : Append(Below(loc), m) \in DOMAIN tree}}
        /\ \A i \in DOMAIN l : l[i] \in Range(l)
    BY ListingPaths
  <1> HIDE DEF l
  <1>2. PICK i \in DOMAIN l : c = [call |-> "visit", arg |-> l[i]]
    BY DEF Visits, Range, l
  <1>3. PICK n \in Names : l[i] = Path(loc.abs, Append(loc.names, n))
    BY <1>1
  <1>4. n \in Strings /\ Plain(n)
    BY NamesPlain
  <1>5. Ordinary(l[i])
    BY <1>3, <1>4, OrdinaryNames
  <1> QED BY <1>2, <1>5

(* The steps that hand nothing to the operating system. *)
LEMMA NothingTouched ==
  ASSUME PlaceInv, Next, UNCHANGED <<setup, touched>>,
         handler # "dir" => todo' = todo \/ (todo # <<>> /\ todo' = Tail(todo))
  PROVE  PlaceInv'
  <1>1. SourceInv'
    BY SourceStep DEF PlaceInv
  <1>2. Confined' /\ (handler = "dir" => Proper(root))'
    BY DEF PlaceInv, Confined, setup
  <1>3. todo \in Seq(CallSet)
    BY DEF PlaceInv, SourceInv, Control
  <1>4. handler # "dir" => Range(todo') \subseteq Range(todo)
    BY <1>3, Queue
  <1>5. Visiting'
    BY <1>4 DEF PlaceInv, Visiting, setup
  <1> QED BY <1>1, <1>2, <1>5 DEF PlaceInv

(* The steps that do. *)
LEMMA PlaceTouched ==
  ASSUME PlaceInv, Next, UNCHANGED setup, NEW x, Inside(root, x), touched' \subseteq touched \cup {x},
         handler # "dir" => \A c \in Range(todo') : c \in Range(todo) \/ (c.call = "visit" => Ordinary(c.arg))
  PROVE  PlaceInv'
  <1>1. SourceInv'
    BY SourceStep DEF PlaceInv
  <1>2. Confined' /\ (handler = "dir" => Proper(root))'
    BY DEF PlaceInv, Confined, setup
  <1>3. Visiting'
    BY DEF PlaceInv, Visiting, setup
  <1> QED BY <1>1, <1>2, <1>3 DEF PlaceInv

(* Every step keeps what is touched in the root. *)
LEMMA PlaceStep ==
  ASSUME PlaceInv, Next
  PROVE  PlaceInv'
  <1>0. Setup /\ todo \in Seq(CallSet) /\ (handler = "dir" => Proper(root))
    BY DEF PlaceInv, SourceInv, Control
  <1>1. ASSUME Glob PROVE PlaceInv'
    <2> DEFINE to == Resolve(info.path)
               x == IF Wild(to.loc) THEN Dir(to.loc) ELSE to.loc
    <2>1. info.path \in Paths(Strings)
      BY <1>1, InfoPath DEF Glob, PlaceInv, SourceInv, Setup, Control
    <2>2. touched' = (IF to.ok THEN {x} ELSE {}) /\ UNCHANGED setup
      BY <1>1 DEF Glob
    <2>3. to.ok => Inside(root, x)
      BY <1>0, <2>1, ResolvedInside
    <2> HIDE DEF x, to
    <2>4. Confined' /\ (handler = "dir" => Proper(root))'
      BY <1>0, <2>2, <2>3 DEF Confined, setup
    <2>5. \A c \in Range(todo') : c.call # "visit"
      BY <1>1 DEF Glob, Range
    <2>6. SourceInv'
      BY SourceStep DEF PlaceInv
    <2> QED BY <2>4, <2>5, <2>6 DEF PlaceInv, Visiting
  <1>2. ASSUME OpenMatch PROVE PlaceInv'
    <2> DEFINE x == Resolve(Arg).loc
    <2>1. todo # <<>> /\ Resolve(Arg).ok /\ touched' = touched \cup {x} /\ todo' = Tail(todo)
          /\ UNCHANGED setup
      BY <1>2 DEF OpenMatch, Calls
    <2>2. Inside(root, x)
      BY <1>0, <2>1, NextCall, ResolvedInside DEF PlaceInv
    <2> HIDE DEF x
    <2>3. Range(todo') \subseteq Range(todo)
      BY <1>0, <2>1, Queue
    <2> QED BY <2>1, <2>2, <2>3, PlaceTouched
  <1>3. ASSUME WalkDir PROVE PlaceInv'
    <2> DEFINE x == Resolve(Arg).loc
               v == [call |-> "visit", arg |-> x]
    <2>1. todo # <<>> /\ Resolve(Arg).ok /\ touched' = touched \cup {x} /\ todo' = <<v>> \o Tail(todo)
          /\ UNCHANGED setup
      BY <1>3 DEF WalkDir, Calls
    <2>2. Inside(root, x) /\ (handler # "dir" => Ordinary(x))
      BY <1>0, <2>1, NextCall, ResolvedInside DEF PlaceInv
    <2>3. x \in Paths(Strings)
      BY <1>0, <2>1, NextCall, ResolvedPath DEF PlaceInv, Setup
    <2>4. v \in CallSet /\ v.arg = x
      BY <2>3 DEF CallSet
    <2> HIDE DEF v, x
    <2>5. <<v>> \in Seq(CallSet) /\ Range(<<v>>) = {v}
      BY <2>4 DEF Range
    <2>6. Range(todo') \subseteq {v} \cup Range(todo)
      BY <1>0, <2>1, <2>5, Queue
    <2>7. handler # "dir" => \A c \in Range(todo') : c \in Range(todo) \/ (c.call = "visit" => Ordinary(c.arg))
      BY <2>2, <2>4, <2>6
    <2> QED BY <2>1, <2>2, <2>7, PlaceTouched
  <1>4. ASSUME VisitDir \/ VisitFile PROVE PlaceInv'
    <2> DEFINE x == Located.loc
    <2>1. /\ todo # <<>> /\ Head(todo).call = "visit" /\ Located.ok /\ touched' = touched \cup {x}
          /\ todo' = Tail(todo) \/ todo' = Visits(Arg) \o Tail(todo)
          /\ UNCHANGED setup
      BY <1>4 DEF VisitDir, VisitFile, Calls
    <2>2. Arg \in Paths(Strings) /\ Head(todo) \in Range(todo)
      BY <1>0, <2>1, NextCall, Queue DEF PlaceInv
    <2>3. ASSUME handler # "dir" PROVE Ordinary(Arg)
      BY <2>1, <2>2, <2>3 DEF PlaceInv, Visiting, Arg
    <2>4. CASE handler = "dir"
      <3>1. x = Resolve(Arg).loc /\ Resolve(Arg).ok
        BY <2>1, <2>4 DEF Located, Resolve
      <3>2. Inside(root, x)
        BY <1>0, <2>2, <3>1, ResolvedInside
      <3> HIDE DEF x
      <3> QED BY <2>1, <2>4, <3>2, PlaceTouched
    <2>5. CASE handler # "dir"
      <3>1. x = Arg /\ root = Path(FALSE, <<>>)
        BY <1>0, <2>5 DEF Located, Setup
      <3>2. Inside(root, x)
        BY <2>2, <2>3, <2>5, <3>1, OrdinaryInside
      <3> HIDE DEF x
      <3>3. Visits(Arg) \in Seq(CallSet)
        BY <2>2, VisitsTyped
      <3>4. Range(todo') \subseteq Range(todo) \cup Range(Visits(Arg))
        BY <1>0, <2>1, <3>3, Queue
      <3>5. \A c \in Range(todo') : c \in Range(todo) \/ (c.call = "visit" => Ordinary(c.arg))
        BY <2>2, <2>3, <2>5, <3>4, VisitsOrdinary
      <3> QED BY <2>1, <3>2, <3>5, PlaceTouched
    <2> QED BY <2>4, <2>5
  <1>5. ASSUME VisitRoot PROVE PlaceInv'
    <2>1. handler = "dir" /\ UNCHANGED <<setup, touched>>
      BY <1>5 DEF VisitRoot, Skips
    <2> QED BY <2>1, NothingTouched
  <1>6. ASSUME EntryFails PROVE PlaceInv'
    <2> DEFINE visit == Head(todo).call = "visit"
               to == IF visit THEN Located ELSE Resolve(Arg)
               x == to.loc
    <2>1. /\ todo # <<>> /\ todo' = todo /\ UNCHANGED setup
          /\ touched' = touched \cup (IF to.ok THEN {x} ELSE {})
      BY <1>6 DEF EntryFails, Looked
    <2>2. Arg \in Paths(Strings) /\ Head(todo) \in Range(todo)
      BY <1>0, <2>1, NextCall, Queue DEF PlaceInv
    <2>3. CASE to.ok
      <3>1. Inside(root, x)
        <4>1. CASE visit /\ handler # "dir"
          <5>1. Ordinary(Arg)
            BY <2>2, <4>1 DEF PlaceInv, Visiting, Arg
          <5>2. x = Arg /\ root = Path(FALSE, <<>>)
            BY <1>0, <4>1 DEF Located, Setup
          <5> QED BY <2>2, <5>1, <5>2, OrdinaryInside
        <4>2. CASE ~ (visit /\ handler # "dir")
          <5>1. to = Resolve(Arg)
            BY <4>2 DEF Located, Resolve
          <5> QED BY <1>0, <2>2, <2>3, <5>1, ResolvedInside
        <4> QED BY <4>1, <4>2
      <3> HIDE DEF x
      <3> QED BY <2>1, <2>3, <3>1, PlaceTouched
    <2>4. CASE ~ to.ok
      <3> HIDE DEF x, to
      <3> QED BY <2>1, <2>4, NothingTouched
    <2> QED BY <2>3, <2>4
  <1>7. ASSUME \/ Middleware \/ Refusal \/ WriteRoot \/ WriteDir \/ WriteDirEnd
               \/ WriteFile \/ ReadFails \/ WriteFails \/ Done \/ Resize
        PROVE  PlaceInv'
    <2>1. UNCHANGED <<setup, touched, todo>>
      BY <1>7 DEF Middleware, Refusal, WriteRoot, WriteDir, WriteDirEnd, WriteFile,
                  ReadFails, WriteFails, Done, Resize
    <2> QED BY <2>1, NothingTouched
  <1> QED BY <1>1, <1>2, <1>3, <1>4, <1>5, <1>6, <1>7 DEF Next

(* Whatever path a client names, for an fs.FS and for every directory that *)
(* is named and not by a wildcard: every location that is looked for,      *)
(* there or not, walked or opened is inside the root, wherever the walk    *)
(* leads and however often the same path is resolved again (filesystem.go  *)
(* prefixed, Glob, WalkDir, NewDirEntry, NewFileEntry).                    *)
THEOREM SourceConfinement ==
  ASSUME \A r \in Roots : Proper(Clean(r))
  PROVE  Spec => []Confined
  <1>1. Init => (handler = "dir" => Proper(root)) /\ Confined /\ Visiting
    <2> SUFFICES ASSUME Init PROVE (handler = "dir" => Proper(root)) /\ Confined /\ Visiting
      OBVIOUS
    <2>1. touched = {} /\ Range(todo) = {}
      BY DEF Init, Range
    <2>2. handler = "dir" => \E r \in Roots : root = Clean(r)
      BY DEF Init
    <2> QED BY <2>1, <2>2 DEF Confined, Visiting
  <1>2. PlaceInv /\ [Next]_vars => PlaceInv'
    <2> SUFFICES ASSUME PlaceInv, UNCHANGED vars, SourceInv' PROVE PlaceInv'
      <3>1. SourceInv /\ UNCHANGED vars => SourceInv'
        <4> SUFFICES ASSUME SourceInv, UNCHANGED vars PROVE SourceInv'
          OBVIOUS
        <4> QED BY SourceStutter
      <3> QED BY <3>1, PlaceStep DEF PlaceInv
    <2> QED BY DEF PlaceInv, Confined, Visiting, vars, setup
  <1>3. PlaceInv => Confined
    BY DEF PlaceInv
  <1>4. SourceInv /\ (handler = "dir" => Proper(root)) /\ Confined /\ Visiting => PlaceInv
    BY DEF PlaceInv
  <1>5. Init => SourceInv
    BY SourceInit
  <1> QED BY <1>1, <1>2, <1>3, <1>4, <1>5, PTL DEF Spec
-----------------------------------------------------------------------------
(* What Glob finds *)

(* The tree is one of files in directories. *)
TreeOK == /\ DOMAIN tree \subseteq Seq(Names)
          /\ \A f \in DOMAIN tree : f # <<>> => Front(f) \in DOMAIN tree

(* The path begins with the root. *)
Longer(p) == /\ p.abs = root.abs /\ Len(root.names) <= Len(p.names)
             /\ \A i \in 1..Len(root.names) : p.names[i] = root.names[i]

(* What such a path names below the root. *)
LEMMA BelowNames ==
  ASSUME root \in Paths(Strings), NEW p \in Paths(Strings), Longer(p)
  PROVE  /\ Below(p) \in Seq(Strings) /\ Len(Below(p)) = Len(p.names) - Len(root.names)
         /\ \A i \in 1..Len(Below(p)) : Below(p)[i] = p.names[i + Len(root.names)]
         /\ Len(root.names) \in Nat /\ Len(p.names) \in Nat
  <1> DEFINE m == Len(root.names)
             n == Len(p.names)
  <1>1. m \in Nat /\ n \in Nat /\ m <= n /\ p.names \in Seq(Strings)
    BY DEF Paths, Longer
  <1> HIDE DEF m, n
  <1>2. /\ SubSeq(p.names, m + 1, n) \in Seq(Strings)
        /\ Len(SubSeq(p.names, m + 1, n)) = n - m
        /\ \A i \in 1..(n - m) : SubSeq(p.names, m + 1, n)[i] = p.names[i + m]
    BY <1>1 DEF n
  <1> QED BY <1>1, <1>2 DEF Below, m, n

(* Two sequences of the same elements are the same. *)
LEMMA SameNames ==
  ASSUME NEW S, NEW s \in Seq(S), NEW T, NEW t \in Seq(T), Len(s) = Len(t),
         \A i \in 1..Len(s) : s[i] = t[i]
  PROVE  s = t
  OBVIOUS

(* There is a file at such a path if the tree has it. *)
LEMMA ExistsBelow ==
  ASSUME root \in Paths(Strings), TreeOK, NEW p \in Paths(Strings), Longer(p)
  PROVE  Exists(p) <=> Below(p) \in DOMAIN tree
  <1> SUFFICES ASSUME Below(p) \in DOMAIN tree PROVE Inside(root, p)
    BY DEF Exists
  <1> DEFINE m == Len(root.names)
             n == Len(p.names)
             b == Below(p)
  <1>1. /\ Len(b) = n - m /\ m \in Nat /\ n \in Nat
        /\ \A i \in 1..Len(b) : b[i] = p.names[i + m]
    BY BelowNames
  <1>2. \A i \in 1..Len(b) : Plain(b[i])
    <2>1. b \in Seq(Names)
      BY DEF TreeOK
    <2> HIDE DEF b
    <2>2. \A i \in 1..Len(b) : b[i] \in Names
      BY <2>1
    <2> QED BY <2>2, NamesPlain
  <1> HIDE DEF b, m, n
  <1>3. ASSUME NEW i \in (m + 1)..n PROVE Plain(p.names[i])
    <2>1. i - m \in 1..Len(b) /\ (i - m) + m = i
      BY <1>1
    <2>2. b[i - m] = p.names[(i - m) + m]
      BY <1>1, <2>1
    <2> QED BY <1>2, <2>1, <2>2
  <1>4. m <= n /\ n - m \in Nat
    BY <1>1 DEF Longer, m, n
  <1>5. DOMAIN root.names = 1..m
    BY DEF Paths, m
  <1>6. Extends(root, p, n - m)
    BY <1>1, <1>3, <1>4, <1>5 DEF Extends, Longer, m, n
  <1> QED BY <1>4, <1>6, ExtendsInside

(* One name more, one less. *)
LEMMA BelowAppended ==
  ASSUME root \in Paths(Strings), NEW p \in Paths(Strings), Longer(p), NEW n \in Strings
  PROVE  LET q == Path(p.abs, Append(p.names, n))
         IN  q \in Paths(Strings) /\ Longer(q) /\ Below(q) = Append(Below(p), n)
  <1> DEFINE s == Append(p.names, n)
             q == Path(p.abs, s)
             k == Len(p.names)
             m == Len(root.names)
  <1>1. p.names \in Seq(Strings) /\ k \in Nat /\ m \in Nat /\ m <= k
    BY DEF Paths, Longer
  <1>2. s \in Seq(Strings) /\ Len(s) = k + 1 /\ (\A i \in 1..k : s[i] = p.names[i]) /\ s[k + 1] = n
    BY <1>1
  <1> HIDE DEF s
  <1>3. q \in Paths(Strings) /\ q.names = s /\ q.abs = p.abs
    BY <1>2 DEF Paths, Path
  <1> HIDE DEF q
  <1>4. Longer(q)
    BY <1>1, <1>2, <1>3 DEF Longer
  <1> DEFINE b == Below(p)
             c == Below(q)
             t == Append(b, n)
  <1>5. /\ b \in Seq(Strings) /\ Len(b) = k - m
        /\ \A i \in 1..Len(b) : b[i] = p.names[i + m]
    BY BelowNames
  <1>6. /\ c \in Seq(Strings) /\ Len(c) = (k + 1) - m
        /\ \A i \in 1..Len(c) : c[i] = s[i + m]
    BY <1>2, <1>3, <1>4, BelowNames
  <1> HIDE DEF b, c, k, m
  <1>7. /\ t \in Seq(Strings) /\ Len(t) = Len(b) + 1
        /\ (\A i \in 1..Len(b) : t[i] = b[i]) /\ t[Len(b) + 1] = n
    BY <1>5
  <1> HIDE DEF t
  <1>8. ASSUME NEW i \in 1..Len(c) PROVE c[i] = t[i]
    <2>1. CASE i \in 1..Len(b)
      <3>1. i + m \in 1..k
        BY <1>1, <1>5, <2>1
      <3> QED BY <1>2, <1>5, <1>6, <1>7, <2>1, <3>1
    <2>2. CASE i \notin 1..Len(b)
      <3>1. i = Len(b) + 1 /\ i + m = k + 1
        BY <1>1, <1>5, <1>6, <2>2
      <3> QED BY <1>2, <1>6, <1>7, <3>1
    <2> QED BY <2>1, <2>2
  <1>9. Len(c) = Len(t)
    BY <1>1, <1>5, <1>6, <1>7
  <1>10. c = t
    BY <1>6, <1>7, <1>8, <1>9, SameNames
  <1> QED BY <1>3, <1>4, <1>10 DEF q, s, b, c, t

(* The first elements of a sequence that one was appended to. *)
LEMMA FrontOfAppend ==
  ASSUME NEW S, NEW s \in Seq(S), NEW x \in S
  PROVE  Front(Append(s, x)) = s /\ Last(Append(s, x)) = x /\ Append(s, x) # <<>>
  <1> DEFINE t == Append(s, x)
             f == Front(t)
             n == Len(s)
  <1>1. t \in Seq(S) /\ Len(t) = n + 1 /\ n \in Nat /\ (\A i \in 1..n : t[i] = s[i]) /\ t[n + 1] = x
    OBVIOUS
  <1> HIDE DEF t, n
  <1>2. t # <<>>
    BY <1>1
  <1>3. f \in Seq(S) /\ Len(f) = n /\ (\A i \in 1..n : f[i] = t[i]) /\ Last(t) = x
    BY <1>1, <1>2, FrontLast
  <1> HIDE DEF f
  <1>4. f = s
    BY <1>1, <1>3, SameNames DEF n
  <1> QED BY <1>2, <1>3, <1>4 DEF f, t

(* The place that is looked at has below the root the names that were      *)
(* asked for.                                                              *)
LEMMA AskedPlace ==
  ASSUME Setup, info.path \in Paths(Strings), Resolve(info.path).ok
  PROVE  LET loc == Resolve(info.path).loc
         IN  /\ loc \in Paths(Strings) /\ Longer(loc) /\ Below(loc) = Asked
             /\ handler = "dir" => AtOrBelow(root, loc)
  <1> DEFINE loc == Resolve(info.path).loc
             clean == Clean(info.path)
             safe == Safe(info.path)
             joined == Join(root, safe)
  <1>1. loc \in Paths(Strings) /\ (handler = "dir" => AtOrBelow(root, loc))
    BY ResolvedPath DEF Setup
  <1>2. root \in Paths(Strings) /\ Normal(root.abs, root.names)
    BY DEF Setup
  <1>3. CASE handler = "dir" /\ AtOrBelow(root, clean)
    <2>1. loc = clean
      BY <1>3 DEF Resolve, Prefixed
    <2>2. Longer(loc)
      <3> HIDE DEF loc
      <3>1. loc.names \in Seq(Strings) /\ root.names \in Seq(Strings)
        BY <1>1, <1>2 DEF Paths
      <3> QED BY <1>1, <1>2, <1>3, <3>1, BelowRoot DEF Longer
    <2> QED BY <1>1, <1>3, <2>1, <2>2 DEF Asked
  <1>4. CASE handler = "dir" /\ ~ AtOrBelow(root, clean)
    <2>1. Prefixed(root, info.path).ok
      BY <1>4 DEF Resolve
    <2>2. loc = joined
      BY <1>4, <2>1 DEF Resolve, Prefixed, Refused
    <2>3. safe \in Paths(Strings) /\ joined = Path(root.abs, root.names \o safe.names)
      BY <1>2, JoinSafe
    <2>4. Asked = safe.names
      BY <1>4 DEF Asked, Safe
    <2> HIDE DEF loc, safe, joined, clean
    <2> DEFINE r == root.names
               s == safe.names
    <2>5. r \in Seq(Strings) /\ s \in Seq(Strings) /\ Len(r) \in Nat /\ Len(s) \in Nat
      BY <1>2, <2>3 DEF Paths
    <2>6. loc.abs = root.abs /\ loc.names = r \o s
      BY <2>2, <2>3 DEF Path
    <2>7. /\ Len(loc.names) = Len(r) + Len(s)
          /\ \A i \in 1..Len(r) : loc.names[i] = r[i]
          /\ \A i \in (Len(r) + 1)..(Len(r) + Len(s)) : loc.names[i] = s[i - Len(r)]
      <3> HIDE DEF r, s
      <3>1. /\ Len(r \o s) = Len(r) + Len(s)
            /\ \A i \in 1..Len(r) : (r \o s)[i] = r[i]
            /\ \A i \in (Len(r) + 1)..(Len(r) + Len(s)) : (r \o s)[i] = s[i - Len(r)]
        BY <2>5, ConcatNames
      <3> QED BY <2>6, <3>1
    <2>8. Longer(loc)
      <3>1. Len(r) <= Len(loc.names)
        <4> HIDE DEF r, s
        <4> QED BY <2>5, <2>7
      <3> QED BY <2>6, <2>7, <3>1 DEF Longer
    <2> DEFINE b == Below(loc)
    <2>9. /\ b \in Seq(Strings) /\ Len(b) = Len(loc.names) - Len(r)
          /\ \A i \in 1..Len(b) : b[i] = loc.names[i + Len(r)]
      BY <1>1, <1>2, <2>8, BelowNames
    <2> HIDE DEF b, r, s
    <2>10. Len(b) = Len(s)
      BY <2>5, <2>7, <2>9
    <2>11. ASSUME NEW i \in 1..Len(b) PROVE b[i] = s[i]
      <3>1. i + Len(r) \in (Len(r) + 1)..(Len(r) + Len(s)) /\ (i + Len(r)) - Len(r) = i
        BY <2>5, <2>10
      <3>2. loc.names[i + Len(r)] = s[(i + Len(r)) - Len(r)]
        BY <2>7, <3>1
      <3> QED BY <2>9, <3>1, <3>2
    <2>12. b = s
      BY <2>5, <2>9, <2>10, <2>11, SameNames
    <2> QED BY <1>1, <2>4, <2>8, <2>12 DEF b, s, loc
  <1>5. CASE handler # "dir"
    <2>1. loc = clean /\ root = Path(FALSE, <<>>) /\ ValidPattern(info.path)
      BY <1>5 DEF Resolve, Setup
    <2>2. loc.abs = FALSE
      BY <2>1, PatternOrdinary DEF Ordinary
    <2>3. Asked = clean.names
      BY <1>5 DEF Asked
    <2>4. root.abs = FALSE /\ root.names = <<>> /\ Len(root.names) = 0
      <3>1. Len(<<>>) = 0
        OBVIOUS
      <3> QED BY <2>1, <3>1 DEF Path
    <2> HIDE DEF loc, clean
    <2>5. loc.names \in Seq(Strings) /\ Len(loc.names) \in Nat
      BY <1>1 DEF Paths
    <2>6. Longer(loc)
      <3>1. loc.abs = root.abs
        BY <2>2, <2>4
      <3>2. Len(root.names) <= Len(loc.names) /\ 1..Len(root.names) = {}
        BY <2>4, <2>5
      <3> QED BY <3>1, <3>2 DEF Longer
    <2>7. /\ Below(loc) \in Seq(Strings) /\ Len(Below(loc)) = Len(loc.names) - Len(root.names)
          /\ \A i \in 1..Len(Below(loc)) : Below(loc)[i] = loc.names[i + Len(root.names)]
      BY <1>1, <1>2, <2>6, BelowNames
    <2>8. Len(Below(loc)) = Len(loc.names)
      BY <2>4, <2>5, <2>7
    <2>9. \A i \in 1..Len(Below(loc)) : Below(loc)[i] = loc.names[i]
      BY <2>4, <2>7
    <2>10. Below(loc) = loc.names
      BY <2>5, <2>7, <2>8, <2>9, SameNames
    <2> QED BY <1>1, <2>1, <2>3, <2>6, <2>10 DEF loc
  <1> QED BY <1>3, <1>4, <1>5

(* Names of the entries of a directory of the tree. *)
LEMMA TreeNames ==
  ASSUME TreeOK, NEW d \in Seq(Strings)
  PROVE  {Append(d, n) : n \in {m \in Names : Append(d, m) \in DOMAIN tree}}
           = {f \in DOMAIN tree : f # <<>> /\ Front(f) = d}
  <1>1. ASSUME NEW n \in Names PROVE Append(d, n) # <<>> /\ Front(Append(d, n)) = d
    BY NamesPlain, FrontOfAppend
  <1>2. ASSUME NEW f \in DOMAIN tree, f # <<>>, Front(f) = d
        PROVE  Last(f) \in Names /\ f = Append(d, Last(f))
    BY <1>2, FrontLast DEF TreeOK
  <1> QED BY <1>1, <1>2

(* Glob finds the files whose path or whose pattern the command gave. *)
LEMMA FoundAsked ==
  ASSUME Setup, TreeOK, handler = "dir" => ~ Wild(root),
         info.path \in Paths(Strings), Resolve(info.path).ok,
         NEW all, all = Kept(Matches(Resolve(info.path).loc)), all # <<>>
  PROVE  {Below(f) : f \in Range(all)} = AskedFiles
  <1> DEFINE loc == Resolve(info.path).loc
  <1>1. /\ loc \in Paths(Strings) /\ Longer(loc) /\ Below(loc) = Asked
        /\ handler = "dir" => AtOrBelow(root, loc)
    BY AskedPlace
  <1>2. root \in Paths(Strings) /\ (handler # "dir" => root.names = <<>> /\ ValidPattern(info.path))
    BY DEF Setup, Resolve, Path
  <1>3. /\ Asked \in Seq(Strings) /\ Len(Asked) = Len(loc.names) - Len(root.names)
        /\ \A i \in 1..Len(Asked) : Asked[i] = loc.names[i + Len(root.names)]
        /\ Len(root.names) \in Nat /\ Len(loc.names) \in Nat
    BY <1>1, <1>2, BelowNames
  <1>4. /\ all \in Seq(Paths(Strings)) /\ Matches(loc) \in Seq(Paths(Strings))
        /\ Range(all) = IF handler = "dir" THEN {m \in Range(Matches(loc)) : AtOrBelow(root, m)}
                        ELSE Range(Matches(loc))
    BY <1>1, FoundPaths
  <1>5. Matches(loc) # <<>>
    <2> SUFFICES ASSUME Matches(loc) = <<>> PROVE FALSE
      OBVIOUS
    <2>1. Range(Matches(loc)) = {}
      BY DEF Range
    <2>2. Range(all) = {}
      BY <1>4, <2>1
    <2>3. 1 \in DOMAIN all
      BY <1>4
    <2> QED BY <2>2, <2>3 DEF Range
  <1> HIDE DEF loc
  <1>6. loc.names \in Seq(Strings) /\ root.names \in Seq(Strings)
    BY <1>1, <1>2 DEF Paths
  <1>7. Asked # <<>> => Last(Asked) = Last(loc.names) /\ loc.names # <<>>
    <2> SUFFICES ASSUME Asked # <<>> PROVE Last(Asked) = Last(loc.names) /\ loc.names # <<>>
      OBVIOUS
    <2>1. Len(Asked) \in Nat /\ Len(Asked) > 0 /\ Last(Asked) = Asked[Len(Asked)]
      BY <1>3, FrontLast
    <2>2. Len(Asked) + Len(root.names) = Len(loc.names)
      BY <1>3
    <2>3. loc.names # <<>>
      BY <1>3, <1>6, <2>1, <2>2
    <2>4. Last(loc.names) = loc.names[Len(loc.names)]
      BY <1>6, <2>3, FrontLast
    <2>5. Asked[Len(Asked)] = loc.names[Len(Asked) + Len(root.names)]
      <3>1. Len(Asked) \in 1..Len(Asked)
        BY <2>1
      <3> QED BY <1>3, <3>1
    <2>6. Asked[Len(Asked)] = loc.names[Len(loc.names)]
      BY <2>2, <2>5
    <2> QED BY <2>1, <2>3, <2>4, <2>6
  <1>8. CASE ~ Wild(loc)
    <2>1. Exists(loc) /\ Matches(loc) = <<loc>>
      BY <1>5, <1>8 DEF Matches
    <2>2. Range(Matches(loc)) = {loc}
      BY <2>1 DEF Range
    <2>3. Range(all) = {loc}
      BY <1>1, <1>4, <2>2
    <2>4. Asked \in DOMAIN tree
      BY <1>1, <2>1 DEF Exists
    <2>5. ~ (Asked # <<>> /\ Last(Asked) = "*")
      BY <1>7, <1>8 DEF Wild
    <2>6. AskedFiles = {Asked} \cap DOMAIN tree
      BY <1>2, <2>5 DEF AskedFiles
    <2> QED BY <1>1, <2>3, <2>4, <2>6
  <1>9. CASE Wild(loc)
    <2> DEFINE d == Path(loc.abs, Front(loc.names))
    <2>1. /\ Front(loc.names) \in Seq(Strings) /\ Len(Front(loc.names)) = Len(loc.names) - 1
          /\ \A i \in 1..(Len(loc.names) - 1) : Front(loc.names)[i] = loc.names[i]
          /\ loc.names = Append(Front(loc.names), Last(loc.names)) /\ Last(loc.names) \in Strings
          /\ Last(loc.names) = "*"
      BY <1>6, <1>9, FrontLast DEF Wild
    <2>2. loc.names # root.names
      BY <1>2, <1>9 DEF Wild
    <2>3. Len(root.names) < Len(loc.names)
      <3>1. Len(root.names) <= Len(loc.names)
        BY <1>1 DEF Longer
      <3>2. Len(root.names) # Len(loc.names)
        BY <1>1, <1>6, <2>2, SameNames DEF Longer
      <3> QED BY <1>3, <3>1, <3>2
    <2>4. d \in Paths(Strings) /\ d.abs = loc.abs /\ d.names = Front(loc.names)
      BY <1>1, <2>1 DEF Paths, Path
    <2>5. loc = Path(d.abs, Append(d.names, "*")) /\ "*" \in Strings
      <3>1. loc = [abs |-> loc.abs, names |-> loc.names]
        BY <1>1 DEF Paths
      <3> QED BY <2>1, <2>4, <3>1 DEF Path
    <2>6. Exists(d) /\ Matches(loc) = Listing(d)
      BY <1>5, <1>9 DEF Matches
    <2> HIDE DEF d
    <2>7. Longer(d)
      <3>1. Len(root.names) <= Len(d.names)
        BY <1>3, <2>1, <2>3, <2>4
      <3>2. \A i \in 1..Len(root.names) : d.names[i] = loc.names[i]
        BY <1>3, <2>1, <2>3, <2>4
      <3> QED BY <1>1, <2>4, <3>1, <3>2 DEF Longer
    <2>8. Below(loc) = Append(Below(d), "*") /\ Below(d) \in Seq(Strings)
      BY <1>2, <2>4, <2>5, <2>7, BelowAppended, BelowNames
    <2>9. Front(Asked) = Below(d) /\ Last(Asked) = "*" /\ Asked # <<>>
      BY <1>1, <2>5, <2>8, FrontOfAppend
    <2> DEFINE there == {n \in Names : Append(Below(d), n) \in DOMAIN tree}
               At(n) == Path(d.abs, Append(d.names, n))
    <2>10. Range(Matches(loc)) = {At(n) : n \in there}
      BY <2>4, <2>6, ListingPaths
    <2>11. ASSUME NEW n \in Names
           PROVE  /\ At(n) \in Paths(Strings) /\ Below(At(n)) = Append(Below(d), n)
                  /\ handler = "dir" => AtOrBelow(root, At(n))
      <3>1. n \in Strings
        BY NamesPlain
      <3>2. At(n) \in Paths(Strings) /\ Longer(At(n)) /\ Below(At(n)) = Append(Below(d), n)
        BY <1>2, <2>4, <2>7, <3>1, BelowAppended
      <3>3. Len(At(n).names) = Len(loc.names)
        <4>1. Len(Append(d.names, n)) = Len(d.names) + 1
          BY <2>1, <2>4
        <4> QED BY <1>3, <2>1, <2>4, <4>1 DEF Path
      <3> HIDE DEF At
      <3>4. ASSUME handler = "dir" PROVE AtOrBelow(root, At(n))
        <4>1. root.names # <<>>
          BY <1>1, <1>2, <2>2, <3>4, BelowRoot
        <4> QED BY <1>2, <2>3, <3>2, <3>3, <4>1, BelowRoot DEF Longer
      <3> QED BY <3>2, <3>4
    <2> HIDE DEF At
    <2>12. Range(all) = {At(n) : n \in there}
      BY <1>4, <2>10, <2>11
    <2>13. {Below(f) : f \in Range(all)} = {Append(Below(d), n) : n \in there}
      BY <2>11, <2>12
    <2>14. {Append(Below(d), n) : n \in there} = {f \in DOMAIN tree : f # <<>> /\ Front(f) = Below(d)}
      BY <2>8, TreeNames
    <2>15. AskedFiles = {f \in DOMAIN tree : f # <<>> /\ Front(f) = Below(d)}
      BY <1>2, <2>9 DEF AskedFiles
    <2> QED BY <2>13, <2>14, <2>15
  <1> QED BY <1>8, <1>9

(* Under a root with a name nothing is refused. *)
LEMMA NeverRefused ==
  ASSUME NEW r \in Paths(Strings), Normal(r.abs, r.names), r.names # <<>>, NEW p \in Paths(Strings)
  PROVE  Prefixed(r, p).ok
  <1> DEFINE joined == Join(r, Safe(p))
             s == Safe(p).names
  <1>1. Safe(p) \in Paths(Strings) /\ joined = Path(r.abs, r.names \o s)
    BY JoinSafe
  <1>2. s \in Seq(Strings) /\ r.names \in Seq(Strings)
    BY <1>1 DEF Paths
  <1> HIDE DEF s
  <1>3. /\ r.names \o s \in Seq(Strings) /\ Len(r.names \o s) = Len(r.names) + Len(s)
        /\ \A i \in 1..Len(r.names) : (r.names \o s)[i] = r.names[i]
    BY <1>2, ConcatNames
  <1>4. joined \in Paths(Strings) /\ joined.abs = r.abs /\ joined.names = r.names \o s
    BY <1>1, <1>3 DEF Paths, Path
  <1> HIDE DEF joined
  <1>5. CASE Len(s) = 0
    <2>1. joined.names = r.names
      BY <1>2, <1>3, <1>4, <1>5, SameNames
    <2> QED BY <1>4, <2>1, BelowRoot DEF Prefixed, joined
  <1>6. CASE Len(s) > 0
    <2>1. Len(r.names) < Len(joined.names)
      BY <1>2, <1>3, <1>4, <1>6
    <2>2. AtOrBelow(r, joined)
      BY <1>3, <1>4, <2>1, BelowRoot
    <2> QED BY <2>2 DEF Prefixed, joined
  <1> QED BY <1>2, <1>5, <1>6
FoundInv == /\ SourceInv
            /\ TreeOK
            /\ handler = "dir" => ~ Wild(root)
            /\ Resolution

(* What was asked for stays what was asked for. *)
LEMMA AskedKept ==
  ASSUME UNCHANGED setup, DOMAIN tree' = DOMAIN tree
  PROVE  /\ AskedFiles' = AskedFiles /\ info' = info
         /\ \A f : Below(f)' = Below(f)
         /\ TreeOK => TreeOK'
  <1>1. info' = info
    BY DEF info, setup
  <1>2. Asked' = Asked
    BY <1>1 DEF Asked, setup, Below
  <1> QED BY <1>1, <1>2 DEF AskedFiles, setup, Below, TreeOK

(* The steps after Glob. *)
LEMMA FoundKept ==
  ASSUME FoundInv, Next, UNCHANGED <<setup, found>>, DOMAIN tree' = DOMAIN tree,
         phase' = "refused" => root.names = <<>>,
         phase' \in {"entries", "write", "done"} => phase \in {"entries", "write", "done"}
  PROVE  FoundInv'
  <1>1. SourceInv' /\ (handler = "dir" => ~ Wild(root))'
    BY SourceStep DEF FoundInv, setup
  <1>2. AskedFiles' = AskedFiles /\ (\A f : Below(f)' = Below(f)) /\ TreeOK'
    BY AskedKept DEF FoundInv
  <1>3. {Below(f) : f \in found}' = {Below(f) : f \in found}
    BY <1>2
  <1>4. Resolution'
    BY <1>2, <1>3 DEF FoundInv, Resolution, setup
  <1> QED BY <1>1, <1>2, <1>4 DEF FoundInv

(* Every step keeps what was found to what was asked for. *)
LEMMA FoundStep ==
  ASSUME FoundInv, Next
  PROVE  FoundInv'
  <1>0. Setup /\ SourceInv
    BY DEF FoundInv, SourceInv
  <1>1. ASSUME Glob PROVE FoundInv'
    <2> DEFINE to == Resolve(info.path)
               all == IF to.ok THEN Kept(Matches(to.loc)) ELSE <<>>
    <2>1. info.path \in Paths(Strings)
      BY <1>0, <1>1, InfoPath DEF Glob, SourceInv, Setup, Control
    <2>2. found' = Range(all) /\ UNCHANGED <<setup, tree>>
          /\ phase' = (CASE handler = "dir" /\ ~ to.ok -> "refused"
                         [] all # <<>> -> "entries"
                         [] OTHER -> "failed")
      BY <1>1 DEF Glob
    <2>3. SourceInv' /\ (handler = "dir" => ~ Wild(root))'
      BY <2>2, SourceStep DEF FoundInv, setup
    <2>4. AskedFiles' = AskedFiles /\ (\A f : Below(f)' = Below(f)) /\ TreeOK'
      BY <2>2, AskedKept DEF FoundInv
    <2>5. ASSUME phase' = "refused" PROVE root'.names = <<>>
      <3>1. handler = "dir" /\ ~ to.ok
        BY <2>2, <2>5
      <3>2. ~ Prefixed(root, info.path).ok
        BY <3>1 DEF Resolve
      <3>3. root.names = <<>>
        BY <1>0, <2>1, <3>2, NeverRefused DEF Setup
      <3> QED BY <2>2, <3>3 DEF setup
    <2>6. ASSUME all # <<>> PROVE {Below(f) : f \in Range(all)} = AskedFiles
      <3>1. to.ok /\ all = Kept(Matches(to.loc))
        BY <2>6
      <3> HIDE DEF all
      <3> QED BY <1>0, <2>1, <2>6, <3>1, FoundAsked DEF FoundInv
    <2>7. phase' \in {"entries", "write", "done"} => all # <<>>
      BY <2>2
    <2> HIDE DEF all, to
    <2>8. {Below(f) : f \in found}' = {Below(f) : f \in Range(all)}
      BY <2>2, <2>4
    <2>9. Resolution'
      BY <2>4, <2>5, <2>6, <2>7, <2>8 DEF Resolution
    <2> QED BY <2>3, <2>4, <2>9 DEF FoundInv
  <1>2. ASSUME Refusal PROVE FoundInv'
    <2>1. todo # <<>> /\ handler = "dir" /\ ~ Resolve(Arg).ok /\ phase' = "refused"
          /\ UNCHANGED <<setup, found, tree>>
      BY <1>2 DEF Refusal, Return
    <2>2. Arg \in Paths(Strings)
      BY <1>0, <2>1, NextCall
    <2>3. ~ Prefixed(root, Arg).ok
      BY <2>1 DEF Resolve
    <2>4. root.names = <<>>
      BY <1>0, <2>2, <2>3, NeverRefused DEF Setup
    <2> QED BY <2>1, <2>4, FoundKept
  <1>3. ASSUME Resize PROVE FoundInv'
    <2>1. phase' = phase /\ UNCHANGED <<setup, found>> /\ phase \in {"entries", "write"}
      BY <1>3 DEF Resize
    <2>2. DOMAIN tree' = DOMAIN tree
      BY <1>3 DEF Resize
    <2> QED BY <2>1, <2>2, FoundKept
  <1>4. ASSUME Middleware PROVE FoundInv'
    <2>1. phase' \in {"next", "ignored", "failed", "glob", "sink"} /\ UNCHANGED <<setup, found, tree>>
      BY <1>4 DEF Middleware
    <2> QED BY <2>1, FoundKept
  <1>5. ASSUME EntryFails \/ ReadFails \/ WriteFails PROVE FoundInv'
    <2>1. phase' = "failed" /\ UNCHANGED <<setup, found, tree>>
      BY <1>5 DEF EntryFails, ReadFails, WriteFails, Return
    <2> QED BY <2>1, FoundKept
  <1>6. ASSUME \/ OpenMatch \/ WalkDir \/ VisitRoot \/ VisitDir \/ VisitFile
               \/ WriteRoot \/ WriteDir \/ WriteDirEnd \/ WriteFile \/ Done
        PROVE  FoundInv'
    <2>1. /\ phase \in {"entries", "write"} /\ phase' \in {"entries", "write", "done"}
          /\ UNCHANGED <<setup, found, tree>>
      BY <1>6 DEF OpenMatch, WalkDir, VisitRoot, VisitDir, VisitFile, Calls, WriteRoot, WriteDir,
                  WriteDirEnd, WriteFile, Writes, Done, Return
    <2> QED BY <2>1, FoundKept
  <1> QED BY <1>1, <1>2, <1>3, <1>4, <1>5, <1>6 DEF Next

(* At first nothing was found. *)
LEMMA FoundStart ==
  ASSUME \A r \in Roots : ~ Wild(Clean(r)), Init
  PROVE  FoundInv
  <1>1. handler = "dir" => ~ Wild(root)
    BY DEF Init
  <1>2. TreeOK
    BY TreesAssumption DEF Init, TreeOK, Names
  <1>3. Resolution
    BY DEF Init, Resolution
  <1> QED BY <1>1, <1>2, <1>3, SourceInit DEF FoundInv

(* Nothing is found when nothing happens. *)
LEMMA FoundStutter ==
  ASSUME FoundInv, UNCHANGED vars
  PROVE  FoundInv'
  <1>1. SourceInv'
    BY SourceStutter DEF FoundInv
  <1>2. UNCHANGED setup /\ DOMAIN tree' = DOMAIN tree
    BY DEF vars, setup
  <1>3. AskedFiles' = AskedFiles /\ (\A f : Below(f)' = Below(f)) /\ TreeOK'
    BY <1>2, AskedKept DEF FoundInv
  <1>4. {Below(f) : f \in found}' = {Below(f) : f \in found}
    BY <1>3 DEF vars
  <1>5. (handler = "dir" => ~ Wild(root))' /\ Resolution'
    BY <1>3, <1>4 DEF FoundInv, Resolution, vars, setup
  <1> QED BY <1>1, <1>3, <1>5 DEF FoundInv

(* Glob finds the files the command asks for and no others, for every path *)
(* and every tree, and a path is refused only under a root without names   *)
(* (filesystem.go prefixed, Glob).                                         *)
THEOREM FindsWhatWasAsked ==
  ASSUME \A r \in Roots : ~ Wild(Clean(r))
  PROVE  Spec => []Resolution
  <1>1. Init => FoundInv
    BY FoundStart
  <1>2. FoundInv /\ [Next]_vars => FoundInv'
    BY FoundStep, FoundStutter
  <1>3. FoundInv => Resolution
    BY DEF FoundInv
  <1> QED BY <1>1, <1>2, <1>3, PTL DEF Spec
-----------------------------------------------------------------------------
(* The location of what is below the root at some names. *)
Loc(b) == Path(root.abs, root.names \o b)

(* A location in the root is told by the names below it, *)
LEMMA LocBelow ==
  ASSUME Setup, NEW b \in Seq(Names)
  PROVE  /\ Loc(b) \in Paths(Strings) /\ Longer(Loc(b)) /\ Below(Loc(b)) = b
         /\ Normal(Loc(b).abs, Loc(b).names)
         /\ Loc(b).abs = root.abs /\ Loc(b).names = root.names \o b
  <1> DEFINE r == root.names
             l == Loc(b)
  <1>1. root \in Paths(Strings) /\ r \in Seq(Strings) /\ root.abs \in BOOLEAN /\ Normal(root.abs, r)
        /\ Len(r) \in Nat
    BY DEF Setup, Paths
  <1>2. b \in Seq(Strings) /\ \A i \in DOMAIN b : Plain(b[i])
    <2>1. b \in Seq(Strings)
      BY NamesPlain, LargerSeq
    <2>2. \A i \in DOMAIN b : b[i] \in Names
      OBVIOUS
    <2> QED BY <2>1, <2>2, NamesPlain
  <1>3. l.abs = root.abs /\ l.names = r \o b
    BY DEF Loc, Path
  <1> HIDE DEF r
  <1>4. r \o b \in Seq(Strings) /\ Normal(root.abs, r \o b)
    BY <1>1, <1>2, NormalConcat DEF r
  <1>5. /\ Len(r \o b) = Len(r) + Len(b)
        /\ \A i \in 1..Len(r) : (r \o b)[i] = r[i]
        /\ \A i \in (Len(r) + 1)..(Len(r) + Len(b)) : (r \o b)[i] = b[i - Len(r)]
    BY <1>1, <1>2, ConcatNames
  <1>6. l \in Paths(Strings)
    BY <1>1, <1>3, <1>4 DEF Loc, Path, Paths, r
  <1> HIDE DEF l
  <1>7. Longer(l)
    BY <1>1, <1>2, <1>3, <1>5 DEF Longer, r
  <1> DEFINE c == Below(l)
  <1>8. /\ c \in Seq(Strings) /\ Len(c) = Len(l.names) - Len(r)
        /\ \A i \in 1..Len(c) : c[i] = l.names[i + Len(r)]
    BY <1>1, <1>6, <1>7, BelowNames DEF r
  <1> HIDE DEF c
  <1>9. Len(c) = Len(b)
    BY <1>1, <1>2, <1>3, <1>5, <1>8
  <1>10. ASSUME NEW i \in 1..Len(c) PROVE c[i] = b[i]
    <2>1. i + Len(r) \in (Len(r) + 1)..(Len(r) + Len(b)) /\ (i + Len(r)) - Len(r) = i
      BY <1>1, <1>2, <1>9
    <2> QED BY <1>3, <1>5, <1>8, <2>1
  <1>11. c = b
    BY <1>8, <1>9, <1>10, <1>2, SameNames
  <1> QED BY <1>1, <1>3, <1>4, <1>6, <1>7, <1>11 DEF l, c, r

(* and what begins with the root is such a location. *)
LEMMA LocOf ==
  ASSUME Setup, NEW p \in Paths(Strings), Longer(p), Below(p) \in Seq(Names)
  PROVE  p = Loc(Below(p))
  <1> DEFINE b == Below(p)
             r == root.names
             s == p.names
  <1>1. /\ b \in Seq(Strings) /\ Len(b) = Len(s) - Len(r)
        /\ \A i \in 1..Len(b) : b[i] = s[i + Len(r)]
        /\ Len(r) \in Nat /\ Len(s) \in Nat
    BY BelowNames DEF Setup
  <1>2. s \in Seq(Strings) /\ r \in Seq(Strings) /\ p = [abs |-> p.abs, names |-> p.names]
    BY DEF Paths, Setup
  <1>3. p.abs = root.abs /\ Len(r) <= Len(s) /\ \A i \in 1..Len(r) : s[i] = r[i]
    BY DEF Longer
  <1> HIDE DEF b, r, s
  <1>4. /\ r \o b \in Seq(Strings) /\ Len(r \o b) = Len(r) + Len(b)
        /\ \A i \in 1..Len(r) : (r \o b)[i] = r[i]
        /\ \A i \in (Len(r) + 1)..(Len(r) + Len(b)) : (r \o b)[i] = b[i - Len(r)]
    BY <1>1, <1>2, ConcatNames
  <1> DEFINE t == r \o b
  <1> HIDE DEF t
  <1>5. ASSUME NEW i \in 1..Len(s) PROVE s[i] = t[i]
    <2>1. CASE i \in 1..Len(r)
      BY <1>3, <1>4, <2>1 DEF t
    <2>2. CASE i \notin 1..Len(r)
      <3>1. i \in (Len(r) + 1)..(Len(r) + Len(b)) /\ i - Len(r) \in 1..Len(b) /\ (i - Len(r)) + Len(r) = i
        BY <1>1, <2>2
      <3>2. b[i - Len(r)] = s[(i - Len(r)) + Len(r)]
        BY <1>1, <3>1
      <3> QED BY <1>4, <3>1, <3>2 DEF t
    <2> QED BY <2>1, <2>2
  <1>6. s = t
    <2>1. Len(s) = Len(t) /\ t \in Seq(Strings)
      BY <1>1, <1>4 DEF t
    <2> QED BY <1>2, <1>5, <2>1, SameNames
  <1> QED BY <1>2, <1>3, <1>6 DEF Loc, Path, b, r, s, t

(* One name more below the root. *)
LEMMA LocAppend ==
  ASSUME Setup, NEW b \in Seq(Names), NEW n \in Names
  PROVE  Path(Loc(b).abs, Append(Loc(b).names, n)) = Loc(Append(b, n))
  <1> DEFINE l == Loc(b)
             q == Path(l.abs, Append(l.names, n))
  <1>1. l \in Paths(Strings) /\ Longer(l) /\ Below(l) = b
    BY LocBelow
  <1> HIDE DEF l
  <1>2. root \in Paths(Strings) /\ n \in Strings
    BY NamesPlain DEF Setup
  <1>3. q \in Paths(Strings) /\ Longer(q) /\ Below(q) = Append(b, n)
    BY <1>1, <1>2, BelowAppended
  <1> HIDE DEF q
  <1>4. Append(b, n) \in Seq(Names)
    OBVIOUS
  <1>5. q = Loc(Append(b, n))
    BY <1>3, <1>4, LocOf
  <1> QED BY <1>5 DEF q, l

(* The directory of a location, and its own name. *)
LEMMA LocParent ==
  ASSUME Setup, NEW b \in Seq(Names), b # <<>>
  PROVE  /\ Front(b) \in Seq(Names) /\ Last(b) \in Names
         /\ Dir(Loc(b)) = Loc(Front(b))
         /\ Loc(b).names # <<>> /\ Last(Loc(b).names) = Last(b)
         /\ Front(Loc(b).names) = Loc(Front(b)).names
  <1> DEFINE f == Front(b)
             n == Last(b)
             l == Loc(f)
  <1>1. f \in Seq(Names) /\ n \in Names /\ b = Append(f, n)
    BY FrontLast
  <1> HIDE DEF f, n
  <1>2. l \in Paths(Strings) /\ l.names \in Seq(Strings) /\ n \in Strings /\ l.abs = root.abs
    <2>1. l \in Paths(Strings) /\ l.abs = root.abs
      BY <1>1, LocBelow
    <2> QED BY <1>1, <2>1, NamesPlain DEF Paths
  <1>3. Loc(b) = Path(root.abs, Append(l.names, n))
    BY <1>1, <1>2, LocAppend
  <1>4. Loc(b).names = Append(l.names, n) /\ Loc(b).abs = l.abs
    BY <1>2, <1>3 DEF Path
  <1>5. Loc(b) \in Paths(Strings) /\ Normal(Loc(b).abs, Loc(b).names)
    BY LocBelow
  <1> DEFINE ll == l.names
  <1>6. Front(Append(ll, n)) = ll /\ Last(Append(ll, n)) = n /\ Append(ll, n) # <<>>
    BY <1>2, FrontOfAppend
  <1>7. Dir(Loc(b)) = Path(Loc(b).abs, Front(Loc(b).names))
    BY <1>4, <1>5, <1>6, ParentPath
  <1>8. l = Path(l.abs, l.names)
    BY <1>2 DEF Paths, Path
  <1>9. Dir(Loc(b)) = l
    BY <1>4, <1>6, <1>7, <1>8
  <1> QED BY <1>1, <1>4, <1>6, <1>9 DEF f, n

(* Different names below the root are different locations. *)
LEMMA LocSame ==
  ASSUME Setup, NEW a \in Seq(Names), NEW b \in Seq(Names), Loc(a) = Loc(b)
  PROVE  a = b
  <1>1. Below(Loc(a)) = a /\ Below(Loc(b)) = b
    BY LocBelow
  <1> QED BY <1>1
(* The beginning of a sequence *)
LEMMA Prefix ==
  ASSUME NEW S, NEW s \in Seq(S), NEW k \in 0..Len(s)
  PROVE  /\ SubSeq(s, 1, k) \in Seq(S) /\ Len(SubSeq(s, 1, k)) = k
         /\ \A i \in 1..k : SubSeq(s, 1, k)[i] = s[i]
         /\ k = Len(s) => SubSeq(s, 1, k) = s
         /\ k > 0 => /\ Front(SubSeq(s, 1, k)) = SubSeq(s, 1, k - 1)
                     /\ Last(SubSeq(s, 1, k)) = s[k]
                     /\ SubSeq(s, 1, k) = Append(SubSeq(s, 1, k - 1), s[k])
  <1> DEFINE p == SubSeq(s, 1, k)
  <1>1. p \in Seq(S) /\ Len(p) = k /\ (\A i \in 1..k : p[i] = s[i]) /\ k \in Nat
    OBVIOUS
  <1>2. ASSUME k = Len(s) PROVE p = s
    <2> HIDE DEF p
    <2> QED BY <1>1, <1>2, SameNames
  <1>3. ASSUME k > 0
        PROVE  /\ p # <<>> /\ Front(p) = SubSeq(s, 1, k - 1) /\ Last(p) = s[k]
               /\ p = Append(SubSeq(s, 1, k - 1), s[k])
    <2> DEFINE q == SubSeq(s, 1, k - 1)
    <2>1. q \in Seq(S) /\ Len(q) = k - 1 /\ (\A i \in 1..(k - 1) : q[i] = s[i])
      BY <1>3
    <2> HIDE DEF p, q
    <2>2. p # <<>>
      BY <1>1, <1>3
    <2>3. /\ Front(p) \in Seq(S) /\ Len(Front(p)) = Len(p) - 1 /\ Last(p) = p[Len(p)]
          /\ \A i \in 1..(Len(p) - 1) : Front(p)[i] = p[i]
          /\ p = Append(Front(p), Last(p))
      BY <1>1, <2>2, FrontLast
    <2> DEFINE f == Front(p)
    <2> HIDE DEF f
    <2>5. f \in Seq(S) /\ Len(f) = k - 1 /\ Last(p) = s[k] /\ \A i \in 1..(k - 1) : f[i] = p[i]
      BY <1>1, <1>3, <2>3 DEF f
    <2>4. f = q
      <3>1. ASSUME NEW i \in 1..(k - 1) PROVE f[i] = q[i]
        <4>1. i \in 1..k
          BY <1>1
        <4> QED BY <1>1, <2>1, <2>5, <4>1
      <3> QED BY <2>1, <2>5, <3>1, SameNames
    <2> QED BY <2>2, <2>3, <2>4, <2>5 DEF q, f
  <1> QED BY <1>1, <1>2, <1>3

(* Locations one of which is in the other are so by their names. *)
LEMMA LocStart ==
  ASSUME Setup, NEW d \in Seq(Names), NEW k \in 0..Len(d)
  PROVE  SubSeq(Loc(d).names, 1, Len(root.names) + k) = Loc(SubSeq(d, 1, k)).names
  <1> DEFINE r == root.names
             e == SubSeq(d, 1, k)
             x == SubSeq(r \o d, 1, Len(r) + k)
             y == r \o e
  <1>1. r \in Seq(Strings) /\ Len(r) \in Nat /\ Len(d) \in Nat /\ d \in Seq(Strings)
    <2>1. d \in Seq(Strings)
      BY NamesPlain, LargerSeq
    <2> QED BY <2>1 DEF Setup, Paths
  <1>2. e \in Seq(Strings) /\ e \in Seq(Names) /\ Len(e) = k /\ \A i \in 1..k : e[i] = d[i]
    <2>1. e \in Seq(Names) /\ Len(e) = k /\ \A i \in 1..k : e[i] = d[i]
      BY Prefix
    <2> HIDE DEF e
    <2> QED BY <2>1, NamesPlain, LargerSeq
  <1> HIDE DEF r, e
  <1>3. /\ r \o d \in Seq(Strings) /\ Len(r \o d) = Len(r) + Len(d)
        /\ \A i \in 1..Len(r) : (r \o d)[i] = r[i]
        /\ \A i \in (Len(r) + 1)..(Len(r) + Len(d)) : (r \o d)[i] = d[i - Len(r)]
    BY <1>1, ConcatNames
  <1>4. /\ y \in Seq(Strings) /\ Len(y) = Len(r) + k
        /\ \A i \in 1..Len(r) : y[i] = r[i]
        /\ \A i \in (Len(r) + 1)..(Len(r) + k) : y[i] = e[i - Len(r)]
    <2>0. r \in Seq(Strings) /\ e \in Seq(Strings)
      BY <1>1, <1>2
    <2>1. /\ r \o e \in Seq(Strings) /\ Len(r \o e) = Len(r) + Len(e)
          /\ \A i \in 1..Len(r) : (r \o e)[i] = r[i]
          /\ \A i \in (Len(r) + 1)..(Len(r) + Len(e)) : (r \o e)[i] = e[i - Len(r)]
      BY <2>0, ConcatNames
    <2> QED BY <1>2, <2>1
  <1> DEFINE z == r \o d
  <1>5. x \in Seq(Strings) /\ Len(x) = Len(r) + k /\ \A i \in 1..(Len(r) + k) : x[i] = z[i]
    <2>1. Len(r) + k \in 0..Len(z) /\ z \in Seq(Strings)
      BY <1>1, <1>3
    <2> HIDE DEF z
    <2>2. SubSeq(z, 1, Len(r) + k) \in Seq(Strings) /\ Len(SubSeq(z, 1, Len(r) + k)) = Len(r) + k
          /\ \A i \in 1..(Len(r) + k) : SubSeq(z, 1, Len(r) + k)[i] = z[i]
      BY <2>1, Prefix
    <2> QED BY <2>2 DEF z
  <1> HIDE DEF x, y, z
  <1>6. ASSUME NEW i \in 1..(Len(r) + k) PROVE x[i] = y[i]
    <2>1. CASE i \in 1..Len(r)
      BY <1>3, <1>4, <1>5, <2>1 DEF z
    <2>2. CASE i \notin 1..Len(r)
      <3>1. i \in (Len(r) + 1)..(Len(r) + k) /\ i \in (Len(r) + 1)..(Len(r) + Len(d)) /\ i - Len(r) \in 1..k
        BY <1>1, <2>2
      <3> QED BY <1>2, <1>3, <1>4, <1>5, <3>1 DEF z
    <2> QED BY <2>1, <2>2
  <1>7. x = y
    BY <1>4, <1>5, <1>6, SameNames
  <1>8. Loc(d).names = r \o d /\ Loc(e).names = r \o e
    BY <1>2, LocBelow DEF r
  <1> QED BY <1>7, <1>8 DEF r, e, x, y

(* The string of one location begins with that of another, in names. *)
LEMMA LocPrefix ==
  ASSUME Setup, NEW a \in Seq(Names), a # <<>>, NEW d \in Seq(Names)
  PROVE  StringPrefix(Loc(a), Loc(d)) <=>
            /\ Len(a) <= Len(d)
            /\ Front(a) = SubSeq(d, 1, Len(a) - 1)
            /\ Last(a) = d[Len(a)] \/ <<Last(a), d[Len(a)]>> \in StartsWith
  <1> DEFINE r == root.names
             x == Loc(a).names
             y == Loc(d).names
  <1>1. /\ r \in Seq(Strings) /\ Len(r) \in Nat /\ Len(d) \in Nat /\ Len(a) \in Nat /\ Len(a) > 0
        /\ d \in Seq(Strings) /\ a \in Seq(Strings)
    <2>1. d \in Seq(Strings) /\ a \in Seq(Strings)
      BY NamesPlain, LargerSeq
    <2> QED BY <2>1 DEF Setup, Paths
  <1>2. /\ Front(a) \in Seq(Names) /\ x # <<>> /\ Last(x) = Last(a) /\ Front(x) = Loc(Front(a)).names
        /\ Loc(a).abs = root.abs /\ Loc(d).abs = root.abs /\ x = r \o a /\ y = r \o d
    BY LocBelow, LocParent
  <1>3. /\ Len(x) = Len(r) + Len(a) /\ Len(y) = Len(r) + Len(d)
        /\ \A i \in (Len(r) + 1)..(Len(r) + Len(d)) : y[i] = d[i - Len(r)]
    <2> HIDE DEF r
    <2>1. /\ Len(r \o a) = Len(r) + Len(a) /\ Len(r \o d) = Len(r) + Len(d)
          /\ \A i \in (Len(r) + 1)..(Len(r) + Len(d)) : (r \o d)[i] = d[i - Len(r)]
      BY <1>1, ConcatNames
    <2> QED BY <1>2, <2>1
  <1> HIDE DEF x, y, r
  <1>4. Len(x) <= Len(y) <=> Len(a) <= Len(d)
    BY <1>1, <1>3
  <1> SUFFICES ASSUME Len(a) <= Len(d)
               PROVE  StringPrefix(Loc(a), Loc(d)) <=>
                        /\ Front(a) = SubSeq(d, 1, Len(a) - 1)
                        /\ Last(a) = d[Len(a)] \/ <<Last(a), d[Len(a)]>> \in StartsWith
    BY <1>4 DEF StringPrefix, x, y
  <1>5. y[Len(x)] = d[Len(a)]
    <2>1. Len(r) + Len(a) \in (Len(r) + 1)..(Len(r) + Len(d)) /\ (Len(r) + Len(a)) - Len(r) = Len(a)
      BY <1>1
    <2> QED BY <1>3, <2>1
  <1> DEFINE k == Len(a) - 1
             e == SubSeq(d, 1, k)
  <1>6. k \in 0..Len(d) /\ Len(x) - 1 = Len(r) + k
    BY <1>1, <1>3
  <1>7. SubSeq(y, 1, Len(r) + k) = Loc(e).names
    BY <1>6, LocStart DEF r, y
  <1>8. e \in Seq(Names)
    BY <1>6, Prefix
  <1> HIDE DEF e, k
  <1>9. Front(x) = SubSeq(y, 1, Len(x) - 1) <=> Front(a) = e
    <2>1. Front(x) = SubSeq(y, 1, Len(x) - 1) <=> Loc(Front(a)).names = Loc(e).names
      BY <1>2, <1>6, <1>7
    <2>2. Loc(Front(a)).names = Loc(e).names => Front(a) = e
      <3> SUFFICES ASSUME Loc(Front(a)).names = Loc(e).names PROVE Front(a) = e
        OBVIOUS
      <3>1. Below(Loc(Front(a))) = Front(a) /\ Below(Loc(e)) = e
        BY <1>2, <1>8, LocBelow
      <3> QED BY <3>1 DEF Below
    <2> QED BY <2>1, <2>2
  <1> QED BY <1>2, <1>4, <1>5, <1>9 DEF StringPrefix, x, y, e, k
-----------------------------------------------------------------------------
(* The files of a copy *)

(* In every tree what something is in is a directory, as the root is. *)
LEMMA TreeFacts ==
  ASSUME tree \in Trees
  PROVE  /\ TreeOK /\ DOMAIN tree \subseteq Seq(Names)
         /\ \A f \in DOMAIN tree :
               /\ tree[f].dir \in BOOLEAN /\ tree[f].size \in Nat /\ tree[f].time \in Nat
               /\ IF f = <<>> THEN tree[f].dir ELSE Front(f) \in DOMAIN tree /\ tree[Front(f)].dir
  <1>1. /\ DOMAIN tree \subseteq Seq(Names)
        /\ tree \in [DOMAIN tree -> [dir : BOOLEAN, size : Nat, time : Nat]]
        /\ \A f \in DOMAIN tree : IF f = <<>> THEN tree[f].dir
                                  ELSE Front(f) \in DOMAIN tree /\ tree[Front(f)].dir
    BY TreesAssumption DEF Names
  <1>2. TreeOK
    BY <1>1 DEF TreeOK
  <1>3. \A f \in DOMAIN tree : tree[f] \in [dir : BOOLEAN, size : Nat, time : Nat]
    BY <1>1
  <1> QED BY <1>1, <1>2, <1>3

(* So is everything on the way to a file. *)
LEMMA TreePrefix ==
  ASSUME tree \in Trees, NEW f \in DOMAIN tree, NEW k \in 0..Len(f)
  PROVE  /\ SubSeq(f, 1, k) \in DOMAIN tree
         /\ k < Len(f) => tree[SubSeq(f, 1, k)].dir
  <1> DEFINE n == Len(f)
             At0(j) == SubSeq(f, 1, j)
             Good == {m \in Nat : m <= n => At0(n - m) \in DOMAIN tree /\ (m > 0 => tree[At0(n - m)].dir)}
  <1>1. f \in Seq(Names) /\ n \in Nat
    BY TreeFacts
  <1>2. 0 \in Good
    <2>1. n - 0 = n /\ n \in 0..n
      BY <1>1
    <2>2. At0(n) = f
      BY <1>1, <2>1, Prefix
    <2> HIDE DEF At0, n
    <2> QED BY <2>1, <2>2
  <1>3. ASSUME NEW m \in Nat, m \in Good PROVE m + 1 \in Good
    <2> SUFFICES ASSUME m + 1 <= n PROVE At0(n - (m + 1)) \in DOMAIN tree /\ tree[At0(n - (m + 1))].dir
      OBVIOUS
    <2> DEFINE j == n - m
    <2>1. j \in 0..n /\ j > 0 /\ n - (m + 1) = j - 1
      BY <1>1
    <2>2. At0(j) \in DOMAIN tree
      <3>1. m <= n
        BY <1>1
      <3> QED BY <1>3, <3>1
    <2> HIDE DEF j
    <2>3. At0(j) # <<>> /\ Front(At0(j)) = At0(j - 1)
      <3>1. f \in Seq(Names) /\ j \in 0..Len(f) /\ j > 0
        BY <1>1, <2>1
      <3>2. /\ At0(j) \in Seq(Names) /\ Len(At0(j)) = j
            /\ Front(At0(j)) = At0(j - 1)
        BY <1>1, <3>1, Prefix
      <3> HIDE DEF At0
      <3> QED BY <3>1, <3>2
    <2> HIDE DEF At0
    <2>4. At0(j - 1) \in DOMAIN tree /\ tree[At0(j - 1)].dir
      BY <2>2, <2>3, TreeFacts
    <2> QED BY <2>1, <2>4
  <1>4. \A m \in Nat : m \in Good
    <2> HIDE DEF Good
    <2> QED BY <1>2, <1>3, NatSetInduction
  <1>5. n - k \in Nat /\ n - k <= n /\ n - (n - k) = k /\ (k < n => n - k > 0)
    BY <1>1
  <1> HIDE DEF At0
  <1> QED BY <1>4, <1>5 DEF At0

(* A prefix, read in the longer sequence *)
LEMMA PrefixOf ==
  ASSUME NEW S, NEW m \in Seq(S), NEW b \in Seq(S)
  PROVE  IsPrefix(m, b) <=> Len(m) <= Len(b) /\ SubSeq(b, 1, Len(m)) = m
  <1>1. SubSeq(m, 1, Len(m)) = m
    <2>1. Len(m) \in 0..Len(m)
      OBVIOUS
    <2> QED BY <2>1, Prefix
  <1> QED BY <1>1 DEF IsPrefix

(* The length of the path to the directory whose names the client leaves out *)
Cut == IF Asked = <<>> THEN 0 ELSE Len(Asked) - 1

(* The files that the copy is to have *)
Wanted == {f \in DOMAIN tree : \E m \in AskedFiles : f = m \/ (info.recursive /\ IsPrefix(m, f))}

(* What TreeSentApart asks for *)
Apart == /\ Distinguishable
         /\ handler = "dir" => root.abs
         /\ handler # "dir" => Asked # <<>>

(* Where the copy starts from *)
Ground == Setup /\ tree \in Trees /\ Asked \in Seq(Strings) /\ Apart

(* The files asked for are all as deep as the path of the command. *)
LEMMA AskedDepth ==
  ASSUME Ground, NEW m \in AskedFiles
  PROVE  /\ m \in DOMAIN tree /\ m \in Seq(Names) /\ Len(m) = Len(Asked)
         /\ Len(Asked) \in Nat /\ Cut \in Nat
         /\ Len(m) <= Cut + 1 /\ (m # <<>> => Len(m) = Cut + 1)
         /\ m = <<>> => Asked = <<>> /\ Cut = 0 /\ handler = "dir"
  <1>1. m \in DOMAIN tree /\ (m = Asked \/ (m # <<>> /\ Asked # <<>> /\ Front(m) = Front(Asked)))
    BY DEF AskedFiles
  <1>2. m \in Seq(Names) /\ Asked \in Seq(Strings)
    BY <1>1, TreeFacts DEF Ground
  <1>3. Len(m) = Len(Asked)
    <2>1. CASE m = Asked
      BY <2>1
    <2>2. CASE m # <<>> /\ Asked # <<>> /\ Front(m) = Front(Asked)
      <3>1. Len(Front(m)) = Len(m) - 1 /\ Len(Front(Asked)) = Len(Asked) - 1
        BY <1>2, <2>2, FrontLast
      <3> QED BY <1>2, <2>2, <3>1
    <2> QED BY <1>1, <2>1, <2>2
  <1>4. m = <<>> <=> Asked = <<>>
    BY <1>2, <1>3
  <1> QED BY <1>1, <1>2, <1>3, <1>4 DEF Cut, Ground, Apart

(* What is wanted is asked for, or deeper. *)
LEMMA WantedDepth ==
  ASSUME Ground, NEW b \in Wanted
  PROVE  /\ b \in DOMAIN tree /\ b \in Seq(Names) /\ Len(b) \in Nat /\ Cut \in Nat
         /\ b # <<>> => Len(b) >= Cut + 1
         /\ b = <<>> => Cut = 0 /\ Asked = <<>> /\ handler = "dir"
         /\ ~ info.recursive => Len(b) <= Cut + 1
  <1>1. PICK m \in AskedFiles : b = m \/ (info.recursive /\ IsPrefix(m, b))
    BY DEF Wanted
  <1>2. /\ m \in DOMAIN tree /\ m \in Seq(Names) /\ Cut \in Nat /\ Len(m) = Len(Asked)
        /\ Len(m) <= Cut + 1 /\ (m # <<>> => Len(m) = Cut + 1)
        /\ m = <<>> => Asked = <<>> /\ Cut = 0 /\ handler = "dir"
    BY AskedDepth
  <1>3. b \in DOMAIN tree /\ b \in Seq(Names) /\ Len(b) \in Nat
    <2>1. b \in DOMAIN tree
      BY DEF Wanted
    <2> QED BY <2>1, TreeFacts DEF Ground
  <1>4. CASE b = m
    BY <1>2, <1>3, <1>4
  <1>5. CASE info.recursive /\ IsPrefix(m, b)
    <2>1. Len(m) <= Len(b)
      BY <1>2, <1>3, <1>5, PrefixOf
    <2>2. CASE m = <<>>
      <3>1. b # <<>> => Len(b) >= 1
        BY <1>3
      <3> QED BY <1>2, <1>3, <1>5, <2>2, <3>1
    <2>3. CASE m # <<>>
      <3>1. b # <<>>
        BY <1>2, <1>3, <2>1, <2>3
      <3> QED BY <1>2, <1>3, <1>5, <2>1, <2>3, <3>1
    <2> QED BY <2>2, <2>3
  <1> QED BY <1>1, <1>4, <1>5
-----------------------------------------------------------------------------
(* The entries *)

NameOf(es, i) == Below(es[i].loc)

(* The entries with a name *)
Has(es, b) == {i \in DOMAIN es : NameOf(es, i) = b}

(* The entry that a file's is a child of: the first of its directory, or   *)
(* the root for what the command asks for.                                 *)
Parent(es, b) == IF Len(b) > Cut + 1 THEN Min(Has(es, Front(b))) ELSE 0

EntryOf(es, e) ==
    LET b == Below(e.loc)
    IN  /\ b \in Wanted /\ e.loc = Loc(b)
        /\ info.recursive => b # <<>>
        /\ e.dir \in BOOLEAN /\ (e.dir <=> info.recursive /\ tree[b].dir)
        /\ e.size = tree[b].size /\ e.time = tree[b].time
        /\ b # <<>> => e.name = Last(b)
        /\ Len(b) > Cut + 1 => Has(es, Front(b)) # {}
        /\ e.parent = Parent(es, b)

(* Every entry is one of a file that is wanted, in its directory. *)
EntriesOf(es) == /\ \E S : es \in Seq(S)
                 /\ \A i \in DOMAIN es : EntryOf(es, es[i])

(* The first entry with a name *)
LEMMA FirstHas ==
  ASSUME NEW es, \E S : es \in Seq(S), NEW b, Has(es, b) # {}
  PROVE  /\ Min(Has(es, b)) \in Has(es, b) /\ Min(Has(es, b)) \in DOMAIN es
         /\ Min(Has(es, b)) \in Nat \ {0} /\ NameOf(es, Min(Has(es, b))) = b
         /\ \A j \in Has(es, b) : Min(Has(es, b)) <= j
  <1>1. DOMAIN es = 1..Len(es) /\ Len(es) \in Nat
    OBVIOUS
  <1>2. Has(es, b) \subseteq Nat
    BY <1>1 DEF Has
  <1>3. Min(Has(es, b)) \in Has(es, b) /\ \A j \in Has(es, b) : Min(Has(es, b)) <= j
    BY <1>2, LeastOf
  <1>4. \A j \in Has(es, b) : j \in DOMAIN es /\ j \in Nat \ {0} /\ NameOf(es, j) = b
    BY <1>1 DEF Has
  <1> QED BY <1>3, <1>4

(* What is known of an entry. *)
LEMMA EntryFacts ==
  ASSUME Ground, NEW es, EntriesOf(es), NEW i \in DOMAIN es
  PROVE  LET b == NameOf(es, i)
         IN  /\ i \in Has(es, b) /\ b \in Wanted /\ b \in DOMAIN tree /\ b \in Seq(Names)
             /\ es[i].loc = Loc(b)
             /\ es[i].dir <=> info.recursive /\ tree[b].dir
             /\ info.recursive => b # <<>> /\ Len(b) > Cut
             /\ es[i].parent = 0 <=> Len(b) <= Cut + 1
             /\ Len(b) > Cut + 1 => /\ Has(es, Front(b)) # {}
                                    /\ es[i].parent = Min(Has(es, Front(b)))
                                    /\ es[i].parent \in DOMAIN es
                                    /\ NameOf(es, es[i].parent) = Front(b)
                                    /\ b # <<>> /\ info.recursive
  <1> DEFINE b == NameOf(es, i)
  <1>1. EntryOf(es, es[i]) /\ \E S : es \in Seq(S)
    BY DEF EntriesOf
  <1>2. /\ b \in Wanted /\ es[i].loc = Loc(b)
        /\ info.recursive => b # <<>>
        /\ es[i].dir <=> info.recursive /\ tree[b].dir
        /\ Len(b) > Cut + 1 => Has(es, Front(b)) # {}
        /\ es[i].parent = Parent(es, b)
    BY <1>1 DEF EntryOf, NameOf
  <1>3. i \in Has(es, b)
    BY DEF Has
  <1> HIDE DEF b
  <1>4. /\ b \in DOMAIN tree /\ b \in Seq(Names) /\ Len(b) \in Nat /\ Cut \in Nat
        /\ b # <<>> => Len(b) >= Cut + 1
        /\ ~ info.recursive => Len(b) <= Cut + 1
    BY <1>2, WantedDepth
  <1>5. ASSUME Len(b) > Cut + 1
        PROVE  /\ es[i].parent = Min(Has(es, Front(b))) /\ es[i].parent \in DOMAIN es
               /\ es[i].parent # 0 /\ NameOf(es, es[i].parent) = Front(b)
    <2>1. es[i].parent = Min(Has(es, Front(b))) /\ Has(es, Front(b)) # {}
      BY <1>2, <1>5 DEF Parent
    <2> QED BY <1>1, <2>1, FirstHas
  <1>6. Len(b) <= Cut + 1 => es[i].parent = 0
    BY <1>2, <1>4 DEF Parent
  <1>7. Len(b) > Cut + 1 => b # <<>>
    BY <1>4
  <1> QED BY <1>2, <1>3, <1>4, <1>5, <1>6, <1>7 DEF b

(* With an entry all its directories have one. *)
LEMMA HasPrefixes ==
  ASSUME Ground, NEW es, EntriesOf(es), NEW d, Has(es, d) # {}, NEW l \in (Cut + 1)..Len(d)
  PROVE  Has(es, SubSeq(d, 1, l)) # {}
  <1> DEFINE n == Len(d)
             Good == {m \in Nat : n - m >= Cut + 1 => Has(es, SubSeq(d, 1, n - m)) # {}}
  <1>1. PICK i0 \in DOMAIN es : NameOf(es, i0) = d
    BY DEF Has
  <1>2. d \in Seq(Names) /\ n \in Nat /\ Cut \in Nat
    <2>1. d \in Seq(Names) /\ d \in Wanted
      BY <1>1, EntryFacts
    <2> QED BY <2>1, WantedDepth
  <1>3. 0 \in Good
    <2>1. n \in 0..n /\ n - 0 = n
      BY <1>2
    <2>2. SubSeq(d, 1, n) = d
      BY <1>2, <2>1, Prefix
    <2> HIDE DEF n
    <2> QED BY <2>1, <2>2
  <1>4. ASSUME NEW m \in Nat, m \in Good PROVE m + 1 \in Good
    <2> SUFFICES ASSUME n - (m + 1) >= Cut + 1 PROVE Has(es, SubSeq(d, 1, n - (m + 1))) # {}
      OBVIOUS
    <2> DEFINE j == n - m
               p == SubSeq(d, 1, j)
               q == SubSeq(d, 1, j - 1)
    <2>1. j \in 0..Len(d) /\ j > Cut + 1 /\ j > 0 /\ n - (m + 1) = j - 1 /\ n - m >= Cut + 1
      BY <1>2
    <2>2. Has(es, p) # {}
      BY <1>4, <2>1
    <2> HIDE DEF j
    <2>3. p \in Seq(Names) /\ Len(p) = j /\ Front(p) = q
      BY <1>2, <2>1, Prefix
    <2> HIDE DEF p, q
    <2>4. PICK i \in DOMAIN es : NameOf(es, i) = p
      BY <2>2 DEF Has
    <2>5. Has(es, Front(p)) # {}
      BY <2>1, <2>3, <2>4, EntryFacts
    <2> QED BY <2>1, <2>3, <2>5 DEF q
  <1>5. \A m \in Nat : m \in Good
    <2> HIDE DEF Good
    <2> QED BY <1>3, <1>4, NatSetInduction
  <1>6. n - l \in Nat /\ n - (n - l) = l /\ l >= Cut + 1
    BY <1>2
  <1> QED BY <1>5, <1>6

(* The search for a directory goes down one name at a time: what is        *)
(* searched in the entry of one of its prefixes is the next.               *)
LEMMA SearchStep ==
  ASSUME Ground, NEW es, EntriesOf(es), info.recursive,
         NEW b \in Wanted, Len(b) > Cut + 1,
         NEW d, d = Front(b), Has(es, d) # {},
         NEW l \in Cut..(Len(d) - 1),
         NEW k, k = IF l = Cut THEN 0 ELSE Min(Has(es, SubSeq(d, 1, l)))
  PROVE  Searched(es, Loc(b), k) = Has(es, SubSeq(d, 1, l + 1))
  <1> DEFINE c == SubSeq(d, 1, l + 1)
             p == SubSeq(d, 1, l)
  <1>0. Setup /\ tree \in Trees /\ Distinguishable /\ \E S : es \in Seq(S)
    BY DEF Ground, Apart, EntriesOf
  <1>1. b \in Seq(Names) /\ b \in DOMAIN tree /\ Len(b) \in Nat /\ Cut \in Nat /\ b # <<>>
    BY WantedDepth
  <1>2. /\ d \in Seq(Names) /\ Len(d) = Len(b) - 1 /\ d = SubSeq(b, 1, Len(b) - 1)
        /\ Dir(Loc(b)) = Loc(d)
    <2>1. Front(b) \in Seq(Names) /\ Len(Front(b)) = Len(b) - 1 /\ Front(b) = SubSeq(b, 1, Len(b) - 1)
      BY <1>1, FrontLast
    <2>2. Dir(Loc(b)) = Loc(Front(b))
      BY <1>0, <1>1, LocParent
    <2> QED BY <2>1, <2>2
  <1>3. l \in 0..Len(d) /\ l + 1 \in 0..Len(d) /\ l + 1 > 0 /\ (l + 1) - 1 = l /\ Len(d) \in Nat
    BY <1>1, <1>2
  <1>4. /\ p \in Seq(Names) /\ Len(p) = l
        /\ c \in Seq(Names) /\ Len(c) = l + 1 /\ Front(c) = p /\ Last(c) = d[l + 1]
    <2> DEFINE j == l + 1
    <2>1. j \in 0..Len(d) /\ l \in 0..Len(d) /\ j > 0 /\ j - 1 = l /\ d \in Seq(Names)
      BY <1>2, <1>3
    <2> HIDE DEF j
    <2>2. /\ SubSeq(d, 1, j) \in Seq(Names) /\ Len(SubSeq(d, 1, j)) = j
          /\ Front(SubSeq(d, 1, j)) = SubSeq(d, 1, j - 1) /\ Last(SubSeq(d, 1, j)) = d[j]
      BY <2>1, Prefix
    <2>3. SubSeq(d, 1, l) \in Seq(Names) /\ Len(SubSeq(d, 1, l)) = l
      BY <2>1, Prefix
    <2> QED BY <2>1, <2>2, <2>3 DEF j
  <1>5. c = SubSeq(b, 1, l + 1)
    <2> DEFINE x == SubSeq(b, 1, l + 1)
               n == Len(b) - 1
    <2>0. n \in 0..Len(b) /\ l + 1 \in 0..Len(b)
      BY <1>1, <1>2, <1>3
    <2>1. x \in Seq(Names) /\ Len(x) = l + 1 /\ \A i \in 1..(l + 1) : x[i] = b[i]
      BY <1>1, <2>0, Prefix
    <2>2. \A i \in 1..n : d[i] = b[i]
      BY <1>1, <1>2, <2>0, Prefix
    <2>3. \A i \in 1..(l + 1) : c[i] = d[i]
      BY <1>2, <1>3, Prefix
    <2> HIDE DEF x, c
    <2>4. \A i \in 1..(l + 1) : c[i] = x[i]
      BY <1>1, <1>2, <1>3, <2>1, <2>2, <2>3
    <2>5. c = x
      BY <1>4, <2>1, <2>4, SameNames
    <2> QED BY <2>5 DEF x
  <1>6. c \in DOMAIN tree /\ tree[c].dir /\ c # <<>>
    <2>1. l + 1 \in 0..Len(b) /\ l + 1 < Len(b)
      BY <1>1, <1>2, <1>3
    <2>2. c \in DOMAIN tree /\ tree[c].dir
      BY <1>0, <1>1, <1>5, <2>1, TreePrefix
    <2> HIDE DEF c
    <2> QED BY <1>3, <1>4, <2>2
  <1> HIDE DEF c, p
  <1>7. l = Cut => k = 0
    OBVIOUS
  <1>8. ASSUME l # Cut PROVE k = Min(Has(es, p)) /\ k # 0 /\ NameOf(es, k) = p
    <2>1. l \in (Cut + 1)..Len(d)
      BY <1>1, <1>3, <1>8
    <2>2. Has(es, p) # {}
      BY <2>1, HasPrefixes DEF p
    <2>3. k = Min(Has(es, p))
      BY <1>8 DEF p
    <2> QED BY <1>0, <2>2, <2>3, FirstHas
  <1>9. ASSUME NEW i \in Has(es, c) PROVE i \in Searched(es, Loc(b), k)
    <2>1. i \in DOMAIN es /\ NameOf(es, i) = c
      BY DEF Has
    <2>2. /\ es[i].loc = Loc(c) /\ es[i].dir
          /\ es[i].parent = 0 <=> Len(c) <= Cut + 1
          /\ Len(c) > Cut + 1 => es[i].parent = Min(Has(es, Front(c)))
      BY <1>6, <2>1, EntryFacts
    <2>3. es[i].parent = k
      <3>1. CASE l = Cut
        BY <1>1, <1>4, <1>7, <2>2, <3>1
      <3>2. CASE l # Cut
        <4>1. Len(c) > Cut + 1
          BY <1>1, <1>3, <1>4, <3>2
        <4> QED BY <1>4, <1>8, <2>2, <3>2, <4>1
      <3> QED BY <3>1, <3>2
    <2>4. StringPrefix(Loc(c), Loc(d))
      <3>1. Len(c) <= Len(d) /\ Front(c) = SubSeq(d, 1, Len(c) - 1) /\ Last(c) = d[Len(c)]
        BY <1>3, <1>4 DEF p
      <3> QED BY <1>0, <1>2, <1>4, <1>6, <3>1, LocPrefix
    <2> QED BY <1>2, <2>1, <2>2, <2>3, <2>4 DEF Searched
  <1>10. ASSUME NEW i \in Searched(es, Loc(b), k) PROVE i \in Has(es, c)
    <2> DEFINE a == NameOf(es, i)
    <2>1. /\ i \in DOMAIN es /\ es[i].parent = k /\ es[i].dir
          /\ es[i].loc = Loc(d) \/ StringPrefix(es[i].loc, Loc(d))
      BY <1>2 DEF Searched
    <2>2. /\ a \in DOMAIN tree /\ a \in Seq(Names) /\ es[i].loc = Loc(a) /\ tree[a].dir /\ a # <<>>
          /\ Len(a) > Cut
          /\ es[i].parent = 0 <=> Len(a) <= Cut + 1
          /\ Len(a) > Cut + 1 => NameOf(es, es[i].parent) = Front(a)
      BY <2>1, EntryFacts
    <2> HIDE DEF a
    <2>0. Len(a) \in Nat /\ Len(Front(a)) = Len(a) - 1 /\ a = Append(Front(a), Last(a)) /\ Last(a) \in Names
      BY <2>2, FrontLast
    <2>3. Len(a) = l + 1
      <3>1. CASE l = Cut
        BY <1>1, <1>7, <2>0, <2>1, <2>2, <3>1
      <3>2. CASE l # Cut
        <4>1. Front(a) = p
          BY <1>1, <1>8, <2>0, <2>1, <2>2, <3>2
        <4> QED BY <1>3, <1>4, <2>0, <4>1
      <3> QED BY <3>1, <3>2
    <2>4. CASE es[i].loc = Loc(d)
      <3>1. a = d
        BY <1>0, <1>2, <2>2, <2>4, LocSame
      <3>2. c = d
        BY <1>2, <1>3, <2>3, <3>1, Prefix DEF c
      <3> QED BY <2>1, <3>1, <3>2 DEF Has, a
    <2>5. CASE StringPrefix(es[i].loc, Loc(d))
      <3>1. /\ Front(a) = SubSeq(d, 1, Len(a) - 1)
            /\ Last(a) = d[Len(a)] \/ <<Last(a), d[Len(a)]>> \in StartsWith
        <4>1. StringPrefix(Loc(a), Loc(d))
          BY <2>2, <2>5
        <4> QED BY <1>0, <1>2, <2>2, <4>1, LocPrefix
      <3>2. Front(a) = Front(c) /\ d[Len(a)] = Last(c)
        BY <1>3, <1>4, <2>3, <3>1 DEF p
      <3>3. <<Last(a), Last(c)>> \notin StartsWith
        BY <1>0, <1>6, <2>2, <3>2 DEF Distinguishable
      <3>4. Last(a) = Last(c)
        BY <3>1, <3>2, <3>3
      <3>5. c = Append(Front(c), Last(c))
        BY <1>4, <1>6, FrontLast
      <3>6. a = c
        BY <2>0, <3>2, <3>4, <3>5
      <3> QED BY <2>1, <3>6 DEF Has, a
    <2> QED BY <2>1, <2>4, <2>5
  <1> QED BY <1>9, <1>10 DEF c

(* So an entry gets into the first entry of its directory, and what the    *)
(* command asks for by itself into the root.                               *)
LEMMA PlaceCanonical ==
  ASSUME Ground, NEW es, EntriesOf(es),
         \A i \in DOMAIN es : es[i].parent \in Nat /\ es[i].parent < i,
         NEW b \in Wanted, info.recursive => b # <<>>,
         Len(b) > Cut + 1 => Has(es, Front(b)) # {}
  PROVE  Place(es, Loc(b)) = Parent(es, b)
  <1> DEFINE d == Front(b)
             n == Len(es)
             Under(k) == Searched(es, Loc(b), k)
             K(l) == IF l = Cut THEN 0 ELSE Min(Has(es, SubSeq(d, 1, l)))
  <1>0. Setup /\ tree \in Trees /\ \E S : es \in Seq(S)
    BY DEF Ground, EntriesOf
  <1>1. /\ b \in Seq(Names) /\ b \in DOMAIN tree /\ Len(b) \in Nat /\ Cut \in Nat
        /\ (~ info.recursive => Len(b) <= Cut + 1) /\ (Len(b) > Cut + 1 => b # <<>>)
    BY WantedDepth
  <1>2. ASSUME b # <<>>
        PROVE  d \in Seq(Names) /\ Len(d) = Len(b) - 1 /\ Dir(Loc(b)) = Loc(d)
    <2>1. d \in Seq(Names) /\ Len(d) = Len(b) - 1
      BY <1>1, <1>2, FrontLast
    <2> QED BY <1>0, <1>1, <1>2, <2>1, LocParent
  <1> HIDE DEF d
  <1>3. n \in Nat /\ DOMAIN es = 1..n
    BY <1>0
  <1>4. PICK P : /\ Place(es, Loc(b)) = P[0]
                 /\ \A k \in 0..n :
                       P[k] = IF Under(k) = {} THEN k
                              ELSE LET i == Min(Under(k)) IN IF es[i].loc = Dir(Loc(b)) THEN i ELSE P[i]
    BY <1>0, PlaceSteps
  <1>5. CASE Len(b) <= Cut + 1
    <2>1. ASSUME NEW i \in Under(0) PROVE FALSE
      <3> DEFINE a == NameOf(es, i)
      <3>1. /\ i \in DOMAIN es /\ es[i].parent = 0 /\ es[i].dir
            /\ es[i].loc = Dir(Loc(b)) \/ StringPrefix(es[i].loc, Dir(Loc(b)))
        BY DEF Searched
      <3>2. /\ a \in Seq(Names) /\ es[i].loc = Loc(a) /\ info.recursive /\ a # <<>> /\ Len(a) > Cut
        BY <3>1, EntryFacts
      <3> HIDE DEF a
      <3>3. Len(a) > Len(d) /\ Dir(Loc(b)) = Loc(d) /\ d \in Seq(Names)
        BY <1>1, <1>2, <1>5, <3>2
      <3>4. CASE Loc(a) = Loc(d)
        <4>1. a = d
          BY <1>0, <3>2, <3>3, <3>4, LocSame
        <4> QED BY <3>2, <3>3, <4>1
      <3>5. CASE StringPrefix(Loc(a), Loc(d))
        <4>1. Len(a) <= Len(d)
          BY <1>0, <3>2, <3>3, <3>5, LocPrefix
        <4> QED BY <3>2, <3>3, <4>1
      <3> QED BY <3>1, <3>2, <3>3, <3>4, <3>5
    <2>2. Under(0) = {}
      BY <2>1
    <2>3. 0 \in 0..n /\ Parent(es, b) = 0
      BY <1>1, <1>3, <1>5 DEF Parent
    <2> HIDE DEF Under, n
    <2>4. P[0] = 0
      BY <1>4, <2>2, <2>3
    <2> QED BY <1>4, <2>3, <2>4
  <1>6. CASE Len(b) > Cut + 1
    <2>1. /\ info.recursive /\ b # <<>> /\ d \in Seq(Names) /\ Len(d) = Len(b) - 1
          /\ Dir(Loc(b)) = Loc(d) /\ Has(es, d) # {} /\ Len(d) \in Nat
      BY <1>1, <1>2, <1>6 DEF d
    <2> DEFINE t == Min(Has(es, d))
               Good == {m \in Nat : \A l \in Cut..(Len(d) - 1) : (Len(d) - 1) - m <= l => P[K(l)] = t}
    <2>2. ASSUME NEW l \in Cut..(Len(d) - 1)
          PROVE  LET c == SubSeq(d, 1, l + 1)
                     i == Min(Has(es, c))
                 IN  /\ P[K(l)] = IF es[i].loc = Loc(d) THEN i ELSE P[i]
                     /\ es[i].loc = Loc(c) /\ c \in Seq(Names) /\ Len(c) = l + 1
                     /\ l + 1 = Len(d) => c = d
                     /\ l + 1 # Len(d) => K(l + 1) = i
      <3> DEFINE c == SubSeq(d, 1, l + 1)
                 i == Min(Has(es, c))
                 k == K(l)
      <3>1. l + 1 \in (Cut + 1)..Len(d) /\ l + 1 \in 0..Len(d)
        BY <1>1, <2>1
      <3>2. Has(es, c) # {}
        BY <2>1, <3>1, HasPrefixes
      <3>3. i \in DOMAIN es /\ NameOf(es, i) = c
        BY <1>0, <3>2, FirstHas
      <3>4. es[i].loc = Loc(c)
        <4> HIDE DEF i
        <4>1. es[i].loc = Loc(NameOf(es, i))
          BY <3>3, EntryFacts
        <4> QED BY <3>3, <4>1
      <3>5. c \in Seq(Names) /\ Len(c) = l + 1 /\ (l + 1 = Len(d) => c = d)
        BY <2>1, <3>1, Prefix
      <3>6. Under(k) = Has(es, c)
        <4>1. k = IF l = Cut THEN 0 ELSE Min(Has(es, SubSeq(d, 1, l)))
          OBVIOUS
        <4> HIDE DEF k
        <4> QED BY <1>6, <2>1, <4>1, SearchStep DEF d
      <3>7. k \in 0..n
        <4>1. CASE l = Cut
          BY <1>3, <4>1
        <4>2. CASE l # Cut
          <5> DEFINE q == SubSeq(d, 1, l)
          <5>1. l \in (Cut + 1)..Len(d)
            BY <1>1, <2>1, <4>2
          <5>2. Has(es, q) # {}
            BY <2>1, <5>1, HasPrefixes
          <5> HIDE DEF q
          <5>3. Min(Has(es, q)) \in DOMAIN es
            BY <1>0, <5>2, FirstHas
          <5>4. k = Min(Has(es, q))
            BY <4>2 DEF q
          <5> QED BY <1>3, <5>3, <5>4
        <4> QED BY <4>1, <4>2
      <3>8. l + 1 # Cut
        BY <1>1
      <3>9. K(l + 1) = i
        BY <3>8
      <3> HIDE DEF k, Under, i, c
      <3>10. P[k] = IF es[i].loc = Loc(d) THEN i ELSE P[i]
        BY <1>4, <2>1, <3>2, <3>6, <3>7 DEF i
      <3> HIDE DEF K
      <3> QED BY <3>4, <3>5, <3>9, <3>10 DEF k, i, c
    <2> HIDE DEF K
    <2>3. 0 \in Good
      <3> SUFFICES ASSUME NEW l \in Cut..(Len(d) - 1), (Len(d) - 1) - 0 <= l PROVE P[K(l)] = t
        OBVIOUS
      <3>1. l + 1 = Len(d)
        BY <1>1, <2>1
      <3> HIDE DEF Under
      <3> QED BY <2>2, <3>1
    <2>4. ASSUME NEW m \in Nat, m \in Good PROVE m + 1 \in Good
      <3> SUFFICES ASSUME NEW l \in Cut..(Len(d) - 1), (Len(d) - 1) - (m + 1) <= l PROVE P[K(l)] = t
        OBVIOUS
      <3> DEFINE c == SubSeq(d, 1, l + 1)
                 i == Min(Has(es, c))
      <3>1. /\ P[K(l)] = IF es[i].loc = Loc(d) THEN i ELSE P[i]
            /\ es[i].loc = Loc(c) /\ c \in Seq(Names) /\ Len(c) = l + 1
            /\ l + 1 = Len(d) => c = d
            /\ l + 1 # Len(d) => K(l + 1) = i
        BY <2>2
      <3>2. CASE l + 1 = Len(d)
        BY <3>1, <3>2
      <3>3. CASE l + 1 # Len(d)
        <4>1. l + 1 \in Cut..(Len(d) - 1) /\ (Len(d) - 1) - m <= l + 1
          BY <1>1, <2>1, <3>3
        <4>2. P[K(l + 1)] = t
          BY <2>4, <4>1
        <4>3. es[i].loc # Loc(d)
          <5> HIDE DEF c, i
          <5> QED BY <1>0, <2>1, <3>1, <3>3, LocSame
        <4> HIDE DEF c, i, t
        <4> QED BY <3>1, <3>3, <4>2, <4>3
      <3> QED BY <3>2, <3>3
    <2>5. P[K(Cut)] = t
      <3>1. Nat \subseteq Good
        <4> HIDE DEF Good
        <4> QED BY <2>3, <2>4, NatSetInduction
      <3> DEFINE m == (Len(d) - 1) - Cut
      <3>2. m \in Nat /\ Cut \in Cut..(Len(d) - 1) /\ (Len(d) - 1) - m <= Cut
        BY <1>1, <1>6, <2>1
      <3>3. m \in Good
        BY <3>1, <3>2
      <3> HIDE DEF m, t
      <3> QED BY <3>2, <3>3
    <2>6. K(Cut) = 0
      BY DEF K
    <2> QED BY <1>4, <1>6, <2>5, <2>6 DEF Parent, d
  <1> QED BY <1>1, <1>5, <1>6
-----------------------------------------------------------------------------
(* The places of the calls *)

(* Names of files are clean as they are. *)
LEMMA NamesNormal ==
  ASSUME NEW abs \in BOOLEAN, NEW b \in Seq(Names)
  PROVE  /\ Normal(abs, b) /\ b \in Seq(Strings) /\ Path(abs, b) \in Paths(Strings)
         /\ Clean(Path(abs, b)) = Path(abs, b)
         /\ Path(abs, b).abs = abs /\ Path(abs, b).names = b
  <1>1. b \in Seq(Strings)
    BY NamesPlain, LargerSeq
  <1>2. \A i \in DOMAIN b : Plain(b[i])
    BY NamesPlain
  <1>3. Normal(abs, b)
    BY <1>2 DEF Normal, Plain
  <1>4. Clean(Path(abs, b)) = Path(abs, b)
    BY <1>1, <1>3, CleanKeepsNormal
  <1> QED BY <1>1, <1>3, <1>4 DEF Path, Paths

(* Under the file system handler a location is the path of its names. *)
LEMMA LocPlain ==
  ASSUME Setup, handler # "dir", NEW b \in Seq(Names)
  PROVE  Loc(b) = Path(FALSE, b) /\ Below(Loc(b)) = b
  <1>1. root.abs = FALSE /\ root.names = <<>>
    BY DEF Setup, Path
  <1>2. <<>> \o b = b
    OBVIOUS
  <1> QED BY <1>1, <1>2, LocBelow DEF Loc

(* The relative path of a match leads back to its location, *)
LEMMA ResolvedLoc ==
  ASSUME Ground, NEW b \in Seq(Names), Resolve(Path(FALSE, b)).ok
  PROVE  Resolve(Path(FALSE, b)).loc = Loc(b)
  <1> DEFINE p == Path(FALSE, b)
  <1>0. Setup /\ (handler = "dir" => root.abs)
    BY DEF Ground, Apart
  <1>1. p \in Paths(Strings) /\ Clean(p) = p /\ p.abs = FALSE /\ p.names = b
    BY NamesNormal
  <1>2. CASE handler # "dir"
    BY <1>0, <1>1, <1>2, LocPlain DEF Resolve
  <1>3. CASE handler = "dir"
    <2>1. Safe(p) = Path(TRUE, b) /\ Path(TRUE, b).names = b
      BY <1>1, NamesNormal DEF Safe
    <2>2. root \in Paths(Strings) /\ Normal(root.abs, root.names)
      BY <1>0 DEF Setup
    <2> HIDE DEF p
    <2>3. Join(root, Safe(p)) = Path(root.abs, root.names \o Safe(p).names)
      BY <1>1, <2>2, JoinSafe
    <2>4. ~ AtOrBelow(root, Clean(p))
      BY <1>0, <1>1, <1>3, <2>2, BelowRoot
    <2>5. Prefixed(root, p).ok
      BY <1>3 DEF Resolve, p
    <2>6. Prefixed(root, p).loc = Join(root, Safe(p))
      BY <2>4, <2>5 DEF Prefixed, Refused
    <2> QED BY <1>3, <2>1, <2>3, <2>6 DEF Resolve, Loc, p
  <1> QED BY <1>2, <1>3

(* and so does the location itself. *)
LEMMA LocatedLoc ==
  ASSUME Ground, handler = "dir", NEW b \in Seq(Names), Prefixed(root, Loc(b)).ok
  PROVE  Prefixed(root, Loc(b)).loc = Loc(b)
  <1> DEFINE l == Loc(b)
  <1>0. Setup /\ root.abs /\ root \in Paths(Strings) /\ Normal(root.abs, root.names)
    BY DEF Ground, Apart, Setup
  <1>1. /\ l \in Paths(Strings) /\ Longer(l) /\ Normal(l.abs, l.names) /\ l.abs = root.abs
        /\ l.names = root.names \o b
    BY <1>0, LocBelow
  <1>2. Clean(l) = l
    <2>1. l = Path(l.abs, l.names) /\ l.names \in Seq(Strings) /\ l.abs \in BOOLEAN
      BY <1>1 DEF Paths, Path
    <2> HIDE DEF l
    <2>2. Clean(Path(l.abs, l.names)) = Path(l.abs, l.names)
      BY <1>1, <2>1, CleanKeepsNormal
    <2> QED BY <2>1, <2>2
  <1> HIDE DEF l
  <1>3. CASE AtOrBelow(root, l)
    BY <1>2, <1>3 DEF Prefixed, l
  <1>4. CASE ~ AtOrBelow(root, l)
    <2>1. root.names = <<>>
      <3> SUFFICES ASSUME root.names # <<>> PROVE FALSE
        OBVIOUS
      <3>1. root.names \in Seq(Strings) /\ l.names \in Seq(Strings)
        BY <1>0, <1>1 DEF Paths
      <3>2. Len(root.names) = Len(l.names) => l.names = root.names
        BY <1>1, <3>1, SameNames DEF Longer
      <3>3. Len(root.names) \in Nat /\ Len(l.names) \in Nat /\ Len(root.names) <= Len(l.names)
        BY <1>1, <3>1 DEF Longer
      <3>5. \A i \in 1..Len(root.names) : l.names[i] = root.names[i]
        BY <1>1 DEF Longer
      <3>6. l.names = root.names \/ Len(root.names) < Len(l.names)
        BY <3>2, <3>3
      <3>4. AtOrBelow(root, l)
        BY <1>0, <1>1, <3>5, <3>6, BelowRoot
      <3> QED BY <1>4, <3>4
    <2>2. l.names = b /\ l = Path(TRUE, b)
      <3>1. <<>> \o b = b
        OBVIOUS
      <3> QED BY <1>0, <2>1, <3>1, <1>1 DEF Loc, l, Paths
    <2>3. Safe(l) = l
      BY <1>2, <2>2, NamesNormal DEF Safe
    <2>4. Join(root, Safe(l)) = Path(root.abs, root.names \o Safe(l).names)
      BY <1>0, <1>1, JoinSafe
    <2>5. Join(root, Safe(l)) = l
      BY <2>2, <2>3, <2>4 DEF Loc, l
    <2> QED BY <1>2, <1>4, <2>5 DEF Prefixed, Refused, l
  <1> QED BY <1>3, <1>4 DEF l

(* What there is begins with the root. *)
LEMMA ExistsLonger ==
  ASSUME root \in Paths(Strings), NEW p \in Paths(Strings), Exists(p)
  PROVE  Longer(p)
  <1>1. p.abs = root.abs /\ IsPrefix(root.names, p.names)
    BY DEF Exists, Inside
  <1>2. root.names \in Seq(Strings) /\ p.names \in Seq(Strings)
    BY DEF Paths
  <1> DEFINE r == root.names
             s == p.names
  <1> HIDE DEF r, s
  <1>3. Len(r) <= Len(s) /\ SubSeq(s, 1, Len(r)) = r
    BY <1>1, <1>2, PrefixOf DEF r, s
  <1>4. Len(r) \in 0..Len(s)
    BY <1>2, <1>3 DEF r, s
  <1>5. \A i \in 1..Len(r) : SubSeq(s, 1, Len(r))[i] = s[i]
    BY <1>2, <1>4, Prefix DEF s
  <1> QED BY <1>1, <1>3, <1>5 DEF Longer, r, s

(* The matches are locations of files that were asked for, and become      *)
(* their relative paths.                                                   *)
LEMMA MatchNamed ==
  ASSUME Ground, handler = "dir" => ~ Wild(root),
         info.path \in Paths(Strings), Resolve(info.path).ok,
         NEW all, all = Kept(Matches(Resolve(info.path).loc)), all # <<>>
  PROVE  /\ {Below(m) : m \in Range(all)} = AskedFiles
         /\ \A m \in Range(all) : AsArgument(m) = Path(FALSE, Below(m))
  <1> DEFINE loc == Resolve(info.path).loc
  <1>0. Setup /\ TreeOK /\ tree \in Trees /\ root \in Paths(Strings)
    BY TreeFacts DEF Ground, Setup
  <1>1. {Below(m) : m \in Range(all)} = AskedFiles
    BY <1>0, FoundAsked
  <1>2. loc \in Paths(Strings)
    BY <1>0, AskedPlace
  <1> HIDE DEF loc
  <1>3. ASSUME NEW m \in Range(all) PROVE AsArgument(m) = Path(FALSE, Below(m))
    <2>1. CASE handler = "dir"
      BY <2>1 DEF AsArgument, Rel, Below
    <2>2. CASE handler # "dir"
      <3>1. Below(m) \in AskedFiles
        BY <1>1
      <3>2. Asked # <<>>
        BY <2>2 DEF Ground, Apart
      <3>3. Below(m) \in Seq(Names) /\ Below(m) # <<>>
        BY <3>1, <3>2, AskedDepth
      <3>4. m \in Range(Matches(loc))
        BY <1>2, <2>2, FoundPaths DEF loc
      <3>5. m \in Paths(Strings) /\ Longer(m)
        <4>1. CASE ~ Wild(loc)
          <5>1. Exists(loc) /\ m = loc
            BY <3>4, <4>1 DEF Matches, Range
          <5> QED BY <1>0, <1>2, <5>1, ExistsLonger
        <4>2. CASE Wild(loc)
          <5> DEFINE d == Path(loc.abs, Front(loc.names))
          <5>1. Exists(d) /\ m \in Range(Listing(d))
            BY <3>4, <4>2 DEF Matches, Range
          <5>2. d \in Paths(Strings)
            <6>1. loc.names \in Seq(Strings) /\ loc.names # <<>> /\ loc.abs \in BOOLEAN
              BY <1>2, <4>2 DEF Paths, Wild
            <6>2. Front(loc.names) \in Seq(Strings)
              BY <6>1, FrontLast
            <6> QED BY <6>1, <6>2 DEF Paths, Path
          <5> HIDE DEF d
          <5>3. PICK n \in Names : m = Path(d.abs, Append(d.names, n))
            BY <5>1, <5>2, ListingPaths
          <5>4. Longer(d)
            BY <1>0, <5>1, <5>2, ExistsLonger
          <5>5. n \in Strings
            BY NamesPlain
          <5> QED BY <1>0, <5>2, <5>3, <5>4, <5>5, BelowAppended
        <4> QED BY <4>1, <4>2
      <3>6. m = Loc(Below(m))
        BY <1>0, <3>3, <3>5, LocOf
      <3>7. m = Path(FALSE, Below(m))
        BY <1>0, <2>2, <3>3, <3>6, LocPlain
      <3>8. m.names # <<>>
        BY <3>3, <3>7 DEF Path
      <3> QED BY <2>2, <3>7, <3>8 DEF AsArgument
    <2> QED BY <2>1, <2>2
  <1> QED BY <1>1, <1>3
-----------------------------------------------------------------------------
(* The calls *)

(* The file that a call is about *)
Leads(q, b) == q.arg = IF q.call = "visit" THEN Loc(b) ELSE Path(FALSE, b)

CallOf(es, q) ==
    \E b \in Wanted : /\ Leads(q, b)
                      /\ info.recursive <=> q.call # "open"
                      /\ Len(b) > Cut + 1 => q.call = "visit" /\ Has(es, Front(b)) # {}

(* A file whose entry is still to come from a call *)
Ahead(q, f) == \E b \in Wanted : /\ Leads(q, b)
                                 /\ b = f \/ (info.recursive /\ IsPrefix(b, f))

(* Every file that is wanted has an entry or a call that leads to it. *)
Gathered(es, Q) ==
    /\ EntriesOf(es)
    /\ \A q \in Q : CallOf(es, q)
    /\ \A f \in Wanted \ {<<>>} : Has(es, f) # {} \/ \E q \in Q : Ahead(q, f)

(* One call is about one file. *)
LEMMA LeadsOne ==
  ASSUME Ground, NEW q, NEW a \in Wanted, NEW b \in Wanted, Leads(q, a), Leads(q, b)
  PROVE  a = b
  <1>1. a \in Seq(Names) /\ b \in Seq(Names) /\ Setup
    BY WantedDepth DEF Ground
  <1>2. CASE q.call = "visit"
    BY <1>1, <1>2, LocSame DEF Leads
  <1>3. CASE q.call # "visit"
    <2>1. Path(FALSE, a) = Path(FALSE, b)
      BY <1>3 DEF Leads
    <2>2. Path(FALSE, a).names = a /\ Path(FALSE, b).names = b
      BY DEF Path
    <2> QED BY <2>1, <2>2
  <1> QED BY <1>2, <1>3

(* The first of some entries stays the first when one is appended. *)
LEMMA FirstKept ==
  ASSUME NEW S, NEW es \in Seq(S), NEW e, NEW f, Has(es, f) # {}
  PROVE  /\ Has(Append(es, e), f) # {}
         /\ Min(Has(Append(es, e), f)) = Min(Has(es, f))
  <1> DEFINE n == Len(es)
             t == Append(es, e)
             m == Min(Has(es, f))
             k == Min(Has(t, f))
  <1>0. es \in Seq(S \cup {e})
    BY LargerSeq
  <1>1. /\ n \in Nat /\ DOMAIN es = 1..n /\ t \in Seq(S \cup {e}) /\ DOMAIN t = 1..(n + 1)
        /\ \A i \in 1..n : t[i] = es[i]
    BY <1>0
  <1>2. m \in Has(es, f) /\ m \in 1..n /\ \A j \in Has(es, f) : m <= j
    BY <1>1, FirstHas
  <1> HIDE DEF m, t
  <1>3. \A i \in 1..n : i \in Has(es, f) <=> i \in Has(t, f)
    BY <1>1 DEF Has, NameOf
  <1>4. Has(t, f) # {}
    BY <1>2, <1>3
  <1>5. k \in Has(t, f) /\ k \in 1..(n + 1) /\ \A j \in Has(t, f) : k <= j
    BY <1>1, <1>4, FirstHas
  <1> HIDE DEF k
  <1>6. k <= m
    BY <1>2, <1>3, <1>5
  <1>7. k \in 1..n
    BY <1>1, <1>2, <1>5, <1>6
  <1>8. m <= k
    BY <1>2, <1>3, <1>5, <1>7
  <1>9. k = m
    BY <1>1, <1>2, <1>6, <1>7, <1>8
  <1> QED BY <1>4, <1>9 DEF k, m, t

(* A new entry is one of a file in its directory, and the others are what  *)
(* they were.                                                              *)
LEMMA EntryGathered ==
  ASSUME Ground, Placed, EntriesOf(entries), NEW b \in Wanted, info.recursive => b # <<>>,
         Len(b) > Cut + 1 => Has(entries, Front(b)) # {},
         NEW asDir \in BOOLEAN, asDir <=> info.recursive /\ tree[b].dir,
         NEW es, es = Append(entries, NewEntry(Loc(b), asDir))
  PROVE  /\ EntriesOf(es) /\ Has(es, b) # {}
         /\ \A f : Has(entries, f) # {} => Has(es, f) # {}
  <1> DEFINE e == NewEntry(Loc(b), asDir)
             n == Len(entries)
  <1>0. Setup /\ tree \in Trees
    BY DEF Ground
  <1>1. PICK S : entries \in Seq(S)
    BY DEF Placed
  <1>2. b \in Seq(Names) /\ Below(Loc(b)) = b
    BY <1>0, WantedDepth, LocBelow
  <1>3. /\ e.loc = Loc(b) /\ e.dir = asDir /\ e.size = tree[b].size /\ e.time = tree[b].time
        /\ e.name = (IF Loc(b).names = <<>> THEN "." ELSE Last(Loc(b).names))
        /\ e.parent = Place(entries, Loc(b))
    BY <1>2 DEF NewEntry
  <1>4. e.parent = Parent(entries, b)
    BY <1>3, PlaceCanonical DEF Placed
  <1>5. b # <<>> => e.name = Last(b)
    BY <1>0, <1>2, <1>3, LocParent
  <1>6. \A f : Has(entries, f) # {} => Has(es, f) # {} /\ Min(Has(es, f)) = Min(Has(entries, f))
    BY <1>1, FirstKept
  <1>7. ASSUME NEW a, Len(a) > Cut + 1 => Has(entries, Front(a)) # {}
        PROVE  /\ Parent(es, a) = Parent(entries, a)
               /\ Len(a) > Cut + 1 => Has(es, Front(a)) # {}
    BY <1>6, <1>7 DEF Parent
  <1> HIDE DEF e
  <1>8. /\ n \in Nat /\ DOMAIN entries = 1..n /\ DOMAIN es = 1..(n + 1)
        /\ \A i \in 1..n : es[i] = entries[i]
        /\ es[n + 1] = e
    <2>1. entries \in Seq(S \cup {e})
      BY <1>1, LargerSeq
    <2> QED BY <2>1 DEF e
  <1>9. EntryOf(es, e)
    <2>1. Parent(es, b) = Parent(entries, b) /\ (Len(b) > Cut + 1 => Has(es, Front(b)) # {})
      BY <1>7
    <2> QED BY <1>2, <1>3, <1>4, <1>5, <2>1 DEF EntryOf
  <1>10. ASSUME NEW i \in 1..n PROVE EntryOf(es, es[i])
    <2> DEFINE x == entries[i]
               a == Below(x.loc)
    <2>1. EntryOf(entries, x)
      BY <1>8 DEF EntriesOf
    <2>2. Parent(es, a) = Parent(entries, a) /\ (Len(a) > Cut + 1 => Has(es, Front(a)) # {})
      BY <1>7, <2>1 DEF EntryOf
    <2>3. EntryOf(es, x)
      BY <2>1, <2>2 DEF EntryOf
    <2> QED BY <1>8, <2>3
  <1>11. \A i \in DOMAIN es : EntryOf(es, es[i])
    BY <1>8, <1>9, <1>10
  <1>12. \E T : es \in Seq(T)
    <2>1. entries \in Seq(S \cup {e})
      BY <1>1, LargerSeq
    <2>2. Append(entries, e) \in Seq(S \cup {e})
      BY <2>1
    <2> QED BY <2>2 DEF e
  <1>13. n + 1 \in Has(es, b)
    BY <1>2, <1>3, <1>8 DEF Has, NameOf
  <1> QED BY <1>6, <1>11, <1>12, <1>13 DEF EntriesOf

(* A call is made: what it leads to has an entry or calls of its own. *)
LEMMA CallMade ==
  ASSUME NEW es, NEW Q, Gathered(es, Q), NEW q0 \in Q, NEW es1, NEW Q1,
         EntriesOf(es1), \A f : Has(es, f) # {} => Has(es1, f) # {},
         \A q \in Q : q = q0 \/ q \in Q1,
         \A q \in Q1 : q \in Q \/ CallOf(es1, q),
         \A f \in Wanted \ {<<>>} : Ahead(q0, f) => Has(es1, f) # {} \/ \E q \in Q1 : Ahead(q, f)
  PROVE  Gathered(es1, Q1)
  <1>1. ASSUME NEW q \in Q1 PROVE CallOf(es1, q)
    <2> SUFFICES ASSUME q \in Q PROVE CallOf(es1, q)
      OBVIOUS
    <2>1. CallOf(es, q)
      BY DEF Gathered
    <2> QED BY <2>1 DEF CallOf
  <1>2. ASSUME NEW f \in Wanted \ {<<>>} PROVE Has(es1, f) # {} \/ \E q \in Q1 : Ahead(q, f)
    BY DEF Gathered
  <1> QED BY <1>1, <1>2 DEF Gathered

(* The calls left, with those that one of them makes. *)
LEMMA QueueRange ==
  ASSUME NEW S, NEW s \in Seq(S), s # <<>>, NEW t \in Seq(S)
  PROVE  /\ Range(t \o Tail(s)) = Range(t) \cup Range(Tail(s))
         /\ Range(s) = {Head(s)} \cup Range(Tail(s))
  <1> DEFINE u == Tail(s)
  <1>1. /\ u \in Seq(S) /\ Len(s) \in Nat \ {0} /\ DOMAIN s = 1..Len(s)
        /\ DOMAIN u = 1..(Len(s) - 1) /\ Len(u) = Len(s) - 1 /\ Head(s) = s[1]
        /\ \A i \in 1..(Len(s) - 1) : u[i] = s[i + 1]
    OBVIOUS
  <1> HIDE DEF u
  <1>2. Range(s) = {Head(s)} \cup Range(u)
    <2>1. \A i \in DOMAIN s : s[i] \in {Head(s)} \cup Range(u)
      <3> TAKE i \in DOMAIN s
      <3>1. CASE i = 1
        BY <1>1, <3>1
      <3>2. CASE i # 1
        <4>1. i - 1 \in 1..(Len(s) - 1) /\ (i - 1) + 1 = i
          BY <1>1, <3>2
        <4>2. u[i - 1] = s[i] /\ i - 1 \in DOMAIN u
          BY <1>1, <4>1
        <4> QED BY <4>2 DEF Range
      <3> QED BY <3>1, <3>2
    <2>2. \A i \in DOMAIN u : u[i] \in Range(s)
      <3> TAKE i \in DOMAIN u
      <3>1. i + 1 \in DOMAIN s /\ u[i] = s[i + 1]
        BY <1>1
      <3> QED BY <3>1 DEF Range
    <2>3. Head(s) \in Range(s)
      BY <1>1 DEF Range
    <2> QED BY <2>1, <2>2, <2>3 DEF Range
  <1> DEFINE v == t \o u
  <1>3. /\ DOMAIN v = 1..(Len(t) + Len(u)) /\ Len(t) \in Nat /\ Len(u) \in Nat
        /\ DOMAIN t = 1..Len(t) /\ DOMAIN u = 1..Len(u)
        /\ \A i \in 1..Len(t) : v[i] = t[i]
        /\ \A i \in (Len(t) + 1)..(Len(t) + Len(u)) : v[i] = u[i - Len(t)]
    <2>1. /\ t \o u \in Seq(S) /\ DOMAIN (t \o u) = 1..(Len(t) + Len(u))
          /\ \A i \in 1..Len(t) : (t \o u)[i] = t[i]
          /\ \A i \in (Len(t) + 1)..(Len(t) + Len(u)) : (t \o u)[i] = u[i - Len(t)]
      <3>1. u \in Seq(S)
        BY <1>1
      <3> QED BY <3>1, ConcatNames
    <2>2. Len(t) \in Nat /\ DOMAIN t = 1..Len(t) /\ Len(u) \in Nat /\ DOMAIN u = 1..Len(u)
      BY <1>1
    <2> QED BY <2>1, <2>2
  <1> HIDE DEF v
  <1>4. \A i \in DOMAIN v : v[i] \in Range(t) \cup Range(u)
    <2> TAKE i \in DOMAIN v
    <2>1. CASE i \in 1..Len(t)
      BY <1>3, <2>1 DEF Range
    <2>2. CASE i \notin 1..Len(t)
      <3>1. i \in (Len(t) + 1)..(Len(t) + Len(u)) /\ i - Len(t) \in DOMAIN u
        BY <1>3, <2>2
      <3> QED BY <1>3, <3>1 DEF Range
    <2> QED BY <2>1, <2>2
  <1>5. \A i \in DOMAIN t : t[i] \in Range(v)
    <2> TAKE i \in DOMAIN t
    <2>1. i \in DOMAIN v /\ v[i] = t[i]
      BY <1>3
    <2> QED BY <2>1 DEF Range
  <1>6. \A i \in DOMAIN u : u[i] \in Range(v)
    <2> TAKE i \in DOMAIN u
    <2>1. Len(t) + i \in (Len(t) + 1)..(Len(t) + Len(u)) /\ (Len(t) + i) - Len(t) = i
      BY <1>3
    <2>2. Len(t) + i \in DOMAIN v /\ v[Len(t) + i] = u[i]
      BY <1>3, <2>1
    <2> QED BY <2>2 DEF Range
  <1>7. Range(v) = Range(t) \cup Range(u)
    BY <1>4, <1>5, <1>6 DEF Range
  <1> QED BY <1>2, <1>7 DEF u, v

(* The calls for what is in a directory lead to all that is below it. *)
LEMMA VisitsLead ==
  ASSUME Ground, info.recursive, NEW b \in Wanted
  PROVE  /\ \A q \in Range(Visits(Loc(b))) :
               q.call = "visit" /\ \E c \in Wanted : Leads(q, c) /\ c # <<>> /\ Front(c) = b
         /\ \A f \in Wanted : IsPrefix(b, f) /\ f # b =>
               \E q \in Range(Visits(Loc(b))) : Ahead(q, f)
  <1> DEFINE l == Loc(b)
             there == {n \in Names : Append(b, n) \in DOMAIN tree}
  <1>0. Setup /\ tree \in Trees
    BY DEF Ground
  <1>1. b \in Seq(Names) /\ b \in DOMAIN tree /\ Len(b) \in Nat
    BY WantedDepth
  <1>2. l \in Paths(Strings) /\ Below(l) = b
    BY <1>0, <1>1, LocBelow
  <1>3. /\ Listing(l) \in Seq(Paths(Strings))
        /\ Range(Listing(l)) = {Path(l.abs, Append(l.names, n)) : n \in there}
    BY <1>2, ListingPaths
  <1>4. \A n \in Names : Path(l.abs, Append(l.names, n)) = Loc(Append(b, n))
    BY <1>0, <1>1, LocAppend
  <1> HIDE DEF l, there
  <1>5. Range(Listing(l)) = {Loc(Append(b, n)) : n \in there}
    BY <1>3, <1>4 DEF there
  <1>6. Range(Visits(l)) = {[call |-> "visit", arg |-> a] : a \in Range(Listing(l))}
    BY DEF Visits, Range
  <1>7. ASSUME NEW c \in DOMAIN tree, IsPrefix(b, c) PROVE c \in Wanted
    <2>1. PICK m \in AskedFiles : b = m \/ IsPrefix(m, b)
      BY DEF Wanted
    <2>2. m \in Seq(Names) /\ c \in Seq(Names)
      BY <1>0, AskedDepth, TreeFacts
    <2>3. CASE b = m
      BY <1>7, <2>3 DEF Wanted
    <2>4. CASE IsPrefix(m, b)
      <3>1. /\ Len(m) <= Len(b) /\ SubSeq(b, 1, Len(m)) = m
            /\ Len(b) <= Len(c) /\ SubSeq(c, 1, Len(b)) = b
        BY <1>1, <1>7, <2>2, <2>4, PrefixOf
      <3> DEFINE k == Len(m)
                 x == SubSeq(c, 1, k)
      <3>2. k \in 0..Len(b) /\ k \in 0..Len(c) /\ Len(b) \in 0..Len(c)
        BY <1>1, <2>2, <3>1
      <3>3. x \in Seq(Names) /\ Len(x) = k /\ \A i \in 1..k : x[i] = c[i]
        BY <2>2, <3>2, Prefix
      <3>4. \A i \in 1..Len(b) : b[i] = c[i]
        BY <2>2, <3>1, <3>2, Prefix
      <3>5. \A i \in 1..k : m[i] = b[i]
        BY <1>1, <3>1, <3>2, Prefix
      <3> HIDE DEF x
      <3>6. \A i \in 1..k : x[i] = m[i]
        BY <3>2, <3>3, <3>4, <3>5
      <3> HIDE DEF k
      <3>7. x = m
        BY <2>2, <3>3, <3>6, SameNames DEF k
      <3>8. IsPrefix(m, c)
        BY <2>2, <3>2, <3>7, PrefixOf DEF x, k
      <3> QED BY <3>8 DEF Wanted
    <2> QED BY <2>1, <2>3, <2>4
  <1>8. ASSUME NEW n \in there
        PROVE  LET c == Append(b, n)
               IN  /\ c \in Wanted /\ c # <<>> /\ Front(c) = b /\ c \in Seq(Names)
    <2> DEFINE c == Append(b, n)
    <2>1. n \in Names /\ c \in DOMAIN tree
      BY DEF there
    <2>2. c \in Seq(Names) /\ c # <<>> /\ Front(c) = b
      BY <1>1, <2>1, FrontOfAppend
    <2>3. IsPrefix(b, c)
      <3>1. Len(c) = Len(b) + 1 /\ Front(c) = SubSeq(c, 1, Len(c) - 1)
        <4>1. Len(c) = Len(b) + 1
          BY <1>1, <2>1
        <4> HIDE DEF c
        <4> QED BY <2>2, <4>1, FrontLast
      <3>2. Len(b) <= Len(c) /\ SubSeq(c, 1, Len(b)) = b
        BY <1>1, <2>2, <3>1
      <3> HIDE DEF c
      <3> QED BY <1>1, <2>2, <3>2, PrefixOf
    <2>4. c \in Wanted
      BY <1>7, <2>1, <2>3
    <2> QED BY <2>2, <2>4
  <1>9. ASSUME NEW q \in Range(Visits(l))
        PROVE  q.call = "visit" /\ \E c \in Wanted : Leads(q, c) /\ c # <<>> /\ Front(c) = b
    <2>1. PICK n \in there : q = [call |-> "visit", arg |-> Loc(Append(b, n))]
      BY <1>5, <1>6
    <2>2. q.call = "visit" /\ Leads(q, Append(b, n))
      BY <2>1 DEF Leads
    <2> QED BY <1>8, <2>2
  <1>10. ASSUME NEW f \in Wanted, IsPrefix(b, f), f # b
         PROVE  \E q \in Range(Visits(l)) : Ahead(q, f)
    <2>1. f \in DOMAIN tree /\ f \in Seq(Names)
      BY WantedDepth
    <2>2. Len(b) <= Len(f) /\ SubSeq(f, 1, Len(b)) = b /\ Len(f) \in Nat
      BY <1>1, <1>10, <2>1, PrefixOf
    <2>3. Len(b) < Len(f)
      <3>1. ASSUME Len(b) = Len(f) PROVE b = f
        <4>1. Len(b) \in 0..Len(f)
          BY <1>1, <2>2
        <4> QED BY <2>1, <2>2, <3>1, <4>1, Prefix
      <3> QED BY <1>1, <1>10, <2>2, <3>1
    <2> DEFINE k == Len(b) + 1
               c == SubSeq(f, 1, k)
    <2>4. k \in 0..Len(f) /\ k > 0 /\ k - 1 = Len(b)
      BY <1>1, <2>2, <2>3
    <2> HIDE DEF k
    <2>5. c \in DOMAIN tree /\ c = Append(b, f[k]) /\ f[k] \in Names /\ c \in Seq(Names) /\ Len(c) = k
      <3>1. c \in DOMAIN tree
        BY <1>0, <2>1, <2>4, TreePrefix
      <3>2. c = Append(SubSeq(f, 1, k - 1), f[k]) /\ c \in Seq(Names) /\ Len(c) = k
        BY <2>1, <2>4, Prefix
      <3>3. f[k] \in Names
        BY <2>1, <2>4
      <3> QED BY <2>2, <2>4, <3>1, <3>2, <3>3
    <2>6. f[k] \in there
      BY <2>5 DEF there
    <2>7. c \in Wanted
      BY <1>8, <2>5, <2>6
    <2>8. IsPrefix(c, f)
      <3>1. Len(c) <= Len(f) /\ SubSeq(f, 1, Len(c)) = c
        BY <2>4, <2>5
      <3> HIDE DEF c
      <3> QED BY <2>1, <2>5, <3>1, PrefixOf
    <2> DEFINE q == [call |-> "visit", arg |-> Loc(c)]
    <2>9. q \in Range(Visits(l))
      BY <1>5, <1>6, <2>5, <2>6
    <2>10. Leads(q, c)
      BY DEF Leads
    <2> HIDE DEF q, c
    <2>11. Ahead(q, f)
      BY <2>7, <2>8, <2>10 DEF Ahead
    <2> QED BY <2>9, <2>11
  <1> QED BY <1>9, <1>10 DEF l

(* The calls before the first entry are for what was asked for. *)
LEMMA GlobGathers ==
  ASSUME FoundInv, Ground, Glob, phase' = "entries"
  PROVE  Gathered(entries', Range(todo'))
  <1> DEFINE to  == Resolve(info.path)
             all == Kept(Matches(to.loc))
             call == IF info.recursive THEN "walk" ELSE "open"
  <1>0. SourceInv /\ Setup /\ tree \in Trees /\ (handler = "dir" => ~ Wild(root))
    BY DEF FoundInv, SourceInv, Ground
  <1>1. info.path \in Paths(Strings)
    BY <1>0, InfoPath DEF Glob, SourceInv, Setup, Control
  <1>2. to.ok /\ all # <<>>
    BY DEF Glob
  <1>3. todo' = [i \in DOMAIN all |-> [call |-> call, arg |-> AsArgument(all[i])]]
    BY <1>2 DEF Glob
  <1>4. entries' = <<>> /\ DOMAIN <<>> = {}
    BY <1>0 DEF Glob, SourceInv, Closing
  <1>5. /\ {Below(m) : m \in Range(all)} = AskedFiles
        /\ \A m \in Range(all) : AsArgument(m) = Path(FALSE, Below(m))
    BY <1>0, <1>1, <1>2, MatchNamed
  <1>6. call \in {"walk", "open"} /\ (info.recursive <=> call # "open")
    OBVIOUS
  <1> HIDE DEF to, all, call
  <1>7. Range(todo') = {[call |-> call, arg |-> Path(FALSE, Below(m))] : m \in Range(all)}
    BY <1>3, <1>5 DEF Range
  <1>8. EntriesOf(<<>>)
    <2>1. <<>> \in Seq({})
      OBVIOUS
    <2> QED BY <1>4, <2>1 DEF EntriesOf
  <1>9. ASSUME NEW b \in AskedFiles PROVE b \in Wanted /\ Len(b) <= Cut + 1 /\ Len(b) \in Nat /\ Cut \in Nat
    <2>1. b \in DOMAIN tree /\ Len(b) <= Cut + 1 /\ b \in Seq(Names) /\ Cut \in Nat
      BY AskedDepth
    <2>2. b \in Wanted
      BY <2>1 DEF Wanted
    <2> QED BY <2>1, <2>2
  <1>10. ASSUME NEW b \in AskedFiles
         PROVE  Leads([call |-> call, arg |-> Path(FALSE, b)], b)
    BY <1>6 DEF Leads
  <1>11. ASSUME NEW q \in Range(todo') PROVE CallOf(<<>>, q)
    <2>1. PICK b \in AskedFiles : q = [call |-> call, arg |-> Path(FALSE, b)]
      BY <1>5, <1>7
    <2>2. Leads(q, b) /\ q.call = call
      BY <1>10, <2>1
    <2>3. b \in Wanted /\ ~ Len(b) > Cut + 1
      BY <1>9
    <2> QED BY <1>6, <2>2, <2>3 DEF CallOf
  <1>12. ASSUME NEW f \in Wanted PROVE \E q \in Range(todo') : Ahead(q, f)
    <2>1. PICK m \in AskedFiles : f = m \/ (info.recursive /\ IsPrefix(m, f))
      BY DEF Wanted
    <2> DEFINE q == [call |-> call, arg |-> Path(FALSE, m)]
    <2>2. q \in Range(todo')
      BY <1>5, <1>7
    <2>3. Leads(q, m) /\ m \in Wanted
      BY <1>9, <1>10
    <2> HIDE DEF q
    <2>4. Ahead(q, f)
      BY <2>1, <2>3 DEF Ahead
    <2> QED BY <2>2, <2>4
  <1> QED BY <1>4, <1>8, <1>11, <1>12 DEF Gathered

(* The file of the next call *)
LEMMA NextFile ==
  ASSUME SourceInv, Ground, Gathered(entries, Range(todo)), todo # <<>>
  PROVE  /\ Head(todo) \in Range(todo) /\ todo \in Seq(CallSet)
         /\ \E b \in Wanted : /\ Leads(Head(todo), b) /\ b \in Seq(Names)
                              /\ info.recursive <=> Head(todo).call # "open"
                              /\ Len(b) > Cut + 1 => /\ Head(todo).call = "visit"
                                                     /\ Has(entries, Front(b)) # {}
  <1>1. todo \in Seq(CallSet) /\ Head(todo) \in Range(todo)
    <2>1. todo \in Seq(CallSet)
      BY DEF SourceInv, Control
    <2> QED BY <2>1, Queue
  <1>2. CallOf(entries, Head(todo))
    BY <1>1 DEF Gathered
  <1> QED BY <1>1, <1>2, WantedDepth DEF CallOf

(* An entry is added for the file of the next call. *)
LEMMA Collects ==
  ASSUME SourceInv, Ground, Gathered(entries, Range(todo)), todo # <<>>,
         NEW b \in Wanted, Leads(Head(todo), b), info.recursive => b # <<>>,
         Len(b) > Cut + 1 => Has(entries, Front(b)) # {},
         NEW asDir \in BOOLEAN, asDir <=> info.recursive /\ tree[b].dir,
         NEW new, new = IF asDir THEN Visits(Loc(b)) ELSE <<>>,
         entries' = Append(entries, NewEntry(Loc(b), asDir)), todo' = new \o Tail(todo)
  PROVE  Gathered(entries', Range(todo'))
  <1> DEFINE q0 == Head(todo)
             es == Append(entries, NewEntry(Loc(b), asDir))
             Q  == Range(todo)
             Q1 == Range(new \o Tail(todo))
  <1>0. Setup /\ tree \in Trees /\ Placed /\ EntriesOf(entries) /\ todo \in Seq(CallSet)
    BY DEF Ground, SourceInv, Control, Gathered
  <1>1. b \in Seq(Names) /\ b \in DOMAIN tree
    BY WantedDepth
  <1>2. new \in Seq(CallSet)
    <2>1. Loc(b) \in Paths(Strings)
      BY <1>0, <1>1, LocBelow
    <2>2. <<>> \in Seq(CallSet)
      OBVIOUS
    <2> QED BY <2>1, <2>2, VisitsTyped
  <1>3. Q1 = Range(new) \cup Range(Tail(todo)) /\ Q = {q0} \cup Range(Tail(todo))
    <2>0. new \in Seq(CallSet) /\ todo \in Seq(CallSet) /\ todo # <<>>
      BY <1>0, <1>2
    <2>3. \A t \in Seq(CallSet) : Range(t \o Tail(todo)) = Range(t) \cup Range(Tail(todo))
      BY <2>0, QueueRange
    <2>1. Range(new \o Tail(todo)) = Range(new) \cup Range(Tail(todo))
      BY <2>0, <2>3
    <2>2. Range(todo) = {Head(todo)} \cup Range(Tail(todo))
      BY <2>0, QueueRange, Zenon
    <2> QED BY <2>1, <2>2
  <1>4. EntriesOf(es) /\ Has(es, b) # {} /\ \A f : Has(entries, f) # {} => Has(es, f) # {}
    BY <1>0, EntryGathered
  <1> HIDE DEF es, Q, Q1, q0
  <1>5. ASSUME NEW q \in Range(new) PROVE CallOf(es, q)
    <2>1. asDir /\ new = Visits(Loc(b)) /\ info.recursive
      BY <1>5 DEF Range
    <2>2. q.call = "visit" /\ \E c \in Wanted : Leads(q, c) /\ c # <<>> /\ Front(c) = b
      BY <2>1, VisitsLead
    <2> QED BY <1>4, <2>1, <2>2 DEF CallOf
  <1>6. ASSUME NEW f \in Wanted, Ahead(q0, f)
        PROVE  Has(es, f) # {} \/ \E q \in Q1 : Ahead(q, f)
    <2>1. b = f \/ (info.recursive /\ IsPrefix(b, f))
      <3>1. PICK c \in Wanted : Leads(q0, c) /\ (c = f \/ (info.recursive /\ IsPrefix(c, f)))
        BY <1>6 DEF Ahead
      <3>2. c = b
        BY <3>1, LeadsOne DEF q0
      <3> QED BY <3>1, <3>2
    <2>2. CASE b = f
      BY <1>4, <2>2
    <2>3. CASE b # f
      <3>1. info.recursive /\ IsPrefix(b, f)
        BY <2>1, <2>3
      <3>2. asDir
        <4>1. f \in DOMAIN tree /\ f \in Seq(Names)
          BY WantedDepth
        <4>2. Len(b) <= Len(f) /\ SubSeq(f, 1, Len(b)) = b /\ Len(b) \in 0..Len(f)
          BY <1>1, <3>1, <4>1, PrefixOf
        <4>3. Len(b) = Len(f) => b = f
          BY <4>1, <4>2, Prefix
        <4>4. Len(b) < Len(f)
          BY <2>3, <4>2, <4>3
        <4>5. tree[SubSeq(f, 1, Len(b))].dir
          BY <1>0, <4>1, <4>2, <4>4, TreePrefix
        <4> QED BY <3>1, <4>2, <4>5
      <3>3. \E q \in Range(new) : Ahead(q, f)
        BY <2>3, <3>1, <3>2, VisitsLead
      <3> QED BY <1>3, <3>3
    <2> QED BY <2>2, <2>3
  <1>7. q0 \in Q /\ (\A q \in Q : q = q0 \/ q \in Q1) /\ \A q \in Q1 : q \in Q \/ CallOf(es, q)
    BY <1>3, <1>5
  <1>8. Gathered(entries, Q)
    BY DEF Q
  <1>9. Gathered(es, Q1)
    <2>1. \A f \in Wanted \ {<<>>} : Ahead(q0, f) => Has(es, f) # {} \/ \E q \in Q1 : Ahead(q, f)
      BY <1>6
    <2>2. EntriesOf(es) /\ \A f : Has(entries, f) # {} => Has(es, f) # {}
      BY <1>4
    <2>3. q0 \in Q
      BY <1>7
    <2>4. \A q \in Q : q = q0 \/ q \in Q1
      BY <1>7
    <2>5. \A q \in Q1 : q \in Q \/ CallOf(es, q)
      BY <1>7
    <2>6. EntriesOf(es)
      BY <1>4
    <2>7. \A f : Has(entries, f) # {} => Has(es, f) # {}
      BY <1>4
    <2>8. \A e1, R : /\ EntriesOf(e1) /\ \A f : Has(entries, f) # {} => Has(e1, f) # {}
                     /\ \A q \in Q : q = q0 \/ q \in R
                     /\ \A q \in R : q \in Q \/ CallOf(e1, q)
                     /\ \A f \in Wanted \ {<<>>} :
                           Ahead(q0, f) => Has(e1, f) # {} \/ \E q \in R : Ahead(q, f)
                     => Gathered(e1, R)
      BY <1>8, <2>3, CallMade
    <2> QED BY <2>1, <2>4, <2>5, <2>6, <2>7, <2>8
  <1> QED BY <1>9 DEF es, Q1

(* Every step of the walks keeps what is gathered and what is ahead to what *)
(* is wanted.                                                              *)
LEMMA StepGathers ==
  ASSUME SourceInv, Ground, Gathered(entries, Range(todo)),
         OpenMatch \/ WalkDir \/ VisitRoot \/ VisitDir \/ VisitFile
  PROVE  Gathered(entries', Range(todo'))
  <1>0. Setup /\ tree \in Trees /\ todo # <<>> /\ (handler = "dir" => root.abs)
    BY DEF Ground, Apart, OpenMatch, WalkDir, VisitRoot, VisitDir, VisitFile, Calls
  <1>1. /\ Head(todo) \in Range(todo) /\ todo \in Seq(CallSet)
        /\ Tail(todo) \in Seq(CallSet)
    <2>1. Head(todo) \in Range(todo) /\ todo \in Seq(CallSet)
      BY <1>0, NextFile
    <2> QED BY <1>0, <2>1, Queue
  <1>2. PICK b \in Wanted : /\ Leads(Head(todo), b) /\ b \in Seq(Names)
                            /\ info.recursive <=> Head(todo).call # "open"
                            /\ Len(b) > Cut + 1 => /\ Head(todo).call = "visit"
                                                   /\ Has(entries, Front(b)) # {}
    BY <1>0, NextFile
  <1>3. Below(Loc(b)) = b /\ b \in DOMAIN tree /\ tree[b].dir \in BOOLEAN
    BY <1>0, <1>2, LocBelow, WantedDepth, TreeFacts
  <1>4. Head(todo).call = "visit" => Arg = Loc(b)
    BY <1>2 DEF Leads, Arg
  <1>5. Head(todo).call # "visit" /\ Resolve(Arg).ok => Resolve(Arg).loc = Loc(b)
    <2> SUFFICES ASSUME Head(todo).call # "visit", Resolve(Arg).ok PROVE Resolve(Arg).loc = Loc(b)
      OBVIOUS
    <2>1. Arg = Path(FALSE, b)
      BY <1>2 DEF Leads, Arg
    <2> QED BY <1>2, <2>1, ResolvedLoc
  <1>6. <<>> \o Tail(todo) = Tail(todo)
    BY <1>1
  <1>7. CASE OpenMatch
    <2>1. /\ Head(todo).call = "open" /\ Resolve(Arg).ok /\ todo' = Tail(todo)
          /\ entries' = Append(entries, NewEntry(Resolve(Arg).loc, FALSE))
      BY <1>7 DEF OpenMatch, Calls, AddFile
    <2>2. entries' = Append(entries, NewEntry(Loc(b), FALSE)) /\ ~ info.recursive
      BY <1>2, <1>5, <2>1
    <2> DEFINE new == <<>>
    <2>3. new = (IF FALSE THEN Visits(Loc(b)) ELSE <<>>) /\ todo' = new \o Tail(todo)
      BY <1>6, <2>1
    <2> HIDE DEF new
    <2> QED BY <1>0, <1>2, <2>2, <2>3, Collects
  <1>8. ASSUME VisitDir \/ VisitFile
        PROVE  /\ info.recursive /\ b # <<>> /\ Located.loc = Loc(b) /\ IsDir(Arg) = tree[b].dir
               /\ Arg = Loc(b)
    <2>1. Head(todo).call = "visit" /\ ~ Skips(Arg) /\ Located.ok /\ Arg = Loc(b)
      BY <1>4, <1>8 DEF VisitDir, VisitFile, Calls
    <2>2. info.recursive
      BY <1>2, <2>1
    <2>3. b # <<>>
      <3> SUFFICES ASSUME b = <<>> PROVE FALSE
        OBVIOUS
      <3>1. handler = "dir"
        BY WantedDepth
      <3>2. root.names \o <<>> = root.names /\ root = Path(root.abs, root.names)
        BY <1>0 DEF Setup, Paths, Path
      <3>3. Loc(b) = root
        BY <3>2 DEF Loc
      <3> QED BY <2>1, <3>1, <3>3 DEF Skips
    <2>4. Located.loc = Loc(b)
      BY <1>2, <2>1, LocatedLoc DEF Located
    <2> QED BY <1>3, <2>1, <2>2, <2>3, <2>4 DEF IsDir
  <1>9. CASE VisitDir
    <2>1. /\ entries' = Append(entries, NewEntry(Loc(b), TRUE)) /\ tree[b].dir
          /\ todo' = Visits(Loc(b)) \o Tail(todo)
      BY <1>8, <1>9 DEF VisitDir
    <2> DEFINE new == Visits(Loc(b))
    <2>2. new = (IF TRUE THEN Visits(Loc(b)) ELSE <<>>) /\ todo' = new \o Tail(todo)
      BY <2>1
    <2> HIDE DEF new
    <2> QED BY <1>0, <1>2, <1>8, <1>9, <2>1, <2>2, Collects
  <1>10. CASE VisitFile
    <2>1. /\ entries' = Append(entries, NewEntry(Loc(b), FALSE)) /\ ~ tree[b].dir
          /\ todo' = Tail(todo)
      BY <1>8, <1>10 DEF VisitFile, AddFile
    <2> DEFINE new == <<>>
    <2>2. new = (IF FALSE THEN Visits(Loc(b)) ELSE <<>>) /\ todo' = new \o Tail(todo)
      BY <1>6, <2>1
    <2> HIDE DEF new
    <2> QED BY <1>0, <1>2, <1>8, <1>10, <2>1, <2>2, Collects
  <1>11. CASE WalkDir
    <2> DEFINE q0 == Head(todo)
               q1 == [call |-> "visit", arg |-> Loc(b)]
               Q  == Range(todo)
    <2>1. /\ q0.call = "walk" /\ todo' = <<q1>> \o Tail(todo) /\ entries' = entries
      BY <1>5, <1>11 DEF WalkDir, Calls
    <2>2. q1 \in CallSet /\ <<q1>> \in Seq(CallSet) /\ Range(<<q1>>) = {q1}
      <3>1. Loc(b) \in Paths(Strings)
        BY <1>0, <1>2, LocBelow
      <3>2. q1 \in CallSet
        BY <3>1 DEF CallSet
      <3> HIDE DEF q1
      <3>3. Range(<<q1>>) = {q1}
        BY DEF Range
      <3> QED BY <3>2, <3>3
    <2>3. info.recursive /\ ~ Len(b) > Cut + 1
      BY <1>2, <2>1
    <2>4. Leads(q1, b) /\ q1.call = "visit"
      BY DEF Leads
    <2>5. Leads(q0, b)
      BY <1>2
    <2> HIDE DEF q1
    <2>6. CallOf(entries, q1)
      BY <2>3, <2>4 DEF CallOf
    <2>7. Range(todo') = {q1} \cup Range(Tail(todo)) /\ Q = {q0} \cup Range(Tail(todo))
      <3> DEFINE new == <<q1>>
      <3>3. new \in Seq(CallSet)
        BY <2>2
      <3> HIDE DEF new
      <3>4. Range(new \o Tail(todo)) = Range(new) \cup Range(Tail(todo))
        BY <1>0, <1>1, <3>3, QueueRange
      <3>1. Range(<<q1>> \o Tail(todo)) = Range(<<q1>>) \cup Range(Tail(todo))
        BY <3>4 DEF new
      <3>2. Range(todo) = {Head(todo)} \cup Range(Tail(todo))
        BY <1>0, <1>1, <2>2, QueueRange
      <3> QED BY <2>1, <2>2, <3>1, <3>2
    <2> HIDE DEF q0, Q
    <2>8. ASSUME NEW f, Ahead(q0, f) PROVE Ahead(q1, f)
      BY <2>4, <2>5, <2>8, LeadsOne DEF Ahead
    <2>9. Gathered(entries, Q) /\ EntriesOf(entries)
      BY DEF Q, Gathered
    <2>10. Gathered(entries, Range(todo'))
      BY <2>6, <2>7, <2>8, <2>9, CallMade
    <2> QED BY <2>1, <2>10
  <1>12. CASE VisitRoot
    <2> DEFINE q0 == Head(todo)
               Q  == Range(todo)
               new == Visits(Loc(b))
    <2>1. /\ q0.call = "visit" /\ Skips(Arg) /\ entries' = entries /\ Arg = Loc(b)
          /\ todo' = (IF IsDir(Arg) THEN Visits(Arg) ELSE <<>>) \o Tail(todo)
      BY <1>4, <1>12 DEF VisitRoot, Calls
    <2>2. b = <<>>
      <3>1. handler = "dir" /\ Loc(b) = root
        BY <2>1 DEF Skips
      <3>2. <<>> \in Seq(Names)
        OBVIOUS
      <3>3. root.names \o <<>> = root.names /\ root = Path(root.abs, root.names)
        BY <1>0 DEF Setup, Paths, Path
      <3>4. Loc(<<>>) = root
        BY <3>3 DEF Loc
      <3> QED BY <1>0, <1>2, <3>1, <3>2, <3>4, LocSame
    <2>3. tree[b].dir /\ IsDir(Arg)
      <3>1. tree[b].dir
        BY <1>0, <1>3, <2>2, TreeFacts
      <3> QED BY <1>3, <2>1, <3>1 DEF IsDir
    <2>4. info.recursive /\ Leads(q0, b) /\ Cut = 0
      BY <1>2, <2>1, <2>2, WantedDepth
    <2>5. new \in Seq(CallSet) /\ todo' = new \o Tail(todo)
      <3>1. Loc(b) \in Paths(Strings)
        BY <1>0, <1>2, LocBelow
      <3> QED BY <2>1, <2>3, <3>1, VisitsTyped
    <2>6. /\ \A q \in Range(new) :
               q.call = "visit" /\ \E c \in Wanted : Leads(q, c) /\ c # <<>> /\ Front(c) = b
          /\ \A f \in Wanted : IsPrefix(b, f) /\ f # b => \E q \in Range(new) : Ahead(q, f)
      BY <2>4, VisitsLead
    <2> HIDE DEF new, q0, Q
    <2>7. Range(todo') = Range(new) \cup Range(Tail(todo)) /\ Q = {q0} \cup Range(Tail(todo))
      <3>1. Range(new \o Tail(todo)) = Range(new) \cup Range(Tail(todo))
        BY <1>0, <1>1, <2>5, QueueRange
      <3>2. Range(todo) = {Head(todo)} \cup Range(Tail(todo))
        BY <1>0, <1>1, <2>5, QueueRange
      <3> QED BY <2>5, <3>1, <3>2 DEF Q, q0
    <2>8. ASSUME NEW q \in Range(new) PROVE CallOf(entries, q)
      <3>1. PICK c \in Wanted : Leads(q, c) /\ c # <<>> /\ Front(c) = b
        BY <2>6
      <3>2. c \in Seq(Names)
        BY WantedDepth
      <3>3. Len(c) = 1
        <4>1. Len(Front(c)) = Len(c) - 1 /\ Len(c) \in Nat
          BY <3>1, <3>2, FrontLast
        <4>2. Len(Front(c)) = 0
          BY <2>2, <3>1
        <4> QED BY <4>1, <4>2
      <3>4. ~ Len(c) > Cut + 1
        BY <2>4, <3>3
      <3> QED BY <2>4, <2>6, <3>1, <3>4 DEF CallOf
    <2>9. ASSUME NEW f \in Wanted \ {<<>>}, Ahead(q0, f) PROVE \E q \in Range(new) : Ahead(q, f)
      <3>1. PICK c \in Wanted : Leads(q0, c) /\ (c = f \/ IsPrefix(c, f))
        BY <2>9 DEF Ahead
      <3>2. c = b
        BY <2>4, <3>1, LeadsOne
      <3> QED BY <2>2, <2>6, <3>1, <3>2
    <2>10. Gathered(entries, Q) /\ EntriesOf(entries)
      BY DEF Q, Gathered
    <2>11. Gathered(entries, Range(todo'))
      BY <2>7, <2>8, <2>9, <2>10, CallMade
    <2> QED BY <2>1, <2>11
  <1> QED BY <1>7, <1>9, <1>10, <1>11, <1>12
-----------------------------------------------------------------------------
(* The receiver *)

(* What the receiver has made of some messages *)
After(o) == Reading(o)[Len(o)]

Client(cwd, time, got) == [cwd |-> cwd, time |-> time, got |-> got]

(* It reads one message after the other, *)
LEMMA ReadingSteps ==
  ASSUME NEW S, NEW o \in Seq(S)
  PROVE  /\ Reading(o)[0] = Client(<<>>, 0, {})
         /\ \A i \in 1..Len(o) : Reading(o)[i] = Read(Reading(o)[i - 1], o[i])
  <1> DEFINE n == Len(o)
             c0 == Client(<<>>, 0, {})
             Body(f, k) == [i \in 0..k |-> IF i = 0 THEN c0 ELSE Read(f[i - 1], o[i])]
             Defined == {k \in Nat : \E f : f = Body(f, k)}
             R == Reading(o)
  <1>1. n \in Nat
    OBVIOUS
  <1>0. R = CHOOSE f : f = Body(f, n)
    BY DEF Reading, Client
  <1> HIDE DEF c0
  <1>2. 0 \in Defined
    <2> DEFINE f == [i \in 0..0 |-> c0]
    <2>1. f = Body(f, 0)
      OBVIOUS
    <2> QED BY <2>1
  <1>3. ASSUME NEW k \in Nat, k \in Defined PROVE k + 1 \in Defined
    <2>1. PICK f : f = Body(f, k)
      BY <1>3
    <2> DEFINE g == [i \in 0..(k + 1) |-> IF i <= k THEN f[i] ELSE Read(f[k], o[k + 1])]
    <2>2. \A i \in 0..k : f[i] = IF i = 0 THEN c0 ELSE Read(f[i - 1], o[i])
      BY <2>1
    <2>5. /\ \A i \in 0..k : g[i] = f[i]
          /\ g[k + 1] = Read(f[k], o[k + 1])
      OBVIOUS
    <2> HIDE DEF g
    <2>3. ASSUME NEW i \in 0..(k + 1) PROVE g[i] = IF i = 0 THEN c0 ELSE Read(g[i - 1], o[i])
      <3>1. CASE i = 0
        BY <2>2, <2>5, <3>1
      <3>2. CASE i \in 1..k
        <4>1. i \in 0..k /\ i - 1 \in 0..k /\ i # 0
          BY <3>2
        <4> QED BY <2>2, <2>5, <4>1
      <3>3. CASE i = k + 1
        <4>1. i - 1 = k /\ k \in 0..k /\ i # 0
          BY <3>3
        <4> QED BY <2>5, <3>3, <4>1
      <3> QED BY <3>1, <3>2, <3>3
    <2> USE DEF g
    <2>4. g = Body(g, k + 1) /\ k + 1 \in Nat
      BY <2>3
    <2> HIDE DEF g
    <2> QED BY <2>4
  <1>4. n \in Defined
    BY <1>1, <1>2, <1>3, NatSetInduction
  <1>6. R = Body(R, n)
    BY <1>0, <1>4
  <1> HIDE DEF R
  <1>7. \A i \in 0..n : R[i] = IF i = 0 THEN c0 ELSE Read(R[i - 1], o[i])
    BY <1>6
  <1>8. R[0] = c0 /\ \A i \in 1..n : R[i] = Read(R[i - 1], o[i])
    BY <1>1, <1>7
  <1> QED BY <1>8 DEF R, c0

(* and so one message more is read where it was. *)
LEMMA AfterAppend ==
  ASSUME NEW S, NEW o \in Seq(S), NEW m
  PROVE  After(o \o <<m>>) = Read(After(o), m) /\ o \o <<m>> \in Seq(S \cup {m})
  <1> DEFINE t == o \o <<m>>
             C == Reading(o)
             D == Reading(t)
             Good == {k \in Nat : k <= Len(o) => D[k] = C[k]}
  <1>0. o \in Seq(S \cup {m})
    BY LargerSeq
  <1>1. /\ t \in Seq(S \cup {m}) /\ Len(t) = Len(o) + 1 /\ Len(o) \in Nat /\ t[Len(o) + 1] = m
        /\ \A i \in 1..Len(o) : t[i] = o[i]
    BY <1>0
  <1> HIDE DEF t
  <1>2. C[0] = Client(<<>>, 0, {}) /\ \A i \in 1..Len(o) : C[i] = Read(C[i - 1], o[i])
    BY ReadingSteps
  <1>3. D[0] = Client(<<>>, 0, {}) /\ \A i \in 1..Len(t) : D[i] = Read(D[i - 1], t[i])
    BY <1>1, ReadingSteps
  <1> HIDE DEF C, D
  <1>4. 0 \in Good
    BY <1>2, <1>3
  <1>5. ASSUME NEW k \in Nat, k \in Good PROVE k + 1 \in Good
    <2> SUFFICES ASSUME k + 1 <= Len(o) PROVE D[k + 1] = C[k + 1]
      BY DEF Good
    <2>1. k + 1 \in 1..Len(o) /\ k + 1 \in 1..Len(t) /\ (k + 1) - 1 = k /\ k <= Len(o)
      BY <1>1
    <2>2. D[k] = C[k]
      BY <1>5, <2>1
    <2>3. C[k + 1] = Read(C[k], o[k + 1]) /\ D[k + 1] = Read(D[k], t[k + 1])
      BY <1>2, <1>3, <2>1
    <2> QED BY <1>1, <2>1, <2>2, <2>3
  <1>6. Len(o) \in Good
    <2> HIDE DEF Good
    <2> QED BY <1>1, <1>4, <1>5, NatSetInduction
  <1>7. D[Len(o)] = C[Len(o)]
    BY <1>1, <1>6
  <1>8. D[Len(o) + 1] = Read(D[Len(o)], m)
    <2>1. Len(o) + 1 \in 1..Len(t) /\ (Len(o) + 1) - 1 = Len(o)
      BY <1>1
    <2> QED BY <1>1, <1>3, <2>1
  <1>9. After(t) = D[Len(o) + 1] /\ After(o) = C[Len(o)]
    BY <1>1 DEF After, C, D
  <1> QED BY <1>1, <1>7, <1>8, <1>9 DEF t

(* Nothing is read at first. *)
LEMMA AfterNone == After(<<>>) = Client(<<>>, 0, {})
  <1>1. <<>> \in Seq({}) /\ Len(<<>>) = 0
    OBVIOUS
  <1> QED BY <1>1, ReadingSteps DEF After

(* One message more is the last. *)
LEMMA AppendOne ==
  ASSUME NEW U, NEW p \in Seq(U), NEW a \in U
  PROVE  Append(p, a) = p \o <<a>>
  OBVIOUS

(* A message after others *)
Then(s, m) == s \o <<m>>

(* Three messages after others *)
Row(s, a, b, c) == s \o <<a, b, c>>

(* Three messages in a row are read one by one, *)
LEMMA InARow ==
  ASSUME NEW U, NEW p \in Seq(U), NEW a \in U, NEW b \in U, NEW c \in U
  PROVE  Row(p, a, b, c) = Then(Then(Then(p, a), b), c)
  <1> DEFINE q == Row(p, a, b, c)
             n == Len(p)
             p1 == Then(p, a)
             p2 == Then(p1, b)
             p3 == Then(p2, c)
  <1>0. n \in Nat
    OBVIOUS
  <1>1. p1 \in Seq(U) /\ Len(p1) = n + 1 /\ (\A i \in 1..n : p1[i] = p[i]) /\ p1[n + 1] = a
    BY DEF Then
  <1>3. /\ q \in Seq(U) /\ Len(q) = n + 3 /\ (\A i \in 1..n : q[i] = p[i])
        /\ q[n + 1] = a /\ q[n + 2] = b /\ q[n + 3] = c
    BY DEF Row
  <1> HIDE DEF q, p1
  <1>4. /\ p2 \in Seq(U) /\ Len(p2) = n + 2 /\ (\A i \in 1..(n + 1) : p2[i] = p1[i])
        /\ p2[n + 2] = b
    BY <1>0, <1>1 DEF Then
  <1> HIDE DEF p2
  <1>5. /\ p3 \in Seq(U) /\ Len(p3) = n + 3 /\ (\A i \in 1..(n + 2) : p3[i] = p2[i])
        /\ p3[n + 3] = c
    BY <1>0, <1>4 DEF Then
  <1> HIDE DEF n, p3
  <1>6. \A i \in 1..Len(q) : q[i] = p3[i]
    <2> TAKE i \in 1..Len(q)
    <2>1. i \in 1..n \/ i = n + 1 \/ i = n + 2 \/ i = n + 3
      BY <1>0, <1>3
    <2>2. i \in 1..n => i \in 1..(n + 1) /\ i \in 1..(n + 2)
      BY <1>0
    <2>3. n + 1 \in 1..(n + 1) /\ n + 1 \in 1..(n + 2) /\ n + 2 \in 1..(n + 2)
      BY <1>0
    <2> QED BY <1>1, <1>3, <1>4, <1>5, <2>1, <2>2, <2>3
  <1>7. q = p3
    BY <1>3, <1>5, <1>6, SameNames
  <1> QED BY <1>7 DEF q, p1, p2, p3

(* whatever sequence they follow. *)
LEMMA RowSplit ==
  ASSUME NEW p, \E S : p \in Seq(S), NEW a, NEW b, NEW c
  PROVE  Row(p, a, b, c) = Then(Then(Then(p, a), b), c)
  <1>0. PICK S : p \in Seq(S)
    OBVIOUS
  <1>1. \E U : p \in Seq(U) /\ a \in U /\ b \in U /\ c \in U
    <2> WITNESS S \cup {a, b, c}
    <2>1. S \subseteq S \cup {a, b, c}
      OBVIOUS
    <2> QED BY <1>0, <2>1, LargerSeq
  <1>2. PICK U : p \in Seq(U) /\ a \in U /\ b \in U /\ c \in U
    BY <1>1
  <1>3. p \in Seq(U)
    BY <1>2
  <1>4. a \in U
    BY <1>2
  <1>5. b \in U
    BY <1>2
  <1>6. c \in U
    BY <1>2
  <1> QED BY <1>3, <1>4, <1>5, <1>6, InARow

(* One message more *)
LEMMA ReadOne ==
  ASSUME NEW o, \E S : o \in Seq(S), NEW m, NEW c, Read(After(o), m) = c
  PROVE  After(Then(o, m)) = c /\ \E S : Then(o, m) \in Seq(S)
  <1>1. PICK S : o \in Seq(S)
    OBVIOUS
  <1>2. After(o \o <<m>>) = Read(After(o), m) /\ o \o <<m>> \in Seq(S \cup {m})
    BY <1>1, AfterAppend
  <1> DEFINE p == o \o <<m>>
  <1> HIDE DEF p
  <1>3. After(p) = c /\ p \in Seq(S \cup {m})
    BY <1>2 DEF p
  <1>4. \E T : p \in Seq(T)
    BY <1>3
  <1> QED BY <1>3, <1>4 DEF p, Then

(* The times of an entry come before it. *)
LEMMA ReadTimes ==
  ASSUME NEW o, \E S : o \in Seq(S), NEW w, NEW got, After(o) = Client(w, 0, got),
         NEW e, e.time \in Nat
  PROVE  After(o \o Times(e)) = Client(w, e.time, got) /\ \E S : o \o Times(e) \in Seq(S)
  <1>1. CASE e.time > 0
    <2> DEFINE m == Says("T", "", e.time)
    <2>1. o \o Times(e) = Then(o, m)
      BY <1>1 DEF Times, Then
    <2>2. Read(After(o), m) = Client(w, e.time, got)
      BY DEF Read, Says, Client
    <2> HIDE DEF m
    <2>3. After(Then(o, m)) = Client(w, e.time, got) /\ \E S : Then(o, m) \in Seq(S)
      BY <2>2, ReadOne
    <2> QED BY <2>1, <2>3
  <1>2. CASE ~ e.time > 0
    <2>1. Times(e) = <<>> /\ e.time = 0
      BY <1>2 DEF Times
    <2>2. o \o <<>> = o
      OBVIOUS
    <2> QED BY <2>1, <2>2
  <1> QED BY <1>1, <1>2

(* The messages for a directory, and for a file *)
Opening(o, e) == o \o Times(e) \o <<Says("D", e.name, 0)>>

Copying(o, e, length) == o \o Times(e) \o <<Says("C", e.name, e.size), Says("data", "", length),
                                            Says("NUL", "", 0)>>

(* A directory is opened, *)
LEMMA ReadDir ==
  ASSUME NEW o, \E S : o \in Seq(S), NEW w, NEW got, After(o) = Client(w, 0, got),
         NEW e, e.time \in Nat
  PROVE  /\ After(Opening(o, e)) =
              Client(Append(w, e.name), 0,
                     got \cup {[at |-> Append(w, e.name), dir |-> TRUE, size |-> 0,
                                time |-> e.time]})
         /\ \E S : Opening(o, e) \in Seq(S)
  <1> DEFINE p == o \o Times(e)
             m == Says("D", e.name, 0)
             c == Client(Append(w, e.name), 0,
                         got \cup {[at |-> Append(w, e.name), dir |-> TRUE, size |-> 0,
                                    time |-> e.time]})
  <1>1. After(p) = Client(w, e.time, got) /\ \E S : p \in Seq(S)
    BY ReadTimes
  <1>2. Read(Client(w, e.time, got), m) = c
    BY DEF Read, Says, Client
  <1>3. Opening(o, e) = Then(p, m)
    BY DEF Then, Opening
  <1> HIDE DEF p, m, c
  <1>4. After(Then(p, m)) = c /\ \E S : Then(p, m) \in Seq(S)
    <2>1. Read(After(p), m) = c
      BY <1>1, <1>2
    <2> QED BY <1>1, <2>1, ReadOne
  <1>5. After(Opening(o, e)) = c /\ \E S : Opening(o, e) \in Seq(S)
    BY <1>3, <1>4, Zenon
  <1> QED BY <1>5 DEF c

(* Three messages more, of which the last two change nothing *)
LEMMA ReadThree ==
  ASSUME NEW p, \E S : p \in Seq(S), NEW a, NEW b, NEW d, NEW c,
         Read(After(p), a) = c, Read(c, b) = c, Read(c, d) = c
  PROVE  After(Row(p, a, b, d)) = c /\ \E S : Row(p, a, b, d) \in Seq(S)
  <1> DEFINE p1 == Then(p, a)
             p2 == Then(p1, b)
             p3 == Then(p2, d)
  <1>1. Row(p, a, b, d) = p3
    BY RowSplit
  <1>2. After(p1) = c /\ \E S : p1 \in Seq(S)
    BY ReadOne
  <1> HIDE DEF p1
  <1>3. After(p2) = c /\ \E S : p2 \in Seq(S)
    <2>1. Read(After(p1), b) = c
      BY <1>2
    <2> QED BY <1>2, <2>1, ReadOne
  <1> HIDE DEF p2
  <1>4. After(p3) = c /\ \E S : p3 \in Seq(S)
    <2>1. Read(After(p2), d) = c
      BY <1>3
    <2> QED BY <1>3, <2>1, ReadOne
  <1> HIDE DEF p3
  <1> QED BY <1>1, <1>4

(* a file is received with its data, *)
LEMMA ReadFile ==
  ASSUME NEW o, \E S : o \in Seq(S), NEW w, NEW got, After(o) = Client(w, 0, got),
         NEW e, e.time \in Nat, NEW length
  PROVE  /\ After(Copying(o, e, length)) =
              Client(w, 0, got \cup {[at |-> Append(w, e.name), dir |-> FALSE, size |-> e.size,
                                      time |-> e.time]})
         /\ \E S : Copying(o, e, length) \in Seq(S)
  <1> DEFINE p == o \o Times(e)
             a == Says("C", e.name, e.size)
             b == Says("data", "", length)
             d == Says("NUL", "", 0)
             c == Client(w, 0, got \cup {[at |-> Append(w, e.name), dir |-> FALSE, size |-> e.size,
                                          time |-> e.time]})
  <1>1. After(p) = Client(w, e.time, got) /\ \E S : p \in Seq(S)
    BY ReadTimes
  <1>2. Read(Client(w, e.time, got), a) = c /\ Read(c, b) = c /\ Read(c, d) = c
    BY DEF Read, Says, Client
  <1>3. Copying(o, e, length) = Row(p, a, b, d)
    BY DEF Row, Copying
  <1> HIDE DEF p, a, b, d, c
  <1>4. After(Row(p, a, b, d)) = c /\ \E S : Row(p, a, b, d) \in Seq(S)
    <2>1. Read(After(p), a) = c
      BY <1>1, <1>2
    <2> QED BY <1>1, <1>2, <2>1, ReadThree
  <1>5. After(Copying(o, e, length)) = c /\ \E S : Copying(o, e, length) \in Seq(S)
    BY <1>3, <1>4, Zenon
  <1> QED BY <1>5 DEF c

(* and a directory is left. *)
LEMMA ReadEnd ==
  ASSUME NEW o, \E S : o \in Seq(S), NEW w, NEW got, After(o) = Client(w, 0, got),
         NEW o1, o1 = Append(o, Says("E", "", 0))
  PROVE  After(o1) = Client(Front(w), 0, got) /\ \E S : o1 \in Seq(S)
  <1> DEFINE m == Says("E", "", 0)
             c == Client(Front(w), 0, got)
  <1>1. Read(Client(w, 0, got), m) = c
    BY DEF Read, Says, Client
  <1>2. o1 = Append(o, m)
    OBVIOUS
  <1> HIDE DEF m, c
  <1>3. Append(o, m) = Then(o, m)
    <2>1. PICK S : o \in Seq(S)
      OBVIOUS
    <2> DEFINE U == S \cup {m}
    <2>2. S \subseteq U /\ m \in U
      OBVIOUS
    <2> HIDE DEF U
    <2>3. o \in Seq(U)
      BY <2>1, <2>2, LargerSeq
    <2>4. \A s \in Seq(U), x \in U : Append(s, x) = s \o <<x>>
      BY AppendOne
    <2> QED BY <2>2, <2>3, <2>4 DEF Then
  <1>4. After(Then(o, m)) = c /\ \E S : Then(o, m) \in Seq(S)
    <2>1. Read(After(o), m) = c
      BY <1>1
    <2> QED BY <2>1, ReadOne
  <1>5. After(o1) = c /\ \E S : o1 \in Seq(S)
    BY <1>2, <1>3, <1>4, Zenon
  <1> QED BY <1>5 DEF c
-----------------------------------------------------------------------------
(* Where the client is *)

(* What a file is called at the client, and the directory it is in there *)
At(b) == SubSeq(b, Cut + 1, Len(b))

Up(b) == IF Len(b) > Cut + 1 THEN At(Front(b)) ELSE <<>>

(* A part of a sequence *)
LEMMA Slice ==
  ASSUME NEW S, NEW s \in Seq(S), NEW k \in 0..Len(s), NEW l \in k..Len(s)
  PROVE  /\ SubSeq(s, k + 1, l) \in Seq(S) /\ Len(SubSeq(s, k + 1, l)) = l - k
         /\ \A i \in 1..(l - k) : SubSeq(s, k + 1, l)[i] = s[i + k]
  <1>1. k \in Nat /\ l \in Nat /\ k <= l /\ l <= Len(s) /\ Len(s) \in Nat
    OBVIOUS
  <1> QED BY <1>1

(* A part that ends one element before another *)
LEMMA SliceFront ==
  ASSUME NEW S, NEW s \in Seq(S), NEW k \in 0..Len(s), NEW l \in k..Len(s), l > k
  PROVE  /\ SubSeq(s, k + 1, l) # <<>>
         /\ Front(SubSeq(s, k + 1, l)) = SubSeq(s, k + 1, l - 1)
         /\ Last(SubSeq(s, k + 1, l)) = s[l]
  <1> DEFINE p == SubSeq(s, k + 1, l)
             q == SubSeq(s, k + 1, l - 1)
  <1>1. p \in Seq(S) /\ Len(p) = l - k /\ \A i \in 1..(l - k) : p[i] = s[i + k]
    BY Slice
  <1>2. l - 1 \in k..Len(s) /\ (l - 1) - k = l - k - 1 /\ l - k \in Nat /\ l - k > 0
    OBVIOUS
  <1>3. q \in Seq(S) /\ Len(q) = l - k - 1 /\ \A i \in 1..(l - k - 1) : q[i] = s[i + k]
    BY <1>2, Slice
  <1> HIDE DEF p, q
  <1>4. p # <<>>
    BY <1>1, <1>2
  <1> DEFINE f == Front(p)
  <1>5. f \in Seq(S) /\ Len(f) = Len(p) - 1 /\ Last(p) = p[Len(p)]
        /\ \A i \in 1..(Len(p) - 1) : f[i] = p[i]
    BY <1>1, <1>4, FrontLast
  <1> HIDE DEF f
  <1>6. ASSUME NEW i \in 1..(l - k - 1) PROVE f[i] = q[i]
    <2>1. i \in 1..(l - k) /\ i \in 1..(Len(p) - 1)
      BY <1>1, <1>2
    <2> QED BY <1>1, <1>3, <1>5, <2>1
  <1>7. f = q
    BY <1>1, <1>2, <1>3, <1>5, <1>6, SameNames
  <1>8. Last(p) = s[l]
    <2>1. l - k \in 1..(l - k) /\ (l - k) + k = l
      BY <1>2
    <2> QED BY <1>1, <1>5, <2>1
  <1> QED BY <1>4, <1>7, <1>8 DEF f, p, q

(* A file is put where the client is if that is its directory. *)
LEMMA AtUp ==
  ASSUME NEW b \in Seq(Names), Len(b) > Cut, Cut \in Nat
  PROVE  Append(Up(b), Last(b)) = At(b) /\ Front(At(b)) = Up(b)
  <1> DEFINE n == Len(b)
             k == Cut
             a == At(b)
             u == SubSeq(b, k + 1, n - 1)
  <1>1. n \in Nat /\ k \in 0..n /\ n \in k..n /\ n > k /\ n - 1 \in k..n /\ k \in Nat /\ b # <<>>
    OBVIOUS
  <1>2. a # <<>> /\ Front(a) = u /\ Last(a) = b[n]
    BY <1>1, SliceFront DEF At
  <1>3. a \in Seq(Names)
    BY <1>1, Slice DEF At
  <1>4. u \in Seq(Names) /\ Len(u) = (n - 1) - k /\ \A i \in 1..((n - 1) - k) : u[i] = b[i + k]
    BY <1>1, Slice
  <1>5. /\ Last(b) = b[n] /\ Front(b) \in Seq(Names) /\ Len(Front(b)) = n - 1
        /\ \A i \in 1..(n - 1) : Front(b)[i] = b[i]
    BY <1>1, FrontLast
  <1> HIDE DEF a, u
  <1>6. Append(Front(a), Last(a)) = a
    BY <1>2, <1>3, FrontLast
  <1>7. n = k + 1 => u = <<>>
    BY <1>1, <1>4
  <1>8. ASSUME n > k + 1 PROVE u = At(Front(b))
    <2> DEFINE f == Front(b)
               c == At(f)
    <2>1. f \in Seq(Names) /\ Len(f) = n - 1
      BY <1>5
    <2> HIDE DEF f
    <2>2. k \in 0..Len(f) /\ Len(f) \in k..Len(f)
      BY <1>1, <1>8, <2>1
    <2>3. c \in Seq(Names) /\ Len(c) = Len(f) - k /\ \A i \in 1..(Len(f) - k) : c[i] = f[i + k]
      BY <2>1, <2>2, Slice DEF At
    <2> HIDE DEF c
    <2>4. ASSUME NEW i \in 1..Len(u) PROVE u[i] = c[i]
      <3>1. i \in 1..((n - 1) - k) /\ i + k \in 1..(n - 1)
        BY <1>1, <1>4
      <3> QED BY <1>4, <1>5, <2>1, <2>3, <3>1 DEF f
    <2>5. u = c
      BY <1>4, <2>1, <2>3, <2>4, SameNames
    <2> QED BY <2>5 DEF c, f
  <1>9. Up(b) = u
    BY <1>1, <1>7, <1>8 DEF Up
  <1> QED BY <1>2, <1>5, <1>6, <1>9 DEF a

(* The directory the client is in before each entry that is left to write: *)
(* that of the entry.                                                      *)
Leaves(es, pd, ctx) ==
    \A p \in 1..Len(pd) : /\ ctx[p + 1] = IF pd[p] = 0 THEN Front(ctx[p]) ELSE ctx[p]
                          /\ pd[p] # 0 => Up(NameOf(es, pd[p])) = ctx[p]

(* When one is written, *)
LEMMA LeavesTail ==
  ASSUME NEW es, NEW pd \in Seq(Nat), pd # <<>>, NEW ctx, Leaves(es, pd, ctx)
  PROVE  \E c : /\ Leaves(es, Tail(pd), c)
                /\ c[1] = IF Head(pd) = 0 THEN Front(ctx[1]) ELSE ctx[1]
                /\ Head(pd) # 0 => Up(NameOf(es, Head(pd))) = ctx[1]
  <1> DEFINE n == Len(pd)
             t == Tail(pd)
             c == [p \in 1..n |-> ctx[p + 1]]
  <1>1. /\ n \in Nat /\ n > 0 /\ Len(t) = n - 1 /\ \A p \in 1..(n - 1) : t[p] = pd[p + 1]
        /\ Head(pd) = pd[1]
    OBVIOUS
  <1>2. \A p \in 1..n : /\ ctx[p + 1] = IF pd[p] = 0 THEN Front(ctx[p]) ELSE ctx[p]
                        /\ pd[p] # 0 => Up(NameOf(es, pd[p])) = ctx[p]
    BY DEF Leaves
  <1> HIDE DEF n, t
  <1>3. \A p \in 1..n : c[p] = ctx[p + 1]
    OBVIOUS
  <1> HIDE DEF c
  <1>4. ASSUME NEW p \in 1..Len(t)
        PROVE  /\ c[p + 1] = IF t[p] = 0 THEN Front(c[p]) ELSE c[p]
               /\ t[p] # 0 => Up(NameOf(es, t[p])) = c[p]
    <2>1. p \in 1..n /\ p + 1 \in 1..n /\ p \in 1..(n - 1)
      BY <1>1
    <2> QED BY <1>1, <1>2, <1>3, <2>1
  <1>5. Leaves(es, t, c)
    BY <1>4 DEF Leaves
  <1>6. 1 \in 1..n
    BY <1>1
  <1>7. c[1] = ctx[2] /\ ctx[2] = IF pd[1] = 0 THEN Front(ctx[1]) ELSE ctx[1]
    BY <1>2, <1>3, <1>6
  <1> QED BY <1>1, <1>2, <1>5, <1>6, <1>7 DEF t

(* The entries of a directory, its end, and what was to come after it *)
Within(ch, t) == ch \o <<0>> \o t

(* The entries of a directory are all in it, *)
AllIn(es, ch, w) == \A j \in Range(ch) : j # 0 /\ Up(NameOf(es, j)) = w

(* and when the directory is one whose entries and end come next. *)
LEMMA LeavesDir ==
  ASSUME NEW es, NEW t \in Seq(Nat), NEW ctx, Leaves(es, t, ctx), NEW ch \in Seq(Nat), NEW w,
         Front(w) = ctx[1], AllIn(es, ch, w)
  PROVE  \E c : Leaves(es, Within(ch, t), c) /\ c[1] = w
  <1> DEFINE n == Len(ch)
             m == Len(t)
             e == ch \o <<0>>
             q == e \o t
             c == [p \in 1..(n + m + 2) |-> IF p <= n + 1 THEN w ELSE ctx[p - (n + 1)]]
  <1>1. n \in Nat /\ m \in Nat
    OBVIOUS
  <1>2. /\ e \in Seq(Nat) /\ Len(e) = n + 1 /\ (\A p \in 1..n : e[p] = ch[p]) /\ e[n + 1] = 0
    OBVIOUS
  <1>3. \A p \in 1..n : ch[p] # 0 /\ Up(NameOf(es, ch[p])) = w
    BY DEF AllIn, Range
  <1>4. \A p \in 1..m : /\ ctx[p + 1] = IF t[p] = 0 THEN Front(ctx[p]) ELSE ctx[p]
                        /\ t[p] # 0 => Up(NameOf(es, t[p])) = ctx[p]
    BY DEF Leaves
  <1> HIDE DEF e
  <1>5. /\ q \in Seq(Nat) /\ Len(q) = (n + 1) + m /\ (\A p \in 1..(n + 1) : q[p] = e[p])
        /\ \A p \in ((n + 1) + 1)..((n + 1) + m) : q[p] = t[p - (n + 1)]
    <2>1. e \in Seq(Nat)
      BY <1>2
    <2>2. /\ q \in Seq(Nat) /\ Len(q) = Len(e) + Len(t) /\ (\A p \in 1..Len(e) : q[p] = e[p])
          /\ \A p \in (Len(e) + 1)..(Len(e) + Len(t)) : q[p] = t[p - Len(e)]
      BY <2>1, ConcatNames
    <2> HIDE DEF n, m, q
    <2> QED BY <1>2, <2>2 DEF m
  <1> HIDE DEF n, m, q
  <1>6. /\ \A p \in 1..(n + 1) : c[p] = w
        /\ \A p \in (n + 2)..(n + m + 2) : c[p] = ctx[p - (n + 1)]
    BY <1>1
  <1> HIDE DEF c
  <1>7. ASSUME NEW p \in 1..Len(q)
        PROVE  /\ c[p + 1] = IF q[p] = 0 THEN Front(c[p]) ELSE c[p]
               /\ q[p] # 0 => Up(NameOf(es, q[p])) = c[p]
    <2>1. CASE p \in 1..n
      <3>1. p \in 1..(n + 1) /\ p + 1 \in 1..(n + 1)
        BY <1>1, <2>1
      <3>2. q[p] = ch[p] /\ c[p] = w /\ c[p + 1] = w
        BY <1>2, <1>5, <1>6, <2>1, <3>1
      <3> QED BY <1>3, <2>1, <3>2
    <2>2. CASE p = n + 1
      <3>1. p \in 1..(n + 1) /\ p + 1 \in (n + 2)..(n + m + 2) /\ (p + 1) - (n + 1) = 1
        BY <1>1, <2>2
      <3>2. q[p] = 0 /\ c[p] = w /\ c[p + 1] = ctx[1]
        BY <1>2, <1>5, <1>6, <2>2, <3>1
      <3> QED BY <3>2
    <2>3. CASE p \in (n + 2)..(n + 1 + m)
      <3>1. /\ p \in ((n + 1) + 1)..((n + 1) + m) /\ p \in (n + 2)..(n + m + 2)
            /\ p + 1 \in (n + 2)..(n + m + 2) /\ p - (n + 1) \in 1..m
            /\ (p + 1) - (n + 1) = (p - (n + 1)) + 1
        BY <1>1, <2>3
      <3>2. /\ q[p] = t[p - (n + 1)] /\ c[p] = ctx[p - (n + 1)]
            /\ c[p + 1] = ctx[(p - (n + 1)) + 1]
        BY <1>5, <1>6, <3>1
      <3> QED BY <1>4, <3>1, <3>2
    <2>4. p \in 1..n \/ p = n + 1 \/ p \in (n + 2)..(n + 1 + m)
      BY <1>1, <1>5
    <2> QED BY <2>1, <2>2, <2>3, <2>4
  <1>8. Leaves(es, q, c)
    BY <1>7 DEF Leaves
  <1>9. c[1] = w
    <2>1. 1 \in 1..(n + 1)
      BY <1>1
    <2> QED BY <1>6, <2>1
  <1>10. Within(ch, t) = q
    BY DEF Within, q, e
  <1> QED BY <1>8, <1>9, <1>10
-----------------------------------------------------------------------------
(* What is sent *)

(* What the client has of an entry *)
Item(es, i) == [at |-> At(NameOf(es, i)), dir |-> es[i].dir,
                size |-> IF es[i].dir THEN 0 ELSE es[i].size, time |-> es[i].time]

(* An entry not written is next, or in a directory that is not written. *)
Left(es, pd, done) ==
    \A i \in DOMAIN es \ done : i \in Range(pd) \/ (es[i].parent # 0 /\ es[i].parent \notin done)

(* The client has the entries written, each where it belongs. *)
Sent(es, pd, o) ==
    \E done, ctx :
        /\ done \in SUBSET DOMAIN es
        /\ Leaves(es, pd, ctx) /\ Left(es, pd, done)
        /\ After(o) = Client(ctx[1], 0, {Item(es, i) : i \in done})
        /\ \A i \in done : NameOf(es, i) # <<>> /\ (es[i].dir <=> tree[NameOf(es, i)].dir)

(* What is written of an entry. *)
LEMMA ItemFacts ==
  ASSUME Ground, NEW es, EntriesOf(es), NEW i \in DOMAIN es, NEW b, b = NameOf(es, i)
  PROVE  /\ b \in Wanted /\ b \in DOMAIN tree /\ b \in Seq(Names) /\ Cut \in Nat
         /\ i \in Nat \ {0} /\ es[i].loc = Loc(b)
         /\ es[i].time = tree[b].time /\ es[i].size = tree[b].size /\ es[i].time \in Nat
         /\ es[i].dir \in BOOLEAN /\ (es[i].dir <=> info.recursive /\ tree[b].dir)
         /\ b # <<>> => es[i].name = Last(b) /\ Append(Up(b), es[i].name) = At(b)
                        /\ Front(At(b)) = Up(b)
         /\ es[i].dir => b # <<>>
         /\ b = <<>> => tree[b].dir
         /\ es[i].parent = 0 => Up(b) = <<>>
         /\ es[i].parent # 0 => /\ es[i].parent \in DOMAIN es /\ es[es[i].parent].dir
                                /\ Up(b) = At(NameOf(es, es[i].parent))
  <1>1. /\ b \in Wanted /\ es[i].loc = Loc(b)
        /\ info.recursive => b # <<>>
        /\ es[i].dir \in BOOLEAN /\ (es[i].dir <=> info.recursive /\ tree[b].dir)
        /\ es[i].size = tree[b].size /\ es[i].time = tree[b].time
        /\ b # <<>> => es[i].name = Last(b)
    BY DEF EntriesOf, EntryOf, NameOf
  <1>2. /\ es[i].parent = 0 <=> Len(b) <= Cut + 1
        /\ Len(b) > Cut + 1 => /\ es[i].parent \in DOMAIN es
                               /\ NameOf(es, es[i].parent) = Front(b)
                               /\ b # <<>> /\ info.recursive
    BY EntryFacts
  <1>3. /\ b \in DOMAIN tree /\ b \in Seq(Names) /\ Len(b) \in Nat /\ Cut \in Nat
        /\ b # <<>> => Len(b) >= Cut + 1
    BY <1>1, WantedDepth
  <1>4. /\ tree[b].time \in Nat /\ (b = <<>> => tree[b].dir)
        /\ b # <<>> => Front(b) \in DOMAIN tree /\ tree[Front(b)].dir
    BY <1>3, TreeFacts DEF Ground
  <1>5. i \in Nat \ {0}
    BY DEF EntriesOf
  <1>6. ASSUME b # <<>> PROVE Append(Up(b), Last(b)) = At(b) /\ Front(At(b)) = Up(b)
    <2>1. Len(b) > Cut
      BY <1>3, <1>6
    <2> QED BY <1>3, <2>1, AtUp
  <1>7. es[i].parent = 0 => Up(b) = <<>>
    BY <1>2, <1>3 DEF Up
  <1>8. ASSUME es[i].parent # 0
        PROVE  es[i].parent \in DOMAIN es /\ es[es[i].parent].dir /\ Up(b) = At(NameOf(es, es[i].parent))
    <2>1. Len(b) > Cut + 1
      BY <1>2, <1>3, <1>8
    <2> DEFINE k == es[i].parent
    <2>2. k \in DOMAIN es /\ NameOf(es, k) = Front(b) /\ info.recursive /\ b # <<>>
      BY <1>2, <2>1
    <2> HIDE DEF k
    <2>3. es[k].dir <=> info.recursive /\ tree[NameOf(es, k)].dir
      BY <2>2 DEF EntriesOf, EntryOf, NameOf
    <2>4. es[k].dir
      BY <1>4, <2>2, <2>3
    <2> QED BY <2>1, <2>2, <2>4 DEF k, Up
  <1> QED BY <1>1, <1>3, <1>4, <1>5, <1>6, <1>7, <1>8

(* At first nothing is, and what is in no directory is to be written. *)
LEMMA SentStart ==
  ASSUME Ground, NEW es, EntriesOf(es), NEW pd \in Seq(Nat),
         Range(pd) = {i \in DOMAIN es : es[i].parent = 0}
  PROVE  Sent(es, pd, <<>>)
  <1> DEFINE ctx == [p \in 1..(Len(pd) + 1) |-> <<>>]
             none == {}
  <1>1. \A p \in 1..Len(pd) : pd[p] \in DOMAIN es /\ es[pd[p]].parent = 0
    BY DEF Range
  <1>2. \A p \in 1..Len(pd) : ctx[p] = <<>> /\ ctx[p + 1] = <<>>
    OBVIOUS
  <1>3. ctx[1] = <<>>
    OBVIOUS
  <1> HIDE DEF ctx
  <1>4. Front(<<>>) = <<>>
    BY DEF Front
  <1>5. Leaves(es, pd, ctx)
    <2>1. \A p \in 1..Len(pd) : pd[p] # 0 => Up(NameOf(es, pd[p])) = <<>>
      BY <1>1, ItemFacts
    <2> QED BY <1>2, <1>4, <2>1 DEF Leaves
  <1>6. Left(es, pd, none) /\ none \in SUBSET DOMAIN es
    BY DEF Left
  <1>7. After(<<>>) = Client(ctx[1], 0, {Item(es, i) : i \in none})
    BY <1>3, AfterNone
  <1> HIDE DEF none
  <1>8. \A i \in none : NameOf(es, i) # <<>> /\ (es[i].dir <=> tree[NameOf(es, i)].dir)
    BY DEF none
  <1> QED BY <1>5, <1>6, <1>7, <1>8 DEF Sent

(* An entry more is written. *)
LEMMA SentMore ==
  ASSUME NEW es, NEW pd \in Seq(Nat), pd # <<>>, NEW done \in SUBSET DOMAIN es,
         Left(es, pd, done), NEW i \in DOMAIN es, i = Head(pd),
         NameOf(es, i) # <<>>, es[i].dir <=> tree[NameOf(es, i)].dir,
         \A k \in done : NameOf(es, k) # <<>> /\ (es[k].dir <=> tree[NameOf(es, k)].dir),
         NEW pd1, Range(Tail(pd)) \subseteq Range(pd1),
         \A k \in DOMAIN es : es[k].parent = i => k \in Range(pd1),
         NEW ctx, Leaves(es, pd1, ctx), NEW o,
         After(o) = Client(ctx[1], 0, {Item(es, k) : k \in done} \cup {Item(es, i)})
  PROVE  Sent(es, pd1, o)
  <1> DEFINE more == done \cup {i}
  <1>1. Range(pd) = {i} \cup Range(Tail(pd))
    BY QueueRange
  <1>2. Left(es, pd1, more)
    <2> SUFFICES ASSUME NEW k \in DOMAIN es \ more
                 PROVE  k \in Range(pd1) \/ (es[k].parent # 0 /\ es[k].parent \notin more)
      BY DEF Left
    <2>1. k \in Range(pd) \/ (es[k].parent # 0 /\ es[k].parent \notin done)
      BY DEF Left
    <2> QED BY <1>1, <2>1
  <1>3. {Item(es, k) : k \in done} \cup {Item(es, i)} = {Item(es, k) : k \in more}
    OBVIOUS
  <1>4. \A k \in more : NameOf(es, k) # <<>> /\ (es[k].dir <=> tree[NameOf(es, k)].dir)
    OBVIOUS
  <1>5. more \in SUBSET DOMAIN es
    OBVIOUS
  <1> HIDE DEF more
  <1>6. After(o) = Client(ctx[1], 0, {Item(es, k) : k \in more})
    BY <1>3
  <1> QED BY <1>2, <1>4, <1>5, <1>6 DEF Sent

(* The entries of a directory and its end join those that are left. *)
LEMMA WithinRange ==
  ASSUME NEW ch \in Seq(Nat), NEW s \in Seq(Nat), s # <<>>
  PROVE  Range(Within(ch, Tail(s))) = Range(ch) \cup {0} \cup Range(Tail(s))
  <1> DEFINE e == ch \o <<0>>
  <1>1. e = Append(ch, 0) /\ e \in Seq(Nat) /\ 0 \in Nat
    OBVIOUS
  <1>2. Range(Append(ch, 0)) = Range(ch) \cup {0}
    <2>1. \A q \in Seq(Nat), x \in Nat : Range(Append(q, x)) = Range(q) \cup {x}
      BY RangeAppend
    <2> QED BY <1>1, <2>1
  <1>3. Within(ch, Tail(s)) = e \o Tail(s)
    BY DEF Within
  <1> HIDE DEF e
  <1>4. e \in Seq(Nat)
    BY <1>1
  <1>5. Range(e \o Tail(s)) = Range(e) \cup Range(Tail(s))
    BY <1>4, QueueRange
  <1> QED BY <1>1, <1>2, <1>3, <1>5

(* A directory is opened before what is in it is written, *)
LEMMA SentDir ==
  ASSUME Ground, NEW es, EntriesOf(es), NEW pd \in Seq(Nat), pd # <<>>,
         NEW o, \E S : o \in Seq(S), Sent(es, pd, o),
         NEW i \in DOMAIN es, i = Head(pd), es[i].dir,
         NEW ch \in Seq(Nat), Range(ch) = {j \in DOMAIN es : es[j].parent = i},
         NEW o1, o1 = Opening(o, es[i])
  PROVE  Sent(es, Within(ch, Tail(pd)), o1) /\ \E S : o1 \in Seq(S)
  <1> DEFINE b == NameOf(es, i)
             t == Tail(pd)
             pd1 == Within(ch, t)
  <1>1. PICK done, ctx :
            /\ done \in SUBSET DOMAIN es
            /\ Leaves(es, pd, ctx) /\ Left(es, pd, done)
            /\ After(o) = Client(ctx[1], 0, {Item(es, k) : k \in done})
            /\ \A k \in done : NameOf(es, k) # <<>> /\ (es[k].dir <=> tree[NameOf(es, k)].dir)
    BY DEF Sent
  <1>2. /\ b # <<>> /\ i \in Nat \ {0} /\ es[i].time \in Nat /\ tree[b].dir
        /\ Append(Up(b), es[i].name) = At(b) /\ Front(At(b)) = Up(b)
    BY ItemFacts
  <1>3. PICK c0 : /\ Leaves(es, Tail(pd), c0)
                  /\ c0[1] = ctx[1] /\ Up(b) = ctx[1]
    <2>1. Head(pd) # 0
      BY <1>2
    <2>2. \E c : /\ Leaves(es, Tail(pd), c)
                 /\ c[1] = IF Head(pd) = 0 THEN Front(ctx[1]) ELSE ctx[1]
                 /\ Head(pd) # 0 => Up(NameOf(es, Head(pd))) = ctx[1]
      BY <1>1, LeavesTail
    <2> QED BY <2>1, <2>2
  <1>4. t \in Seq(Nat) /\ Leaves(es, t, c0)
    BY <1>3
  <1>5. \A j \in Range(ch) : j # 0 /\ Up(NameOf(es, j)) = At(b)
    <2> TAKE j \in Range(ch)
    <2>1. j \in DOMAIN es /\ es[j].parent = i
      OBVIOUS
    <2> QED BY <1>2, <2>1, ItemFacts
  <1>6. Range(pd1) = Range(ch) \cup {0} \cup Range(t)
    BY WithinRange
  <1>7. \E c : Leaves(es, Within(ch, t), c) /\ c[1] = At(b)
    <2>1. Front(At(b)) = c0[1]
      BY <1>2, <1>3
    <2> DEFINE w == At(b)
    <2>2. t \in Seq(Nat)
      BY <1>4
    <2>3. Leaves(es, t, c0)
      BY <1>4
    <2>5. Front(w) = c0[1]
      BY <2>1
    <2>6. AllIn(es, ch, w)
      BY <1>5 DEF AllIn
    <2> HIDE DEF t, w
    <2>4. \E c : Leaves(es, Within(ch, t), c) /\ c[1] = w
      BY <2>2, <2>3, <2>5, <2>6, LeavesDir
    <2> QED BY <2>4 DEF w
  <1>8. PICK ctx1 : Leaves(es, pd1, ctx1) /\ ctx1[1] = At(b)
    BY <1>7
  <1> DEFINE e == es[i]
             got == {Item(es, k) : k \in done}
             x == [at |-> Append(ctx[1], e.name), dir |-> TRUE, size |-> 0, time |-> e.time]
  <1>9. After(o1) = Client(Append(ctx[1], e.name), 0, got \cup {x}) /\ \E S : o1 \in Seq(S)
    <2> HIDE DEF got
    <2>1. After(o) = Client(ctx[1], 0, got)
      BY <1>1 DEF got
    <2>2. e.time \in Nat
      BY <1>2
    <2>3. o1 = Opening(o, e)
      OBVIOUS
    <2> HIDE DEF e
    <2> DEFINE w == ctx[1]
    <2> HIDE DEF w
    <2>4. After(o) = Client(w, 0, got)
      BY <2>1 DEF w
    <2>5. /\ After(Opening(o, e)) =
               Client(Append(w, e.name), 0,
                      got \cup {[at |-> Append(w, e.name), dir |-> TRUE, size |-> 0,
                                 time |-> e.time]})
          /\ \E S : Opening(o, e) \in Seq(S)
      BY <2>2, <2>4, ReadDir
    <2> QED BY <2>3, <2>5 DEF w
  <1>10. x = Item(es, i) /\ Append(ctx[1], es[i].name) = ctx1[1]
    BY <1>2, <1>3, <1>8 DEF Item
  <1>11. After(o1) = Client(ctx1[1], 0, {Item(es, k) : k \in done} \cup {Item(es, i)})
    BY <1>9, <1>10
  <1> HIDE DEF pd1
  <1>12. Sent(es, pd1, o1)
    <2>1. Range(Tail(pd)) \subseteq Range(pd1) /\ \A k \in DOMAIN es : es[k].parent = i => k \in Range(pd1)
      BY <1>6
    <2> HIDE DEF got, x, t
    <2> QED BY <1>1, <1>2, <1>8, <1>11, <2>1, SentMore
  <1> QED BY <1>9, <1>12 DEF pd1

(* its end brings the client back to where it was, *)
LEMMA SentEnd ==
  ASSUME Ground, NEW es, EntriesOf(es), NEW pd \in Seq(Nat), pd # <<>>, Head(pd) = 0,
         NEW o, \E S : o \in Seq(S), Sent(es, pd, o),
         NEW o1, o1 = Append(o, Says("E", "", 0))
  PROVE  Sent(es, Tail(pd), o1) /\ \E S : o1 \in Seq(S)
  <1>1. PICK done, ctx :
            /\ done \in SUBSET DOMAIN es
            /\ Leaves(es, pd, ctx) /\ Left(es, pd, done)
            /\ After(o) = Client(ctx[1], 0, {Item(es, k) : k \in done})
            /\ \A k \in done : NameOf(es, k) # <<>> /\ (es[k].dir <=> tree[NameOf(es, k)].dir)
    BY DEF Sent
  <1>2. PICK c : Leaves(es, Tail(pd), c) /\ c[1] = Front(ctx[1])
    <2>1. \E c : /\ Leaves(es, Tail(pd), c)
                 /\ c[1] = IF Head(pd) = 0 THEN Front(ctx[1]) ELSE ctx[1]
                 /\ Head(pd) # 0 => Up(NameOf(es, Head(pd))) = ctx[1]
      BY <1>1, LeavesTail
    <2> QED BY <2>1
  <1>3. After(o1) = Client(Front(ctx[1]), 0, {Item(es, k) : k \in done}) /\ \E S : o1 \in Seq(S)
    <2> DEFINE got == {Item(es, k) : k \in done}
               w == ctx[1]
    <2>1. After(o) = Client(w, 0, got)
      BY <1>1
    <2> HIDE DEF got, w
    <2>2. After(o1) = Client(Front(w), 0, got) /\ \E S : o1 \in Seq(S)
      BY <2>1, ReadEnd
    <2> QED BY <2>2 DEF got, w
  <1>4. Left(es, Tail(pd), done)
    <2>1. Range(pd) = {0} \cup Range(Tail(pd))
      BY QueueRange
    <2>2. 0 \notin DOMAIN es
      <3>1. \A k \in DOMAIN es : k \in Nat \ {0}
        BY ItemFacts
      <3> QED BY <3>1
    <2> QED BY <1>1, <2>1, <2>2 DEF Left
  <1>5. After(o1) = Client(c[1], 0, {Item(es, k) : k \in done})
    BY <1>2, <1>3
  <1>6. Sent(es, Tail(pd), o1)
    BY <1>1, <1>2, <1>4, <1>5 DEF Sent
  <1> QED BY <1>3, <1>6

(* and a file is put in its directory. *)
LEMMA SentFile ==
  ASSUME Ground, NEW es, EntriesOf(es), NEW pd \in Seq(Nat), pd # <<>>,
         NEW o, \E S : o \in Seq(S), Sent(es, pd, o),
         NEW i \in DOMAIN es, i = Head(pd), ~ es[i].dir, ~ tree[NameOf(es, i)].dir,
         NEW length, NEW o1, o1 = Copying(o, es[i], length)
  PROVE  Sent(es, Tail(pd), o1) /\ \E S : o1 \in Seq(S)
  <1> DEFINE b == NameOf(es, i)
             t == Tail(pd)
  <1>1. PICK done, ctx :
            /\ done \in SUBSET DOMAIN es
            /\ Leaves(es, pd, ctx) /\ Left(es, pd, done)
            /\ After(o) = Client(ctx[1], 0, {Item(es, k) : k \in done})
            /\ \A k \in done : NameOf(es, k) # <<>> /\ (es[k].dir <=> tree[NameOf(es, k)].dir)
    BY DEF Sent
  <1>2. /\ b # <<>> /\ i \in Nat \ {0} /\ es[i].time \in Nat
        /\ Append(Up(b), es[i].name) = At(b) /\ es[i].dir = FALSE
    BY ItemFacts
  <1>3. PICK c : Leaves(es, t, c) /\ c[1] = ctx[1] /\ Up(b) = ctx[1]
    <2>1. Head(pd) # 0
      BY <1>2
    <2>2. \E c : /\ Leaves(es, Tail(pd), c)
                 /\ c[1] = IF Head(pd) = 0 THEN Front(ctx[1]) ELSE ctx[1]
                 /\ Head(pd) # 0 => Up(NameOf(es, Head(pd))) = ctx[1]
      BY <1>1, LeavesTail
    <2> QED BY <2>1, <2>2
  <1> DEFINE e == es[i]
             got == {Item(es, k) : k \in done}
             x == [at |-> Append(ctx[1], e.name), dir |-> FALSE, size |-> e.size, time |-> e.time]
  <1>4. After(o1) = Client(ctx[1], 0, got \cup {x}) /\ \E S : o1 \in Seq(S)
    <2> HIDE DEF got
    <2>2. e.time \in Nat
      BY <1>2
    <2>3. o1 = Copying(o, e, length)
      OBVIOUS
    <2> HIDE DEF e
    <2> DEFINE w == ctx[1]
    <2> HIDE DEF w
    <2>4. After(o) = Client(w, 0, got)
      BY <1>1 DEF w, got
    <2>5. /\ After(Copying(o, e, length)) =
               Client(w, 0, got \cup {[at |-> Append(w, e.name), dir |-> FALSE, size |-> e.size,
                                       time |-> e.time]})
          /\ \E S : Copying(o, e, length) \in Seq(S)
      BY <2>2, <2>4, ReadFile
    <2> QED BY <2>3, <2>5 DEF w
  <1>5. x = Item(es, i)
    BY <1>2, <1>3 DEF Item
  <1>6. After(o1) = Client(c[1], 0, {Item(es, k) : k \in done} \cup {Item(es, i)})
    BY <1>3, <1>4, <1>5
  <1>7. \A k \in DOMAIN es : es[k].parent # i
    <2> TAKE k \in DOMAIN es
    <2>1. es[k].parent # 0 => es[es[k].parent].dir
      BY ItemFacts
    <2> QED BY <1>2, <2>1
  <1>8. Sent(es, t, o1)
    <2> HIDE DEF got, x
    <2> QED BY <1>1, <1>2, <1>3, <1>6, <1>7, SentMore
  <1> QED BY <1>4, <1>8

(* When nothing is left to write, every entry has been. *)
LEMMA NothingLeft ==
  ASSUME Ground, NEW es, EntriesOf(es), \A i \in DOMAIN es : es[i].parent < i,
         NEW done \in SUBSET DOMAIN es, Left(es, <<>>, done)
  PROVE  done = DOMAIN es
  <1> DEFINE K == DOMAIN es \ done
  <1>1. SUFFICES ASSUME K # {} PROVE FALSE
    OBVIOUS
  <1>2. \A k \in DOMAIN es : /\ k \in Nat \ {0}
                             /\ es[k].parent # 0 => es[k].parent \in DOMAIN es
    BY ItemFacts
  <1>3. Min(K) \in K /\ \A y \in K : Min(K) <= y
    <2>1. K \subseteq Nat
      BY <1>2
    <2> HIDE DEF K
    <2> QED BY <1>1, <2>1, LeastOf
  <1> DEFINE i == Min(K)
  <1>4. i \in DOMAIN es \ done /\ \A y \in K : i <= y
    BY <1>3
  <1> HIDE DEF i
  <1>5. i \notin Range(<<>>)
    BY DEF Range
  <1>6. es[i].parent # 0 /\ es[i].parent \notin done
    BY <1>4, <1>5 DEF Left
  <1>7. es[i].parent \in K /\ es[i].parent \in Nat /\ i \in Nat /\ es[i].parent < i
    BY <1>2, <1>4, <1>6
  <1> HIDE DEF K
  <1>8. i <= es[i].parent
    BY <1>4, <1>7
  <1> QED BY <1>7, <1>8

(* Then the client has the files it asked for. *)
LEMMA SentAll ==
  ASSUME Ground, NEW es, EntriesOf(es), \A i \in DOMAIN es : es[i].parent < i,
         \A f \in Wanted \ {<<>>} : Has(es, f) # {},
         NEW o, Sent(es, <<>>, o)
  PROVE  After(o).got = Expected
  <1> DEFINE Of(f) == [at |-> At(f), dir |-> tree[f].dir,
                       size |-> IF tree[f].dir THEN 0 ELSE tree[f].size, time |-> tree[f].time]
             Copied(m) == {f \in DOMAIN tree : f # <<>> /\ (f = m \/ (info.recursive /\ IsPrefix(m, f)))}
             Start(m) == IF m = <<>> THEN 0 ELSE Len(m) - 1
  <1>1. PICK done, ctx :
            /\ done \in SUBSET DOMAIN es
            /\ Left(es, <<>>, done)
            /\ After(o) = Client(ctx[1], 0, {Item(es, k) : k \in done})
            /\ \A k \in done : NameOf(es, k) # <<>> /\ (es[k].dir <=> tree[NameOf(es, k)].dir)
    BY DEF Sent
  <1>2. done = DOMAIN es
    BY <1>1, NothingLeft
  <1>3. After(o).got = {Item(es, k) : k \in DOMAIN es}
    BY <1>1, <1>2 DEF Client
  <1>4. ASSUME NEW k \in DOMAIN es
        PROVE  /\ NameOf(es, k) \in Wanted \ {<<>>}
               /\ Item(es, k) = Of(NameOf(es, k))
    <2> DEFINE b == NameOf(es, k)
    <2>1. /\ b \in Wanted /\ b \in DOMAIN tree
          /\ es[k].time = tree[b].time /\ es[k].size = tree[b].size /\ es[k].dir \in BOOLEAN
      BY ItemFacts
    <2>2. b # <<>> /\ (es[k].dir <=> tree[b].dir)
      BY <1>1, <1>2
    <2>3. tree[b].dir \in BOOLEAN
      BY <2>1, TreeFacts DEF Ground
    <2>4. es[k].dir = tree[b].dir
      BY <2>1, <2>2, <2>3
    <2> QED BY <2>1, <2>2, <2>4 DEF Item
  <1>5. {Item(es, k) : k \in DOMAIN es} = {Of(f) : f \in Wanted \ {<<>>}}
    <2>1. ASSUME NEW f \in Wanted \ {<<>>} PROVE \E k \in DOMAIN es : Item(es, k) = Of(f)
      <3>1. PICK k \in DOMAIN es : NameOf(es, k) = f
        BY DEF Has
      <3> HIDE DEF Of
      <3> QED BY <1>4, <3>1
    <2> HIDE DEF Of
    <2> QED BY <1>4, <2>1
  <1>6. ASSUME NEW m \in AskedFiles PROVE Start(m) = Cut
    BY AskedDepth DEF Cut
  <1>7. UNION {Copied(m) : m \in AskedFiles} = Wanted \ {<<>>}
    BY DEF Wanted
  <1> DEFINE Given(m) == {[at |-> SubSeq(f, Start(m) + 1, Len(f)), dir |-> tree[f].dir,
                           size |-> IF tree[f].dir THEN 0 ELSE tree[f].size,
                           time |-> tree[f].time] : f \in Copied(m)}
  <1>8. Expected = UNION {Given(m) : m \in AskedFiles}
    BY DEF Expected
  <1>9. ASSUME NEW m \in AskedFiles PROVE Given(m) = {Of(f) : f \in Copied(m)}
    BY <1>6 DEF At
  <1>10. Expected = UNION {{Of(f) : f \in Copied(m)} : m \in AskedFiles}
    <2> HIDE DEF Given, Of, Copied, Start
    <2> QED BY <1>8, <1>9
  <1>11. UNION {{Of(f) : f \in Copied(m)} : m \in AskedFiles}
            = {Of(f) : f \in UNION {Copied(m) : m \in AskedFiles}}
    <2> HIDE DEF Of, Copied
    <2> QED OBVIOUS
  <1> HIDE DEF Of, Copied
  <1> QED BY <1>3, <1>5, <1>7, <1>10, <1>11
-----------------------------------------------------------------------------
(* The whole copy *)

(* What the files and the command determine changes with nothing else. *)
LEMMA GroundKept ==
  ASSUME UNCHANGED <<setup, tree>>
  PROVE  /\ Apart' <=> Apart
         /\ Ground' <=> Ground
         /\ Wanted' = Wanted /\ Cut' = Cut /\ Expected' = Expected /\ info' = info
         /\ \A b : Loc(b)' = Loc(b)
         /\ \A l : Below(l)' = Below(l)
  <1>1. AskedFiles' = AskedFiles /\ info' = info /\ \A l : Below(l)' = Below(l)
    BY AskedKept
  <1>2. Asked' = Asked
    BY <1>1 DEF Asked, setup, Below
  <1>3. Apart' <=> Apart
    BY <1>2 DEF Apart, Distinguishable, setup
  <1>4. Ground' <=> Ground
    BY <1>2, <1>3 DEF Ground, Setup, setup
  <1>5. Wanted' = Wanted /\ Cut' = Cut
    BY <1>1, <1>2 DEF Wanted, Cut
  <1>6. Expected' = Expected
    BY <1>1 DEF Expected
  <1>7. \A b : Loc(b)' = Loc(b)
    BY DEF Loc, setup
  <1> QED BY <1>1, <1>3, <1>4, <1>5, <1>6, <1>7

(* Entries and calls are about the same files. *)
LEMMA GatheredKept ==
  ASSUME UNCHANGED <<setup, tree>>, NEW es, NEW Q
  PROVE  Gathered(es, Q)' <=> Gathered(es, Q)
  <1>1. /\ Wanted' = Wanted /\ Cut' = Cut /\ info' = info
        /\ (\A b : Loc(b)' = Loc(b)) /\ (\A l : Below(l)' = Below(l))
    BY GroundKept
  <1>2. \A b : Has(es, b)' = Has(es, b)
    BY <1>1 DEF Has, NameOf
  <1>3. \A b : Parent(es, b)' = Parent(es, b)
    BY <1>1, <1>2 DEF Parent
  <1>4. EntriesOf(es)' <=> EntriesOf(es)
    BY <1>1, <1>2, <1>3 DEF EntriesOf, EntryOf
  <1>5. \A q, b : Leads(q, b)' <=> Leads(q, b)
    BY <1>1 DEF Leads
  <1>6. \A q : CallOf(es, q)' <=> CallOf(es, q)
    BY <1>1, <1>2, <1>5 DEF CallOf
  <1>7. \A q, f : Ahead(q, f)' <=> Ahead(q, f)
    BY <1>1, <1>5 DEF Ahead
  <1> QED BY <1>1, <1>2, <1>4, <1>6, <1>7 DEF Gathered

(* What the client has is told the same way. *)
LEMMA SentKept ==
  ASSUME UNCHANGED <<setup, tree>>, NEW es, NEW pd, NEW o
  PROVE  Sent(es, pd, o)' <=> Sent(es, pd, o)
  <1>1. Cut' = Cut /\ \A l : Below(l)' = Below(l)
    BY GroundKept
  <1>2. \A i : NameOf(es, i)' = NameOf(es, i)
    BY <1>1 DEF NameOf
  <1>3. \A b : At(b)' = At(b) /\ Up(b)' = Up(b)
    BY <1>1 DEF At, Up
  <1>4. \A i : Item(es, i)' = Item(es, i)
    BY <1>2, <1>3 DEF Item
  <1>5. \A ctx : Leaves(es, pd, ctx)' <=> Leaves(es, pd, ctx)
    BY <1>2, <1>3 DEF Leaves
  <1>6. \A done : {Item(es, i) : i \in done}' = {Item(es, i) : i \in done}
    BY <1>4
  <1> QED BY <1>2, <1>5, <1>6 DEF Sent

-----------------------------------------------------------------------------
(* The entries lead to all that is wanted until they are complete, and then *)
(* the client gets what they are of.                                       *)
Copies == /\ phase = "entries" => Ground /\ Gathered(entries, Range(todo))
          /\ phase = "write" => Ground /\ Gathered(entries, {}) /\ Sent(entries, pending, out)
          /\ phase = "done" => Received = Expected

TreeInv == /\ FoundInv
           /\ \E S : out \in Seq(S)
           /\ phase \in {"start", "glob", "entries"} => out = <<>>
           /\ changed = {} => tree \in Trees /\ (Apart => Copies)

(* The steps that leave the files alone *)
LEMMA CopiesNext ==
  ASSUME FoundInv', UNCHANGED <<setup, tree, changed>>, TreeInv,
         \E S : out' \in Seq(S),
         phase' \in {"start", "glob", "entries"} => out' = <<>>,
         changed = {} /\ tree \in Trees /\ Apart =>
           /\ phase' = "entries" => Ground /\ Gathered(entries', Range(todo'))
           /\ phase' = "write" => Ground /\ Gathered(entries', {}) /\ Sent(entries', pending', out')
           /\ phase' = "done" => After(out').got = Expected
  PROVE  TreeInv'
  <1>1. (Apart' <=> Apart) /\ (Ground' <=> Ground) /\ Expected' = Expected
    BY GroundKept
  <1>2. \A es, Q : Gathered(es, Q)' <=> Gathered(es, Q)
    BY GatheredKept
  <1>3. \A es, pd, o : Sent(es, pd, o)' <=> Sent(es, pd, o)
    BY SentKept
  <1>4. Received' = After(out').got
    BY DEF Received, After
  <1>5. changed = {} /\ tree \in Trees /\ Apart => Copies'
    BY <1>1, <1>2, <1>3, <1>4 DEF Copies
  <1> QED BY <1>1, <1>5 DEF TreeInv

(* What an entry left to write is of *)
LEMMA NextEntry ==
  ASSUME SourceInv, Writes
  PROVE  /\ Head(pending) \in DOMAIN entries /\ pending \in Seq(Nat) /\ pending # <<>>
         /\ This = entries[Head(pending)] /\ This.loc = entries[Head(pending)].loc
  <1>1. pending \in Seq(Nat) /\ pending # <<>> /\ Head(pending) # 0
        /\ Range(pending) \subseteq DOMAIN entries \cup {0}
    BY DEF SourceInv, Writing, Writes
  <1>2. Head(pending) \in Range(pending)
    <2>1. <<>> \in Seq(Nat)
      OBVIOUS
    <2> QED BY <1>1, <2>1, Queue
  <1> QED BY <1>1, <1>2 DEF This

(* The copy starts from what Glob finds. *)
LEMMA GlobCopies ==
  ASSUME TreeInv, Glob
  PROVE  TreeInv'
  <1>1. FoundInv'
    BY FoundStep DEF TreeInv, Next
  <1>2. /\ UNCHANGED <<setup, tree, changed>> /\ out' = out /\ out = <<>>
        /\ phase' \in {"refused", "entries", "failed"}
    BY DEF Glob, TreeInv
  <1>3. ASSUME changed = {}, tree \in Trees, Apart, phase' = "entries"
        PROVE  Ground /\ Gathered(entries', Range(todo'))
    <2>1. Setup /\ info.path \in Paths(Strings)
      BY InfoPath DEF TreeInv, FoundInv, SourceInv, Setup, Control, Glob
    <2>2. Resolve(info.path).ok
      BY <1>3 DEF Glob
    <2> DEFINE loc == Resolve(info.path).loc
    <2>3. loc \in Paths(Strings) /\ Longer(loc) /\ Below(loc) = Asked
      BY <2>1, <2>2, AskedPlace
    <2> HIDE DEF loc
    <2>4. Below(loc) \in Seq(Strings)
      BY <2>1, <2>3, BelowNames DEF Setup
    <2>5. Ground
      BY <1>3, <2>1, <2>3, <2>4 DEF Ground
    <2> QED BY <1>3, <2>5, GlobGathers DEF TreeInv
  <1>4. \E S : out' \in Seq(S)
    BY <1>2 DEF TreeInv
  <1>5. phase' # "write" /\ phase' # "done"
    BY <1>2
  <1> QED BY <1>1, <1>2, <1>3, <1>4, <1>5, CopiesNext

(* The walks gather the entries. *)
LEMMA WalkCopies ==
  ASSUME TreeInv, OpenMatch \/ WalkDir \/ VisitRoot \/ VisitDir \/ VisitFile
  PROVE  TreeInv'
  <1>1. FoundInv'
    BY FoundStep DEF TreeInv, Next
  <1>2. /\ UNCHANGED <<setup, tree, changed>> /\ out' = out /\ phase = "entries"
        /\ phase' = "entries"
    BY DEF OpenMatch, WalkDir, VisitRoot, VisitDir, VisitFile, Calls
  <1>3. ASSUME changed = {}, tree \in Trees, Apart
        PROVE  Ground /\ Gathered(entries', Range(todo'))
    <2>1. Ground /\ Gathered(entries, Range(todo))
      BY <1>2, <1>3 DEF TreeInv, Copies
    <2> QED BY <2>1, StepGathers DEF TreeInv, FoundInv
  <1>4. \E S : out' \in Seq(S)
    BY <1>2 DEF TreeInv
  <1> QED BY <1>1, <1>2, <1>3, <1>4, CopiesNext DEF TreeInv

(* Writing begins when no call is left. *)
LEMMA RootCopies ==
  ASSUME TreeInv, WriteRoot
  PROVE  TreeInv'
  <1>1. FoundInv' /\ Placed
    BY FoundStep DEF TreeInv, Next, FoundInv, SourceInv
  <1>2. /\ UNCHANGED <<setup, tree, changed>> /\ out' = out /\ entries' = entries
        /\ phase = "entries" /\ phase' = "write" /\ todo = <<>> /\ pending' = Children(0)
        /\ out = <<>>
    BY DEF WriteRoot, TreeInv
  <1>3. ASSUME changed = {}, tree \in Trees, Apart
        PROVE  Ground /\ Gathered(entries, {}) /\ Sent(entries, pending', <<>>)
    <2>1. Ground /\ Gathered(entries, Range(todo))
      BY <1>2, <1>3 DEF TreeInv, Copies
    <2>2. Range(<<>>) = {}
      BY DEF Range
    <2>3. Gathered(entries, {})
      BY <1>2, <2>1, <2>2
    <2>4. EntriesOf(entries)
      BY <2>3 DEF Gathered
    <2>5. pending' \in Seq(Nat) /\ Range(pending') = {i \in DOMAIN entries : entries[i].parent = 0}
      BY <1>1, <1>2, ChildrenIn
    <2> QED BY <2>1, <2>3, <2>4, <2>5, SentStart
  <1>4. \E S : out' \in Seq(S)
    BY <1>2 DEF TreeInv
  <1> QED BY <1>1, <1>2, <1>3, <1>4, CopiesNext

(* Messages after messages are messages. *)
LEMMA Concat ==
  ASSUME NEW o, \E S : o \in Seq(S), NEW t, \E S : t \in Seq(S)
  PROVE  \E S : o \o t \in Seq(S)
  <1>1. PICK S : o \in Seq(S)
    OBVIOUS
  <1>2. PICK T : t \in Seq(T)
    OBVIOUS
  <1> DEFINE U == S \cup T
  <1>3. S \subseteq U /\ T \subseteq U
    OBVIOUS
  <1> HIDE DEF U
  <1>4. o \in Seq(U)
    BY <1>1, <1>3, LargerSeq
  <1>5. t \in Seq(U)
    BY <1>2, <1>3, LargerSeq
  <1>6. o \o t \in Seq(U)
    BY <1>4, <1>5, ConcatNames
  <1> QED BY <1>6

(* What is sent is a sequence of messages. *)
LEMMA OutGrows ==
  ASSUME \E S : out \in Seq(S), WriteDir \/ WriteDirEnd \/ WriteFile \/ ReadFails
  PROVE  \E S : out' \in Seq(S)
  <1> DEFINE o == out \o Times(This)
             d == <<Says("D", This.name, 0)>>
             h == <<Says("C", This.name, This.size)>>
             f == <<Says("C", This.name, This.size),
                    Says("data", "", tree[Below(This.loc)].size), Says("NUL", "", 0)>>
             x == Says("E", "", 0)
  <1>1. out' = o \o d \/ out' = o \o h \/ out' = o \o f \/ out' = Append(out, x)
    BY DEF WriteDir, WriteDirEnd, WriteFile, ReadFails
  <1>2. \E S : o \in Seq(S)
    <2> DEFINE t == Times(This)
    <2>1. t = <<>> \/ t = <<Says("T", "", This.time)>>
      BY DEF Times
    <2>2. <<>> \in Seq({}) /\ <<Says("T", "", This.time)>> \in Seq({Says("T", "", This.time)})
      OBVIOUS
    <2> HIDE DEF t
    <2>3. \E S : t \in Seq(S)
      BY <2>1, <2>2
    <2>4. \E S : out \o t \in Seq(S)
      BY <2>3, Concat
    <2> QED BY <2>4 DEF t
  <1>3. \E S : d \in Seq(S)
    <2>1. d \in Seq({d[1]})
      OBVIOUS
    <2> QED BY <2>1
  <1>4. \E S : h \in Seq(S)
    <2>1. h \in Seq({h[1]})
      OBVIOUS
    <2> QED BY <2>1
  <1>5. \E S : f \in Seq(S)
    <2>1. f \in Seq({f[1], f[2], f[3]})
      OBVIOUS
    <2> QED BY <2>1
  <1>6. \E S : Append(out, x) \in Seq(S)
    <2>1. PICK S : out \in Seq(S)
      OBVIOUS
    <2> DEFINE U == S \cup {x}
    <2>2. S \subseteq U /\ x \in U
      OBVIOUS
    <2> HIDE DEF U, x
    <2>3. out \in Seq(U)
      BY <2>1, <2>2, LargerSeq
    <2>4. Append(out, x) \in Seq(U)
      BY <2>2, <2>3
    <2> QED BY <2>4
  <1> HIDE DEF o, d, h, f, x
  <1>7. \E S : o \o d \in Seq(S)
    BY <1>2, <1>3, Concat
  <1>8. \E S : o \o h \in Seq(S)
    BY <1>2, <1>4, Concat
  <1>9. \E S : o \o f \in Seq(S)
    BY <1>2, <1>5, Concat
  <1> QED BY <1>1, <1>6, <1>7, <1>8, <1>9

(* Each message is sent where it belongs. *)
LEMMA MessageCopies ==
  ASSUME TreeInv, WriteDir \/ WriteDirEnd \/ WriteFile
  PROVE  TreeInv'
  <1>1. FoundInv' /\ Placed /\ SourceInv /\ \E S : out \in Seq(S)
    BY FoundStep DEF TreeInv, Next, FoundInv, SourceInv
  <1>2. /\ UNCHANGED <<setup, tree, changed>> /\ entries' = entries
        /\ phase = "write" /\ phase' = "write"
    BY DEF WriteDir, WriteDirEnd, WriteFile, Writes
  <1>3. \E S : out' \in Seq(S)
    BY <1>1, OutGrows
  <1>4. ASSUME changed = {}, tree \in Trees, Apart
        PROVE  /\ Ground /\ Gathered(entries, {}) /\ EntriesOf(entries)
               /\ Sent(entries, pending', out')
    <2>1. Ground /\ Gathered(entries, {}) /\ Sent(entries, pending, out) /\ EntriesOf(entries)
      BY <1>2, <1>4 DEF TreeInv, Copies, Gathered
    <2>2. CASE WriteDir
      <3> DEFINE i == Head(pending)
                 ch == Children(i)
      <3>1. i \in DOMAIN entries /\ pending \in Seq(Nat) /\ pending # <<>> /\ This = entries[i]
        BY <1>1, <2>2, NextEntry DEF WriteDir
      <3>2. /\ entries[i].dir /\ out' = Opening(out, entries[i])
            /\ pending' = Within(ch, Tail(pending))
        BY <2>2, <3>1 DEF WriteDir, Opening, Within
      <3>3. ch \in Seq(Nat) /\ Range(ch) = {j \in DOMAIN entries : entries[j].parent = i}
        BY <1>1, ChildrenIn
      <3> HIDE DEF ch
      <3>4. Sent(entries, Within(ch, Tail(pending)), out')
        BY <1>1, <2>1, <3>1, <3>2, <3>3, SentDir
      <3> QED BY <2>1, <3>2, <3>4
    <2>3. CASE WriteDirEnd
      <3>1. /\ pending # <<>> /\ Head(pending) = 0 /\ pending' = Tail(pending)
            /\ out' = Append(out, Says("E", "", 0)) /\ pending \in Seq(Nat)
        BY <1>1, <2>3 DEF WriteDirEnd, SourceInv, Writing
      <3>2. Sent(entries, Tail(pending), out')
        BY <1>1, <2>1, <3>1, SentEnd
      <3> QED BY <2>1, <3>1, <3>2
    <2>4. CASE WriteFile
      <3> DEFINE i == Head(pending)
                 length == tree[Below(This.loc)].size
      <3>1. i \in DOMAIN entries /\ pending \in Seq(Nat) /\ pending # <<>> /\ This = entries[i]
        BY <1>1, <2>4, NextEntry DEF WriteFile
      <3>2. /\ ~ entries[i].dir /\ out' = Copying(out, entries[i], length)
            /\ pending' = Tail(pending) /\ ~ tree[NameOf(entries, i)].dir
        BY <2>4, <3>1 DEF WriteFile, Copying, IsDir, NameOf
      <3> HIDE DEF length
      <3>3. Sent(entries, Tail(pending), out')
        BY <1>1, <2>1, <3>1, <3>2, SentFile
      <3> QED BY <2>1, <3>2, <3>3
    <2> QED BY <2>2, <2>3, <2>4
  <1>5. entries' = entries
    BY <1>2
  <1> QED BY <1>1, <1>2, <1>3, <1>4, <1>5, CopiesNext

(* When nothing is left to write, the client has what it asked for. *)
LEMMA DoneCopies ==
  ASSUME TreeInv, Done
  PROVE  TreeInv'
  <1>1. FoundInv' /\ Placed
    BY FoundStep DEF TreeInv, Next, FoundInv, SourceInv
  <1>2. /\ UNCHANGED <<setup, tree, changed>> /\ out' = out
        /\ phase = "write" /\ pending = <<>> /\ phase' = "done"
    BY DEF Done, Return
  <1>3. ASSUME changed = {}, tree \in Trees, Apart PROVE After(out').got = Expected
    <2>1. Ground /\ Gathered(entries, {}) /\ Sent(entries, <<>>, out)
      BY <1>2, <1>3 DEF TreeInv, Copies
    <2>2. EntriesOf(entries) /\ \A f \in Wanted \ {<<>>} : Has(entries, f) # {}
      BY <2>1 DEF Gathered
    <2>3. \A i \in DOMAIN entries : entries[i].parent < i
      BY <1>1 DEF Placed
    <2> QED BY <1>2, <2>1, <2>2, <2>3, SentAll
  <1>4. \E S : out' \in Seq(S)
    BY <1>2 DEF TreeInv
  <1> QED BY <1>1, <1>2, <1>3, <1>4, CopiesNext

(* A copy that is not made, or that ends early, is none that ends well. *)
LEMMA OtherCopies ==
  ASSUME TreeInv, Middleware \/ Refusal \/ EntryFails \/ ReadFails \/ WriteFails
  PROVE  TreeInv'
  <1>1. FoundInv' /\ \E S : out \in Seq(S)
    BY FoundStep DEF TreeInv, Next
  <1>2. /\ UNCHANGED <<setup, tree, changed>>
        /\ phase' \notin {"entries", "write", "done"}
        /\ phase' \in {"start", "glob", "entries"} => out' = out /\ phase = "start"
    BY DEF Middleware, Refusal, EntryFails, ReadFails, WriteFails, Return
  <1>3. \E S : out' \in Seq(S)
    <2>1. CASE ReadFails
      BY <1>1, <2>1, OutGrows
    <2>2. CASE ~ ReadFails
      <3>1. out' = out
        BY <2>2 DEF Middleware, Refusal, EntryFails, WriteFails
      <3> QED BY <1>1, <3>1
    <2> QED BY <2>1, <2>2
  <1>4. phase' \in {"start", "glob", "entries"} => out' = <<>>
    BY <1>2 DEF TreeInv
  <1> QED BY <1>1, <1>2, <1>3, <1>4, CopiesNext

(* Every step keeps the copy to what was asked for. *)
LEMMA TreeStep ==
  ASSUME TreeInv, Next
  PROVE  TreeInv'
  <1>1. CASE Resize
    <2>1. FoundInv' /\ out' = out /\ phase' = phase
      BY <1>1, FoundStep DEF TreeInv, Resize
    <2>2. changed' # {}
      BY <1>1 DEF Resize
    <2> QED BY <2>1, <2>2 DEF TreeInv
  <1> QED BY <1>1, GlobCopies, WalkCopies, RootCopies, MessageCopies, DoneCopies, OtherCopies
          DEF Next

(* A copy that ends well has sent the client the files it asked for, each  *)
(* in its own directory with its own size and times, for every tree whose  *)
(* directories are told apart, every root that is not relative and every   *)
(* command (copy_to_client.go, scp.go RootEntry.Append, RootEntry.Write).  *)
THEOREM SendsWhatWasAsked ==
  ASSUME \A r \in Roots : ~ Wild(Clean(r))
  PROVE  Spec => []TreeSentApart
  <1>1. Init => TreeInv
    <2> SUFFICES ASSUME Init PROVE TreeInv
      OBVIOUS
    <2>1. FoundInv
      BY FoundStart
    <2>2. /\ phase = "start" /\ out = <<>> /\ tree \in Trees
      BY DEF Init
    <2>3. <<>> \in Seq({})
      OBVIOUS
    <2>4. \E S : out \in Seq(S)
      BY <2>2, <2>3
    <2>5. Copies
      BY <2>2 DEF Copies
    <2> QED BY <2>1, <2>2, <2>4, <2>5 DEF TreeInv
  <1>2. TreeInv /\ [Next]_vars => TreeInv'
    <2> SUFFICES ASSUME TreeInv, UNCHANGED vars PROVE TreeInv'
      BY TreeStep
    <2>1. FoundInv'
      BY FoundStutter DEF TreeInv
    <2>2. /\ UNCHANGED <<setup, tree, changed>> /\ phase' = phase /\ out' = out
          /\ entries' = entries /\ todo' = todo /\ pending' = pending
      BY DEF vars, setup
    <2>3. /\ \E S : out' \in Seq(S)
          /\ phase' \in {"start", "glob", "entries"} => out' = <<>>
      BY <2>2 DEF TreeInv
    <2>4. ASSUME changed = {}, tree \in Trees, Apart
          PROVE  /\ phase' = "entries" => Ground /\ Gathered(entries', Range(todo'))
                 /\ phase' = "write" => /\ Ground /\ Gathered(entries', {})
                                        /\ Sent(entries', pending', out')
                 /\ phase' = "done" => After(out').got = Expected
      BY <2>2, <2>4 DEF TreeInv, Copies, Received, After
    <2> QED BY <2>1, <2>2, <2>3, <2>4, CopiesNext
  <1>3. TreeInv => TreeSentApart
    BY DEF TreeInv, Copies, TreeSentApart, TreeSent, Apart
  <1> QED BY <1>1, <1>2, <1>3, PTL DEF Spec
=============================================================================
