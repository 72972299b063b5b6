--------------------------- MODULE ScpPathsProofs ---------------------------
(***************************************************************************)
(* What the path arithmetic of the scp package computes, for paths of any  *)
(* length: filepath.Clean leaves no "." and no empty component, and ".."   *)
(* only in front of a relative path, and so whatever prefixed accepts is   *)
(* inside the root; and prefixed is monotone, so that a path below another *)
(* one leads to a place below the other's.                                 *)
(*                                                                         *)
(* Clean is recursive, so these are proved by induction.  Induction is     *)
(* stated on a set of numbers and derived from the well-foundedness of <.  *)
(***************************************************************************)
EXTENDS ScpPaths, Integers, WellFoundedInduction, TLAPS

(* Induction on the natural numbers. *)
LEMMA NatSetInduction ==
  ASSUME NEW S, 0 \in S, \A n \in Nat : n \in S => n + 1 \in S
  PROVE  Nat \subseteq S
  <1> DEFINE R == {ss \in Nat \X Nat : ss[1] < ss[2]}
             T == Nat \ S
  <1>1. IsWellFoundedOn(R, Nat)
    <2>1. R = OpToRel(<, Nat)
      BY DEF OpToRel
    <2> QED BY <2>1, NatLessThanWellFounded
  <1>2. SUFFICES ASSUME T # {} PROVE FALSE
    OBVIOUS
  <1>3. PICK x \in T : \A y \in T : ~ (<<y, x>> \in R)
    <2>1. T \subseteq Nat
      OBVIOUS
    <2> HIDE DEF T, R
    <2> QED BY <1>1, <1>2, <2>1, WFMin
  <1>4. x # 0 /\ x - 1 \in Nat
    BY <1>3
  <1>5. x - 1 \in T
    BY <1>3, <1>4
  <1>6. <<x - 1, x>> \in R
    BY <1>3, <1>4
  <1> QED BY <1>3, <1>5, <1>6

(* Cleaning adds one component after the other. *)
LEMMA CleaningSteps ==
  ASSUME NEW N, NEW abs, NEW names \in Seq(N)
  PROVE  /\ Cleaning(abs, names)[0] = <<>>
         /\ \A i \in 1..Len(names) :
               Cleaning(abs, names)[i] = AddName(abs, Cleaning(abs, names)[i - 1], names[i])
  <1> DEFINE n == Len(names)
             Body(f, k) == [i \in 0..k |-> IF i = 0 THEN <<>> ELSE AddName(abs, f[i - 1], names[i])]
             Defined == {k \in Nat : \E f : f = Body(f, k)}
             C == Cleaning(abs, names)
  <1>1. n \in Nat
    OBVIOUS
  <1>2. 0 \in Defined
    <2> DEFINE f == [i \in 0..0 |-> <<>>]
    <2>1. f = Body(f, 0)
      OBVIOUS
    <2> QED BY <2>1
  <1>3. ASSUME NEW k \in Nat, k \in Defined PROVE k + 1 \in Defined
    <2>1. PICK f : f = Body(f, k)
      BY <1>3
    <2> DEFINE g == [i \in 0..(k + 1) |-> IF i <= k THEN f[i] ELSE AddName(abs, f[k], names[k + 1])]
    <2>2. \A i \in 0..k : f[i] = IF i = 0 THEN <<>> ELSE AddName(abs, f[i - 1], names[i])
      BY <2>1
    <2>3. \A i \in 0..(k + 1) : g[i] = IF i = 0 THEN <<>> ELSE AddName(abs, g[i - 1], names[i])
      BY <2>2
    <2>4. g = Body(g, k + 1) /\ k + 1 \in Nat
      BY <2>3
    <2> HIDE DEF g
    <2> QED BY <2>4
  <1>4. n \in Defined
    BY <1>1, <1>2, <1>3, NatSetInduction
  <1>5. C = CHOOSE f : f = Body(f, n)
    BY DEF Cleaning
  <1>6. C = Body(C, n)
    BY <1>4, <1>5
  <1> HIDE DEF C
  <1>7. \A i \in 0..n : C[i] = IF i = 0 THEN <<>> ELSE AddName(abs, C[i - 1], names[i])
    BY <1>6
  <1>8. C[0] = <<>> /\ \A i \in 1..n : C[i] = AddName(abs, C[i - 1], names[i])
    BY <1>1, <1>7
  <1> QED BY <1>8 DEF C

-----------------------------------------------------------------------------
(* The components of a clean path, and of a clean path without "..". *)
Normal(abs, s) ==
    /\ \A i \in DOMAIN s : s[i] \notin {Empty, "."}
    /\ \A i \in DOMAIN s : s[i] = ".." => abs = FALSE /\ \A j \in 1..i : s[j] = ".."

(* The component that climbs is none of those that Clean drops. *)
LEMMA DotDotNamed == ".." \notin {Empty, "."}
  <1>1. ".." # ""
    BY Zenon
  <1>2. ".." # "."
    OBVIOUS
  <1> QED BY <1>1, <1>2, Zenon DEF Empty

(* One component more keeps a path clean. *)
LEMMA AddNameNormal ==
  ASSUME NEW N, NEW abs \in BOOLEAN, NEW s \in Seq(N), Normal(abs, s), NEW n \in N
  PROVE  /\ AddName(abs, s, n) \in Seq(N) /\ Normal(abs, AddName(abs, s, n))
         /\ \A i \in DOMAIN AddName(abs, s, n) :
               AddName(abs, s, n)[i] = n \/ \E j \in DOMAIN s : AddName(abs, s, n)[i] = s[j]
  <1>1. Len(s) \in Nat /\ DOMAIN s = 1..Len(s)
    OBVIOUS
  <1>2. CASE AddName(abs, s, n) = s
    BY <1>2
  <1>3. CASE AddName(abs, s, n) = Front(s) /\ s # <<>>
    <2>1. /\ Front(s) \in Seq(N) /\ Len(Front(s)) = Len(s) - 1
          /\ \A i \in 1..(Len(s) - 1) : Front(s)[i] = s[i]
      BY <1>1, <1>3 DEF Front
    <2> HIDE DEF Front
    <2>2. DOMAIN Front(s) = 1..(Len(s) - 1)
      BY <2>1
    <2>3. Normal(abs, Front(s))
      BY <1>1, <2>1, <2>2 DEF Normal
    <2> QED BY <1>1, <1>3, <2>1, <2>2, <2>3
  <1>4. CASE /\ AddName(abs, s, n) = Append(s, n) /\ n \notin {Empty, "."}
             /\ n = ".." => abs = FALSE /\ (s = <<>> \/ Last(s) = "..")
    <2>1. /\ Append(s, n) \in Seq(N) /\ DOMAIN Append(s, n) = 1..(Len(s) + 1)
          /\ Append(s, n)[Len(s) + 1] = n
          /\ \A i \in 1..Len(s) : Append(s, n)[i] = s[i]
      BY <1>1
    <2>2. n = ".." => abs = FALSE /\ \A j \in 1..Len(s) : s[j] = ".."
      <3>1. s # <<>> => Len(s) \in DOMAIN s /\ Last(s) = s[Len(s)]
        BY <1>1 DEF Last
      <3>2. s = <<>> => 1..Len(s) = {}
        OBVIOUS
      <3> QED BY <1>4, <3>1, <3>2 DEF Normal
    <2>3. Normal(abs, Append(s, n))
      <3>1. \A i \in 1..(Len(s) + 1) : Append(s, n)[i] \notin {Empty, "."}
        BY <1>1, <1>4, <2>1 DEF Normal
      <3>2. \A i \in 1..(Len(s) + 1) : Append(s, n)[i] = ".." =>
               abs = FALSE /\ \A j \in 1..i : Append(s, n)[j] = ".."
        BY <1>1, <2>1, <2>2 DEF Normal
      <3> QED BY <2>1, <3>1, <3>2 DEF Normal
    <2> QED BY <1>1, <1>4, <2>1, <2>3
  <1>5. CASE n \in {Empty, "."}
    <2>1. n # ".."
      BY <1>5, DotDotNamed
    <2> QED BY <1>2, <1>5, <2>1 DEF AddName
  <1>6. CASE n = ".." /\ s # <<>> /\ Last(s) # ".."
    <2>1. n \notin {Empty, "."}
      BY <1>6, DotDotNamed
    <2> QED BY <1>3, <1>6, <2>1 DEF AddName
  <1>7. CASE n = ".." /\ abs /\ s = <<>>
    <2>1. n \notin {Empty, "."}
      BY <1>7, DotDotNamed
    <2> QED BY <1>2, <1>7, <2>1 DEF AddName
  <1>8. CASE /\ n \notin {Empty, "."} /\ ~ (n = ".." /\ s # <<>> /\ Last(s) # "..")
             /\ ~ (n = ".." /\ abs /\ s = <<>>)
    <2>1. AddName(abs, s, n) = Append(s, n)
      BY <1>8 DEF AddName
    <2>2. n = ".." => s = <<>> \/ Last(s) = ".."
      BY <1>8
    <2>3. n = ".." => abs = FALSE
      <3>1. SUFFICES ASSUME n = "..", abs = TRUE PROVE FALSE
        OBVIOUS
      <3>2. s # <<>> /\ Last(s) = ".."
        BY <1>8, <3>1
      <3>3. Len(s) \in DOMAIN s /\ s[Len(s)] = ".."
        BY <1>1, <3>2 DEF Last
      <3> QED BY <3>1, <3>3 DEF Normal
    <2> QED BY <1>4, <1>8, <2>1, <2>2, <2>3
  <1> QED BY <1>5, <1>6, <1>7, <1>8

(* filepath.Clean returns a clean path, made of components it was given. *)
LEMMA CleanNormal ==
  ASSUME NEW N, NEW p \in Paths(N)
  PROVE  /\ Clean(p) \in Paths(N) /\ Clean(p).abs = p.abs
         /\ Normal(p.abs, Clean(p).names)
         /\ \A i \in DOMAIN Clean(p).names : \E j \in DOMAIN p.names : Clean(p).names[i] = p.names[j]
  <1> DEFINE s == p.names
             C == Cleaning(p.abs, s)
             From(t) == \A i \in DOMAIN t : \E j \in DOMAIN s : t[i] = s[j]
             Good == {k \in Nat : k <= Len(s) => C[k] \in Seq(N) /\ Normal(p.abs, C[k]) /\ From(C[k])}
  <1>1. s \in Seq(N) /\ p.abs \in BOOLEAN /\ Len(s) \in Nat
    BY DEF Paths
  <1>2. C[0] = <<>> /\ \A i \in 1..Len(s) : C[i] = AddName(p.abs, C[i - 1], s[i])
    BY <1>1, CleaningSteps
  <1> HIDE DEF C
  <1>3. 0 \in Good
    <2>1. <<>> \in Seq(N) /\ Normal(p.abs, <<>>) /\ From(<<>>)
      BY DEF Normal
    <2>2. 0 \in Nat /\ C[0] = <<>>
      BY <1>2
    <2> QED BY <2>1, <2>2
  <1>4. ASSUME NEW k \in Nat, k \in Good PROVE k + 1 \in Good
    <2> SUFFICES ASSUME k + 1 <= Len(s) PROVE C[k + 1] \in Seq(N) /\ Normal(p.abs, C[k + 1]) /\ From(C[k + 1])
      BY DEF Good
    <2>1. k + 1 \in 1..Len(s) /\ k + 1 \in DOMAIN s /\ s[k + 1] \in N /\ k <= Len(s)
      BY <1>1
    <2>2. C[k + 1] = AddName(p.abs, C[k], s[k + 1])
      BY <1>2, <2>1
    <2>3. C[k] \in Seq(N) /\ Normal(p.abs, C[k]) /\ From(C[k])
      BY <1>4, <2>1
    <2>4. /\ C[k + 1] \in Seq(N) /\ Normal(p.abs, C[k + 1])
          /\ \A i \in DOMAIN C[k + 1] : C[k + 1][i] = s[k + 1] \/ \E j \in DOMAIN C[k] : C[k + 1][i] = C[k][j]
      BY <1>1, <2>1, <2>2, <2>3, AddNameNormal
    <2> QED BY <2>1, <2>3, <2>4
  <1>5. Len(s) \in Good
    <2> HIDE DEF Good
    <2> QED BY <1>1, <1>3, <1>4, NatSetInduction
  <1>6. C[Len(s)] \in Seq(N) /\ Normal(p.abs, C[Len(s)]) /\ From(C[Len(s)])
    BY <1>1, <1>5
  <1>7. Clean(p).abs = p.abs /\ Clean(p).names = C[Len(s)] /\ Clean(p) = Path(p.abs, C[Len(s)])
    BY DEF Clean, Path, C
  <1>8. Clean(p) \in Paths(N)
    BY <1>1, <1>6, <1>7 DEF Paths, Path
  <1> QED BY <1>6, <1>7, <1>8

(* A clean path is left as it is. *)
LEMMA CleanKeepsNormal ==
  ASSUME NEW N, NEW abs \in BOOLEAN, NEW s \in Seq(N), Normal(abs, s)
  PROVE  Clean(Path(abs, s)) = Path(abs, s)
  <1> DEFINE C == Cleaning(abs, s)
             Good == {k \in Nat : k <= Len(s) => C[k] = SubSeq(s, 1, k)}
  <1>1. Len(s) \in Nat /\ DOMAIN s = 1..Len(s)
    OBVIOUS
  <1>2. C[0] = <<>> /\ \A i \in 1..Len(s) : C[i] = AddName(abs, C[i - 1], s[i])
    BY <1>1, CleaningSteps
  <1> HIDE DEF C
  <1>3. 0 \in Good
    <2>1. SubSeq(s, 1, 0) = <<>> /\ 0 \in Nat
      OBVIOUS
    <2> QED BY <1>2, <2>1
  <1>4. ASSUME NEW k \in Nat, k \in Good PROVE k + 1 \in Good
    <2> SUFFICES ASSUME k + 1 <= Len(s) PROVE C[k + 1] = SubSeq(s, 1, k + 1)
      BY DEF Good
    <2>1. k + 1 \in 1..Len(s) /\ k <= Len(s)
      BY <1>1
    <2> DEFINE t == SubSeq(s, 1, k)
    <2>2. C[k + 1] = AddName(abs, t, s[k + 1])
      <3>1. C[k] = t
        BY <1>4, <2>1
      <3>2. C[k + 1] = AddName(abs, C[(k + 1) - 1], s[k + 1]) /\ (k + 1) - 1 = k
        BY <1>2, <2>1
      <3> QED BY <3>1, <3>2
    <2>3. /\ t \in Seq(N) /\ Len(t) = k /\ \A i \in 1..k : t[i] = s[i]
          /\ Append(t, s[k + 1]) = SubSeq(s, 1, k + 1)
      BY <1>1, <2>1
    <2> HIDE DEF t
    <2>4. s[k + 1] \notin {Empty, "."}
      BY <1>1, <2>1 DEF Normal
    <2>5. s[k + 1] = ".." => abs = FALSE /\ (t # <<>> => Last(t) = "..")
      <3>1. s[k + 1] = ".." => abs = FALSE /\ \A j \in 1..(k + 1) : s[j] = ".."
        BY <1>1, <2>1 DEF Normal
      <3>2. t # <<>> => k \in 1..k /\ Last(t) = t[k]
        BY <2>3 DEF Last
      <3> QED BY <2>3, <3>1, <3>2
    <2>6. AddName(abs, t, s[k + 1]) = Append(t, s[k + 1])
      BY <2>4, <2>5 DEF AddName
    <2> QED BY <2>2, <2>3, <2>6
  <1>5. Len(s) \in Good
    <2> HIDE DEF Good
    <2> QED BY <1>1, <1>3, <1>4, NatSetInduction
  <1>6. C[Len(s)] = s
    BY <1>1, <1>5
  <1> QED BY <1>6 DEF Clean, Path, C

-----------------------------------------------------------------------------
(* A root that names a directory, and not only how to climb to one: only   *)
(* below such a root does a clean path that begins with the root's string  *)
(* lie (the cleaned "../.." begins with "../").                            *)
Named(root) == root.names # <<>> => Last(root.names) # ".."

(* Join, JoinName and Dir return clean paths. *)
LEMMA JoinNormal ==
  ASSUME NEW N, NEW p \in Paths(N), NEW q \in Paths(N)
  PROVE  /\ Join(p, q) \in Paths(N) /\ Join(p, q).abs = p.abs /\ Normal(p.abs, Join(p, q).names)
         /\ \A n \in N : /\ JoinName(p, n) \in Paths(N) /\ JoinName(p, n).abs = p.abs
                          /\ Normal(p.abs, JoinName(p, n).names)
         /\ Dir(p) \in Paths(N) /\ Dir(p).abs = p.abs
  <1>1. p.abs \in BOOLEAN /\ p.names \in Seq(N) /\ q.names \in Seq(N)
    BY DEF Paths
  <1>2. ASSUME NEW s \in Seq(N)
        PROVE  /\ Clean(Path(p.abs, s)) \in Paths(N) /\ Clean(Path(p.abs, s)).abs = p.abs
               /\ Normal(p.abs, Clean(Path(p.abs, s)).names)
    <2> DEFINE a == Path(p.abs, s)
    <2>1. a \in Paths(N) /\ a.abs = p.abs
      BY <1>1 DEF Path, Paths
    <2> HIDE DEF a
    <2>2. Clean(a) \in Paths(N) /\ Clean(a).abs = p.abs /\ Normal(p.abs, Clean(a).names)
      BY <2>1, CleanNormal
    <2> QED BY <2>2 DEF a
  <1>3. /\ p.names \o q.names \in Seq(N) /\ \A n \in N : Append(p.names, n) \in Seq(N)
        /\ p.names # <<>> => Front(p.names) \in Seq(N)
    BY <1>1 DEF Front
  <1> QED BY <1>2, <1>3 DEF Join, JoinName, Dir

(* A path on the way from the root to a place at or below it is inside it. *)
LEMMA BelowIsInside ==
  ASSUME NEW N, NEW root \in Paths(N), Named(root),
         NEW p \in Paths(N), Normal(p.abs, p.names), AtOrBelow(root, p),
         NEW k \in Len(root.names)..Len(p.names)
  PROVE  /\ Inside(root, Path(root.abs, SubSeq(p.names, 1, k)))
         /\ Inside(root, p)
  <1> DEFINE r == root.names
             s == p.names
  <1>1. r \in Seq(N) /\ s \in Seq(N) /\ Len(r) \in Nat /\ Len(s) \in Nat
    BY DEF Paths
  <1>2. p.abs = root.abs /\ IsPrefix(r, s)
    BY <1>1 DEF AtOrBelow, HasRootPrefix, IsStrictPrefix, IsPrefix
  <1>3. Len(r) <= Len(s) /\ \A i \in 1..Len(r) : s[i] = r[i]
    <2>1. Len(r) <= Len(s) /\ SubSeq(r, 1, Len(r)) = SubSeq(s, 1, Len(r))
      BY <1>2 DEF IsPrefix
    <2>2. \A i \in 1..Len(r) : SubSeq(r, 1, Len(r))[i] = r[i] /\ SubSeq(s, 1, Len(r))[i] = s[i]
      BY <1>1, <2>1
    <2> QED BY <2>1, <2>2
  <1>4. \A i \in (Len(r) + 1)..Len(s) : s[i] \notin {Empty, ".", ".."}
    <2> SUFFICES ASSUME NEW i \in (Len(r) + 1)..Len(s) PROVE s[i] \notin {Empty, ".", ".."}
      OBVIOUS
    <2>1. i \in DOMAIN s /\ Len(r) \in 0..i
      BY <1>1
    <2>2. s[i] \notin {Empty, "."}
      BY <2>1 DEF Normal
    <2>3. s[i] # ".."
      <3> SUFFICES ASSUME s[i] = ".." PROVE FALSE
        OBVIOUS
      <3>1. \A j \in 1..i : s[j] = ".."
        BY <2>1 DEF Normal
      <3>2. r # <<>>
        BY <1>1, <2>1 DEF AtOrBelow, HasRootPrefix
      <3>3. Len(r) \in 1..Len(r) /\ Len(r) \in 1..i
        BY <1>1, <2>1, <3>2
      <3>4. r[Len(r)] = ".."
        BY <1>3, <3>1, <3>3
      <3> QED BY <3>2, <3>4 DEF Named, Last
    <2> QED BY <2>2, <2>3
  <1>5. Inside(root, p)
    BY <1>2, <1>4 DEF Inside
  <1> DEFINE t == SubSeq(s, 1, k)
  <1>6. t \in Seq(N) /\ Len(t) = k /\ \A i \in 1..k : t[i] = s[i]
    BY <1>1, <1>3
  <1> HIDE DEF t
  <1>7. IsPrefix(r, t)
    <2>1. \A i \in 1..Len(r) : t[i] = r[i]
      BY <1>1, <1>3, <1>6
    <2>2. SubSeq(t, 1, Len(r)) = SubSeq(r, 1, Len(r))
      BY <1>1, <1>6, <2>1
    <2> QED BY <1>1, <1>6, <2>2 DEF IsPrefix
  <1>8. \A i \in (Len(r) + 1)..Len(t) : t[i] \notin {Empty, ".", ".."}
    BY <1>1, <1>3, <1>4, <1>6
  <1>9. Inside(root, Path(root.abs, t))
    BY <1>7, <1>8 DEF Inside, Path
  <1> QED BY <1>5, <1>9 DEF t

(* What fileSystemHandler.prefixed returns is a clean path at or below the *)
(* root, whatever path it is given: a clean path that is there as it is,   *)
(* any other path taken from the root and tested again.                    *)
LEMMA PrefixedSound ==
  ASSUME NEW N, NEW root \in Paths(N), NEW path \in Paths(N), Prefixed(root, path).ok
  PROVE  LET loc == Prefixed(root, path).loc
         IN  loc \in Paths(N) /\ Normal(loc.abs, loc.names) /\ AtOrBelow(root, loc)
  <1> DEFINE clean  == Clean(path)
             joined == Join(root, Safe(path))
  <1>1. Safe(path) \in Paths(N)
    <2>1. Path(TRUE, path.names) \in Paths(N)
      BY DEF Path, Paths
    <2> QED BY <2>1, CleanNormal DEF Safe
  <1>2. clean \in Paths(N) /\ Normal(clean.abs, clean.names)
    BY CleanNormal
  <1>3. joined \in Paths(N) /\ Normal(joined.abs, joined.names)
    BY <1>1, JoinNormal
  <1> HIDE DEF clean, joined
  <1>4. \/ AtOrBelow(root, clean) /\ Prefixed(root, path).loc = clean
        \/ AtOrBelow(root, joined) /\ Prefixed(root, path).loc = joined
    <2>1. CASE AtOrBelow(root, clean)
      BY <2>1 DEF Prefixed, clean, joined
    <2>2. CASE ~ AtOrBelow(root, clean) /\ AtOrBelow(root, joined)
      BY <2>2 DEF Prefixed, clean, joined
    <2>3. CASE ~ AtOrBelow(root, clean) /\ ~ AtOrBelow(root, joined)
      <3>1. Prefixed(root, path) = Refused
        BY <2>3 DEF Prefixed, clean, joined
      <3> QED BY <3>1 DEF Refused
    <2> QED BY <2>1, <2>2, <2>3
  <1> QED BY <1>2, <1>3, <1>4

-----------------------------------------------------------------------------
(* A path that follows another one: b is a with k ordinary names more. *)

Plain(n) == n \notin {Empty, ".", ".."}

Extends(a, b, k) ==
    /\ b.abs = a.abs
    /\ Len(b.names) = Len(a.names) + k
    /\ \A i \in DOMAIN a.names : b.names[i] = a.names[i]
    /\ \A i \in (Len(a.names) + 1)..Len(b.names) : Plain(b.names[i])

(* A path that follows another one is inside it. *)
LEMMA ExtendsInside ==
  ASSUME NEW N, NEW a \in Paths(N), NEW b \in Paths(N), NEW k \in Nat, Extends(a, b, k)
  PROVE  Inside(a, b)
  <1>1. /\ a.names \in Seq(N) /\ b.names \in Seq(N) /\ Len(a.names) \in Nat
        /\ Len(b.names) = Len(a.names) + k /\ DOMAIN a.names = 1..Len(a.names)
    BY DEF Paths, Extends
  <1>2. SubSeq(a.names, 1, Len(a.names)) = SubSeq(b.names, 1, Len(a.names))
    BY <1>1 DEF Extends
  <1> QED BY <1>1, <1>2 DEF Extends, Inside, IsPrefix, Plain

(* One ordinary name more. *)
LEMMA ExtendsAppend ==
  ASSUME NEW N, NEW a \in Paths(N), NEW b \in Paths(N), NEW k \in Nat, Extends(a, b, k),
         NEW n \in N, Plain(n)
  PROVE  Extends(a, Path(b.abs, Append(b.names, n)), k + 1)
  <1> DEFINE s == a.names
             t == b.names
             u == Append(t, n)
  <1>1. /\ s \in Seq(N) /\ t \in Seq(N) /\ Len(s) \in Nat /\ Len(t) = Len(s) + k
        /\ DOMAIN s = 1..Len(s)
    BY DEF Paths, Extends
  <1>2. /\ Len(u) = Len(t) + 1 /\ u[Len(t) + 1] = n /\ \A i \in 1..Len(t) : u[i] = t[i]
    BY <1>1
  <1>3. /\ b.abs = a.abs /\ \A i \in DOMAIN s : t[i] = s[i]
        /\ \A i \in (Len(s) + 1)..Len(t) : Plain(t[i])
    BY DEF Extends
  <1> HIDE DEF s, t, u
  <1>4. \A i \in DOMAIN s : u[i] = s[i]
    BY <1>1, <1>2, <1>3
  <1>5. ASSUME NEW i \in (Len(s) + 1)..Len(u) PROVE Plain(u[i])
    <2>1. i = Len(t) + 1 \/ (i \in 1..Len(t) /\ i \in (Len(s) + 1)..Len(t))
      BY <1>1, <1>2
    <2> QED BY <1>2, <1>3, <2>1
  <1>6. Path(b.abs, u).abs = b.abs /\ Path(b.abs, u).names = u
    BY DEF Path
  <1>7. Len(u) = Len(s) + (k + 1)
    BY <1>1, <1>2
  <1>8. Extends(a, Path(b.abs, u), k + 1)
    BY <1>3, <1>4, <1>5, <1>6, <1>7 DEF Extends, s
  <1> QED BY <1>8 DEF t, u

(* The last name taken back. *)
LEMMA ExtendsFront ==
  ASSUME NEW N, NEW a \in Paths(N), NEW b \in Paths(N), NEW k \in Nat, Extends(a, b, k), k > 0
  PROVE  /\ Extends(a, Path(b.abs, Front(b.names)), k - 1)
         /\ b.names # <<>> /\ Front(b.names) \in Seq(N) /\ Last(b.names) \in N
         /\ Plain(Last(b.names))
         /\ b.names = Append(Front(b.names), Last(b.names))
  <1> DEFINE s == a.names
             t == b.names
             u == Front(t)
  <1>1. /\ s \in Seq(N) /\ t \in Seq(N) /\ Len(s) \in Nat /\ Len(t) = Len(s) + k
        /\ DOMAIN s = 1..Len(s)
    BY DEF Paths, Extends
  <1>2. /\ u \in Seq(N) /\ Len(u) = Len(t) - 1 /\ \A i \in 1..(Len(t) - 1) : u[i] = t[i]
        /\ t # <<>> /\ t[Len(t)] \in N /\ t = Append(u, t[Len(t)])
    BY <1>1 DEF Front
  <1>3. /\ b.abs = a.abs /\ \A i \in DOMAIN s : t[i] = s[i]
        /\ \A i \in (Len(s) + 1)..Len(t) : Plain(t[i])
    BY DEF Extends
  <1> HIDE DEF s, t, u
  <1>4. \A i \in DOMAIN s : u[i] = s[i]
    BY <1>1, <1>2, <1>3
  <1>5. \A i \in (Len(s) + 1)..Len(u) : Plain(u[i])
    BY <1>1, <1>2, <1>3
  <1>6. Path(b.abs, u).abs = b.abs /\ Path(b.abs, u).names = u
    BY DEF Path
  <1>7. Extends(a, Path(b.abs, u), k - 1)
    BY <1>1, <1>2, <1>3, <1>4, <1>5, <1>6 DEF Extends, s, t
  <1>8. Plain(t[Len(t)]) /\ Last(t) = t[Len(t)]
    BY <1>1, <1>3 DEF Last
  <1> QED BY <1>2, <1>7, <1>8 DEF t, u

(* The components of two paths one after the other. *)
LEMMA ConcatNames ==
  ASSUME NEW N, NEW r \in Seq(N), NEW s \in Seq(N)
  PROVE  /\ r \o s \in Seq(N) /\ Len(r \o s) = Len(r) + Len(s)
         /\ DOMAIN (r \o s) = 1..(Len(r) + Len(s))
         /\ \A i \in 1..Len(r) : (r \o s)[i] = r[i]
         /\ \A i \in (Len(r) + 1)..(Len(r) + Len(s)) : (r \o s)[i] = s[i - Len(r)]
  OBVIOUS

(* The same names below a root. *)
LEMMA ExtendsBelow ==
  ASSUME NEW N, NEW root \in Paths(N), NEW a \in Paths(N), NEW b \in Paths(N), NEW k \in Nat,
         Extends(a, b, k)
  PROVE  Extends(Path(root.abs, root.names \o a.names), Path(root.abs, root.names \o b.names), k)
  <1> DEFINE r == root.names
             s == a.names
             t == b.names
             x == r \o s
             y == r \o t
  <1>1. /\ r \in Seq(N) /\ s \in Seq(N) /\ t \in Seq(N)
        /\ Len(r) \in Nat /\ Len(s) \in Nat /\ Len(t) = Len(s) + k /\ DOMAIN s = 1..Len(s)
    BY DEF Paths, Extends
  <1>2. /\ Len(x) = Len(r) + Len(s) /\ DOMAIN x = 1..(Len(r) + Len(s))
        /\ Len(y) = Len(r) + Len(t)
        /\ \A i \in 1..Len(r) : x[i] = r[i] /\ y[i] = r[i]
        /\ \A i \in (Len(r) + 1)..Len(x) : x[i] = s[i - Len(r)]
        /\ \A i \in (Len(r) + 1)..Len(y) : y[i] = t[i - Len(r)]
    <2> HIDE DEF r, s, t
    <2>1. /\ Len(x) = Len(r) + Len(s) /\ DOMAIN x = 1..(Len(r) + Len(s))
          /\ \A i \in 1..Len(r) : x[i] = r[i]
          /\ \A i \in (Len(r) + 1)..(Len(r) + Len(s)) : x[i] = s[i - Len(r)]
      BY <1>1, ConcatNames, Zenon
    <2>2. /\ Len(y) = Len(r) + Len(t)
          /\ \A i \in 1..Len(r) : y[i] = r[i]
          /\ \A i \in (Len(r) + 1)..(Len(r) + Len(t)) : y[i] = t[i - Len(r)]
      BY <1>1, ConcatNames, Zenon
    <2> HIDE DEF x, y
    <2> QED BY <2>1, <2>2
  <1>3. /\ \A i \in DOMAIN s : t[i] = s[i]
        /\ \A i \in (Len(s) + 1)..Len(t) : Plain(t[i])
    BY DEF Extends
  <1> HIDE DEF r, s, t, x, y
  <1>4. \A i \in DOMAIN x : y[i] = x[i]
    <2> SUFFICES ASSUME NEW i \in DOMAIN x PROVE y[i] = x[i]
      OBVIOUS
    <2>1. CASE i \in 1..Len(r)
      BY <1>2, <2>1
    <2>2. CASE i \notin 1..Len(r)
      <3>1. /\ i \in (Len(r) + 1)..Len(x) /\ i \in (Len(r) + 1)..Len(y)
            /\ i - Len(r) \in DOMAIN s
        BY <1>1, <1>2, <2>2
      <3> QED BY <1>2, <1>3, <3>1
    <2> QED BY <2>1, <2>2
  <1>5. \A i \in (Len(x) + 1)..Len(y) : Plain(y[i])
    <2> SUFFICES ASSUME NEW i \in (Len(x) + 1)..Len(y) PROVE Plain(y[i])
      OBVIOUS
    <2>1. i \in (Len(r) + 1)..Len(y) /\ i - Len(r) \in (Len(s) + 1)..Len(t)
      BY <1>1, <1>2
    <2> QED BY <1>2, <1>3, <2>1
  <1>6. Len(y) = Len(x) + k
    BY <1>1, <1>2
  <1>7. /\ Path(root.abs, x).abs = root.abs /\ Path(root.abs, x).names = x
        /\ Path(root.abs, y).abs = root.abs /\ Path(root.abs, y).names = y
    BY DEF Path
  <1> QED BY <1>4, <1>5, <1>6, <1>7 DEF Extends, r, s, t, x, y

-----------------------------------------------------------------------------
(* A component more: Clean of the longer path from that of the shorter. *)
LEMMA CleanAppend ==
  ASSUME NEW N, NEW abs, NEW s \in Seq(N), NEW n \in N
  PROVE  Clean(Path(abs, Append(s, n))).names = AddName(abs, Clean(Path(abs, s)).names, n)
  <1> DEFINE t == Append(s, n)
             C == Cleaning(abs, s)
             D == Cleaning(abs, t)
             Good == {k \in Nat : k <= Len(s) => D[k] = C[k]}
  <1>1. /\ t \in Seq(N) /\ Len(t) = Len(s) + 1 /\ Len(s) \in Nat /\ t[Len(s) + 1] = n
        /\ \A i \in 1..Len(s) : t[i] = s[i]
    OBVIOUS
  <1> HIDE DEF t
  <1>2. C[0] = <<>> /\ \A i \in 1..Len(s) : C[i] = AddName(abs, C[i - 1], s[i])
    BY CleaningSteps
  <1>3. D[0] = <<>> /\ \A i \in 1..Len(t) : D[i] = AddName(abs, D[i - 1], t[i])
    BY <1>1, CleaningSteps
  <1> HIDE DEF C, D
  <1>4. 0 \in Good
    BY <1>2, <1>3
  <1>5. ASSUME NEW k \in Nat, k \in Good PROVE k + 1 \in Good
    <2> SUFFICES ASSUME k + 1 <= Len(s) PROVE D[k + 1] = C[k + 1]
      BY DEF Good
    <2>1. k + 1 \in 1..Len(s) /\ k + 1 \in 1..Len(t) /\ (k + 1) - 1 = k /\ k <= Len(s)
      BY <1>1
    <2>2. D[k] = C[k]
      BY <1>5, <2>1
    <2>3. C[k + 1] = AddName(abs, C[k], s[k + 1]) /\ D[k + 1] = AddName(abs, D[k], t[k + 1])
      BY <1>2, <1>3, <2>1
    <2> QED BY <1>1, <2>1, <2>2, <2>3
  <1>6. Len(s) \in Good
    <2> HIDE DEF Good
    <2> QED BY <1>1, <1>4, <1>5, NatSetInduction
  <1>7. D[Len(s)] = C[Len(s)]
    BY <1>1, <1>6
  <1>8. D[Len(s) + 1] = AddName(abs, D[Len(s)], n)
    <2>1. Len(s) + 1 \in 1..Len(t) /\ (Len(s) + 1) - 1 = Len(s)
      BY <1>1
    <2> QED BY <1>1, <1>3, <2>1
  <1>9. Clean(Path(abs, t)).names = D[Len(s) + 1] /\ Clean(Path(abs, s)).names = C[Len(s)]
    BY <1>1 DEF Clean, Path, C, D
  <1> QED BY <1>7, <1>8, <1>9 DEF t

(* An ordinary name is added as it is. *)
LEMMA CleanPlain ==
  ASSUME NEW N, NEW abs, NEW s \in Seq(N), NEW n \in N, Plain(n)
  PROVE  /\ Clean(Path(abs, Append(s, n))).names = Append(Clean(Path(abs, s)).names, n)
         /\ Clean(Path(abs, Append(s, n))) = Path(abs, Append(Clean(Path(abs, s)).names, n))
  <1> DEFINE d == Clean(Path(abs, s)).names
  <1>1. Clean(Path(abs, Append(s, n))).names = AddName(abs, d, n)
    BY CleanAppend
  <1> HIDE DEF d
  <1>2. AddName(abs, d, n) = Append(d, n)
    BY DEF AddName, Plain
  <1>3. Clean(Path(abs, Append(s, n))) = Path(abs, Clean(Path(abs, Append(s, n))).names)
    BY DEF Clean, Path
  <1> QED BY <1>1, <1>2, <1>3 DEF d

(* The empty path is clean. *)
LEMMA CleanEmpty == ASSUME NEW abs PROVE Clean(Path(abs, <<>>)).names = <<>>
  <1>1. ASSUME NEW s \in Seq(Nat), s = <<>> PROVE Clean(Path(abs, s)).names = <<>>
    <2>1. Cleaning(abs, s)[0] = <<>> /\ Len(s) = 0
      BY <1>1, CleaningSteps
    <2> QED BY <2>1 DEF Clean, Path
  <1>2. <<>> \in Seq(Nat)
    OBVIOUS
  <1> QED BY <1>1, <1>2, Zenon

(* Taking a path from "/" loses nothing by cleaning it first: climbing at  *)
(* its start is dropped either way.                                        *)
LEMMA RootedClean ==
  ASSUME NEW N, NEW p \in Paths(N), NEW top \in BOOLEAN,
         AddName(top, <<>>, "..") = <<>>
  PROVE  Clean(Path(top, Clean(p).names)) = Clean(Path(top, p.names))
  <1> DEFINE s == p.names
             C == Cleaning(p.abs, s)
             T == Cleaning(top, s)
             Rooted(d) == Clean(Path(top, d)).names
             Good == {k \in Nat : k <= Len(s) =>
                         C[k] \in Seq(N) /\ Normal(p.abs, C[k]) /\ Rooted(C[k]) = T[k]}
  <1>1. s \in Seq(N) /\ p.abs \in BOOLEAN /\ Len(s) \in Nat
    BY DEF Paths
  <1>2. C[0] = <<>> /\ \A i \in 1..Len(s) : C[i] = AddName(p.abs, C[i - 1], s[i])
    BY <1>1, CleaningSteps
  <1>3. T[0] = <<>> /\ \A i \in 1..Len(s) : T[i] = AddName(top, T[i - 1], s[i])
    BY <1>1, CleaningSteps
  <1> HIDE DEF C, T
  <1>4. 0 \in Good
    <2>1. <<>> \in Seq(N) /\ Normal(p.abs, <<>>) /\ Rooted(<<>>) = <<>>
      BY CleanEmpty DEF Normal
    <2> QED BY <1>2, <1>3, <2>1
  <1>5. ASSUME NEW d \in Seq(N), Normal(p.abs, d), NEW n \in N
        PROVE  Rooted(AddName(p.abs, d, n)) = AddName(top, Rooted(d), n)
    <2>1. CASE n \in {Empty, "."}
      <3>1. n # ".."
        BY <2>1, DotDotNamed
      <3>2. AddName(p.abs, d, n) = d /\ AddName(top, Rooted(d), n) = Rooted(d)
        BY <2>1, <3>1 DEF AddName
      <3> QED BY <3>2
    <2>2. CASE n = ".." /\ d # <<>> /\ Last(d) # ".."
      <3> DEFINE f == Front(d)
                 l == Last(d)
      <3>1. f \in Seq(N) /\ l \in N /\ d = Append(f, l) /\ Len(d) \in DOMAIN d /\ l = d[Len(d)]
        BY <1>5, <2>2 DEF Front, Last
      <3>2. Plain(l)
        BY <1>5, <2>2, <3>1 DEF Normal, Plain
      <3>3. AddName(p.abs, d, n) = f
        BY <2>2, DotDotNamed DEF AddName
      <3> HIDE DEF f, l
      <3>4. Rooted(d) = Append(Rooted(f), l)
        <4>1. Rooted(Append(f, l)) = Append(Rooted(f), l)
          BY <3>1, <3>2, CleanPlain
        <4> QED BY <3>1, <4>1
      <3>5. Rooted(f) \in Seq(N)
        <4>1. Path(top, f) \in Paths(N)
          BY <3>1 DEF Path, Paths
        <4>2. Clean(Path(top, f)) \in Paths(N)
          BY <4>1, CleanNormal
        <4> QED BY <4>2 DEF Paths
      <3>6. AddName(top, Append(Rooted(f), l), "..") = Rooted(f)
        <4> DEFINE u == Rooted(f)
        <4>1. u \in Seq(N)
          BY <3>5
        <4> HIDE DEF u
        <4>2. Append(u, l) # <<>> /\ Last(Append(u, l)) = l /\ Front(Append(u, l)) = u
          BY <3>1, <4>1 DEF Last, Front
        <4>3. AddName(top, Append(u, l), "..") = u
          BY <3>2, <4>2, DotDotNamed DEF AddName, Plain
        <4> QED BY <4>3 DEF u
      <3> QED BY <2>2, <3>3, <3>4, <3>6
    <2>3. CASE n = ".." /\ p.abs = TRUE /\ d = <<>>
      <3>1. AddName(p.abs, d, n) = d
        BY <2>3, DotDotNamed DEF AddName
      <3>2. Rooted(d) = <<>>
        BY <2>3, CleanEmpty
      <3> QED BY <2>3, <3>1, <3>2
    <2>4. CASE AddName(p.abs, d, n) = Append(d, n)
      BY <1>5, <2>4, CleanAppend
    <2>5. \/ n \in {Empty, "."}
          \/ n = ".." /\ d # <<>> /\ Last(d) # ".."
          \/ n = ".." /\ p.abs = TRUE /\ d = <<>>
          \/ AddName(p.abs, d, n) = Append(d, n)
      BY <1>1 DEF AddName
    <2> QED BY <2>1, <2>2, <2>3, <2>4, <2>5
  <1>6. ASSUME NEW k \in Nat, k \in Good PROVE k + 1 \in Good
    <2> SUFFICES ASSUME k + 1 <= Len(s)
                 PROVE  /\ C[k + 1] \in Seq(N) /\ Normal(p.abs, C[k + 1])
                        /\ Rooted(C[k + 1]) = T[k + 1]
      BY DEF Good
    <2>1. /\ k + 1 \in 1..Len(s) /\ (k + 1) - 1 = k /\ k <= Len(s) /\ s[k + 1] \in N
      BY <1>1
    <2>2. C[k] \in Seq(N) /\ Normal(p.abs, C[k]) /\ Rooted(C[k]) = T[k]
      BY <1>6, <2>1
    <2>3. C[k + 1] = AddName(p.abs, C[k], s[k + 1]) /\ T[k + 1] = AddName(top, T[k], s[k + 1])
      BY <1>2, <1>3, <2>1
    <2>4. C[k + 1] \in Seq(N) /\ Normal(p.abs, C[k + 1])
      BY <1>1, <2>1, <2>2, <2>3, AddNameNormal
    <2>5. Rooted(AddName(p.abs, C[k], s[k + 1])) = AddName(top, Rooted(C[k]), s[k + 1])
      BY <1>5, <2>1, <2>2
    <2> QED BY <2>2, <2>3, <2>4, <2>5
  <1>7. Len(s) \in Good
    <2> HIDE DEF Good
    <2> QED BY <1>1, <1>4, <1>6, NatSetInduction
  <1>8. Rooted(C[Len(s)]) = T[Len(s)]
    BY <1>1, <1>7
  <1>9. Clean(p).names = C[Len(s)] /\ Clean(Path(top, s)) = Path(top, T[Len(s)])
    BY DEF Clean, Path, C, T
  <1>10. Clean(Path(top, C[Len(s)])) = Path(top, Rooted(C[Len(s)]))
    BY DEF Clean, Path
  <1> QED BY <1>8, <1>9, <1>10

(* Safe may be given a path or the clean path: it is the same. *)
LEMMA SafeOfClean ==
  ASSUME NEW N, NEW p \in Paths(N)
  PROVE  Safe(Clean(p)) = Safe(p)
  <1>1. AddName(TRUE, <<>>, "..") = <<>>
    BY DotDotNamed DEF AddName
  <1>2. \A top \in BOOLEAN : AddName(top, <<>>, "..") = <<>> =>
          Clean(Path(top, Clean(p).names)) = Clean(Path(top, p.names))
    BY RootedClean
  <1> QED BY <1>1, <1>2, Zenon DEF Safe

-----------------------------------------------------------------------------
(* Ordinary names behind a clean path leave it clean. *)
LEMMA NormalConcat ==
  ASSUME NEW N, NEW abs, NEW r \in Seq(N), Normal(abs, r),
         NEW s \in Seq(N), \A i \in DOMAIN s : Plain(s[i])
  PROVE  r \o s \in Seq(N) /\ Normal(abs, r \o s)
  <1> DEFINE x == r \o s
  <1>1. /\ x \in Seq(N) /\ DOMAIN x = 1..(Len(r) + Len(s)) /\ Len(r) \in Nat /\ Len(s) \in Nat
        /\ DOMAIN r = 1..Len(r) /\ DOMAIN s = 1..Len(s)
        /\ \A i \in 1..Len(r) : x[i] = r[i]
        /\ \A i \in (Len(r) + 1)..(Len(r) + Len(s)) : x[i] = s[i - Len(r)]
    BY ConcatNames
  <1> HIDE DEF x
  <1>2. \A i \in DOMAIN x : i \in 1..Len(r) \/ Plain(x[i])
    <2> SUFFICES ASSUME NEW i \in DOMAIN x, i \notin 1..Len(r) PROVE Plain(x[i])
      OBVIOUS
    <2>1. i \in (Len(r) + 1)..(Len(r) + Len(s)) /\ i - Len(r) \in DOMAIN s
      BY <1>1
    <2> QED BY <1>1, <2>1
  <1>3. \A i \in DOMAIN x : x[i] \notin {Empty, "."}
    BY <1>1, <1>2 DEF Normal, Plain
  <1>4. \A i \in DOMAIN x : x[i] = ".." => abs = FALSE /\ \A j \in 1..i : x[j] = ".."
    <2> SUFFICES ASSUME NEW i \in DOMAIN x, x[i] = ".."
                 PROVE  abs = FALSE /\ \A j \in 1..i : x[j] = ".."
      OBVIOUS
    <2>1. i \in 1..Len(r) /\ r[i] = ".."
      BY <1>1, <1>2 DEF Plain
    <2>2. abs = FALSE /\ \A j \in 1..i : r[j] = ".."
      BY <1>1, <2>1 DEF Normal
    <2>3. \A j \in 1..i : x[j] = r[j]
      BY <1>1, <2>1
    <2> QED BY <2>2, <2>3
  <1> QED BY <1>1, <1>3, <1>4 DEF Normal, x

(* What is taken from "/" climbs nowhere, and joins a root as it is. *)
LEMMA JoinSafe ==
  ASSUME NEW N, NEW root \in Paths(N), Normal(root.abs, root.names), NEW p \in Paths(N)
  PROVE  /\ Safe(p) \in Paths(N)
         /\ Join(root, Safe(p)) = Path(root.abs, root.names \o Safe(p).names)
  <1> DEFINE q == Safe(p)
  <1>1. q \in Paths(N) /\ \A i \in DOMAIN q.names : Plain(q.names[i])
    <2> DEFINE a == Path(TRUE, p.names)
    <2>1. a \in Paths(N) /\ a.abs = TRUE
      BY DEF Path, Paths
    <2>2. q = Clean(a)
      BY DEF Safe
    <2> HIDE DEF a, q
    <2>3. q \in Paths(N) /\ Normal(a.abs, q.names)
      BY <2>1, <2>2, CleanNormal
    <2>4. ~ (a.abs = FALSE)
      BY <2>1
    <2> QED BY <2>3, <2>4 DEF Normal, Plain
  <1> HIDE DEF q
  <1>2. root.names \in Seq(N) /\ q.names \in Seq(N) /\ root.abs \in BOOLEAN
    BY <1>1 DEF Paths
  <1>3. root.names \o q.names \in Seq(N) /\ Normal(root.abs, root.names \o q.names)
    BY <1>1, <1>2, NormalConcat
  <1>4. Join(root, q) = Path(root.abs, root.names \o q.names)
    BY <1>2, <1>3, CleanKeepsNormal DEF Join
  <1> QED BY <1>1, <1>4 DEF q

(* A path below a root. *)
LEMMA BelowRoot ==
  ASSUME NEW N, NEW root \in Paths(N), NEW p \in Paths(N)
  PROVE  AtOrBelow(root, p) <=>
            /\ p.abs = root.abs
            /\ \/ p.names = root.names
               \/ /\ root.names # <<>> /\ Len(root.names) < Len(p.names)
                  /\ \A i \in 1..Len(root.names) : p.names[i] = root.names[i]
  <1> DEFINE r == root.names
             s == p.names
  <1>1. r \in Seq(N) /\ s \in Seq(N) /\ Len(r) \in Nat /\ Len(s) \in Nat
    BY DEF Paths
  <1>2. p = root <=> p.abs = root.abs /\ s = r
    <2>1. p = Path(p.abs, p.names) /\ root = Path(root.abs, root.names)
      BY DEF Paths, Path
    <2> QED BY <2>1
  <1>3. IsStrictPrefix(r, s) <=> Len(r) < Len(s) /\ \A i \in 1..Len(r) : s[i] = r[i]
    <2> HIDE DEF r, s
    <2>1. IsPrefix(r, s) <=> Len(r) <= Len(s) /\ \A i \in 1..Len(r) : s[i] = r[i]
      <3>1. ASSUME Len(r) <= Len(s)
            PROVE  /\ SubSeq(r, 1, Len(r)) = r
                   /\ SubSeq(s, 1, Len(r)) \in Seq(N) /\ Len(SubSeq(s, 1, Len(r))) = Len(r)
                   /\ \A i \in 1..Len(r) : SubSeq(s, 1, Len(r))[i] = s[i]
        BY <1>1, <3>1
      <3>2. ASSUME Len(r) <= Len(s)
            PROVE  r = SubSeq(s, 1, Len(r)) <=> \A i \in 1..Len(r) : s[i] = r[i]
        <4> DEFINE u == SubSeq(s, 1, Len(r))
        <4>1. u \in Seq(N) /\ Len(u) = Len(r) /\ \A i \in 1..Len(r) : u[i] = s[i]
          BY <3>1, <3>2
        <4> HIDE DEF u
        <4>2. r = u <=> \A i \in 1..Len(r) : s[i] = r[i]
          BY <1>1, <4>1
        <4> QED BY <4>2 DEF u
      <3> QED BY <3>1, <3>2 DEF IsPrefix
    <2>2. Len(r) = Len(s) /\ (\A i \in 1..Len(r) : s[i] = r[i]) => r = s
      BY <1>1
    <2> QED BY <1>1, <2>1, <2>2 DEF IsStrictPrefix
  <1> QED BY <1>2, <1>3 DEF AtOrBelow, HasRootPrefix

-----------------------------------------------------------------------------
(* Safe follows what it is given: an ordinary name more there is one more  *)
(* here.                                                                   *)
LEMMA SafeAppend ==
  ASSUME NEW N, NEW p \in Paths(N), NEW n \in N, Plain(n)
  PROVE  LET q == Safe(Path(p.abs, Append(p.names, n)))
         IN  q = Path(Safe(p).abs, Append(Safe(p).names, n)) /\ q.names = Append(Safe(p).names, n)
  <1>1. p.names \in Seq(N) /\ Path(p.abs, Append(p.names, n)).names = Append(p.names, n)
    BY DEF Paths, Path
  <1>2. ASSUME NEW top
        PROVE  LET a == Clean(Path(top, p.names))
                   b == Clean(Path(top, Append(p.names, n)))
               IN  b = Path(a.abs, Append(a.names, n)) /\ b.names = Append(a.names, n)
    <2>1. Clean(Path(top, p.names)).abs = top
      BY DEF Clean, Path
    <2> QED BY <1>1, <2>1, CleanPlain
  <1> QED BY <1>1, <1>2, Zenon DEF Safe

(* A path that grows by one name reaches the root from above only by       *)
(* becoming the root.                                                      *)
LEMMA ReachRoot ==
  ASSUME NEW N, NEW root \in Paths(N), NEW p \in Paths(N), NEW n \in N,
         ~ AtOrBelow(root, p), AtOrBelow(root, Path(p.abs, Append(p.names, n)))
  PROVE  Path(p.abs, Append(p.names, n)) = root
  <1> DEFINE r == root.names
             s == p.names
             u == Append(s, n)
             q == Path(p.abs, u)
  <1>1. r \in Seq(N) /\ s \in Seq(N) /\ Len(r) \in Nat /\ Len(s) \in Nat
    BY DEF Paths
  <1>2. u \in Seq(N) /\ Len(u) = Len(s) + 1 /\ \A i \in 1..Len(s) : u[i] = s[i]
    BY <1>1
  <1>3. q \in Paths(N) /\ q.abs = p.abs /\ q.names = u
    BY <1>2 DEF Path, Paths
  <1> HIDE DEF r, s, u, q
  <1>4. /\ p.abs = root.abs
        /\ u = r \/ (r # <<>> /\ Len(r) < Len(u) /\ \A i \in 1..Len(r) : u[i] = r[i])
    BY <1>3, BelowRoot DEF q, u, s, r
  <1>5. ASSUME r # <<>>, Len(r) < Len(u), \A i \in 1..Len(r) : u[i] = r[i] PROVE FALSE
    <2>1. Len(r) <= Len(s) /\ \A i \in 1..Len(r) : s[i] = r[i]
      BY <1>1, <1>2, <1>5
    <2>2. Len(r) = Len(s) => s = r
      BY <1>1, <2>1
    <2>3. s = r \/ (r # <<>> /\ Len(r) < Len(s) /\ \A i \in 1..Len(r) : s[i] = r[i])
      BY <1>1, <1>5, <2>1, <2>2
    <2> QED BY <1>4, <2>3, BelowRoot DEF r, s
  <1>6. u = r
    BY <1>4, <1>5
  <1>7. root = Path(root.abs, r)
    BY DEF Paths, Path, r
  <1> QED BY <1>4, <1>6, <1>7 DEF q, u, s

(* A name below a directory that a copy has entered leads, by prefixed,    *)
(* to a place inside the one its target leads to, unless it leads to the   *)
(* root itself.                                                            *)
LEMMA PrefixedFollows ==
  ASSUME NEW N, NEW root \in Paths(N), Normal(root.abs, root.names),
         NEW target \in Paths(N), NEW here \in Paths(N), Normal(here.abs, here.names),
         NEW k \in Nat, Extends(Clean(target), here, k), Extends(Safe(target), Safe(here), k),
         AtOrBelow(root, Clean(target)) \/ ~ AtOrBelow(root, here),
         NEW n \in N, Plain(n),
         NEW into, into = Path(here.abs, Append(here.names, n)),
         Prefixed(root, into).ok, Prefixed(root, into).loc # root
  PROVE  /\ Inside(Prefixed(root, target).loc, Prefixed(root, into).loc)
         /\ AtOrBelow(root, Clean(target)) \/ ~ AtOrBelow(root, into)
  <1> DEFINE base == Clean(target)
             to == Prefixed(root, into)
  <1>1. /\ base \in Paths(N) /\ here.names \in Seq(N) /\ here.abs \in BOOLEAN
        /\ root.names \in Seq(N) /\ root.abs \in BOOLEAN
    BY CleanNormal DEF Paths
  <1>2. /\ into \in Paths(N) /\ into.abs = here.abs /\ into.names = Append(here.names, n)
        /\ Append(here.names, n) \in Seq(N)
    BY <1>1 DEF Path, Paths
  <1>3. Clean(into) = into
    <2> DEFINE one == <<n>>
    <2>1. /\ one \in Seq(N) /\ Append(here.names, n) = here.names \o one
          /\ \A i \in DOMAIN one : Plain(one[i])
      BY <1>1
    <2> HIDE DEF one
    <2>2. Normal(here.abs, Append(here.names, n))
      BY <1>1, <2>1, NormalConcat
    <2> QED BY <1>1, <1>2, <2>2, CleanKeepsNormal
  <1>4. Extends(base, into, k + 1)
    BY <1>1, ExtendsAppend
  <1> DEFINE far == Path(root.abs, root.names \o Safe(into).names)
             near == Path(root.abs, root.names \o Safe(target).names)
  <1>5. /\ Safe(target) \in Paths(N) /\ Safe(here) \in Paths(N) /\ Safe(into) \in Paths(N)
        /\ Join(root, Safe(into)) = far /\ Join(root, Safe(target)) = near
    BY <1>2, JoinSafe
  <1>6. Safe(into).names = Append(Safe(here).names, n) /\ Extends(Safe(target), Safe(into), k + 1)
    <2>1. /\ Safe(into) = Path(Safe(here).abs, Append(Safe(here).names, n))
          /\ Safe(into).names = Append(Safe(here).names, n)
      BY SafeAppend
    <2> QED BY <1>5, <2>1, ExtendsAppend
  <1>7. /\ far \in Paths(N) /\ near \in Paths(N) /\ Extends(near, far, k + 1)
        /\ far.names = root.names \o Safe(into).names /\ near.names = root.names \o Safe(target).names
        /\ far.abs = root.abs /\ near.abs = root.abs
    <2>1. Safe(into).names \in Seq(N) /\ Safe(target).names \in Seq(N)
      BY <1>5 DEF Paths
    <2>2. root.names \o Safe(into).names \in Seq(N) /\ root.names \o Safe(target).names \in Seq(N)
      BY <1>1, <2>1
    <2>3. far \in Paths(N) /\ near \in Paths(N)
      BY <1>1, <2>2 DEF Paths, Path
    <2>4. k + 1 \in Nat
      OBVIOUS
    <2> QED BY <1>5, <1>6, <2>3, <2>4, ExtendsBelow DEF Path
  <1>8. \/ AtOrBelow(root, into) /\ to.loc = into
        \/ ~ AtOrBelow(root, into) /\ AtOrBelow(root, far) /\ to.loc = far
    <2> HIDE DEF far
    <2>1. CASE AtOrBelow(root, into)
      BY <1>3, <2>1 DEF Prefixed
    <2>2. CASE ~ AtOrBelow(root, into) /\ AtOrBelow(root, far)
      BY <1>3, <1>5, <2>2 DEF Prefixed
    <2>3. CASE ~ AtOrBelow(root, into) /\ ~ AtOrBelow(root, far)
      <3>1. to = Refused
        BY <1>3, <1>5, <2>3 DEF Prefixed
      <3> QED BY <3>1 DEF Refused
    <2> QED BY <2>1, <2>2, <2>3
  <1> HIDE DEF base, to, far, near
  <1>9. AtOrBelow(root, base) \/ ~ AtOrBelow(root, into)
    <2> SUFFICES ASSUME ~ AtOrBelow(root, base), AtOrBelow(root, into) PROVE FALSE
      OBVIOUS
    <2>1. ~ AtOrBelow(root, here)
      BY DEF base
    <2>2. into = root
      BY <2>1, ReachRoot
    <2> QED BY <1>8, <2>2 DEF to
  <1>10. CASE AtOrBelow(root, into)
    <2>1. Prefixed(root, target).loc = base
      BY <1>9, <1>10 DEF Prefixed, base
    <2>2. Inside(base, into)
      BY <1>1, <1>2, <1>4, ExtendsInside
    <2> QED BY <1>8, <1>9, <1>10, <2>1, <2>2 DEF to, base
  <1>11. CASE ~ AtOrBelow(root, into)
    <2>1. AtOrBelow(root, far) /\ to.loc = far /\ far # root
      BY <1>8, <1>11 DEF to
    <2>2. root.names # <<>>
      BY <2>1 DEF AtOrBelow, HasRootPrefix
    <2>3. ~ AtOrBelow(root, base)
      <3> SUFFICES ASSUME AtOrBelow(root, base) PROVE FALSE
        OBVIOUS
      <3> DEFINE r == root.names
                 b == base.names
                 u == into.names
      <3>1. /\ r \in Seq(N) /\ b \in Seq(N) /\ u \in Seq(N)
            /\ Len(r) \in Nat /\ Len(b) \in Nat /\ Len(u) \in Nat
            /\ DOMAIN b = 1..Len(b)
        BY <1>1, <1>2 DEF Paths
      <3>2. base.abs = root.abs /\ Len(r) <= Len(b) /\ \A i \in 1..Len(r) : b[i] = r[i]
        BY <1>1, <3>1, BelowRoot
      <3>3. into.abs = base.abs /\ Len(u) = Len(b) + (k + 1) /\ \A i \in 1..Len(b) : u[i] = b[i]
        BY <1>4, <3>1 DEF Extends
      <3> HIDE DEF r, b, u
      <3>4. Len(r) < Len(u) /\ \A i \in 1..Len(r) : u[i] = r[i]
        BY <3>1, <3>2, <3>3
      <3>5. into.abs = root.abs /\ r # <<>>
        BY <2>2, <3>2, <3>3 DEF r
      <3>6. AtOrBelow(root, into)
        <4>1. /\ root.names # <<>> /\ Len(root.names) < Len(into.names)
              /\ \A i \in 1..Len(root.names) : into.names[i] = root.names[i]
          BY <3>4, <3>5 DEF r, u
        <4>2. \A p \in Paths(N) :
                 /\ p.abs = root.abs /\ root.names # <<>> /\ Len(root.names) < Len(p.names)
                 /\ \A i \in 1..Len(root.names) : p.names[i] = root.names[i]
                 => AtOrBelow(root, p)
          BY BelowRoot
        <4> QED BY <1>2, <3>5, <4>1, <4>2
      <3> QED BY <1>11, <3>6
    <2>4. AtOrBelow(root, near)
      <3> DEFINE r == root.names
                 z == Safe(target).names
      <3>1. r \in Seq(N) /\ z \in Seq(N)
        BY <1>1, <1>5 DEF Paths
      <3> HIDE DEF r, z
      <3>2. /\ Len(r \o z) = Len(r) + Len(z) /\ Len(r) \in Nat /\ Len(z) \in Nat
            /\ \A i \in 1..Len(r) : (r \o z)[i] = r[i]
            /\ z = <<>> => r \o z = r
            /\ z # <<>> => Len(z) > 0
        BY <3>1
      <3>3. r \o z = r \/ (r # <<>> /\ Len(r) < Len(r \o z) /\ \A i \in 1..Len(r) : (r \o z)[i] = r[i])
        BY <2>2, <3>2 DEF r
      <3>4. near.abs = root.abs /\ near.names = r \o z
        BY <1>7 DEF r, z
      <3> QED BY <1>7, <3>3, <3>4, BelowRoot DEF r
    <2>5. Prefixed(root, target).loc = near
      BY <1>5, <2>3, <2>4 DEF Prefixed, base
    <2>6. Inside(near, far)
      BY <1>7, ExtendsInside
    <2> QED BY <1>11, <2>1, <2>5, <2>6 DEF to
  <1> QED BY <1>10, <1>11

(* The path without the name it was given last. *)
LEMMA ParentPath ==
  ASSUME NEW N, NEW p \in Paths(N), Normal(p.abs, p.names), p.names # <<>>
  PROVE  LET up == Path(p.abs, Front(p.names))
         IN  /\ Dir(p) = up /\ up \in Paths(N) /\ up.abs = p.abs /\ up.names = Front(p.names)
             /\ Normal(up.abs, up.names) /\ Clean(up) = up
  <1> DEFINE s == p.names
             f == Front(s)
             up == Path(p.abs, f)
  <1>1. s \in Seq(N) /\ p.abs \in BOOLEAN /\ Len(s) \in Nat /\ Len(s) > 0 /\ DOMAIN s = 1..Len(s)
    BY DEF Paths
  <1>2. f \in Seq(N) /\ Len(f) = Len(s) - 1 /\ \A i \in 1..Len(f) : f[i] = s[i]
    BY <1>1 DEF Front
  <1>3. DOMAIN f = 1..Len(f) /\ \A i \in DOMAIN f : i \in DOMAIN s /\ 1..i \subseteq DOMAIN f
    <2> HIDE DEF f, s
    <2> QED BY <1>1, <1>2
  <1>4. Normal(p.abs, f)
    <2> HIDE DEF f
    <2> QED BY <1>1, <1>2, <1>3 DEF Normal
  <1>5. up \in Paths(N) /\ up.abs = p.abs /\ up.names = f
    BY <1>1, <1>2 DEF Path, Paths
  <1>6. Clean(up) = up
    BY <1>1, <1>2, <1>4, CleanKeepsNormal
  <1>7. Dir(p) = up
    BY <1>6 DEF Dir
  <1> QED BY <1>4, <1>5, <1>6, <1>7

(* The path with one ordinary name more. *)
LEMMA ChildPath ==
  ASSUME NEW N, NEW p \in Paths(N), NEW n \in N, Plain(n)
  PROVE  LET here == Clean(p)
             into == Path(here.abs, Append(here.names, n))
         IN  /\ here \in Paths(N) /\ Normal(here.abs, here.names)
             /\ JoinName(p, n) = into /\ into \in Paths(N) /\ Clean(into) = into
  <1> DEFINE here == Clean(p)
             into == Path(here.abs, Append(here.names, n))
  <1>1. /\ here \in Paths(N) /\ here.abs = p.abs /\ Normal(here.abs, here.names)
        /\ p.names \in Seq(N) /\ p.abs \in BOOLEAN /\ p = Path(p.abs, p.names)
    BY CleanNormal DEF Paths, Path
  <1>2. JoinName(p, n) = into
    BY <1>1, CleanPlain DEF JoinName
  <1>3. into \in Paths(N) /\ Normal(into.abs, into.names)
    <2>1. /\ JoinName(p, n) \in Paths(N) /\ JoinName(p, n).abs = p.abs
          /\ Normal(p.abs, JoinName(p, n).names)
      BY JoinNormal
    <2> QED BY <1>2, <2>1
  <1> HIDE DEF into
  <1>4. into.abs \in BOOLEAN /\ into.names \in Seq(N) /\ into = Path(into.abs, into.names)
    BY <1>3 DEF Paths, Path
  <1>5. Clean(into) = into
    BY <1>3, <1>4, CleanKeepsNormal
  <1> QED BY <1>1, <1>2, <1>3, <1>5 DEF into

(* Taken from "/", a path is a path. *)
LEMMA SafePath == ASSUME NEW N, NEW p \in Paths(N) PROVE Safe(p) \in Paths(N)
  <1> DEFINE a == Path(TRUE, p.names)
  <1>1. a \in Paths(N)
    BY DEF Path, Paths
  <1> HIDE DEF a
  <1>2. Clean(a) \in Paths(N)
    BY <1>1, CleanNormal
  <1> QED BY <1>2 DEF Safe, a

(* What is below a place at or below the root is below the root, but for a *)
(* root without components.                                                *)
LEMMA BelowAppend ==
  ASSUME NEW N, NEW root \in Paths(N), NEW p \in Paths(N), NEW n \in N, AtOrBelow(root, p),
         ~ AtOrBelow(root, Path(p.abs, Append(p.names, n)))
  PROVE  p.abs = root.abs /\ p.names = root.names /\ root.names = <<>>
  <1> DEFINE r == root.names
             s == p.names
             u == Append(s, n)
             q == Path(p.abs, u)
  <1>1. r \in Seq(N) /\ s \in Seq(N) /\ Len(r) \in Nat /\ Len(s) \in Nat
    BY DEF Paths
  <1>2. u \in Seq(N) /\ Len(u) = Len(s) + 1 /\ \A i \in 1..Len(s) : u[i] = s[i]
    BY <1>1
  <1>3. q \in Paths(N) /\ q.abs = p.abs /\ q.names = u
    BY <1>2 DEF Path, Paths
  <1> HIDE DEF r, s, u, q
  <1>4. /\ p.abs = root.abs
        /\ s = r \/ (r # <<>> /\ Len(r) < Len(s) /\ \A i \in 1..Len(r) : s[i] = r[i])
    BY BelowRoot DEF s, r
  <1>5. r = <<>>
    <2> SUFFICES ASSUME r # <<>> PROVE FALSE
      OBVIOUS
    <2>1. Len(r) < Len(u) /\ \A i \in 1..Len(r) : u[i] = r[i]
      BY <1>1, <1>2, <1>4
    <2>2. AtOrBelow(root, q)
      BY <1>3, <1>4, <2>1, BelowRoot DEF r
    <2> QED BY <2>2 DEF q, u, s
  <1> QED BY <1>4, <1>5 DEF r, s

(* Leaving a directory: the path of the directory above it follows the     *)
(* target as well.                                                         *)
LEMMA LeavesOne ==
  ASSUME NEW N, NEW root \in Paths(N), NEW target \in Paths(N),
         NEW here \in Paths(N), Normal(here.abs, here.names),
         NEW k \in Nat, k > 0,
         Extends(Clean(target), here, k), Extends(Safe(target), Safe(here), k),
         AtOrBelow(root, Clean(target)) \/ ~ AtOrBelow(root, here)
  PROVE  LET up == Dir(here)
         IN  /\ up \in Paths(N) /\ Clean(up) = up
             /\ Extends(Clean(target), up, k - 1) /\ Extends(Safe(target), Safe(up), k - 1)
             /\ AtOrBelow(root, Clean(target)) \/ ~ AtOrBelow(root, up)
  <1> DEFINE base == Clean(target)
             up == Path(here.abs, Front(here.names))
             n == Last(here.names)
  <1>1. base \in Paths(N) /\ Safe(target) \in Paths(N) /\ Safe(here) \in Paths(N)
    BY CleanNormal, SafePath
  <1>2. /\ Extends(base, up, k - 1) /\ here.names # <<>> /\ n \in N /\ Plain(n)
        /\ here.names = Append(Front(here.names), n)
    BY <1>1, ExtendsFront
  <1>3. /\ Dir(here) = up /\ up \in Paths(N) /\ Clean(up) = up
        /\ up.abs = here.abs /\ up.names = Front(here.names)
    BY <1>2, ParentPath
  <1> HIDE DEF up, n, base
  <1>4. here = Path(up.abs, Append(up.names, n))
    <2>1. here = Path(here.abs, here.names)
      BY DEF Paths, Path
    <2> QED BY <1>2, <1>3, <2>1
  <1>5. Extends(Safe(target), Safe(up), k - 1)
    <2>1. Safe(here) = Path(Safe(up).abs, Append(Safe(up).names, n))
      BY <1>2, <1>3, <1>4, SafeAppend
    <2>2. Safe(up) \in Paths(N)
      BY <1>3, SafePath
    <2>3. Path(Safe(here).abs, Front(Safe(here).names)) = Safe(up)
      <3> DEFINE a == Safe(up).names
                 b == Append(a, n)
      <3>1. a \in Seq(N) /\ Safe(up) = Path(Safe(up).abs, a)
        BY <2>2 DEF Paths, Path
      <3>2. Safe(here).abs = Safe(up).abs /\ Safe(here).names = b
        BY <2>1 DEF Path
      <3>3. Front(b) = a
        <4> HIDE DEF a
        <4> QED BY <1>2, <3>1 DEF Front
      <3> QED BY <3>1, <3>2, <3>3
    <2>4. Extends(Safe(target), Path(Safe(here).abs, Front(Safe(here).names)), k - 1)
      BY <1>1, ExtendsFront
    <2> QED BY <2>3, <2>4
  <1>6. AtOrBelow(root, base) \/ ~ AtOrBelow(root, up)
    <2> SUFFICES ASSUME ~ AtOrBelow(root, base), AtOrBelow(root, up) PROVE FALSE
      OBVIOUS
    <2>1. ~ AtOrBelow(root, here)
      BY DEF base
    <2>2. up.abs = root.abs /\ up.names = root.names /\ root.names = <<>>
      BY <1>2, <1>3, <1>4, <2>1, BelowAppend
    <2>3. up = base
      <3> DEFINE s == base.names
      <3>1. s \in Seq(N) /\ base.abs = up.abs /\ Len(up.names) = Len(s) + (k - 1)
        BY <1>1, <1>2 DEF Paths, Extends
      <3>2. Len(up.names) = 0 /\ Len(s) \in Nat
        BY <2>2, <3>1
      <3>3. s = <<>>
        BY <3>1, <3>2
      <3>4. up = Path(up.abs, up.names) /\ base = Path(base.abs, s)
        BY <1>1, <1>3 DEF Paths, Path
      <3> QED BY <2>2, <3>1, <3>3, <3>4
    <2> QED BY <2>3
  <1> QED BY <1>2, <1>3, <1>5, <1>6 DEF base
=============================================================================
