-------------------------- MODULE MiddlewareProofs --------------------------
(***************************************************************************)
(* Proofs about the middleware chain (module Middleware), for every chain, *)
(* however deep recovers are nested, and every number of sessions.         *)
(*                                                                         *)
(* A place is a sequence of indices.  The argument rests on three facts:   *)
(*  - the handlers on a session's stack are those outside, or wrapping,    *)
(*    the innermost one, in the order in which they called each other      *)
(*    (StackOK);                                                           *)
(*  - nothing a handler has still to run was done already (Fresh), so that *)
(*    what is done now comes after all that was done outside it and before *)
(*    what will be, and is done once (Active, Past);                       *)
(*  - what a panic goes through are the handlers between the innermost     *)
(*    guard and the one that panics (Within, Leaves).                      *)
(* Their conjunction with the types is ChainInv, which every step of a     *)
(* session keeps; steps are first brought to three shapes (Called,         *)
(* Returned, Unwound), and the invariant is shown for each.                *)
(***************************************************************************)
EXTENDS Middleware, Integers, FiniteSetTheorems, WellFoundedInduction, TLAPS

Places == Seq(Nat)

Frames == [at : Places, mw : Seq(Middlewares), pc : {"in", "mid", "out"}]

Events == {"enter", "leave", "deny", "panic"} \X Places \X Answers

(* How many middlewares the chain has that a place is in at its k-th index *)
Branch(p, k) == Len(MwAt(SubSeq(p, 1, k - 1)).mw)

Valid(p) == \A k \in 1..Len(p) : Branch(p, k) \in Nat

(* The handlers that called each other, from the outermost: each is one of *)
(* its chain, and the ones a handler is inside of are exactly those below  *)
(* it on the stack.                                                        *)
FrameOK(f) == /\ f.at # <<>> /\ Valid(f.at)
              /\ f.mw = MwAt(Front(f.at)).mw
              /\ Last(f.at) \in 0..Len(f.mw)
              /\ Last(f.at) = 0 => f.pc = "in"

Typed(k) == \A i \in DOMAIN k : FrameOK(k[i])

Calling(f, g) == /\ Last(f.at) > 0
                 /\ \/ f.pc = "out" /\ f.at \in Outer(g.at)
                    \/ f.pc = "mid" /\ f.at \in Wrapping(g.at) /\ MwAt(f.at).kind = "recover"

Nested(k) == \A i, j \in DOMAIN k : i < j => Calling(k[i], k[j])

Complete(k) == \A i \in DOMAIN k : \A q \in Outer(k[i].at) \cup Wrapping(k[i].at) :
                  \E j \in DOMAIN k : j < i /\ k[j].at = q

StackOK(k) == Typed(k) /\ Nested(k) /\ Complete(k)

(* What a handler has still to run: all that is inside it when it starts,  *)
(* and when a recover's chain has returned, the next handler. *)
Rest(f) == {q \in Places : /\ Len(q) >= Len(f.at)
                           /\ \A i \in 1..(Len(f.at) - 1) : q[i] = f.at[i]
                           /\ \/ f.pc = "in" /\ q[Len(f.at)] <= f.at[Len(f.at)]
                              \/ f.pc = "mid" /\ q[Len(f.at)] < f.at[Len(f.at)]}

Known(t) == \A j \in DOMAIN t : At(t[j]) # <<>> /\ Valid(At(t[j]))

Fresh(k, t) == \A i \in DOMAIN k, j \in DOMAIN t : At(t[j]) \notin Rest(k[i])

Active(k, t) == \A i \in DOMAIN k, j \in DOMAIN t :
                  At(t[j]) = k[i].at => Event(t[j]) = "enter"

Admitted(s, k) == \A i \in DOMAIN k :
                    k[i].pc = "out" /\ MwAt(k[i].at).kind \in Gates => Admits(s, MwAt(k[i].at).kind)

(* LastFirst and GatesHold for one session *)
Ordered(t) == \A i, j \in DOMAIN t :
                At(t[i]) \in Outer(At(t[j])) =>
                   IF Event(t[i]) \in {"enter", "deny"} THEN i < j ELSE j < i

Held(s, t) == \A j \in DOMAIN t : \A p \in Outer(At(t[j])) :
                MwAt(p).kind \in Gates =>
                   Admits(s, MwAt(p).kind) /\ \A i \in DOMAIN t : ~ (Event(t[i]) = "deny" /\ At(t[i]) = p)

(* For every recover that was entered *)
Follow(p) == Append(Front(p), Last(p) - 1)

Reached(k, t, p) == \/ Last(p) = 0 \/ MwAt(p).kind \in Gates
                    \/ \E j \in DOMAIN t : At(t[j]) = p
                    \/ \E i \in DOMAIN k : k[i].at = p /\ k[i].pc = "in"

Passed(k, t) == \A j \in DOMAIN t : MwAt(At(t[j])).kind = "recover" =>
                   \/ \E i \in DOMAIN k : k[i].at = At(t[j]) /\ k[i].pc = "mid"
                   \/ Reached(k, t, Follow(At(t[j])))

(* A panic went through the handler at p, and what it does after the next  *)
(* one is done.                                                            *)
Through(t, p) == \E j \in DOMAIN t : /\ Event(t[j]) = "panic" /\ p \in Outer(At(t[j]))
                                     /\ ~ \E r \in Guarding(At(t[j])) : p \in Outer(r)

Left(t, p) == \E i \in DOMAIN t : Event(t[i]) = "leave" /\ At(t[i]) = p

Once(t) == \A i, j \in DOMAIN t :
             Event(t[i]) = "leave" /\ Event(t[j]) = "leave" /\ At(t[i]) = At(t[j]) => i = j

(* A handler that writes after the next one is still waiting for it, and   *)
(* no panic went through it, or it is gone, by one way or the other.       *)
Within(k, t) == \A i \in DOMAIN k :
                  k[i].pc = "out" /\ MwAt(k[i].at).kind \in Around => ~ Through(t, k[i].at)

Leaves(k, t) == \A j \in DOMAIN t :
                  LET p == At(t[j])
                  IN  MwAt(p).kind \in Around =>
                        \/ \E i \in DOMAIN k : k[i].at = p
                        \/ /\ ~ \E i \in DOMAIN k : k[i].at = p
                           /\ Left(t, p) <=> ~ Through(t, p)

(* The exit status is the answer of the first handler that gave one; while *)
(* none has, it is not set, or was when all had returned.                  *)
Answered(t) == \E j \in DOMAIN t : Code(t[j]) # NoStatus

Answer(s) == /\ \A i \in DOMAIN trace[s] :
                  FirstToAnswer(trace[s], i) => status[s] = Code(trace[s][i])
             /\ Answered(trace[s]) => status[s] # NoStatus
             /\ ~ Answered(trace[s]) => status[s] = NoStatus \/ (status[s] = 0 /\ stack[s] = <<>>)

(* A session that is over, or that no panic has ended with the process *)
Live(s) == up \/ stack[s] = <<>>

(* What stays true of a session's handlers and what they have done *)
Now(k, t) == /\ Fresh(k, t) /\ Active(k, t) /\ Passed(k, t) /\ Within(k, t) /\ Leaves(k, t)

Past(s, t) == Known(t) /\ Ordered(t) /\ Held(s, t) /\ Once(t)

Session(s) == /\ StackOK(stack[s]) /\ Admitted(s, stack[s])
              /\ Past(s, trace[s])
              /\ Live(s) => Now(stack[s], trace[s])
              /\ Answer(s)

Types == /\ chain \in Chains
         /\ cmd \in [Sessions -> Commands] /\ pty \in [Sessions -> BOOLEAN]
         /\ stack \in [Sessions -> Seq(Frames)]
         /\ status \in [Sessions -> {0, 1, NoStatus}]
         /\ trace \in [Sessions -> Seq(Events)]
         /\ up \in BOOLEAN

ChainInv == /\ Types
            /\ \A s \in Sessions : Session(s)
            /\ Contained

-----------------------------------------------------------------------------
(* The number of the first element of a set of natural numbers. *)
LEMMA LeastNat ==
  ASSUME NEW T, T \subseteq Nat, T # {}
  PROVE  \E x \in T : \A y \in T : x <= y
  <1> DEFINE R == {ss \in Nat \X Nat : ss[1] < ss[2]}
  <1>1. IsWellFoundedOn(R, Nat)
    <2>1. R = OpToRel(<, Nat)
      BY DEF OpToRel
    <2> QED BY <2>1, NatLessThanWellFounded
  <1>2. PICK x \in T : \A y \in T : ~ (<<y, x>> \in R)
    <2> HIDE DEF R
    <2> QED BY <1>1, WFMin
  <1>3. \A y \in T : x <= y
    <2> SUFFICES ASSUME NEW y \in T, y < x PROVE FALSE
      BY <1>2
    <2>1. <<y, x>> \in R
      OBVIOUS
    <2> QED BY <1>2, <2>1
  <1> QED BY <1>3

(* Induction on the natural numbers. *)
LEMMA ByInduction ==
  ASSUME NEW S, 0 \in S, \A n \in Nat : n \in S => n + 1 \in S
  PROVE  Nat \subseteq S
  <1> DEFINE T == Nat \ S
  <1>1. SUFFICES ASSUME T # {} PROVE FALSE
    OBVIOUS
  <1>2. T \subseteq Nat
    OBVIOUS
  <1>3. PICK x \in T : \A y \in T : x <= y
    <2> HIDE DEF T
    <2> QED BY <1>1, <1>2, LeastNat
  <1>4. x # 0 /\ x - 1 \in Nat
    BY <1>3
  <1>5. x - 1 \in T
    BY <1>3, <1>4
  <1> QED BY <1>3, <1>4, <1>5

(* A set of indices of a sequence has a last one. *)
LEMMA MaxIndex ==
  ASSUME NEW n \in Nat, NEW G, G \subseteq 1..n, G # {}
  PROVE  Max(G) \in G /\ \A i \in G : i <= Max(G)
  <1> DEFINE T == {n - i : i \in G}
  <1>0. \A i \in G : i \in 1..n /\ n - i \in Nat
    OBVIOUS
  <1>1. T \subseteq Nat /\ T # {}
    BY <1>0
  <1>2. PICK x \in T : \A y \in T : x <= y
    <2> HIDE DEF T
    <2> QED BY <1>1, LeastNat
  <1>3. PICK m \in G : x = n - m
    BY <1>2
  <1>4. \A i \in G : m >= i
    <2> SUFFICES ASSUME NEW i \in G PROVE m >= i
      OBVIOUS
    <2>1. n - i \in T
      OBVIOUS
    <2>2. n - m <= n - i
      BY <1>2, <1>3, <2>1
    <2> HIDE DEF T
    <2> QED BY <1>0, <2>2
  <1>5. \E z \in G : \A i \in G : z >= i
    BY <1>3, <1>4
  <1>6. Max(G) \in G /\ \A i \in G : Max(G) >= i
    BY <1>5 DEF Max
  <1> QED BY <1>6

-----------------------------------------------------------------------------
(* The way to a place, one index after the other. *)
LEMMA WaySteps ==
  ASSUME NEW p \in Places
  PROVE  /\ Way(p)[0] = [kind |-> "chain", mw |-> chain]
         /\ \A k \in 1..Len(p) : Way(p)[k] = Way(p)[k - 1].mw[p[k]]
  <1> DEFINE top == [kind |-> "chain", mw |-> chain]
             n == Len(p)
             Body(f, j) == [k \in 0..j |-> IF k = 0 THEN top ELSE f[k - 1].mw[p[k]]]
             Defined == {j \in Nat : \E f : f = Body(f, j)}
             W == Way(p)
  <1>1. n \in Nat
    BY DEF Places
  <1>2. W = CHOOSE f : f = Body(f, n)
    BY DEF Way
  <1> HIDE DEF top
  <1>3. 0 \in Defined
    <2> DEFINE f == [k \in 0..0 |-> top]
    <2>1. f = Body(f, 0)
      OBVIOUS
    <2> QED BY <2>1
  <1>4. ASSUME NEW j \in Nat, j \in Defined PROVE j + 1 \in Defined
    <2>1. PICK f : f = Body(f, j)
      BY <1>4
    <2> DEFINE g == [k \in 0..(j + 1) |-> IF k <= j THEN f[k] ELSE f[j].mw[p[j + 1]]]
    <2>2. \A k \in 0..j : f[k] = IF k = 0 THEN top ELSE f[k - 1].mw[p[k]]
      BY <2>1
    <2>3. \A k \in 0..(j + 1) : g[k] = IF k = 0 THEN top ELSE g[k - 1].mw[p[k]]
      BY <2>2
    <2>4. g = Body(g, j + 1) /\ j + 1 \in Nat
      BY <2>3
    <2> HIDE DEF g
    <2> QED BY <2>4
  <1>5. n \in Defined
    BY <1>1, <1>3, <1>4, ByInduction
  <1>6. W = Body(W, n)
    BY <1>2, <1>5
  <1> HIDE DEF W
  <1>7. \A k \in 0..n : W[k] = IF k = 0 THEN top ELSE W[k - 1].mw[p[k]]
    BY <1>6
  <1>8. W[0] = top /\ \A k \in 1..n : W[k] = W[k - 1].mw[p[k]]
    BY <1>1, <1>7
  <1> QED BY <1>8 DEF W, top

(* The middleware at the n-th place of the chain that the one at p wraps. *)
LEMMA MwAtAppend ==
  ASSUME NEW p \in Places, NEW n \in Nat
  PROVE  MwAt(Append(p, n)) = MwAt(p).mw[n]
  <1> DEFINE q == Append(p, n)
             W == Way(p)
             V == Way(q)
             Good == {k \in Nat : k <= Len(p) => V[k] = W[k]}
  <1>1. /\ p \in Seq(Nat) /\ q \in Places /\ Len(q) = Len(p) + 1 /\ Len(p) \in Nat
        /\ q[Len(p) + 1] = n /\ \A i \in 1..Len(p) : q[i] = p[i]
    BY DEF Places
  <1>2. W[0] = V[0] /\ \A k \in 1..Len(p) : W[k] = W[k - 1].mw[p[k]]
    BY <1>1, WaySteps
  <1>3. \A k \in 1..(Len(p) + 1) : V[k] = V[k - 1].mw[q[k]]
    BY <1>1, WaySteps
  <1> HIDE DEF W, V, q
  <1>4. 0 \in Good
    BY <1>2
  <1>5. ASSUME NEW k \in Nat, k \in Good PROVE k + 1 \in Good
    <2> SUFFICES ASSUME k + 1 <= Len(p) PROVE V[k + 1] = W[k + 1]
      BY DEF Good
    <2>1. k + 1 \in 1..Len(p) /\ k + 1 \in 1..(Len(p) + 1) /\ (k + 1) - 1 = k /\ k <= Len(p)
      BY <1>1
    <2>2. V[k] = W[k] /\ q[k + 1] = p[k + 1]
      BY <1>1, <1>5, <2>1
    <2>3. V[k + 1] = V[k].mw[q[k + 1]] /\ W[k + 1] = W[k].mw[p[k + 1]]
      BY <1>2, <1>3, <2>1
    <2> QED BY <2>2, <2>3
  <1>6. Len(p) \in Good
    <2> HIDE DEF Good
    <2> QED BY <1>1, <1>4, <1>5, ByInduction
  <1>7. V[Len(p)] = W[Len(p)]
    BY <1>1, <1>6
  <1>8. V[Len(p) + 1] = W[Len(p)].mw[n]
    <2>1. Len(p) + 1 \in 1..(Len(p) + 1) /\ (Len(p) + 1) - 1 = Len(p)
      BY <1>1
    <2> QED BY <1>1, <1>3, <1>7, <2>1
  <1> QED BY <1>1, <1>8 DEF MwAt, V, W, q

(* The chain itself. *)
LEMMA MwAtTop == MwAt(<<>>) = [kind |-> "chain", mw |-> chain]
  <1>1. <<>> \in Places /\ Len(<<>>) = 0
    BY DEF Places
  <1> QED BY <1>1, WaySteps DEF MwAt

-----------------------------------------------------------------------------
(* Sequences that agree at each index are equal. *)
LEMMA SameSeq ==
  ASSUME NEW S, NEW a \in Seq(S), NEW b \in Seq(S), Len(a) = Len(b),
         \A i \in 1..Len(a) : a[i] = b[i]
  PROVE  a = b
  OBVIOUS

(* All but the last element of a sequence. *)
LEMMA FrontAt ==
  ASSUME NEW S, NEW a \in Seq(S), a # <<>>
  PROVE  /\ Front(a) \in Seq(S) /\ Len(Front(a)) = Len(a) - 1
         /\ \A i \in 1..(Len(a) - 1) : Front(a)[i] = a[i]
         /\ Last(a) = a[Len(a)] /\ Len(a) \in Nat /\ Len(a) > 0
  <1>1. Len(a) \in Nat /\ Len(a) > 0
    OBVIOUS
  <1> DEFINE n == Len(a) - 1
             f == SubSeq(a, 1, n)
  <1>2. n \in Nat /\ n <= Len(a)
    BY <1>1
  <1>3. f \in Seq(S) /\ Len(f) = n /\ \A i \in 1..n : f[i] = a[i]
    <2> HIDE DEF n
    <2> QED BY <1>2
  <1>4. Front(a) = f /\ Last(a) = a[Len(a)]
    BY DEF Front, Last
  <1> HIDE DEF f
  <1> QED BY <1>1, <1>3, <1>4

(* What is outside a place, and what wraps it, index by index. *)
LEMMA OuterAt ==
  ASSUME NEW p \in Places, Valid(p), NEW q
  PROVE  q \in Outer(p) <=>
            /\ q \in Places /\ Len(q) \in 1..Len(p)
            /\ \A i \in 1..(Len(q) - 1) : q[i] = p[i]
            /\ q[Len(q)] > p[Len(q)] /\ q[Len(q)] <= Branch(p, Len(q))
  <1>1. p \in Seq(Nat) /\ Len(p) \in Nat /\ DOMAIN p = 1..Len(p)
    BY DEF Places
  <1>2. q \in Outer(p) <=> \E k \in 1..Len(p) : \E n \in (p[k] + 1)..Branch(p, k) :
                              q = Append(SubSeq(p, 1, k - 1), n)
    <2> DEFINE To(k, n) == Append(SubSeq(p, 1, k - 1), n)
               Ns(k) == (p[k] + 1)..Branch(p, k)
    <2>1. Outer(p) = UNION {{To(k, n) : n \in Ns(k)} : k \in 1..Len(p)}
      BY <1>1 DEF Outer, Branch
    <2> HIDE DEF To, Ns
    <2>2. q \in Outer(p) <=> \E k \in 1..Len(p) : \E n \in Ns(k) : q = To(k, n)
      BY <2>1
    <2> QED BY <2>2 DEF To, Ns
  <1>3. ASSUME NEW k \in 1..Len(p), NEW n \in Nat
        PROVE  LET x == Append(SubSeq(p, 1, k - 1), n)
               IN  /\ x \in Places /\ Len(x) = k /\ x[k] = n
                   /\ \A i \in 1..(k - 1) : x[i] = p[i]
    <2> DEFINE y == SubSeq(p, 1, k - 1)
    <2>1. y \in Seq(Nat) /\ Len(y) = k - 1 /\ \A i \in 1..(k - 1) : y[i] = p[i]
      BY <1>1
    <2> HIDE DEF y
    <2>2. /\ Append(y, n) \in Seq(Nat) /\ Len(Append(y, n)) = k /\ Append(y, n)[k] = n
          /\ \A i \in 1..(k - 1) : Append(y, n)[i] = y[i]
      BY <2>1
    <2> QED BY <2>1, <2>2 DEF y, Places
  <1>4. ASSUME NEW k \in 1..Len(p) PROVE Branch(p, k) \in Nat /\ p[k] \in Nat
    BY <1>1 DEF Valid
  <1>5. ASSUME q \in Outer(p)
        PROVE  /\ q \in Places /\ Len(q) \in 1..Len(p)
               /\ \A i \in 1..(Len(q) - 1) : q[i] = p[i]
               /\ q[Len(q)] > p[Len(q)] /\ q[Len(q)] <= Branch(p, Len(q))
    <2>1. PICK k \in 1..Len(p) : \E n \in (p[k] + 1)..Branch(p, k) :
                              q = Append(SubSeq(p, 1, k - 1), n)
      BY <1>2, <1>5
    <2>2. PICK n \in (p[k] + 1)..Branch(p, k) : q = Append(SubSeq(p, 1, k - 1), n)
      BY <2>1
    <2>3. n \in Nat /\ n > p[k] /\ n <= Branch(p, k)
      BY <1>4
    <2>4. q \in Places /\ Len(q) = k /\ q[k] = n /\ \A i \in 1..(k - 1) : q[i] = p[i]
      BY <1>3, <2>2, <2>3
    <2> QED BY <2>3, <2>4
  <1>6. ASSUME q \in Places, Len(q) \in 1..Len(p), \A i \in 1..(Len(q) - 1) : q[i] = p[i],
               q[Len(q)] > p[Len(q)], q[Len(q)] <= Branch(p, Len(q))
        PROVE  q \in Outer(p)
    <2> DEFINE k == Len(q)
               n == q[k]
               x == Append(SubSeq(p, 1, k - 1), n)
    <2>1. q \in Seq(Nat) /\ k \in 1..Len(p) /\ n \in Nat
      BY <1>6 DEF Places
    <2>2. n \in (p[k] + 1)..Branch(p, k)
      BY <1>4, <1>6, <2>1
    <2>3. x \in Seq(Nat) /\ Len(x) = k /\ x[k] = n /\ \A i \in 1..(k - 1) : x[i] = p[i]
      BY <1>3, <2>1 DEF Places
    <2> HIDE DEF x
    <2>4. \A i \in 1..k : i \in 1..(k - 1) \/ i = k
      BY <2>1
    <2>5. q = x
      <3>1. \A i \in 1..k : q[i] = x[i]
        BY <1>6, <2>1, <2>3, <2>4
      <3> QED BY <2>1, <2>3, <3>1, SameSeq
    <2> QED BY <1>2, <2>1, <2>2, <2>5 DEF x
  <1> QED BY <1>5, <1>6

(* The recovers that wrap a place, index by index. *)
LEMMA WrappingAt ==
  ASSUME NEW p \in Places, NEW q
  PROVE  q \in Wrapping(p) <=>
            q \in Places /\ Len(q) \in 1..(Len(p) - 1) /\ \A i \in 1..Len(q) : q[i] = p[i]
  <1>1. p \in Seq(Nat) /\ Len(p) \in Nat
    BY DEF Places
  <1>2. ASSUME NEW k \in 1..(Len(p) - 1)
        PROVE  LET x == SubSeq(p, 1, k)
               IN  x \in Seq(Nat) /\ Len(x) = k /\ \A i \in 1..k : x[i] = p[i]
    BY <1>1
  <1>3. ASSUME q \in Places, Len(q) \in 1..(Len(p) - 1), \A i \in 1..Len(q) : q[i] = p[i]
        PROVE  q = SubSeq(p, 1, Len(q))
    <2> DEFINE x == SubSeq(p, 1, Len(q))
    <2>1. x \in Seq(Nat) /\ Len(x) = Len(q) /\ \A i \in 1..Len(q) : x[i] = p[i]
      BY <1>2, <1>3
    <2> HIDE DEF x
    <2>2. q = x
      BY <1>3, <2>1, SameSeq DEF Places
    <2> QED BY <2>2 DEF x
  <1> QED BY <1>1, <1>2, <1>3 DEF Wrapping, Places

(* Places that begin alike are in the same chains. *)
LEMMA SameBranch ==
  ASSUME NEW p \in Places, NEW q \in Places, NEW k \in Nat, k <= Len(p), k <= Len(q), k > 0,
         \A i \in 1..(k - 1) : p[i] = q[i]
  PROVE  Branch(p, k) = Branch(q, k)
  <1>1. p \in Seq(Nat) /\ q \in Seq(Nat)
    BY DEF Places
  <1> DEFINE x == SubSeq(p, 1, k - 1)
             y == SubSeq(q, 1, k - 1)
  <1>2. /\ x \in Seq(Nat) /\ Len(x) = k - 1 /\ \A i \in 1..(k - 1) : x[i] = p[i]
        /\ y \in Seq(Nat) /\ Len(y) = k - 1 /\ \A i \in 1..(k - 1) : y[i] = q[i]
    BY <1>1
  <1> HIDE DEF x, y
  <1>3. x = y
    BY <1>2
  <1> QED BY <1>3 DEF Branch, x, y

(* The place of the next handler: what was outside is, and the place it is *)
(* the next one of.                                                        *)
LEMMA FollowPlace ==
  ASSUME NEW p \in Places, p # <<>>, Valid(p), Last(p) > 0, Last(p) <= Branch(p, Len(p))
  PROVE  /\ Follow(p) \in Places /\ Follow(p) # <<>> /\ Valid(Follow(p))
         /\ Len(Follow(p)) = Len(p) /\ Follow(p)[Len(p)] = p[Len(p)] - 1
         /\ \A i \in 1..(Len(p) - 1) : Follow(p)[i] = p[i]
         /\ Front(Follow(p)) = Front(p) /\ Last(Follow(p)) = Last(p) - 1
         /\ Outer(Follow(p)) = Outer(p) \cup {p}
         /\ Wrapping(Follow(p)) = Wrapping(p)
  <1> DEFINE r == Follow(p)
             L == Len(p)
             f == Front(p)
  <1>1. p \in Seq(Nat) /\ L \in Nat /\ L > 0 /\ p[L] \in Nat /\ Last(p) = p[L]
    BY DEF Places, Last
  <1>2. f \in Seq(Nat) /\ Len(f) = L - 1 /\ \A i \in 1..(L - 1) : f[i] = p[i]
    BY <1>1, FrontAt
  <1>3. r = Append(f, p[L] - 1) /\ p[L] - 1 \in Nat
    BY <1>1 DEF Follow
  <1> HIDE DEF r, f
  <1>4. /\ r \in Seq(Nat) /\ Len(r) = L /\ r[L] = p[L] - 1 /\ r # <<>>
        /\ \A i \in 1..(L - 1) : r[i] = p[i]
    BY <1>1, <1>2, <1>3
  <1>5. Front(r) = f /\ Last(r) = p[L] - 1
    BY <1>1, <1>2, <1>3, <1>4 DEF Front, Last
  <1>6. r \in Places
    BY <1>4 DEF Places
  <1>7. \A k \in 1..L : Branch(r, k) = Branch(p, k)
    <2> SUFFICES ASSUME NEW k \in 1..L PROVE Branch(r, k) = Branch(p, k)
      OBVIOUS
    <2>1. /\ k \in Nat /\ k > 0 /\ k <= Len(p) /\ k <= Len(r)
          /\ \A i \in 1..(k - 1) : r[i] = p[i]
      BY <1>1, <1>4
    <2> QED BY <1>6, <2>1, SameBranch
  <1>8. Valid(r)
    BY <1>4, <1>7 DEF Valid
  <1>9. \A q : q \in Wrapping(r) <=> q \in Wrapping(p)
    <2> SUFFICES ASSUME NEW q PROVE q \in Wrapping(r) <=> q \in Wrapping(p)
      OBVIOUS
    <2>1. q \in Wrapping(r) <=>
            q \in Places /\ Len(q) \in 1..(L - 1) /\ \A i \in 1..Len(q) : q[i] = r[i]
      BY <1>4, <1>6, WrappingAt
    <2>2. q \in Wrapping(p) <=>
            q \in Places /\ Len(q) \in 1..(L - 1) /\ \A i \in 1..Len(q) : q[i] = p[i]
      BY WrappingAt
    <2>3. ASSUME Len(q) \in 1..(L - 1) PROVE \A i \in 1..Len(q) : r[i] = p[i]
      <3>1. \A i \in 1..Len(q) : i \in 1..(L - 1)
        BY <1>1, <2>3
      <3> QED BY <1>4, <3>1
    <2> QED BY <2>1, <2>2, <2>3
  <1>10. \A q : q \in Outer(r) <=> q \in Outer(p) \cup {p}
    <2> SUFFICES ASSUME NEW q PROVE q \in Outer(r) <=> q \in Outer(p) \/ q = p
      OBVIOUS
    <2>1. q \in Outer(r) <=>
            /\ q \in Places /\ Len(q) \in 1..L
            /\ \A i \in 1..(Len(q) - 1) : q[i] = r[i]
            /\ q[Len(q)] > r[Len(q)] /\ q[Len(q)] <= Branch(r, Len(q))
      BY <1>4, <1>6, <1>8, OuterAt
    <2>2. q \in Outer(p) <=>
            /\ q \in Places /\ Len(q) \in 1..L
            /\ \A i \in 1..(Len(q) - 1) : q[i] = p[i]
            /\ q[Len(q)] > p[Len(q)] /\ q[Len(q)] <= Branch(p, Len(q))
      BY OuterAt
    <2>3. CASE q \in Places /\ Len(q) \in 1..(L - 1)
      <3>1. /\ \A i \in 1..Len(q) : r[i] = p[i]
            /\ Len(q) \in 1..L /\ Branch(r, Len(q)) = Branch(p, Len(q)) /\ q # p
        BY <1>1, <1>4, <1>7, <2>3
      <3>2. \A i \in 1..(Len(q) - 1) : r[i] = p[i]
        BY <1>1, <2>3, <3>1
      <3>3. r[Len(q)] = p[Len(q)]
        BY <1>1, <2>3, <3>1
      <3> QED BY <2>1, <2>2, <3>1, <3>2, <3>3
    <2>4. CASE q \in Places /\ Len(q) = L
      <3>1. q \in Seq(Nat) /\ q[L] \in Nat /\ Branch(r, L) = Branch(p, L) /\ L \in 1..L
        BY <1>1, <1>7, <2>4 DEF Places
      <3>2. q \in Outer(r) <=> (\A i \in 1..(L - 1) : q[i] = p[i]) /\ q[L] >= p[L] /\ q[L] <= Branch(p, L)
        BY <1>1, <1>4, <2>1, <2>4, <3>1
      <3>3. q \in Outer(p) <=> (\A i \in 1..(L - 1) : q[i] = p[i]) /\ q[L] > p[L] /\ q[L] <= Branch(p, L)
        BY <1>1, <2>2, <2>4, <3>1
      <3>4. q = p <=> (\A i \in 1..(L - 1) : q[i] = p[i]) /\ q[L] = p[L]
        <4>1. \A i \in 1..L : i \in 1..(L - 1) \/ i = L
          BY <1>1
        <4>2. ASSUME \A i \in 1..(L - 1) : q[i] = p[i], q[L] = p[L] PROVE q = p
          <5>1. \A i \in 1..Len(q) : q[i] = p[i]
            BY <2>4, <4>1, <4>2
          <5> QED BY <1>1, <2>4, <3>1, <5>1, SameSeq
        <4> QED BY <4>2
      <3>5. p[L] <= Branch(p, L)
        BY <1>1
      <3> QED BY <1>1, <3>1, <3>2, <3>3, <3>4, <3>5
    <2>5. CASE ~ (q \in Places /\ Len(q) \in 1..L)
      <3>1. Len(p) \in 1..L
        BY <1>1
      <3> QED BY <2>1, <2>2, <2>5, <3>1
    <2>6. Len(q) \in 1..L => Len(q) \in 1..(L - 1) \/ Len(q) = L
      BY <1>1
    <2> QED BY <2>3, <2>4, <2>5, <2>6
  <1> QED BY <1>4, <1>5, <1>6, <1>8, <1>9, <1>10, <1>1 DEF r, f

(* The place of the outermost handler of a wrapped chain: what was outside *)
(* is, and the recover wraps it.                                           *)
LEMMA WrappedPlace ==
  ASSUME NEW p \in Places, p # <<>>, Valid(p), NEW m \in Nat, m = Len(MwAt(p).mw)
  PROVE  LET r == Append(p, m)
         IN  /\ r \in Places /\ r # <<>> /\ Valid(r) /\ Len(r) = Len(p) + 1
             /\ r[Len(p) + 1] = m /\ \A i \in 1..Len(p) : r[i] = p[i]
             /\ Front(r) = p /\ Last(r) = m
             /\ Outer(r) = Outer(p)
             /\ Wrapping(r) = Wrapping(p) \cup {p}
  <1> DEFINE r == Append(p, m)
             L == Len(p)
  <1>1. p \in Seq(Nat) /\ L \in Nat /\ L > 0
    BY DEF Places
  <1>2. r \in Seq(Nat) /\ Len(r) = L + 1 /\ r[L + 1] = m /\ r # <<>> /\ \A i \in 1..L : r[i] = p[i]
    BY <1>1
  <1>3. Front(r) = p /\ Last(r) = m
    BY <1>1, <1>2 DEF Front, Last
  <1>4. r \in Places
    BY <1>2 DEF Places
  <1>5. Branch(r, L + 1) = m
    <2>1. SubSeq(r, 1, L) = p
      BY <1>1, <1>2
    <2>2. (L + 1) - 1 = L
      BY <1>1
    <2> QED BY <2>1, <2>2 DEF Branch
  <1> HIDE DEF r
  <1>6. \A k \in 1..L : Branch(r, k) = Branch(p, k)
    <2> SUFFICES ASSUME NEW k \in 1..L PROVE Branch(r, k) = Branch(p, k)
      OBVIOUS
    <2>1. /\ k \in Nat /\ k > 0 /\ k <= Len(p) /\ k <= Len(r)
          /\ \A i \in 1..(k - 1) : r[i] = p[i]
      BY <1>1, <1>2
    <2> QED BY <1>4, <2>1, SameBranch
  <1>7. Valid(r)
    <2>1. \A k \in 1..(L + 1) : k \in 1..L \/ k = L + 1
      BY <1>1
    <2> QED BY <1>2, <1>5, <1>6, <2>1 DEF Valid
  <1>8. \A q : q \in Wrapping(r) <=> q \in Wrapping(p) \cup {p}
    <2> SUFFICES ASSUME NEW q PROVE q \in Wrapping(r) <=> q \in Wrapping(p) \/ q = p
      OBVIOUS
    <2>1. q \in Wrapping(r) <=>
            q \in Places /\ Len(q) \in 1..L /\ \A i \in 1..Len(q) : q[i] = r[i]
      BY <1>1, <1>2, <1>4, WrappingAt
    <2>2. q \in Wrapping(p) <=>
            q \in Places /\ Len(q) \in 1..(L - 1) /\ \A i \in 1..Len(q) : q[i] = p[i]
      BY WrappingAt
    <2>3. ASSUME Len(q) \in 1..L PROVE \A i \in 1..Len(q) : r[i] = p[i]
      BY <1>1, <1>2, <2>3
    <2>4. ASSUME q \in Places, Len(q) = L PROVE q = p <=> \A i \in 1..L : q[i] = p[i]
      BY <1>1, <2>4, SameSeq DEF Places
    <2>5. Len(q) \in 1..L <=> Len(q) \in 1..(L - 1) \/ Len(q) = L
      BY <1>1
    <2>6. L \notin 1..(L - 1)
      BY <1>1
    <2> QED BY <2>1, <2>2, <2>3, <2>4, <2>5, <2>6
  <1>9. \A q : q \in Outer(r) <=> q \in Outer(p)
    <2> SUFFICES ASSUME NEW q PROVE q \in Outer(r) <=> q \in Outer(p)
      OBVIOUS
    <2>1. q \in Outer(r) <=>
            /\ q \in Places /\ Len(q) \in 1..(L + 1)
            /\ \A i \in 1..(Len(q) - 1) : q[i] = r[i]
            /\ q[Len(q)] > r[Len(q)] /\ q[Len(q)] <= Branch(r, Len(q))
      BY <1>2, <1>4, <1>7, OuterAt
    <2>2. q \in Outer(p) <=>
            /\ q \in Places /\ Len(q) \in 1..L
            /\ \A i \in 1..(Len(q) - 1) : q[i] = p[i]
            /\ q[Len(q)] > p[Len(q)] /\ q[Len(q)] <= Branch(p, Len(q))
      BY OuterAt
    <2>3. ASSUME q \in Places, Len(q) = L + 1 PROVE q \notin Outer(r)
      <3>1. q[L + 1] \in Nat
        BY <1>1, <2>3 DEF Places
      <3> QED BY <1>1, <1>2, <1>5, <2>1, <2>3, <3>1
    <2>4. ASSUME Len(q) \in 1..L
          PROVE  /\ \A i \in 1..(Len(q) - 1) : r[i] = p[i]
                 /\ r[Len(q)] = p[Len(q)] /\ Branch(r, Len(q)) = Branch(p, Len(q))
      BY <1>1, <1>2, <1>6, <2>4
    <2>5. Len(q) \in 1..(L + 1) <=> Len(q) \in 1..L \/ Len(q) = L + 1
      BY <1>1
    <2> QED BY <2>1, <2>2, <2>3, <2>4, <2>5
  <1> QED BY <1>2, <1>3, <1>4, <1>7, <1>8, <1>9 DEF r

-----------------------------------------------------------------------------
(* No place is outside itself, or wraps itself. *)
LEMMA NotSelf ==
  ASSUME NEW p \in Places, Valid(p)
  PROVE  p \notin Outer(p) /\ p \notin Wrapping(p)
  <1>1. p \in Seq(Nat) /\ Len(p) \in Nat
    BY DEF Places
  <1>2. p \notin Wrapping(p)
    BY <1>1, WrappingAt
  <1>3. ASSUME p \in Outer(p) PROVE FALSE
    <2>1. Len(p) \in 1..Len(p) /\ p[Len(p)] > p[Len(p)]
      BY <1>3, OuterAt
    <2>2. p[Len(p)] \in Nat
      BY <1>1, <2>1
    <2> QED BY <2>1, <2>2
  <1> QED BY <1>2, <1>3

(* The middleware of a frame, and its place. *)
LEMMA MwOfFrame ==
  ASSUME NEW f \in Frames, FrameOK(f), Last(f.at) > 0
  PROVE  /\ Mw(f) = MwAt(f.at) /\ Mw(f) \in Middlewares
         /\ Branch(f.at, Len(f.at)) = Len(f.mw) /\ Last(f.at) <= Len(f.mw) /\ Last(f.at) \in Nat
  <1> DEFINE p == f.at
             q == Front(p)
  <1>1. p \in Seq(Nat) /\ p # <<>> /\ f.mw \in Seq(Middlewares) /\ f.mw = MwAt(q).mw
        /\ Last(p) \in 0..Len(f.mw)
    BY DEF Frames, FrameOK, Places
  <1>2. /\ q \in Seq(Nat) /\ Len(q) = Len(p) - 1 /\ \A i \in 1..(Len(p) - 1) : q[i] = p[i]
        /\ Last(p) = p[Len(p)] /\ Len(p) \in Nat /\ Len(p) > 0
    BY <1>1, FrontAt
  <1>3. q = SubSeq(p, 1, Len(p) - 1)
    BY DEF Front
  <1>4. Branch(p, Len(p)) = Len(f.mw)
    BY <1>1, <1>3 DEF Branch
  <1> HIDE DEF q, p
  <1>5. Last(p) \in Nat /\ Len(f.mw) \in Nat /\ Last(p) \in DOMAIN f.mw /\ f.mw[Last(p)] \in Middlewares
    BY <1>1 DEF p
  <1>6. p = Append(q, Last(p))
    <2> DEFINE r == Append(q, Last(p))
    <2>1. r \in Seq(Nat) /\ Len(r) = Len(p) /\ r[Len(p)] = Last(p) /\ \A i \in 1..(Len(p) - 1) : r[i] = p[i]
      BY <1>2, <1>5
    <2> HIDE DEF r
    <2>2. \A i \in 1..Len(p) : i \in 1..(Len(p) - 1) \/ i = Len(p)
      BY <1>2
    <2>3. \A i \in 1..Len(p) : p[i] = r[i]
      BY <1>2, <2>1, <2>2
    <2>4. p = r
      BY <1>1, <2>1, <2>3, SameSeq
    <2> QED BY <2>4 DEF r
  <1>7. MwAt(p) = MwAt(q).mw[Last(p)]
    <2>1. q \in Places
      BY <1>2 DEF Places
    <2>2. MwAt(Append(q, Last(p))) = MwAt(q).mw[Last(p)]
      BY <1>5, <2>1, MwAtAppend
    <2> QED BY <1>6, <2>2
  <1>8. Mw(f) = f.mw[Last(p)]
    BY DEF Mw, p
  <1>9. f.mw = MwAt(q).mw
    BY <1>1 DEF q, p
  <1> QED BY <1>1, <1>4, <1>5, <1>7, <1>8, <1>9 DEF p

(* What is inside a handler that has still to run has still to run. *)
LEMMA RestClosed ==
  ASSUME NEW f \in Frames, f.at # <<>>, NEW q \in Rest(f), NEW x \in Places, Valid(x), q \in Outer(x)
  PROVE  x \in Rest(f)
  <1> DEFINE L == Len(f.at)
             K == Len(q)
  <1>1. /\ f.at \in Seq(Nat) /\ q \in Seq(Nat) /\ x \in Seq(Nat)
        /\ L \in Nat /\ L > 0 /\ K \in Nat /\ Len(x) \in Nat /\ q \in Places
    BY DEF Frames, Places, Rest
  <1>0. /\ \A i \in 1..L : f.at[i] \in Nat
        /\ \A i \in 1..K : q[i] \in Nat
        /\ \A i \in 1..Len(x) : x[i] \in Nat
    BY <1>1
  <1>2. /\ K >= L /\ \A i \in 1..(L - 1) : q[i] = f.at[i]
        /\ \/ f.pc = "in" /\ q[L] <= f.at[L]
           \/ f.pc = "mid" /\ q[L] < f.at[L]
    BY DEF Rest
  <1>3. K \in 1..Len(x) /\ (\A i \in 1..(K - 1) : q[i] = x[i]) /\ q[K] > x[K]
    BY OuterAt
  <1> HIDE DEF L, K
  <1>4. L \in 1..Len(x) /\ L \in 1..K /\ x[L] \in Nat /\ q[L] \in Nat /\ f.at[L] \in Nat
    <2>1. L \in 1..L /\ L \in 1..K
      BY <1>1, <1>2
    <2>2. L \in 1..Len(x)
      BY <1>1, <1>3, <2>1
    <2> QED BY <1>0, <2>1, <2>2
  <1>5. x[L] <= q[L]
    <2>1. CASE L = K
      BY <1>3, <1>4, <2>1
    <2>2. CASE L < K
      <3>1. L \in 1..(K - 1)
        BY <1>1, <2>2
      <3>2. q[L] = x[L]
        BY <1>3, <3>1
      <3> QED BY <1>4, <3>2
    <2> QED BY <1>1, <1>2, <2>1, <2>2
  <1>6. \A i \in 1..(L - 1) : x[i] = f.at[i]
    <2>1. \A i \in 1..(L - 1) : i \in 1..(K - 1)
      BY <1>1, <1>2
    <2> QED BY <1>2, <1>3, <2>1
  <1>7. \/ f.pc = "in" /\ x[L] <= f.at[L]
        \/ f.pc = "mid" /\ x[L] < f.at[L]
    BY <1>2, <1>4, <1>5
  <1>8. Len(x) >= L
    BY <1>1, <1>4
  <1> QED BY <1>6, <1>7, <1>8 DEF Rest, L

(* A handler that starts has itself to run, one that runs the next has     *)
(* nothing.                                                                *)
LEMMA RestOwn ==
  ASSUME NEW f \in Frames, f.at # <<>>
  PROVE  /\ f.pc = "in" => f.at \in Rest(f)
         /\ f.pc # "in" => f.at \notin Rest(f)
         /\ f.pc = "out" => Rest(f) = {}
  <1>1. f.at \in Seq(Nat) /\ Len(f.at) \in Nat /\ Len(f.at) \in 1..Len(f.at)
    BY DEF Frames, Places
  <1>2. f.at[Len(f.at)] \in Nat
    BY <1>1
  <1> QED BY <1>1, <1>2 DEF Rest, Places

(* Running the next handler leaves to run what is inside it. *)
LEMMA RestFollow ==
  ASSUME NEW f \in Frames, FrameOK(f), Last(f.at) > 0, f.pc \in {"in", "mid"},
         NEW g \in Frames, g.at = Follow(f.at), g.pc = "in"
  PROVE  Rest(g) \subseteq Rest(f) /\ f.at \notin Rest(g) /\ g.at \in Rest(g)
  <1> DEFINE p == f.at
             r == g.at
             L == Len(p)
  <1>1. p \in Places /\ p # <<>> /\ Valid(p) /\ Last(p) > 0 /\ Last(p) <= Branch(p, L)
    BY MwOfFrame DEF Frames, FrameOK
  <1>2. /\ r \in Places /\ r # <<>> /\ Len(r) = L /\ r[L] = p[L] - 1
        /\ \A i \in 1..(L - 1) : r[i] = p[i]
    BY <1>1, FollowPlace
  <1>3. L \in Nat /\ L \in 1..L /\ p[L] \in Nat
    BY <1>1 DEF Places
  <1> HIDE DEF p, r, L
  <1>4. ASSUME NEW q \in Rest(g) PROVE q \in Rest(f)
    <2>1. /\ q \in Places /\ Len(q) >= L /\ (\A i \in 1..(L - 1) : q[i] = r[i]) /\ q[L] <= r[L]
      BY <1>2, <1>4 DEF Rest, r
    <2>2. q[L] \in Nat
      BY <1>3, <2>1 DEF Places
    <2>3. \A i \in 1..(L - 1) : q[i] = p[i]
      BY <1>2, <2>1
    <2>4. q[L] < p[L] /\ q[L] <= p[L]
      BY <1>2, <1>3, <2>1, <2>2
    <2> QED BY <2>1, <2>3, <2>4 DEF Rest, p, L
  <1>5. p \notin Rest(g)
    <2> SUFFICES ASSUME p \in Rest(g) PROVE FALSE
      OBVIOUS
    <2>1. p[L] <= r[L]
      BY <1>2 DEF Rest, r
    <2> QED BY <1>2, <1>3, <2>1
  <1>6. r \in Rest(g)
    BY <1>2, RestOwn DEF r
  <1> QED BY <1>4, <1>5, <1>6 DEF p, r

(* Running a wrapped chain leaves to run what is inside it. *)
LEMMA RestWrapped ==
  ASSUME NEW f \in Frames, FrameOK(f), f.pc = "in",
         NEW g \in Frames, g.at = Append(f.at, Len(MwAt(f.at).mw)), g.pc = "in",
         Len(MwAt(f.at).mw) \in Nat
  PROVE  Rest(g) \subseteq Rest(f) /\ f.at \notin Rest(g) /\ g.at \in Rest(g)
  <1> DEFINE p == f.at
             r == g.at
             L == Len(p)
             m == Len(MwAt(p).mw)
  <1>1. p \in Places /\ p # <<>> /\ Valid(p) /\ m \in Nat /\ r = Append(p, m)
    BY DEF Frames, FrameOK
  <1> HIDE DEF p, r, m
  <1>2. /\ r \in Places /\ r # <<>> /\ Len(r) = L + 1
        /\ \A i \in 1..L : r[i] = p[i]
    BY <1>1, WrappedPlace DEF m
  <1>3. L \in Nat /\ L > 0 /\ L \in 1..L /\ p[L] \in Nat
    BY <1>1 DEF Places
  <1> HIDE DEF L
  <1>4. ASSUME NEW q \in Rest(g) PROVE q \in Rest(f)
    <2>1. /\ q \in Places /\ Len(q) >= L + 1 /\ \A i \in 1..((L + 1) - 1) : q[i] = r[i]
      BY <1>2, <1>4 DEF Rest, r
    <2>2. \A i \in 1..L : q[i] = p[i]
      BY <1>2, <1>3, <2>1
    <2>3. Len(q) \in Nat /\ Len(q) >= L /\ q[L] <= p[L] /\ \A i \in 1..(L - 1) : q[i] = p[i]
      BY <1>3, <2>1, <2>2 DEF Places
    <2> QED BY <2>1, <2>3 DEF Rest, p, L
  <1>5. p \notin Rest(g)
    BY <1>2, <1>3 DEF Rest, r, L
  <1>6. r \in Rest(g)
    BY <1>2, RestOwn DEF r
  <1> QED BY <1>4, <1>5, <1>6 DEF p, r

(* When it has returned, the next handler is left to run. *)
LEMMA RestPaused ==
  ASSUME NEW f \in Frames, FrameOK(f), f.pc = "in", NEW h \in Frames, h.at = f.at, h.pc = "mid"
  PROVE  Rest(h) \subseteq Rest(f) /\ f.at \notin Rest(h)
  <1> DEFINE p == f.at
             L == Len(p)
  <1>1. p \in Places /\ p # <<>>
    BY DEF Frames, FrameOK
  <1>3. L \in Nat /\ L > 0 /\ L \in 1..L /\ p[L] \in Nat
    BY <1>1 DEF Places
  <1> HIDE DEF p, L
  <1>7. ASSUME NEW q \in Rest(h) PROVE q \in Rest(f)
    <2>1. /\ q \in Places /\ Len(q) >= L /\ (\A i \in 1..(L - 1) : q[i] = p[i]) /\ q[L] < p[L]
      BY <1>7 DEF Rest, p, L
    <2>2. q[L] \in Nat
      BY <1>3, <2>1 DEF Places
    <2>3. q[L] <= p[L]
      BY <1>3, <2>1, <2>2
    <2> QED BY <2>1, <2>3 DEF Rest, p, L
  <1>8. p \notin Rest(h)
    BY <1>1, RestOwn DEF p
  <1> QED BY <1>7, <1>8 DEF p

(* A handler has not still to run what is inside one that it called. *)
LEMMA RestCaller ==
  ASSUME NEW f \in Frames, FrameOK(f), NEW g \in Frames, FrameOK(g), Calling(f, g)
  PROVE  g.at \notin Rest(f) /\ f.at # g.at
  <1>1. f.at # g.at
    BY NotSelf DEF Calling, FrameOK, Frames
  <1>2. CASE f.pc = "out"
    BY <1>1, <1>2, RestOwn DEF FrameOK
  <1>3. CASE f.pc = "mid" /\ f.at \in Wrapping(g.at)
    <2> DEFINE p == f.at
               r == g.at
               L == Len(p)
    <2>1. p \in Seq(Nat) /\ L \in Nat /\ L > 0 /\ r \in Places
      BY DEF Frames, Places, FrameOK
    <2>2. \A i \in 1..L : r[i] = p[i]
      BY <1>3, <2>1, WrappingAt
    <2>3. r[L] = p[L] /\ p[L] \in Nat
      BY <2>1, <2>2
    <2>4. r \in Rest(f) => r[L] < p[L]
      BY <1>3 DEF Rest
    <2> HIDE DEF p, r, L
    <2>5. r \notin Rest(f)
      BY <2>3, <2>4
    <2> QED BY <1>1, <2>5 DEF r
  <1> QED BY <1>1, <1>2, <1>3 DEF Calling

-----------------------------------------------------------------------------
(* The steps of a session, as what they do to its stack of handlers (k to  *)
(* l) and to what they have done (t to u): handlers return, the innermost  *)
(* one calls another one, and it adds what it does to the history.         *)
Cuts(k, l) == /\ l \in Seq(Frames) /\ Len(l) < Len(k)
              /\ \A i \in DOMAIN l : l[i] = k[i]

(* The frame x of a caller, f before, and the frame g of what it calls *)
GoesOn(s, f, x) == /\ x.at = f.at /\ x.mw = f.mw
                   /\ Rest(x) \subseteq Rest(f) /\ f.at \notin Rest(x)
                   /\ x.pc = "out" /\ MwAt(f.at).kind \in Gates => Admits(s, MwAt(f.at).kind)

Starts(f, x, g) == /\ FrameOK(g) /\ g.pc = "in" /\ Calling(x, g)
                   /\ Rest(g) \subseteq Rest(f) /\ f.at \notin Rest(g) /\ g.at \in Rest(f)
                   /\ Outer(f.at) \subseteq Outer(g.at) /\ Wrapping(f.at) \subseteq Wrapping(g.at)
                   /\ Outer(g.at) \cup Wrapping(g.at) \subseteq Outer(f.at) \cup Wrapping(f.at) \cup {f.at}

Calls(s, k, l) == /\ l \in Seq(Frames) /\ Len(l) = Len(k) + 1 /\ k # <<>>
                  /\ \A i \in 1..(Len(k) - 1) : l[i] = k[i]
                  /\ GoesOn(s, k[Len(k)], l[Len(k)])
                  /\ Starts(k[Len(k)], l[Len(k)], l[Len(k) + 1])

Answering(k, t, u, e, c) == /\ k # <<>> /\ u = Append(t, <<e, k[Len(k)].at, c>>) /\ c \in Answers
                            /\ e \in {"enter", "leave", "deny", "panic"}
                            /\ e \in {"enter", "deny"} => k[Len(k)].pc = "in"

Adds(k, t, u, e) == \E c \in Answers : Answering(k, t, u, e, c)

(* The frames after a call. *)
LEMMA AfterCall ==
  ASSUME NEW s, NEW k \in Seq(Frames), NEW l, Calls(s, k, l)
  PROVE  /\ Len(k) \in Nat /\ Len(k) > 0 /\ Len(k) \in DOMAIN k /\ DOMAIN k = 1..Len(k)
         /\ DOMAIN l = 1..(Len(k) + 1) /\ Len(k) \in DOMAIN l /\ Len(k) + 1 \in DOMAIN l
         /\ \A i \in DOMAIN l : \/ i \in 1..(Len(k) - 1) /\ i \in DOMAIN k /\ i < Len(k) /\ l[i] = k[i]
                                \/ i = Len(k) \/ i = Len(k) + 1
         /\ k[Len(k)] \in Frames /\ l[Len(k)] \in Frames /\ l[Len(k) + 1] \in Frames
  <1>1. Len(k) \in Nat /\ Len(k) > 0 /\ DOMAIN k = 1..Len(k) /\ l \in Seq(Frames) /\ Len(l) = Len(k) + 1
    BY DEF Calls
  <1>2. DOMAIN l = 1..(Len(k) + 1) /\ Len(k) \in DOMAIN k
    BY <1>1
  <1> QED BY <1>1, <1>2 DEF Calls

(* The frames after a return. *)
LEMMA AfterCut ==
  ASSUME NEW k \in Seq(Frames), NEW l, Cuts(k, l)
  PROVE  \A i \in DOMAIN l : i \in DOMAIN k /\ l[i] = k[i] /\ i < Len(k)
  <1>1. Len(k) \in Nat /\ DOMAIN k = 1..Len(k) /\ l \in Seq(Frames) /\ Len(l) < Len(k) /\ DOMAIN l = 1..Len(l)
    BY DEF Cuts
  <1> QED BY <1>1 DEF Cuts

(* Returns and calls keep the stack one of handlers that called each other.*)
LEMMA StackStep ==
  ASSUME NEW s, NEW k \in Seq(Frames), NEW l, StackOK(k), Admitted(s, k),
         Cuts(k, l) \/ Calls(s, k, l)
  PROVE  StackOK(l) /\ Admitted(s, l)
  <1>1. CASE Cuts(k, l)
    <2>1. \A i \in DOMAIN l : i \in DOMAIN k /\ l[i] = k[i] /\ i < Len(k)
      BY <1>1, AfterCut
    <2>2. Typed(l) /\ Nested(l) /\ Admitted(s, l)
      BY <2>1 DEF StackOK, Typed, Nested, Admitted
    <2>3. Complete(l)
      <3> SUFFICES ASSUME NEW i \in DOMAIN l, NEW q \in Outer(l[i].at) \cup Wrapping(l[i].at)
                   PROVE  \E j \in DOMAIN l : j < i /\ l[j].at = q
        BY DEF Complete
      <3>1. PICK j \in DOMAIN k : j < i /\ k[j].at = q
        BY <2>1 DEF StackOK, Complete
      <3>2. j \in DOMAIN l
        BY <1>1, <3>1 DEF Cuts
      <3> QED BY <2>1, <3>1, <3>2
    <2> QED BY <2>2, <2>3 DEF StackOK
  <1>2. CASE Calls(s, k, l)
    <2> DEFINE n == Len(k)
               f == k[n]
               x == l[n]
               g == l[n + 1]
    <2>1. /\ n \in Nat /\ n > 0 /\ n \in DOMAIN k /\ DOMAIN k = 1..n
          /\ DOMAIN l = 1..(n + 1) /\ n \in DOMAIN l /\ n + 1 \in DOMAIN l
          /\ \A i \in DOMAIN l : \/ i \in 1..(n - 1) /\ i \in DOMAIN k /\ i < n /\ l[i] = k[i]
                                 \/ i = n \/ i = n + 1
      BY <1>2, AfterCall
    <2>2. GoesOn(s, f, x) /\ Starts(f, x, g) /\ \A i \in 1..(n - 1) : l[i] = k[i]
      BY <1>2 DEF Calls
    <2> HIDE DEF n, f, x, g
    <2>3. FrameOK(f) /\ FrameOK(x) /\ FrameOK(g)
      BY <2>1, <2>2 DEF StackOK, Typed, f, FrameOK, GoesOn, Starts, Calling
    <2>4. Typed(l)
      BY <2>1, <2>3 DEF StackOK, Typed, x, g
    <2>5. ASSUME NEW i \in 1..(n - 1)
          PROVE  l[i] = k[i] /\ Calling(l[i], x) /\ Calling(l[i], g)
      <3>1. i \in DOMAIN k /\ i < n /\ l[i] = k[i]
        BY <2>1, <2>2
      <3>2. Calling(k[i], f)
        BY <2>1, <3>1 DEF StackOK, Nested, f
      <3> QED BY <2>2, <3>1, <3>2 DEF Calling, GoesOn, Starts
    <2>6. Nested(l)
      <3> SUFFICES ASSUME NEW i \in DOMAIN l, NEW j \in DOMAIN l, i < j PROVE Calling(l[i], l[j])
        BY DEF Nested
      <3>1. CASE j \in 1..(n - 1)
        <4>1. i \in 1..(n - 1) /\ i \in DOMAIN k /\ j \in DOMAIN k
          BY <2>1, <3>1
        <4> QED BY <2>5, <3>1, <4>1 DEF StackOK, Nested
      <3>2. CASE j = n
        <4>1. i \in 1..(n - 1)
          BY <2>1, <3>2
        <4> QED BY <2>5, <3>2, <4>1 DEF x
      <3>3. CASE j = n + 1
        <4>1. i \in 1..(n - 1) \/ i = n
          BY <2>1, <3>3
        <4> QED BY <2>2, <2>5, <3>3, <4>1 DEF x, g, Starts
      <3> QED BY <2>1, <3>1, <3>2, <3>3
    <2>7. ASSUME NEW i \in DOMAIN k, NEW q \in Outer(k[i].at) \cup Wrapping(k[i].at)
          PROVE  \E j \in DOMAIN l : j < i /\ l[j].at = q
      <3>1. PICK j \in DOMAIN k : j < i /\ k[j].at = q
        BY <2>7 DEF StackOK, Complete
      <3>2. j \in 1..(n - 1) /\ j \in DOMAIN l
        BY <2>1, <3>1
      <3> QED BY <2>2, <3>1, <3>2
    <2>8. Complete(l)
      <3> SUFFICES ASSUME NEW i \in DOMAIN l, NEW q \in Outer(l[i].at) \cup Wrapping(l[i].at)
                   PROVE  \E j \in DOMAIN l : j < i /\ l[j].at = q
        BY DEF Complete
      <3>1. CASE i \in 1..(n - 1)
        <4>1. i \in DOMAIN k /\ q \in Outer(k[i].at) \cup Wrapping(k[i].at)
          BY <2>1, <2>2, <3>1
        <4> QED BY <2>7, <4>1
      <3>2. CASE i = n
        <4>1. l[i].at = k[n].at
          BY <2>2, <3>2 DEF GoesOn, x, f
        <4> QED BY <2>1, <2>7, <3>2, <4>1
      <3>3. CASE i = n + 1
        <4>1. q \in Outer(f.at) \cup Wrapping(f.at) \/ q = x.at
          BY <2>2, <3>3 DEF GoesOn, Starts, g
        <4>2. CASE q = x.at
          BY <2>1, <3>3, <4>2 DEF x
        <4>3. CASE q \in Outer(f.at) \cup Wrapping(f.at)
          <5>1. PICK j \in DOMAIN l : j < n /\ l[j].at = q
            BY <2>1, <2>7, <4>3 DEF f
          <5> QED BY <2>1, <3>3, <5>1
        <4> QED BY <4>1, <4>2, <4>3
      <3> QED BY <2>1, <3>1, <3>2, <3>3
    <2>9. Admitted(s, l)
      <3> SUFFICES ASSUME NEW i \in DOMAIN l, l[i].pc = "out", MwAt(l[i].at).kind \in Gates
                   PROVE  Admits(s, MwAt(l[i].at).kind)
        BY DEF Admitted
      <3>1. CASE i \in 1..(n - 1)
        BY <2>1, <2>2, <3>1 DEF Admitted
      <3>2. CASE i = n
        BY <2>2, <3>2 DEF x, GoesOn
      <3>3. CASE i = n + 1
        BY <2>2, <3>3 DEF g, Starts
      <3> QED BY <2>1, <3>1, <3>2, <3>3
    <2> QED BY <2>4, <2>6, <2>8, <2>9 DEF StackOK
  <1> QED BY <1>1, <1>2

(* What was done, and one thing more. *)
LEMMA AfterAnswer ==
  ASSUME NEW k \in Seq(Frames), StackOK(k), NEW t \in Seq(Events), NEW u, NEW e, NEW c,
         Answering(k, t, u, e, c)
  PROVE  /\ u \in Seq(Events) /\ Len(t) \in Nat /\ DOMAIN t = 1..Len(t) /\ DOMAIN u = 1..(Len(t) + 1)
         /\ Len(t) + 1 \in DOMAIN u /\ Len(t) + 1 \notin DOMAIN t
         /\ \A j \in DOMAIN t : j \in DOMAIN u /\ u[j] = t[j] /\ j < Len(t) + 1
         /\ \A j \in DOMAIN u : j \in DOMAIN t \/ j = Len(t) + 1
         /\ At(u[Len(t) + 1]) = k[Len(k)].at /\ Event(u[Len(t) + 1]) = e /\ Code(u[Len(t) + 1]) = c
         /\ Len(k) \in DOMAIN k /\ k[Len(k)] \in Frames /\ FrameOK(k[Len(k)])
         /\ k[Len(k)].at \in Places
  <1>1. Len(k) \in DOMAIN k /\ k[Len(k)] \in Frames
    BY DEF Answering
  <1>2. FrameOK(k[Len(k)]) /\ k[Len(k)].at \in Places
    BY <1>1 DEF StackOK, Typed, Frames
  <1> DEFINE v == <<e, k[Len(k)].at, c>>
  <1>3. v \in Events /\ At(v) = k[Len(k)].at /\ Event(v) = e /\ Code(v) = c /\ u = Append(t, v)
    BY <1>2 DEF Events, Answering, At, Event, Code
  <1> HIDE DEF v
  <1>4. /\ u \in Seq(Events) /\ Len(t) \in Nat /\ DOMAIN t = 1..Len(t) /\ Len(u) = Len(t) + 1
        /\ u[Len(t) + 1] = v /\ \A j \in 1..Len(t) : u[j] = t[j]
    BY <1>3
  <1>5. DOMAIN u = 1..(Len(t) + 1)
    BY <1>4
  <1>6. /\ Len(t) + 1 \in DOMAIN u /\ Len(t) + 1 \notin DOMAIN t
        /\ \A j \in DOMAIN t : j \in DOMAIN u /\ u[j] = t[j] /\ j < Len(t) + 1
        /\ \A j \in DOMAIN u : j \in DOMAIN t \/ j = Len(t) + 1
    BY <1>4, <1>5
  <1> QED BY <1>1, <1>2, <1>3, <1>4, <1>5, <1>6

(* The same when it does not matter whether it is an answer. *)
LEMMA AfterAdd ==
  ASSUME NEW k \in Seq(Frames), StackOK(k), NEW t \in Seq(Events), NEW u, NEW e, Adds(k, t, u, e)
  PROVE  /\ u \in Seq(Events) /\ Len(t) \in Nat /\ DOMAIN t = 1..Len(t) /\ DOMAIN u = 1..(Len(t) + 1)
         /\ Len(t) + 1 \in DOMAIN u /\ Len(t) + 1 \notin DOMAIN t
         /\ \A j \in DOMAIN t : j \in DOMAIN u /\ u[j] = t[j] /\ j < Len(t) + 1
         /\ \A j \in DOMAIN u : j \in DOMAIN t \/ j = Len(t) + 1
         /\ At(u[Len(t) + 1]) = k[Len(k)].at /\ Event(u[Len(t) + 1]) = e
         /\ Len(k) \in DOMAIN k /\ k[Len(k)] \in Frames /\ FrameOK(k[Len(k)])
         /\ k[Len(k)].at \in Places
  BY AfterAnswer DEF Adds

(* What the innermost handler does was not to be run any more, and nothing *)
(* was done yet inside a handler that starts.                              *)
LEMMA PastStep ==
  ASSUME NEW s, NEW k \in Seq(Frames), StackOK(k), Admitted(s, k),
         NEW t \in Seq(Events), Past(s, t), Fresh(k, t), Active(k, t),
         NEW u, NEW e, Adds(k, t, u, e)
  PROVE  Past(s, u)
  <1> DEFINE n == Len(k)
             f == k[n]
             p == f.at
             m == Len(t) + 1
  <1>1. /\ u \in Seq(Events) /\ Len(t) \in Nat /\ DOMAIN t = 1..Len(t) /\ DOMAIN u = 1..m
        /\ m \in DOMAIN u /\ m \notin DOMAIN t
        /\ \A j \in DOMAIN t : j \in DOMAIN u /\ u[j] = t[j] /\ j < m
        /\ \A j \in DOMAIN u : j \in DOMAIN t \/ j = m
        /\ At(u[m]) = p /\ Event(u[m]) = e
        /\ n \in DOMAIN k /\ f \in Frames /\ FrameOK(f) /\ p \in Places
    BY AfterAdd
  <1>2. /\ e \in {"enter", "leave", "deny", "panic"} /\ e \in {"enter", "deny"} => f.pc = "in"
    BY DEF Adds, Answering
  <1> HIDE DEF n, f, p, m
  <1>3. p # <<>> /\ Valid(p) /\ p \notin Outer(p)
    BY <1>1, NotSelf DEF FrameOK, p
  <1>4. \A j \in DOMAIN t : t[j] \in Events /\ At(t[j]) \in Places /\ At(t[j]) # <<>> /\ Valid(At(t[j]))
    BY DEF Past, Known, Events, At
  <1>5. ASSUME f.pc = "in", NEW j \in DOMAIN t PROVE p \notin Outer(At(t[j])) /\ At(t[j]) # p
    <2>1. p \in Rest(f) /\ At(t[j]) \notin Rest(f)
      BY <1>1, <1>3, <1>5, RestOwn DEF Fresh, f, p
    <2> QED BY <1>1, <1>3, <1>4, <2>1, RestClosed DEF p
  <1>6. ASSUME NEW q \in Outer(p)
        PROVE  \E i \in DOMAIN k : k[i].at = q /\ Calling(k[i], f)
    <2>1. PICK i \in DOMAIN k : i < n /\ k[i].at = q
      BY <1>1, <1>6 DEF StackOK, Complete, f, p
    <2>2. Calling(k[i], k[n])
      BY <1>1, <2>1 DEF StackOK, Nested
    <2> QED BY <2>1, <2>2 DEF f
  <1>7. ASSUME NEW q \in Outer(p), NEW j \in DOMAIN t, At(t[j]) = q
        PROVE  Event(t[j]) = "enter"
    BY <1>6, <1>7 DEF Active
  <1>8. Known(u)
    BY <1>1, <1>3, <1>4 DEF Known
  <1>9. Once(u)
    <2> SUFFICES ASSUME NEW i \in DOMAIN u, NEW j \in DOMAIN u,
                        Event(u[i]) = "leave", Event(u[j]) = "leave", At(u[i]) = At(u[j]), i # j
                 PROVE  FALSE
      BY DEF Once
    <2>1. ASSUME NEW a \in DOMAIN t, At(u[a]) = p, Event(u[a]) = "leave" PROVE FALSE
      <3>1. At(t[a]) = p /\ Event(t[a]) = "leave"
        BY <1>1, <2>1
      <3> QED BY <1>1, <3>1 DEF Active, f, p
    <2> QED BY <1>1, <2>1 DEF Past, Once
  <1>10. Ordered(u)
    <2> SUFFICES ASSUME NEW i \in DOMAIN u, NEW j \in DOMAIN u, At(u[i]) \in Outer(At(u[j]))
                 PROVE  IF Event(u[i]) \in {"enter", "deny"} THEN i < j ELSE j < i
      BY DEF Ordered
    <2>1. CASE i \in DOMAIN t /\ j \in DOMAIN t
      BY <1>1, <2>1 DEF Past, Ordered
    <2>2. CASE i = m /\ j \in DOMAIN t
      BY <1>1, <1>2, <1>5, <2>2
    <2>3. CASE i = m /\ j = m
      BY <1>1, <1>3, <2>3
    <2>4. CASE i \in DOMAIN t /\ j = m
      BY <1>1, <1>7, <2>4
    <2> QED BY <1>1, <2>1, <2>2, <2>3, <2>4
  <1>11. Held(s, u)
    <2> SUFFICES ASSUME NEW j \in DOMAIN u, NEW q \in Outer(At(u[j])), MwAt(q).kind \in Gates
                 PROVE  Admits(s, MwAt(q).kind) /\ \A i \in DOMAIN u : ~ (Event(u[i]) = "deny" /\ At(u[i]) = q)
      BY DEF Held
    <2>1. CASE j \in DOMAIN t
      <3>1. Admits(s, MwAt(q).kind) /\ \A i \in DOMAIN t : ~ (Event(t[i]) = "deny" /\ At(t[i]) = q)
        BY <1>1, <2>1 DEF Past, Held
      <3>2. ~ (Event(u[m]) = "deny" /\ At(u[m]) = q)
        <4> SUFFICES ASSUME e = "deny", q = p PROVE FALSE
          BY <1>1
        <4> QED BY <1>1, <1>2, <1>5, <2>1
      <3> QED BY <1>1, <3>1, <3>2
    <2>2. CASE j = m
      <3>1. q \in Outer(p)
        BY <1>1, <2>2
      <3>2. PICK i \in DOMAIN k : k[i].at = q /\ Calling(k[i], f)
        BY <1>6, <3>1
      <3>3. k[i].pc = "out"
        BY <3>2 DEF Calling, Gates
      <3>4. Admits(s, MwAt(q).kind)
        BY <3>2, <3>3 DEF Admitted
      <3>5. \A a \in DOMAIN t : ~ (Event(t[a]) = "deny" /\ At(t[a]) = q)
        BY <1>7, <3>1
      <3>6. ~ (Event(u[m]) = "deny" /\ At(u[m]) = q)
        BY <1>1, <1>3, <3>1
      <3> QED BY <1>1, <3>4, <3>5, <3>6
    <2> QED BY <1>1, <2>1, <2>2
  <1> QED BY <1>8, <1>9, <1>10, <1>11 DEF Past

-----------------------------------------------------------------------------
(* The steps of a live session: its innermost handler calls another one,   *)
(* returns, or panics under a guard.                                       *)
KindOf(f) == MwAt(f.at).kind

Called(s, k, t, l, u) ==
    LET f == k[Len(k)]  x == l[Len(k)]  g == l[Len(k) + 1]
    IN  /\ Calls(s, k, l)
        /\ \/ u = t /\ (f.pc = "in" => KindOf(f) \in Gates)
           \/ Adds(k, t, u, "enter") /\ (KindOf(f) = "recover" => x.pc = "mid")
        /\ f.pc = "mid" => g.at = Follow(f.at)
        /\ KindOf(f) \in Around => f.pc = "in"

Returned(k, t, l, u) ==
    LET f == k[Len(k)]
    IN  /\ k # <<>> /\ Cuts(k, l) /\ Len(l) = Len(k) - 1 /\ f.pc # "mid"
        /\ \/ u = t /\ Last(f.at) = 0 /\ f.pc = "in"
           \/ u = t /\ f.pc = "out" /\ KindOf(f) \notin Around
           \/ /\ Adds(k, t, u, "enter") \/ Adds(k, t, u, "deny")
              /\ KindOf(f) \notin Around /\ KindOf(f) # "recover"
           \/ Adds(k, t, u, "leave") /\ f.pc = "out" /\ KindOf(f) # "recover"

Unwound(k, t, l, u) ==
    /\ Cuts(k, l) /\ Adds(k, t, u, "panic") /\ KindOf(k[Len(k)]) = "app"
    /\ Len(l) > 0 /\ KindOf(k[Len(l)]) = "recover"
    /\ \A i \in (Len(l) + 1)..Len(k) : ~ (KindOf(k[i]) = "recover" /\ k[i].pc \in {"mid", "out"})

Steps(s, k, t, l, u) == Called(s, k, t, l, u) \/ Returned(k, t, l, u) \/ Unwound(k, t, l, u)

(* A history grows by at most what the innermost handler does. *)
LEMMA StepShape ==
  ASSUME NEW s, NEW k \in Seq(Frames), NEW t, NEW l, NEW u, Steps(s, k, t, l, u)
  PROVE  /\ k # <<>>
         /\ Cuts(k, l) \/ Calls(s, k, l)
         /\ u = t \/ \E e \in {"enter", "leave", "deny", "panic"} :
                        Adds(k, t, u, e) /\ (Calls(s, k, l) => e = "enter")
  <1>1. Len(k) \in Nat
    OBVIOUS
  <1>2. ~ (Cuts(k, l) /\ Calls(s, k, l))
    BY <1>1 DEF Cuts, Calls
  <1>3. CASE Called(s, k, t, l, u)
    BY <1>3, Zenon DEF Called, Calls
  <1>4. CASE Returned(k, t, l, u)
    <2>1. Cuts(k, l) /\ k # <<>>
      BY <1>4 DEF Returned
    <2>2. u = t \/ Adds(k, t, u, "enter") \/ Adds(k, t, u, "deny") \/ Adds(k, t, u, "leave")
      BY <1>4, Zenon DEF Returned
    <2>3. u = t \/ \E e \in {"enter", "leave", "deny", "panic"} : Adds(k, t, u, e)
      <3> HIDE DEF Adds
      <3> QED BY <2>2
    <2> QED BY <1>2, <2>1, <2>3
  <1>5. CASE Unwound(k, t, l, u)
    BY <1>2, <1>5 DEF Unwound, Adds, Answering
  <1> QED BY <1>3, <1>4, <1>5 DEF Steps

(* Nothing that was done is still to be run, and what is running has only  *)
(* started.                                                                *)
LEMMA FreshStep ==
  ASSUME NEW s, NEW k \in Seq(Frames), StackOK(k), NEW t \in Seq(Events),
         Fresh(k, t), Active(k, t),
         NEW l, NEW u, Cuts(k, l) \/ Calls(s, k, l),
         u = t \/ \E e \in {"enter", "leave", "deny", "panic"} :
                        Adds(k, t, u, e) /\ (Calls(s, k, l) => e = "enter")
  PROVE  Fresh(l, u) /\ Active(l, u)
  <1> DEFINE n == Len(k)
             f == k[n]
             p == f.at
  <1>1. /\ \A j \in DOMAIN u : \/ j \in DOMAIN t /\ u[j] = t[j]
                               \/ /\ n \in DOMAIN k /\ At(u[j]) = p
                                  /\ Calls(s, k, l) => Event(u[j]) = "enter"
    <2>1. CASE u = t
      BY <2>1
    <2>2. ASSUME NEW e, Adds(k, t, u, e), Calls(s, k, l) => e = "enter",
                 NEW j \in DOMAIN u
          PROVE  \/ j \in DOMAIN t /\ u[j] = t[j]
                 \/ /\ n \in DOMAIN k /\ At(u[j]) = p
                    /\ Calls(s, k, l) => Event(u[j]) = "enter"
      <3> HIDE DEF n
      <3>1. /\ \A a \in DOMAIN t : u[a] = t[a]
            /\ \A a \in DOMAIN u : a \in DOMAIN t \/ a = Len(t) + 1
            /\ At(u[Len(t) + 1]) = p /\ Event(u[Len(t) + 1]) = e /\ n \in DOMAIN k
        BY <2>2, AfterAdd DEF n
      <3> QED BY <2>2, <3>1
    <2> QED BY <2>1, <2>2
  <1>2. ASSUME NEW i \in DOMAIN k, i < n, n \in DOMAIN k
        PROVE  p \notin Rest(k[i]) /\ k[i].at # p
    BY <1>2, RestCaller DEF StackOK, Typed, Nested
  <1>3. CASE Cuts(k, l)
    <2>1. \A i \in DOMAIN l : i \in DOMAIN k /\ l[i] = k[i] /\ i < n
      BY <1>3, AfterCut
    <2> HIDE DEF n, p
    <2>2. Fresh(l, u)
      BY <1>1, <1>2, <2>1 DEF Fresh
    <2>3. Active(l, u)
      BY <1>1, <1>2, <2>1 DEF Active
    <2> QED BY <2>2, <2>3
  <1>4. CASE Calls(s, k, l)
    <2> DEFINE x == l[n]
               g == l[n + 1]
    <2>1. /\ n \in DOMAIN k
          /\ \A i \in DOMAIN l : \/ i \in DOMAIN k /\ i < n /\ l[i] = k[i]
                                 \/ i = n \/ i = n + 1
          /\ f \in Frames /\ g \in Frames
      BY <1>4, AfterCall
    <2>2. GoesOn(s, f, x) /\ Starts(f, x, g)
      BY <1>4 DEF Calls
    <2>3. Rest(x) \subseteq Rest(f) /\ p \notin Rest(x) /\ x.at = p
      BY <2>2 DEF GoesOn
    <2>4. Rest(g) \subseteq Rest(f) /\ p \notin Rest(g) /\ g.at \in Rest(f) /\ g.at \in Rest(g)
      BY <2>1, <2>2, RestOwn DEF Starts, FrameOK
    <2>5. \A j \in DOMAIN t : At(t[j]) \notin Rest(f)
      BY <2>1 DEF Fresh
    <2>6. \A j \in DOMAIN t : At(t[j]) = p => Event(t[j]) = "enter"
      BY <2>1 DEF Active
    <2> HIDE DEF n, f, p, x, g
    <2>7. Fresh(l, u)
      <3> SUFFICES ASSUME NEW i \in DOMAIN l, NEW j \in DOMAIN u PROVE At(u[j]) \notin Rest(l[i])
        BY DEF Fresh
      <3>1. CASE i \in DOMAIN k /\ i < n /\ l[i] = k[i]
        BY <1>1, <1>2, <3>1 DEF Fresh
      <3>2. CASE i = n
        BY <1>1, <2>3, <2>5, <3>2 DEF x
      <3>3. CASE i = n + 1
        BY <1>1, <2>4, <2>5, <3>3 DEF g
      <3> QED BY <2>1, <3>1, <3>2, <3>3
    <2>8. Active(l, u)
      <3> SUFFICES ASSUME NEW i \in DOMAIN l, NEW j \in DOMAIN u, At(u[j]) = l[i].at
                   PROVE  Event(u[j]) = "enter"
        BY DEF Active
      <3>1. CASE i \in DOMAIN k /\ i < n /\ l[i] = k[i]
        BY <1>1, <1>2, <3>1 DEF Active
      <3>2. CASE i = n
        BY <1>1, <1>4, <2>3, <2>6, <3>2 DEF x
      <3>3. CASE i = n + 1
        BY <1>1, <1>4, <2>4, <2>5, <3>3 DEF g
      <3> QED BY <2>1, <3>1, <3>2, <3>3
    <2> QED BY <2>7, <2>8
  <1> QED BY <1>3, <1>4

(* The next handler after each recover was reached, or is still to be run. *)
LEMMA PassedStep ==
  ASSUME NEW s, NEW k \in Seq(Frames), StackOK(k), NEW t \in Seq(Events), Passed(k, t),
         NEW l, NEW u, Steps(s, k, t, l, u)
  PROVE  Passed(l, u)
  <1> DEFINE n == Len(k)
             f == k[n]
             p == f.at
  <1>1. n \in DOMAIN k /\ f \in Frames /\ DOMAIN k = 1..n /\ n \in Nat
    BY StepShape
  <1>2. ASSUME NEW i \in DOMAIN k, k[i].pc = "in" PROVE i = n
    <2> SUFFICES ASSUME i < n PROVE FALSE
      BY <1>1
    <2> QED BY <1>1, <1>2 DEF StackOK, Nested, Calling
  <1>3. /\ \A j \in DOMAIN t : j \in DOMAIN u /\ u[j] = t[j]
        /\ u = t \/ \E m \in DOMAIN u : /\ At(u[m]) = p
                                        /\ \A j \in DOMAIN u : j \in DOMAIN t \/ j = m
    <2>1. CASE u = t
      BY <2>1
    <2>2. ASSUME NEW e, Adds(k, t, u, e)
          PROVE  /\ \A j \in DOMAIN t : j \in DOMAIN u /\ u[j] = t[j]
                 /\ \E m \in DOMAIN u : /\ At(u[m]) = p
                                        /\ \A j \in DOMAIN u : j \in DOMAIN t \/ j = m
      BY <2>2, AfterAdd
    <2> QED BY <2>1, <2>2, StepShape
  <1>4. f.pc = "in" => \/ Last(p) = 0 \/ MwAt(p).kind \in Gates
                       \/ \E j \in DOMAIN u : At(u[j]) = p
    <2>1. ASSUME NEW e, Adds(k, t, u, e) PROVE \E j \in DOMAIN u : At(u[j]) = p
      BY <2>1, AfterAdd
    <2> SUFFICES ASSUME f.pc = "in"
                 PROVE  \/ Last(p) = 0 \/ MwAt(p).kind \in Gates
                        \/ \E j \in DOMAIN u : At(u[j]) = p
      OBVIOUS
    <2>2. CASE Called(s, k, t, l, u)
      <3>1. MwAt(p).kind \in Gates \/ Adds(k, t, u, "enter")
        BY <2>2, Zenon DEF Called, KindOf
      <3> QED BY <2>1, <3>1, Zenon
    <2>3. CASE Returned(k, t, l, u)
      <3>1. Last(p) = 0 \/ Adds(k, t, u, "enter") \/ Adds(k, t, u, "deny") \/ Adds(k, t, u, "leave")
        BY <2>3, Zenon DEF Returned
      <3> QED BY <2>1, <3>1, Zenon
    <2>4. CASE Unwound(k, t, l, u)
      BY <2>1, <2>4, Zenon DEF Unwound
    <2> QED BY <2>2, <2>3, <2>4, Zenon DEF Steps
  <1>5. ASSUME NEW q, Reached(k, t, q) PROVE Reached(l, u, q)
    <2>1. ASSUME NEW i \in DOMAIN k, k[i].at = q, k[i].pc = "in" PROVE Reached(l, u, q)
      BY <1>2, <1>4, <2>1 DEF Reached
    <2> QED BY <1>3, <1>5, <2>1 DEF Reached
  <1>6. ASSUME NEW i \in DOMAIN k, k[i].pc = "mid", MwAt(k[i].at).kind = "recover"
        PROVE  \/ \E a \in DOMAIN l : l[a].at = k[i].at /\ l[a].pc = "mid"
               \/ Reached(l, u, Follow(k[i].at))
    <2>1. CASE Called(s, k, t, l, u)
      <3>0. Calls(s, k, l)
        BY <2>1 DEF Called
      <3>1. /\ n \in DOMAIN l /\ n + 1 \in DOMAIN l /\ \A a \in 1..(n - 1) : l[a] = k[a] /\ a \in DOMAIN l
        <4>1. n \in DOMAIN l /\ n + 1 \in DOMAIN l /\ DOMAIN l = 1..(n + 1)
          BY <3>0, AfterCall
        <4>2. \A a \in 1..(n - 1) : l[a] = k[a]
          BY <3>0 DEF Calls
        <4> HIDE DEF n
        <4>3. \A a \in 1..(n - 1) : a \in 1..(n + 1)
          BY <1>1
        <4> QED BY <4>1, <4>2, <4>3
      <3>2. CASE i < n
        <4>1. i \in 1..(n - 1)
          BY <1>1, <3>2
        <4> QED BY <1>6, <3>1, <4>1
      <3>3. CASE i = n
        <4>1. l[n + 1].at = Follow(k[i].at)
          BY <1>6, <2>1, <3>3 DEF Called
        <4>2. l[n + 1].pc = "in"
          BY <3>0 DEF Calls, Starts
        <4> QED BY <3>1, <4>1, <4>2 DEF Reached
      <3> QED BY <1>1, <3>2, <3>3
    <2>2. CASE Returned(k, t, l, u)
      <3>1. Cuts(k, l) /\ Len(l) = n - 1 /\ i # n
        BY <1>6, <2>2 DEF Returned
      <3>2. i \in DOMAIN l /\ l[i] = k[i]
        BY <1>1, <3>1 DEF Cuts
      <3> QED BY <1>6, <3>2
    <2>3. CASE Unwound(k, t, l, u)
      <3>1. Cuts(k, l) /\ i \notin (Len(l) + 1)..n /\ Len(l) \in Nat
        BY <1>6, <2>3 DEF Unwound, Cuts, KindOf
      <3>2. i \in DOMAIN l /\ l[i] = k[i]
        BY <1>1, <3>1 DEF Cuts
      <3> QED BY <1>6, <3>2
    <2> QED BY <2>1, <2>2, <2>3 DEF Steps
  <1>7. ASSUME NEW j \in DOMAIN t, MwAt(At(t[j])).kind = "recover"
        PROVE  \/ \E a \in DOMAIN l : l[a].at = At(t[j]) /\ l[a].pc = "mid"
               \/ Reached(l, u, Follow(At(t[j])))
    BY <1>5, <1>6, <1>7 DEF Passed
  <1>8. ASSUME u # t, MwAt(p).kind = "recover"
        PROVE  \E a \in DOMAIN l : l[a].at = p /\ l[a].pc = "mid"
    <2>1. Called(s, k, t, l, u) /\ l[n].pc = "mid"
      <3>1. ~ Unwound(k, t, l, u)
        BY <1>8 DEF Unwound, KindOf
      <3>2. ~ Returned(k, t, l, u)
        <4> SUFFICES ASSUME Returned(k, t, l, u) PROVE FALSE
          OBVIOUS
        <4>1. KindOf(f) # "recover"
          BY <1>8, Zenon DEF Returned
        <4> QED BY <1>8, <4>1 DEF KindOf
      <3> QED BY <1>8, <3>1, <3>2 DEF Steps, Called, KindOf
    <2>2. Calls(s, k, l)
      BY <2>1 DEF Called
    <2>3. n \in DOMAIN l
      BY <2>2, AfterCall
    <2>4. l[n].at = p
      BY <2>2 DEF Calls, GoesOn
    <2> QED BY <2>1, <2>3, <2>4
  <1> HIDE DEF p, n, f
  <1> SUFFICES ASSUME NEW j \in DOMAIN u, MwAt(At(u[j])).kind = "recover"
               PROVE  \/ \E a \in DOMAIN l : l[a].at = At(u[j]) /\ l[a].pc = "mid"
                      \/ Reached(l, u, Follow(At(u[j])))
    BY DEF Passed
  <1> QED BY <1>3, <1>7, <1>8

-----------------------------------------------------------------------------
(* No place is outside one that is outside it or wraps it. *)
LEMMA OuterAsym ==
  ASSUME NEW q \in Places, Valid(q), NEW r \in Places, Valid(r),
         q \in Outer(r), r \in Outer(q) \cup Wrapping(q)
  PROVE  FALSE
  <1>1. q \in Seq(Nat) /\ r \in Seq(Nat) /\ Len(q) \in Nat /\ Len(r) \in Nat
    BY DEF Places
  <1>2. Len(q) \in 1..Len(r) /\ q[Len(q)] > r[Len(q)]
    BY OuterAt
  <1>3. r \notin Wrapping(q)
    BY <1>1, <1>2, WrappingAt
  <1>4. Len(r) \in 1..Len(q) /\ r[Len(r)] > q[Len(r)]
    BY <1>3, OuterAt
  <1>5. Len(q) = Len(r) /\ q[Len(q)] \in Nat /\ r[Len(r)] \in Nat
    BY <1>1, <1>2, <1>4
  <1> QED BY <1>2, <1>4, <1>5

(* What one thing more done changes for what was left or gone through. *)
LEMMA ThroughStep ==
  ASSUME NEW k \in Seq(Frames), StackOK(k), NEW t \in Seq(Events), NEW u, NEW e, Adds(k, t, u, e), NEW q
  PROVE  LET p == k[Len(k)].at
         IN  /\ Through(u, q) <=>
                  \/ Through(t, q)
                  \/ e = "panic" /\ q \in Outer(p) /\ ~ \E r \in Guarding(p) : q \in Outer(r)
             /\ Left(u, q) <=> Left(t, q) \/ (e = "leave" /\ q = p)
  <1> DEFINE p == k[Len(k)].at
             m == Len(t) + 1
  <1>1. /\ m \in DOMAIN u
        /\ \A j \in DOMAIN t : j \in DOMAIN u /\ u[j] = t[j]
        /\ \A j \in DOMAIN u : j \in DOMAIN t \/ j = m
        /\ At(u[m]) = p /\ Event(u[m]) = e
    BY AfterAdd
  <1> HIDE DEF p, m
  <1>2. Through(u, q) <=> \/ Through(t, q)
                          \/ e = "panic" /\ q \in Outer(p) /\ ~ \E r \in Guarding(p) : q \in Outer(r)
    <2> DEFINE Hit(v) == /\ Event(v) = "panic" /\ q \in Outer(At(v))
                         /\ ~ \E r \in Guarding(At(v)) : q \in Outer(r)
    <2>1. Hit(u[m]) <=> e = "panic" /\ q \in Outer(p) /\ ~ \E r \in Guarding(p) : q \in Outer(r)
      BY <1>1
    <2>2. (Through(u, q) <=> \E j \in DOMAIN u : Hit(u[j])) /\ (Through(t, q) <=> \E j \in DOMAIN t : Hit(t[j]))
      BY DEF Through
    <2> HIDE DEF Hit
    <2> QED BY <1>1, <2>1, <2>2
  <1>3. Left(u, q) <=> Left(t, q) \/ (e = "leave" /\ q = p)
    BY <1>1 DEF Left
  <1> QED BY <1>2, <1>3 DEF p

(* The handlers on the stack are at places of their own. *)
LEMMA Apart ==
  ASSUME NEW k \in Seq(Frames), StackOK(k), NEW i \in DOMAIN k, NEW j \in DOMAIN k, k[i].at = k[j].at
  PROVE  i = j
  <1>1. \A a, b \in DOMAIN k : a < b => k[a].at # k[b].at
    BY RestCaller DEF StackOK, Typed, Nested
  <1>2. i \in Nat /\ j \in Nat
    OBVIOUS
  <1> QED BY <1>1, <1>2

(* What a handler that runs the next one writes after it is written when   *)
(* it returns, and never when a panic goes through it: a call.             *)
LEMMA LeavesCalled ==
  ASSUME NEW s, NEW k \in Seq(Frames), StackOK(k), NEW t \in Seq(Events), Known(t),
         Fresh(k, t), Within(k, t), Leaves(k, t),
         NEW l, NEW u, Called(s, k, t, l, u)
  PROVE  Within(l, u) /\ Leaves(l, u)
  <1> DEFINE n == Len(k)
             f == k[n]
             p == f.at
             x == l[n]
             g == l[n + 1]
  <1>1. Calls(s, k, l) /\ GoesOn(s, f, x) /\ Starts(f, x, g)
    BY Zenon DEF Called, Calls
  <1>2. /\ n \in DOMAIN k /\ n \in DOMAIN l /\ n + 1 \in DOMAIN l
        /\ \A i \in DOMAIN l : \/ i \in DOMAIN k /\ i < n /\ l[i] = k[i]
                               \/ i = n \/ i = n + 1
        /\ f \in Frames /\ x \in Frames /\ g \in Frames
    BY <1>1, AfterCall
  <1>3. (u = t \/ Adds(k, t, u, "enter")) /\ (KindOf(f) \in Around => f.pc = "in")
    BY Zenon DEF Called
  <1>4. \A q : (Through(u, q) <=> Through(t, q)) /\ (Left(u, q) <=> Left(t, q))
    <2>1. CASE u = t
      BY <2>1
    <2>2. CASE Adds(k, t, u, "enter")
      BY <2>2, ThroughStep
    <2> QED BY <1>3, <2>1, <2>2
  <1>5. \A j \in DOMAIN u : (j \in DOMAIN t /\ u[j] = t[j]) \/ At(u[j]) = p
    <2>1. CASE u = t
      BY <2>1
    <2>2. CASE Adds(k, t, u, "enter")
      BY <2>2, AfterAdd
    <2> QED BY <1>3, <2>1, <2>2
  <1>6. \A i \in DOMAIN k : \E a \in DOMAIN l : l[a].at = k[i].at
    <2> SUFFICES ASSUME NEW i \in DOMAIN k PROVE \E a \in DOMAIN l : l[a].at = k[i].at
      OBVIOUS
    <2>1. DOMAIN k = 1..n /\ DOMAIN l = 1..(n + 1) /\ n \in Nat
      BY <1>1, AfterCall
    <2>2. \A a \in 1..(n - 1) : l[a] = k[a]
      BY <1>1 DEF Calls
    <2>3. CASE i = n
      BY <1>1, <1>2, <2>3 DEF GoesOn
    <2> HIDE DEF n
    <2>4. (i \in 1..(n - 1) /\ i \in DOMAIN l) \/ i = n
      BY <2>1
    <2> QED BY <2>2, <2>3, <2>4
  <1>7. g.at \in Rest(f) /\ g.pc = "in" /\ x.at = p
    BY <1>1 DEF Starts, GoesOn
  <1>8. \A j \in DOMAIN t : At(t[j]) \in Places /\ Valid(At(t[j])) /\ At(t[j]) \notin Rest(f)
    BY <1>2 DEF Fresh, Known, Events, At
  <1>9. f.pc = "in" => ~ Through(t, p)
    <2> SUFFICES ASSUME f.pc = "in", NEW j \in DOMAIN t, p \in Outer(At(t[j])) PROVE FALSE
      BY DEF Through
    <2>1. f.at # <<>>
      BY <1>2 DEF StackOK, Typed, FrameOK
    <2>2. p \in Rest(f)
      BY <1>2, <2>1, RestOwn
    <2> QED BY <1>2, <1>8, <2>1, <2>2, RestClosed
  <1> HIDE DEF n, f, p, x, g
  <1>10. Within(l, u)
    <2> SUFFICES ASSUME NEW i \in DOMAIN l, l[i].pc = "out", MwAt(l[i].at).kind \in Around
                 PROVE  ~ Through(t, l[i].at)
      BY <1>4 DEF Within
    <2>1. CASE i \in DOMAIN k /\ l[i] = k[i]
      BY <2>1 DEF Within
    <2>2. CASE i = n
      BY <1>3, <1>7, <1>9, <2>2 DEF x, KindOf, p
    <2>3. CASE i = n + 1
      BY <1>7, <2>3 DEF g
    <2> QED BY <1>2, <2>1, <2>2, <2>3
  <1>11. Leaves(l, u)
    <2> SUFFICES ASSUME NEW j \in DOMAIN u, MwAt(At(u[j])).kind \in Around
                 PROVE  LET q == At(u[j])
                        IN  \/ \E i \in DOMAIN l : l[i].at = q
                            \/ /\ ~ \E i \in DOMAIN l : l[i].at = q
                               /\ Left(u, q) <=> ~ Through(u, q)
      BY DEF Leaves
    <2>1. CASE At(u[j]) = p
      BY <1>2, <1>7, <2>1 DEF x
    <2>2. CASE j \in DOMAIN t /\ u[j] = t[j]
      <3> DEFINE q == At(t[j])
      <3>1. \/ \E i \in DOMAIN k : k[i].at = q
            \/ /\ ~ \E i \in DOMAIN k : k[i].at = q
               /\ Left(t, q) <=> ~ Through(t, q)
        BY <2>2 DEF Leaves
      <3>2. q # g.at
        BY <1>7, <1>8, <2>2
      <3> HIDE DEF q
      <3>3. ASSUME ~ \E i \in DOMAIN k : k[i].at = q PROVE ~ \E i \in DOMAIN l : l[i].at = q
        BY <1>2, <1>7, <3>2, <3>3 DEF x, g, p, f
      <3>4. At(u[j]) = q
        BY <2>2 DEF q
      <3> QED BY <1>4, <1>6, <3>1, <3>3, <3>4
    <2> QED BY <1>5, <2>1, <2>2
  <1> QED BY <1>10, <1>11

(* The same, of a return. *)
LEMMA LeavesReturned ==
  ASSUME NEW k \in Seq(Frames), StackOK(k), NEW t \in Seq(Events),
         Fresh(k, t), Active(k, t), Within(k, t), Leaves(k, t),
         NEW l, NEW u, Returned(k, t, l, u)
  PROVE  Within(l, u) /\ Leaves(l, u)
  <1> DEFINE n == Len(k)
             f == k[n]
             p == f.at
  <1>1. Cuts(k, l) /\ Len(l) = n - 1 /\ n \in DOMAIN k /\ n \in Nat /\ DOMAIN k = 1..n /\ f \in Frames
    BY DEF Returned
  <1>2. \/ u = t /\ Last(p) = 0 /\ f.pc = "in"
        \/ u = t /\ KindOf(f) \notin Around
        \/ (Adds(k, t, u, "enter") \/ Adds(k, t, u, "deny")) /\ KindOf(f) \notin Around
        \/ Adds(k, t, u, "leave") /\ f.pc = "out"
    BY Zenon DEF Returned
  <1>3. \A i \in DOMAIN l : i \in DOMAIN k /\ l[i] = k[i] /\ i < n
    BY <1>1, AfterCut
  <1>4. \A i \in DOMAIN k : (i \in DOMAIN l /\ l[i] = k[i]) \/ i = n
    <2>1. DOMAIN l = 1..(n - 1)
      BY <1>1 DEF Cuts
    <2>2. \A i \in DOMAIN l : l[i] = k[i]
      BY <1>1 DEF Cuts
    <2> HIDE DEF n
    <2> QED BY <1>1, <2>1, <2>2
  <1>5. ~ \E i \in DOMAIN l : l[i].at = p
    BY <1>1, <1>3, Apart
  <1>6. \A q : (Through(u, q) <=> Through(t, q)) /\ (q # p => (Left(u, q) <=> Left(t, q)))
    <2>1. CASE u = t
      BY <2>1
    <2>2. ASSUME NEW e, Adds(k, t, u, e), e # "panic"
          PROVE  \A q : (Through(u, q) <=> Through(t, q)) /\ (q # p => (Left(u, q) <=> Left(t, q)))
      BY <2>2, ThroughStep
    <2> QED BY <1>2, <2>1, <2>2
  <1>7. \A j \in DOMAIN u : (j \in DOMAIN t /\ u[j] = t[j]) \/ At(u[j]) = p
    <2>1. CASE u = t
      BY <2>1
    <2>2. ASSUME NEW e, Adds(k, t, u, e)
          PROVE  \A j \in DOMAIN u : (j \in DOMAIN t /\ u[j] = t[j]) \/ At(u[j]) = p
      BY <2>2, AfterAdd
    <2> QED BY <1>2, <2>1, <2>2
  <1>8. ASSUME NEW j \in DOMAIN u, At(u[j]) = p, KindOf(f) \in Around
        PROVE  Left(u, p) /\ ~ Through(u, p)
    <2>1. ~ (u = t /\ f.pc = "in")
      <3> SUFFICES ASSUME u = t, f.pc = "in" PROVE FALSE
        OBVIOUS
      <3>1. p \in Rest(f)
        BY <1>1, RestOwn DEF StackOK, Typed, FrameOK
      <3> QED BY <1>1, <1>8, <3>1 DEF Fresh
    <2>2. Adds(k, t, u, "leave") /\ f.pc = "out"
      BY <1>2, <1>8, <2>1
    <2>3. Left(u, p)
      BY <2>2, ThroughStep
    <2>4. ~ Through(t, p)
      BY <1>1, <1>8, <2>2 DEF Within, KindOf
    <2> QED BY <1>6, <2>3, <2>4
  <1> HIDE DEF n, p
  <1>9. Within(l, u)
    BY <1>3, <1>6 DEF Within
  <1>10. Leaves(l, u)
    <2> SUFFICES ASSUME NEW j \in DOMAIN u, MwAt(At(u[j])).kind \in Around
                 PROVE  LET q == At(u[j])
                        IN  \/ \E i \in DOMAIN l : l[i].at = q
                            \/ /\ ~ \E i \in DOMAIN l : l[i].at = q
                               /\ Left(u, q) <=> ~ Through(u, q)
      BY DEF Leaves
    <2>1. CASE At(u[j]) = p
      BY <1>5, <1>8, <2>1 DEF KindOf, p
    <2>2. CASE j \in DOMAIN t /\ u[j] = t[j] /\ At(u[j]) # p
      <3> DEFINE q == At(t[j])
      <3>1. \/ \E i \in DOMAIN k : k[i].at = q
            \/ /\ ~ \E i \in DOMAIN k : k[i].at = q
               /\ Left(t, q) <=> ~ Through(t, q)
        BY <2>2 DEF Leaves
      <3>2. At(u[j]) = q /\ q # p
        BY <2>2
      <3> HIDE DEF q
      <3>3. (\E i \in DOMAIN k : k[i].at = q) <=> \E i \in DOMAIN l : l[i].at = q
        BY <1>3, <1>4, <3>2 DEF p
      <3> QED BY <1>6, <3>1, <3>2, <3>3
    <2> QED BY <1>7, <2>1, <2>2
  <1> QED BY <1>9, <1>10

(* The same, of a panic that a guard stops. *)
LEMMA LeavesUnwound ==
  ASSUME NEW k \in Seq(Frames), StackOK(k), NEW t \in Seq(Events),
         Active(k, t), Within(k, t), Leaves(k, t),
         NEW l, NEW u, Unwound(k, t, l, u)
  PROVE  Within(l, u) /\ Leaves(l, u)
  <1> DEFINE n == Len(k)
             m == Len(l)
             f == k[n]
             p == f.at
             q0 == k[m].at
  <1>1. /\ Cuts(k, l) /\ Adds(k, t, u, "panic") /\ KindOf(f) = "app" /\ m > 0 /\ KindOf(k[m]) = "recover"
        /\ \A i \in (m + 1)..n : ~ (KindOf(k[i]) = "recover" /\ k[i].pc \in {"mid", "out"})
    BY DEF Unwound
  <1>2. n \in Nat /\ m \in Nat /\ m < n /\ DOMAIN k = 1..n /\ DOMAIN l = 1..m /\ n \in DOMAIN k /\ m \in DOMAIN k
    BY <1>1 DEF Cuts
  <1>3. \A i \in DOMAIN l : i \in DOMAIN k /\ l[i] = k[i]
    BY <1>1, AfterCut
  <1>4. \A i \in DOMAIN k : k[i].at \in Places /\ Valid(k[i].at)
    <2>1. \A i \in DOMAIN k : k[i] \in Frames /\ FrameOK(k[i])
      BY DEF StackOK, Typed
    <2> QED BY <2>1 DEF FrameOK, Frames
  <1>5. \A i, j \in DOMAIN k : i < j => Calling(k[i], k[j])
    BY DEF StackOK, Nested
  <1>6. \A r \in Outer(p) \cup Wrapping(p) : \E a \in DOMAIN k : a < n /\ k[a].at = r
    BY <1>2 DEF StackOK, Complete
  <1>7. \A q : /\ Through(u, q) <=>
                    \/ Through(t, q)
                    \/ q \in Outer(p) /\ ~ \E r \in Guarding(p) : q \in Outer(r)
               /\ Left(u, q) <=> Left(t, q)
    BY <1>1, ThroughStep
  <1>8. \A j \in DOMAIN u : (j \in DOMAIN t /\ u[j] = t[j]) \/ At(u[j]) = p
    BY <1>1, AfterAdd
  <1>9. q0 \in Guarding(p)
    <2>1. Calling(k[m], f)
      BY <1>2, <1>5
    <2> QED BY <1>1, <2>1 DEF Guarding, Calling, KindOf
  <1>10. \A r \in Guarding(p) : \E a \in DOMAIN k : a <= m /\ k[a].at = r
    <2> SUFFICES ASSUME NEW r \in Guarding(p) PROVE \E a \in DOMAIN k : a <= m /\ k[a].at = r
      OBVIOUS
    <2>1. MwAt(r).kind = "recover" /\ r \in Outer(p) \cup Wrapping(p)
      BY DEF Guarding
    <2>2. PICK a \in DOMAIN k : a < n /\ k[a].at = r
      BY <1>6, <2>1
    <2>3. Calling(k[a], f)
      BY <1>2, <1>5, <2>2
    <2>4. KindOf(k[a]) = "recover" /\ k[a].pc \in {"mid", "out"}
      BY <2>1, <2>2, <2>3 DEF Calling, KindOf
    <2>5. a \notin (m + 1)..n
      BY <1>1, <2>4
    <2> HIDE DEF m, n
    <2>6. a <= m
      BY <1>2, <2>2, <2>5
    <2> QED BY <2>2, <2>6
  <1> HIDE DEF n, m, f, p, q0
  <1>11. Within(l, u)
    <2> SUFFICES ASSUME NEW i \in DOMAIN l, l[i].pc = "out", MwAt(l[i].at).kind \in Around
                 PROVE  ~ Through(u, l[i].at)
      BY DEF Within
    <2>1. i \in DOMAIN k /\ l[i] = k[i] /\ i # m
      BY <1>1, <1>3 DEF KindOf, Around
    <2>2. i < m
      BY <1>2, <2>1
    <2>3. Calling(k[i], k[m])
      BY <1>2, <1>5, <2>1, <2>2
    <2>4. k[i].at \in Outer(q0)
      BY <2>1, <2>3 DEF Calling, q0
    <2>5. ~ Through(t, k[i].at)
      BY <2>1 DEF Within
    <2> QED BY <1>7, <1>9, <2>1, <2>4, <2>5
  <1>12. Leaves(l, u)
    <2> SUFFICES ASSUME NEW j \in DOMAIN u, MwAt(At(u[j])).kind \in Around
                 PROVE  LET q == At(u[j])
                        IN  \/ \E i \in DOMAIN l : l[i].at = q
                            \/ /\ ~ \E i \in DOMAIN l : l[i].at = q
                               /\ Left(u, q) <=> ~ Through(u, q)
      BY DEF Leaves
    <2>1. At(u[j]) # p
      BY <1>1 DEF KindOf, p, Around
    <2>2. j \in DOMAIN t /\ u[j] = t[j]
      BY <1>8, <2>1
    <2> DEFINE q == At(t[j])
    <2>3. \/ \E i \in DOMAIN k : k[i].at = q
          \/ /\ ~ \E i \in DOMAIN k : k[i].at = q
             /\ Left(t, q) <=> ~ Through(t, q)
      BY <2>2 DEF Leaves
    <2>4. At(u[j]) = q /\ MwAt(q).kind \in Around
      BY <2>2
    <2>5. CASE \E i \in DOMAIN k : k[i].at = q
      <3>1. PICK i \in DOMAIN k : k[i].at = q
        BY <2>5
      <3>2. CASE i <= m
        <4>1. i \in DOMAIN l
          BY <1>2, <3>2
        <4> QED BY <1>3, <2>4, <3>1, <4>1
      <3>3. CASE i > m
        <4>1. ~ \E a \in DOMAIN l : l[a].at = q
          <5> SUFFICES ASSUME NEW a \in DOMAIN l, l[a].at = q PROVE FALSE
            OBVIOUS
          <5>1. a \in DOMAIN k /\ k[a].at = k[i].at /\ a <= m /\ a \in Nat
            BY <1>2, <1>3, <3>1
          <5>2. a = i
            BY <5>1, Apart
          <5> QED BY <1>2, <3>3, <5>1, <5>2
        <4>2. ~ Left(t, q)
          <5> SUFFICES ASSUME NEW b \in DOMAIN t, Event(t[b]) = "leave", At(t[b]) = q PROVE FALSE
            BY DEF Left
          <5>1. At(t[b]) = k[i].at /\ Event(t[b]) = "leave"
            BY <3>1 DEF At, Event
          <5> QED BY <5>1 DEF Active
        <4>3. i < n
          BY <1>1, <1>2, <2>4, <3>1 DEF KindOf, Around, f
        <4>4. Calling(k[i], f)
          BY <1>2, <1>5, <4>3 DEF f
        <4>5. q \in Outer(p)
          BY <2>4, <3>1, <4>4 DEF Calling, Around, p
        <4>6. ASSUME NEW r \in Guarding(p), q \in Outer(r) PROVE FALSE
          <5>1. PICK a \in DOMAIN k : a <= m /\ k[a].at = r
            BY <1>10
          <5>2. a < i
            BY <1>2, <3>3, <5>1
          <5>3. Calling(k[a], k[i])
            BY <1>5, <5>2
          <5>4. r \in Outer(q) \cup Wrapping(q)
            BY <3>1, <5>1, <5>3 DEF Calling
          <5>5. q \in Places /\ Valid(q) /\ r \in Places /\ Valid(r)
            BY <1>4, <3>1, <5>1
          <5> HIDE DEF q
          <5> QED BY <4>6, <5>4, <5>5, OuterAsym
        <4>7. Through(u, q) /\ ~ Left(u, q)
          BY <1>7, <4>2, <4>5, <4>6
        <4> QED BY <2>4, <4>1, <4>7
      <3> QED BY <1>2, <3>2, <3>3
    <2>6. CASE ~ \E i \in DOMAIN k : k[i].at = q
      <3>1. ~ \E i \in DOMAIN l : l[i].at = q
        BY <1>3, <2>6
      <3>2. q \notin Outer(p)
        BY <1>6, <2>6
      <3> HIDE DEF q
      <3> QED BY <1>7, <2>3, <2>4, <2>6, <3>1, <3>2
    <2> QED BY <2>5, <2>6
  <1> QED BY <1>11, <1>12

(* The three of them. *)
LEMMA LeavesStep ==
  ASSUME NEW s, NEW k \in Seq(Frames), StackOK(k), NEW t \in Seq(Events), Known(t), Now(k, t),
         NEW l, NEW u, Steps(s, k, t, l, u)
  PROVE  Within(l, u) /\ Leaves(l, u)
  BY LeavesCalled, LeavesReturned, LeavesUnwound DEF Steps, Now

-----------------------------------------------------------------------------
(* One sequence after another, index by index. *)
LEMMA ConcatAt ==
  ASSUME NEW S, NEW b \in Seq(S), NEW c \in Seq(S)
  PROVE  /\ b \o c \in Seq(S) /\ Len(b \o c) = Len(b) + Len(c)
         /\ \A i \in 1..(Len(b) + Len(c)) : (b \o c)[i] = IF i <= Len(b) THEN b[i] ELSE c[i - Len(b)]
  OBVIOUS

(* A stack whose innermost frame was replaced by two. *)
Pushed(k, x, g) == Front(k) \o <<x, g>>

OnTop(k, l, x, g) == /\ l \in Seq(Frames) /\ Len(l) = Len(k) + 1
                     /\ \A i \in 1..(Len(k) - 1) : l[i] = k[i]
                     /\ l[Len(k)] = x /\ l[Len(k) + 1] = g

(* Its frames. *)
LEMMA TwoOnTop ==
  ASSUME NEW k \in Seq(Frames), k # <<>>, NEW x \in Frames, NEW g \in Frames,
         NEW l, l = Pushed(k, x, g)
  PROVE  OnTop(k, l, x, g)
  <1> DEFINE b == Front(k)
             n == Len(k)
  <1>1. b \in Seq(Frames) /\ Len(b) = n - 1 /\ (\A i \in 1..(n - 1) : b[i] = k[i]) /\ n \in Nat /\ n > 0
    BY FrontAt
  <1> DEFINE c == <<x, g>>
  <1>2. c \in Seq(Frames) /\ Len(c) = 2 /\ c[1] = x /\ c[2] = g
    OBVIOUS
  <1>3. l = b \o c
    BY DEF Pushed
  <1> HIDE DEF b, n, c
  <1> DEFINE d == b \o c
  <1>a. /\ d \in Seq(Frames) /\ Len(d) = Len(b) + Len(c)
        /\ \A i \in 1..(Len(b) + Len(c)) : d[i] = IF i <= Len(b) THEN b[i] ELSE c[i - Len(b)]
    BY <1>1, <1>2, ConcatAt
  <1>b. l = d
    BY <1>3
  <1> HIDE DEF d
  <1>c. Len(b) + Len(c) = n + 1 /\ Len(b) = n - 1
    BY <1>1, <1>2
  <1>4. l \in Seq(Frames) /\ Len(l) = n + 1
    BY <1>a, <1>b, <1>c, Zenon
  <1>5. \A i \in 1..(n + 1) : l[i] = IF i <= n - 1 THEN b[i] ELSE c[i - (n - 1)]
    BY <1>a, <1>b, <1>c, Zenon
  <1>6. l[n] = c[1] /\ l[n + 1] = c[2]
    <2>1. n \in 1..(n + 1) /\ n + 1 \in 1..(n + 1) /\ n - (n - 1) = 1 /\ (n + 1) - (n - 1) = 2
          /\ ~ (n <= n - 1) /\ ~ (n + 1 <= n - 1)
      BY <1>1
    <2> QED BY <1>5, <2>1
  <1>7. \A i \in 1..(n - 1) : l[i] = k[i]
    <2>1. \A i \in 1..(n - 1) : i \in 1..(n + 1) /\ i <= n - 1
      BY <1>1
    <2> QED BY <1>1, <1>5, <2>1
  <1> QED BY <1>2, <1>4, <1>6, <1>7 DEF n, OnTop

(* A return. *)
LEMMA ReturnCuts ==
  ASSUME NEW k \in Seq(Frames), k # <<>>
  PROVE  Cuts(k, Front(k)) /\ Len(Front(k)) = Len(k) - 1
  <1> DEFINE b == Front(k)
  <1>1. b \in Seq(Frames) /\ Len(b) = Len(k) - 1 /\ (\A i \in 1..(Len(k) - 1) : b[i] = k[i]) /\ Len(k) \in Nat
    BY FrontAt
  <1> HIDE DEF b
  <1>2. DOMAIN b = 1..(Len(k) - 1) /\ Len(b) < Len(k)
    BY <1>1
  <1> QED BY <1>1, <1>2 DEF Cuts, b

(* The frame a call leaves behind. *)
LEMMA Waiting ==
  ASSUME NEW f \in Frames, NEW at \in {"in", "mid", "out"}
  PROVE  LET x == [f EXCEPT !.pc = at]
         IN  x \in Frames /\ x.at = f.at /\ x.mw = f.mw /\ x.pc = at
  BY DEF Frames

(* The innermost frame. *)
LEMMA TopFrame ==
  ASSUME NEW k \in Seq(Frames), k # <<>>, StackOK(k)
  PROVE  /\ Last(k) = k[Len(k)] /\ Len(k) \in DOMAIN k
         /\ Last(k) \in Frames /\ FrameOK(Last(k)) /\ Last(k).at \in Places
  <1>1. Last(k) = k[Len(k)] /\ Len(k) \in DOMAIN k
    BY DEF Last
  <1>2. Last(k) \in Frames /\ FrameOK(Last(k))
    BY <1>1 DEF StackOK, Typed
  <1> QED BY <1>1, <1>2 DEF Frames

(* A call of the next handler. *)
CallsOn(s, k, l) == /\ Calls(s, k, l) /\ l[Len(k)].pc = "out"
                    /\ l[Len(k) + 1].at = Follow(Last(k).at)

(* It is one when the handler may go on. *)
LEMMA CallsNext ==
  ASSUME NEW s, NEW k \in Seq(Frames), k # <<>>, StackOK(k),
         NEW f, f = Last(k), Last(f.at) > 0, f.pc \in {"in", "mid"},
         MwAt(f.at).kind \in Gates => Admits(s, MwAt(f.at).kind),
         NEW x, x = [f EXCEPT !.pc = "out"], NEW g, g = Inner(f),
         NEW l, l = Pushed(k, x, g)
  PROVE  CallsOn(s, k, l)
  <1>1. f = k[Len(k)] /\ f \in Frames /\ FrameOK(f) /\ f.at \in Places
    BY TopFrame
  <1>2. x \in Frames /\ x.at = f.at /\ x.mw = f.mw /\ x.pc = "out"
    BY <1>1, Waiting
  <1>3. g.at = Follow(f.at) /\ g.mw = f.mw /\ g.pc = "in" /\ g = [at |-> Follow(f.at), mw |-> f.mw, pc |-> "in"]
    BY DEF Inner, Follow
  <1>4. /\ f.at # <<>> /\ Valid(f.at) /\ f.mw = MwAt(Front(f.at)).mw /\ f.mw \in Seq(Middlewares)
        /\ Last(f.at) \in Nat /\ Last(f.at) <= Len(f.mw) /\ Last(f.at) <= Branch(f.at, Len(f.at))
    BY <1>1, MwOfFrame DEF FrameOK, Frames
  <1>5. /\ g.at \in Places /\ g.at # <<>> /\ Valid(g.at)
        /\ Front(g.at) = Front(f.at) /\ Last(g.at) = Last(f.at) - 1
        /\ Outer(g.at) = Outer(f.at) \cup {f.at}
        /\ Wrapping(g.at) = Wrapping(f.at)
    BY <1>1, <1>3, <1>4, FollowPlace
  <1>6. g \in Frames
    BY <1>3, <1>4, <1>5 DEF Frames
  <1>7. OnTop(k, l, x, g)
    BY <1>2, <1>6, TwoOnTop
  <1>8. FrameOK(g)
    <2>1. Last(g.at) \in 0..Len(g.mw) /\ g.mw = MwAt(Front(g.at)).mw
      BY <1>3, <1>4, <1>5
    <2> QED BY <1>3, <1>5, <2>1 DEF FrameOK
  <1>9. Calling(x, g)
    BY <1>2, <1>5 DEF Calling
  <1>10. Rest(g) \subseteq Rest(f) /\ f.at \notin Rest(g) /\ g.at \in Rest(f)
    BY <1>1, <1>3, <1>6, RestFollow
  <1>11. Starts(f, x, g)
    BY <1>3, <1>5, <1>8, <1>9, <1>10 DEF Starts
  <1>12. Rest(x) = {}
    BY <1>2, <1>4, RestOwn
  <1>13. GoesOn(s, f, x)
    BY <1>2, <1>12 DEF GoesOn
  <1> QED BY <1>1, <1>2, <1>3, <1>7, <1>11, <1>13 DEF Calls, OnTop, CallsOn

(* A recover runs the chain that it wraps. *)
ChainCalled(s, k, l) == Calls(s, k, l) /\ l[Len(k)].pc = "mid"

(* It is a call. *)
LEMMA CallsChain ==
  ASSUME NEW s, NEW k \in Seq(Frames), k # <<>>, StackOK(k),
         NEW f, f = Last(k), Last(f.at) > 0, f.pc = "in", MwAt(f.at).kind = "recover",
         NEW x, x = [f EXCEPT !.pc = "mid"], NEW g, g = Outermost(f.at, Mw(f).mw),
         NEW l, l = Pushed(k, x, g)
  PROVE  ChainCalled(s, k, l)
  <1> DEFINE m == Len(Mw(f).mw)
  <1>1. f = k[Len(k)] /\ f \in Frames /\ FrameOK(f) /\ f.at \in Places
    BY TopFrame
  <1>2. x \in Frames /\ x.at = f.at /\ x.mw = f.mw /\ x.pc = "mid"
    BY <1>1, Waiting
  <1>3. /\ Mw(f) = MwAt(f.at) /\ Mw(f) \in Middlewares /\ Mw(f).mw \in Seq(Middlewares)
        /\ m \in Nat /\ m = Len(MwAt(f.at).mw)
    BY <1>1, MwOfFrame, ChainsAssumption
  <1>4. /\ g.at = Append(f.at, m) /\ g.mw = Mw(f).mw /\ g.pc = "in"
        /\ g = [at |-> Append(f.at, m), mw |-> Mw(f).mw, pc |-> "in"]
    BY DEF Outermost
  <1>5. f.at # <<>> /\ Valid(f.at)
    BY <1>1 DEF FrameOK
  <1> HIDE DEF m
  <1>6. /\ g.at \in Places /\ g.at # <<>> /\ Valid(g.at)
        /\ Front(g.at) = f.at /\ Last(g.at) = m
        /\ Outer(g.at) = Outer(f.at)
        /\ Wrapping(g.at) = Wrapping(f.at) \cup {f.at}
    <2> DEFINE p == f.at
               r == g.at
    <2>1. p \in Places /\ p # <<>> /\ Valid(p) /\ m \in Nat /\ m = Len(MwAt(p).mw) /\ r = Append(p, m)
      BY <1>1, <1>3, <1>4, <1>5
    <2> HIDE DEF p, r
    <2>2. /\ r \in Places /\ r # <<>> /\ Valid(r) /\ Front(r) = p /\ Last(r) = m
          /\ Outer(r) = Outer(p) /\ Wrapping(r) = Wrapping(p) \cup {p}
      BY <2>1, WrappedPlace
    <2> QED BY <2>2 DEF p, r
  <1>7. g \in Frames
    BY <1>3, <1>4, <1>6 DEF Frames
  <1>8. OnTop(k, l, x, g)
    BY <1>2, <1>7, TwoOnTop
  <1>9. FrameOK(g)
    <2>1. Last(g.at) \in 0..Len(g.mw) /\ g.mw = MwAt(Front(g.at)).mw
      BY <1>3, <1>4, <1>6
    <2> QED BY <1>4, <1>6, <2>1 DEF FrameOK
  <1>10. Calling(x, g)
    BY <1>2, <1>6 DEF Calling
  <1>11. /\ Rest(g) \subseteq Rest(f) /\ f.at \notin Rest(g) /\ g.at \in Rest(g)
         /\ Rest(x) \subseteq Rest(f) /\ f.at \notin Rest(x)
    <2>1. Rest(g) \subseteq Rest(f) /\ f.at \notin Rest(g) /\ g.at \in Rest(g)
      <3>1. g.at = Append(f.at, Len(MwAt(f.at).mw)) /\ g.pc = "in" /\ Len(MwAt(f.at).mw) \in Nat
        BY <1>3, <1>4
      <3> QED BY <1>1, <1>7, <3>1, RestWrapped
    <2>2. Rest(x) \subseteq Rest(f) /\ f.at \notin Rest(x)
      BY <1>1, <1>2, RestPaused
    <2> QED BY <2>1, <2>2
  <1>12. Starts(f, x, g)
    BY <1>4, <1>6, <1>9, <1>10, <1>11 DEF Starts
  <1>13. GoesOn(s, f, x)
    BY <1>2, <1>11 DEF GoesOn
  <1> QED BY <1>1, <1>2, <1>8, <1>12, <1>13 DEF Calls, OnTop, ChainCalled

-----------------------------------------------------------------------------
(* A step of a session, for its own handlers: a turn of them, the panic    *)
(* that ends the process, or the end of the session.                       *)
Told(s, c) == status'[s] = IF status[s] = NoStatus THEN c ELSE status[s]

Turn(s) == /\ up' = up
           /\ Steps(s, stack[s], trace[s], stack'[s], trace'[s])
           /\ \/ status'[s] = status[s] /\ trace'[s] = trace[s]
              \/ \E e, c : Answering(stack[s], trace[s], trace'[s], e, c) /\ Told(s, c)

Crash(s) == /\ up' = FALSE /\ stack'[s] = stack[s] /\ status'[s] = status[s]
            /\ Answering(stack[s], trace[s], trace'[s], "panic", NoStatus)
            /\ \A i \in DOMAIN stack[s] : ~ (KindOf(stack[s][i]) = "recover" /\ stack[s][i].pc \in {"mid", "out"})

Over(s) == /\ up' = up /\ stack'[s] = stack[s] /\ trace'[s] = trace[s]
           /\ stack[s] = <<>> /\ status[s] = NoStatus /\ status'[s] = 0

Others(s) == \A r \in Sessions \ {s} : stack'[r] = stack[r] /\ trace'[r] = trace[r] /\ status'[r] = status[r]

(* The handler that runs. *)
LEMMA RunsAt ==
  ASSUME Types, NEW s \in Sessions, StackOK(stack[s]), NEW kinds, NEW at, Runs(s, kinds, at)
  PROVE  /\ stack[s] \in Seq(Frames) /\ stack[s] # <<>>
         /\ Top(s) = Last(stack[s]) /\ Top(s) = stack[s][Len(stack[s])]
         /\ Top(s) \in Frames /\ FrameOK(Top(s)) /\ Last(Top(s).at) > 0
         /\ Mw(Top(s)) = MwAt(Top(s).at) /\ KindOf(Top(s)) \in kinds /\ MwAt(Top(s).at).kind \in kinds
         /\ Top(s).pc = at
  <1>1. stack[s] \in Seq(Frames)
    BY DEF Types
  <1>2. stack[s] # <<>> /\ Last(Top(s).at) > 0 /\ Mw(Top(s)).kind \in kinds /\ Top(s).pc = at /\ Top(s) = Last(stack[s])
    BY DEF Runs, Top
  <1>3. Top(s) = stack[s][Len(stack[s])] /\ Top(s) \in Frames /\ FrameOK(Top(s))
    BY <1>1, <1>2, TopFrame
  <1>4. Mw(Top(s)) = MwAt(Top(s).at)
    BY <1>2, <1>3, MwOfFrame
  <1> QED BY <1>1, <1>2, <1>3, <1>4 DEF KindOf

(* What one session's step changes of the others: nothing. *)
LEMMA CallEffect ==
  ASSUME Types, NEW s \in Sessions, NEW g, NEW at, Call(s, g, at)
  PROVE  /\ stack'[s] = Pushed(stack[s], [Top(s) EXCEPT !.pc = at], g)
         /\ \A r \in Sessions \ {s} : stack'[r] = stack[r]
  <1> DEFINE v == Front(stack[s]) \o << [Last(stack[s]) EXCEPT !.pc = at], g >>
  <1>1. stack' = [stack EXCEPT ![s] = v]
    BY DEF Call
  <1>2. v = Pushed(stack[s], [Top(s) EXCEPT !.pc = at], g)
    BY DEF Pushed, Top
  <1> HIDE DEF v
  <1>3. stack'[s] = v /\ \A r \in Sessions \ {s} : stack'[r] = stack[r]
    BY <1>1 DEF Types
  <1> QED BY <1>2, <1>3

(* A return. *)
LEMMA ReturnEffect ==
  ASSUME Types, NEW s \in Sessions, Return(s)
  PROVE  stack'[s] = Front(stack[s]) /\ \A r \in Sessions \ {s} : stack'[r] = stack[r]
  BY DEF Types, Return

(* What a handler does is added to what its session's handlers did. *)
LEMMA LogEffect ==
  ASSUME Types, NEW s \in Sessions, StackOK(stack[s]), NEW kinds, NEW at, Runs(s, kinds, at),
         NEW e \in {"enter", "leave", "deny", "panic"}, e \in {"enter", "deny"} => at = "in",
         NEW c \in Answers, Log(s, e, c)
  PROVE  /\ Answering(stack[s], trace[s], trace'[s], e, c) /\ Adds(stack[s], trace[s], trace'[s], e)
         /\ \A r \in Sessions \ {s} : trace'[r] = trace[r]
  <1>1. stack[s] # <<>> /\ Top(s) = stack[s][Len(stack[s])] /\ Top(s).pc = at
    BY RunsAt
  <1> DEFINE v == <<e, Top(s).at, c>>
  <1>2. trace' = [trace EXCEPT ![s] = Append(trace[s], v)]
    BY DEF Log
  <1> HIDE DEF v
  <1>3. trace'[s] = Append(trace[s], v) /\ \A r \in Sessions \ {s} : trace'[r] = trace[r]
    BY <1>2 DEF Types
  <1>4. v = <<e, stack[s][Len(stack[s])].at, c>>
    BY <1>1 DEF v
  <1>5. Answering(stack[s], trace[s], trace'[s], e, c)
    BY <1>1, <1>3, <1>4 DEF Answering
  <1> QED BY <1>3, <1>5 DEF Adds

(* A call of the next handler, by a handler that runs. *)
LEMMA RunsNext ==
  ASSUME Types, NEW s \in Sessions, StackOK(stack[s]), NEW kinds, NEW at \in {"in", "mid"}, Runs(s, kinds, at),
         Call(s, Inner(Top(s)), "out"), MwAt(Top(s).at).kind \in Gates => Admits(s, MwAt(Top(s).at).kind)
  PROVE  /\ Calls(s, stack[s], stack'[s])
         /\ stack'[s][Len(stack[s])].pc = "out" /\ stack'[s][Len(stack[s]) + 1].at = Follow(Top(s).at)
         /\ \A r \in Sessions \ {s} : stack'[r] = stack[r]
  <1>1. /\ stack[s] \in Seq(Frames) /\ stack[s] # <<>> /\ Top(s) = Last(stack[s])
        /\ Last(Top(s).at) > 0 /\ Top(s).pc = at
    BY RunsAt
  <1> DEFINE k == stack[s]
             f == Top(s)
             x == [Top(s) EXCEPT !.pc = "out"]
             g == Inner(Top(s))
             l == stack'[s]
  <1>2. l = Pushed(k, x, g) /\ \A r \in Sessions \ {s} : stack'[r] = stack[r]
    BY CallEffect
  <1>3. x = [f EXCEPT !.pc = "out"] /\ g = Inner(f) /\ f.pc \in {"in", "mid"}
        /\ (MwAt(f.at).kind \in Gates => Admits(s, MwAt(f.at).kind))
    BY <1>1
  <1>4. k \in Seq(Frames) /\ k # <<>> /\ f = Last(k) /\ Last(f.at) > 0 /\ StackOK(k)
    BY <1>1
  <1> HIDE DEF k, f, x, g, l
  <1>5. CallsOn(s, k, l)
    BY <1>2, <1>3, <1>4, CallsNext
  <1> QED BY <1>2, <1>4, <1>5 DEF k, l, f, CallsOn

(* A handler that returns. *)
LEMMA RunsBack ==
  ASSUME Types, NEW s \in Sessions, stack[s] # <<>>, Return(s)
  PROVE  /\ Cuts(stack[s], stack'[s]) /\ Len(stack'[s]) = Len(stack[s]) - 1
         /\ \A r \in Sessions \ {s} : stack'[r] = stack[r]
  <1>1. stack[s] \in Seq(Frames)
    BY DEF Types
  <1>2. stack'[s] = Front(stack[s]) /\ \A r \in Sessions \ {s} : stack'[r] = stack[r]
    BY ReturnEffect
  <1>3. Cuts(stack[s], Front(stack[s])) /\ Len(Front(stack[s])) = Len(stack[s]) - 1
    BY <1>1, ReturnCuts
  <1> QED BY <1>2, <1>3

(* The exit status of a session. *)
LEMMA ExitEffect ==
  ASSUME Types, NEW s \in Sessions, NEW code, Exit(s, code)
  PROVE  Told(s, code) /\ \A r \in Sessions \ {s} : status'[r] = status[r]
  BY DEF Types, Exit, Told

(* No answer. *)
LEMMA NotTold ==
  ASSUME NEW s, UNCHANGED status
  PROVE  /\ NoStatus \in Answers /\ Told(s, NoStatus)
         /\ \A r \in Sessions \ {s} : status'[r] = status[r]
  BY DEF Answers, Told

-----------------------------------------------------------------------------
(* The kinds of middlewares do not overlap. *)
LEMMA KindsApart ==
  /\ Gates \cap Around = {} /\ "recover" \notin Gates \cup Around /\ "app" \notin Gates \cup Around
  /\ "recover" # "app"
  BY DEF Gates, Around

(* What a step of one session leaves alone. *)
Alone(s) == Others(s) /\ UNCHANGED request

(* The handler that does nothing returns. *)
LEMMA BaseTurns ==
  ASSUME Types, NEW s \in Sessions, StackOK(stack[s]), Base(s)
  PROVE  Turn(s) /\ Alone(s)
  <1>1. /\ up /\ stack[s] # <<>> /\ Last(Top(s).at) = 0 /\ Return(s)
        /\ UNCHANGED <<request, status, trace, up>>
    BY DEF Base
  <1>2. stack[s] \in Seq(Frames)
    BY DEF Types
  <1>3. Last(stack[s]) = stack[s][Len(stack[s])] /\ FrameOK(Last(stack[s]))
    BY <1>1, <1>2, TopFrame
  <1>4. stack[s][Len(stack[s])].pc = "in" /\ Last(stack[s][Len(stack[s])].at) = 0
    BY <1>1, <1>3 DEF FrameOK, Top
  <1>5. Cuts(stack[s], stack'[s]) /\ Len(stack'[s]) = Len(stack[s]) - 1
        /\ \A r \in Sessions \ {s} : stack'[r] = stack[r]
    BY <1>1, RunsBack
  <1>6. Returned(stack[s], trace[s], stack'[s], trace'[s])
    BY <1>1, <1>4, <1>5 DEF Returned
  <1>7. Turn(s)
    BY <1>1, <1>6 DEF Turn, Steps
  <1> QED BY <1>1, <1>5, <1>7 DEF Alone, Others

(* A gate lets a session in. *)
LEMMA PassTurns ==
  ASSUME Types, NEW s \in Sessions, StackOK(stack[s]), Pass(s)
  PROVE  Turn(s) /\ Alone(s)
  <1>1. /\ Runs(s, Gates, "in") /\ Admits(s, Mw(Top(s)).kind) /\ Call(s, Inner(Top(s)), "out")
        /\ UNCHANGED <<request, status, trace, up>>
    BY DEF Pass
  <1>2. /\ stack[s] # <<>> /\ Top(s) = stack[s][Len(stack[s])] /\ Mw(Top(s)) = MwAt(Top(s).at)
        /\ KindOf(Top(s)) \in Gates /\ Top(s).pc = "in"
    BY <1>1, RunsAt
  <1>3. Calls(s, stack[s], stack'[s]) /\ \A r \in Sessions \ {s} : stack'[r] = stack[r]
    BY <1>1, <1>2, RunsNext
  <1>4. Called(s, stack[s], trace[s], stack'[s], trace'[s])
    BY <1>1, <1>2, <1>3 DEF Called
  <1>5. Turn(s)
    BY <1>1, <1>4 DEF Turn, Steps
  <1> QED BY <1>1, <1>3, <1>5 DEF Alone, Others

(* A gate turns a session away. *)
LEMMA DenyTurns ==
  ASSUME Types, NEW s \in Sessions, StackOK(stack[s]), Deny(s)
  PROVE  Turn(s) /\ Alone(s)
  <1>1. /\ Runs(s, Gates, "in") /\ Exit(s, 1) /\ Log(s, "deny", 1) /\ Return(s)
        /\ UNCHANGED <<request, up>>
    BY DEF Deny
  <1>2. /\ stack[s] # <<>> /\ Top(s) = stack[s][Len(stack[s])]
        /\ KindOf(Top(s)) \in Gates /\ Top(s).pc = "in"
    BY <1>1, RunsAt
  <1>3. Cuts(stack[s], stack'[s]) /\ Len(stack'[s]) = Len(stack[s]) - 1
        /\ \A r \in Sessions \ {s} : stack'[r] = stack[r]
    BY <1>1, <1>2, RunsBack
  <1>4. /\ Answering(stack[s], trace[s], trace'[s], "deny", 1) /\ Adds(stack[s], trace[s], trace'[s], "deny")
        /\ \A r \in Sessions \ {s} : trace'[r] = trace[r]
    <2>1. 1 \in Answers
      BY DEF Answers
    <2> QED BY <1>1, <2>1, LogEffect
  <1>5. Told(s, 1) /\ \A r \in Sessions \ {s} : status'[r] = status[r]
    BY <1>1, ExitEffect
  <1>6. Returned(stack[s], trace[s], stack'[s], trace'[s])
    BY <1>2, <1>3, <1>4, KindsApart DEF Returned
  <1>7. Turn(s)
    BY <1>1, <1>4, <1>5, <1>6, Zenon DEF Turn, Steps
  <1> QED BY <1>1, <1>3, <1>4, <1>5, <1>7 DEF Alone, Others

(* A handler logs, and runs the next one. *)
LEMMA EnterTurns ==
  ASSUME Types, NEW s \in Sessions, StackOK(stack[s]), NEW kinds, Runs(s, kinds, "in"),
         NEW c \in Answers, Log(s, "enter", c), Told(s, c), \A r \in Sessions \ {s} : status'[r] = status[r],
         Call(s, Inner(Top(s)), "out"), UNCHANGED <<request, up>>,
         kinds \cap (Gates \cup {"recover"}) = {}
  PROVE  Turn(s) /\ Alone(s)
  <1>1. /\ stack[s] # <<>> /\ Top(s) = stack[s][Len(stack[s])]
        /\ KindOf(Top(s)) \in kinds /\ Top(s).pc = "in"
    BY RunsAt
  <1>2. MwAt(Top(s).at).kind \notin Gates /\ KindOf(Top(s)) # "recover"
    BY <1>1 DEF KindOf
  <1>3. Calls(s, stack[s], stack'[s]) /\ \A r \in Sessions \ {s} : stack'[r] = stack[r]
    BY <1>2, RunsNext
  <1>4. /\ Answering(stack[s], trace[s], trace'[s], "enter", c) /\ Adds(stack[s], trace[s], trace'[s], "enter")
        /\ \A r \in Sessions \ {s} : trace'[r] = trace[r]
    BY LogEffect
  <1>5. Called(s, stack[s], trace[s], stack'[s], trace'[s])
    BY <1>1, <1>2, <1>3, <1>4 DEF Called
  <1>6. Turn(s)
    BY <1>4, <1>5, Zenon DEF Turn, Steps
  <1> QED BY <1>3, <1>4, <1>6 DEF Alone, Others

(* A handler logs, and returns. *)
LEMMA LeaveTurns ==
  ASSUME Types, NEW s \in Sessions, StackOK(stack[s]), NEW kinds, Runs(s, kinds, "out"),
         NEW c \in Answers, Log(s, "leave", c), Told(s, c), \A r \in Sessions \ {s} : status'[r] = status[r],
         Return(s), UNCHANGED <<request, up>>,
         "recover" \notin kinds
  PROVE  Turn(s) /\ Alone(s)
  <1>1. /\ stack[s] # <<>> /\ Top(s) = stack[s][Len(stack[s])]
        /\ KindOf(Top(s)) \in kinds /\ Top(s).pc = "out"
    BY RunsAt
  <1>2. Cuts(stack[s], stack'[s]) /\ Len(stack'[s]) = Len(stack[s]) - 1
        /\ \A r \in Sessions \ {s} : stack'[r] = stack[r]
    BY <1>1, RunsBack
  <1>3. /\ Answering(stack[s], trace[s], trace'[s], "leave", c) /\ Adds(stack[s], trace[s], trace'[s], "leave")
        /\ \A r \in Sessions \ {s} : trace'[r] = trace[r]
    BY LogEffect
  <1>4. Returned(stack[s], trace[s], stack'[s], trace'[s])
    BY <1>1, <1>2, <1>3 DEF Returned
  <1>5. Turn(s)
    BY <1>3, <1>4, Zenon DEF Turn, Steps
  <1> QED BY <1>2, <1>3, <1>5 DEF Alone, Others

(* The middlewares that write something after the next handler. *)
LEMMA AroundTurns ==
  ASSUME Types, NEW s \in Sessions, StackOK(stack[s]), Logging(s) \/ Comment(s) \/ Elapsed(s)
  PROVE  Turn(s) /\ Alone(s)
  <1>1. ASSUME NEW kind \in Around, Before(s, kind) PROVE Turn(s) /\ Alone(s)
    <2>1. {kind} \cap (Gates \cup {"recover"}) = {}
      BY KindsApart
    <2> QED BY <1>1, <2>1, EnterTurns, NotTold DEF Before
  <1>2. ASSUME NEW kind \in Around, After(s, kind) PROVE Turn(s) /\ Alone(s)
    <2>1. "recover" \notin {kind}
      BY KindsApart
    <2> QED BY <1>2, <2>1, LeaveTurns, NotTold DEF After
  <1>3. "logging" \in Around /\ "comment" \in Around /\ "elapsed" \in Around
    BY DEF Around
  <1> QED BY <1>1, <1>2, <1>3 DEF Logging, Comment, Elapsed

(* A gate and recover return. *)
LEMMA DoneTurns ==
  ASSUME Types, NEW s \in Sessions, StackOK(stack[s]), Done(s)
  PROVE  Turn(s) /\ Alone(s)
  <1>1. /\ Runs(s, Gates \cup {"recover"}, "out") /\ Return(s)
        /\ UNCHANGED <<request, status, trace, up>>
    BY DEF Done
  <1>2. /\ stack[s] # <<>> /\ Top(s) = stack[s][Len(stack[s])]
        /\ KindOf(Top(s)) \in Gates \cup {"recover"} /\ Top(s).pc = "out"
    BY <1>1, RunsAt
  <1>3. Cuts(stack[s], stack'[s]) /\ Len(stack'[s]) = Len(stack[s]) - 1
        /\ \A r \in Sessions \ {s} : stack'[r] = stack[r]
    BY <1>1, <1>2, RunsBack
  <1>4. Returned(stack[s], trace[s], stack'[s], trace'[s])
    BY <1>1, <1>2, <1>3, KindsApart DEF Returned
  <1>5. Turn(s)
    BY <1>1, <1>4 DEF Turn, Steps
  <1> QED BY <1>1, <1>3, <1>5 DEF Alone, Others

(* A recover runs the chain it wraps, and then the next handler. *)
LEMMA GuardTurns ==
  ASSUME Types, NEW s \in Sessions, StackOK(stack[s]), GuardChain(s) \/ GuardNext(s)
  PROVE  Turn(s) /\ Alone(s)
  <1>1. CASE GuardChain(s)
    <2>1. /\ Runs(s, {"recover"}, "in") /\ Log(s, "enter", NoStatus)
          /\ Call(s, Outermost(Top(s).at, Mw(Top(s)).mw), "mid")
          /\ UNCHANGED <<request, status, up>>
      BY <1>1 DEF GuardChain
    <2>2. /\ stack[s] \in Seq(Frames) /\ stack[s] # <<>>
          /\ Top(s) = Last(stack[s]) /\ Top(s) = stack[s][Len(stack[s])] /\ Last(Top(s).at) > 0
          /\ KindOf(Top(s)) = "recover" /\ MwAt(Top(s).at).kind = "recover" /\ Top(s).pc = "in"
      BY <2>1, RunsAt
    <2> DEFINE k == stack[s]
               f == Top(s)
               x == [f EXCEPT !.pc = "mid"]
               g == Outermost(f.at, Mw(f).mw)
               l == stack'[s]
    <2>3. l = Pushed(k, x, g) /\ \A r \in Sessions \ {s} : stack'[r] = stack[r]
      BY <2>1, CallEffect
    <2>4. x = [f EXCEPT !.pc = "mid"] /\ g = Outermost(f.at, Mw(f).mw)
      OBVIOUS
    <2>5. /\ k \in Seq(Frames) /\ k # <<>> /\ f = Last(k) /\ StackOK(k)
          /\ Last(f.at) > 0 /\ f.pc = "in" /\ MwAt(f.at).kind = "recover"
      BY <2>2
    <2>6. ChainCalled(s, k, l)
      <3> HIDE DEF k, f, x, g, l
      <3> QED BY <2>3, <2>4, <2>5, CallsChain
    <2>7. /\ Answering(stack[s], trace[s], trace'[s], "enter", NoStatus) /\ Told(s, NoStatus)
          /\ Adds(stack[s], trace[s], trace'[s], "enter")
          /\ \A r \in Sessions \ {s} : trace'[r] = trace[r]
      BY <2>1, LogEffect, NotTold
    <2>8. Called(s, stack[s], trace[s], stack'[s], trace'[s])
      BY <2>2, <2>6, <2>7, KindsApart DEF Called, ChainCalled
    <2>9. Turn(s)
      BY <2>1, <2>7, <2>8, Zenon DEF Turn, Steps
    <2> QED BY <2>1, <2>3, <2>7, <2>9 DEF Alone, Others
  <1>2. CASE GuardNext(s)
    <2>1. /\ Runs(s, {"recover"}, "mid") /\ Call(s, Inner(Top(s)), "out")
          /\ UNCHANGED <<request, status, trace, up>>
      BY <1>2 DEF GuardNext
    <2>2. /\ stack[s] # <<>> /\ Top(s) = stack[s][Len(stack[s])]
          /\ KindOf(Top(s)) = "recover" /\ MwAt(Top(s).at).kind \notin Gates /\ Top(s).pc = "mid"
      BY <2>1, RunsAt, KindsApart DEF KindOf
    <2>3. /\ Calls(s, stack[s], stack'[s]) /\ \A r \in Sessions \ {s} : stack'[r] = stack[r]
          /\ stack'[s][Len(stack[s]) + 1].at = Follow(Top(s).at)
      BY <2>1, <2>2, RunsNext
    <2>4. Called(s, stack[s], trace[s], stack'[s], trace'[s])
      BY <2>1, <2>2, <2>3, KindsApart DEF Called
    <2>5. Turn(s)
      BY <2>1, <2>4 DEF Turn, Steps
    <2> QED BY <2>1, <2>3, <2>5 DEF Alone, Others
  <1> QED BY <1>1, <1>2

(* An application's handler runs, and returns or runs the next one. *)
LEMMA AppTurns ==
  ASSUME Types, NEW s \in Sessions, StackOK(stack[s]), AppIn(s) \/ AppOut(s)
  PROVE  Turn(s) /\ Alone(s)
  <1>1. CASE AppOut(s)
    <2>1. PICK c \in Answers : Log(s, "leave", c) /\ Exit(s, c)
      BY <1>1 DEF AppOut
    <2>2. Told(s, c) /\ \A r \in Sessions \ {s} : status'[r] = status[r]
      BY <2>1, ExitEffect
    <2> QED BY <1>1, <2>1, <2>2, LeaveTurns, KindsApart DEF AppOut
  <1>2. CASE AppIn(s) /\ Call(s, Inner(Top(s)), "out")
    <2>1. {"app"} \cap (Gates \cup {"recover"}) = {}
      BY KindsApart
    <2>2. PICK c \in Answers : Log(s, "enter", c) /\ Exit(s, c)
      BY <1>2 DEF AppIn
    <2>3. Told(s, c) /\ \A r \in Sessions \ {s} : status'[r] = status[r]
      BY <2>2, ExitEffect
    <2> QED BY <1>2, <2>1, <2>2, <2>3, EnterTurns DEF AppIn
  <1>3. CASE AppIn(s) /\ Return(s)
    <2>1. Runs(s, {"app"}, "in") /\ Return(s) /\ UNCHANGED <<request, up>>
      BY <1>3 DEF AppIn
    <2>7. PICK c \in Answers : Log(s, "enter", c) /\ Exit(s, c)
      BY <1>3 DEF AppIn
    <2>8. Told(s, c) /\ \A r \in Sessions \ {s} : status'[r] = status[r]
      BY <2>7, ExitEffect
    <2>2. /\ stack[s] # <<>> /\ Top(s) = stack[s][Len(stack[s])] /\ KindOf(Top(s)) = "app" /\ Top(s).pc = "in"
      BY <2>1, RunsAt
    <2>3. Cuts(stack[s], stack'[s]) /\ Len(stack'[s]) = Len(stack[s]) - 1
          /\ \A r \in Sessions \ {s} : stack'[r] = stack[r]
      BY <2>1, <2>2, RunsBack
    <2>4. /\ Answering(stack[s], trace[s], trace'[s], "enter", c) /\ Adds(stack[s], trace[s], trace'[s], "enter")
          /\ \A r \in Sessions \ {s} : trace'[r] = trace[r]
      BY <2>1, <2>7, LogEffect
    <2>5. Returned(stack[s], trace[s], stack'[s], trace'[s])
      BY <2>2, <2>3, <2>4, KindsApart DEF Returned
    <2>6. Turn(s)
      BY <2>1, <2>4, <2>5, <2>8, Zenon DEF Turn, Steps
    <2> QED BY <2>1, <2>3, <2>4, <2>6, <2>8 DEF Alone, Others
  <1> QED BY <1>1, <1>2, <1>3 DEF AppIn

-----------------------------------------------------------------------------
(* A guard that may stop a panic, by the place of its middleware. *)
LEMMA GuardFrame ==
  ASSUME NEW f \in Frames, FrameOK(f)
  PROVE  GuardsPanic(f) <=> KindOf(f) = "recover" /\ f.pc \in {"mid", "out"}
  <1>1. CASE Last(f.at) > 0
    <2>1. Mw(f) = MwAt(f.at)
      BY <1>1, MwOfFrame
    <2> QED BY <1>1, <2>1 DEF GuardsPanic, KindOf
  <1>2. CASE ~ (Last(f.at) > 0)
    <2>1. Last(f.at) \in 0..Len(f.mw) /\ Len(f.mw) \in Nat
      BY DEF FrameOK, Frames
    <2>2. f.pc = "in"
      BY <1>2, <2>1 DEF FrameOK
    <2> QED BY <1>2, <2>2 DEF GuardsPanic
  <1> QED BY <1>1, <1>2

(* The stack down to one of its handlers. *)
LEMMA DownTo ==
  ASSUME NEW k \in Seq(Frames), NEW m \in DOMAIN k, m < Len(k)
  PROVE  LET l == SubSeq(k, 1, m) IN Cuts(k, l) /\ Len(l) = m
  <1> DEFINE l == SubSeq(k, 1, m)
  <1>1. m \in 1..Len(k) /\ Len(k) \in Nat
    OBVIOUS
  <1>2. l \in Seq(Frames) /\ Len(l) = m /\ \A i \in 1..m : l[i] = k[i]
    BY <1>1
  <1> HIDE DEF l
  <1>3. DOMAIN l = 1..m
    BY <1>2
  <1> QED BY <1>2, <1>3 DEF Cuts, l

(* A panic unwinds the stack to the innermost guard, and ends the process  *)
(* when there is none.                                                     *)
LEMMA PanicTurns ==
  ASSUME Types, NEW s \in Sessions, StackOK(stack[s]), Panic(s)
  PROVE  (Turn(s) \/ Crash(s)) /\ Alone(s)
  <1> DEFINE k == stack[s]
             n == Len(k)
             guards == {i \in DOMAIN stack[s] : GuardsPanic(stack[s][i])}
  <1>1. PICK at \in {"in", "out"} : Runs(s, {"app"}, at)
    BY DEF Panic
  <1>2. /\ Log(s, "panic", NoStatus) /\ UNCHANGED <<request, status>>
        /\ \/ guards = {} /\ up' = FALSE /\ stack' = stack
           \/ guards # {} /\ up' = up /\ stack' = [stack EXCEPT ![s] = SubSeq(@, 1, Max(guards))]
    BY DEF Panic
  <1>3. k \in Seq(Frames) /\ k # <<>> /\ Top(s) = k[n] /\ KindOf(k[n]) = "app"
    BY <1>1, RunsAt
  <1>4. /\ Answering(k, trace[s], trace'[s], "panic", NoStatus) /\ Told(s, NoStatus)
        /\ Adds(k, trace[s], trace'[s], "panic")
        /\ \A r \in Sessions \ {s} : trace'[r] = trace[r]
    BY <1>1, <1>2, LogEffect, NotTold
  <1>5. \A i \in DOMAIN k : GuardsPanic(k[i]) <=> KindOf(k[i]) = "recover" /\ k[i].pc \in {"mid", "out"}
    BY <1>3, GuardFrame DEF StackOK, Typed
  <1>6. n \in Nat /\ DOMAIN k = 1..n /\ n \in DOMAIN k
    BY <1>3
  <1>7. CASE guards = {} /\ up' = FALSE /\ stack' = stack
    <2>1. \A i \in DOMAIN k : ~ GuardsPanic(k[i])
      BY <1>7
    <2>2. Crash(s)
      BY <1>2, <1>4, <1>5, <1>7, <2>1 DEF Crash
    <2> QED BY <1>2, <1>4, <1>7, <2>2 DEF Alone, Others
  <1>8. CASE guards # {} /\ up' = up /\ stack' = [stack EXCEPT ![s] = SubSeq(@, 1, Max(guards))]
    <2> DEFINE m == Max(guards)
               l == SubSeq(k, 1, m)
    <2>1. m \in guards /\ \A i \in guards : i <= m
      <3>1. guards \subseteq 1..n
        BY <1>6
      <3> HIDE DEF guards
      <3> QED BY <1>6, <1>8, <3>1, MaxIndex
    <2>2. stack'[s] = l /\ \A r \in Sessions \ {s} : stack'[r] = stack[r]
      <3> HIDE DEF l
      <3>1. stack' = [stack EXCEPT ![s] = l]
        BY <1>8 DEF l
      <3> QED BY <3>1 DEF Types
    <2>3. m \in DOMAIN k /\ GuardsPanic(k[m])
      BY <2>1
    <2>4. \A i \in DOMAIN k : GuardsPanic(k[i]) => i <= m
      BY <2>1
    <2> HIDE DEF m, guards
    <2>5. KindOf(k[m]) = "recover" /\ m # n
      BY <1>3, <1>5, <2>3, KindsApart
    <2>6. m < n /\ m \in Nat /\ m > 0
      BY <1>6, <2>3, <2>5
    <2>7. Cuts(k, l) /\ Len(l) = m
      BY <1>3, <2>3, <2>6, DownTo
    <2> HIDE DEF l
    <2>8. \A i \in (m + 1)..n : ~ (KindOf(k[i]) = "recover" /\ k[i].pc \in {"mid", "out"})
      <3> SUFFICES ASSUME NEW i \in (m + 1)..n PROVE ~ GuardsPanic(k[i])
        <4>1. \A i \in (m + 1)..n : i \in DOMAIN k
          BY <1>6, <2>6
        <4> QED BY <1>5, <4>1
      <3>1. i \in DOMAIN k /\ ~ (i <= m)
        BY <1>6, <2>6
      <3> QED BY <2>4, <3>1
    <2>9. Unwound(k, trace[s], l, trace'[s])
      BY <1>3, <1>4, <2>5, <2>6, <2>7, <2>8 DEF Unwound
    <2>10. Turn(s)
      <3>1. Steps(s, stack[s], trace[s], stack'[s], trace'[s])
        BY <2>2, <2>9 DEF Steps
      <3>2. up' = up /\ status'[s] = status[s]
        BY <1>2, <1>8
      <3> QED BY <1>4, <3>1, <3>2, Zenon DEF Turn
    <2> QED BY <1>2, <1>4, <2>2, <2>10 DEF Alone, Others
  <1> QED BY <1>2, <1>7, <1>8

(* The library ends a session. *)
LEMMA EndTurns ==
  ASSUME Types, NEW s \in Sessions, End(s)
  PROVE  Over(s) /\ Alone(s)
  <1>1. /\ stack[s] = <<>> /\ status[s] = NoStatus /\ Exit(s, 0)
        /\ UNCHANGED <<request, stack, trace, up>>
    BY DEF End
  <1>2. Told(s, 0) /\ \A r \in Sessions \ {s} : status'[r] = status[r]
    BY <1>1, ExitEffect
  <1> QED BY <1>1, <1>2 DEF Over, Alone, Others, Told

(* Every step of a session. *)
LEMMA StepTurns ==
  ASSUME Types, NEW s \in Sessions, StackOK(stack[s]), Step(s)
  PROVE  (Turn(s) \/ Crash(s) \/ Over(s)) /\ Alone(s)
  BY BaseTurns, PassTurns, DenyTurns, AroundTurns, DoneTurns, GuardTurns, AppTurns, PanicTurns, EndTurns
     DEF Step

-----------------------------------------------------------------------------
(* The request does not change, nor do the places and what is admitted. *)
LEMMA SamePlaces ==
  ASSUME UNCHANGED request
  PROVE  /\ \A p : MwAt(p)' = MwAt(p) /\ Outer(p)' = Outer(p) /\ Wrapping(p)' = Wrapping(p)
         /\ \A p : Guarding(p)' = Guarding(p) /\ Valid(p)' = Valid(p)
         /\ \A s, kind : Admits(s, kind)' = Admits(s, kind)
  <1>1. chain' = chain /\ cmd' = cmd /\ pty' = pty
    BY DEF request
  <1>2. \A p : MwAt(p)' = MwAt(p)
    BY <1>1 DEF MwAt, Way
  <1>3. \A p : Outer(p)' = Outer(p)
    <2> SUFFICES ASSUME NEW p PROVE Outer(p)' = Outer(p)
      OBVIOUS
    <2> DEFINE To(j, n) == Append(SubSeq(p, 1, j - 1), n)
               Ns(j) == (p[j] + 1)..Len(MwAt(SubSeq(p, 1, j - 1)).mw)
               Ms(j) == (p[j] + 1)..Len(MwAt(SubSeq(p, 1, j - 1))'.mw)
    <2>1. Outer(p) = UNION {{To(j, n) : n \in Ns(j)} : j \in DOMAIN p}
      BY DEF Outer
    <2>2. Outer(p)' = UNION {{To(j, n) : n \in Ms(j)} : j \in DOMAIN p}
      BY DEF Outer
    <2>3. \A j : Ns(j) = Ms(j)
      BY <1>2
    <2> HIDE DEF To, Ns, Ms
    <2>4. \A q : q \in Outer(p)' <=> q \in Outer(p)
      BY <2>1, <2>2, <2>3
    <2> QED BY <2>4
  <1>4. \A p : Wrapping(p)' = Wrapping(p)
    BY DEF Wrapping
  <1>5. \A p : Guarding(p)' = Guarding(p)
    BY <1>2, <1>3, <1>4 DEF Guarding
  <1>6. \A p : Valid(p)' = Valid(p)
    BY <1>2 DEF Valid, Branch
  <1>7. \A s, kind : Admits(s, kind)' = Admits(s, kind)
    BY <1>1 DEF Admits, Refuses, CommandRefused, TerminalRefused
  <1> QED BY <1>2, <1>3, <1>4, <1>5, <1>6, <1>7

(* Nor does what is true of a stack and a history. *)
LEMMA SameFacts ==
  ASSUME UNCHANGED request, NEW s, NEW k, NEW t
  PROVE  /\ StackOK(k)' <=> StackOK(k)
         /\ Admitted(s, k)' <=> Admitted(s, k)
         /\ Past(s, t)' <=> Past(s, t)
         /\ Now(k, t)' <=> Now(k, t)
  <1>1. /\ \A p : MwAt(p)' = MwAt(p) /\ Outer(p)' = Outer(p) /\ Wrapping(p)' = Wrapping(p)
        /\ \A p : Guarding(p)' = Guarding(p) /\ Valid(p)' = Valid(p)
        /\ \A r, kind : Admits(r, kind)' = Admits(r, kind)
    BY SamePlaces
  <1>2. StackOK(k)' <=> StackOK(k)
    BY <1>1 DEF StackOK, Typed, Nested, Complete, FrameOK, Calling
  <1>3. Admitted(s, k)' <=> Admitted(s, k)
    BY <1>1 DEF Admitted
  <1>4. Past(s, t)' <=> Past(s, t)
    BY <1>1 DEF Past, Known, Ordered, Held, Once, At, Event
  <1>5. Now(k, t)' <=> Now(k, t)
    <2>1. \A p : (Through(t, p)' <=> Through(t, p)) /\ (Left(t, p)' <=> Left(t, p))
      BY <1>1 DEF Through, Left, At, Event
    <2>2. (Within(k, t)' <=> Within(k, t)) /\ (Leaves(k, t)' <=> Leaves(k, t))
      BY <1>1, <2>1 DEF Within, Leaves, At
    <2>3. (Fresh(k, t)' <=> Fresh(k, t)) /\ (Active(k, t)' <=> Active(k, t))
      BY DEF Fresh, Active, Rest, At, Event
    <2>4. Passed(k, t)' <=> Passed(k, t)
      BY <1>1 DEF Passed, Reached, Follow, At
    <2> QED BY <2>2, <2>3, <2>4 DEF Now
  <1> QED BY <1>2, <1>3, <1>4, <1>5

(* The steps change the state of one session. *)
LEMMA StepOfOne ==
  ASSUME NEW s, Step(s)
  PROVE  /\ up
         /\ \E v : stack' = [stack EXCEPT ![s] = v] \/ stack' = stack
         /\ \E v : trace' = [trace EXCEPT ![s] = v] \/ trace' = trace
         /\ \E v : status' = [status EXCEPT ![s] = v] \/ status' = status
  <1>1. CASE Base(s) \/ Pass(s) \/ Deny(s) \/ Done(s) \/ End(s)
    BY <1>1 DEF Base, Pass, Deny, Done, End, Runs, Return, Call, Log, Exit, request
  <1>2. CASE Logging(s) \/ Comment(s) \/ Elapsed(s)
    BY <1>2 DEF Logging, Comment, Elapsed, Before, After, Runs, Return, Call, Log, request
  <1>3. CASE GuardChain(s) \/ GuardNext(s)
    BY <1>3 DEF GuardChain, GuardNext, Runs, Return, Call, Log, request
  <1>5. CASE AppIn(s) \/ AppOut(s)
    BY <1>5 DEF AppIn, AppOut, Runs, Return, Call, Log, Exit, request
  <1>4. CASE Panic(s)
    BY <1>4 DEF Panic, Runs, Log, request
  <1> QED BY <1>1, <1>2, <1>3, <1>4, <1>5 DEF Step

(* A turn of its handlers keeps what is true of a session. *)
LEMMA TurnKeeps ==
  ASSUME Types, NEW s \in Sessions, Session(s), up, Turn(s),
         NEW l, l = stack'[s], NEW u, u = trace'[s]
  PROVE  /\ l \in Seq(Frames) /\ u \in Seq(Events)
         /\ StackOK(l) /\ Admitted(s, l) /\ Past(s, u) /\ Now(l, u)
         /\ stack[s] # <<>>
  <1> DEFINE k == stack[s]
             t == trace[s]
  <1>1. /\ k \in Seq(Frames) /\ t \in Seq(Events) /\ StackOK(k) /\ Admitted(s, k) /\ Past(s, t) /\ Now(k, t)
        /\ Steps(s, k, t, l, u)
    BY DEF Types, Session, Live, Turn
  <1> HIDE DEF k, t
  <1>2. /\ k # <<>>
        /\ Cuts(k, l) \/ Calls(s, k, l)
        /\ u = t \/ \E e \in {"enter", "leave", "deny", "panic"} :
                       Adds(k, t, u, e) /\ (Calls(s, k, l) => e = "enter")
    BY <1>1, StepShape
  <1>3. StackOK(l) /\ Admitted(s, l)
    BY <1>1, <1>2, StackStep
  <1>4. l \in Seq(Frames)
    BY <1>2 DEF Cuts, Calls
  <1>5. u \in Seq(Events) /\ Past(s, u)
    <2>1. CASE u = t
      BY <1>1, <2>1
    <2>2. ASSUME NEW e, Adds(k, t, u, e) PROVE u \in Seq(Events) /\ Past(s, u)
      BY <1>1, <2>2, AfterAdd, PastStep DEF Now
    <2> QED BY <1>2, <2>1, <2>2
  <1>6. Fresh(l, u) /\ Active(l, u)
    BY <1>1, <1>2, FreshStep DEF Now
  <1>7. Passed(l, u)
    BY <1>1, PassedStep DEF Now
  <1>8. Within(l, u) /\ Leaves(l, u)
    BY <1>1, LeavesStep DEF Past
  <1>9. Now(l, u)
    BY <1>6, <1>7, <1>8 DEF Now
  <1> QED BY <1>2, <1>3, <1>4, <1>5, <1>9 DEF k

-----------------------------------------------------------------------------
(* The answers of a history, and of one with one thing more in it. *)
LEMMA AnswersAdded ==
  ASSUME NEW k \in Seq(Frames), StackOK(k), NEW t \in Seq(Events), NEW u, NEW e, NEW c,
         Answering(k, t, u, e, c)
  PROVE  /\ Answered(u) <=> Answered(t) \/ c # NoStatus
         /\ \A i : FirstToAnswer(u, i) =>
             (FirstToAnswer(t, i) /\ u[i] = t[i]) \/ (~ Answered(t) /\ Code(u[i]) = c)
  <1> DEFINE m == Len(t) + 1
  <1>1. /\ Len(t) \in Nat /\ DOMAIN t = 1..Len(t) /\ DOMAIN u = 1..m /\ m \in DOMAIN u
        /\ \A j \in DOMAIN t : j \in DOMAIN u /\ u[j] = t[j]
        /\ \A j \in DOMAIN u : j \in DOMAIN t \/ j = m
        /\ Code(u[m]) = c
    BY AfterAnswer
  <1> HIDE DEF m
  <1>2. Answered(u) <=> Answered(t) \/ c # NoStatus
    BY <1>1 DEF Answered
  <1>3. ASSUME NEW i, FirstToAnswer(u, i)
        PROVE  \/ FirstToAnswer(t, i) /\ u[i] = t[i]
               \/ ~ Answered(t) /\ Code(u[i]) = c
    <2>1. i \in DOMAIN u /\ Code(u[i]) # NoStatus /\ \A j \in 1..(i - 1) : Code(u[j]) = NoStatus
      BY <1>3 DEF FirstToAnswer
    <2>2. CASE i \in DOMAIN t
      <3>1. \A j \in 1..(i - 1) : j \in DOMAIN t
        BY <1>1, <2>2
      <3> QED BY <1>1, <2>1, <2>2, <3>1 DEF FirstToAnswer
    <2>3. CASE i = m
      <3>1. \A j \in DOMAIN t : j \in 1..(i - 1)
        BY <1>1, <2>3 DEF m
      <3>2. \A j \in DOMAIN t : Code(t[j]) = NoStatus
        BY <1>1, <2>1, <3>1
      <3> QED BY <1>1, <2>3, <3>2 DEF Answered
    <2> QED BY <1>1, <2>1, <2>2, <2>3
  <1> QED BY <1>2, <1>3

(* What is told of an answer that was, or was not, the first. *)
LEMMA StaysTold ==
  ASSUME NEW s, Answer(s), NEW k \in Seq(Frames), StackOK(k), NEW t \in Seq(Events), t = trace[s],
         stack[s] # <<>>, NEW e, NEW c, Answering(k, t, trace'[s], e, c), Told(s, c)
  PROVE  Answer(s)'
  <1> DEFINE u == trace'[s]
             v == status'[s]
  <1>1. /\ \A i \in DOMAIN t : FirstToAnswer(t, i) => status[s] = Code(t[i])
        /\ Answered(t) <=> status[s] # NoStatus
    BY DEF Answer
  <1>2. v = IF status[s] = NoStatus THEN c ELSE status[s]
    BY DEF Told
  <1>3. /\ Answered(u) <=> Answered(t) \/ c # NoStatus
        /\ \A i : FirstToAnswer(u, i) =>
             (FirstToAnswer(t, i) /\ u[i] = t[i]) \/ (~ Answered(t) /\ Code(u[i]) = c)
    BY AnswersAdded
  <1> HIDE DEF u, v
  <1>4. \A i \in DOMAIN u : FirstToAnswer(u, i) => v = Code(u[i])
    <2> SUFFICES ASSUME NEW i \in DOMAIN u, FirstToAnswer(u, i) PROVE v = Code(u[i])
      OBVIOUS
    <2>1. CASE FirstToAnswer(t, i) /\ u[i] = t[i]
      <3>1. i \in DOMAIN t /\ Code(t[i]) # NoStatus
        BY <2>1 DEF FirstToAnswer
      <3> QED BY <1>1, <1>2, <2>1, <3>1
    <2>2. CASE ~ Answered(t) /\ Code(u[i]) = c
      BY <1>1, <1>2, <2>2
    <2> QED BY <1>3, <2>1, <2>2
  <1>5. (Answered(u) => v # NoStatus) /\ (~ Answered(u) => v = NoStatus)
    BY <1>1, <1>2, <1>3
  <1> QED BY <1>4, <1>5 DEF Answer, Answered, FirstToAnswer, Code, NoStatus, u, v

(* A turn of its handlers keeps the exit status the first answer. *)
LEMMA TurnAnswers ==
  ASSUME Types, NEW s \in Sessions, Session(s), Turn(s), stack[s] # <<>>
  PROVE  Answer(s)'
  <1>1. stack[s] \in Seq(Frames) /\ trace[s] \in Seq(Events) /\ StackOK(stack[s]) /\ Answer(s)
    BY DEF Types, Session
  <1>2. CASE status'[s] = status[s] /\ trace'[s] = trace[s]
    BY <1>1, <1>2 DEF Answer, Answered, FirstToAnswer, Code, NoStatus
  <1>3. CASE \E e, c : Answering(stack[s], trace[s], trace'[s], e, c) /\ Told(s, c)
    <2>1. PICK e, c : Answering(stack[s], trace[s], trace'[s], e, c) /\ Told(s, c)
      BY <1>3
    <2> QED BY <1>1, <2>1, StaysTold
  <1> QED BY <1>2, <1>3 DEF Turn

(* A panic that ends the process had no recover around it. *)
LEMMA CrashUncontained ==
  ASSUME Types, NEW s \in Sessions, StackOK(stack[s]), Crash(s), UNCHANGED request
  PROVE  Contained'
  <1> DEFINE k == stack[s]
             n == Len(k)
             p == k[n].at
             t == trace[s]
             m == Len(t) + 1
  <1>0. k \in Seq(Frames) /\ t \in Seq(Events) /\ StackOK(k)
    BY DEF Types
  <1>1. Answering(k, t, trace'[s], "panic", NoStatus)
    BY DEF Crash
  <1>2. /\ \A i \in DOMAIN k : ~ (KindOf(k[i]) = "recover" /\ k[i].pc \in {"mid", "out"})
    BY DEF Crash
  <1>3. Guarding(p) = {}
    <2> SUFFICES ASSUME NEW r \in Guarding(p) PROVE FALSE
      OBVIOUS
    <2>1. r \in Outer(p) \cup Wrapping(p) /\ MwAt(r).kind = "recover" /\ n \in DOMAIN k
      BY <1>0, <1>1 DEF Guarding, Answering
    <2>2. PICK j \in DOMAIN k : j < n /\ k[j].at = r
      BY <1>0, <2>1 DEF StackOK, Complete
    <2>3. Calling(k[j], k[n])
      BY <1>0, <2>1, <2>2 DEF StackOK, Nested
    <2>4. KindOf(k[j]) = "recover" /\ k[j].pc \in {"mid", "out"}
      BY <2>1, <2>2, <2>3 DEF Calling, KindOf
    <2> QED BY <1>2, <2>4
  <1>5. PICK u : u = trace'[s]
    OBVIOUS
  <1>6. u # <<>> /\ Last(u) = <<"panic", p, NoStatus>>
    <2> HIDE DEF k
    <2>1. u = Append(t, <<"panic", p, NoStatus>>)
      BY <1>1, <1>5 DEF Answering
    <2> DEFINE v == <<"panic", p, NoStatus>>
    <2> HIDE DEF v, p
    <2>2. u = Append(t, v)
      BY <2>1 DEF v
    <2>3. u # <<>> /\ Last(u) = v
      BY <1>0, <2>2 DEF Last
    <2> QED BY <2>3 DEF v
  <1>7. Event(Last(u)) = "panic" /\ At(Last(u)) = p
    BY <1>6 DEF Event, At
  <1>8. PICK q : q = p
    OBVIOUS
  <1>9. Guarding(q)' = {}
    <2>1. Guarding(q)' = Guarding(q)
      BY SamePlaces
    <2> HIDE DEF p
    <2> QED BY <1>3, <1>8, <2>1
  <1> HIDE DEF p
  <1>10. trace'[s] # <<>> /\ Last(trace'[s])[1] = "panic" /\ Last(trace'[s])[2] = q
    BY <1>5, <1>6, <1>7, <1>8 DEF At, Event
  <1>11. /\ trace'[s] # <<>> /\ Event(Last(trace[s]))' = "panic"
         /\ Guarding(At(Last(trace[s])))' = {}
    BY <1>9, <1>10 DEF At, Event
  <1> QED BY <1>11, Zenon DEF Contained

(* One session's step keeps the invariant of the chain. *)
LEMMA ChainStep ==
  ASSUME ChainInv, NEW s \in Sessions, Step(s)
  PROVE  ChainInv'
  <1>1. Types /\ (\A r \in Sessions : Session(r)) /\ Contained
    BY DEF ChainInv
  <1>2. StackOK(stack[s]) /\ Session(s)
    BY <1>1 DEF Session
  <1>3. (Turn(s) \/ Crash(s) \/ Over(s)) /\ Others(s) /\ UNCHANGED request
    BY <1>1, <1>2, StepTurns DEF Alone
  <1>4. /\ up
        /\ \E v : stack' = [stack EXCEPT ![s] = v] \/ stack' = stack
        /\ \E v : trace' = [trace EXCEPT ![s] = v] \/ trace' = trace
        /\ \E v : status' = [status EXCEPT ![s] = v] \/ status' = status
    BY StepOfOne
  <1> DEFINE l == stack'[s]
             u == trace'[s]
  <1>5. /\ stack[s] \in Seq(Frames) /\ trace[s] \in Seq(Events) /\ status[s] \in {0, 1, NoStatus}
        /\ Admitted(s, stack[s]) /\ Past(s, trace[s]) /\ Now(stack[s], trace[s]) /\ Answer(s)
    BY <1>1, <1>2, <1>4 DEF Types, Session, Live
  <1>6. /\ l \in Seq(Frames) /\ u \in Seq(Events) /\ status'[s] \in {0, 1, NoStatus} /\ up' \in BOOLEAN
        /\ StackOK(l) /\ Admitted(s, l) /\ Past(s, u) /\ Answer(s)' /\ Contained'
        /\ Live(s)' => Now(l, u)
    <2>1. CASE Turn(s)
      <3>1. /\ l \in Seq(Frames) /\ u \in Seq(Events)
            /\ StackOK(l) /\ Admitted(s, l) /\ Past(s, u) /\ Now(l, u)
            /\ stack[s] # <<>>
        BY <1>1, <1>2, <1>4, <2>1, TurnKeeps
      <3>2. Answer(s)'
        BY <1>1, <1>2, <2>1, <3>1, TurnAnswers
      <3>3. status'[s] \in {0, 1, NoStatus} /\ up' = up
        BY <1>5, <2>1 DEF Turn, Told, Answering, Answers
      <3>4. Contained'
        BY <1>4, <3>3 DEF Contained
      <3> QED BY <1>4, <3>1, <3>2, <3>3, <3>4
    <2>2. CASE Crash(s)
      <3>1. /\ Answering(stack[s], trace[s], u, "panic", NoStatus) /\ Adds(stack[s], trace[s], u, "panic")
            /\ l = stack[s] /\ up' = FALSE /\ status'[s] = status[s]
        BY <2>2 DEF Crash, Adds, Answers
      <3>2. stack[s] # <<>>
        BY <3>1 DEF Answering
      <3>3. u \in Seq(Events)
        BY <1>2, <1>5, <3>1, AfterAdd
      <3>4. Past(s, u)
        BY <1>2, <1>5, <3>1, PastStep DEF Now
      <3>5. Contained'
        BY <1>1, <1>2, <1>3, <2>2, CrashUncontained
      <3>6. ~ Live(s)'
        BY <3>1, <3>2 DEF Live
      <3>7. Answer(s)'
        BY <1>2, <1>5, <3>1, <3>2, StaysTold DEF Told
      <3> QED BY <1>2, <1>5, <3>1, <3>3, <3>4, <3>5, <3>6, <3>7
    <2>3. CASE Over(s)
      <3>1. l = stack[s] /\ u = trace[s] /\ status'[s] = 0 /\ up' = up /\ stack[s] = <<>> /\ status[s] = NoStatus
        BY <2>3 DEF Over
      <3>2. Answer(s)'
        BY <1>5, <3>1 DEF Answer, Answered, FirstToAnswer, Code, NoStatus
      <3>3. Contained'
        BY <1>4, <3>1 DEF Contained
      <3> QED BY <1>2, <1>4, <1>5, <3>1, <3>2, <3>3
    <2> QED BY <1>3, <2>1, <2>2, <2>3
  <1>7. Types'
    <2>1. stack' \in [Sessions -> Seq(Frames)]
      BY <1>1, <1>4, <1>6 DEF Types
    <2>2. trace' \in [Sessions -> Seq(Events)]
      BY <1>1, <1>4, <1>6 DEF Types
    <2>3. status' \in [Sessions -> {0, 1, NoStatus}]
      BY <1>1, <1>4, <1>6 DEF Types
    <2> QED BY <1>1, <1>3, <1>6, <2>1, <2>2, <2>3 DEF Types, request, Frames, Events, Places, Answers, NoStatus
  <1>8. ASSUME NEW r \in Sessions PROVE Session(r)'
    <2>1. CASE r = s
      <3>1. PICK k, t : k = stack'[s] /\ t = trace'[s]
        OBVIOUS
      <3>2. StackOK(k) /\ Admitted(s, k) /\ Past(s, t) /\ (Live(s)' => Now(k, t))
        BY <1>6, <3>1
      <3>3. StackOK(k)' /\ Admitted(s, k)' /\ Past(s, t)' /\ (Live(s)' => Now(k, t)')
        BY <1>3, <3>2, SameFacts
      <3> QED BY <1>6, <2>1, <3>1, <3>3 DEF Session
    <2>2. CASE r # s
      <3>1. stack'[r] = stack[r] /\ trace'[r] = trace[r] /\ status'[r] = status[r]
        BY <1>3, <2>2 DEF Others
      <3>2. /\ StackOK(stack[r]) /\ Admitted(r, stack[r]) /\ Past(r, trace[r]) /\ Now(stack[r], trace[r])
            /\ Answer(r)
        BY <1>1, <1>4 DEF Session, Live
      <3>3. PICK k, t : k = stack[r] /\ t = trace[r]
        OBVIOUS
      <3>4. StackOK(k)' /\ Admitted(r, k)' /\ Past(r, t)' /\ Now(k, t)'
        BY <1>3, <3>2, <3>3, SameFacts
      <3>5. Answer(r)'
        BY <3>1, <3>2 DEF Answer, Answered, FirstToAnswer, Code, NoStatus
      <3> QED BY <3>1, <3>3, <3>4, <3>5 DEF Session
    <2> QED BY <2>1, <2>2
  <1> QED BY <1>6, <1>7, <1>8 DEF ChainInv

-----------------------------------------------------------------------------
(* A session starts with the outermost handler of the server's chain. *)
LEMMA FirstFrame ==
  ASSUME chain \in Chains
  PROVE  LET f == Outermost(<<>>, chain)
         IN  f \in Frames /\ FrameOK(f) /\ f.pc = "in" /\ Outer(f.at) = {} /\ Wrapping(f.at) = {}
  <1> DEFINE n == Len(chain)
             p == <<n>>
             f == Outermost(<<>>, chain)
  <1>1. chain \in Seq(Middlewares) /\ n \in Nat
    BY ChainsAssumption
  <1>2. f = [at |-> Append(<<>>, n), mw |-> chain, pc |-> "in"]
    BY DEF Outermost
  <1> HIDE DEF f, n
  <1>3. /\ p \in Seq(Nat) /\ Len(p) = 1 /\ p[1] = n /\ p # <<>> /\ Append(<<>>, n) = p
        /\ SubSeq(p, 1, 0) = <<>>
    BY <1>1
  <1>4. p \in Places
    BY <1>3 DEF Places
  <1>5. Front(p) = <<>> /\ Last(p) = n
    BY <1>3 DEF Front, Last
  <1> HIDE DEF p
  <1>6. Branch(p, 1) = n
    <2>1. SubSeq(p, 1, 1 - 1) = <<>>
      BY <1>3
    <2>2. MwAt(<<>>).mw = chain
      BY MwAtTop
    <2>3. Branch(p, 1) = Len(MwAt(SubSeq(p, 1, 1 - 1)).mw)
      BY DEF Branch
    <2>4. MwAt(SubSeq(p, 1, 1 - 1)).mw = chain
      BY <2>1, <2>2, Zenon
    <2> QED BY <2>3, <2>4, Zenon DEF n
  <1>7. Valid(p)
    <2>1. \A j \in 1..1 : j = 1
      OBVIOUS
    <2> QED BY <1>1, <1>3, <1>6, <2>1 DEF Valid
  <1>8. f.at = p /\ f.mw = chain /\ f.pc = "in" /\ f \in Frames
    BY <1>1, <1>2, <1>3, <1>4 DEF Frames
  <1>9. FrameOK(f)
    <2>1. chain = MwAt(<<>>).mw
      BY MwAtTop
    <2>2. n \in 0..Len(chain)
      BY <1>1 DEF n
    <2> QED BY <1>3, <1>5, <1>7, <1>8, <2>1, <2>2 DEF FrameOK
  <1>10. \A q : q \notin Outer(p)
    <2> SUFFICES ASSUME NEW q, q \in Outer(p) PROVE FALSE
      OBVIOUS
    <2>1. q \in Places /\ Len(q) \in 1..1 /\ q[Len(q)] > p[Len(q)] /\ q[Len(q)] <= Branch(p, Len(q))
      BY <1>3, <1>4, <1>7, OuterAt
    <2>2. Len(q) = 1 /\ q[1] \in Nat
      BY <2>1 DEF Places
    <2> QED BY <1>1, <1>3, <1>6, <2>1, <2>2
  <1>11. \A q : q \notin Wrapping(p)
    <2> SUFFICES ASSUME NEW q, q \in Wrapping(p) PROVE FALSE
      OBVIOUS
    <2>1. Len(q) \in 1..(Len(p) - 1)
      BY <1>4, WrappingAt
    <2> QED BY <1>3, <2>1
  <1>12. Outer(f.at) = {} /\ Wrapping(f.at) = {}
    BY <1>8, <1>10, <1>11
  <1> QED BY <1>8, <1>9, <1>12 DEF f

(* The invariant of the chain holds at the start. *)
LEMMA ChainInit == Init => ChainInv
  <1> SUFFICES ASSUME Init PROVE ChainInv
    OBVIOUS
  <1> DEFINE f == Outermost(<<>>, chain)
  <1>1. f \in Frames /\ FrameOK(f) /\ f.pc = "in" /\ Outer(f.at) = {} /\ Wrapping(f.at) = {}
    BY FirstFrame DEF Init
  <1>2. stack = [s \in Sessions |-> <<f>>]
    BY DEF Init
  <1> HIDE DEF f
  <1> DEFINE k == <<f>>
  <1>3. k \in Seq(Frames) /\ Len(k) = 1 /\ k[1] = f /\ k # <<>>
    BY <1>1
  <1> HIDE DEF k
  <1>4. \A i \in DOMAIN k : i = 1
    BY <1>3
  <1>5. \A s \in Sessions : stack[s] = k
    BY <1>2 DEF k
  <1>6. Types
    <2>1. stack \in [Sessions -> Seq(Frames)]
      BY <1>2, <1>3 DEF k
    <2>2. /\ chain \in Chains /\ cmd \in [Sessions -> Commands] /\ pty \in [Sessions -> BOOLEAN]
          /\ status \in [Sessions -> {0, 1, NoStatus}] /\ up \in BOOLEAN
      BY DEF Init
    <2>3. trace \in [Sessions -> Seq(Events)]
      BY DEF Init
    <2> QED BY <2>1, <2>2, <2>3 DEF Types
  <1>7. ASSUME NEW s \in Sessions PROVE Session(s)
    <2>1. StackOK(k)
      <3>1. Typed(k) /\ Complete(k)
        BY <1>1, <1>3, <1>4 DEF Typed, Complete
      <3>2. Nested(k)
        BY <1>4 DEF Nested
      <3> QED BY <3>1, <3>2 DEF StackOK
    <2>2. Admitted(s, k)
      BY <1>1, <1>3, <1>4 DEF Admitted
    <2>3. trace[s] = <<>> /\ status[s] = NoStatus /\ DOMAIN trace[s] = {}
      BY DEF Init
    <2>4. Past(s, trace[s])
      BY <2>3 DEF Past, Known, Ordered, Held, Once
    <2>5. Fresh(k, trace[s]) /\ Active(k, trace[s]) /\ Passed(k, trace[s]) /\ Leaves(k, trace[s])
      BY <2>3 DEF Fresh, Active, Passed, Leaves
    <2>6. Within(k, trace[s])
      BY <1>1, <1>3, <1>4 DEF Within
    <2>7. Answer(s)
      BY <2>3 DEF Answer, Answered, FirstToAnswer, NoStatus
    <2> QED BY <1>5, <2>1, <2>2, <2>4, <2>5, <2>6, <2>7 DEF Session, Now
  <1>8. Contained
    BY DEF Init, Contained
  <1> QED BY <1>6, <1>7, <1>8 DEF ChainInv

(* A step of nobody changes nothing of the chain. *)
LEMMA ChainStutter == ChainInv /\ UNCHANGED vars => ChainInv'
  <1> SUFFICES ASSUME ChainInv, UNCHANGED vars PROVE ChainInv'
    OBVIOUS
  <1>1. /\ chain' = chain /\ cmd' = cmd /\ pty' = pty /\ stack' = stack /\ status' = status
        /\ trace' = trace /\ up' = up /\ UNCHANGED request
    BY DEF vars, request
  <1>2. Types'
    BY <1>1 DEF ChainInv, Types, Frames, Events, Places, Answers, NoStatus
  <1>3. ASSUME NEW s \in Sessions PROVE Session(s)'
    <2>1. PICK k, t : k = stack[s] /\ t = trace[s]
      OBVIOUS
    <2>2. StackOK(k) /\ Admitted(s, k) /\ Past(s, t) /\ (Live(s) => Now(k, t)) /\ Answer(s)
      BY <2>1 DEF ChainInv, Session
    <2>3. StackOK(k)' /\ Admitted(s, k)' /\ Past(s, t)' /\ (Live(s) => Now(k, t)')
      BY <1>1, <2>2, SameFacts
    <2>4. (Live(s)' <=> Live(s)) /\ Answer(s)'
      BY <1>1, <2>2 DEF Live, Answer, Answered, FirstToAnswer, Code, NoStatus
    <2> QED BY <1>1, <2>1, <2>3, <2>4 DEF Session
  <1>4. Contained'
    <2>1. \A q : Guarding(q)' = Guarding(q)
      BY <1>1, SamePlaces
    <2> QED BY <1>1, <2>1 DEF ChainInv, Contained, Event, At
  <1> QED BY <1>2, <1>3, <1>4 DEF ChainInv

(* What is true of the handlers of every session at every moment, for      *)
(* every chain, every number of sessions and every panic.                  *)
THEOREM ChainInvariant == Spec => []ChainInv
  <1>1. ChainInv /\ [Next]_vars => ChainInv'
    BY ChainStep, ChainStutter DEF Next
  <1> QED BY ChainInit, <1>1, PTL DEF Spec

(* The types of the variables: a stack holds handlers of the chain.        *)
THEOREM TypesOfChain == Spec => []TypeOK
  <1>1. ChainInv => TypeOK
    BY DEF ChainInv, Types, Session, StackOK, Typed, FrameOK, TypeOK
  <1> QED BY <1>1, ChainInvariant, PTL

(* WithMiddleware runs the middlewares from the last to the first.         *)
THEOREM RunLastFirst == Spec => []LastFirst
  <1>1. ChainInv => LastFirst
    BY DEF ChainInv, Session, Past, Ordered, LastFirst
  <1> QED BY <1>1, ChainInvariant, PTL

(* Nothing behind a gate runs for a session that it turns away.            *)
THEOREM GatesHoldAlways == Spec => []GatesHold
  <1>1. ASSUME ChainInv PROVE GatesHold
    <2> SUFFICES ASSUME NEW s \in Sessions, NEW e \in ToSet(trace[s]), NEW p \in Outer(At(e)),
                        MwAt(p).kind \in Gates
                 PROVE  Admits(s, MwAt(p).kind) /\ ~ Did(s, "deny", p)
      BY DEF GatesHold
    <2>1. PICK j \in DOMAIN trace[s] : trace[s][j] = e
      BY DEF ToSet
    <2>2. Admits(s, MwAt(p).kind) /\ \A i \in DOMAIN trace[s] : ~ (Event(trace[s][i]) = "deny" /\ At(trace[s][i]) = p)
      BY <1>1, <2>1 DEF ChainInv, Session, Past, Held
    <2> QED BY <2>2 DEF Did, ToSet
  <1> QED BY <1>1, ChainInvariant, PTL

(* The process ends by a panic only when no recover is around it.          *)
THEOREM PanicsContained == Spec => []Contained
  <1>1. ChainInv => Contained
    BY DEF ChainInv
  <1> QED BY <1>1, ChainInvariant, PTL

(* A session is told what the first of its handlers to answer said: a      *)
(* gate's refusal whatever the handlers around it, or after a recover, do. *)
THEOREM StatusAlwaysTells == Spec => []StatusTells
  <1>1. ASSUME ChainInv PROVE StatusTells
    <2> SUFFICES ASSUME NEW s \in Sessions, Ended(s)
                 PROVE  /\ \A i \in DOMAIN trace[s] :
                             FirstToAnswer(trace[s], i) => status[s] = Code(trace[s][i])
                        /\ (\A i \in DOMAIN trace[s] : Code(trace[s][i]) = NoStatus) => status[s] = 0
      BY DEF StatusTells
    <2>1. Answer(s) /\ status[s] # NoStatus
      BY <1>1 DEF ChainInv, Session, Ended
    <2> QED BY <2>1 DEF Answer, Answered
  <1> QED BY <1>1, ChainInvariant, PTL

(* The handler after a recover is run whatever its wrapped chain did.      *)
THEOREM RecoverPassesOn == Spec => []NextAfterRecover
  <1>1. ASSUME ChainInv PROVE NextAfterRecover
    <2> SUFFICES ASSUME NEW s \in Sessions, Ended(s), NEW e \in ToSet(trace[s]),
                        MwAt(At(e)).kind = "recover", Last(Follow(At(e))) > 0
                 PROVE  MwAt(Follow(At(e))).kind \in Gates \/ \E f \in ToSet(trace[s]) : At(f) = Follow(At(e))
      BY DEF NextAfterRecover, Follow
    <2>1. PICK j \in DOMAIN trace[s] : trace[s][j] = e
      BY DEF ToSet
    <2>2. stack[s] = <<>>
      BY DEF Ended
    <2>3. Passed(stack[s], trace[s]) /\ DOMAIN stack[s] = {}
      BY <1>1, <2>2 DEF ChainInv, Session, Live, Now
    <2>4. Reached(stack[s], trace[s], Follow(At(e)))
      BY <2>1, <2>3 DEF Passed
    <2>5. MwAt(Follow(At(e))).kind \in Gates \/ \E i \in DOMAIN trace[s] : At(trace[s][i]) = Follow(At(e))
      BY <2>3, <2>4 DEF Reached
    <2> QED BY <2>5 DEF ToSet
  <1> QED BY <1>1, ChainInvariant, PTL

(* What logging, elapsed and comment write after the next handler is       *)
(* written once, unless a panic went through them.                         *)
THEOREM LeftOnce == Spec => []LeftUnlessCrossed
  <1>1. ASSUME ChainInv PROVE LeftUnlessCrossed
    <2> SUFFICES ASSUME NEW s \in Sessions, Ended(s), NEW e \in ToSet(trace[s]),
                        MwAt(At(e)).kind \in Around
                 PROVE  Cardinality({i \in DOMAIN trace[s] : /\ Event(trace[s][i]) = "leave"
                                                             /\ At(trace[s][i]) = At(e)})
                          = IF Crossed(s, At(e)) THEN 0 ELSE 1
      BY DEF LeftUnlessCrossed
    <2> DEFINE t == trace[s]
               p == At(e)
               writes == {i \in DOMAIN t : Event(t[i]) = "leave" /\ At(t[i]) = p}
    <2>1. PICK j \in DOMAIN t : t[j] = e
      BY DEF ToSet
    <2>2. stack[s] = <<>> /\ DOMAIN stack[s] = {}
      BY DEF Ended
    <2>3. Leaves(stack[s], t) /\ Once(t)
      BY <1>1, <2>2 DEF ChainInv, Session, Live, Now, Past
    <2>4. Left(t, p) <=> ~ Through(t, p)
      BY <2>1, <2>2, <2>3 DEF Leaves
    <2>5. Crossed(s, p) <=> Through(t, p)
      <3> DEFINE Hit(v) == /\ Event(v) = "panic" /\ p \in Outer(At(v))
                           /\ ~ \E r \in Guarding(At(v)) : p \in Outer(r)
      <3>1. (Crossed(s, p) <=> \E v \in ToSet(t) : Hit(v)) /\ (Through(t, p) <=> \E i \in DOMAIN t : Hit(t[i]))
        BY DEF Crossed, Through
      <3> HIDE DEF Hit
      <3> QED BY <3>1 DEF ToSet
    <2>6. CASE Through(t, p)
      <3>1. writes = {}
        BY <2>4, <2>6 DEF Left
      <3>2. Cardinality(writes) = 0
        BY <3>1, FS_EmptySet
      <3> QED BY <2>5, <2>6, <3>2
    <2>7. CASE ~ Through(t, p)
      <3>1. PICK i \in DOMAIN t : Event(t[i]) = "leave" /\ At(t[i]) = p
        BY <2>4, <2>7 DEF Left
      <3>2. \A a \in DOMAIN t : Event(t[a]) = "leave" /\ At(t[a]) = p => a = i
        BY <2>3, <3>1 DEF Once
      <3>3. writes = {i}
        BY <3>1, <3>2
      <3>4. Cardinality(writes) = 1
        BY <3>3, FS_Singleton
      <3> QED BY <2>5, <2>7, <3>4
    <2> QED BY <2>6, <2>7
  <1> QED BY <1>1, ChainInvariant, PTL
=============================================================================
