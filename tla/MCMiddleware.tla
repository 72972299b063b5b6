---------------------------- MODULE MCMiddleware ----------------------------
(* Instances of Middleware. *)
EXTENDS Middleware

M(kind) == [kind |-> kind, mw |-> <<>>]
Recover(mw) == [kind |-> "recover", mw |-> mw]

(* Every middleware, and recover around an application and around one      *)
(* behind a gate.                                                          *)
AnyMiddleware == {M(k) : k \in Gates \cup Around \cup {"app"}} \cup
                 {Recover(<<M("app")>>), Recover(<<M("app"), M("access")>>)}

(* In chains of three, logging stands for comment and elapsed too, and the *)
(* rate limiter for activeterm; two of the three may be applications or    *)
(* recovers.                                                               *)
Distinct == AnyMiddleware \ {M("comment"), M("elapsed"), M("activeterm")}

Threes == {c \in [1..3 -> Distinct] : \E i \in 1..3 : c[i].kind \in Gates \cup Around}

UpToThree == UNION {[1..n -> AnyMiddleware] : n \in 0..2} \cup Threes
=============================================================================
