----------------------------- MODULE Middleware -----------------------------
(***************************************************************************)
(* The handler of a wish server: the middlewares WithMiddleware composes   *)
(* (options.go), run once per session on a goroutine of the session's own. *)
(*                                                                         *)
(* A middleware is a record [kind, mw]: mw is the chain that a recover     *)
(* middleware wraps, <<>> for the others.  Kinds:                          *)
(*  - "access", "activeterm", "ratelimit": run the next handler or Exit(1);*)
(*  - "logging", "comment", "elapsed": run the next handler, and write     *)
(*    something after it (logging before it as well);                      *)
(*  - "recover": guards its own chain and then the next handler;           *)
(*  - "app": any other handler, such as git's or an scp one: it may answer *)
(*    with an exit status before or after the next handler, may run the    *)
(*    next one or not, and may panic.                                      *)
(* A call stack of handlers is kept for each session.  The n-th handler of *)
(* a chain is the one the first n middlewares make, the 0th does nothing;  *)
(* a panic unwinds the stack to the innermost guard, and ends the process  *)
(* when there is none.                                                     *)
(***************************************************************************)
EXTENDS Naturals, SequencesExt

CONSTANTS Sessions,
          Middlewares,  \* those there are
          Chains,       \* the arguments WithMiddleware may be given
          Commands      \* sessions have none, an allowed or a forbidden command

ASSUME ChainsAssumption == /\ Chains \subseteq Seq(Middlewares)
                           /\ \A m \in Middlewares : m.mw \in Seq(Middlewares)

ASSUME CommandsAssumption == Commands \subseteq {"none", "allowed", "forbidden"}

VARIABLES
    chain,    \* the middlewares of the server
    cmd,      \* each session's command
    pty,      \* whether it has a terminal
    stack,    \* its active handlers, the innermost last
    status,   \* the exit status it was sent
    trace,    \* history: what its middlewares did, in order, and the exit
              \* status each one asked for
    up        \* whether the process runs

vars == <<chain, cmd, pty, stack, status, trace, up>>

request == <<chain, cmd, pty>>

NoStatus == 2

Gates == {"access", "activeterm", "ratelimit"}
Around == {"logging", "comment", "elapsed"}

-----------------------------------------------------------------------------
(* Mutant: one handler too many. *)
OutermostPast(at, mw) == [at |-> Append(at, Len(mw) + 1), mw |-> mw, pc |-> "in"]

(* h = m(h) for each middleware: the last one makes the outermost handler  *)
(* of a chain (here the chain at "at": the server's, or a recover's).      *)
Outermost(at, mw) == [at |-> Append(at, Len(mw)), mw |-> mw, pc |-> "in"]

(* The handler the one of frame f was given: sh, or next. *)
Inner(f) == [at |-> Append(Front(f.at), Last(f.at) - 1), mw |-> f.mw, pc |-> "in"]

Init == /\ chain \in Chains
        /\ cmd \in [Sessions -> Commands]
        /\ pty \in [Sessions -> BOOLEAN]
        /\ stack = [s \in Sessions |-> <<Outermost(<<>>, chain)>>]
        /\ status = [s \in Sessions |-> NoStatus]
        /\ trace = [s \in Sessions |-> <<>>]
        /\ up = TRUE

Top(s) == Last(stack[s])

(* The middleware that made the handler of frame f. *)
Mw(f) == f.mw[Last(f.at)]

(* The handler of session s that runs is of this kind, at this point. *)
Runs(s, kinds, at) == /\ up /\ stack[s] # <<>>
                      /\ Last(Top(s).at) > 0
                      /\ Mw(Top(s)).kind \in kinds
                      /\ Top(s).pc = at

Return(s) == stack' = [stack EXCEPT ![s] = Front(@)]

(* Calls g; the caller goes on at "at". *)
Call(s, g, at) ==
    stack' = [stack EXCEPT ![s] = Front(@) \o << [Last(@) EXCEPT !.pc = at], g >>]

(* What a handler may answer: nothing, or a success, or a failure. *)
Answers == {0, 1, NoStatus}

Log(s, event, code) == trace' = [trace EXCEPT ![s] = Append(@, <<event, Top(s).at, code>>)]

(* s.Exit: the first one is sent, any other one is an error.  NoStatus     *)
(* stands for no call of it.                                               *)
Exit(s, code) == status' = [status EXCEPT ![s] = IF @ = NoStatus THEN code ELSE @]

-----------------------------------------------------------------------------
(* h := func(ssh.Session) {} *)
Base(s) == /\ up /\ stack[s] # <<>>
           /\ Last(Top(s).at) = 0
           /\ Return(s)
           /\ UNCHANGED <<request, status, trace, up>>

(* accesscontrol: a session without a command may always pass. *)
CommandRefused(s) == cmd[s] = "forbidden"

(* activeterm *)
TerminalRefused(s) == ~ pty[s]

(* The sessions a gate may turn away, and those it may let in; the rate    *)
(* limiter decides on its own state (module RateLimiter).                  *)
Refuses(s, kind) == \/ kind = "access" /\ CommandRefused(s)
                    \/ kind = "activeterm" /\ TerminalRefused(s)
                    \/ kind = "ratelimit"
Admits(s, kind) == kind = "ratelimit" \/ ~ Refuses(s, kind)

Pass(s) == /\ Runs(s, Gates, "in")
           /\ Admits(s, Mw(Top(s)).kind)
           /\ Call(s, Inner(Top(s)), "out")
           /\ UNCHANGED <<request, status, trace, up>>

(* Mutant: the refusal is written and the next handler is run all the same. *)
DenyAndGoOn(s) == /\ Runs(s, Gates, "in")
                  /\ Refuses(s, Mw(Top(s)).kind)
                  /\ Exit(s, 1)
                  /\ Log(s, "deny", 1)
                  /\ Call(s, Inner(Top(s)), "out")
                  /\ UNCHANGED <<request, up>>

(* Mutant: no exit status. *)
DenyQuietly(s) == /\ Runs(s, Gates, "in")
                  /\ Refuses(s, Mw(Top(s)).kind)
                  /\ Log(s, "deny", 1)
                  /\ Return(s)
                  /\ UNCHANGED <<request, status, up>>

(* A message and s.Exit(1); wish.Fatal in the rate limiter. *)
Deny(s) == /\ Runs(s, Gates, "in")
           /\ Refuses(s, Mw(Top(s)).kind)
           /\ Exit(s, 1)
           /\ Log(s, "deny", 1)
           /\ Return(s)
           /\ UNCHANGED <<request, up>>

(* Mutant: what comes after the next handler is deferred. *)
PanicDeferred(s) ==
    LET guards == {i \in DOMAIN stack[s] : /\ Last(stack[s][i].at) > 0
                                           /\ Mw(stack[s][i]).kind \in Around \cup {"recover"}}
    IN /\ Runs(s, {"app"}, "in") \/ Runs(s, {"app"}, "out")
       /\ Log(s, "panic", NoStatus)
       /\ IF guards = {}
          THEN up' = FALSE /\ stack' = stack
          ELSE up' = up /\ stack' = [stack EXCEPT ![s] = SubSeq(@, 1, Max(guards))]
       /\ UNCHANGED <<request, status>>

(* Mutant: what is to be written last is written first. *)
BeforeSwapped(s, kind) == /\ Runs(s, {kind}, "in")
                          /\ Log(s, "leave", NoStatus)
                          /\ Call(s, Inner(Top(s)), "out")
                          /\ UNCHANGED <<request, status, up>>

Before(s, kind) == /\ Runs(s, {kind}, "in")
                   /\ Log(s, "enter", NoStatus)
                   /\ Call(s, Inner(Top(s)), "out")
                   /\ UNCHANGED <<request, status, up>>

After(s, kind) == /\ Runs(s, {kind}, "out")
                  /\ Log(s, "leave", NoStatus)
                  /\ Return(s)
                  /\ UNCHANGED <<request, status, up>>

(* "connect" before the next handler, "disconnect" after it *)
Logging(s) == Before(s, "logging") \/ After(s, "logging")

(* the comment after the next handler *)
Comment(s) == Before(s, "comment") \/ After(s, "comment")

(* the time before the next handler, what elapsed after it *)
Elapsed(s) == Before(s, "elapsed") \/ After(s, "elapsed")

(* A gate returns, and so does recover, when the handler it ran has. *)
Done(s) == /\ Runs(s, Gates \cup {"recover"}, "out")
           /\ Return(s)
           /\ UNCHANGED <<request, status, trace, up>>

(* guard(logger, func() { h(s) }) *)
GuardChain(s) == /\ Runs(s, {"recover"}, "in")
                 /\ Log(s, "enter", NoStatus)
                 /\ Call(s, Outermost(Top(s).at, Mw(Top(s)).mw), "mid")
                 /\ UNCHANGED <<request, status, up>>

(* Mutant: a session that was answered is not passed on. *)
GuardNextUnanswered(s) == /\ Runs(s, {"recover"}, "mid")
                          /\ IF status[s] = NoStatus THEN Call(s, Inner(Top(s)), "out")
                             ELSE Return(s)
                          /\ UNCHANGED <<request, status, trace, up>>

(* guard(logger, func() { sh(s) }) *)
GuardNext(s) == /\ Runs(s, {"recover"}, "mid")
                /\ Call(s, Inner(Top(s)), "out")
                /\ UNCHANGED <<request, status, trace, up>>

(* An application's handler may end or run the next one.  git.Fatal and    *)
(* wish.Fatal are an Exit(1), a success may be told as well; so may it be  *)
(* when the next handler has returned, whatever that one answered.  One    *)
(* that answers and then panics is an application around one that panics.  *)
AppIn(s) == /\ Runs(s, {"app"}, "in")
            /\ \E code \in Answers : Log(s, "enter", code) /\ Exit(s, code)
            /\ Return(s) \/ Call(s, Inner(Top(s)), "out")
            /\ UNCHANGED <<request, up>>

AppOut(s) == /\ Runs(s, {"app"}, "out")
             /\ \E code \in Answers : Log(s, "leave", code) /\ Exit(s, code)
             /\ Return(s)
             /\ UNCHANGED <<request, up>>

(* Mutant: only the wrapped chain is guarded. *)
GuardsOfChain(f) == Last(f.at) > 0 /\ Mw(f).kind = "recover" /\ f.pc = "mid"

(* The deferred recover() of a guard that is running. *)
GuardsPanic(f) == Last(f.at) > 0 /\ Mw(f).kind = "recover" /\ f.pc \in {"mid", "out"}

Panic(s) == LET guards == {i \in DOMAIN stack[s] : GuardsPanic(stack[s][i])}
            IN /\ Runs(s, {"app"}, "in") \/ Runs(s, {"app"}, "out")
               /\ Log(s, "panic", NoStatus)
               /\ IF guards = {}
                  THEN up' = FALSE /\ stack' = stack
                  ELSE up' = up /\ stack' = [stack EXCEPT ![s] = SubSeq(@, 1, Max(guards))]
               /\ UNCHANGED <<request, status>>

(* The library ends the session when the handler has returned. *)
End(s) == /\ up /\ stack[s] = <<>> /\ status[s] = NoStatus
          /\ Exit(s, 0)
          /\ UNCHANGED <<request, stack, trace, up>>

Step(s) == \/ Base(s) \/ Pass(s) \/ Deny(s) \/ Logging(s) \/ Comment(s) \/ Elapsed(s) \/ Done(s)
           \/ GuardChain(s) \/ GuardNext(s) \/ AppIn(s) \/ AppOut(s) \/ Panic(s) \/ End(s)

Next == \E s \in Sessions : Step(s)

(* Goroutines run, and handlers return or panic. *)
Spec == Init /\ [][Next]_vars /\ \A s \in Sessions : WF_vars(Step(s))

-----------------------------------------------------------------------------
(* Properties.  A place is the way to a middleware: its index in the       *)
(* chain, and, inside a recover, its index in the wrapped chain.           *)

Event(e) == e[1]
At(e) == e[2]
Code(e) == e[3]
Did(s, event, p) == \E e \in ToSet(trace[s]) : Event(e) = event /\ At(e) = p

(* The middlewares on the way to a place, and the one there; the whole     *)
(* chain is that at no place.                                              *)
Way(p) == LET way[k \in 0..Len(p)] == IF k = 0 THEN [kind |-> "chain", mw |-> chain]
                                      ELSE way[k - 1].mw[p[k]]
          IN  way
MwAt(p) == Way(p)[Len(p)]

(* The places whose middleware's next handler the one at p is part of, and *)
(* the recovers that p is in the wrapped chain of.                         *)
Outer(p) == UNION { {Append(SubSeq(p, 1, k - 1), n) :
                        n \in (p[k] + 1)..Len(MwAt(SubSeq(p, 1, k - 1)).mw)} : k \in DOMAIN p }
Wrapping(p) == {SubSeq(p, 1, k) : k \in 1..(Len(p) - 1)}

Guarding(p) == {r \in Outer(p) \cup Wrapping(p) : MwAt(r).kind = "recover"}

Ended(s) == stack[s] = <<>> /\ status[s] # NoStatus

(* The values each variable takes: a stack holds handlers of the chain.    *)
TypeOK == /\ chain \in Chains
          /\ cmd \in [Sessions -> Commands]
          /\ pty \in [Sessions -> BOOLEAN]
          /\ status \in [Sessions -> {0, 1, NoStatus}]
          /\ up \in BOOLEAN
          /\ \A s \in Sessions : \A i \in DOMAIN stack[s] :
                LET f == stack[s][i]
                IN f.mw = MwAt(Front(f.at)).mw /\ Last(f.at) \in 0..Len(f.mw)

(* "Middlewares are composed from first to last, which means the last one  *)
(* is executed first": a middleware acts before the ones registered before *)
(* it, and what it does when they have returned comes after all they did.  *)
LastFirst == \A s \in Sessions : \A i, j \in DOMAIN trace[s] :
                LET e == trace[s][i]  f == trace[s][j]
                IN At(e) \in Outer(At(f)) => IF Event(e) \in {"enter", "deny"} THEN i < j
                                            ELSE j < i

(* No middleware behind a gate that turns the session away ever runs for   *)
(* it, however the gates, recovers and panics are arranged.                *)
GatesHold == \A s \in Sessions : \A e \in ToSet(trace[s]) : \A p \in Outer(At(e)) :
                MwAt(p).kind \in Gates => Admits(s, MwAt(p).kind) /\ ~ Did(s, "deny", p)

(* The process ends only by a panic that no recover is around: "letting    *)
(* one escape would terminate the whole server process".                   *)
Contained == ~ up => \E s \in Sessions : trace[s] # <<>> /\ LET e == Last(trace[s])
                        IN Event(e) = "panic" /\ Guarding(At(e)) = {}

(* Whatever logging, elapsed and comment write when the session ends is    *)
(* written, once, unless a panic went through them: one inside them that   *)
(* no recover inside them stopped.                                         *)
Crossed(s, p) == \E e \in ToSet(trace[s]) :
                    /\ Event(e) = "panic" /\ p \in Outer(At(e))
                    /\ ~ \E r \in Guarding(At(e)) : p \in Outer(r)
LeftUnlessCrossed ==
    \A s \in Sessions : Ended(s) => \A e \in ToSet(trace[s]) :
        MwAt(At(e)).kind \in Around =>
            Cardinality({i \in DOMAIN trace[s] : /\ Event(trace[s][i]) = "leave"
                                                 /\ At(trace[s][i]) = At(e)})
                = IF Crossed(s, At(e)) THEN 0 ELSE 1

(* A session is told what the first of its handlers to answer said, and 0  *)
(* when none did: a gate's refusal is not lost to what the handlers around *)
(* it answer when they run again, nor to a panic that comes after it.      *)
FirstToAnswer(t, i) == /\ i \in DOMAIN t /\ Code(t[i]) # NoStatus
                       /\ \A j \in 1..(i - 1) : Code(t[j]) = NoStatus

StatusTells ==
    \A s \in Sessions : Ended(s) =>
        /\ \A i \in DOMAIN trace[s] : FirstToAnswer(trace[s], i) => status[s] = Code(trace[s][i])
        /\ (\A i \in DOMAIN trace[s] : Code(trace[s][i]) = NoStatus) => status[s] = 0

(* The handler after a recover is run whatever happened to the wrapped     *)
(* chain ("a panic in the wrapped chain should not stop the next handler   *)
(* from being called").                                                    *)
NextAfterRecover ==
    \A s \in Sessions : Ended(s) => \A e \in ToSet(trace[s]) :
        LET p == Append(Front(At(e)), Last(At(e)) - 1)
        IN MwAt(At(e)).kind = "recover" /\ Last(p) > 0 =>
              MwAt(p).kind \in Gates \/ \E f \in ToSet(trace[s]) : At(f) = p

(* With a recover registered last, a session is ended and answered however *)
(* often its own handlers panic, in the wrapped chain and after it ("a     *)
(* panic in the wrapped chain should not stop the next handler").  What    *)
(* panics of other sessions do is the matter of Contained: they could only *)
(* end the process.                                                        *)
HandlerEnds == chain # <<>> /\ Last(chain).kind = "recover" => \A s \in Sessions : <>Ended(s)
=============================================================================
