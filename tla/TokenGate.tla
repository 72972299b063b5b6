----------------------------- MODULE TokenGate -----------------------------
(***************************************************************************)
(* What package ratelimiter promises, without a cache, tokens or the steps *)
(* of Allow: a session that asks is decided in one step, on some bucket,   *)
(* and gets its grant exactly when the bucket's grants, this one included, *)
(* then stay within the burst and the rate in every window of time.        *)
(***************************************************************************)
EXTENDS Integers, Sequences

CONSTANTS Sessions, Buckets, Burst, Rate, Cost

VARIABLES verdict,  \* "out", "asked", "yes", "no", and then "served" or "refused"
          log,      \* the times of each bucket's grants
          clock

gateVars == <<verdict, log, clock>>

(* In every window that starts and ends at a grant: at most the burst and  *)
(* what accrues in the window.                                             *)
Within(g) == \A i, j \in DOMAIN g :
                i <= j => Cost * (j - i + 1) <= Burst * Cost + Rate * (g[j] - g[i])

GateInit == /\ verdict = [s \in Sessions |-> "out"]
            /\ log = [l \in Buckets |-> <<>>]
            /\ clock = 0

Move(s, from, to) == verdict[s] = from /\ verdict' = [verdict EXCEPT ![s] = to]

Ask(s) == Move(s, "out", "asked") /\ UNCHANGED <<log, clock>>

Grant(s, l) == /\ Within(Append(log[l], clock))
               /\ Move(s, "asked", "yes")
               /\ log' = [log EXCEPT ![l] = Append(@, clock)]
               /\ UNCHANGED clock

Deny(s, l) == /\ ~ Within(Append(log[l], clock))
              /\ Move(s, "asked", "no")
              /\ UNCHANGED <<log, clock>>

Decide(s) == \E l \in Buckets : Grant(s, l) \/ Deny(s, l)

Answer(s) == /\ Move(s, "yes", "served") \/ Move(s, "no", "refused")
             /\ UNCHANGED <<log, clock>>

Pass == clock' = clock + 1 /\ UNCHANGED <<verdict, log>>

GateNext == Pass \/ \E s \in Sessions : Ask(s) \/ Decide(s) \/ Answer(s)

(* Who asks is decided, and who is decided is answered. *)
GateSpec == /\ GateInit /\ [][GateNext]_gateVars
            /\ \A s \in Sessions : WF_gateVars(Decide(s)) /\ WF_gateVars(Answer(s))
=============================================================================
