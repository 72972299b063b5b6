----------------------------- MODULE MCTeaApps -----------------------------
(* Instances of TeaApps: two sessions chat, the other applications serve    *)
(* one.                                                                     *)
EXTENDS TeaApps

MCUsers == [a \in {"tea", "ticker", "multichat", "script"} |-> IF a = "multichat" THEN {1, 2} ELSE {1}]
=============================================================================
