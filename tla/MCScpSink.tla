------------------------------ MODULE MCScpSink ------------------------------
(* Instances of ScpSink. *)
EXTENDS ScpSink

MCRoot == Path(TRUE, <<"r">>)
Climbing == Path(FALSE, <<"..">>)
InSub == Path(TRUE, <<"s">>)
=============================================================================
