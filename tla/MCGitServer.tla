---------------------------- MODULE MCGitServer ----------------------------
(* Instances of GitServer: branch names are model values, one of them       *)
(* master, which the HEAD of a new repository names.                        *)
EXTENDS GitServer

CONSTANTS dev, feat, master
============================================================================
