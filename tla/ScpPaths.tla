------------------------------ MODULE ScpPaths ------------------------------
(***************************************************************************)
(* The path arithmetic of the scp package: what path/filepath computes for *)
(* it, and fileSystemHandler.prefixed, which maps every path a client      *)
(* names to a location at or below the handler's root (filesystem.go).     *)
(*                                                                         *)
(* A path is the sequence of its components and whether it starts with a   *)
(* separator.  Components are opaque names except for ".", "..", and the   *)
(* empty one that a trailing or doubled separator leaves.  The separator   *)
(* is "/": Windows paths are not modelled.  A clean path has no "." and no *)
(* empty component; the clean relative path without components is ".".     *)
(***************************************************************************)
EXTENDS Naturals, Sequences, SequencesExt

(* What a trailing or doubled separator leaves *)
Empty == ""

Path(abs, names) == [abs |-> abs, names |-> names]

Paths(N) == [abs : BOOLEAN, names : Seq(N)]

-----------------------------------------------------------------------------
(* path/filepath *)

(* One component more on a clean path: ".." takes the last one back,       *)
(* except that nothing is above "/" and a relative path keeps its leading  *)
(* "..".                                                                   *)
AddName(abs, done, n) ==
    CASE n \in {Empty, "."} -> done
      [] n = ".." /\ done # <<>> /\ Last(done) # ".." -> Front(done)
      [] n = ".." /\ abs /\ done = <<>> -> done
      [] OTHER -> Append(done, n)

(* The clean paths of the first i components of a path *)
Cleaning(abs, names) ==
    LET done[i \in 0..Len(names)] ==
            IF i = 0 THEN <<>> ELSE AddName(abs, done[i - 1], names[i])
    IN  done

Clean(p) == Path(p.abs, Cleaning(p.abs, p.names)[Len(p.names)])

Join(p, q) == Clean(Path(p.abs, p.names \o q.names))

JoinName(p, n) == Clean(Path(p.abs, Append(p.names, n)))

Dir(p) == IF p.names = <<>> THEN p ELSE Clean(Path(p.abs, Front(p.names)))

(* strings.HasPrefix(p, root + "/") on clean paths: the string of a clean  *)
(* path ends in a separator, or starts with "./", only when it has no      *)
(* components, and then nothing starts with it and another separator.      *)
HasRootPrefix(root, p) == /\ root.names # <<>>
                          /\ p.abs = root.abs
                          /\ IsStrictPrefix(root.names, p.names)

AtOrBelow(root, p) == p = root \/ HasRootPrefix(root, p)

(* filepath.Rel(root, p) for p at or below root *)
Rel(root, p) == Path(FALSE, SubSeq(p.names, Len(root.names) + 1, Len(p.names)))

-----------------------------------------------------------------------------
(* fileSystemHandler.prefixed *)

(* Mutant: climbing is dropped from the path instead of resolved in it. *)
SafeStripped(path) == Clean(Path(TRUE, SelectSeq(path.names, LAMBDA n : n # "..")))

(* "/" + path, cleaned *)
Safe(path) == Clean(Path(TRUE, path.names))

Refused == [ok |-> FALSE]

(* Mutant: the path is joined as it is, and the result not checked. *)
PrefixedJoin(root, path) == [ok |-> TRUE, loc |-> Join(root, path)]

Prefixed(root, path) ==
    LET clean  == Clean(path)
        joined == Join(root, Safe(path))
    IN  CASE AtOrBelow(root, clean)  -> [ok |-> TRUE, loc |-> clean]
          [] ~ AtOrBelow(root, clean) /\ AtOrBelow(root, joined) -> [ok |-> TRUE, loc |-> joined]
          [] OTHER -> Refused

-----------------------------------------------------------------------------
(* What it means for a location to be inside a root: the root's components *)
(* first, and then nothing that climbs.                                    *)
Inside(root, p) == /\ p.abs = root.abs
                   /\ IsPrefix(root.names, p.names)
                   /\ \A i \in (Len(root.names) + 1)..Len(p.names) :
                         p.names[i] \notin {Empty, ".", ".."}
=============================================================================
