---------------------------- MODULE MCScpSource ----------------------------
(* Instances of ScpSource: every path of up to MaxNames components, and     *)
(* the commands that are not an ordinary scp -f.                            *)
EXTENDS ScpSource

CONSTANT MaxNames

Order == <<"a", "ab", "f">>

Starts == {<<"a", "ab">>}

Components == {"a", "ab", ".", ".."}

Bare == UNION {[1..n -> Components] : n \in 0..MaxNames}

AllPaths == {Path(abs, s) : abs \in BOOLEAN, s \in Bare \cup {Append(s, "*") : s \in {<<>>, <<"a">>, <<".", "..">>}}}

Flags == {<<Word("scp"), Word("-f")>>, <<Word("scp"), Word("-r"), Word("-f")>>}

CopyCommands == {Append(fl, p) : fl \in Flags, p \in AllPaths}

OddCommands == {<<>>, <<Word("scp")>>, <<Word("ls"), Word("-f"), Word("a")>>, <<Word("scp"), Word("-f")>>,
                <<Word("scp"), Word("-t"), Word("a")>>, <<Word("scp"), Word("-f"), Word("-r")>>,
                <<Word("scp"), Word("-f"), Word("a"), Word("-t"), Word("f")>>}

AllCommands == CopyCommands \cup OddCommands

AbsoluteRoots == {Path(TRUE, s) : s \in {<<"a">>, <<"a", "ab">>, <<"a", "ab", "a", "..">>}}

(* filepath.Clean(".") and filepath.Clean("/") have no components *)
BareRoots == {Path(FALSE, <<".">>), Path(TRUE, <<>>)}

RelativeRoots == {Path(FALSE, <<"a">>)}

AllRoots == AbsoluteRoots \cup BareRoots \cup RelativeRoots

Folder == [dir |-> TRUE, size |-> 0, time |-> 1]

File(size, time) == [dir |-> FALSE, size |-> size, time |-> time]

(* a/ with a/ab/f, a/f and the file ab next to it *)
Nested == [f \in {<<>>, <<"a">>, <<"a", "ab">>, <<"a", "ab", "f">>, <<"a", "f">>, <<"ab">>} |->
             CASE f \in {<<>>, <<"a">>, <<"a", "ab">>} -> Folder
               [] f = <<"a", "ab", "f">> -> File(1, 0)
               [] OTHER -> File(1, 2)]

(* a/f and ab/f *)
SideBySide == [f \in {<<>>, <<"a">>, <<"a", "f">>, <<"ab">>, <<"ab", "f">>} |->
                 IF Len(f) = 2 THEN File(1, 2) ELSE Folder]

(* the file a and ab/f *)
FileFirst == [f \in {<<>>, <<"a">>, <<"ab">>, <<"ab", "f">>} |->
                IF f \in {<<>>, <<"ab">>} THEN Folder ELSE File(0, 2)]

OneTree == {Nested}

TwoDirs == {SideBySide}

AllTrees == {Nested, SideBySide, FileFirst}
=============================================================================
