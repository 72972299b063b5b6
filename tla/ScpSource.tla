----------------------------- MODULE ScpSource -----------------------------
(***************************************************************************)
(* An scp command as the middleware reads it, and a copy to the client:    *)
(* the path of the command is matched by the handler's Glob, each match is *)
(* opened or walked, the entries found are put into a tree of their own by *)
(* RootEntry.Append, and the tree is written to the client at the end      *)
(* (scp.go, copy_to_client.go, filesystem.go, fs.go).                      *)
(*                                                                         *)
(* Both handlers are modelled: the one for a directory, which resolves     *)
(* every path it is given with Prefixed, and the one for an fs.FS, which   *)
(* hands paths on as they are.  The files are a function from the paths    *)
(* below the root to what is there; the contents of a file are its length. *)
(* There are no symbolic links, and "*" is the only wildcard, as a whole   *)
(* last component.                                                         *)
(***************************************************************************)
EXTENDS ScpPaths, Naturals, FiniteSetsExt

CONSTANTS Commands,   \* s.Command(): arguments are paths, options being one too
          Handlers,   \* "dir": NewFileSystemHandler, "fs": NewFSReadHandler, "none"
          Roots,      \* arguments of NewFileSystemHandler
          Trees,      \* what is below the root: names -> [dir, size, time]
          NameOrder,  \* the names of directory entries, sorted
          StartsWith  \* the pairs of names of which one begins with the other

ASSUME CommandsAssumption == Commands \subseteq Seq(Paths(STRING)) /\ Roots \subseteq Paths(STRING)

ASSUME NamesAssumption == NameOrder \in Seq(STRING \ {Empty, ".", ".."})

(* The root is a directory, and what anything is in is one too. *)
ASSUME TreesAssumption ==
    \A t \in Trees : /\ DOMAIN t \subseteq Seq(Range(NameOrder))
                    /\ t \in [DOMAIN t -> [dir : BOOLEAN, size : Nat, time : Nat]]
                    /\ \A f \in DOMAIN t : IF f = <<>> THEN t[f].dir
                                          ELSE Front(f) \in DOMAIN t /\ t[Front(f)].dir

VARIABLES cmd,        \* s.Command()
          handler,    \* which handler is installed
          root,       \* h.root
          tree,       \* the files, as they are now
          phase,      \* how far the copy is, or how it ended
          todo,       \* calls still to make: matches to open or walk, paths to visit
          entries,    \* the entries so far, each with the index of its parent
          open,       \* the entries whose file is open
          closers,    \* the closers registered, 0 for a nil one
          pending,    \* the entries still to write, 0 for the end of a directory
          out,        \* what was sent to the client
          found,      \* history: the locations Glob matched
          touched,    \* history: the locations the handler asked the system for
          changed     \* history: the open files whose length changed

vars == <<cmd, handler, root, tree, phase, todo, entries, open, closers, pending,
          out, found, touched, changed>>

setup == <<cmd, handler, root>>

-----------------------------------------------------------------------------
(* GetInfo *)

Word(w) == Path(FALSE, <<w>>)

OpFlags == {Word("-f"), Word("-t")}

FlagsAt(c) == {i \in DOMAIN c : c[i] \in OpFlags}

(* The last of -f and -t counts, with whatever follows it as its path; one *)
(* that nothing follows makes the command none of scp's.                   *)
GetInfo(c) ==
    [ok        |-> c # <<>> /\ c[1] = Word("scp") /\ Len(c) \notin FlagsAt(c),
     recursive |-> Word("-r") \in Range(c),
     op        |-> IF FlagsAt(c) = {} THEN Word(Empty) ELSE c[Max(FlagsAt(c))],
     path      |-> IF FlagsAt(c) = {} \/ Len(c) \in FlagsAt(c) THEN Word(Empty)
                   ELSE c[Max(FlagsAt(c)) + 1]]

info == GetInfo(cmd)

-----------------------------------------------------------------------------
(* The files *)

(* The elements of s that are in T, in their order.  It is SelectSeq with a *)
(* set, which the provers can look into.                                   *)
Keep(s, T) ==
    LET kept[i \in 0..Len(s)] ==
            CASE i = 0 -> <<>>
              [] i > 0 /\ s[i] \in T -> Append(kept[i - 1], s[i])
              [] OTHER -> kept[i - 1]
    IN  kept[Len(s)]

Names == Range(NameOrder)

(* The path below the root that a location has *)
Below(loc) == SubSeq(loc.names, Len(root.names) + 1, Len(loc.names))

Exists(loc) == Inside(root, loc) /\ Below(loc) \in DOMAIN tree

IsDir(loc) == tree[Below(loc)].dir

(* The locations of a directory's entries, in the order of their names *)
Listing(loc) ==
    LET there == Keep(NameOrder, {n \in Names : Append(Below(loc), n) \in DOMAIN tree})
    IN  [i \in DOMAIN there |-> Path(loc.abs, Append(loc.names, there[i]))]

Wild(p) == p.names # <<>> /\ Last(p.names) = "*"

(* filepath.Glob, fs.Glob: input and output errors are ignored *)
Matches(p) ==
    IF Wild(p)
    THEN LET d == Path(p.abs, Front(p.names)) IN IF Exists(d) THEN Listing(d) ELSE <<>>
    ELSE IF Exists(p) THEN <<p>> ELSE <<>>

(* fs.ValidPath: what a file system of the standard library accepts.  The  *)
(* path "." is spelled out, the path without components being "".          *)
ValidPath(p) == /\ ~ p.abs
                /\ \/ p.names = <<".">>
                   \/ p.names # <<>> /\ Clean(p).names = p.names /\ ".." \notin Range(p.names)

(* fs.Glob looks in the directory of a pattern, "." for a bare one. *)
ValidPattern(p) == IF ~ Wild(p) THEN ValidPath(p)
                   ELSE ~ p.abs /\ (Len(p.names) = 1 \/ ValidPath(Path(FALSE, Front(p.names))))

-----------------------------------------------------------------------------
(* The two handlers *)

(* Mutant: only Glob maps the path below the root. *)
ResolveAsIs(p) == IF handler # "dir" THEN [ok |-> ValidPattern(p), loc |-> Clean(p)]
                  ELSE IF phase = "glob" THEN Prefixed(root, p) ELSE [ok |-> TRUE, loc |-> Clean(p)]

(* The location that the handler looks at for a path *)
Resolve(p) == IF handler = "dir" THEN Prefixed(root, p)
              ELSE [ok |-> ValidPattern(p), loc |-> Clean(p)]

(* fileSystemHandler keeps the matches that are at or below its root and   *)
(* makes them relative to it.                                              *)
Kept(matches) == IF handler = "dir" THEN Keep(matches, {m \in Range(matches) : AtOrBelow(root, m)})
                 ELSE matches

AsArgument(loc) == CASE handler = "dir" -> Rel(root, loc)
                     [] handler # "dir" /\ loc.names = <<>> -> Word(".")
                     [] OTHER -> loc

-----------------------------------------------------------------------------
(* RootEntry.Append, DirEntry.Append *)

(* strings.HasPrefix on the strings of two clean paths: no separator is    *)
(* asked for after the prefix.                                             *)
StringPrefix(d, p) ==
    /\ d.names # <<>> /\ d.abs = p.abs /\ Len(d.names) <= Len(p.names)
    /\ Front(d.names) = SubSeq(p.names, 1, Len(d.names) - 1)
    /\ LET last == p.names[Len(d.names)]
       IN  Last(d.names) = last \/ <<Last(d.names), last>> \in StartsWith

(* Mutant: any child whose path the parent starts with is searched. *)
PlaceAny(es, loc) ==
    LET parent == Dir(loc)
        Under(k) == {i \in DOMAIN es : es[i].parent = k /\ StringPrefix(es[i].loc, parent)}
        search[k \in 0..Len(es)] ==
            IF Under(k) = {} THEN k
            ELSE LET i == Min(Under(k)) IN IF es[i].loc = parent THEN i ELSE search[i]
    IN  search[0]

(* The entry that a new entry at loc becomes a child of, 0 for the root:   *)
(* from the root down, the first child directory that is the parent of     *)
(* loc, or that the parent's path starts with and that is searched in turn. *)
Place(es, loc) ==
    LET parent == Dir(loc)
        Under(k) == {i \in DOMAIN es : /\ es[i].parent = k /\ es[i].dir
                                       /\ es[i].loc = parent \/ StringPrefix(es[i].loc, parent)}
        search[k \in 0..Len(es)] ==
            IF Under(k) = {} THEN k
            ELSE LET i == Min(Under(k)) IN IF es[i].loc = parent THEN i ELSE search[i]
    IN  search[0]

NewEntry(loc, asDir) ==
    LET f == tree[Below(loc)]
    IN  [loc |-> loc, dir |-> asDir, size |-> f.size, time |-> f.time,
         name |-> IF loc.names = <<>> THEN "." ELSE Last(loc.names),
         parent |-> Place(entries, loc)]

Children(k) == Keep([i \in DOMAIN entries |-> i], {i \in DOMAIN entries : entries[i].parent = k})

-----------------------------------------------------------------------------
(* Where a session starts *)

Init == /\ cmd \in Commands
        /\ handler \in Handlers
        /\ IF handler = "dir" THEN \E r \in Roots : root = Clean(r) ELSE root = Path(FALSE, <<>>)
        /\ tree \in Trees
        /\ phase = "start"
        /\ todo = <<>> /\ entries = <<>> /\ pending = <<>> /\ out = <<>>
        /\ open = {} /\ closers = <<>>
        /\ found = {} /\ touched = {} /\ changed = {}

(* copyToClient returns: the registered closers are called, nil ones       *)
(* skipped, and an error is reported by wish.Fatal.                        *)
Return(how, registered) == /\ phase' = how
                           /\ closers' = registered
                           /\ open' = open \ Range(registered)

(* scp.Middleware: what is no scp command goes to the next handler, an scp *)
(* command without -f and -t does nothing, and one whose handler is nil    *)
(* fails.  Only the directory handler takes files.                         *)
Middleware ==
    /\ phase = "start"
    /\ phase' = CASE ~ info.ok -> "next"
                  [] info.ok /\ info.op = Word(Empty) -> "ignored"
                  [] info.ok /\ info.op = Word("-f") -> IF handler = "none" THEN "failed" ELSE "glob"
                  [] OTHER -> IF handler = "dir" THEN "sink" ELSE "failed"
    /\ UNCHANGED <<setup, tree, todo, entries, open, closers, pending, out, found, touched, changed>>

(* A path the directory handler refuses ends the copy; the file system of  *)
(* the other one finds nothing there.  Without a match the copy fails.     *)
Glob ==
    /\ phase = "glob"
    /\ LET to  == Resolve(info.path)
           all == IF to.ok THEN Kept(Matches(to.loc)) ELSE <<>>
       IN  /\ touched' = IF to.ok THEN {IF Wild(to.loc) THEN Dir(to.loc) ELSE to.loc} ELSE {}
           /\ found' = Range(all)
           /\ phase' = CASE handler = "dir" /\ ~ to.ok -> "refused"
                         [] all # <<>> -> "entries"
                         [] OTHER -> "failed"
           /\ todo' = [i \in DOMAIN all |->
                          [call |-> IF info.recursive THEN "walk" ELSE "open",
                           arg  |-> AsArgument(all[i])]]
    /\ UNCHANGED <<setup, tree, entries, open, closers, pending, out, changed>>

-----------------------------------------------------------------------------
(* copyToClient: the entries *)

Calls(call) == phase = "entries" /\ todo # <<>> /\ Head(todo).call = call

Arg == Head(todo).arg

Located == IF handler = "dir" THEN Prefixed(root, Arg) ELSE [ok |-> TRUE, loc |-> Arg]

(* What the next call asks the system for, there or not: os.Stat and       *)
(* filepath.WalkDir are called with whatever prefixed returned.            *)
Looked == LET to == IF Head(todo).call = "visit" THEN Located ELSE Resolve(Arg)
          IN  IF to.ok THEN {to.loc} ELSE {}

(* An error of a handler's method: a path refused, a location that is not  *)
(* there, a file that cannot be opened, a directory that cannot be read.   *)
(* A match that fails to open has a nil closer registered all the same.    *)
Refusal == /\ phase = "entries" /\ todo # <<>> /\ handler = "dir" /\ ~ Resolve(Arg).ok
           /\ Return("refused", IF Head(todo).call = "open" THEN Append(closers, 0) ELSE closers)
           /\ UNCHANGED <<setup, tree, todo, entries, pending, out, found, touched, changed>>

EntryFails == /\ phase = "entries" /\ todo # <<>>
              /\ touched' = touched \cup Looked
              /\ Return("failed", IF Head(todo).call = "open" THEN Append(closers, 0) ELSE closers)
              /\ UNCHANGED <<setup, tree, todo, entries, pending, out, found, changed>>

(* Mutant: a file found by the walk is opened without its closer. *)
AddFileUnclosed(loc) == /\ entries' = Append(entries, NewEntry(loc, FALSE))
                        /\ open' = open \cup {Len(entries) + 1}
                        /\ UNCHANGED closers

(* NewFileEntry, its closer and Append *)
AddFile(loc) == LET i == Len(entries) + 1
                IN  /\ entries' = Append(entries, NewEntry(loc, FALSE))
                    /\ open' = open \cup {i}
                    /\ closers' = Append(closers, i)

(* Without -r a match is opened as a file, whatever it is. *)
OpenMatch == /\ Calls("open") /\ Resolve(Arg).ok /\ Exists(Resolve(Arg).loc)
             /\ touched' = touched \cup {Resolve(Arg).loc}
             /\ AddFile(Resolve(Arg).loc)
             /\ todo' = Tail(todo)
             /\ UNCHANGED <<setup, tree, phase, pending, out, found, changed>>

(* WalkDir starts at the location of the match, *)
WalkDir == /\ Calls("walk") /\ Resolve(Arg).ok /\ Exists(Resolve(Arg).loc)
           /\ touched' = touched \cup {Resolve(Arg).loc}
           /\ todo' = <<[call |-> "visit", arg |-> Resolve(Arg).loc]>> \o Tail(todo)
           /\ UNCHANGED <<setup, tree, phase, entries, open, closers, pending, out, found, changed>>

(* and visits a directory before what is in it.  The callback is not made  *)
(* for the root of a directory handler; the methods it calls resolve the   *)
(* location it is given again.                                             *)
Visits(loc) == [i \in DOMAIN Listing(loc) |-> [call |-> "visit", arg |-> Listing(loc)[i]]]

Skips(loc) == handler = "dir" /\ loc = root

VisitRoot == /\ Calls("visit") /\ Skips(Arg)
             /\ todo' = (IF IsDir(Arg) THEN Visits(Arg) ELSE <<>>) \o Tail(todo)
             /\ UNCHANGED <<setup, tree, phase, entries, open, closers, pending, out, found,
                            touched, changed>>

VisitDir == /\ Calls("visit") /\ ~ Skips(Arg) /\ Located.ok /\ IsDir(Arg)
            /\ touched' = touched \cup {Located.loc}
            /\ entries' = Append(entries, NewEntry(Located.loc, TRUE))
            /\ todo' = Visits(Arg) \o Tail(todo)
            /\ UNCHANGED <<setup, tree, phase, open, closers, pending, out, found, changed>>

VisitFile == /\ Calls("visit") /\ ~ Skips(Arg) /\ Located.ok /\ ~ IsDir(Arg)
             /\ touched' = touched \cup {Located.loc}
             /\ AddFile(Located.loc)
             /\ todo' = Tail(todo)
             /\ UNCHANGED <<setup, tree, phase, pending, out, found, changed>>

-----------------------------------------------------------------------------
(* RootEntry.Write *)

Says(t, name, n) == [t |-> t, name |-> name, n |-> n]

(* The times of an entry are sent unless they are at or before the epoch. *)
Times(e) == IF e.time > 0 THEN <<Says("T", "", e.time)>> ELSE <<>>

WriteRoot == /\ phase = "entries" /\ todo = <<>>
             /\ phase' = "write"
             /\ pending' = Children(0)
             /\ UNCHANGED <<setup, tree, todo, entries, open, closers, out, found, touched, changed>>

Writes == phase = "write" /\ pending # <<>> /\ Head(pending) # 0

This == entries[Head(pending)]

(* Mutant: the end of a directory comes before its entries. *)
WriteDirClosed == /\ Writes /\ This.dir
                  /\ out' = out \o Times(This) \o <<Says("D", This.name, 0)>>
                  /\ pending' = <<0>> \o Children(Head(pending)) \o Tail(pending)
                  /\ UNCHANGED <<setup, tree, phase, todo, entries, open, closers, found, touched,
                                 changed>>

WriteDir == /\ Writes /\ This.dir
            /\ out' = out \o Times(This) \o <<Says("D", This.name, 0)>>
            /\ pending' = Children(Head(pending)) \o <<0>> \o Tail(pending)
            /\ UNCHANGED <<setup, tree, phase, todo, entries, open, closers, found, touched, changed>>

WriteDirEnd == /\ phase = "write" /\ pending # <<>> /\ Head(pending) = 0
               /\ out' = Append(out, Says("E", "", 0))
               /\ pending' = Tail(pending)
               /\ UNCHANGED <<setup, tree, phase, todo, entries, open, closers, found, touched,
                              changed>>

(* The size is the one NewFileEntry saw, the data are all the file has. *)
WriteFile == /\ Writes /\ ~ This.dir /\ ~ IsDir(This.loc)
             /\ out' = out \o Times(This)
                           \o <<Says("C", This.name, This.size),
                                Says("data", "", tree[Below(This.loc)].size), Says("NUL", "", 0)>>
             /\ pending' = Tail(pending)
             /\ UNCHANGED <<setup, tree, phase, todo, entries, open, closers, found, touched, changed>>

(* Reading a directory as a file fails after its header is sent. *)
ReadFails == /\ Writes /\ ~ This.dir /\ IsDir(This.loc)
             /\ out' = out \o Times(This) \o <<Says("C", This.name, This.size)>>
             /\ Return("failed", closers)
             /\ UNCHANGED <<setup, tree, todo, entries, pending, found, touched, changed>>

(* The client is gone, or a file cannot be read. *)
WriteFails == /\ phase = "write" /\ pending # <<>>
              /\ Return("failed", closers)
              /\ UNCHANGED <<setup, tree, todo, entries, pending, out, found, touched, changed>>

Done == /\ phase = "write" /\ pending = <<>>
        /\ Return("done", closers)
        /\ UNCHANGED <<setup, tree, todo, entries, pending, out, found, touched, changed>>

(* Someone else makes a file that is open longer or empties it. *)
Resize == /\ phase \in {"entries", "write"} /\ changed = {}
          /\ \E i \in open :
                LET f == Below(entries[i].loc)
                IN  /\ ~ tree[f].dir
                    /\ tree' = [tree EXCEPT ![f].size = IF @ = 0 THEN 1 ELSE 0]
                    /\ changed' = {f}
          /\ UNCHANGED <<setup, phase, todo, entries, open, closers, pending, out, found, touched>>

Next == \/ Middleware \/ Glob \/ Refusal \/ EntryFails
        \/ OpenMatch \/ WalkDir \/ VisitRoot \/ VisitDir \/ VisitFile
        \/ WriteRoot \/ WriteDir \/ WriteDirEnd \/ WriteFile \/ ReadFails \/ WriteFails \/ Done
        \/ Resize

Spec == Init /\ [][Next]_vars

-----------------------------------------------------------------------------
(* What the client makes of what it is sent: a reference receiver, for     *)
(* files whose data are as long as announced.                              *)

Read(c, m) ==
    LET Put(dir) == c.got \cup {[at |-> Append(c.cwd, m.name), dir |-> dir, size |-> m.n,
                                 time |-> c.time]}
    IN  CASE m.t = "T" -> [c EXCEPT !.time = m.n]
          [] m.t = "D" -> [cwd |-> Append(c.cwd, m.name), time |-> 0, got |-> Put(TRUE)]
          [] m.t = "C" -> [c EXCEPT !.time = 0, !.got = Put(FALSE)]
          [] m.t = "E" -> [c EXCEPT !.cwd = Front(@)]
          [] OTHER -> c

(* What it has made of the first messages *)
Reading(msgs) ==
    LET read[i \in 0..Len(msgs)] ==
            IF i = 0 THEN [cwd |-> <<>>, time |-> 0, got |-> {}] ELSE Read(read[i - 1], msgs[i])
    IN  read

Received == Reading(out)[Len(out)].got

(* What the command asks for, as names below the root: a path that starts  *)
(* with the root is taken as it is, any other from the root.               *)
Asked ==
    CASE handler = "dir" /\ AtOrBelow(root, Clean(info.path)) -> Below(Clean(info.path))
      [] handler = "dir" /\ ~ AtOrBelow(root, Clean(info.path)) -> Clean(Path(TRUE, info.path.names)).names
      [] OTHER -> Clean(info.path).names

AskedFiles ==
    IF handler # "dir" /\ ~ ValidPattern(info.path) THEN {}
    ELSE IF Asked # <<>> /\ Last(Asked) = "*"
    THEN {f \in DOMAIN tree : f # <<>> /\ Front(f) = Front(Asked)}
    ELSE {Asked} \cap DOMAIN tree

(* The files the client should have: each match under its own name, and    *)
(* with -r all that is below it; the root has no name, and a directory is  *)
(* sent without a length.                                                  *)
Expected ==
    LET Cut(m) == IF m = <<>> THEN 0 ELSE Len(m) - 1
        Copied(m) == {f \in DOMAIN tree : f # <<>> /\ (f = m \/ (info.recursive /\ IsPrefix(m, f)))}
    IN  UNION {{[at |-> SubSeq(f, Cut(m) + 1, Len(f)), dir |-> tree[f].dir,
                 size |-> IF tree[f].dir THEN 0 ELSE tree[f].size,
                 time |-> tree[f].time] : f \in Copied(m)} : m \in AskedFiles}

Ended == phase \in {"done", "failed", "refused", "next", "ignored", "sink"}

-----------------------------------------------------------------------------
(* Properties *)

(* The shapes the variables take: every call left is one copyToClient      *)
(* makes, and every entry's parent is a directory appended before it.      *)
TypeOK == /\ phase \in {"start", "glob", "entries", "write"} \/ Ended
          /\ \A i \in DOMAIN todo : todo[i].call \in {"open", "walk", "visit"}
          /\ \A i \in DOMAIN entries :
                entries[i].parent # 0 => entries[i].parent < i /\ entries[entries[i].parent].dir
          /\ open \subseteq DOMAIN entries
          /\ Range(closers) \subseteq DOMAIN entries \cup {0}
          /\ Range(pending) \subseteq DOMAIN entries \cup {0}

(* Whatever path the client names and however often it is resolved again,  *)
(* every location the system is asked for, found there or not, is inside   *)
(* the root (TestPrefixedPathTraversal, TestPathTraversalEndToEnd).        *)
Confined == \A p \in touched : Inside(root, p)

(* What Glob found is what is copied: resolving the relative path Glob     *)
(* returned, and then the path the walk calls back with, leads back to     *)
(* what was found or to something in it ("make sure that your Glob         *)
(* implementation returns relative paths as well", CopyToClientHandler).   *)
SamePlace == \A i \in DOMAIN entries : \E f \in found : Inside(f, entries[i].loc)

(* Glob finds what the command asks for, a path that names no place below  *)
(* the root by itself being taken from the root with a leading "/" and any *)
(* climbing above it ignored (the expectations of                          *)
(* TestPrefixedPathTraversal).  Only under the roots "." and "/", which no *)
(* cleaned path starts with, is anything below the root refused.           *)
Resolution == /\ phase = "refused" => root.names = <<>>
              /\ phase \in {"entries", "write", "done"} => {Below(f) : f \in found} = AskedFiles

(* No two directories side by side have names one of which begins with the *)
(* other, so that a string prefix is a path prefix.                        *)
Distinguishable ==
    ~ \E d, e \in DOMAIN tree \ {<<>>} :
         /\ tree[d].dir /\ tree[e].dir /\ Front(d) = Front(e)
         /\ <<Last(d), Last(e)>> \in StartsWith

(* A copy that ends well has sent the client what it asked for: the same   *)
(* files, each in its own directory, with its own times and size           *)
(* (RootEntry.Append: "Append the given entry to a child directory, or the *)
(* root entry itself if none matches").                                    *)
TreeSent == phase = "done" /\ changed = {} => Received = Expected

(* The same where it holds: for files whose directories are told apart, a  *)
(* root that is not relative, and not the whole of an fs.FS, whose entry   *)
(* "." is no prefix of the others.                                         *)
TreeSentApart ==
    /\ Distinguishable
    /\ handler = "dir" => root.abs
    /\ handler # "dir" => Asked # <<>>
    => TreeSent

(* A file is open until its copy is written, and none is left open however *)
(* the copy ends: a closer is registered before anything can fail.         *)
FilesClosed ==
    /\ Ended => open = {}
    /\ phase = "write" => \A i \in Range(pending) \ {0} : ~ entries[i].dir => i \in open
=============================================================================
