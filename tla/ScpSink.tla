------------------------------- MODULE ScpSink -------------------------------
(***************************************************************************)
(* A copy from the client, "scp -t": copyFromClient and handleNewFile      *)
(* (scp/copy_from_client.go) over a limitReader (scp/limit_reader.go),     *)
(* writing through fileSystemHandler (scp/filesystem.go).                  *)
(*                                                                         *)
(* The wire is the sequence of what the client sent and the server did not *)
(* read: header lines (T, C, D, E, and any line the server cannot parse),  *)
(* units of file data, and the NUL that ends a file.  Sizes count units.   *)
(* A client is either lockstep, as scp itself is (it waits for the NUL     *)
(* that answers each message), or free to send anything at any time, and   *)
(* either kind may hang up between any two units.  Files are the data they *)
(* hold and the times that were set on them; the operating system may fail *)
(* any call.                                                               *)
(***************************************************************************)
EXTENDS ScpPaths, Integers, FiniteSets

CONSTANTS Root,      \* h.root
          Target,    \* info.Path
          Names,     \* the names a client may send
          Sizes,     \* the sizes a client may announce
          Times,     \* the times a client may send, 0 among them
          Clients,   \* the kinds of client, of {"lockstep", "free"}
          MaxSends,  \* bound on what a client sends
          MaxInt64,  \* the largest size strconv.ParseInt takes
          MaxInt     \* the largest int, the type newLimitReader takes

ASSUME RootAssumption == Root \in Paths(STRING) /\ Root = Clean(Root)

ASSUME NamesAssumption == Target \in Paths(STRING) /\ Names \subseteq STRING

ASSUME SizeAssumption == Sizes \subseteq Nat /\ MaxInt64 \in Nat /\ MaxInt \in Nat

ASSUME ClientAssumption == Clients \subseteq {"lockstep", "free"} /\ MaxSends \in Nat

ASSUME TimesAssumption == Times \subseteq Nat /\ 0 \in Times

NoTimes == [m |-> 0, a |-> 0]

VARIABLES
    client,     \* the kind of client
    phase,      \* what a lockstep client does next
    unsent,     \* the units of the file it has left to send
    depth,      \* the directories it has entered
    want,       \* the times it sent for the next file or directory
    sends,      \* how much it sent
    conn,       \* "open", or how the client hung up: "eof" or "broken"
    wire,       \* sent and not read yet
    acks,       \* NULs written and not seen by the client yet
    pc,         \* where copyFromClient is
    path,       \* its path
    times,      \* its mtime and atime
    cur,        \* the file being written: location, size, what is left of it
    disk,       \* the files and directories, by location
    delivered   \* history: the size and times of the files that were acknowledged

clientVars == <<phase, unsent, depth, want, sends, conn>>
serverVars == <<pc, path, times, cur, disk, delivered>>
vars == <<client, clientVars, wire, acks, serverVars>>

-----------------------------------------------------------------------------
(* Messages.  "want" is what the client means the times of the new file or *)
(* directory to be; the server does not read it.                           *)

Time(t) == [t |-> "T", times |-> t]
File(n, s, w) == [t |-> "C", name |-> n, size |-> s, want |-> w]
Folder(n, w) == [t |-> "D", name |-> n, want |-> w]
EndFolder == [t |-> "E"]
Unit == [t |-> "data"]
Nul == [t |-> "nul"]
Junk == [t |-> "junk"]

Headers == {"T", "C", "D", "E", "junk"}

AllTimes == [m : Times, a : Times]

Msgs == {Time(t) : t \in AllTimes} \cup {File(n, s, w) : n \in Names, s \in Sizes, w \in AllTimes}
          \cup {Folder(n, w) : n \in Names, w \in AllTimes} \cup {EndFolder, Unit, Nul, Junk}

-----------------------------------------------------------------------------
(* The operating system: what os.OpenFile and os.Mkdir need.  What is      *)
(* outside the root is not modelled: anything may be a directory there.    *)

IsDir(l) == IF l \in DOMAIN disk THEN disk[l].kind = "dir" ELSE ~ Inside(Root, l)

ParentOf(l) == Path(l.abs, Front(l.names))

CanOpen(l) == /\ l # Root
              /\ IsDir(ParentOf(l))
              /\ l \in DOMAIN disk => disk[l].kind = "file"

CanMkdir(l) == l \notin DOMAIN disk /\ IsDir(ParentOf(l))

(* A new entry changes the modification time of the directory it is in. *)
Create(l, node) ==
    [x \in DOMAIN disk \cup {l} |->
        IF x = l THEN node
        ELSE IF x = ParentOf(l) /\ l \notin DOMAIN disk THEN [disk[x] EXCEPT !.times = NoTimes]
        ELSE disk[x]]

(* fileSystemHandler.chtimes: nothing is set when either time is 0. *)
Chtimes(t) == IF t.m = 0 \/ t.a = 0 THEN NoTimes ELSE t

-----------------------------------------------------------------------------
(* strconv.ParseInt and the conversion to int *)

Parses(size) == size <= MaxInt64

(* two's complement: int(size) keeps the low bits *)
ToInt(n) == ((n + MaxInt + 1) % (2 * (MaxInt + 1))) - (MaxInt + 1)

(* validateName *)
ValidName(n) == n \notin {Empty, ".", "..", "a/b"}

-----------------------------------------------------------------------------

(* The directories from the root down to the target exist. *)
Existing == LET to == Prefixed(Root, Target)
            IN  {Root} \cup (IF to.ok
                             THEN {Path(Root.abs, SubSeq(to.loc.names, 1, i)) :
                                     i \in Len(Root.names)..Len(to.loc.names)}
                             ELSE {})

NoFile == [loc |-> Root, size |-> 0, left |-> 0, want |-> NoTimes]

Init == /\ client \in Clients
        /\ phase = "hello"
        /\ unsent = 0 /\ depth = 0 /\ want = NoTimes /\ sends = 0
        /\ conn = "open"
        /\ wire = <<>>
        /\ acks = 0
        /\ pc = "accept"
        /\ path = Target
        /\ times = NoTimes
        /\ cur = NoFile
        /\ disk = [l \in Existing |-> [kind |-> "dir", data |-> <<>>, times |-> NoTimes]]
        /\ delivered = [l \in {} |-> NoFile]

-----------------------------------------------------------------------------
(* The client *)

Send(msg) == /\ conn = "open" /\ sends < MaxSends
             /\ pc \notin {"done", "failed"}
             /\ wire' = Append(wire, msg)
             /\ sends' = sends + 1
             /\ UNCHANGED <<client, conn, acks, serverVars>>

SendTime == /\ client = "lockstep" /\ phase = "ready" /\ want = NoTimes
            /\ \E t \in AllTimes : Send(Time(t)) /\ want' = t
            /\ phase' = "wait"
            /\ UNCHANGED <<unsent, depth>>

SendFile == /\ client = "lockstep" /\ phase = "ready"
            /\ \E n \in Names, s \in Sizes : Send(File(n, s, want)) /\ unsent' = s
            /\ phase' = "wait_data"
            /\ want' = NoTimes
            /\ UNCHANGED depth

SendFolder == /\ client = "lockstep" /\ phase = "ready"
              /\ \E n \in Names : Send(Folder(n, want))
              /\ phase' = "wait"
              /\ depth' = depth + 1
              /\ want' = NoTimes
              /\ UNCHANGED unsent

(* Mutant: more directories are left than were entered. *)
SendEndTooOften == /\ client = "lockstep" /\ phase = "ready" /\ want = NoTimes
                   /\ Send(EndFolder)
                   /\ phase' = "wait"
                   /\ depth' = depth - 1
                   /\ UNCHANGED <<unsent, want>>

SendEnd == /\ client = "lockstep" /\ phase = "ready" /\ want = NoTimes /\ depth > 0
           /\ Send(EndFolder)
           /\ phase' = "wait"
           /\ depth' = depth - 1
           /\ UNCHANGED <<unsent, want>>

SendUnit == /\ client = "lockstep" /\ phase = "data" /\ unsent > 0
            /\ Send(Unit)
            /\ unsent' = unsent - 1
            /\ UNCHANGED <<phase, depth, want>>

SendNul == /\ client = "lockstep" /\ phase = "data" /\ unsent = 0
           /\ Send(Nul)
           /\ phase' = "wait"
           /\ UNCHANGED <<unsent, depth, want>>

SeeAck == /\ client = "lockstep" /\ conn = "open" /\ acks > 0
          /\ phase \in {"hello", "wait", "wait_data"}
          /\ phase' = IF phase = "wait_data" THEN "data" ELSE "ready"
          /\ acks' = acks - 1
          /\ UNCHANGED <<client, unsent, depth, want, sends, conn, wire, serverVars>>

SendAnything ==
    /\ client = "free"
    /\ \/ \E t \in AllTimes : Send(Time(t))
       \/ \E n \in Names, s \in Sizes : Send(File(n, s, NoTimes))
       \/ \E n \in Names : Send(Folder(n, NoTimes))
       \/ \E msg \in {EndFolder, Unit, Nul, Junk} : Send(msg)
    /\ UNCHANGED <<phase, unsent, depth, want>>

HangUp == /\ conn = "open"
          /\ conn' \in {"eof", "broken"}
          /\ UNCHANGED <<client, phase, unsent, depth, want, sends, wire, acks, serverVars>>

ClientStep == SendTime \/ SendFile \/ SendFolder \/ SendEnd \/ SendUnit \/ SendNul
                \/ SeeAck \/ SendAnything \/ HangUp

-----------------------------------------------------------------------------
(* The server *)

(* s.Write(NULL): errors are ignored. *)
Ack == acks' = acks + 1

Fail == /\ pc' = "failed"
        /\ UNCHANGED <<path, times, cur, delivered>>

(* "accepts the request" *)
Accept == /\ pc = "accept"
          /\ pc' = "line"
          /\ Ack
          /\ UNCHANGED <<client, clientVars, wire, path, times, cur, disk, delivered>>

(* r.ReadString('\n') takes everything up to the end of the next line, so  *)
(* units in front of a header become part of a line nothing matches.       *)
HasLine == \E i \in DOMAIN wire : wire[i].t \in Headers

LineEnds(i) == wire[i].t \in Headers /\ \A j \in 1..(i - 1) : wire[j].t \notin Headers

Line(i) == IF i = 1 THEN wire[1] ELSE Junk

Reads(i, kind) == /\ pc = "line" /\ LineEnds(i) /\ Line(i).t = kind
                  /\ wire' = SubSeq(wire, i + 1, Len(wire))

(* Mutant: the times are taken without a word. *)
ReadTimeSilent(i) == /\ Reads(i, "T")
                     /\ times' = Line(i).times
                     /\ UNCHANGED <<client, clientVars, acks, pc, path, cur, disk, delivered>>

ReadTime(i) == /\ Reads(i, "T")
               /\ times' = Line(i).times
               /\ Ack
               /\ UNCHANGED <<client, clientVars, pc, path, cur, disk, delivered>>

Forget(l) == [x \in DOMAIN delivered \ {l} |-> delivered[x]]

(* handleNewFile up to and including os.OpenFile in Handler.Write: the     *)
(* header is accepted before the file is opened.                           *)
ReadFile(i) ==
    /\ Reads(i, "C") /\ Parses(Line(i).size) /\ ValidName(Line(i).name)
    /\ Ack
    /\ LET to == Prefixed(Root, JoinName(path, Line(i).name))
       IN  \/ disk' = disk /\ Fail
           \/ /\ to.ok /\ CanOpen(to.loc)
              /\ disk' = Create(to.loc, [kind |-> "file", data |-> <<>>, times |-> NoTimes])
              /\ cur' = [loc |-> to.loc, size |-> Line(i).size, left |-> ToInt(Line(i).size),
                         want |-> Line(i).want]
              /\ delivered' = Forget(to.loc)
              /\ pc' = "copy"
              /\ UNCHANGED <<path, times>>
    /\ UNCHANGED <<client, clientVars>>

(* parseError or "invalid filename", before anything is accepted *)
RejectFile(i) == /\ Reads(i, "C") /\ ~ (Parses(Line(i).size) /\ ValidName(Line(i).name))
                 /\ Fail
                 /\ UNCHANGED <<client, clientVars, acks, disk>>

(* What is left of the message a unit was read from: nothing of data and   *)
(* NULs, and of a header possibly the rest of its line.                    *)
Rest == IF wire[1].t \in Headers THEN {Tail(wire), <<Junk>> \o Tail(wire)} ELSE {Tail(wire)}

(* One limitReader.Read inside io.Copy, and the write of what it returned *)
LimitedRead == /\ pc = "copy" /\ cur.left > 0 /\ wire # <<>>
               /\ wire' \in Rest
               /\ disk' = [disk EXCEPT ![cur.loc].data = Append(@, wire[1].t)]
               /\ cur' = [cur EXCEPT !.left = @ - 1]
               /\ UNCHANGED <<client, clientVars, acks, pc, path, times, delivered>>

(* io.Copy ends: the limit is reached, or the client is gone and everything *)
(* it sent was read.  The file is closed, the times are set, and            *)
(* handleNewFile compares the sizes.                                        *)
Drained == pc = "copy" /\ (cur.left <= 0 \/ (wire = <<>> /\ conn = "eof"))

(* Mutant: what io.Copy wrote is not compared with the size. *)
CopyDoneUnchecked ==
    /\ Drained
    /\ disk' = [disk EXCEPT ![cur.loc].times = Chtimes(times)]
    /\ pc' = "trailer"
    /\ UNCHANGED <<client, clientVars, wire, acks, path, times, cur, delivered>>

CopyDone ==
    /\ Drained
    /\ disk' = [disk EXCEPT ![cur.loc].times = Chtimes(times)]
    /\ IF Len(disk[cur.loc].data) = cur.size
       THEN pc' = "trailer" /\ UNCHANGED <<path, times, cur, delivered>>
       ELSE Fail
    /\ UNCHANGED <<client, clientVars, wire, acks>>

(* Mutant: after a failed write the server waits for the next header. *)
CopyFailsOn == /\ pc = "copy"
               /\ wire # <<>> \/ Drained \/ conn = "broken"
               /\ pc' = "line"
               /\ UNCHANGED <<client, clientVars, wire, acks, path, times, cur, disk, delivered>>

(* The write, the close or chtimes fails, or the read on a connection that *)
(* is broken.                                                              *)
CopyFails == /\ pc = "copy"
             /\ wire # <<>> \/ Drained \/ conn = "broken"
             /\ Fail
             /\ UNCHANGED <<client, clientVars, wire, acks, disk>>

(* Mutant: an error reading the trailing NUL is not ignored but retried. *)
TrailerRetries == /\ pc = "trailer"
                  /\ wire # <<>> /\ wire' \in Rest
                  /\ Ack
                  /\ times' = NoTimes
                  /\ delivered' = [x \in DOMAIN delivered \cup {cur.loc} |->
                                     IF x = cur.loc THEN cur ELSE delivered[x]]
                  /\ pc' = "line"
                  /\ UNCHANGED <<client, clientVars, path, cur, disk>>

(* Mutant: the times of a file are kept for the next one. *)
TrailerKeepsTimes ==
    /\ pc = "trailer"
    /\ \/ wire # <<>> /\ wire' \in Rest
       \/ wire = <<>> /\ conn # "open" /\ wire' = wire
    /\ Ack
    /\ delivered' = [x \in DOMAIN delivered \cup {cur.loc} |->
                       IF x = cur.loc THEN cur ELSE delivered[x]]
    /\ pc' = "line"
    /\ UNCHANGED <<client, clientVars, times, path, cur, disk>>

(* The trailing NUL: whatever unit comes is read, and an error ignored. *)
Trailer == /\ pc = "trailer"
           /\ \/ wire # <<>> /\ wire' \in Rest
              \/ wire = <<>> /\ conn # "open" /\ wire' = wire
           /\ Ack
           /\ times' = NoTimes
           /\ delivered' = [x \in DOMAIN delivered \cup {cur.loc} |->
                              IF x = cur.loc THEN cur ELSE delivered[x]]
           /\ pc' = "line"
           /\ UNCHANGED <<client, clientVars, path, cur, disk>>

(* validateName and Handler.Mkdir; when chtimes fails, the directory stays. *)
ReadFolder(i) ==
    /\ Reads(i, "D")
    /\ LET into == JoinName(path, Line(i).name)
           to   == Prefixed(Root, into)
       IN  \/ acks' = acks /\ disk' = disk /\ Fail
           \/ /\ ValidName(Line(i).name) /\ to.ok /\ CanMkdir(to.loc)
              /\ disk' = Create(to.loc, [kind |-> "dir", data |-> <<>>, times |-> NoTimes])
              /\ acks' = acks
              /\ Fail
           \/ /\ ValidName(Line(i).name) /\ to.ok /\ CanMkdir(to.loc)
              /\ disk' = Create(to.loc, [kind |-> "dir", data |-> <<>>, times |-> Chtimes(times)])
              /\ path' = into
              /\ times' = NoTimes
              /\ Ack
              /\ UNCHANGED <<pc, cur, delivered>>
    /\ UNCHANGED <<client, clientVars>>

(* Mutant: the end of a directory is acknowledged twice. *)
ReadEndTwice(i) == /\ Reads(i, "E")
                   /\ path' = Dir(path)
                   /\ acks' = acks + 2
                   /\ UNCHANGED <<client, clientVars, pc, times, cur, disk, delivered>>

(* Mutant: the end of a directory leaves two of them. *)
ReadEndPopsTwo(i) == /\ Reads(i, "E")
                     /\ path' = Dir(Dir(path))
                     /\ Ack
                     /\ UNCHANGED <<client, clientVars, pc, times, cur, disk, delivered>>

ReadEnd(i) == /\ Reads(i, "E")
              /\ path' = Dir(path)
              /\ Ack
              /\ UNCHANGED <<client, clientVars, pc, times, cur, disk, delivered>>

(* "unhandled input", or a header whose mode does not parse *)
ReadJunk(i) == /\ Reads(i, "junk")
               /\ Fail
               /\ UNCHANGED <<client, clientVars, acks, disk>>

(* EOF where a line should start, an unfinished line included: success. *)
Finish == /\ pc = "line" /\ ~ HasLine /\ conn = "eof"
          /\ pc' = "done"
          /\ wire' = <<>>
          /\ Ack
          /\ UNCHANGED <<client, clientVars, path, times, cur, disk, delivered>>

(* "failed to read line" *)
LineFails == /\ pc = "line" /\ ~ HasLine /\ conn = "broken"
             /\ Fail
             /\ UNCHANGED <<client, clientVars, wire, acks, disk>>

ReadLine == \E i \in DOMAIN wire : \/ ReadTime(i) \/ ReadFile(i) \/ RejectFile(i)
                                     \/ ReadFolder(i) \/ ReadEnd(i) \/ ReadJunk(i)

ServerStep == Accept \/ ReadLine \/ LimitedRead \/ CopyDone \/ CopyFails \/ Trailer
                \/ Finish \/ LineFails

Next == ClientStep \/ ServerStep

(* The session's goroutine runs while it is not blocked in a read. *)
Spec == Init /\ [][Next]_vars /\ WF_vars(ServerStep)

-----------------------------------------------------------------------------
(* Properties *)

Node == [kind : {"file", "dir"}, data : Seq(Headers \cup {"data", "nul"}), times : AllTimes]

(* The values each variable takes. *)
TypeOK ==
    /\ client \in {"lockstep", "free"}
    /\ phase \in {"hello", "ready", "wait", "wait_data", "data"}
    /\ unsent \in Nat /\ depth \in Nat /\ sends \in Nat /\ acks \in Nat
    /\ want \in AllTimes
    /\ conn \in {"open", "eof", "broken"}
    /\ wire \in Seq(Msgs)
    /\ pc \in {"accept", "line", "copy", "trailer", "done", "failed"}
    /\ times \in AllTimes
    /\ cur.size \in Nat /\ cur.left \in Int
    /\ \A l \in DOMAIN disk : disk[l] \in Node

(* A file the server acknowledged is on the disk with the size the client  *)
(* announced, whatever the client sent, wherever it hung up and whichever  *)
(* calls failed, until a later file of the same name replaces it           *)
(* (handleNewFile: written, the limit reader, the trailing byte).          *)
AckedComplete == \A l \in DOMAIN delivered :
                    /\ l \in DOMAIN disk
                    /\ disk[l].kind = "file"
                    /\ Len(disk[l].data) = delivered[l].size

(* When the server waits for the next header or ends with success, no file *)
(* of this copy is half written: an incomplete one ends the copy.          *)
NothingHalfWritten == pc \in {"line", "done"} =>
                         \A l \in DOMAIN disk : disk[l].kind = "file" => l \in DOMAIN delivered

(* Nothing is created outside the root, whatever names, nesting and        *)
(* unbalanced E lines the client sends.                                    *)
Confined == \A l \in DOMAIN disk : Inside(Root, l)

(* A client that leaves only the directories it entered writes nothing     *)
(* outside the target of its command: path follows D and E exactly.        *)
BelowTarget == client = "lockstep" =>
                  \A l \in DOMAIN disk :
                      l \in Existing \/ Inside(Prefixed(Root, Target).loc, l)

(* The server never takes file data for a header, nor a header for data,   *)
(* from a client that follows the protocol: after a file it is at the next *)
(* header.                                                                 *)
InSync == client = "lockstep" =>
             /\ pc = "line" /\ wire # <<>> => wire[1].t \in Headers
             /\ pc = "copy" /\ wire # <<>> /\ cur.left > 0 => wire[1].t = "data"
             /\ pc = "trailer" /\ wire # <<>> => wire[1].t = "nul"

(* A NUL on its way to a client is the answer to what that client waits    *)
(* for: there is never a second one, or one it did not ask for.            *)
OneAnswer == client = "lockstep" /\ conn = "open" /\ acks > 0 =>
                acks = 1 /\ phase \in {"hello", "wait", "wait_data"}

(* A delivered file has the times its client sent with it, and never those *)
(* it sent for another file (mtime and atime are variables of the loop).   *)
TimesOfItsOwn == client = "lockstep" =>
                    \A l \in DOMAIN delivered : disk[l].times = Chtimes(delivered[l].want)

Ended == pc \in {"done", "failed"}

Waiting == client = "lockstep" /\ conn = "open" /\ acks = 0
             /\ phase \in {"hello", "wait", "wait_data"}

(* Client and server never wait for each other: a client that waits gets   *)
(* its NUL or the end of the session.                                      *)
Answered == Waiting ~> (~ Waiting \/ Ended)

(* A client that hangs up, wherever it does, does not leave the session's  *)
(* goroutine behind.                                                       *)
SessionEnds == (conn # "open") ~> Ended
=============================================================================
