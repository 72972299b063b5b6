---------------------------- MODULE ScpSinkProofs ----------------------------
(***************************************************************************)
(* What a copy from the client guarantees for every client, every target,  *)
(* every set of names and sizes and every width of int.                    *)
(*                                                                         *)
(* AckedComplete is not inductive: that acknowledging a file is right      *)
(* depends on what is on the disk when the trailing byte is read, and      *)
(* NothingHalfWritten on which file is open before that.  Writing says     *)
(* what the one open file is while it is written.                          *)
(*                                                                         *)
(* For a client that follows the protocol, InSync, OneAnswer and           *)
(* TimesOfItsOwn need the whole of the exchange: Lockstep says, for what   *)
(* each end is doing, what is on the wire, who owes whom an answer, how    *)
(* many units of the file are still to come and whose times are whose.     *)
(*                                                                         *)
(* Where files are made rests on the path arithmetic (ScpPathsProofs).     *)
(* Confined needs no more than that path is a path.  BelowTarget needs     *)
(* that path is the target with one name for each directory the client has *)
(* entered (Follows), which only the lockstep of the two ends gives.       *)
(***************************************************************************)
EXTENDS ScpSink, ScpPathsProofs

Open == pc \in {"copy", "trailer"}

Writing ==
    /\ Open => /\ cur.loc \in DOMAIN disk
               /\ disk[cur.loc].kind = "file"
               /\ cur.loc \notin DOMAIN delivered
    /\ pc = "trailer" => Len(disk[cur.loc].data) = cur.size
    /\ pc # "failed" => \A l \in DOMAIN disk : disk[l].kind = "file" =>
                            l \in DOMAIN delivered \/ (Open /\ l = cur.loc)

SinkInv == TypeOK /\ AckedComplete /\ Writing

Kinds == Headers \cup {"data", "nul"}

-----------------------------------------------------------------------------
(* What a message carries, by its kind. *)
LEMMA MsgShape ==
  ASSUME NEW m \in Msgs
  PROVE  /\ m.t \in Kinds
         /\ m.t = "T" => m.times \in AllTimes
         /\ m.t = "C" => m.size \in Nat
  BY SizeAssumption DEF Msgs, Time, File, Folder, EndFolder, Unit, Nul, Junk, Kinds, Headers

(* No times at all are times a client may send. *)
LEMMA NoTimesType == NoTimes \in AllTimes
  BY TimesAssumption DEF NoTimes, AllTimes

(* The messages a client sends. *)
LEMMA MsgType ==
  /\ \A t \in AllTimes : Time(t) \in Msgs
  /\ \A n \in Names, s \in Sizes, w \in AllTimes : File(n, s, w) \in Msgs
  /\ \A n \in Names, w \in AllTimes : Folder(n, w) \in Msgs
  /\ EndFolder \in Msgs /\ Unit \in Msgs /\ Nul \in Msgs /\ Junk \in Msgs
  BY DEF Msgs

(* chtimes sets the times it is given, or none. *)
LEMMA ChtimesType == ASSUME NEW t \in AllTimes PROVE Chtimes(t) \in AllTimes
  BY NoTimesType DEF Chtimes

(* The limit of a size is some int, whatever the width of int is. *)
LEMMA ToIntType == ASSUME NEW n \in Nat PROVE ToInt(n) \in Int
  <1>1. 2 * (MaxInt + 1) \in Nat \ {0} /\ n + MaxInt + 1 \in Nat
    BY SizeAssumption
  <1>2. (n + MaxInt + 1) % (2 * (MaxInt + 1)) \in Int
    BY <1>1
  <1> QED BY <1>2, SizeAssumption DEF ToInt

(* Reading up to the end of a line, or one unit, leaves messages. *)
LEMMA WireType ==
  ASSUME TypeOK
  PROVE  /\ \A i \in DOMAIN wire : SubSeq(wire, i + 1, Len(wire)) \in Seq(Msgs)
         /\ \A i \in DOMAIN wire : Line(i) \in Msgs
         /\ wire # <<>> => Rest \subseteq Seq(Msgs)
         /\ wire # <<>> => wire[1] \in Msgs
  <1> USE DEF TypeOK
  <1>1. \A i \in DOMAIN wire : SubSeq(wire, i + 1, Len(wire)) \in Seq(Msgs)
    OBVIOUS
  <1>2. wire # <<>> => wire[1] \in Msgs /\ Tail(wire) \in Seq(Msgs)
    OBVIOUS
  <1>3. wire # <<>> => <<Junk>> \o Tail(wire) \in Seq(Msgs)
    BY <1>2, MsgType
  <1>4. wire # <<>> => Rest \subseteq Seq(Msgs)
    BY <1>2, <1>3 DEF Rest
  <1>5. \A i \in DOMAIN wire : Line(i) \in Msgs
    BY MsgType DEF Line
  <1> QED BY <1>1, <1>2, <1>4, <1>5

(* A new entry leaves every other one as it was, but for the times of the  *)
(* directory it is in.                                                      *)
Created(old, new, l, node) ==
    /\ DOMAIN new = DOMAIN old \cup {l}
    /\ new[l] = node
    /\ \A x \in DOMAIN new : new[x] \in Node
    /\ \A x \in DOMAIN old : x # l => new[x].kind = old[x].kind /\ new[x].data = old[x].data

(* os.OpenFile changes one entry, and leaves it a file. *)
LEMMA CreateFacts ==
  ASSUME TypeOK, NEW l, NEW node \in Node
  PROVE  Created(disk, Create(l, node), l, node)
  <1>1. \A x \in DOMAIN disk : disk[x] \in Node
    BY DEF TypeOK
  <1>2. \A x \in DOMAIN disk : LET e == [disk[x] EXCEPT !.times = NoTimes]
                               IN  e \in Node /\ e.kind = disk[x].kind /\ e.data = disk[x].data
    BY <1>1, NoTimesType DEF Node
  <1> QED BY <1>1, <1>2 DEF Create, Created

-----------------------------------------------------------------------------
(* The client only adds to the wire: nothing it does touches the server.   *)
LEMMA ClientKeeps ==
  ASSUME SinkInv, ClientStep
  PROVE  SinkInv'
  <1>0. TypeOK /\ AckedComplete /\ Writing
    BY DEF SinkInv
  <1>1. UNCHANGED serverVars
    BY DEF ClientStep, SendTime, SendFile, SendFolder, SendEnd, SendUnit, SendNul, SeeAck,
           SendAnything, HangUp, Send
  <1>2. AckedComplete' /\ Writing'
    BY <1>0, <1>1 DEF AckedComplete, Writing, Open, serverVars
  <1>3. ASSUME NEW m \in Msgs, Send(m)
        PROVE  /\ wire' \in Seq(Msgs) /\ sends' \in Nat
               /\ UNCHANGED <<client, conn, acks, serverVars>>
    BY <1>0, <1>3 DEF Send, TypeOK
  <1>4. TypeOK'
    <2> USE <1>0, <1>3, MsgType, NoTimesType
    <2>1. CASE SendTime
      BY <2>1 DEF SendTime, TypeOK, serverVars
    <2>2. CASE SendFile
      BY <2>2, SizeAssumption DEF SendFile, TypeOK, serverVars
    <2>3. CASE SendFolder
      BY <2>3 DEF SendFolder, TypeOK, serverVars
    <2>4. CASE SendEnd
      BY <2>4 DEF SendEnd, TypeOK, serverVars
    <2>5. CASE SendUnit
      BY <2>5 DEF SendUnit, TypeOK, serverVars
    <2>6. CASE SendNul
      BY <2>6 DEF SendNul, TypeOK, serverVars
    <2>7. CASE SeeAck
      BY <2>7 DEF SeeAck, TypeOK, serverVars
    <2>8. CASE SendAnything
      BY <2>8 DEF SendAnything, TypeOK, serverVars
    <2>9. CASE HangUp
      BY <2>9 DEF HangUp, TypeOK, serverVars
    <2> QED BY <2>1, <2>2, <2>3, <2>4, <2>5, <2>6, <2>7, <2>8, <2>9 DEF ClientStep
  <1> QED BY <1>2, <1>4 DEF SinkInv

(* The steps that read no line. *)
LEMMA TransferKeeps ==
  ASSUME SinkInv,
         Accept \/ LimitedRead \/ CopyDone \/ CopyFails \/ Trailer \/ Finish \/ LineFails
  PROVE  SinkInv'
  <1>0. TypeOK /\ AckedComplete /\ Writing
    BY DEF SinkInv
  <1>1. CASE Accept
    BY <1>0, <1>1 DEF Accept, Ack, SinkInv, TypeOK, AckedComplete, Writing, Open, clientVars
  <1>2. CASE CopyFails \/ LineFails
    BY <1>0, <1>2 DEF CopyFails, LineFails, Fail, SinkInv, TypeOK, AckedComplete, Writing, Open,
                      clientVars
  <1>3. CASE Finish
    BY <1>0, <1>3 DEF Finish, Ack, SinkInv, TypeOK, AckedComplete, Writing, Open, clientVars
  <1>4. CASE LimitedRead
    <2>1. wire[1] \in Msgs /\ wire' \in Seq(Msgs) /\ wire[1].t \in Kinds
      BY <1>0, <1>4, WireType, MsgShape DEF LimitedRead
    <2>2. /\ cur.loc \in DOMAIN disk /\ disk[cur.loc] \in Node
          /\ disk[cur.loc].kind = "file" /\ cur.loc \notin DOMAIN delivered
      BY <1>0, <1>4 DEF LimitedRead, Writing, Open, TypeOK
    <2>3. [disk[cur.loc] EXCEPT !.data = Append(@, wire[1].t)] \in Node
      <3>1. disk[cur.loc].data \in Seq(Kinds)
        BY <2>2 DEF Node, Kinds
      <3>2. Append(disk[cur.loc].data, wire[1].t) \in Seq(Kinds)
        BY <3>1, <2>1
      <3> QED BY <2>2, <3>2 DEF Node, Kinds
    <2>4. /\ DOMAIN disk' = DOMAIN disk
          /\ disk'[cur.loc] = [disk[cur.loc] EXCEPT !.data = Append(@, wire[1].t)]
          /\ \A l \in DOMAIN disk : l # cur.loc => disk'[l] = disk[l]
      BY <1>4, <2>2 DEF LimitedRead
    <2>5. disk'[cur.loc].kind = "file"
      BY <2>2, <2>4 DEF Node
    <2>6. cur'.loc = cur.loc /\ cur'.size = cur.size /\ cur'.left \in Int
      BY <1>0, <1>4 DEF LimitedRead, TypeOK
    <2>7. TypeOK'
      BY <1>0, <1>4, <2>1, <2>3, <2>4, <2>6 DEF LimitedRead, TypeOK, clientVars
    <2>8. AckedComplete'
      BY <1>0, <1>4, <2>2, <2>4 DEF LimitedRead, AckedComplete
    <2>9. Writing'
      BY <1>0, <1>4, <2>2, <2>4, <2>5, <2>6 DEF LimitedRead, Writing, Open
    <2> QED BY <2>7, <2>8, <2>9 DEF SinkInv
  <1>5. CASE CopyDone
    <2>1. /\ cur.loc \in DOMAIN disk /\ disk[cur.loc] \in Node
          /\ disk[cur.loc].kind = "file" /\ cur.loc \notin DOMAIN delivered
      BY <1>0, <1>5 DEF CopyDone, Drained, Writing, Open, TypeOK
    <2>2. Chtimes(times) \in AllTimes
      BY <1>0, ChtimesType DEF TypeOK
    <2>3. /\ DOMAIN disk' = DOMAIN disk
          /\ disk'[cur.loc] = [disk[cur.loc] EXCEPT !.times = Chtimes(times)]
          /\ \A l \in DOMAIN disk : l # cur.loc => disk'[l] = disk[l]
      BY <1>5, <2>1 DEF CopyDone
    <2>4. /\ disk'[cur.loc] \in Node /\ disk'[cur.loc].kind = "file"
          /\ disk'[cur.loc].data = disk[cur.loc].data
      BY <2>1, <2>2, <2>3 DEF Node
    <2>5. /\ pc' \in {"trailer", "failed"} /\ pc = "copy"
          /\ pc' = "trailer" => Len(disk[cur.loc].data) = cur.size
          /\ UNCHANGED <<client, clientVars, wire, acks, path, times, cur, delivered>>
      BY <1>5 DEF CopyDone, Drained, Fail
    <2>6. TypeOK'
      BY <1>0, <2>3, <2>4, <2>5 DEF TypeOK, clientVars
    <2>7. AckedComplete'
      BY <1>0, <2>1, <2>3, <2>5 DEF AckedComplete
    <2>8. Writing'
      BY <1>0, <2>1, <2>3, <2>4, <2>5 DEF Writing, Open
    <2> QED BY <2>6, <2>7, <2>8 DEF SinkInv
  <1>6. CASE Trailer
    <2>1. /\ cur.loc \in DOMAIN disk /\ disk[cur.loc].kind = "file"
          /\ Len(disk[cur.loc].data) = cur.size
      BY <1>0, <1>6 DEF Trailer, Writing, Open
    <2>2. wire' \in Seq(Msgs)
      BY <1>0, <1>6, WireType DEF Trailer, TypeOK
    <2>3. /\ DOMAIN delivered' = DOMAIN delivered \cup {cur.loc}
          /\ delivered'[cur.loc] = cur
          /\ \A l \in DOMAIN delivered : l # cur.loc => delivered'[l] = delivered[l]
      BY <1>6 DEF Trailer
    <2>4. TypeOK'
      BY <1>0, <1>6, <2>2, NoTimesType DEF Trailer, Ack, TypeOK, clientVars
    <2>5. AckedComplete'
      BY <1>0, <1>6, <2>1, <2>3 DEF Trailer, AckedComplete
    <2>6. Writing'
      BY <1>0, <1>6, <2>3 DEF Trailer, Writing, Open
    <2> QED BY <2>4, <2>5, <2>6 DEF SinkInv
  <1> QED BY <1>1, <1>2, <1>3, <1>4, <1>5, <1>6

(* The steps that read a line. *)
LEMMA LineKeeps ==
  ASSUME SinkInv, ReadLine
  PROVE  SinkInv'
  <1>0. TypeOK /\ AckedComplete /\ Writing
    BY DEF SinkInv
  <1>1. PICK i \in DOMAIN wire : \/ ReadTime(i) \/ ReadFile(i) \/ RejectFile(i)
                                 \/ ReadFolder(i) \/ ReadEnd(i) \/ ReadJunk(i)
    BY DEF ReadLine
  <1>2. pc = "line" /\ wire' \in Seq(Msgs) /\ Line(i) \in Msgs
    BY <1>0, <1>1, WireType DEF ReadTime, ReadFile, RejectFile, ReadFolder, ReadEnd, ReadJunk, Reads
  <1>3. ASSUME UNCHANGED <<client, clientVars, disk, delivered, cur>>,
               times' \in AllTimes, acks' \in Nat, pc' \in {"line", "failed"}
        PROVE  SinkInv'
    BY <1>0, <1>2, <1>3 DEF SinkInv, TypeOK, AckedComplete, Writing, Open, clientVars
  <1>4. CASE ReadTime(i)
    <2>1. Line(i).times \in AllTimes
      BY <1>2, <1>4, MsgShape DEF ReadTime, Reads
    <2> QED BY <1>0, <1>2, <1>3, <1>4, <2>1 DEF ReadTime, Ack, TypeOK
  <1>5. CASE RejectFile(i) \/ ReadJunk(i) \/ ReadEnd(i)
    BY <1>0, <1>2, <1>3, <1>5 DEF RejectFile, ReadJunk, ReadEnd, Ack, Fail, TypeOK
  <1>6. CASE ReadFile(i)
    <2> DEFINE to == Prefixed(Root, JoinName(path, Line(i).name))
               node == [kind |-> "file", data |-> <<>>, times |-> NoTimes]
    <2>1. Line(i).size \in Nat
      BY <1>2, <1>6, MsgShape DEF ReadFile, Reads
    <2>2. acks' \in Nat /\ UNCHANGED <<client, clientVars>>
      BY <1>0, <1>6 DEF ReadFile, Ack, TypeOK
    <2>3. CASE disk' = disk /\ Fail
      BY <1>0, <1>3, <2>2, <2>3 DEF Fail, TypeOK
    <2>4. CASE /\ disk' = Create(to.loc, node)
               /\ cur' = [loc |-> to.loc, size |-> Line(i).size, left |-> ToInt(Line(i).size),
                          want |-> Line(i).want]
               /\ delivered' = Forget(to.loc)
               /\ pc' = "copy"
               /\ UNCHANGED <<path, times>>
      <3>1. node \in Node /\ node.kind = "file"
        BY NoTimesType DEF Node
      <3> HIDE DEF to, node
      <3>2. /\ DOMAIN disk' = DOMAIN disk \cup {to.loc}
            /\ disk'[to.loc] = node
            /\ \A x \in DOMAIN disk' : disk'[x] \in Node
            /\ \A x \in DOMAIN disk : x # to.loc =>
                  disk'[x].kind = disk[x].kind /\ disk'[x].data = disk[x].data
        <4>1. Created(disk, disk', to.loc, node)
          BY <1>0, <2>4, <3>1, CreateFacts
        <4> QED BY <4>1 DEF Created
      <3>3. /\ DOMAIN delivered' = DOMAIN delivered \ {to.loc}
            /\ \A x \in DOMAIN delivered' : delivered'[x] = delivered[x]
        BY <2>4 DEF Forget
      <3>4. cur'.loc = to.loc /\ cur'.size \in Nat /\ cur'.left \in Int
        BY <2>1, <2>4, ToIntType
      <3>5. TypeOK'
        BY <1>0, <1>2, <2>2, <2>4, <3>2, <3>4 DEF TypeOK, clientVars
      <3>6. AckedComplete'
        BY <1>0, <3>2, <3>3 DEF AckedComplete
      <3>7. Writing'
        BY <1>0, <1>2, <2>4, <3>1, <3>2, <3>3, <3>4 DEF Writing, Open
      <3> QED BY <3>5, <3>6, <3>7 DEF SinkInv
    <2> QED BY <1>6, <2>3, <2>4 DEF ReadFile
  <1>7. CASE ReadFolder(i)
    <2> DEFINE to == Prefixed(Root, JoinName(path, Line(i).name))
               node == [kind |-> "dir", data |-> <<>>, times |-> Chtimes(times)]
    <2>1. UNCHANGED <<client, clientVars>>
      BY <1>7 DEF ReadFolder
    <2>2. CASE acks' = acks /\ disk' = disk /\ Fail
      BY <1>0, <1>3, <2>1, <2>2 DEF Fail, TypeOK
    <2>3. CASE \E n \in {node, [node EXCEPT !.times = NoTimes]} :
                  /\ CanMkdir(to.loc)
                  /\ disk' = Create(to.loc, n)
                  /\ times' \in AllTimes /\ acks' \in Nat /\ pc' \in {"line", "failed"}
                  /\ UNCHANGED <<cur, delivered>>
      <3>0. PICK n \in {node, [node EXCEPT !.times = NoTimes]} :
                  /\ CanMkdir(to.loc)
                  /\ disk' = Create(to.loc, n)
                  /\ times' \in AllTimes /\ acks' \in Nat /\ pc' \in {"line", "failed"}
                  /\ UNCHANGED <<cur, delivered>>
        BY <2>3
      <3>1. n \in Node /\ n.kind = "dir"
        <4>1. <<>> \in Seq(Headers \cup {"data", "nul"})
          OBVIOUS
        <4>2. Chtimes(times) \in AllTimes /\ NoTimes \in AllTimes
          BY <1>0, ChtimesType, NoTimesType DEF TypeOK
        <4>3. CASE n = node
          BY <4>1, <4>2, <4>3 DEF Node
        <4>4. CASE n = [node EXCEPT !.times = NoTimes]
          <5>1. n = [kind |-> "dir", data |-> <<>>, times |-> NoTimes]
            BY <4>4
          <5> QED BY <4>1, <4>2, <5>1 DEF Node
        <4> QED BY <3>0, <4>3, <4>4
      <3> HIDE DEF to, node
      <3>2. /\ DOMAIN disk' = DOMAIN disk \cup {to.loc}
            /\ disk'[to.loc] = n
            /\ \A x \in DOMAIN disk' : disk'[x] \in Node
            /\ \A x \in DOMAIN disk : x # to.loc =>
                  disk'[x].kind = disk[x].kind /\ disk'[x].data = disk[x].data
        <4>1. Created(disk, disk', to.loc, n)
          BY <1>0, <3>0, <3>1, CreateFacts
        <4> QED BY <4>1 DEF Created
      <3>3. to.loc \notin DOMAIN disk
        BY <3>0 DEF CanMkdir
      <3>4. TypeOK'
        BY <1>0, <1>2, <2>1, <3>0, <3>2 DEF TypeOK, clientVars
      <3>5. AckedComplete'
        BY <1>0, <3>0, <3>2, <3>3 DEF AckedComplete
      <3>6. Writing'
        BY <1>0, <1>2, <3>0, <3>1, <3>2, <3>3 DEF Writing, Open
      <3> QED BY <3>4, <3>5, <3>6 DEF SinkInv
    <2>4. ASSUME CanMkdir(to.loc), acks' = acks, Fail,
                 disk' = Create(to.loc, [kind |-> "dir", data |-> <<>>, times |-> NoTimes])
          PROVE  SinkInv'
      <3>1. [kind |-> "dir", data |-> <<>>, times |-> NoTimes] = [node EXCEPT !.times = NoTimes]
        OBVIOUS
      <3> QED BY <1>0, <2>3, <2>4, <3>1 DEF Fail, TypeOK
    <2>5. ASSUME CanMkdir(to.loc), disk' = Create(to.loc, node), times' = NoTimes, Ack,
                 UNCHANGED <<pc, cur, delivered>>
          PROVE  SinkInv'
      BY <1>0, <1>2, <2>3, <2>5, NoTimesType DEF Ack, TypeOK
    <2> QED BY <1>7, <2>2, <2>4, <2>5 DEF ReadFolder
  <1> QED BY <1>1, <1>4, <1>5, <1>6, <1>7

-----------------------------------------------------------------------------
(* The invariant holds in every behaviour. *)
THEOREM SinkInvariant == Spec => []SinkInv
  <1>1. Init => SinkInv
    <2> SUFFICES ASSUME Init PROVE SinkInv
      OBVIOUS
    <2>1. \A l \in DOMAIN disk : disk[l] \in Node /\ disk[l].kind = "dir"
      BY NoTimesType DEF Init, Node
    <2>2. TypeOK
      BY <2>1, NoTimesType, ClientAssumption DEF Init, TypeOK, NoFile
    <2>3. AckedComplete /\ Writing
      BY <2>1 DEF Init, AckedComplete, Writing, Open
    <2> QED BY <2>2, <2>3 DEF SinkInv
  <1>2. SinkInv /\ [Next]_vars => SinkInv'
    <2> SUFFICES ASSUME SinkInv, [Next]_vars PROVE SinkInv'
      OBVIOUS
    <2>1. CASE UNCHANGED vars
      BY <2>1 DEF SinkInv, TypeOK, AckedComplete, Writing, Open, vars, clientVars, serverVars
    <2> QED BY <2>1, ClientKeeps, TransferKeeps, LineKeeps DEF Next, ServerStep
  <1> QED BY <1>1, <1>2, PTL DEF Spec

(* Type correctness of the copy. *)
THEOREM SinkTypeCorrect == Spec => []TypeOK
  BY SinkInvariant, PTL DEF SinkInv

(* Whatever a client sends, wherever it hangs up and whichever system      *)
(* calls fail: a file that handleNewFile acknowledged has the announced    *)
(* size on the disk.                                                       *)
THEOREM AckedFilesComplete == Spec => []AckedComplete
  BY SinkInvariant, PTL DEF SinkInv

(* And a copy that goes on, or ends with success, left no file half        *)
(* written.                                                                *)
THEOREM NoPartialFiles == Spec => []NothingHalfWritten
  <1>1. SinkInv => NothingHalfWritten
    BY DEF SinkInv, Writing, Open, NothingHalfWritten
  <1> QED BY <1>1, SinkInvariant, PTL

-----------------------------------------------------------------------------
(* A client in lockstep.  What each end is doing determines what is on the *)
(* wire, who owes whom an answer and whose times are whose.                *)

Hello == pc = "accept" => wire = <<>> /\ acks = 0 /\ phase = "hello" /\ times = want

(* The server waits for a header: there is none, and the client has its    *)
(* answer or is about to get it, or there is one and nothing behind it.    *)
NoHeader == /\ wire = <<>>
            /\ conn = "open" => /\ \/ acks = 1 /\ phase \in {"hello", "wait"}
                                   \/ acks = 0 /\ phase = "ready"
                                /\ times = want

OneHeader == /\ Len(wire) = 1 /\ wire[1].t \in {"T", "C", "D", "E"}
             /\ conn = "open" => acks = 0
             /\ phase = IF wire[1].t = "C" THEN "wait_data" ELSE "wait"
             /\ wire[1].t = "C" => unsent = wire[1].size
             /\ wire[1].t = "T" => wire[1].times = want /\ times = NoTimes
             /\ wire[1].t \in {"C", "D"} => wire[1].want = times /\ want = NoTimes
             /\ wire[1].t = "E" => want = NoTimes /\ times = NoTimes

AtLine == pc = "line" => NoHeader \/ OneHeader

(* The units of the file on the wire: the client's last message for it is  *)
(* the NUL.                                                                *)
Units == IF phase = "wait" THEN Len(wire) - 1 ELSE Len(wire)

(* A file is transferred: what was written, what is on the wire and what   *)
(* the client has left add up to the size it announced.                    *)
InFile ==
    Open => /\ phase \in {"wait_data", "data", "wait"}
            /\ conn = "open" => acks = IF phase = "wait_data" THEN 1 ELSE 0
            /\ phase = "wait_data" => wire = <<>>
            /\ phase = "wait" => wire # <<>> /\ unsent = 0
            /\ \A i \in DOMAIN wire :
                  wire[i].t = IF phase = "wait" /\ i = Len(wire) THEN "nul" ELSE "data"
            /\ Len(disk[cur.loc].data) + Units + unsent = cur.size
            /\ pc = "copy" => Len(disk[cur.loc].data) + cur.left <= cur.size
            /\ times = cur.want /\ want = NoTimes
            /\ pc = "trailer" => disk[cur.loc].times = Chtimes(times)

Lockstep == client = "lockstep" => Hello /\ AtLine /\ InFile

LockInv == SinkInv /\ Lockstep /\ OneAnswer /\ TimesOfItsOwn

(* The limit never exceeds the announced size, whatever is cut off it. *)
LEMMA ToIntBelow == ASSUME NEW n \in Nat PROVE ToInt(n) <= n
  <1> DEFINE x == n + MaxInt + 1
             k == 2 * (MaxInt + 1)
  <1>1. x \in Nat /\ k \in Nat \ {0} /\ MaxInt \in Nat
    BY SizeAssumption
  <1>2. ToInt(n) = (x % k) - (MaxInt + 1)
    BY DEF ToInt
  <1> HIDE DEF k
  <1>3. x % k <= x
    <2> HIDE DEF x
    <2>1. x = k * (x \div k) + (x % k) /\ x % k \in 0..(k - 1) /\ x \div k \in Int
      BY <1>1
    <2>2. x \div k >= 0
      BY <1>1
    <2>3. k * (x \div k) >= 0
      BY <1>1, <2>1, <2>2
    <2> QED BY <1>1, <2>1, <2>3
  <1>4. x % k \in Int
    BY <1>1
  <1> QED BY <1>1, <1>2, <1>3, <1>4

(* From a client in lockstep, the server is in step with what it reads. *)
LEMMA LockInSync ==
  ASSUME LockInv
  PROVE  InSync
  <1> SUFFICES ASSUME client = "lockstep" PROVE InSync
    BY DEF InSync
  <1>0. TypeOK /\ Writing /\ AtLine /\ InFile
    BY DEF LockInv, SinkInv, Lockstep
  <1>1. pc = "line" /\ wire # <<>> => wire[1].t \in Headers
    BY <1>0 DEF AtLine, NoHeader, OneHeader, Headers
  <1>2. ASSUME Open, wire # <<>>
        PROVE  /\ pc = "copy" /\ cur.left > 0 => wire[1].t = "data"
               /\ pc = "trailer" => wire[1].t = "nul"
    <2> DEFINE d == Len(disk[cur.loc].data)
               n == Len(wire)
    <2>1. disk[cur.loc].data \in Seq(Kinds)
      BY <1>0, <1>2 DEF Writing, TypeOK, Node, Kinds
    <2>2. /\ 1 \in DOMAIN wire /\ n \in Nat \ {0} /\ d \in Nat
          /\ cur.size \in Nat /\ unsent \in Nat /\ cur.left \in Int
      BY <1>0, <1>2, <2>1 DEF TypeOK
    <2>3. /\ wire[1].t = IF phase = "wait" /\ 1 = n THEN "nul" ELSE "data"
          /\ d + Units + unsent = cur.size
          /\ pc = "copy" => d + cur.left <= cur.size
          /\ pc = "trailer" => d = cur.size
          /\ phase = "wait" => unsent = 0
          /\ Units = IF phase = "wait" THEN n - 1 ELSE n
      BY <1>0, <1>2, <2>2 DEF InFile, Writing, Units
    <2> HIDE DEF d, n
    <2>4. CASE phase = "wait"
      BY <2>2, <2>3, <2>4
    <2>5. CASE phase # "wait"
      BY <2>2, <2>3, <2>5
    <2> QED BY <2>4, <2>5
  <1> QED BY <1>1, <1>2 DEF InSync, Open

(* The client's steps. *)
LEMMA ClientLockstep ==
  ASSUME LockInv, ClientStep
  PROVE  Lockstep' /\ OneAnswer' /\ TimesOfItsOwn'
  <1>0. TypeOK /\ Writing /\ Lockstep /\ OneAnswer /\ TimesOfItsOwn
    BY DEF LockInv, SinkInv
  <1>1. UNCHANGED <<serverVars, client>>
    BY DEF ClientStep, SendTime, SendFile, SendFolder, SendEnd, SendUnit, SendNul, SeeAck,
           SendAnything, HangUp, Send
  <1>2. TimesOfItsOwn'
    BY <1>0, <1>1 DEF TimesOfItsOwn, serverVars
  <1> SUFFICES ASSUME client = "lockstep" PROVE Lockstep' /\ OneAnswer'
    BY <1>1, <1>2 DEF Lockstep, OneAnswer
  <1>3. Hello /\ AtLine /\ InFile
    BY <1>0 DEF Lockstep
  <1>4. wire \in Seq(Msgs) /\ unsent \in Nat /\ acks \in Nat /\ cur.size \in Nat
        /\ (Open => Len(disk[cur.loc].data) \in Nat)
    <2>1. Open => disk[cur.loc].data \in Seq(Kinds)
      BY <1>0 DEF Writing, TypeOK, Node, Kinds
    <2> QED BY <1>0, <2>1 DEF TypeOK
  <1>5. ASSUME NEW m, Send(m)
        PROVE  /\ conn = "open" /\ conn' = conn /\ acks' = acks
               /\ pc \in {"accept", "line", "copy", "trailer"}
               /\ wire' = Append(wire, m)
               /\ wire = <<>> => wire' = <<m>>
    <2>1. wire = <<>> => Append(wire, m) = <<m>>
      OBVIOUS
    <2> QED BY <1>0, <1>5, <2>1 DEF Send, TypeOK
  <1>6. ASSUME phase = "ready", conn = "open", pc \in {"accept", "line", "copy", "trailer"}
        PROVE  pc = "line" /\ wire = <<>> /\ acks = 0 /\ times = want
    BY <1>3, <1>6 DEF Hello, AtLine, NoHeader, OneHeader, InFile, Open
  <1>7. CASE SendTime
    <2>1. PICK t \in AllTimes : Send(Time(t)) /\ want' = t
      BY <1>7 DEF SendTime
    <2>2. pc = "line" /\ wire' = <<Time(t)>> /\ acks' = 0 /\ times = NoTimes
          /\ phase' = "wait"
      BY <1>5, <1>6, <1>7, <2>1 DEF SendTime
    <2> QED BY <1>1, <2>1, <2>2 DEF Lockstep, Hello, AtLine, OneHeader, InFile, Open, OneAnswer,
                                   Time, serverVars
  <1>8. CASE SendFile
    <2>1. PICK n \in Names, s \in Sizes : Send(File(n, s, want)) /\ unsent' = s
      BY <1>8 DEF SendFile
    <2>2. pc = "line" /\ wire' = <<File(n, s, want)>> /\ acks' = 0 /\ times = want
          /\ phase' = "wait_data" /\ want' = NoTimes
      BY <1>5, <1>6, <1>8, <2>1 DEF SendFile
    <2> QED BY <1>1, <2>1, <2>2 DEF Lockstep, Hello, AtLine, OneHeader, InFile, Open, OneAnswer,
                                   File, serverVars
  <1>9. CASE SendFolder
    <2>1. PICK n \in Names : Send(Folder(n, want))
      BY <1>9 DEF SendFolder
    <2>2. pc = "line" /\ wire' = <<Folder(n, want)>> /\ acks' = 0 /\ times = want
          /\ phase' = "wait" /\ want' = NoTimes
      BY <1>5, <1>6, <1>9, <2>1 DEF SendFolder
    <2> QED BY <1>1, <2>1, <2>2 DEF Lockstep, Hello, AtLine, OneHeader, InFile, Open, OneAnswer,
                                   Folder, serverVars
  <1>10. CASE SendEnd
    <2>1. pc = "line" /\ wire' = <<EndFolder>> /\ acks' = 0 /\ times = NoTimes
          /\ phase' = "wait" /\ want' = NoTimes
      BY <1>5, <1>6, <1>10 DEF SendEnd
    <2> QED BY <1>1, <2>1 DEF Lockstep, Hello, AtLine, OneHeader, InFile, Open, OneAnswer,
                              EndFolder, serverVars
  <1>11. ASSUME phase = "data", pc \in {"accept", "line", "copy", "trailer"}, conn = "open"
         PROVE  Open /\ acks = 0 /\ want = NoTimes
    BY <1>3, <1>11 DEF Hello, AtLine, NoHeader, OneHeader, InFile, Open
  <1>12. CASE SendUnit
    <2>1. /\ Open /\ acks' = 0 /\ wire' = Append(wire, Unit) /\ phase = "data" /\ phase' = phase
          /\ unsent > 0 /\ unsent' = unsent - 1 /\ want' = NoTimes
      BY <1>5, <1>11, <1>12 DEF SendUnit
    <2>2. /\ Len(wire') = Len(wire) + 1
          /\ \A i \in DOMAIN wire' : wire'[i].t = "data"
      <3>1. \A i \in DOMAIN wire : wire[i].t = "data"
        BY <1>3, <2>1 DEF InFile
      <3> QED BY <1>4, <2>1, <3>1 DEF Unit
    <2>3. /\ Len(disk[cur.loc].data) + Len(wire) + unsent = cur.size
          /\ pc = "copy" => Len(disk[cur.loc].data) + cur.left <= cur.size
          /\ times = cur.want
          /\ pc = "trailer" => disk[cur.loc].times = Chtimes(times)
      BY <1>3, <2>1 DEF InFile, Units
    <2>4. Len(disk[cur.loc].data) + Len(wire') + unsent' = cur.size
      <3> DEFINE d == Len(disk[cur.loc].data)
      <3>1. d \in Nat /\ Len(wire) \in Nat /\ unsent \in Nat /\ d + Len(wire) + unsent = cur.size
        BY <1>4, <2>1, <2>3
      <3> HIDE DEF d
      <3>2. d + Len(wire') + unsent' = cur.size
        BY <2>1, <2>2, <3>1
      <3> QED BY <3>2 DEF d
    <2>5. InFile'
      BY <1>1, <2>1, <2>2, <2>3, <2>4 DEF InFile, Open, Units, serverVars
    <2> QED BY <1>1, <2>1, <2>5 DEF Lockstep, Hello, AtLine, Open, OneAnswer, serverVars
  <1>13. CASE SendNul
    <2>1. /\ Open /\ acks' = 0 /\ wire' = Append(wire, Nul) /\ phase = "data" /\ phase' = "wait"
          /\ unsent = 0 /\ unsent' = 0 /\ want' = NoTimes
      BY <1>5, <1>11, <1>13 DEF SendNul
    <2>2. /\ Len(wire') = Len(wire) + 1 /\ wire' # <<>>
          /\ \A i \in DOMAIN wire' : wire'[i].t = IF i = Len(wire') THEN "nul" ELSE "data"
      <3>1. \A i \in DOMAIN wire : wire[i].t = "data"
        BY <1>3, <2>1 DEF InFile
      <3> QED BY <1>4, <2>1, <3>1 DEF Nul
    <2>3. /\ Len(disk[cur.loc].data) + Len(wire) + unsent = cur.size
          /\ pc = "copy" => Len(disk[cur.loc].data) + cur.left <= cur.size
          /\ times = cur.want
          /\ pc = "trailer" => disk[cur.loc].times = Chtimes(times)
      BY <1>3, <2>1 DEF InFile, Units
    <2>4. Len(disk[cur.loc].data) + (Len(wire') - 1) + unsent' = cur.size
      <3> DEFINE d == Len(disk[cur.loc].data)
      <3>1. d \in Nat /\ Len(wire) \in Nat /\ unsent \in Nat /\ d + Len(wire) + unsent = cur.size
        BY <1>4, <2>1, <2>3
      <3> HIDE DEF d
      <3>2. d + (Len(wire') - 1) + unsent' = cur.size
        BY <2>1, <2>2, <3>1
      <3> QED BY <3>2 DEF d
    <2>5. InFile'
      BY <1>1, <2>1, <2>2, <2>3, <2>4 DEF InFile, Open, Units, serverVars
    <2> QED BY <1>1, <2>1, <2>5 DEF Lockstep, Hello, AtLine, Open, OneAnswer, serverVars
  <1>14. CASE SeeAck
    <2>1. /\ acks = 1 /\ acks' = 0 /\ conn = "open" /\ UNCHANGED <<unsent, want, conn, wire>>
          /\ phase' = IF phase = "wait_data" THEN "data" ELSE "ready"
          /\ phase \in {"hello", "wait", "wait_data"}
      BY <1>0, <1>4, <1>14 DEF SeeAck, OneAnswer
    <2>2. pc # "accept"
      BY <1>3, <2>1 DEF Hello
    <2>3. pc = "line" => NoHeader /\ phase # "wait_data"
      BY <1>3, <2>1 DEF AtLine, NoHeader, OneHeader
    <2>4. Open => phase = "wait_data" /\ wire = <<>>
      BY <1>3, <2>1 DEF InFile
    <2>5. AtLine'
      BY <1>1, <2>1, <2>3 DEF AtLine, NoHeader, serverVars
    <2>6. InFile'
      BY <1>1, <1>3, <2>1, <2>4 DEF InFile, Open, Units, serverVars
    <2> QED BY <1>1, <2>1, <2>2, <2>5, <2>6 DEF Lockstep, Hello, OneAnswer, serverVars
  <1>15. CASE HangUp
    <2>1. conn' # "open" /\ UNCHANGED <<phase, unsent, want, wire, acks>>
      BY <1>15 DEF HangUp
    <2>2. Hello' /\ OneAnswer'
      BY <1>1, <1>3, <2>1 DEF Hello, OneAnswer, serverVars
    <2>3. AtLine'
      BY <1>1, <1>3, <2>1 DEF AtLine, NoHeader, OneHeader, serverVars
    <2>4. InFile'
      BY <1>1, <1>3, <2>1 DEF InFile, Open, Units, serverVars
    <2> QED BY <2>2, <2>3, <2>4 DEF Lockstep
  <1>16. ~ SendAnything
    BY DEF SendAnything
  <1> QED BY <1>7, <1>8, <1>9, <1>10, <1>12, <1>13, <1>14, <1>15, <1>16 DEF ClientStep

(* The server's steps that read no line. *)
LEMMA TransferLockstep ==
  ASSUME LockInv,
         Accept \/ LimitedRead \/ CopyDone \/ CopyFails \/ Trailer \/ Finish \/ LineFails
  PROVE  Lockstep' /\ OneAnswer' /\ TimesOfItsOwn'
  <1>0. TypeOK /\ AckedComplete /\ Writing /\ Lockstep /\ OneAnswer /\ TimesOfItsOwn
    BY DEF LockInv, SinkInv
  <1>1. UNCHANGED <<client, clientVars>>
    BY DEF Accept, LimitedRead, CopyDone, CopyFails, Trailer, Finish, LineFails
  <1> SUFFICES ASSUME client = "lockstep" PROVE Lockstep' /\ OneAnswer' /\ TimesOfItsOwn'
    BY <1>1 DEF Lockstep, OneAnswer, TimesOfItsOwn
  <1>2. Hello /\ AtLine /\ InFile
    BY <1>0 DEF Lockstep
  <1>3. CASE Accept
    <2>1. pc = "accept" /\ pc' = "line" /\ acks' = 1 /\ UNCHANGED <<wire, times, disk, delivered>>
          /\ wire = <<>> /\ phase = "hello" /\ times = want
      BY <1>2, <1>3 DEF Accept, Ack, Hello
    <2> QED BY <1>0, <1>1, <2>1 DEF Lockstep, Hello, AtLine, NoHeader, InFile, Open, OneAnswer,
                                    TimesOfItsOwn, clientVars
  <1>4. CASE CopyFails \/ LineFails
    <2>1. pc' = "failed" /\ UNCHANGED <<acks, disk, delivered>>
      BY <1>4 DEF CopyFails, LineFails, Fail
    <2> QED BY <1>0, <1>1, <2>1 DEF Lockstep, Hello, AtLine, InFile, Open, OneAnswer,
                                    TimesOfItsOwn, clientVars
  <1>5. CASE Finish
    <2>1. pc' = "done" /\ conn # "open" /\ UNCHANGED <<disk, delivered>>
      BY <1>5 DEF Finish
    <2> QED BY <1>0, <1>1, <2>1 DEF Lockstep, Hello, AtLine, InFile, Open, OneAnswer,
                                    TimesOfItsOwn, clientVars
  <1>6. CASE LimitedRead
    <2>1. pc = "copy" /\ Open /\ wire # <<>> /\ cur.left > 0
      BY <1>6 DEF LimitedRead, Open
    <2>2. wire[1].t = "data"
      BY <2>1, LockInSync DEF InSync
    <2>3. wire' = Tail(wire)
      BY <1>6, <2>2 DEF LimitedRead, Rest, Headers
    <2>4. /\ pc' = "copy" /\ UNCHANGED <<acks, times, delivered>>
          /\ cur' = [cur EXCEPT !.left = @ - 1]
          /\ disk' = [disk EXCEPT ![cur.loc].data = Append(@, "data")]
      BY <1>6, <2>1, <2>2 DEF LimitedRead
    <2>5. /\ cur.loc \in DOMAIN disk /\ cur.loc \notin DOMAIN delivered
          /\ disk[cur.loc] \in Node /\ disk[cur.loc].data \in Seq(Kinds)
      BY <1>0, <2>1 DEF Writing, TypeOK, Node, Kinds
    <2>6. /\ cur'.loc = cur.loc /\ cur'.size = cur.size /\ cur'.left = cur.left - 1
          /\ cur'.want = cur.want
      BY <2>4
    <2>7. /\ disk'[cur.loc].data = Append(disk[cur.loc].data, "data")
          /\ \A l \in DOMAIN disk : l # cur.loc => disk'[l] = disk[l]
      BY <2>4, <2>5 DEF Node
    <2>8. TimesOfItsOwn'
      BY <1>0, <1>1, <2>4, <2>5, <2>7 DEF TimesOfItsOwn, AckedComplete
    <2>9. wire \in Seq(Msgs) /\ Len(wire) \in Nat \ {0} /\ 1 \in DOMAIN wire
      BY <1>0, <2>1 DEF TypeOK
    <2>10. /\ Len(wire') = Len(wire) - 1
           /\ \A i \in DOMAIN wire' : i + 1 \in DOMAIN wire /\ wire'[i] = wire[i + 1]
      BY <2>3, <2>9
    <2>11. phase = "wait" => Len(wire) # 1
      BY <1>2, <2>1, <2>2, <2>9 DEF InFile
    <2>12. \A i \in DOMAIN wire' :
              wire'[i].t = IF phase = "wait" /\ i = Len(wire') THEN "nul" ELSE "data"
      <3>1. \A i \in DOMAIN wire :
              wire[i].t = IF phase = "wait" /\ i = Len(wire) THEN "nul" ELSE "data"
        BY <1>2, <2>1 DEF InFile
      <3>2. \A i \in DOMAIN wire' : i + 1 = Len(wire) <=> i = Len(wire')
        BY <2>3, <2>9, <2>10
      <3> QED BY <2>10, <3>1, <3>2
    <2>13. phase = "wait" => wire' # <<>>
      <3>1. phase = "wait" => Len(wire') # 0
        <4> DEFINE n == Len(wire)
        <4>1. n \in Nat \ {0} /\ Len(wire') = n - 1 /\ (phase = "wait" => n # 1)
          BY <2>9, <2>10, <2>11
        <4> HIDE DEF n
        <4> QED BY <4>1
      <3> QED BY <3>1
    <2>14. phase # "wait_data"
      BY <1>2, <2>1 DEF InFile
    <2>15. /\ Len(disk'[cur.loc].data) + Units' + unsent = cur.size
           /\ Len(disk'[cur.loc].data) + cur'.left <= cur.size
      <3> DEFINE d == Len(disk[cur.loc].data)
                 n == Len(wire)
      <3>1. d \in Nat /\ n \in Nat /\ unsent \in Nat /\ cur.size \in Nat /\ cur.left \in Int
        BY <1>0, <2>5, <2>9 DEF TypeOK
      <3>2. Len(disk'[cur.loc].data) = d + 1 /\ Len(wire') = n - 1
        BY <2>5, <2>7, <2>10
      <3>3. /\ d + Units + unsent = cur.size /\ d + cur.left <= cur.size
            /\ Units = IF phase = "wait" THEN n - 1 ELSE n
            /\ Units' = IF phase = "wait" THEN Len(wire') - 1 ELSE Len(wire')
        BY <1>1, <1>2, <2>1 DEF InFile, Units, clientVars
      <3> HIDE DEF d, n
      <3>4. Units' = Units - 1 /\ Units \in Int
        BY <3>1, <3>2, <3>3
      <3> QED BY <2>6, <3>1, <3>2, <3>3, <3>4
    <2>16. InFile'
      BY <1>1, <1>2, <2>1, <2>4, <2>6, <2>12, <2>13, <2>14, <2>15 DEF InFile, Open, clientVars
    <2>17. Hello' /\ AtLine' /\ OneAnswer'
      BY <1>0, <1>1, <2>4 DEF Hello, AtLine, OneAnswer, clientVars
    <2> QED BY <2>8, <2>16, <2>17 DEF Lockstep
  <1>7. CASE CopyDone
    <2>1. /\ pc = "copy" /\ Open /\ pc' \in {"trailer", "failed"}
          /\ UNCHANGED <<wire, acks, times, cur, delivered>>
          /\ disk' = [disk EXCEPT ![cur.loc].times = Chtimes(times)]
      BY <1>7 DEF CopyDone, Drained, Fail, Open
    <2>2. /\ cur.loc \in DOMAIN disk /\ cur.loc \notin DOMAIN delivered
          /\ disk[cur.loc] \in Node
      BY <1>0, <2>1 DEF Writing, TypeOK
    <2>3. /\ disk'[cur.loc].times = Chtimes(times) /\ disk'[cur.loc].data = disk[cur.loc].data
          /\ \A l \in DOMAIN disk : l # cur.loc => disk'[l] = disk[l]
      BY <2>1, <2>2 DEF Node
    <2>4. TimesOfItsOwn'
      BY <1>0, <1>1, <2>1, <2>2, <2>3 DEF TimesOfItsOwn, AckedComplete
    <2>5. Hello' /\ AtLine' /\ OneAnswer'
      BY <1>0, <1>1, <2>1 DEF Hello, AtLine, OneAnswer, clientVars
    <2>6. InFile'
      BY <1>1, <1>2, <2>1, <2>3 DEF InFile, Open, Units, clientVars
    <2> QED BY <2>4, <2>5, <2>6 DEF Lockstep
  <1>8. CASE Trailer
    <2>1. /\ pc = "trailer" /\ Open /\ pc' = "line" /\ acks' = acks + 1 /\ times' = NoTimes
          /\ UNCHANGED disk
          /\ delivered' = [x \in DOMAIN delivered \cup {cur.loc} |->
                              IF x = cur.loc THEN cur ELSE delivered[x]]
      BY <1>8 DEF Trailer, Ack, Open
    <2>2. TimesOfItsOwn'
      BY <1>0, <1>1, <1>2, <2>1 DEF TimesOfItsOwn, InFile
    <2>3. wire # <<>> => wire[1].t = "nul" /\ phase = "wait" /\ Len(wire) = 1
      <3>1. SUFFICES ASSUME wire # <<>>
                     PROVE  wire[1].t = "nul" /\ phase = "wait" /\ Len(wire) = 1
        OBVIOUS
      <3>2. wire[1].t = "nul"
        BY <2>1, <3>1, LockInSync DEF InSync
      <3>3. 1 \in DOMAIN wire
        BY <1>0, <3>1 DEF TypeOK
      <3> QED BY <1>2, <2>1, <3>2, <3>3 DEF InFile
    <2>4. wire' = <<>> /\ (wire = <<>> => conn # "open")
      <3>1. wire # <<>> => Tail(wire) = <<>>
        <4>1. SUFFICES ASSUME wire # <<>> PROVE Tail(wire) = <<>>
          OBVIOUS
        <4>2. wire \in Seq(Msgs) /\ Len(wire) = 1
          BY <1>0, <2>3, <4>1 DEF TypeOK
        <4> DEFINE rest == Tail(wire)
        <4>3. rest \in Seq(Msgs) /\ Len(rest) = 0
          BY <4>1, <4>2
        <4> HIDE DEF rest
        <4>4. rest = <<>>
          BY <4>3
        <4> QED BY <4>4 DEF rest
      <3> QED BY <1>8, <2>3, <3>1 DEF Trailer, Rest, Headers
    <2>5. conn = "open" => acks = 0 /\ phase = "wait" /\ want = NoTimes
      BY <1>2, <2>1, <2>3, <2>4 DEF InFile
    <2>6. NoHeader' /\ OneAnswer'
      BY <1>1, <2>1, <2>4, <2>5 DEF NoHeader, OneAnswer, clientVars
    <2> QED BY <1>1, <2>1, <2>2, <2>6 DEF Lockstep, Hello, AtLine, InFile, Open
  <1> QED BY <1>3, <1>4, <1>5, <1>6, <1>7, <1>8

(* A new entry changes nothing of the files that are there. *)
LEMMA CreateKeepsFiles ==
  ASSUME NEW l, NEW node, IsDir(ParentOf(l)),
         NEW x \in DOMAIN disk, x # l, disk[x].kind = "file"
  PROVE  Create(l, node)[x] = disk[x]
  BY DEF Create, IsDir

(* The server's steps that read a line. *)
LEMMA LineLockstep ==
  ASSUME LockInv, ReadLine
  PROVE  Lockstep' /\ OneAnswer' /\ TimesOfItsOwn'
  <1>0. TypeOK /\ AckedComplete /\ Writing /\ Lockstep /\ OneAnswer /\ TimesOfItsOwn
    BY DEF LockInv, SinkInv
  <1>1. PICK i \in DOMAIN wire : \/ ReadTime(i) \/ ReadFile(i) \/ RejectFile(i)
                                 \/ ReadFolder(i) \/ ReadEnd(i) \/ ReadJunk(i)
    BY DEF ReadLine
  <1>2. UNCHANGED <<client, clientVars>>
    BY <1>1 DEF ReadTime, ReadFile, RejectFile, ReadFolder, ReadEnd, ReadJunk
  <1> SUFFICES ASSUME client = "lockstep" PROVE Lockstep' /\ OneAnswer' /\ TimesOfItsOwn'
    BY <1>2 DEF Lockstep, OneAnswer, TimesOfItsOwn
  <1>3. pc = "line" /\ wire' = SubSeq(wire, i + 1, Len(wire)) /\ wire # <<>>
    BY <1>0, <1>1 DEF ReadTime, ReadFile, RejectFile, ReadFolder, ReadEnd, ReadJunk, Reads, TypeOK
  <1>4. OneHeader
    BY <1>0, <1>3 DEF Lockstep, AtLine, NoHeader
  <1>5. i = 1 /\ Line(i) = wire[1] /\ wire' = <<>>
    <2>1. i = 1 /\ Len(wire) = 1
      BY <1>0, <1>4 DEF OneHeader, TypeOK
    <2> QED BY <1>0, <1>3, <2>1 DEF Line, TypeOK
  <1>6. ASSUME pc' = "failed", UNCHANGED delivered, acks' \in {acks, acks + 1},
               acks' = acks + 1 => wire[1].t = "C",
               \A l \in DOMAIN delivered : disk'[l].times = disk[l].times
        PROVE  Lockstep' /\ OneAnswer' /\ TimesOfItsOwn'
    <2>1. OneAnswer'
      BY <1>0, <1>2, <1>4, <1>6 DEF OneAnswer, OneHeader, clientVars, TypeOK
    <2>2. TimesOfItsOwn'
      BY <1>0, <1>6 DEF TimesOfItsOwn
    <2> QED BY <1>6, <2>1, <2>2 DEF Lockstep, Hello, AtLine, InFile, Open
  <1>7. ASSUME pc' = "line", UNCHANGED delivered, acks' = acks + 1, wire[1].t # "C", times' = want,
               \A l \in DOMAIN delivered : disk'[l].times = disk[l].times
        PROVE  Lockstep' /\ OneAnswer' /\ TimesOfItsOwn'
    <2>1. NoHeader' /\ OneAnswer'
      BY <1>2, <1>4, <1>5, <1>7 DEF NoHeader, OneHeader, OneAnswer, clientVars
    <2>2. TimesOfItsOwn'
      BY <1>0, <1>7 DEF TimesOfItsOwn
    <2> QED BY <1>7, <2>1, <2>2 DEF Lockstep, Hello, AtLine, InFile, Open
  <1>8. CASE ReadTime(i)
    BY <1>3, <1>4, <1>5, <1>7, <1>8 DEF ReadTime, Reads, Ack, OneHeader
  <1>9. CASE ReadEnd(i)
    BY <1>3, <1>4, <1>5, <1>7, <1>9 DEF ReadEnd, Reads, Ack, OneHeader
  <1>10. CASE RejectFile(i) \/ ReadJunk(i)
    BY <1>0, <1>6, <1>10 DEF RejectFile, ReadJunk, Fail, TypeOK
  <1>11. ASSUME NEW l, NEW node, IsDir(ParentOf(l)), l \notin DOMAIN delivered,
                disk' = Create(l, node)
         PROVE  \A x \in DOMAIN delivered : disk'[x].times = disk[x].times
    BY <1>0, <1>11, CreateKeepsFiles DEF AckedComplete
  <1>12. CASE ReadFolder(i)
    <2> DEFINE to == Prefixed(Root, JoinName(path, Line(i).name))
    <2>1. wire[1].t = "D"
      BY <1>5, <1>12 DEF ReadFolder, Reads
    <2>2. CASE acks' = acks /\ disk' = disk /\ Fail
      BY <1>0, <1>6, <2>2 DEF Fail, TypeOK
    <2>3. ASSUME NEW node, CanMkdir(to.loc), disk' = Create(to.loc, node)
          PROVE  \A x \in DOMAIN delivered : disk'[x].times = disk[x].times
      <3>1. to.loc \notin DOMAIN delivered /\ IsDir(ParentOf(to.loc))
        BY <1>0, <2>3 DEF CanMkdir, AckedComplete
      <3> HIDE DEF to
      <3> QED BY <1>11, <2>3, <3>1
    <2>4. ASSUME CanMkdir(to.loc), acks' = acks, Fail,
                 disk' = Create(to.loc, [kind |-> "dir", data |-> <<>>, times |-> NoTimes])
          PROVE  Lockstep' /\ OneAnswer' /\ TimesOfItsOwn'
      BY <1>0, <1>6, <2>3, <2>4 DEF Fail, TypeOK
    <2>5. ASSUME CanMkdir(to.loc), times' = NoTimes, Ack, UNCHANGED <<pc, cur, delivered>>,
                 disk' = Create(to.loc, [kind |-> "dir", data |-> <<>>, times |-> Chtimes(times)])
          PROVE  Lockstep' /\ OneAnswer' /\ TimesOfItsOwn'
      BY <1>3, <1>4, <1>7, <2>1, <2>3, <2>5 DEF Ack, OneHeader
    <2> QED BY <1>12, <2>2, <2>4, <2>5 DEF ReadFolder
  <1>13. CASE ReadFile(i)
    <2> DEFINE to == Prefixed(Root, JoinName(path, Line(i).name))
               node == [kind |-> "file", data |-> <<>>, times |-> NoTimes]
    <2>1. wire[1].t = "C" /\ acks' = acks + 1
      BY <1>5, <1>13 DEF ReadFile, Reads, Ack
    <2>2. CASE disk' = disk /\ Fail
      BY <1>6, <2>1, <2>2 DEF Fail
    <2>3. CASE /\ CanOpen(to.loc)
               /\ disk' = Create(to.loc, node)
               /\ cur' = [loc |-> to.loc, size |-> Line(i).size, left |-> ToInt(Line(i).size),
                          want |-> Line(i).want]
               /\ delivered' = Forget(to.loc)
               /\ pc' = "copy"
               /\ UNCHANGED <<path, times>>
      <3>1. IsDir(ParentOf(to.loc))
        BY <2>3 DEF CanOpen
      <3>2. disk'[to.loc] = node
        BY <2>3 DEF Create
      <3> HIDE DEF to
      <3>3. /\ \A x \in DOMAIN delivered' : x \in DOMAIN delivered /\ x # to.loc
            /\ \A x \in DOMAIN delivered' : delivered'[x] = delivered[x]
        BY <2>3 DEF Forget
      <3>4. \A x \in DOMAIN delivered' : disk'[x].times = disk[x].times
        BY <1>0, <2>3, <3>1, <3>3, CreateKeepsFiles DEF AckedComplete
      <3>5. TimesOfItsOwn'
        BY <1>0, <1>2, <3>3, <3>4 DEF TimesOfItsOwn
      <3>6. /\ phase = "wait_data" /\ unsent = wire[1].size /\ wire[1].want = times
            /\ want = NoTimes /\ (conn = "open" => acks = 0)
        BY <1>4, <2>1 DEF OneHeader
      <3>7. wire[1].size \in Nat
        <4>1. wire[1] \in Msgs
          BY <1>0, <1>3, WireType
        <4> QED BY <2>1, <4>1, MsgShape
      <3>8. /\ cur'.loc = to.loc /\ cur'.size = wire[1].size /\ cur'.left = ToInt(wire[1].size)
            /\ cur'.want = times
        BY <1>5, <2>3, <3>6
      <3>9. Len(disk'[to.loc].data) = 0 /\ Len(wire') = 0
        BY <1>5, <3>2
      <3>10. /\ Len(disk'[cur'.loc].data) + Units' + unsent' = cur'.size
             /\ Len(disk'[cur'.loc].data) + cur'.left <= cur'.size
        <4>1. Units' = 0 /\ unsent' = wire[1].size
          BY <1>2, <3>6, <3>9 DEF Units, clientVars
        <4>2. ToInt(wire[1].size) \in Int /\ ToInt(wire[1].size) <= wire[1].size
          BY <3>7, ToIntType, ToIntBelow
        <4> QED BY <3>7, <3>8, <3>9, <4>1, <4>2
      <3>11. InFile'
        BY <1>2, <1>5, <2>1, <2>3, <3>6, <3>8, <3>10 DEF InFile, Open, clientVars
      <3>12. OneAnswer'
        BY <1>2, <2>1, <3>6 DEF OneAnswer, clientVars
      <3> QED BY <2>3, <3>5, <3>11, <3>12 DEF Lockstep, Hello, AtLine
    <2> QED BY <1>13, <2>2, <2>3 DEF ReadFile
  <1> QED BY <1>1, <1>8, <1>9, <1>10, <1>12, <1>13

(* Client and server keep in step in every behaviour. *)
THEOREM LockstepInvariant == Spec => []LockInv
  <1>1. Init => Lockstep /\ OneAnswer /\ TimesOfItsOwn
    BY DEF Init, Lockstep, Hello, AtLine, InFile, Open, OneAnswer, TimesOfItsOwn
  <1>2. LockInv /\ [Next]_vars => Lockstep' /\ OneAnswer' /\ TimesOfItsOwn'
    <2> SUFFICES ASSUME LockInv, [Next]_vars PROVE Lockstep' /\ OneAnswer' /\ TimesOfItsOwn'
      OBVIOUS
    <2>1. CASE UNCHANGED vars
      BY <2>1 DEF LockInv, Lockstep, Hello, AtLine, NoHeader, OneHeader, InFile, Open, Units,
                  OneAnswer, TimesOfItsOwn, vars, clientVars, serverVars
    <2> QED BY <2>1, ClientLockstep, TransferLockstep, LineLockstep DEF Next, ServerStep
  <1> QED BY <1>1, <1>2, SinkInvariant, PTL DEF Spec, LockInv

(* A client that follows the protocol and a server never take one message for another: what
   the server is to read next is what the client sent for that place (scp/copy_from_client.go
   53, 79, 119, 130). *)
THEOREM StaysInSync == Spec => []InSync
  <1>1. LockInv => InSync
    BY LockInSync
  <1> QED BY <1>1, LockstepInvariant, PTL

(* An answer on its way to that client is the one it waits for, and the only one: no message
   is answered twice and none before it is sent (scp/copy_from_client.go 30, 53, 69, 106, 129). *)
THEOREM OneAnswerEach == Spec => []OneAnswer
  <1>1. LockInv => OneAnswer
    BY DEF LockInv
  <1> QED BY <1>1, LockstepInvariant, PTL

(* A file that was answered for has the times its own T line gave and no other file's, and a
   file without a T line has none (scp/copy_from_client.go 35-53, 124, 133). *)
THEOREM TimesKept == Spec => []TimesOfItsOwn
  <1>1. LockInv => TimesOfItsOwn
    BY DEF LockInv
  <1> QED BY <1>1, LockstepInvariant, PTL

-----------------------------------------------------------------------------
(* Where files are made.  Every location is what prefixed returned for the *)
(* path a name was joined to, so it is enough that this path is a path.    *)

Strings == STRING

Places == path \in Paths(Strings) /\ Confined

(* The root, the target and the names, as paths and names. *)
LEMMA PlaceTypes == Root \in Paths(Strings) /\ Target \in Paths(Strings) /\ Names \subseteq Strings
  BY RootAssumption, NamesAssumption DEF Strings

(* A message that names a file or a directory has a name. *)
LEMMA MsgName ==
  ASSUME NEW m \in Msgs, m.t \in {"C", "D"}
  PROVE  m.name \in Names
  BY DEF Msgs, Time, File, Folder, EndFolder, Unit, Nul, Junk

(* Where prefixed leads is inside the root, and so is the way there. *)
LEMMA PrefixedInside ==
  ASSUME Named(Root), NEW p \in Paths(Strings), Prefixed(Root, p).ok
  PROVE  LET loc == Prefixed(Root, p).loc
         IN  /\ Inside(Root, loc)
             /\ \A k \in Len(Root.names)..Len(loc.names) :
                   Inside(Root, Path(Root.abs, SubSeq(loc.names, 1, k)))
  <1> DEFINE loc == Prefixed(Root, p).loc
  <1>1. Root \in Paths(Strings)
    BY PlaceTypes
  <1>2. loc \in Paths(Strings) /\ Normal(loc.abs, loc.names) /\ AtOrBelow(Root, loc)
    BY <1>1, PrefixedSound
  <1>3. Len(Root.names) \in Nat /\ Len(loc.names) \in Nat /\ Len(Root.names) <= Len(loc.names)
    <2> HIDE DEF loc
    <2>1. Root.names \in Seq(Strings) /\ loc.names \in Seq(Strings)
      BY <1>1, <1>2 DEF Paths
    <2> QED BY <1>2, <2>1 DEF AtOrBelow, HasRootPrefix, IsStrictPrefix, IsPrefix
  <1> HIDE DEF loc
  <1>4. Len(Root.names) \in Len(Root.names)..Len(loc.names)
    BY <1>3
  <1>5. /\ Inside(Root, loc)
        /\ \A k \in Len(Root.names)..Len(loc.names) :
                   Inside(Root, Path(Root.abs, SubSeq(loc.names, 1, k)))
    BY <1>1, <1>2, <1>4, BelowIsInside
  <1> QED BY <1>5 DEF loc

(* The root is inside itself. *)
LEMMA RootInside == Inside(Root, Root)
  <1>1. Root.names \in Seq(Strings)
    BY PlaceTypes DEF Paths
  <1>2. Len(Root.names) \in Nat
    BY <1>1
  <1> QED BY <1>2 DEF Inside, IsPrefix

(* The paths a client's names lead to are paths. *)
LEMMA PathStep ==
  ASSUME TypeOK, path \in Paths(Strings), [Next]_vars
  PROVE  path' \in Paths(Strings)
  <1>1. /\ Dir(path) \in Paths(Strings)
        /\ \A n \in Strings : JoinName(path, n) \in Paths(Strings)
    BY JoinNormal
  <1>2. ASSUME NEW i \in DOMAIN wire, ReadFolder(i) PROVE path' \in Paths(Strings)
    <2>1. path' = path \/ path' = JoinName(path, Line(i).name)
      BY <1>2 DEF ReadFolder, Fail
    <2>2. Line(i).name \in Names
      <3>1. Line(i) = wire[i] /\ wire[i].t = "D"
        BY <1>2 DEF ReadFolder, Reads, Line, Junk
      <3>2. wire[i] \in Msgs
        BY WireType
      <3> QED BY <3>1, <3>2, MsgName
    <2> QED BY <1>1, <2>1, <2>2, PlaceTypes
  <1>3. ASSUME NEW i \in DOMAIN wire, ReadEnd(i) PROVE path' \in Paths(Strings)
    BY <1>1, <1>3 DEF ReadEnd
  <1>4. ASSUME NEW i \in DOMAIN wire, ReadTime(i) \/ ReadFile(i) \/ RejectFile(i) \/ ReadJunk(i)
        PROVE  path' = path
    BY <1>4 DEF ReadTime, ReadFile, RejectFile, ReadJunk, Fail
  <1>5. ASSUME Accept \/ LimitedRead \/ CopyDone \/ CopyFails \/ Trailer \/ Finish \/ LineFails
        PROVE  path' = path
    BY <1>5 DEF Accept, LimitedRead, CopyDone, CopyFails, Trailer, Finish, LineFails, Fail
  <1>6. ASSUME ClientStep PROVE path' = path
    BY <1>6 DEF ClientStep, SendTime, SendFile, SendFolder, SendEnd, SendUnit, SendNul, SeeAck,
                SendAnything, HangUp, Send, serverVars
  <1>7. ASSUME UNCHANGED vars PROVE path' = path
    BY <1>7 DEF vars, serverVars
  <1> QED BY <1>2, <1>3, <1>4, <1>5, <1>6, <1>7 DEF Next, ServerStep, ReadLine

(* The locations a step adds to the disk: at most one, and prefixed        *)
(* returned it.                                                            *)
LEMMA NewPlace ==
  ASSUME TypeOK, path \in Paths(Strings), [Next]_vars
  PROVE  \A l \in DOMAIN disk' :
            \/ l \in DOMAIN disk
            \/ /\ pc = "line"
               /\ \E n \in Strings : LET to == Prefixed(Root, JoinName(path, n))
                                     IN  Plain(n) /\ to.ok /\ l = to.loc
  <1>1. ASSUME NEW i \in DOMAIN wire, ReadFile(i) \/ ReadFolder(i),
               NEW l \in DOMAIN disk', l \notin DOMAIN disk
        PROVE  /\ pc = "line"
               /\ \E n \in Strings : LET to == Prefixed(Root, JoinName(path, n))
                                     IN  Plain(n) /\ to.ok /\ l = to.loc
    <2>1. Line(i).name \in Strings
      <3>1. Line(i) = wire[i] /\ wire[i].t \in {"C", "D"}
        BY <1>1 DEF ReadFile, ReadFolder, Reads, Line, Junk
      <3>2. wire[i] \in Msgs
        BY <1>1, WireType DEF TypeOK
      <3> QED BY <3>1, <3>2, MsgName, PlaceTypes
    <2> DEFINE to == Prefixed(Root, JoinName(path, Line(i).name))
    <2>2. to.ok /\ ValidName(Line(i).name) /\ pc = "line" /\ \E node : disk' = Create(to.loc, node)
      BY <1>1 DEF ReadFile, ReadFolder, Reads
    <2> HIDE DEF to
    <2>3. l = to.loc
      BY <1>1, <2>2 DEF Create
    <2>4. Plain(Line(i).name)
      BY <2>2 DEF ValidName, Plain
    <2> QED BY <2>1, <2>2, <2>3, <2>4 DEF to
  <1>2. ASSUME NEW i \in DOMAIN wire, ReadTime(i) \/ RejectFile(i) \/ ReadEnd(i) \/ ReadJunk(i)
        PROVE  disk' = disk
    BY <1>2 DEF ReadTime, RejectFile, ReadEnd, ReadJunk, Fail
  <1>3. ASSUME LimitedRead \/ CopyDone PROVE DOMAIN disk' = DOMAIN disk
    BY <1>3 DEF LimitedRead, CopyDone
  <1>4. ASSUME Accept \/ CopyFails \/ Trailer \/ Finish \/ LineFails PROVE disk' = disk
    BY <1>4 DEF Accept, CopyFails, Trailer, Finish, LineFails, Fail
  <1>5. ASSUME ClientStep PROVE disk' = disk
    BY <1>5 DEF ClientStep, SendTime, SendFile, SendFolder, SendEnd, SendUnit, SendNul, SeeAck,
                SendAnything, HangUp, Send, serverVars
  <1>6. ASSUME UNCHANGED vars PROVE disk' = disk
    BY <1>6 DEF vars, serverVars
  <1> QED BY <1>1, <1>2, <1>3, <1>4, <1>5, <1>6 DEF Next, ServerStep, ReadLine

(* For every root that names a directory and every target, and whatever    *)
(* names, nesting and unbalanced E lines the client sends: nothing is made *)
(* outside the root (filesystem.go prefixed, Mkdir, Write).                *)
THEOREM Confinement ==
  ASSUME Named(Root)
  PROVE  Spec => []Confined
  <1>1. Init => Places
    <2> SUFFICES ASSUME Init PROVE Places
      OBVIOUS
    <2>1. path \in Paths(Strings)
      BY PlaceTypes DEF Init
    <2> DEFINE to == Prefixed(Root, Target)
    <2>2. \A l \in Existing : l = Root \/ (to.ok /\ \E i \in Len(Root.names)..Len(to.loc.names) :
                                                l = Path(Root.abs, SubSeq(to.loc.names, 1, i)))
      BY DEF Existing
    <2>3. \A l \in Existing : Inside(Root, l)
      BY <2>2, PrefixedInside, RootInside, PlaceTypes
    <2> QED BY <2>1, <2>3 DEF Init, Places, Confined
  <1>2. TypeOK /\ Places /\ [Next]_vars => Places'
    <2> SUFFICES ASSUME TypeOK, Places, [Next]_vars PROVE Places'
      OBVIOUS
    <2>1. path' \in Paths(Strings)
      BY PathStep DEF Places
    <2>2. ASSUME NEW n \in Strings, Prefixed(Root, JoinName(path, n)).ok
          PROVE  Inside(Root, Prefixed(Root, JoinName(path, n)).loc)
      <3>1. JoinName(path, n) \in Paths(Strings)
        BY JoinNormal DEF Places
      <3> QED BY <2>2, <3>1, PrefixedInside
    <2>3. Confined'
      BY <2>2, NewPlace DEF Places, Confined
    <2> QED BY <2>1, <2>3 DEF Places
  <1>3. Places => Confined
    BY DEF Places
  <1> QED BY <1>1, <1>2, <1>3, SinkTypeCorrect, PTL DEF Spec

-----------------------------------------------------------------------------
(* A copy stays below its target.  The server's path follows the client:   *)
(* it is the target with one name for each directory the server was told   *)
(* to enter and not to leave, which are those the client counts, but for a *)
(* D or an E line on the wire.                                             *)

Ahead == IF wire = <<>> THEN 0
         ELSE IF wire[1].t = "D" THEN 1 ELSE IF wire[1].t = "E" THEN -1 ELSE 0

Entered == depth - Ahead

Here == Clean(path)

Running == client = "lockstep" /\ pc \notin {"done", "failed"}

Follows ==
    Running => /\ Entered \in Nat
               /\ Extends(Clean(Target), Here, Entered)
               /\ Extends(Safe(Target), Safe(Here), Entered)
               /\ path = Here \/ path = Target
               /\ AtOrBelow(Root, Clean(Target)) \/ ~ AtOrBelow(Root, Here)

FollowInv == /\ path \in Paths(Strings)
             /\ Root \in DOMAIN disk
             /\ Follows
             /\ BelowTarget

(* A client does not change its kind. *)
LEMMA SameClient == ASSUME [Next]_vars PROVE client' = client
  BY DEF Next, ClientStep, ServerStep, ReadLine, SendTime, SendFile, SendFolder, SendEnd,
         SendUnit, SendNul, SeeAck, SendAnything, HangUp, Send, Accept, ReadTime, ReadFile,
         RejectFile, ReadFolder, ReadEnd, ReadJunk, LimitedRead, CopyDone, CopyFails, Trailer,
         Finish, LineFails, vars

(* How the server's path and what the client counts move together. *)
LEMMA EnteredStep ==
  ASSUME LockInv, LockInv', [Next]_vars, Running'
  PROVE  /\ Running
         /\ \/ path' = path /\ Entered' = Entered
            \/ /\ Entered' = Entered + 1
               /\ \E n \in Strings : LET to == Prefixed(Root, JoinName(path, n))
                                     IN  /\ path' = JoinName(path, n) /\ Plain(n)
                                         /\ to.ok /\ to.loc \notin DOMAIN disk
            \/ path' = Dir(path) /\ Entered' = Entered - 1 /\ Entered > 0
  <1>0. TypeOK /\ Hello /\ AtLine /\ InFile /\ client' = client /\ Running
    <2>1. client' = client
      BY SameClient
    <2>2. pc \notin {"done", "failed"}
      <3>1. ASSUME ServerStep PROVE pc \notin {"done", "failed"}
        BY <3>1 DEF ServerStep, ReadLine, Accept, ReadTime, ReadFile, RejectFile, ReadFolder,
                ReadEnd, ReadJunk, Reads, LimitedRead, CopyDone, Drained, CopyFails, Trailer,
                Finish, LineFails
      <3>2. ASSUME ClientStep \/ UNCHANGED vars PROVE pc' = pc
        BY <3>2 DEF ClientStep, SendTime, SendFile, SendFolder, SendEnd, SendUnit, SendNul, SeeAck,
                    SendAnything, HangUp, Send, serverVars, vars
      <3> QED BY <3>1, <3>2 DEF Next, Running
    <2> QED BY <2>1, <2>2 DEF LockInv, SinkInv, Lockstep, Running
  <1>1. wire \in Seq(Msgs) /\ depth \in Nat /\ Ahead \in Int
    BY <1>0 DEF TypeOK, Ahead
  <1>2. Open => Ahead = 0
    <2> SUFFICES ASSUME Open, wire # <<>> PROVE Ahead = 0
      BY DEF Ahead
    <2>1. 1 \in DOMAIN wire
      BY <1>1
    <2>2. wire[1].t \in {"nul", "data"}
      BY <1>0, <2>1 DEF InFile
    <2> QED BY <2>2 DEF Ahead
  <1>3. Open' => Ahead' = 0
    <2> SUFFICES ASSUME Open', wire' # <<>> PROVE Ahead' = 0
      BY DEF Ahead
    <2>1. InFile' /\ wire' \in Seq(Msgs)
      BY DEF LockInv, SinkInv, Lockstep, Running, TypeOK
    <2>2. 1 \in DOMAIN wire'
      BY <2>1
    <2>3. wire'[1].t \in {"nul", "data"}
      BY <2>1, <2>2 DEF InFile
    <2> QED BY <2>3 DEF Ahead
  <1>4. ASSUME path' = path, depth' = depth, Ahead' = Ahead
        PROVE  path' = path /\ Entered' = Entered
    BY <1>4 DEF Entered
  <1>5. ASSUME NEW m \in Msgs, Send(m), wire = <<>> \/ m.t \notin {"D", "E"}
        PROVE  /\ path' = path
               /\ Ahead' = IF m.t = "D" THEN 1 ELSE IF m.t = "E" THEN -1 ELSE Ahead
    <2>1. path' = path /\ wire' = Append(wire, m)
      BY <1>5 DEF Send, serverVars
    <2>2. CASE wire = <<>>
      <3>1. wire' = <<m>>
        BY <2>1, <2>2
      <3>2. wire' # <<>> /\ wire'[1] = m
        BY <3>1
      <3> QED BY <2>1, <2>2, <3>2 DEF Ahead
    <2>3. CASE wire # <<>>
      <3>1. wire' # <<>> /\ wire'[1] = wire[1]
        BY <1>1, <2>1, <2>3
      <3> QED BY <1>5, <2>1, <2>3, <3>1 DEF Ahead
    <2> QED BY <2>2, <2>3
  <1>6. phase = "ready" /\ conn = "open" => wire = <<>>
    BY <1>0 DEF Hello, AtLine, NoHeader, OneHeader, InFile, Open, Running, TypeOK
  <1>7. ASSUME SendTime \/ SendFile \/ SendUnit \/ SendNul PROVE path' = path /\ Entered' = Entered
    <2>1. PICK m \in Msgs : Send(m) /\ m.t \notin {"D", "E"}
      <3>1. want \in AllTimes
        BY <1>0 DEF TypeOK
      <3>2. CASE SendTime
        <4>1. PICK t \in AllTimes : Send(Time(t))
          BY <3>2 DEF SendTime
        <4> QED BY <4>1 DEF Msgs, Time
      <3>3. CASE SendFile
        <4>1. PICK n \in Names, s \in Sizes : Send(File(n, s, want))
          BY <3>3 DEF SendFile
        <4> QED BY <3>1, <4>1 DEF Msgs, File
      <3>4. CASE SendUnit
        BY <3>4 DEF SendUnit, Msgs, Unit
      <3>5. CASE SendNul
        BY <3>5 DEF SendNul, Msgs, Nul
      <3> QED BY <1>7, <3>2, <3>3, <3>4, <3>5
    <2>2. depth' = depth
      BY <1>7 DEF SendTime, SendFile, SendUnit, SendNul
    <2> QED BY <1>5, <2>1, <2>2 DEF Entered
  <1>8. ASSUME SendFolder PROVE path' = path /\ Entered' = Entered
    <2>1. PICK m \in Msgs : Send(m) /\ m.t = "D"
      <3>1. want \in AllTimes
        BY <1>0 DEF TypeOK
      <3> QED BY <1>8, <3>1 DEF SendFolder, Msgs, Folder
    <2>2. wire = <<>> /\ depth' = depth + 1
      BY <1>6, <1>8, <2>1 DEF SendFolder, Send
    <2>3. Ahead = 0 /\ Ahead' = 1 /\ path' = path
      BY <1>5, <2>1, <2>2 DEF Ahead
    <2> QED BY <1>1, <2>2, <2>3 DEF Entered
  <1>9. ASSUME SendEnd PROVE path' = path /\ Entered' = Entered
    <2>1. PICK m \in Msgs : Send(m) /\ m.t = "E"
      BY <1>9 DEF SendEnd, Msgs, EndFolder
    <2>2. wire = <<>> /\ depth' = depth - 1
      BY <1>6, <1>9, <2>1 DEF SendEnd, Send
    <2>3. Ahead = 0 /\ Ahead' = -1 /\ path' = path
      BY <1>5, <2>1, <2>2 DEF Ahead
    <2> QED BY <1>1, <2>2, <2>3 DEF Entered
  <1>10. ASSUME SeeAck \/ HangUp \/ Accept \/ CopyDone \/ UNCHANGED vars
         PROVE  path' = path /\ Entered' = Entered
    BY <1>10 DEF SeeAck, HangUp, Accept, CopyDone, Fail, vars, serverVars, clientVars, Entered, Ahead
  <1>11. ~ SendAnything
    BY <1>0 DEF SendAnything, Running
  <1>12. ~ (CopyFails \/ Finish \/ LineFails)
    BY DEF CopyFails, Finish, LineFails, Fail, Running
  <1>13. ASSUME LimitedRead PROVE path' = path /\ Entered' = Entered
    <2>1. Open /\ Open' /\ path' = path /\ depth' = depth
      BY <1>13 DEF LimitedRead, Open, clientVars
    <2> QED BY <1>2, <1>3, <2>1 DEF Entered
  <1>14. ASSUME Trailer PROVE path' = path /\ Entered' = Entered
    <2>1. Open /\ pc = "trailer" /\ path' = path /\ depth' = depth
      BY <1>14 DEF Trailer, Open, clientVars
    <2>2. wire' = <<>>
      <3>1. CASE wire = <<>>
        BY <1>14, <3>1 DEF Trailer
      <3>2. CASE wire # <<>>
        <4>1. wire[1].t = "nul"
          BY <1>0, <2>1, <3>2, LockInSync DEF InSync, Running
        <4>2. 1 \in DOMAIN wire
          BY <1>1, <3>2
        <4>3. Len(wire) = 1
          BY <1>0, <2>1, <4>1, <4>2 DEF InFile
        <4>4. wire' = Tail(wire)
          BY <1>14, <3>2, <4>1 DEF Trailer, Rest, Headers
        <4>5. wire' \in Seq(Msgs) /\ Len(wire') = 0
          BY <1>1, <3>2, <4>3, <4>4
        <4> QED BY <4>5
      <3> QED BY <3>1, <3>2
    <2>3. Ahead' = 0
      BY <2>2 DEF Ahead
    <2> QED BY <1>2, <2>1, <2>3 DEF Entered
  <1>15. ASSUME NEW i \in DOMAIN wire, ReadTime(i) \/ ReadFile(i) \/ RejectFile(i)
                                         \/ ReadFolder(i) \/ ReadEnd(i) \/ ReadJunk(i)
         PROVE  /\ i = 1 /\ Line(i) = wire[1] /\ wire[1] \in Msgs /\ wire # <<>>
                /\ Ahead' = 0 /\ depth' = depth /\ wire[1].t \in {"T", "C", "D", "E"}
    <2>1. pc = "line" /\ wire' = SubSeq(wire, i + 1, Len(wire)) /\ depth' = depth
      BY <1>15 DEF ReadTime, ReadFile, RejectFile, ReadFolder, ReadEnd, ReadJunk, Reads, clientVars
    <2>2. wire # <<>>
      OBVIOUS
    <2>3. OneHeader
      BY <1>0, <2>1, <2>2 DEF AtLine, NoHeader
    <2>4. i = 1 /\ Len(wire) = 1
      BY <1>1, <2>3 DEF OneHeader
    <2>5. wire' = <<>>
      BY <1>1, <2>1, <2>4
    <2>6. Ahead' = 0
      BY <2>5 DEF Ahead
    <2>7. wire[1] \in Msgs /\ Line(i) = wire[1]
      BY <1>1, <2>4 DEF Line
    <2> QED BY <2>1, <2>2, <2>3, <2>4, <2>6, <2>7 DEF OneHeader
  <1>16. ASSUME NEW i \in DOMAIN wire, ReadTime(i) \/ ReadFile(i) PROVE path' = path /\ Entered' = Entered
    <2>1. path' = path /\ wire[1].t \in {"T", "C"}
      BY <1>15, <1>16 DEF ReadTime, ReadFile, Reads, Fail
    <2>2. Ahead = 0 /\ Ahead' = 0 /\ depth' = depth
      BY <1>15, <1>16, <2>1 DEF Ahead
    <2> QED BY <2>1, <2>2 DEF Entered
  <1>17. ASSUME NEW i \in DOMAIN wire PROVE ~ (RejectFile(i) \/ ReadJunk(i))
    BY DEF RejectFile, ReadJunk, Fail, Running
  <1>18. ASSUME NEW i \in DOMAIN wire, ReadFolder(i)
         PROVE  /\ Entered' = Entered + 1
                /\ \E n \in Strings : LET to == Prefixed(Root, JoinName(path, n))
                                      IN  /\ path' = JoinName(path, n) /\ Plain(n)
                                          /\ to.ok /\ to.loc \notin DOMAIN disk
    <2>1. /\ Line(i) = wire[1] /\ wire[1] \in Msgs /\ wire # <<>> /\ Ahead' = 0 /\ depth' = depth
      BY <1>15, <1>18
    <2>2. wire[1].t = "D"
      BY <1>18, <2>1 DEF ReadFolder, Reads
    <2>3. Ahead = 1
      BY <2>1, <2>2 DEF Ahead
    <2>4. Entered' = Entered + 1
      BY <1>1, <2>1, <2>3 DEF Entered
    <2>5. wire[1].name \in Strings
      BY <2>1, <2>2, MsgName, PlaceTypes
    <2> DEFINE n == wire[1].name
               to == Prefixed(Root, JoinName(path, n))
    <2>6. path' = JoinName(path, n) /\ ValidName(n) /\ to.ok /\ CanMkdir(to.loc)
      BY <1>18, <2>1 DEF ReadFolder, Fail, Running
    <2>7. Plain(n)
      BY <2>6 DEF ValidName, Plain
    <2> QED BY <2>4, <2>5, <2>6, <2>7 DEF CanMkdir
  <1>19. ASSUME NEW i \in DOMAIN wire, ReadEnd(i)
         PROVE  path' = Dir(path) /\ Entered' = Entered - 1 /\ Entered > 0
    <2>1. Line(i) = wire[1] /\ wire # <<>> /\ Ahead' = 0 /\ depth' = depth
      BY <1>15, <1>19
    <2>2. wire[1].t = "E" /\ path' = Dir(path)
      BY <1>19, <2>1 DEF ReadEnd, Reads
    <2>3. Ahead = -1
      BY <2>1, <2>2 DEF Ahead
    <2> QED BY <1>1, <2>1, <2>2, <2>3 DEF Entered
  <1> QED BY <1>0, <1>7, <1>8, <1>9, <1>10, <1>11, <1>12, <1>13, <1>14, <1>16, <1>17, <1>18, <1>19
          DEF Next, ClientStep, ServerStep, ReadLine

(* Nothing is removed from the disk. *)
LEMMA DiskGrows ==
  ASSUME [Next]_vars
  PROVE  DOMAIN disk \subseteq DOMAIN disk'
  <1>1. ASSUME NEW i \in DOMAIN wire, ReadFile(i) \/ ReadFolder(i)
        PROVE  DOMAIN disk \subseteq DOMAIN disk'
    <2>1. disk' = disk \/ \E l, node : disk' = Create(l, node)
      BY <1>1 DEF ReadFile, ReadFolder
    <2> QED BY <2>1 DEF Create
  <1>2. ASSUME NEW i \in DOMAIN wire, ReadTime(i) \/ RejectFile(i) \/ ReadEnd(i) \/ ReadJunk(i)
        PROVE  disk' = disk
    BY <1>2 DEF ReadTime, RejectFile, ReadEnd, ReadJunk
  <1>3. ASSUME LimitedRead \/ CopyDone PROVE DOMAIN disk' = DOMAIN disk
    BY <1>3 DEF LimitedRead, CopyDone
  <1>4. ASSUME Accept \/ CopyFails \/ Trailer \/ Finish \/ LineFails PROVE disk' = disk
    BY <1>4 DEF Accept, CopyFails, Trailer, Finish, LineFails
  <1>5. ASSUME ClientStep PROVE disk' = disk
    BY <1>5 DEF ClientStep, SendTime, SendFile, SendFolder, SendEnd, SendUnit, SendNul, SeeAck,
                SendAnything, HangUp, Send, serverVars
  <1>6. ASSUME UNCHANGED vars PROVE disk' = disk
    BY <1>6 DEF vars, serverVars
  <1> QED BY <1>1, <1>2, <1>3, <1>4, <1>5, <1>6 DEF Next, ServerStep, ReadLine

(* The root is a clean path. *)
LEMMA RootNormal == Root \in Paths(Strings) /\ Normal(Root.abs, Root.names)
  <1>1. Root \in Paths(Strings) /\ Root = Clean(Root)
    BY PlaceTypes, RootAssumption
  <1> QED BY <1>1, CleanNormal

(* Where a name sent to the server leads, while its path follows the       *)
(* client's: inside the target, and there the path follows as well.        *)
LEMMA FollowsInto ==
  ASSUME path \in Paths(Strings), Running, Follows, Root \in DOMAIN disk,
         NEW n \in Strings, Plain(n), Prefixed(Root, JoinName(path, n)).ok,
         Prefixed(Root, JoinName(path, n)).loc \notin DOMAIN disk
  PROVE  LET into == JoinName(path, n)
         IN  /\ Inside(Prefixed(Root, Target).loc, Prefixed(Root, into).loc)
             /\ into \in Paths(Strings) /\ Clean(into) = into /\ Entered + 1 \in Nat
             /\ Extends(Clean(Target), into, Entered + 1)
             /\ Extends(Safe(Target), Safe(into), Entered + 1)
             /\ AtOrBelow(Root, Clean(Target)) \/ ~ AtOrBelow(Root, into)
  <1> DEFINE into == Path(Here.abs, Append(Here.names, n))
  <1>1. /\ Here \in Paths(Strings) /\ Normal(Here.abs, Here.names)
        /\ JoinName(path, n) = into /\ into \in Paths(Strings) /\ Clean(into) = into
    BY ChildPath DEF Here
  <1>2. /\ Entered \in Nat
        /\ Extends(Clean(Target), Here, Entered) /\ Extends(Safe(Target), Safe(Here), Entered)
        /\ AtOrBelow(Root, Clean(Target)) \/ ~ AtOrBelow(Root, Here)
    BY DEF Follows
  <1>3. /\ Clean(Target) \in Paths(Strings) /\ Target \in Paths(Strings)
        /\ Safe(Target) \in Paths(Strings) /\ Safe(Here) \in Paths(Strings)
    BY <1>1, PlaceTypes, CleanNormal, SafePath
  <1>4. Extends(Clean(Target), into, Entered + 1)
    BY <1>1, <1>2, <1>3, ExtendsAppend
  <1>5. Extends(Safe(Target), Safe(into), Entered + 1)
    <2>1. Safe(into) = Path(Safe(Here).abs, Append(Safe(Here).names, n))
      BY <1>1, SafeAppend
    <2>2. Extends(Safe(Target), Path(Safe(Here).abs, Append(Safe(Here).names, n)), Entered + 1)
      BY <1>2, <1>3, ExtendsAppend
    <2> QED BY <2>1, <2>2
  <1>6. Prefixed(Root, into).ok /\ Prefixed(Root, into).loc # Root
    BY <1>1
  <1>7. /\ Inside(Prefixed(Root, Target).loc, Prefixed(Root, into).loc)
        /\ AtOrBelow(Root, Clean(Target)) \/ ~ AtOrBelow(Root, into)
    <2> HIDE DEF Here
    <2> QED BY <1>1, <1>2, <1>3, <1>6, RootNormal, PrefixedFollows
  <1> HIDE DEF into
  <1> QED BY <1>1, <1>2, <1>4, <1>5, <1>7

(* A step keeps the server's path following the client's. *)
LEMMA FollowsStep ==
  ASSUME LockInv, LockInv', FollowInv, [Next]_vars
  PROVE  Follows'
  <1> SUFFICES ASSUME Running' PROVE Follows'
    BY DEF Follows
  <1> DEFINE F(p, k) == /\ k \in Nat
                        /\ Extends(Clean(Target), Clean(p), k)
                        /\ Extends(Safe(Target), Safe(Clean(p)), k)
                        /\ p = Clean(p) \/ p = Target
                        /\ AtOrBelow(Root, Clean(Target)) \/ ~ AtOrBelow(Root, Clean(p))
  <1>1. Running /\ F(path, Entered)
    BY EnteredStep DEF FollowInv, Follows, Here
  <1>2. SUFFICES F(path', Entered')
    BY DEF Follows, Here
  <1>3. CASE path' = path /\ Entered' = Entered
    BY <1>1, <1>3
  <1>4. ASSUME Entered' = Entered + 1, NEW n \in Strings, path' = JoinName(path, n), Plain(n),
               Prefixed(Root, JoinName(path, n)).ok,
               Prefixed(Root, JoinName(path, n)).loc \notin DOMAIN disk
        PROVE  F(path', Entered')
    <2> DEFINE into == JoinName(path, n)
    <2>1. /\ into \in Paths(Strings) /\ Clean(into) = into /\ Entered + 1 \in Nat
          /\ Extends(Clean(Target), into, Entered + 1)
          /\ Extends(Safe(Target), Safe(into), Entered + 1)
          /\ AtOrBelow(Root, Clean(Target)) \/ ~ AtOrBelow(Root, into)
      BY <1>1, <1>4, FollowsInto DEF FollowInv
    <2>2. path' = into
      BY <1>4
    <2> HIDE DEF into
    <2> QED BY <1>4, <2>1, <2>2
  <1>5. ASSUME path' = Dir(path), Entered' = Entered - 1, Entered > 0 PROVE F(path', Entered')
    <2>1. Target \in Paths(Strings) /\ Clean(Target) \in Paths(Strings) /\ path \in Paths(Strings)
      BY PlaceTypes, CleanNormal DEF FollowInv
    <2>2. path = Clean(path)
      <3> SUFFICES ASSUME path = Target PROVE FALSE
        BY <1>1
      <3> DEFINE s == Clean(Target).names
      <3>1. s \in Seq(Strings)
        BY <2>1 DEF Paths
      <3>2. Len(s) = Len(s) + Entered
        BY <1>1 DEF Extends
      <3> HIDE DEF s
      <3>3. Len(s) \in Nat
        BY <3>1
      <3> QED BY <1>1, <1>5, <3>2, <3>3
    <2>3. Normal(path.abs, path.names)
      BY <2>1, <2>2, CleanNormal
    <2> DEFINE up == Dir(path)
    <2>4. /\ up \in Paths(Strings) /\ Clean(up) = up
          /\ Extends(Clean(Target), up, Entered - 1) /\ Extends(Safe(Target), Safe(up), Entered - 1)
          /\ AtOrBelow(Root, Clean(Target)) \/ ~ AtOrBelow(Root, up)
      BY <1>1, <1>5, <2>1, <2>2, <2>3, RootNormal, LeavesOne
    <2>5. path' = up /\ Entered - 1 \in Nat
      BY <1>1, <1>5
    <2> HIDE DEF up
    <2> QED BY <1>5, <2>4, <2>5
  <1> HIDE DEF F
  <1> QED BY <1>3, <1>4, <1>5, EnteredStep

(* For every root and target, and every sequence of files and directories  *)
(* a client that follows the protocol sends: what it makes is inside the   *)
(* target of its command (copyFromClient's path, prefixed).                *)
THEOREM StaysBelowTarget == Spec => []BelowTarget
  <1>1. Init => FollowInv
    <2> SUFFICES ASSUME Init PROVE FollowInv
      OBVIOUS
    <2>1. path = Target /\ Target \in Paths(Strings) /\ DOMAIN disk = Existing
      BY PlaceTypes DEF Init
    <2>2. Entered = 0
      BY DEF Init, Entered, Ahead
    <2>3. \A a \in Paths(Strings) : Extends(a, a, 0)
      <3> SUFFICES ASSUME NEW a \in Paths(Strings) PROVE Extends(a, a, 0)
        OBVIOUS
      <3>1. a.names \in Seq(Strings)
        BY DEF Paths
      <3>2. Len(a.names) \in Nat
        BY <3>1
      <3> QED BY <3>2 DEF Extends
    <2>4. Clean(Target) \in Paths(Strings) /\ Safe(Target) \in Paths(Strings)
      BY <2>1, CleanNormal, SafePath
    <2>5. Safe(Here) = Safe(Target) /\ Here = Clean(Target)
      BY <2>1, SafeOfClean DEF Here
    <2>6. Follows
      BY <2>1, <2>2, <2>3, <2>4, <2>5 DEF Follows
    <2>7. BelowTarget
      BY <2>1 DEF BelowTarget
    <2>8. Root \in Existing
      BY DEF Existing
    <2> QED BY <2>1, <2>6, <2>7, <2>8 DEF FollowInv
  <1>2. LockInv /\ LockInv' /\ FollowInv /\ [Next]_vars => FollowInv'
    <2> SUFFICES ASSUME LockInv, LockInv', FollowInv, [Next]_vars PROVE FollowInv'
      OBVIOUS
    <2>1. TypeOK /\ path \in Paths(Strings)
      BY DEF LockInv, SinkInv, FollowInv
    <2>2. path' \in Paths(Strings)
      BY <2>1, PathStep
    <2>3. Root \in DOMAIN disk'
      BY DiskGrows DEF FollowInv
    <2>4. Follows'
      BY FollowsStep
    <2>5. BelowTarget'
      <3> SUFFICES ASSUME client' = "lockstep", NEW l \in DOMAIN disk', l \notin DOMAIN disk
                   PROVE  Inside(Prefixed(Root, Target).loc, l)
        BY SameClient DEF FollowInv, BelowTarget
      <3>1. client = "lockstep"
        BY SameClient
      <3>2. /\ pc = "line"
            /\ \E n \in Strings : LET to == Prefixed(Root, JoinName(path, n))
                                  IN  Plain(n) /\ to.ok /\ l = to.loc
        BY <2>1, NewPlace
      <3>3. Running
        BY <3>1, <3>2 DEF Running
      <3> QED BY <2>1, <3>2, <3>3, FollowsInto DEF FollowInv
    <2> QED BY <2>2, <2>3, <2>4, <2>5 DEF FollowInv
  <1>3. FollowInv => BelowTarget
    BY DEF FollowInv
  <1> QED BY <1>1, <1>2, <1>3, LockstepInvariant, PTL DEF Spec
=============================================================================
