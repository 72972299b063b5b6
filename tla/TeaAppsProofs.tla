--------------------------- MODULE TeaAppsProofs ---------------------------
(***************************************************************************)
(* The lines of senders of module TeaApps, for any number of sessions, any *)
(* applications, keys and window changes: each goroutine waits at most     *)
(* once for a program, and nobody waits for one that is over.              *)
(*                                                                         *)
(* TypeOK is not inductive.  That the window goroutine and the ticker do   *)
(* not queue twice is a matter of where they are (Waiting): one that is    *)
(* not sending has nothing in the line.  A handler that starts them must   *)
(* then find them not started yet, and one that makes a program must find  *)
(* no command running, so the invariant says how far the handler is when   *)
(* there is a program, a command, a window goroutine or a ticker (Stages). *)
(***************************************************************************)
EXTENDS TeaApps, TLAPS

Kinds == {"quit", "suspend", "exec", "enter", "size", "time", "chat", "finished"}

Senders == {"window", "input", "ticker", "goroutine"}

Messages == [kind : Kinds, by : Senders, id : Nat]

Typed == /\ pc \in [Sessions -> {"idle", "handler", "append", "command", "handled", "run", "over"}]
         /\ prog \in [Sessions -> {"none", "new", "loop", "exec", "dead"}]
         /\ cmd \in [Sessions -> {"none", "running", "exited"}]
         /\ win \in [Sessions -> {"none", "select", "send", "quit", "ended"}]
         /\ ticker \in [Sessions -> {"none", "wait", "send"}]
         /\ winch \in [Sessions -> [waiting : 0..1, closed : BOOLEAN]]
         /\ line \in [Sessions -> Seq(Messages)]
         /\ progs \in Seq(Sessions) /\ read \in [Sessions -> Seq(Sessions)]
         /\ flying \subseteq [to : Sessions, kind : Kinds, id : Nat]
         /\ keys \in Nat

(* How far a handler is *)
Stages == \A s \in Sessions :
    /\ prog[s] # "none" => pc[s] \in {"handled", "run", "over"}
    /\ prog[s] \in {"loop", "exec"} => pc[s] = "run"
    /\ cmd[s] # "none" => prog[s] = "exec" \/ pc[s] = "command"
    /\ win[s] # "none" => pc[s] \in {"run", "over"}
    /\ ticker[s] # "none" => prog[s] # "none"

(* Nobody waits twice, *)
Once(l) == \A i, j \in DOMAIN l : l[i].by = l[j].by /\ l[i].by # "goroutine" => i = j

Absent(l, by) == \A i \in DOMAIN l : l[i].by # by

(* and who is not sending does not wait. *)
Waiting == \A s \in Sessions :
    /\ Once(line[s])
    /\ prog[s] = "dead" => line[s] = <<>>
    /\ win[s] \notin {"send", "quit"} => Absent(line[s], "window")
    /\ ticker[s] # "send" => Absent(line[s], "ticker")

AppsInv == Typed /\ Stages /\ Waiting

-----------------------------------------------------------------------------
(* One more in the line. *)
LEMMA AppendKeeps ==
  ASSUME NEW l \in Seq(Messages), NEW m \in Messages,
         Once(l), m.by # "goroutine" => Absent(l, m.by)
  PROVE  /\ Append(l, m) \in Seq(Messages) /\ Once(Append(l, m))
         /\ \A by : by # m.by /\ Absent(l, by) => Absent(Append(l, m), by)
  <1> DEFINE t == Append(l, m)
             n == Len(l)
  <1>1. /\ t \in Seq(Messages) /\ n \in Nat /\ DOMAIN l = 1..n /\ DOMAIN t = 1..(n + 1)
        /\ t[n + 1] = m /\ \A i \in 1..n : t[i] = l[i]
    OBVIOUS
  <1> HIDE DEF t, n
  <1>2. Once(t)
    BY <1>1 DEF Once, Absent
  <1>3. \A by : by # m.by /\ Absent(l, by) => Absent(t, by)
    BY <1>1 DEF Absent
  <1> QED BY <1>1, <1>2, <1>3 DEF t

(* The first one gone. *)
LEMMA TailKeeps ==
  ASSUME NEW l \in Seq(Messages), l # <<>>, Once(l)
  PROVE  /\ Tail(l) \in Seq(Messages) /\ Once(Tail(l))
         /\ \A by : Absent(l, by) => Absent(Tail(l), by)
  <1> DEFINE t == Tail(l)
             n == Len(l)
  <1>1. /\ t \in Seq(Messages) /\ n \in Nat /\ DOMAIN l = 1..n /\ DOMAIN t = 1..(n - 1)
        /\ \A i \in 1..(n - 1) : t[i] = l[i + 1]
    OBVIOUS
  <1> HIDE DEF t, n
  <1>2. \A i \in DOMAIN t : i \in 1..(n - 1) /\ i + 1 \in DOMAIN l /\ t[i] = l[i + 1]
    BY <1>1
  <1>3. Once(t)
    BY <1>2 DEF Once
  <1>4. \A by : Absent(l, by) => Absent(t, by)
    BY <1>2 DEF Absent
  <1> QED BY <1>1, <1>3, <1>4 DEF t

(* No line at all. *)
LEMMA EmptyLine == <<>> \in Seq(Messages) /\ Once(<<>>) /\ \A by : Absent(<<>>, by)
  <1>1. DOMAIN <<>> = {} /\ <<>> \in Seq(Messages)
    OBVIOUS
  <1> QED BY <1>1, Zenon DEF Once, Absent

(* What a message that is sent does to the lines. *)
LEMMA SendsKeeps ==
  ASSUME AppsInv, NEW s \in Sessions, NEW m \in Messages, Sends(s, m),
         m.by # "goroutine" => Absent(line[s], m.by)
  PROVE  /\ line' \in [Sessions -> Seq(Messages)]
         /\ \A t \in Sessions :
               /\ Once(line'[t])
               /\ prog[t] = "dead" => line'[t] = <<>>
               /\ \A by : (t # s \/ by # m.by) /\ Absent(line[t], by) => Absent(line'[t], by)
  <1>1. line \in [Sessions -> Seq(Messages)] /\ \A t \in Sessions : Once(line[t])
    BY DEF AppsInv, Typed, Waiting
  <1>2. \A t \in Sessions : prog[t] = "dead" => line[t] = <<>>
    BY DEF AppsInv, Waiting
  <1>3. CASE prog[s] = "dead"
    <2>1. line' = line
      BY <1>1, <1>3 DEF Sends
    <2> QED BY <1>1, <1>2, <2>1
  <1>4. CASE prog[s] # "dead"
    <2> DEFINE a == Append(line[s], m)
    <2>1. line' = [line EXCEPT ![s] = a]
      BY <1>4 DEF Sends
    <2>2. /\ a \in Seq(Messages) /\ Once(a)
          /\ \A by : by # m.by /\ Absent(line[s], by) => Absent(a, by)
      BY <1>1, AppendKeeps
    <2> HIDE DEF a
    <2>3. line'[s] = a /\ (\A t \in Sessions : t # s => line'[t] = line[t])
          /\ line' \in [Sessions -> Seq(Messages)]
      BY <1>1, <2>1, <2>2
    <2> QED BY <1>1, <1>2, <1>4, <2>2, <2>3
  <1> QED BY <1>3, <1>4

(* What a message that is taken does to them. *)
LEMMA TakesKeeps ==
  ASSUME AppsInv, NEW s \in Sessions, Takes(s), line' = [line EXCEPT ![s] = Tail(@)]
  PROVE  /\ line' \in [Sessions -> Seq(Messages)]
         /\ Head(line[s]) \in Messages
         /\ \A t \in Sessions :
               /\ Once(line'[t])
               /\ prog[t] = "dead" => line'[t] = <<>>
               /\ \A by : Absent(line[t], by) => Absent(line'[t], by)
  <1>1. line \in [Sessions -> Seq(Messages)] /\ \A t \in Sessions : Once(line[t])
    BY DEF AppsInv, Typed, Waiting
  <1>2. \A t \in Sessions : prog[t] = "dead" => line[t] = <<>>
    BY DEF AppsInv, Waiting
  <1>3. prog[s] = "loop" /\ line[s] # <<>>
    BY DEF Takes
  <1> DEFINE a == Tail(line[s])
  <1>4. /\ a \in Seq(Messages) /\ Once(a)
        /\ \A by : Absent(line[s], by) => Absent(a, by)
    BY <1>1, <1>3, TailKeeps
  <1>5. Head(line[s]) \in Messages
    BY <1>1, <1>3
  <1> HIDE DEF a
  <1>6. line'[s] = a /\ (\A t \in Sessions : t # s => line'[t] = line[t])
        /\ line' \in [Sessions -> Seq(Messages)]
    BY <1>1, <1>4 DEF a
  <1> QED BY <1>1, <1>2, <1>3, <1>4, <1>5, <1>6

-----------------------------------------------------------------------------
(* Steps that leave the lines, and who sends, as they are. *)
LEMMA QuietStep ==
  ASSUME AppsInv, Typed', Stages', UNCHANGED line,
         \A t \in Sessions :
            /\ prog'[t] = "dead" => prog[t] = "dead"
            /\ win'[t] = win[t] \/ Absent(line[t], "window")
            /\ ticker'[t] = ticker[t] \/ Absent(line[t], "ticker")
  PROVE  AppsInv'
  <1>1. Waiting'
    BY DEF AppsInv, Waiting
  <1> QED BY <1>1 DEF AppsInv

(* Handlers. *)
LEMMA HandlerStep ==
  ASSUME AppsInv, NEW s \in Sessions, Handler(s)
  PROVE  AppsInv'
  <1> USE DEF AppsInv, Typed, Stages, sessionVars, programVars, windowVars, teaVars, appVars, chatVars
  <1>1. CASE RunStarts(s) /\ UNCHANGED appVars
    <2>1. Typed' /\ Stages'
      BY <1>1 DEF RunStarts
    <2> QED BY <1>1, <2>1, QuietStep DEF RunStarts
  <1>2. CASE (NoProgram(s) \/ NoTerminal(s)) /\ UNCHANGED appVars
    <2>1. /\ pc[s] = "handled" /\ pc' = [pc EXCEPT ![s] = "over"]
          /\ UNCHANGED <<prog, line, cmd, win, winch, ticker, progs, read, flying, keys>>
      BY <1>2 DEF NoProgram, NoTerminal, Fatalln
    <2>2. Typed' /\ Stages'
      BY <2>1
    <2> QED BY <2>1, <2>2, QuietStep
  <1>3. CASE StartWindow(s) /\ UNCHANGED appVars
    <2>1. Typed' /\ Stages'
      BY <1>3 DEF StartWindow
    <2>2. Absent(line[s], "window")
      BY <1>3 DEF StartWindow, Waiting
    <2> QED BY <1>3, <2>1, <2>2, QuietStep DEF StartWindow
  <1>4. CASE RunReturns(s) /\ UNCHANGED appVars
    <2>1. Typed' /\ Stages'
      BY <1>4 DEF RunReturns
    <2> QED BY <1>4, <2>1, QuietStep DEF RunReturns
  <1>5. CASE TeaHandler(s)
    <2>1. /\ pc[s] = "handler" /\ pc' = [pc EXCEPT ![s] = "handled"]
          /\ prog' = prog \/ prog' = [prog EXCEPT ![s] = "new"]
          /\ UNCHANGED <<line, cmd, win, winch, ticker, progs, read, flying, keys>>
      BY <1>5 DEF TeaHandler, NewProgram
    <2>2. Typed' /\ Stages'
      <3>1. CASE prog' = prog
        BY <2>1, <3>1
      <3>2. CASE prog' = [prog EXCEPT ![s] = "new"]
        BY <2>1, <3>2
      <3> QED BY <2>1, <3>1, <3>2
    <2> QED BY <2>1, <2>2, QuietStep
  <1>6. CASE TickerHandler(s)
    <2>1. /\ pc[s] = "handler" /\ pc' = [pc EXCEPT ![s] = "handled"]
          /\ \/ prog' = prog /\ ticker' = ticker
             \/ prog' = [prog EXCEPT ![s] = "new"] /\ ticker' = [ticker EXCEPT ![s] = "wait"]
          /\ UNCHANGED <<line, cmd, win, winch, progs, read, flying, keys>>
      BY <1>6 DEF TickerHandler, NewProgram
    <2>2. Absent(line[s], "ticker")
      BY <2>1 DEF Waiting
    <2>3. CASE prog' = prog /\ ticker' = ticker
      <3>1. Typed' /\ Stages'
        BY <2>1, <2>3
      <3> QED BY <2>1, <2>3, <3>1, QuietStep
    <2>4. CASE prog' = [prog EXCEPT ![s] = "new"] /\ ticker' = [ticker EXCEPT ![s] = "wait"]
      <3>1. Typed' /\ Stages'
        BY <2>1, <2>4
      <3>2. \A t \in Sessions : /\ prog'[t] = "dead" => prog[t] = "dead"
                                /\ ticker'[t] = ticker[t] \/ t = s
        BY <2>4
      <3>3. line' = line /\ win' = win
        BY <2>1
      <3> HIDE DEF AppsInv, Typed, Stages
      <3> QED BY <2>2, <3>1, <3>2, <3>3, QuietStep
    <2> QED BY <2>1, <2>3, <2>4
  <1>7. CASE ChatAppendReads(s)
    <2>1. Typed' /\ Stages'
      BY <1>7 DEF ChatAppendReads
    <2> QED BY <1>7, <2>1, QuietStep DEF ChatAppendReads
  <1>8. CASE ChatAppendWrites(s)
    <2>1. Append(read[s], s) \in Seq(Sessions)
      OBVIOUS
    <2>2. /\ pc[s] = "append" /\ pc' = [pc EXCEPT ![s] = "handled"]
          /\ prog' = [prog EXCEPT ![s] = "new"] /\ progs' = Append(read[s], s)
          /\ UNCHANGED <<line, cmd, win, winch, ticker, read, flying, keys>>
      BY <1>8 DEF ChatAppendWrites, NewProgram
    <2>3. Typed' /\ Stages'
      BY <2>1, <2>2
    <2>4. \A t \in Sessions : prog'[t] = "dead" => prog[t] = "dead"
      BY <2>2
    <2>5. win' = win /\ ticker' = ticker /\ line' = line
      BY <2>2
    <2> HIDE DEF AppsInv, Typed, Stages
    <2> QED BY <2>3, <2>4, <2>5, QuietStep
  <1>9. CASE ScriptStarts(s) \/ ScriptReturns(s)
    <2>1. /\ UNCHANGED <<prog, line, win, winch, ticker, progs, read, flying, keys>>
          /\ \/ /\ pc[s] = "handler" /\ pc' = [pc EXCEPT ![s] = "command"]
                /\ cmd' = [cmd EXCEPT ![s] = "running"]
             \/ /\ pc[s] = "command" /\ pc' = [pc EXCEPT ![s] = "over"]
                /\ cmd' = [cmd EXCEPT ![s] = "none"]
      BY <1>9 DEF ScriptStarts, ScriptReturns
    <2>2. Typed' /\ Stages'
      <3>1. CASE pc[s] = "handler" /\ pc' = [pc EXCEPT ![s] = "command"]
                 /\ cmd' = [cmd EXCEPT ![s] = "running"]
        BY <2>1, <3>1
      <3>2. CASE pc[s] = "command" /\ pc' = [pc EXCEPT ![s] = "over"]
                 /\ cmd' = [cmd EXCEPT ![s] = "none"]
        BY <2>1, <3>2
      <3> QED BY <2>1, <3>1, <3>2
    <2> QED BY <2>1, <2>2, QuietStep
  <1> QED BY <1>1, <1>2, <1>3, <1>4, <1>5, <1>6, <1>7, <1>8, <1>9 DEF Handler

(* A command that ran in a program's place is over. *)
LEMMA ExecStep ==
  ASSUME AppsInv, NEW s \in Sessions, NEW key, ExecDone(s, key)
  PROVE  AppsInv'
  <1>1. /\ prog[s] = "exec" /\ prog' = [prog EXCEPT ![s] = "loop"]
        /\ cmd' = [cmd EXCEPT ![s] = "none"]
        /\ flying' = flying \cup {[to |-> s, kind |-> "finished", id |-> keys + 1]}
        /\ keys' = (IF key THEN keys + 1 ELSE keys)
        /\ UNCHANGED <<pc, line, win, winch, ticker, progs, read>>
    BY DEF ExecDone, sessionVars, windowVars
  <1>2. keys' \in Nat /\ flying' \subseteq [to : Sessions, kind : Kinds, id : Nat]
    BY <1>1 DEF AppsInv, Typed, Kinds
  <1>3. Typed'
    BY <1>1, <1>2 DEF AppsInv, Typed
  <1>4. Stages'
    BY <1>1 DEF AppsInv, Typed, Stages
  <1>5. \A t \in Sessions : prog'[t] = "dead" => prog[t] = "dead"
    BY <1>1 DEF AppsInv, Typed
  <1> QED BY <1>1, <1>3, <1>4, <1>5, QuietStep

(* The event loop takes a message, or a command returns to it. *)
LEMMA EventLoopStep ==
  ASSUME AppsInv, NEW s \in Sessions, EventLoop(s)
  PROVE  AppsInv'
  <1> USE DEF sessionVars, programVars, windowVars, teaVars, appVars, chatVars
  <1>1. CASE TakeOwn(s) /\ UNCHANGED appVars
    <2> DEFINE kind == Filter(Head(line[s]).kind)
    <2>1. /\ Takes(s) /\ prog' = [prog EXCEPT ![s] = IF kind = "quit" THEN "dead" ELSE @]
          /\ line' = [line EXCEPT ![s] = IF kind = "quit" THEN <<>> ELSE Tail(@)]
          /\ UNCHANGED <<pc, cmd, win, winch, ticker, progs, read, flying, keys>>
      BY <1>1 DEF TakeOwn
    <2> HIDE DEF kind
    <2>2. CASE kind = "quit"
      <3> DEFINE nobody == <<>>
      <3>1. line' = [line EXCEPT ![s] = nobody] /\ prog' = [prog EXCEPT ![s] = "dead"]
        BY <2>1, <2>2
      <3>2. nobody \in Seq(Messages) /\ Once(nobody) /\ \A by : Absent(nobody, by)
        BY EmptyLine
      <3>3. \A t \in Sessions : prog[t] = "dead" => line[t] = nobody
        BY DEF AppsInv, Waiting
      <3>4. (\A t \in Sessions : prog'[t] = "dead" => line'[t] = nobody) => Waiting'
        <4> HIDE DEF nobody
        <4>1. \A t \in Sessions : line'[t] = IF t = s THEN nobody ELSE line[t]
          BY <3>1 DEF AppsInv, Typed
        <4>2. \A t \in Sessions : /\ Once(line'[t])
                                  /\ win[t] \notin {"send", "quit"} => Absent(line'[t], "window")
                                  /\ ticker[t] # "send" => Absent(line'[t], "ticker")
          BY <3>2, <4>1 DEF AppsInv, Waiting
        <4> QED BY <2>1, <4>2 DEF Waiting, nobody
      <3> HIDE DEF nobody
      <3>5. \A t \in Sessions : prog'[t] = "dead" => line'[t] = nobody
        BY <3>1, <3>3 DEF AppsInv, Typed
      <3>6. Typed'
        <4>1. line' \in [Sessions -> Seq(Messages)]
          BY <3>1, <3>2 DEF AppsInv, Typed
        <4>2. prog' \in [Sessions -> {"none", "new", "loop", "exec", "dead"}]
          BY <3>1 DEF AppsInv, Typed
        <4> QED BY <2>1, <4>1, <4>2 DEF AppsInv, Typed
      <3>7. Stages'
        BY <2>1, <3>1 DEF AppsInv, Typed, Stages, Takes
      <3> QED BY <3>4, <3>5, <3>6, <3>7 DEF AppsInv
    <2>3. CASE kind # "quit"
      <3>1. line' = [line EXCEPT ![s] = Tail(@)] /\ prog' = prog
        BY <2>1, <2>3 DEF AppsInv, Typed
      <3>2. Typed'
        BY <2>1, <3>1, TakesKeeps DEF AppsInv, Typed
      <3>3. Stages'
        BY <2>1, <3>1 DEF AppsInv, Stages
      <3>4. Waiting'
        BY <2>1, <3>1, TakesKeeps DEF AppsInv, Waiting
      <3> QED BY <3>2, <3>3, <3>4 DEF AppsInv
    <2> QED BY <2>2, <2>3
  <1>2. CASE TakeEnter(s) \/ TakeChat(s) \/ TakeKept(s)
    <2>1. /\ Takes(s) /\ line' = [line EXCEPT ![s] = Tail(@)]
          /\ UNCHANGED <<pc, prog, cmd, win, winch, ticker, progs, read, keys>>
      BY <1>2 DEF TakeEnter, TakeChat, TakeKept, TakesKind
    <2>2. flying' \subseteq [to : Sessions, kind : Kinds, id : Nat]
      <3>1. Head(line[s]).id \in Nat
        BY <2>1, TakesKeeps DEF Messages
      <3>2. Range(progs) \subseteq Sessions
        BY DEF AppsInv, Typed, Range
      <3>3. \/ flying' = flying
            \/ flying' = flying \cup {[to |-> p, kind |-> "chat", id |-> Head(line[s]).id] : p \in Range(progs)}
        BY <1>2 DEF TakeEnter, TakeChat, TakeKept
      <3> QED BY <3>1, <3>2, <3>3 DEF AppsInv, Typed, Kinds
    <2>3. Typed'
      BY <2>1, <2>2, TakesKeeps DEF AppsInv, Typed
    <2>4. Stages'
      BY <2>1 DEF AppsInv, Stages
    <2>5. Waiting'
      BY <2>1, TakesKeeps DEF AppsInv, Waiting
    <2> QED BY <2>3, <2>4, <2>5 DEF AppsInv
  <1>3. CASE TakeExec(s)
    <2>1. /\ Takes(s) /\ line' = [line EXCEPT ![s] = Tail(@)]
          /\ prog' = [prog EXCEPT ![s] = "exec"] /\ cmd' = [cmd EXCEPT ![s] = "running"]
          /\ UNCHANGED <<pc, win, winch, ticker, progs, read, flying, keys>>
      BY <1>3 DEF TakeExec, TakesKind
    <2>2. Typed'
      BY <2>1, TakesKeeps DEF AppsInv, Typed
    <2>3. Stages'
      BY <2>1 DEF AppsInv, Typed, Stages, Takes
    <2>4. Waiting'
      BY <2>1, TakesKeeps DEF AppsInv, Typed, Waiting
    <2> QED BY <2>2, <2>3, <2>4 DEF AppsInv
  <1>4. CASE ExecReturns(s)
    BY <1>4, ExecStep DEF ExecReturns
  <1> QED BY <1>1, <1>2, <1>3, <1>4 DEF EventLoop

(* The window goroutine. *)
LEMMA WindowStep ==
  ASSUME AppsInv, NEW s \in Sessions, UNCHANGED appVars,
         WindowDone(s) \/ WindowChange(s) \/ WindowPanic(s) \/ WindowSent(s)
  PROVE  AppsInv'
  <1> USE DEF sessionVars, programVars, windowVars, appVars, chatVars
  <1>1. Message("quit", "window", 0) \in Messages /\ Message("size", "window", 0) \in Messages
        /\ Message("quit", "window", 0).by = "window" /\ Message("size", "window", 0).by = "window"
    BY DEF Message, Messages, Kinds, Senders
  <1>2. CASE WindowDone(s) \/ WindowChange(s) \/ WindowPanic(s)
    <2>1. PICK m \in {Message("quit", "window", 0), Message("size", "window", 0)} : Sends(s, m)
      BY <1>2 DEF WindowDone, WindowChange, WindowPanic, Quits
    <2>2. /\ win[s] = "select"
          /\ win' = [win EXCEPT ![s] = "send"] \/ win' = [win EXCEPT ![s] = "quit"]
          /\ \/ winch' = winch
             \/ winch' = [winch EXCEPT ![s].waiting = IF @ > 0 THEN @ - 1 ELSE 0]
          /\ UNCHANGED <<pc, prog, cmd, ticker, progs, read, flying, keys>>
      BY <1>2 DEF WindowDone, WindowChange, WindowPanic, Quits, Receives
    <2>3. m \in Messages /\ m.by = "window" /\ Absent(line[s], "window")
      BY <1>1, <2>2 DEF AppsInv, Waiting
    <2>4. /\ line' \in [Sessions -> Seq(Messages)]
          /\ \A t \in Sessions :
                /\ Once(line'[t])
                /\ prog[t] = "dead" => line'[t] = <<>>
                /\ \A by : (t # s \/ by # "window") /\ Absent(line[t], by) => Absent(line'[t], by)
      BY <2>1, <2>3, SendsKeeps
    <2>5. win' \in [Sessions -> {"none", "select", "send", "quit", "ended"}]
          /\ (\A t \in Sessions : t # s => win'[t] = win[t]) /\ win'[s] \in {"send", "quit"}
      BY <2>2 DEF AppsInv, Typed
    <2>6. winch' \in [Sessions -> [waiting : 0..1, closed : BOOLEAN]]
      <3> DEFINE W == [waiting : 0..1, closed : BOOLEAN]
                 w == [winch[s] EXCEPT !.waiting = IF @ > 0 THEN @ - 1 ELSE 0]
      <3>1. winch \in [Sessions -> W]
        BY DEF AppsInv, Typed
      <3>2. w \in W
        <4>1. winch[s] \in W
          BY <3>1
        <4> QED BY <4>1
      <3>3. winch' = winch \/ winch' = [winch EXCEPT ![s] = w]
        BY <2>2
      <3> HIDE DEF W, w
      <3>4. winch' \in [Sessions -> W]
        BY <3>1, <3>2, <3>3
      <3> QED BY <3>4 DEF W
    <2>7. Typed'
      BY <2>2, <2>4, <2>5, <2>6 DEF AppsInv, Typed
    <2>8. Stages'
      BY <2>2, <2>5 DEF AppsInv, Stages
    <2>9. Waiting'
      BY <2>2, <2>4, <2>5 DEF AppsInv, Waiting
    <2> QED BY <2>7, <2>8, <2>9 DEF AppsInv
  <1>3. CASE WindowSent(s)
    <2>1. /\ win[s] \in {"send", "quit"} /\ Absent(line[s], "window")
          /\ win' = [win EXCEPT ![s] = IF @ = "send" THEN "select" ELSE "ended"]
          /\ UNCHANGED <<pc, prog, line, cmd, winch, ticker, progs, read, flying, keys>>
      BY <1>3 DEF WindowSent, Sent, Absent
    <2>2. Typed' /\ Stages'
      BY <2>1 DEF AppsInv, Typed, Stages
    <2> QED BY <2>1, <2>2, QuietStep DEF AppsInv, Typed
  <1> QED BY <1>2, <1>3

(* The ticker. *)
LEMMA TickStep ==
  ASSUME AppsInv, NEW s \in Sessions, Tick(s) \/ TickSent(s)
  PROVE  AppsInv'
  <1> USE DEF sessionVars, programVars, windowVars, teaVars, chatVars
  <1>1. CASE Tick(s)
    <2> DEFINE m == Message("time", "ticker", 0)
    <2>1. /\ ticker[s] = "wait" /\ Sends(s, m) /\ ticker' = [ticker EXCEPT ![s] = "send"]
          /\ UNCHANGED <<pc, prog, cmd, win, winch, progs, read, flying, keys>>
      BY <1>1 DEF Tick
    <2>2. m \in Messages /\ m.by = "ticker" /\ Absent(line[s], "ticker")
      BY <2>1 DEF Message, Messages, Kinds, Senders, AppsInv, Waiting
    <2> HIDE DEF m
    <2>3. /\ line' \in [Sessions -> Seq(Messages)]
          /\ \A t \in Sessions :
                /\ Once(line'[t])
                /\ prog[t] = "dead" => line'[t] = <<>>
                /\ \A by : (t # s \/ by # "ticker") /\ Absent(line[t], by) => Absent(line'[t], by)
      BY <2>1, <2>2, SendsKeeps
    <2>4. Typed' /\ Stages'
      BY <2>1, <2>3 DEF AppsInv, Typed, Stages
    <2>5. Waiting'
      BY <2>1, <2>3 DEF AppsInv, Typed, Waiting
    <2> QED BY <2>4, <2>5 DEF AppsInv
  <1>2. CASE TickSent(s)
    <2>1. /\ ticker[s] = "send" /\ Absent(line[s], "ticker") /\ ticker' = [ticker EXCEPT ![s] = "wait"]
          /\ UNCHANGED <<pc, prog, line, cmd, win, winch, progs, read, flying, keys>>
      BY <1>2 DEF TickSent, Sent, Absent
    <2>2. Typed' /\ Stages'
      BY <2>1 DEF AppsInv, Typed, Stages
    <2> QED BY <2>1, <2>2, QuietStep DEF AppsInv, Typed
  <1> QED BY <1>1, <1>2

(* A message that a goroutine sends for someone. *)
LEMMA ArriveStep ==
  ASSUME AppsInv, NEW f \in flying, Arrive(f)
  PROVE  AppsInv'
  <1> DEFINE m == Message(f.kind, "goroutine", f.id)
             s == f.to
  <1>1. /\ Sends(s, m) /\ flying' = flying \ {f}
        /\ UNCHANGED <<pc, prog, cmd, win, winch, ticker, progs, read, keys>>
    BY DEF Arrive, sessionVars, windowVars
  <1>2. m \in Messages /\ m.by = "goroutine" /\ s \in Sessions
    BY DEF Message, Messages, Senders, AppsInv, Typed
  <1> HIDE DEF m, s
  <1>3. /\ line' \in [Sessions -> Seq(Messages)]
        /\ \A t \in Sessions :
              /\ Once(line'[t])
              /\ prog[t] = "dead" => line'[t] = <<>>
              /\ \A by : (t # s \/ by # "goroutine") /\ Absent(line[t], by) => Absent(line'[t], by)
    BY <1>1, <1>2, SendsKeeps
  <1>4. Typed' /\ Stages'
    BY <1>1, <1>3 DEF AppsInv, Typed, Stages
  <1>5. Waiting'
    BY <1>1, <1>3 DEF AppsInv, Waiting
  <1> QED BY <1>4, <1>5 DEF AppsInv

(* The client. *)
LEMMA ClientStep ==
  ASSUME AppsInv, NEW s \in Sessions, Client(s) \/ Killed(s)
  PROVE  AppsInv'
  <1> USE DEF sessionVars, programVars, windowVars, appVars, chatVars
  <1>1. CASE Connect(s)
    <2>1. /\ pc[s] = "idle"
          /\ pc' = [pc EXCEPT ![s] = "over"] \/ pc' = [pc EXCEPT ![s] = "handler"]
          /\ UNCHANGED <<prog, line, cmd, win, winch, ticker, progs, read, flying, keys>>
      BY <1>1 DEF Connect, Fatalln
    <2>2. Typed' /\ Stages'
      <3>1. CASE pc' = [pc EXCEPT ![s] = "over"]
        BY <2>1, <3>1 DEF AppsInv, Typed, Stages
      <3>2. CASE pc' = [pc EXCEPT ![s] = "handler"]
        BY <2>1, <3>2 DEF AppsInv, Typed, Stages
      <3> QED BY <2>1, <3>1, <3>2
    <2> QED BY <2>1, <2>2, QuietStep
  <1>2. CASE Press(s)
    <2>1. PICK k \in Keys : Sends(s, Message(k, "input", keys + 1))
      BY <1>2 DEF Press
    <2> DEFINE m == Message(k, "input", keys + 1)
    <2>2. /\ keys' = keys + 1 /\ Absent(line[s], "input")
          /\ UNCHANGED <<pc, prog, cmd, win, winch, ticker, progs, read, flying>>
      BY <1>2 DEF Press, Sent, Absent
    <2>3. k \in Kinds
      BY DEF Keys, Kinds
    <2>4. m \in Messages /\ m.by = "input" /\ Sends(s, m)
      BY <2>1, <2>3 DEF Message, Messages, Senders, AppsInv, Typed
    <2> HIDE DEF m
    <2>5. /\ line' \in [Sessions -> Seq(Messages)]
          /\ \A t \in Sessions :
                /\ Once(line'[t])
                /\ prog[t] = "dead" => line'[t] = <<>>
                /\ \A by : (t # s \/ by # "input") /\ Absent(line[t], by) => Absent(line'[t], by)
      BY <2>2, <2>4, SendsKeeps
    <2>6. Typed' /\ Stages'
      BY <2>2, <2>5 DEF AppsInv, Typed, Stages
    <2>7. Waiting'
      BY <2>2, <2>5 DEF AppsInv, Waiting
    <2> QED BY <2>6, <2>7 DEF AppsInv
  <1>3. CASE PressInExec(s)
    BY <1>3, ExecStep DEF PressInExec
  <1>4. CASE (Disconnect(s) \/ CommandEnds(s) \/ CommandIsKilled(s)) /\ UNCHANGED appVars
    <2>1. /\ cmd' = cmd \/ (cmd[s] = "running" /\ cmd' = [cmd EXCEPT ![s] = "exited"])
          /\ UNCHANGED <<pc, prog, line, win, winch, ticker, progs, read, flying, keys>>
      BY <1>4 DEF Disconnect, CommandEnds, CommandIsKilled
    <2>2. cmd' \in [Sessions -> {"none", "running", "exited"}]
          /\ \A t \in Sessions : cmd'[t] # "none" => cmd[t] # "none"
      <3>1. CASE cmd' = cmd
        BY <3>1 DEF AppsInv, Typed
      <3>2. CASE cmd[s] = "running" /\ cmd' = [cmd EXCEPT ![s] = "exited"]
        BY <3>2 DEF AppsInv, Typed
      <3> QED BY <2>1, <3>1, <3>2
    <2>3. Typed' /\ Stages'
      BY <2>1, <2>2 DEF AppsInv, Typed, Stages
    <2> QED BY <2>1, <2>3, QuietStep
  <1>5. CASE (Resize(s) \/ CloseRequests(s)) /\ UNCHANGED appVars
    <2>1. /\ \/ winch' = [winch EXCEPT ![s].waiting = 1]
             \/ winch' = [winch EXCEPT ![s].closed = TRUE]
          /\ UNCHANGED <<pc, prog, line, cmd, win, ticker, progs, read, flying, keys>>
      BY <1>5 DEF Resize, CloseRequests
    <2>2. winch' \in [Sessions -> [waiting : 0..1, closed : BOOLEAN]]
      <3> DEFINE W == [waiting : 0..1, closed : BOOLEAN]
                 w == [winch[s] EXCEPT !.waiting = 1]
                 c == [winch[s] EXCEPT !.closed = TRUE]
      <3>1. winch \in [Sessions -> W]
        BY DEF AppsInv, Typed
      <3>2. w \in W /\ c \in W
        <4>1. winch[s] \in W
          BY <3>1
        <4>2. c \in W
          BY <4>1
        <4>3. w \in W
          BY <4>1
        <4> QED BY <4>2, <4>3
      <3>3. winch' = [winch EXCEPT ![s] = w] \/ winch' = [winch EXCEPT ![s] = c]
        BY <2>1
      <3> HIDE DEF W, w, c
      <3>4. winch' \in [Sessions -> W]
        BY <3>1, <3>2, <3>3
      <3> QED BY <3>4 DEF W
    <2>3. Typed' /\ Stages'
      BY <2>1, <2>2 DEF AppsInv, Typed, Stages
    <2> QED BY <2>1, <2>3, QuietStep
  <1> QED BY <1>1, <1>2, <1>3, <1>4, <1>5 DEF Client, Killed

(* Every step keeps the invariant. *)
LEMMA AppsStep == ASSUME AppsInv, [Next]_vars PROVE AppsInv'
  <1>1. CASE UNCHANGED vars
    <2>1. UNCHANGED <<pc, prog, line, cmd, win, winch, ticker, progs, read, flying, keys>>
      BY <1>1 DEF vars, teaVars, sessionVars, programVars, windowVars, appVars, chatVars
    <2>2. Typed' /\ Stages'
      BY <2>1 DEF AppsInv, Typed, Stages
    <2> QED BY <2>1, <2>2, QuietStep
  <1>2. ASSUME NEW s \in Sessions,
               \/ Handler(s) \/ EventLoop(s) \/ Killed(s) \/ WindowReturns(s)
               \/ WindowStops(s) \/ WindowTakes(s) \/ Tick(s) \/ TickSent(s) \/ Client(s)
        PROVE  AppsInv'
    BY <1>2, HandlerStep, EventLoopStep, WindowStep, TickStep, ClientStep
       DEF WindowReturns, WindowStops, WindowTakes
  <1>3. ASSUME NEW f \in flying, Arrive(f) PROVE AppsInv'
    BY <1>3, ArriveStep
  <1> QED BY <1>1, <1>2, <1>3 DEF Next, Runs

(* Every goroutine waits at most once in the line of a program, and nobody *)
(* waits for a program that is over, in any of the applications (tea.go:   *)
(* the window goroutine; Program.Send).                                    *)
THEOREM AppsTypeCorrect == Spec => []TypeOK
  <1>1. Init => AppsInv
    <2> SUFFICES ASSUME Init PROVE AppsInv
      OBVIOUS
    <2> USE DEF Init, TeaInit
    <2>1. Typed
      <3>1. <<>> \in Seq(Messages) /\ <<>> \in Seq(Sessions)
        OBVIOUS
      <3> QED BY <3>1 DEF Typed
    <2>2. Stages
      BY DEF Stages
    <2>3. Waiting
      <3>1. \A s \in Sessions : prog[s] = "none" /\ win[s] = "none" /\ line[s] = <<>>
        OBVIOUS
      <3> QED BY <3>1, EmptyLine DEF Waiting
    <2> QED BY <2>1, <2>2, <2>3 DEF AppsInv
  <1>2. AppsInv => TypeOK
    <2> SUFFICES ASSUME AppsInv, NEW s \in Sessions
                 PROVE  /\ pc[s] \in {"idle", "handler", "append", "command", "handled", "run", "over"}
                        /\ prog[s] \in {"none", "new", "loop", "exec", "dead"}
                        /\ cmd[s] # "none" => prog[s] = "exec" \/ pc[s] = "command"
                        /\ win[s] \in {"none", "select", "send", "quit", "ended"}
                        /\ prog[s] = "dead" => line[s] = <<>>
                        /\ \A i, j \in DOMAIN line[s] :
                              line[s][i].by = line[s][j].by /\ line[s][i].by # "goroutine" => i = j
                        /\ winch[s].waiting \in 0..1
      BY DEF TypeOK
    <2>1. winch[s].waiting \in 0..1
      BY DEF AppsInv, Typed
    <2>2. Once(line[s]) /\ (prog[s] = "dead" => line[s] = <<>>)
      BY DEF AppsInv, Waiting
    <2> QED BY <2>1, <2>2 DEF AppsInv, Typed, Stages, Once
  <1> QED BY <1>1, <1>2, AppsStep, PTL DEF Spec
=============================================================================
