------------------------------ MODULE TeaApps ------------------------------
(***************************************************************************)
(* Servers whose sessions run Bubble Tea programs or commands, one         *)
(* application at a time, composed with module BubbleTea:                  *)
(*   "tea"        a model of one's own, which quits, suspends or runs a    *)
(*                command with tea.Exec (examples/bubbletea,               *)
(*                examples/bubbletea-exec);                                *)
(*   "ticker"     a program handler with a goroutine that sends the time   *)
(*                (examples/bubbleteaprogram);                             *)
(*   "multichat"  a program handler that lists the programs, and a model   *)
(*                that sends every line to all of them (examples/multichat);*)
(*   "script"     a command run by the handler itself (examples/exec).     *)
(***************************************************************************)
EXTENDS BubbleTea

CONSTANTS Apps,        \* the applications to check
          Users,       \* the sessions that an application's server gets
          Resizing,    \* the applications whose windows are resized and closed
          MaxKeys      \* keys pressed, in all sessions

VARIABLES app,         \* the application
          keys,        \* keys pressed so far
          progs,       \* multichat: app.progs
          read,        \* multichat: what append saw of app.progs
          flying,      \* messages whose go p.Send has not got to the channel
          shown,       \* multichat: model.messages
          ticker       \* ticker: its goroutine

chatVars == <<progs, read, flying, shown>>
appVars  == <<app, keys, chatVars, ticker>>
vars     == <<teaVars, appVars>>

Init == /\ TeaInit
        /\ app \in Apps
        /\ app \in {"ticker", "script"} => \A s \in Sessions : pty[s] # "emulated"
        /\ app = "multichat" => \A s \in Sessions : pty[s] # "allocated"
        /\ \A s \in Sessions \ Users[app] : pty[s] = "none"
        /\ keys = 0
        /\ progs = <<>>
        /\ read = [s \in Sessions |-> <<>>]
        /\ flying = {}
        /\ shown = [s \in Sessions |-> <<>>]
        /\ ticker = [s \in Sessions |-> "none"]

-----------------------------------------------------------------------------
(* The applications' handlers *)

(* A session comes to the handler past activeterm, in the examples that    *)
(* have it.                                                                *)
Connect(s) ==
    /\ s \in Users[app] /\ pc[s] = "idle"
    /\ IF app \in {"multichat", "script"} /\ pty[s] = "none"
       THEN Fatalln(s)
       ELSE /\ pc' = [pc EXCEPT ![s] = "handler"]
            /\ UNCHANGED exit
    /\ UNCHANGED <<pty, cancelled, programVars, windowVars, ctxDone, appVars>>

NewProgram(s) == /\ prog' = [prog EXCEPT ![s] = "new"]
                 /\ pc' = [pc EXCEPT ![s] = "handled"]
                 /\ UNCHANGED <<line, cmd, stopped>>

(* newDefaultProgramHandler: a model or none *)
TeaHandler(s) ==
    /\ app = "tea" /\ pc[s] = "handler"
    /\ \/ NewProgram(s)
       \/ pc' = [pc EXCEPT ![s] = "handled"] /\ UNCHANGED programVars
    /\ UNCHANGED <<pty, exit, cancelled, windowVars, ctxDone, appVars>>

(* Without a terminal the program handler exits the session itself and     *)
(* returns no program, so that the next handler runs all the same.         *)
TickerHandler(s) ==
    /\ app = "ticker" /\ pc[s] = "handler"
    /\ IF pty[s] = "none"
       THEN /\ exit' = [exit EXCEPT ![s] = 1]
            /\ pc' = [pc EXCEPT ![s] = "handled"]
            /\ UNCHANGED <<programVars, ticker>>
       ELSE /\ NewProgram(s)
            /\ ticker' = [ticker EXCEPT ![s] = "wait"]
            /\ UNCHANGED exit
    /\ UNCHANGED <<pty, cancelled, windowVars, ctxDone, app, keys, chatVars>>

(* The ticker never ends: it goes on when the program is over. *)
Tick(s) == /\ ticker[s] = "wait"
           /\ Sends(s, Message("time", "ticker", 0))
           /\ ticker' = [ticker EXCEPT ![s] = "send"]
           /\ UNCHANGED <<sessionVars, prog, cmd, stopped, windowVars, ctxDone, app, keys, chatVars>>

TickSent(s) == /\ ticker[s] = "send" /\ Sent(s, "ticker")
               /\ ticker' = [ticker EXCEPT ![s] = "wait"]
               /\ UNCHANGED <<teaVars, app, keys, chatVars>>

(* app.ProgramHandler: a.progs is read and written by the goroutines of    *)
(* all sessions, without a lock.                                           *)
ChatAppendReads(s) ==
    /\ app = "multichat" /\ pc[s] = "handler"
    /\ read' = [read EXCEPT ![s] = progs]
    /\ pc' = [pc EXCEPT ![s] = "append"]
    /\ UNCHANGED <<pty, exit, cancelled, programVars, windowVars, ctxDone, app, keys, progs, flying,
                   shown, ticker>>

ChatAppendWrites(s) ==
    /\ pc[s] = "append"
    /\ progs' = Append(read[s], s)
    /\ NewProgram(s)
    /\ UNCHANGED <<pty, exit, cancelled, windowVars, ctxDone, app, keys, read, flying, shown, ticker>>

(* The handler runs a command, and goes on to the next one whether it      *)
(* failed, which ends the session, or not.                                 *)
ScriptStarts(s) ==
    /\ app = "script" /\ pc[s] = "handler"
    /\ cmd' = [cmd EXCEPT ![s] = "running"]
    /\ pc' = [pc EXCEPT ![s] = "command"]
    /\ UNCHANGED <<pty, exit, cancelled, prog, line, stopped, windowVars, ctxDone, appVars>>

ScriptReturns(s) ==
    /\ pc[s] = "command" /\ WaitReturns(s, FALSE, FALSE)
    /\ cmd' = [cmd EXCEPT ![s] = "none"]
    /\ \E failed \in BOOLEAN : exit' = [exit EXCEPT ![s] = IF failed \/ ctxDone[s] THEN 1 ELSE 0]
    /\ pc' = [pc EXCEPT ![s] = "over"]
    /\ UNCHANGED <<pty, cancelled, prog, line, stopped, windowVars, ctxDone, appVars>>

-----------------------------------------------------------------------------
(* The applications' models *)

(* The kinds of message a key leads to *)
Keys == CASE app = "tea" -> {"quit", "suspend", "exec"}
          [] app = "ticker" -> {"quit"}
          [] app = "multichat" -> {"quit", "enter"}
          [] OTHER -> {}

(* The client presses a key, which the program's reader sends. *)
Press(s) == /\ prog[s] = "loop" /\ ~ ctxDone[s] /\ keys < MaxKeys /\ Sent(s, "input")
            /\ \E k \in Keys : Sends(s, Message(k, "input", keys + 1))
            /\ keys' = keys + 1
            /\ UNCHANGED <<sessionVars, prog, cmd, stopped, windowVars, ctxDone, app, chatVars, ticker>>

TakesKind(s, kind) == Takes(s) /\ Head(line[s]).kind = kind

(* app.send: a goroutine per program *)
TakeEnter(s) ==
    /\ TakesKind(s, "enter")
    /\ flying' = flying \cup {[to |-> p, kind |-> "chat", id |-> Head(line[s]).id] : p \in Range(progs)}
    /\ line' = [line EXCEPT ![s] = Tail(@)]
    /\ UNCHANGED <<sessionVars, prog, cmd, stopped, windowVars, ctxDone, app, keys, progs, read, shown,
                   ticker>>

(* Mutant: a send that does not wait is lost on a program that is busy. *)
ArriveUnlessBusy(f) ==
    /\ f \in flying
    /\ IF prog[f.to] = "loop" THEN Sends(f.to, Message(f.kind, "goroutine", f.id)) ELSE UNCHANGED line
    /\ flying' = flying \ {f}
    /\ UNCHANGED <<sessionVars, prog, cmd, stopped, windowVars, ctxDone, app, keys, progs, read,
                   shown, ticker>>

Arrive(f) == /\ f \in flying
             /\ Sends(f.to, Message(f.kind, "goroutine", f.id))
             /\ flying' = flying \ {f}
             /\ UNCHANGED <<sessionVars, prog, cmd, stopped, windowVars, ctxDone, app, keys, progs, read,
                            shown, ticker>>

TakeChat(s) ==
    /\ TakesKind(s, "chat")
    /\ shown' = [shown EXCEPT ![s] = Append(@, Head(line[s]).id)]
    /\ line' = [line EXCEPT ![s] = Tail(@)]
    /\ UNCHANGED <<sessionVars, prog, cmd, stopped, windowVars, ctxDone, app, keys, progs, read, flying,
                   ticker>>

(* The time, and the end of a command: the model keeps them. *)
TakeKept(s) ==
    /\ Takes(s) /\ Head(line[s]).kind \in {"time", "finished"}
    /\ line' = [line EXCEPT ![s] = Tail(@)]
    /\ UNCHANGED <<sessionVars, prog, cmd, stopped, windowVars, ctxDone, appVars>>

(* tea.Exec: the event loop runs the command, then a goroutine sends its   *)
(* outcome.                                                                *)
TakeExec(s) ==
    /\ TakesKind(s, "exec")
    /\ prog' = [prog EXCEPT ![s] = "exec"]
    /\ cmd' = [cmd EXCEPT ![s] = "running"]
    /\ line' = [line EXCEPT ![s] = Tail(@)]
    /\ UNCHANGED <<sessionVars, stopped, windowVars, ctxDone, appVars>>

ExecDone(s, key) ==
    /\ prog[s] = "exec" /\ WaitReturns(s, TRUE, key)
    /\ prog' = [prog EXCEPT ![s] = "loop"]
    /\ cmd' = [cmd EXCEPT ![s] = "none"]
    /\ flying' = flying \cup {[to |-> s, kind |-> "finished", id |-> keys + 1]}
    /\ keys' = IF key THEN keys + 1 ELSE keys
    /\ UNCHANGED <<sessionVars, line, stopped, windowVars, ctxDone, app, progs, read, shown, ticker>>

(* The client presses a key that the input of an ended command waits for. *)
PressInExec(s) == ~ ctxDone[s] /\ keys < MaxKeys /\ Stdin(s, TRUE) = "session"
                  /\ ExecDone(s, TRUE)

ExecReturns(s) == ExecDone(s, FALSE)

-----------------------------------------------------------------------------
(* The goroutines of a session, and what others do to it *)

Handler(s) == \/ (RunStarts(s) \/ NoProgram(s) \/ NoTerminal(s) \/ StartWindow(s) \/ RunReturns(s))
                  /\ UNCHANGED appVars
              \/ TeaHandler(s) \/ TickerHandler(s) \/ ChatAppendReads(s) \/ ChatAppendWrites(s)
              \/ ScriptStarts(s) \/ ScriptReturns(s)

EventLoop(s) == \/ TakeOwn(s) /\ UNCHANGED appVars
                \/ TakeEnter(s) \/ TakeChat(s) \/ TakeKept(s) \/ TakeExec(s) \/ ExecReturns(s)

Killed(s) == CommandIsKilled(s) /\ UNCHANGED appVars

WindowReturns(s) == WindowSent(s) /\ UNCHANGED appVars

WindowStops(s) == WindowDone(s) /\ UNCHANGED appVars

WindowTakes(s) == (WindowChange(s) \/ WindowPanic(s)) /\ UNCHANGED appVars

Client(s) == \/ Connect(s) \/ Press(s) \/ PressInExec(s)
             \/ (Disconnect(s) \/ CommandEnds(s)) /\ UNCHANGED appVars
             \/ app \in Resizing /\ (Resize(s) \/ CloseRequests(s)) /\ UNCHANGED appVars

(* Nothing runs in a process that is stopped. *)
Runs(A) == ~ stopped /\ A

Next == \/ \E s \in Sessions : Runs(\/ Handler(s) \/ EventLoop(s) \/ Killed(s) \/ WindowReturns(s)
                                      \/ WindowStops(s) \/ WindowTakes(s) \/ Tick(s) \/ TickSent(s)
                                      \/ Client(s))
        \/ \E f \in flying : Runs(Arrive(f))

(* Every goroutine that can go on does, and the line of senders is served  *)
(* in order.  A select that finds the context done again and again chooses *)
(* it at some time, since it chooses at random: that is strong fairness.   *)
(* Clients, and commands that nobody kills, owe nothing.                   *)
Fairness == /\ \A s \in Sessions : /\ WF_vars(Runs(Handler(s))) /\ WF_vars(Runs(EventLoop(s)))
                                   /\ WF_vars(Runs(Killed(s))) /\ WF_vars(Runs(WindowReturns(s)))
                                   /\ SF_vars(Runs(WindowStops(s))) /\ WF_vars(Runs(TickSent(s)))
            /\ WF_vars(\E f \in flying : Runs(Arrive(f)))

Spec == Init /\ [][Next]_vars /\ Fairness

-----------------------------------------------------------------------------
(* Properties *)

(* The shapes the variables take; each goroutine waits at most once in a   *)
(* program's line, and nobody waits for a program that is over.            *)
TypeOK == \A s \in Sessions :
    /\ pc[s] \in {"idle", "handler", "append", "command", "handled", "run", "over"}
    /\ prog[s] \in {"none", "new", "loop", "exec", "dead"}
    /\ cmd[s] # "none" => prog[s] = "exec" \/ pc[s] = "command"
    /\ win[s] \in {"none", "select", "send", "quit", "ended"}
    /\ prog[s] = "dead" => line[s] = <<>>
    /\ \A i, j \in DOMAIN line[s] :
          line[s][i].by = line[s][j].by /\ line[s][i].by # "goroutine" => i = j
    /\ winch[s].waiting \in 0..1

Over(s) == pc[s] = "over" /\ win[s] \in {"none", "ended"}

(* A session whose connection is gone, or whose handler has returned, has  *)
(* its handler return and its window goroutine end, wherever the program   *)
(* is: not yet run, in the middle of a broadcast, waiting for a command.   *)
(* A panic of the window goroutine ends the session too ("so the session   *)
(* ends instead of continuing with a window that no longer resizes"),      *)
(* unless the program runs a command forever.                              *)
SessionEnds ==
    \A s \in Sessions :
        /\ (ctxDone[s] \/ pc[s] = "over") ~> Over(s)
        /\ []<>(prog[s] # "exec") => (panicked[s] ~> Over(s))

(* "send dispatches a message to all running programs": a line of chat     *)
(* sent to a program in the list is shown there, unless the program ends.  *)
ChatDelivered ==
    \A s \in Sessions, id \in 1..MaxKeys :
        ([to |-> s, kind |-> "chat", id |-> id] \in flying)
            ~> (prog[s] = "dead" \/ id \in Range(shown[s]))
=============================================================================
