----------------------------- MODULE BubbleTea -----------------------------
(***************************************************************************)
(* A session that runs a Bubble Tea program: the middleware's handler, its *)
(* goroutine for window changes, the program itself and the command it may *)
(* hand the terminal to (bubbletea/tea.go, tea_unix.go, cmd.go).           *)
(*                                                                         *)
(* The program is external, modelled from how the middleware uses it: its  *)
(* messages go through an unbuffered channel, so a sender waits in line    *)
(* until the event loop takes its message or the program is over; Send to  *)
(* a program that is over returns.  While the event loop runs a command it *)
(* takes no message.  The applications are in module TeaApps.              *)
(***************************************************************************)
EXTENDS Sequences, SequencesExt, Naturals, FiniteSets

CONSTANTS Sessions,
          MaxResizes   \* window changes of a session

VARIABLES pty,         \* sess.Pty(): "none", "emulated" or "allocated"
          pc,          \* where the session's handler is
          exit,        \* sess.Exit: the status, 0 before
          prog,        \* the program: "none", "new", "loop", "exec", "dead"
          line,        \* the senders waiting for the event loop, in order
          cmd,         \* the command: "none", "running", "exited"
          win,         \* the window goroutine
          winch,       \* windowChanges: changes waiting, closed
          resizes,     \* window changes so far
          ctxDone,     \* sess.Context() is done
          cancelled,   \* cancel() was called
          panicked,    \* history: the window goroutine panicked
          stopped      \* the server process was suspended

sessionVars == <<pty, pc, exit, cancelled>>
programVars == <<prog, line, cmd, stopped>>
windowVars  == <<win, winch, resizes, panicked>>
teaVars     == <<sessionVars, programVars, windowVars, ctxDone>>

Message(kind, by, id) == [kind |-> kind, by |-> by, id |-> id]

TeaInit == /\ pty \in [Sessions -> {"none", "emulated", "allocated"}]
           /\ pc = [s \in Sessions |-> "idle"]
           /\ exit = [s \in Sessions |-> 0]
           /\ prog = [s \in Sessions |-> "none"]
           /\ line = [s \in Sessions |-> <<>>]
           /\ cmd = [s \in Sessions |-> "none"]
           /\ win = [s \in Sessions |-> "none"]
           /\ winch = [s \in Sessions |-> [waiting |-> 0, closed |-> FALSE]]
           /\ resizes = [s \in Sessions |-> 0]
           /\ ctxDone = [s \in Sessions |-> FALSE]
           /\ cancelled = [s \in Sessions |-> FALSE]
           /\ panicked = [s \in Sessions |-> FALSE]
           /\ stopped = FALSE

-----------------------------------------------------------------------------
(* The program *)

(* Mutant: Send waits for a program that is over, too. *)
SendsToDead(s, m) == line' = [line EXCEPT ![s] = Append(@, m)]

(* Program.Send, as far as the place in line *)
Sends(s, m) == line' = [line EXCEPT ![s] = IF prog[s] = "dead" THEN @ ELSE Append(@, m)]

(* Send has returned: the message was taken or the program is over. *)
Sent(s, by) == \A i \in DOMAIN line[s] : line[s][i].by # by

(* Run's event loop starts, *)
RunStarts(s) == /\ pc[s] = "run" /\ prog[s] = "new"
                /\ prog' = [prog EXCEPT ![s] = "loop"]
                /\ UNCHANGED <<sessionVars, line, cmd, stopped, windowVars, ctxDone>>

Takes(s) == prog[s] = "loop" /\ line[s] # <<>>

(* takes a message through the filter of MakeOptions, *)
Filter(kind) == IF kind = "suspend" THEN "resume" ELSE kind

(* and ends at a quit.  A program that is suspended stops its process,     *)
(* which is the server.  The other messages are the application's.         *)
TakeOwn(s) ==
    /\ Takes(s)
    /\ Head(line[s]).kind \in {"quit", "size", "suspend"}
    /\ LET kind == Filter(Head(line[s]).kind)
       IN  /\ prog' = [prog EXCEPT ![s] = IF kind = "quit" THEN "dead" ELSE @]
           /\ line' = [line EXCEPT ![s] = IF kind = "quit" THEN <<>> ELSE Tail(@)]
           /\ stopped' = (kind = "suspend")
    /\ UNCHANGED <<sessionVars, cmd, windowVars, ctxDone>>

-----------------------------------------------------------------------------
(* Commands *)

(* The input of the program and of a command it hands the terminal to: the *)
(* terminal's own file, or the session.                                    *)
Input(s) == IF pty[s] = "allocated" THEN "slave" ELSE "session"

(* Cmd.Run: with custom handles, all three of which tea.Exec sets, they    *)
(* are used as they are; without any, a session with a terminal has the    *)
(* command started on it, and one that has none is the input itself.       *)
Stdin(s, custom) == IF pty[s] # "none" /\ ~ custom THEN "slave" ELSE Input(s)

(* Mutant: the command outlives the session. *)
CommandBackground(s) == FALSE

(* Command's context is the session's: its end kills the process. *)
CommandKilled(s) == ctxDone[s]

(* exec.Cmd.Wait returns when the process has ended and its input, unless  *)
(* that is a file, has been read once more: the client's next key or the   *)
(* end of the session.                                                     *)
CommandEnds(s) == /\ cmd[s] = "running"
                  /\ cmd' = [cmd EXCEPT ![s] = "exited"]
                  /\ UNCHANGED <<sessionVars, prog, line, stopped, windowVars, ctxDone>>

CommandIsKilled(s) == CommandKilled(s) /\ CommandEnds(s)

WaitReturns(s, custom, key) == cmd[s] = "exited" /\ (Stdin(s, custom) = "slave" \/ ctxDone[s] \/ key)

-----------------------------------------------------------------------------
(* MiddlewareWithProgramHandler *)

(* wish.Fatalln, and the handler returns *)
Fatalln(s) == /\ exit' = [exit EXCEPT ![s] = 1]
              /\ pc' = [pc EXCEPT ![s] = "over"]

(* The program handler returned nil: next. *)
NoProgram(s) == /\ pc[s] = "handled" /\ prog[s] = "none"
                /\ pc' = [pc EXCEPT ![s] = "over"]
                /\ UNCHANGED <<pty, exit, cancelled, programVars, windowVars, ctxDone>>

NoTerminal(s) == /\ pc[s] = "handled" /\ prog[s] # "none" /\ pty[s] = "none"
                 /\ Fatalln(s)
                 /\ UNCHANGED <<pty, cancelled, programVars, windowVars, ctxDone>>

StartWindow(s) == /\ pc[s] = "handled" /\ prog[s] # "none" /\ pty[s] # "none"
                  /\ pc' = [pc EXCEPT ![s] = "run"]
                  /\ win' = [win EXCEPT ![s] = "select"]
                  /\ UNCHANGED <<pty, exit, cancelled, programVars, winch, resizes, panicked, ctxDone>>

(* Run returned: Kill finds the program over already, then cancel and next. *)
RunReturns(s) == /\ pc[s] = "run" /\ prog[s] = "dead"
                 /\ cancelled' = [cancelled EXCEPT ![s] = TRUE]
                 /\ pc' = [pc EXCEPT ![s] = "over"]
                 /\ UNCHANGED <<pty, exit, programVars, windowVars, ctxDone>>

-----------------------------------------------------------------------------
(* The window goroutine *)

Quits(s) == /\ Sends(s, Message("quit", "window", 0))
            /\ win' = [win EXCEPT ![s] = "quit"]

WindowDone(s) == /\ win[s] = "select" /\ (ctxDone[s] \/ cancelled[s])
                 /\ Quits(s)
                 /\ UNCHANGED <<sessionVars, prog, cmd, stopped, winch, resizes, panicked, ctxDone>>

(* A receive from the closed channel returns at once, every time. *)
Receives(s) == /\ win[s] = "select"
               /\ winch[s].waiting > 0 \/ winch[s].closed
               /\ winch' = [winch EXCEPT ![s].waiting = IF @ > 0 THEN @ - 1 ELSE 0]

WindowChange(s) == /\ Receives(s)
                   /\ Sends(s, Message("size", "window", 0))
                   /\ win' = [win EXCEPT ![s] = "send"]
                   /\ UNCHANGED <<sessionVars, prog, cmd, stopped, resizes, panicked, ctxDone>>

(* The goroutine panics: it recovers, quits the program and ends. *)
WindowPanic(s) == /\ Receives(s) /\ winch[s].waiting > 0
                  /\ panicked' = [panicked EXCEPT ![s] = TRUE]
                  /\ Quits(s)
                  /\ UNCHANGED <<sessionVars, prog, cmd, stopped, resizes, ctxDone>>

WindowSent(s) == /\ win[s] \in {"send", "quit"} /\ Sent(s, "window")
                 /\ win' = [win EXCEPT ![s] = IF @ = "send" THEN "select" ELSE "ended"]
                 /\ UNCHANGED <<sessionVars, programVars, winch, resizes, panicked, ctxDone>>

-----------------------------------------------------------------------------
(* The client, through package ssh: the channel for window changes holds   *)
(* one, and is closed when the session's requests end, before or after the *)
(* context is done.                                                        *)

Resize(s) == /\ pc[s] # "idle" /\ pty[s] # "none" /\ ~ winch[s].closed
             /\ winch[s].waiting = 0 /\ resizes[s] < MaxResizes
             /\ winch' = [winch EXCEPT ![s].waiting = 1]
             /\ resizes' = [resizes EXCEPT ![s] = @ + 1]
             /\ UNCHANGED <<sessionVars, programVars, win, panicked, ctxDone>>

CloseRequests(s) == /\ pc[s] # "idle" /\ ~ winch[s].closed
                    /\ winch' = [winch EXCEPT ![s].closed = TRUE]
                    /\ UNCHANGED <<sessionVars, programVars, win, resizes, panicked, ctxDone>>

Disconnect(s) == /\ pc[s] # "idle" /\ ~ ctxDone[s]
                 /\ ctxDone' = [ctxDone EXCEPT ![s] = TRUE]
                 /\ UNCHANGED <<sessionVars, programVars, windowVars>>
=============================================================================
