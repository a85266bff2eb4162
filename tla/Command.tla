------------------------------ MODULE Command ------------------------------
(***************************************************************************)
(* cmd/bonk and cmd/holos: a command runs the driver under a display,      *)
(* pkg/observer/bubbletea, and ends the display when the driver has        *)
(* succeeded.                                                              *)
(*                                                                         *)
(* The display is a goroutine with an event loop.  It is sent messages by  *)
(* the goroutines that notify it of the driver's tasks (Observable) and by *)
(* those that print what is logged: as long as it runs, it is the default  *)
(* logger.  It also ends when the user presses ctrl-c, or when the program *)
(* fails by itself; the driver is told of neither.                         *)
(***************************************************************************)
EXTENDS Driver

CONSTANT MaxLogs   \* bound on the records that are logged

ASSUME CommandAssumption == MaxLogs \in Nat

VARIABLES
  cmd,          \* where RunE is: in driver.Run or Quit, or how it has ended
  display,      \* the event loop
  logger,       \* slog.Default(): the display, or what was there before it
  cutShort,     \* has ctrl-c or an error of its own ended the display?
  notices,      \* goroutines that have a message for the display: [task, status]
  missed,       \* has a message come when the event loop had ended?
  printing,     \* goroutines that have a line for the display
  chained,      \* the loggers that in-process plugins log to: logger when called
  logs          \* records so far

screen == <<display, logger, cutShort, notices, missed, printing>>
console == <<cmd, screen, chained, logs>>
commandVars == <<vars, console>>

Msg(t, status) == [task |-> t, status |-> status]
Msgs == [task : Tasks, status : {"running", "done", "failed"}]

(* bubbletea.New has replaced the default logger; the driver is called.    *)
CommandInit ==
  /\ Init
  /\ cmd = "driver"
  /\ display = "running" /\ logger = "display" /\ cutShort = FALSE
  /\ notices = {} /\ missed = FALSE
  /\ printing = 0 /\ logs = 0
  /\ chained = [t \in Tasks |-> "nothing"]

-----------------------------------------------------------------------------
(* driver.Run, with the display as its observer.                           *)

Waiter(s) == {n \in notices : Home[n.task] = s}

(* Observable's CloseSession waits for the messages of the session.        *)
Closes == phase = "close" => Waiter(session) = {}

Drive ==
  /\ cmd = "driver" /\ phase \notin {"ok", "failed"}
  /\ RunStep \/ \E p \in Plugins : Starting(p)
  /\ (readers[Main] = 0 /\ readers'[Main] = 1) => Closes
  /\ UNCHANGED console

(* A task is told of before and after it is executed.  An executor of the   *)
(* process itself logs to what is the default logger at its start.         *)
Executes(t) ==
  /\ cmd = "driver"
  /\ \/ /\ Execute(t)
        /\ notices' = notices \cup {Msg(t, "running")}
        /\ chained' = [chained EXCEPT ![t] = IF on'[t] \subseteq Plugins THEN "nothing" ELSE logger]
     \/ /\ Executed(t)
        /\ notices' = notices \cup {Msg(t, task'[t])}
        /\ UNCHANGED chained
  /\ UNCHANGED <<cmd, display, logger, cutShort, missed, printing, logs>>

-----------------------------------------------------------------------------
(* The display.                                                            *)

(* program.Send: taken by the event loop, or dropped once it has ended.    *)
Send(n) ==
  /\ cmd \in {"driver", "quit", "waiting"} /\ n \in notices
  /\ notices' = notices \ {n}
  /\ missed' = (missed \/ display = "ended")
  /\ UNCHANGED <<vars, cmd, display, logger, cutShort, printing, chained, logs>>

(* A task logs.  The default logger of a process that has the display does *)
(* not look for a logger in the context; the one before it does, and where *)
(* the plugin's own logger was chained to it, calls itself without end.    *)
Log(t) ==
  /\ cmd = "driver" /\ task[t] = "executing" /\ logs < MaxLogs
  /\ logs' = logs + 1
  /\ LET to == IF logger = "display" \/ chained[t] = "nothing" THEN logger ELSE chained[t] IN
     /\ printing' = IF to = "display" THEN printing + 1 ELSE printing
     /\ cmd' = IF logger = "plain" /\ chained[t] = "plain" THEN "crashed" ELSE cmd
  /\ UNCHANGED <<vars, display, logger, cutShort, notices, missed, chained>>

(* program.Printf: like Send, but when the event loop has ended it may       *)
(* return or not.                                                          *)
PrintLine ==
  /\ cmd \in {"driver", "quit", "waiting"} /\ printing > 0
  /\ display # "ended"
  /\ printing' = printing - 1
  /\ UNCHANGED <<vars, cmd, display, logger, cutShort, notices, missed, chained, logs>>

PrintInVain ==
  /\ cmd \in {"driver", "quit", "waiting"} /\ printing > 0
  /\ display = "ended"
  /\ printing' = printing - 1
  /\ UNCHANGED <<vars, cmd, display, logger, cutShort, notices, missed, chained, logs>>

(* ctrl-c: the model's Update returns tea.Quit.                            *)
Interrupt ==
  /\ cmd \in {"driver", "quit"} /\ display = "running"
  /\ cutShort' = TRUE
  /\ display' = "quitting"
  /\ UNCHANGED <<vars, cmd, logger, notices, missed, printing, chained, logs>>

(* program.Run returns after ctrl-c or Quit.                               *)
LoopEnds ==
  /\ display = "quitting" /\ cmd \in {"driver", "quit", "waiting"}
  /\ display' = "ended"
  /\ UNCHANGED <<vars, cmd, logger, cutShort, notices, missed, printing, chained, logs>>

(* program.Run returns an error: there is no terminal to use, or it was     *)
(* lost.                                                                   *)
RunFails ==
  /\ display \in {"running", "quitting"} /\ cmd \in {"driver", "quit", "waiting"}
  /\ display' = "ended"
  /\ cutShort' = TRUE
  /\ UNCHANGED <<vars, cmd, logger, notices, missed, printing, chained, logs>>

(* Run has returned: its goroutine puts the logger back.  An error is then  *)
(* logged to that logger, for no task, so that no other one is chained.    *)
Restore ==
  /\ display = "ended" /\ logger = "display" /\ cmd \in {"driver", "quit", "waiting"}
  /\ logger' = "plain"
  /\ UNCHANGED <<vars, cmd, display, cutShort, notices, missed, printing, chained, logs>>

-----------------------------------------------------------------------------
(* RunE and main.                                                          *)

(* An error is logged, to a display that nobody waits for, and ends the    *)
(* process.                                                                *)
DriverReturns ==
  /\ cmd = "driver" /\ phase \in {"ok", "failed"}
  /\ IF phase = "ok" THEN cmd' = "quit" /\ UNCHANGED printing
     ELSE /\ cmd' = "failed"
          /\ printing' = IF logger = "display" THEN printing + 1 ELSE printing
  /\ UNCHANGED <<vars, display, logger, cutShort, notices, missed, chained, logs>>

(* Mistake: Quit does not send anything.                                   *)
QuitSilently ==
  /\ cmd = "quit"
  /\ cmd' = "waiting"
  /\ UNCHANGED <<vars, screen, chained, logs>>

(* Quit: the event loop takes the message, unless it ends anyway.          *)
Quit ==
  /\ cmd = "quit"
  /\ cmd' = "waiting"
  /\ display' = IF display = "running" THEN "quitting" ELSE display
  /\ UNCHANGED <<vars, logger, cutShort, notices, missed, printing, chained, logs>>

(* Mistake: nobody waits.                                                  *)
WaitNot ==
  /\ cmd = "waiting"
  /\ cmd' = "ok"
  /\ UNCHANGED <<vars, screen, chained, logs>>

Wait ==
  /\ cmd = "waiting"
  /\ logger = "plain" /\ printing = 0
  /\ cmd' = "ok"
  /\ UNCHANGED <<vars, screen, chained, logs>>

Display == LoopEnds \/ RunFails \/ Restore \/ PrintLine \/ \E n \in notices : Send(n)

Command == DriverReturns \/ Quit \/ Wait

CommandNext ==
  \/ Drive \/ Display \/ Interrupt \/ PrintInVain \/ Command
  \/ \E t \in Tasks : Executes(t) \/ Log(t)

(* Goroutines that can run do, and executors answer.  Nobody has to press  *)
(* ctrl-c or to log, Run need not fail, nor Printf return after the end.   *)
CommandSpec ==
  /\ CommandInit /\ [][CommandNext]_commandVars
  /\ WF_commandVars(Drive)
  /\ \A t \in Tasks : WF_commandVars(Executes(t))
  /\ WF_commandVars(LoopEnds) /\ WF_commandVars(Restore) /\ WF_commandVars(PrintLine)
  /\ \A n \in Msgs : WF_commandVars(Send(n))
  /\ WF_commandVars(Command)
-----------------------------------------------------------------------------
(* Properties.                                                             *)

(* A command that ends well has closed its sessions, left the terminal and *)
(* the logger as they were, and printed everything; unless ctrl-c or an      *)
(* error of its own ended the display before, it has been shown how every   *)
(* task began and ended.                                                   *)
ExitIsClean ==
  cmd = "ok" =>
    /\ phase = "ok" /\ \A s \in Sessions : opened[s] = {}
    /\ display = "ended" /\ logger = "plain" /\ printing = 0
    /\ notices = {}
    /\ missed => cutShort

(* The command returns, but for two cases: a line was logged that came too  *)
(* late for the display, or the display had ended before, by ctrl-c or by  *)
(* an error, and an executor of the process itself logged to a logger that *)
(* is chained to itself.                                                   *)
CommandReturns ==
  <>(\/ cmd \in {"ok", "failed"}
     \/ cmd = "waiting" /\ display = "ended" /\ printing > 0
     \/ cmd = "crashed" /\ cutShort)
=============================================================================
