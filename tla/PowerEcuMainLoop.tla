-------------------------- MODULE PowerEcuMainLoop --------------------------
(***************************************************************************)
(* hsrb_power_ecu/src/main_loop.cpp: the node's single thread, which calls *)
(* PowerEcuProtocol in a fixed order: Init (GetPowerEcuVersions), Start    *)
(* (ProcessCommandQueue), the 100 Hz loop with the LED subscriber, Stop    *)
(* (ProcessCommandQueue again) and Close. Every step of the thread is one  *)
(* call; the power ECU, the clock and the shutdown signal run beside it.   *)
(* The publishers only read the decoded parameters and are left out.       *)
(***************************************************************************)
EXTENDS PowerEcuProtocol

CONSTANTS
  Colors,          \* colours of std_msgs/ColorRGBA after the clamp to bytes
  Black,           \* the value-initialised led_color_
  ProcessTimeout   \* kProcessCommandQueueTimeOut, in units of the clock

ASSUME ColorsAssumption == Black \in Colors
ASSUME ProcessTimeoutAssumption == /\ ProcessTimeout \in Nat
                                   /\ ProcessTimeout + MaxSleep <= CommandTimeout
ASSUME SetupAssumption == /\ MaxCommands >= 4
                          /\ QueueSize >= 3
                          /\ {"time_", "mute_", "start", "stop_"} \subseteq Names

(* The commands of Start(), in order. *)
SetupCommands == <<"time_", "mute_", "start">>

VARIABLES
  stage,       \* which call of main() is running
  point,       \* where in its loop it is; in stage "exit", the exit status
  ok,          \* rclcpp::ok()
  elapsed,     \* clock_->now() - start_time of the running call, up to
               \* CommandTimeout + 1
  led_color_,  \* the parameter "led_color" the ledc_ encoder reads
  shown        \* history: led_color_ at the time each command was sent

mainVars == <<stage, point, ok, elapsed, led_color_, shown>>
allVars == <<vars, mainVars>>

Stages == {"init", "start", "run", "stop", "exit"}
Points == {"queue", "send", "sleep", "receive", "spin", "success", "failure", "crash"}

MainInit ==
  /\ Init
  /\ stage = "init" /\ point = "send"
  /\ ok = TRUE
  /\ elapsed = 0
  /\ led_color_ = Black
  /\ shown = [c \in Commands |-> Black]

At(s, p) == stage = s /\ point = p
Goto(s, p) == stage' = s /\ point' = p
Exit(status) == Goto("exit", status)

----------------------------------------------------------------------------
(* GetPowerEcuVersions, the send loop: it gives up at the first failure,   *)
(* whatever kRetryCount says (++retry; if (retry <= kRetryCount) return).  *)
QueryVersion ==
  /\ At("init", "send")
  /\ SendGetVersion
  /\ Goto("init", "receive")
  /\ UNCHANGED <<ok, elapsed, led_color_, shown>>

QueryVersionFails ==
  /\ At("init", "send")
  /\ SendGetVersionFails
  /\ Exit("failure")
  /\ UNCHANGED <<ok, elapsed, led_color_, shown>>

(* The timer of GetPowerEcuVersions. Mutant: it never runs out. *)
VersionNeverExpires == FALSE
VersionExpired == elapsed > CommandTimeout

(* GetPowerEcuVersions, one turn of the receive loop, and what Init makes  *)
(* of the version: with an unknown one it registers no command, returns    *)
(* true all the same, and Start dereferences a null pointer.               *)
AwaitVersion ==
  /\ At("init", "receive")
  /\ \E result \in ReceiveResults :
       /\ ReceiveAll(result)
       /\ \/ /\ result # "success" /\ ExceedsRetryRate(read_error_counter_')
             /\ Exit("failure")
          \/ /\ ~(result # "success" /\ ExceedsRetryRate(read_error_counter_'))
             /\ \/ version_' = 0 /\ Goto("start", "queue")
                \/ version_' = 1 /\ Exit("crash")
                \/ version_' = NoReply /\ VersionExpired /\ Exit("failure")
                \/ version_' = NoReply /\ ~VersionExpired /\ Goto("init", "sleep")
  /\ UNCHANGED <<ok, elapsed, led_color_, shown>>

(* Start: the parameters are set and the three commands queued. *)
QueueSetup ==
  /\ At("start", "queue")
  /\ AddCommandQueue(SetupCommands[Len(added) + 1])
  /\ point' = IF Len(added') = Len(SetupCommands) THEN "send" ELSE "queue"
  /\ elapsed' = 0
  /\ UNCHANGED <<stage, ok, led_color_, shown>>

(* Stop: main() calls it once rclcpp::ok() is false.  *)
QueueStop ==
  /\ At("run", "receive")
  /\ ~ok
  /\ AddCommandQueue("stop_")
  /\ Goto("stop", "send")
  /\ elapsed' = 0
  /\ UNCHANGED <<ok, led_color_, shown>>

----------------------------------------------------------------------------
(* SendAll as the node sees it: a ledc_ frame carries the colour of the    *)
(* moment it is encoded, not of the moment it was queued.                  *)
Send(result) ==
  /\ SendAll(result)
  /\ shown' = [c \in Commands |-> IF c \in sent' \ sent THEN led_color_ ELSE shown[c]]

(* ProcessCommandQueue(check_ros = true): the loop test... *)
QueueProcessed == command_queue_ = <<>> \/ ~ok

ProcessReturns ==
  /\ stage \in {"start", "stop"} /\ point = "send"
  /\ QueueProcessed
  /\ IF stage = "start" THEN Goto("run", "receive") ELSE Exit("success")
  /\ UNCHANGED <<vars, ok, elapsed, led_color_, shown>>

(* ...one SendAll... *)
ProcessSend ==
  /\ stage \in {"start", "stop"} /\ point = "send"
  /\ ~QueueProcessed
  /\ \E result \in {"success", "network_down"} :
       /\ Send(result)
       /\ IF result # "success" /\ ExceedsRetryRate(write_error_counter_')
          THEN Exit("failure") ELSE Goto(stage, "sleep")
  /\ UNCHANGED <<ok, elapsed, led_color_>>

(* ...and, after the sleep, one ReceiveAll and the two reasons to give up. *)
(* Mutant of ProcessExpired: only the error rates end the loop. *)
ProcessNeverExpires == FALSE
ProcessExpired == elapsed > ProcessTimeout

ProcessReceive ==
  /\ stage \in {"start", "stop"} /\ point = "receive"
  /\ \E result \in ReceiveResults :
       /\ ReceiveAll(result)
       /\ IF \/ result # "success" /\ ExceedsRetryRate(read_error_counter_')
             \/ ProcessExpired
          THEN Exit("failure") ELSE Goto(stage, "send")
  /\ UNCHANGED <<ok, elapsed, led_color_, shown>>

----------------------------------------------------------------------------
(* The main loop: ReceiveAll, SendAll (their results are not looked at),   *)
(* the callbacks, sleep.                                                   *)
RunReceive(result) ==
  /\ At("run", "receive") /\ ok
  /\ ReceiveAll(result)
  /\ Goto("run", "send")
  /\ UNCHANGED <<ok, elapsed, led_color_, shown>>

RunSend(result) ==
  /\ At("run", "send")
  /\ Send(result)
  /\ Goto("run", "spin")
  /\ UNCHANGED <<ok, elapsed, led_color_>>

(* spin_some with no message, or one with the present colour. *)
SpinIdle ==
  /\ At("run", "spin")
  /\ Goto("run", "sleep")
  /\ UNCHANGED <<vars, ok, elapsed, led_color_, shown>>

(* Mutant of LedCallback: a colour is not queued behind a ledc_ that waits.*)
LedCallbackCoalesces(color) ==
  /\ Len(added) < MaxCommands - 1
  /\ color # led_color_
  /\ led_color_' = color
  /\ IF \E i \in DOMAIN command_queue_ : added[command_queue_[i]] = "ledc_"
     THEN UNCHANGED vars
     ELSE AddCommandQueue("ledc_")

(* LedCommandSubscriber::Callback; one place is kept for Stop. *)
LedCallback(color) ==
  /\ Len(added) < MaxCommands - 1
  /\ color # led_color_
  /\ led_color_' = color
  /\ AddCommandQueue("ledc_")

SpinLed ==
  /\ At("run", "spin")
  /\ \E color \in Colors : LedCallback(color)
  /\ Goto("run", "sleep")
  /\ UNCHANGED <<ok, elapsed, shown>>

(* WallRate::sleep of the three loops. *)
Sleep ==
  /\ point = "sleep"
  /\ \E d \in 1..MaxSleep :
       /\ Elapse(d)
       /\ elapsed' = IF stage = "run" THEN 0 ELSE AtMost(CommandTimeout + 1, elapsed + d)
  /\ Goto(stage, "receive")
  /\ UNCHANGED <<ok, led_color_, shown>>

(* SIGINT: rclcpp::ok() turns false at any moment. *)
Shutdown ==
  /\ ok /\ stage # "exit"
  /\ ok' = FALSE
  /\ UNCHANGED <<vars, stage, point, elapsed, led_color_, shown>>

EcuStep == Ecu /\ UNCHANGED mainVars

Terminated == stage = "exit" /\ UNCHANGED allVars

Main ==
  \/ QueryVersion \/ QueryVersionFails \/ AwaitVersion
  \/ QueueSetup \/ QueueStop
  \/ ProcessReturns \/ ProcessSend \/ ProcessReceive
  \/ \E result \in ReceiveResults : RunReceive(result)
  \/ \E result \in {"success", "network_down"} : RunSend(result)
  \/ SpinIdle \/ SpinLed
  \/ Sleep

MainNext == Main \/ Shutdown \/ EcuStep \/ Terminated

MainSpec == MainInit /\ [][MainNext]_allVars

(***************************************************************************)
(* Fairness. The thread keeps running and the line drains. In the main     *)
(* loop the port is not dead for ever: a Receive that is tried again and   *)
(* again succeeds again and again (the ECU streams status frames at 100 Hz *)
(* once "start" was executed), and so does a Send. Nothing is assumed of   *)
(* the calls before the main loop, of the answers of the ECU, of messages  *)
(* on the LED topic or of a shutdown.                                      *)
(***************************************************************************)
ReceivesAgain == \E result \in ReceiveResults \ {"network_down"} : RunReceive(result)
SendsAgain == RunSend("success")

ThreadFairness == WF_allVars(Main) /\ WF_allVars(EcuStep)
PortFairness == SF_allVars(ReceivesAgain) /\ SF_allVars(SendsAgain)

ThreadFairSpec == MainSpec /\ ThreadFairness
FairSpec == MainSpec /\ ThreadFairness /\ PortFairness

----------------------------------------------------------------------------
(* Properties *)

MainTypeOK ==
  /\ TypeOK
  /\ stage \in Stages
  /\ point \in Points
  /\ ok \in BOOLEAN
  /\ elapsed \in 0..(CommandTimeout + 1)
  /\ led_color_ \in Colors
  /\ shown \in [Commands -> Colors]

Setup == 1..Len(SetupCommands)
LedCommands == {c \in 1..Len(added) : added[c] = "ledc_"}

(***************************************************************************)
(* What a successful Start means. Its timer (kProcessCommandQueueTimeOut)  *)
(* is shorter than the ack timer, so no set-up command is ever given up    *)
(* silently: by the time the LED topic can queue a command, the clock, the *)
(* amplifier and the periodic frames have each got an answer. (An answer,  *)
(* not a success: ProcessCommandQueue does not tell a refusal.)            *)
(***************************************************************************)
SetupAnswered ==
  /\ \A c \in Setup : fate[c] # "timed_out"
  /\ LedCommands # {} => \A c \in Setup : fate[c] \in {"acked", "refused"}

(***************************************************************************)
(* The ECU shows the colour of the last LED command it carried out. Once   *)
(* that is the newest one, the colour is the one the topic asked for last, *)
(* though the colours in between may never have been on the line: a queued *)
(* ledc_ is encoded when it is sent (LedCommandSubscriber, SendCommand).   *)
(* It is not when the newest one was refused or lost, and the callback     *)
(* then ignores the same colour (see the README).                          *)
(***************************************************************************)
LedConverges ==
  \A c \in LedCommands \cap executed :
    (\A d \in LedCommands : d <= c) => shown[c] = led_color_

(***************************************************************************)
(* "End communication" (Stop, power_ecu_protocol.hpp) and "Process all     *)
(* command queues" (ProcessCommandQueue): a node that ended well has sent  *)
(* stop_ to the ECU. Not so: see the run that checks it.                   *)
(***************************************************************************)
StopIsSent ==
  At("exit", "success") => \E c \in sent : added[c] = "stop_"

(***************************************************************************)
(* Start-up ends whatever the ECU and the port do: in the main loop or in  *)
(* an exit (the timers of GetPowerEcuVersions and ProcessCommandQueue).    *)
(***************************************************************************)
StartupEnds == <>(stage \in {"run", "stop", "exit"})

(* A shutdown signal ends the process from every point of every loop. *)
ShutdownEnds == ~ok ~> stage = "exit"

(***************************************************************************)
(* In the main loop every accepted command is completed: acknowledged,     *)
(* refused, timed out or overwritten. It takes a port that receives; see   *)
(* CommandsComplete under ThreadFairSpec.                                  *)
(***************************************************************************)
CommandsComplete ==
  \A c \in Commands :
    (stage = "run" /\ c <= Len(added)) ~> (fate[c] # "pending" \/ stage # "run")

(***************************************************************************)
(* Heartbeats go out for ever while the main loop runs, also while an ack  *)
(* is awaited that never comes (SendAll).                                  *)
(***************************************************************************)
HeartbeatOnLine == to_ecu # <<>> /\ to_ecu[Len(to_ecu)] = HEART
HeartbeatsGoOn == <>[](stage = "run") => []<>HeartbeatOnLine
=============================================================================
