--------------------------- MODULE ServerLifecycle ---------------------------
(***************************************************************************)
(* A process from main()'s first line to its end: main.cc, SignalHandler   *)
(* and the life of H2OServer around its event loop.  What the event loop   *)
(* does with requests is the subject of Dispatcher.                        *)
(*                                                                         *)
(* Three parties interleave: main(), the thread SignalHandler::Start makes *)
(* to run a libuv loop, and the operating system sending signals.  libuv   *)
(* catches a signal in an OS handler that writes it to a pipe; uv_run      *)
(* reads what the pipe holds and calls OnSignal for each signal read whose *)
(* handle is still started.  uv_signal_stop gives the signal its default   *)
(* action back, which for these signals ends the process.                  *)
(***************************************************************************)
EXTENDS Naturals, Sequences

CONSTANTS
  Signals,    \* signals InitializeDefaultSignals starts: SIGINT, SIGTERM
  MaxSignals  \* bound: signals the process is sent

ASSUME MaxSignalsAssumption == MaxSignals \in Nat

VARIABLES
  main,      \* where main() is
  process,   \* "running", or how it ended
  action,    \* of each signal: caught by "libuv", or the "default"
  pipe,      \* signals caught and not yet read by uv_run
  batch,     \* signals read and not yet dispatched
  monitor,   \* where thread_ is, or "none"
  signum,    \* argument of OnSignal
  stopFlag,  \* uv_stop was called
  callback,  \* callback_ is set
  server,    \* g_server_
  sent,      \* signals sent so far
  calls      \* history: how often callback_ was called for each signal

vars == <<main, process, action, pipe, batch, monitor, signum, stopFlag,
          callback, server, sent, calls>>

None == "none"

Init ==
  /\ main = "enter"
  /\ process = "running"
  /\ action = [s \in Signals |-> "default"]
  /\ pipe = << >>
  /\ batch = << >>
  /\ monitor = None
  /\ signum = None
  /\ stopFlag = FALSE
  /\ callback = FALSE
  /\ server = "null"
  /\ sent = 0
  /\ calls = [s \in Signals |-> 0]

-------------------------------------------------------------------------------
(* main().                                                                 *)

(* main() goes from one place to the next; signals stay where they are. *)
MainGoes(from, to) ==
  /\ process = "running"
  /\ main = from
  /\ main' = to
  /\ UNCHANGED <<process, pipe, batch, signum, stopFlag, sent, calls>>

(* A mistake to catch: a handle that fails to start is in no state. *)
MakeStartedHandles ==
  /\ MainGoes("enter", "made")
  /\ \E started \in SUBSET Signals : action' = [s \in started |-> "libuv"]
  /\ UNCHANGED <<monitor, callback, server>>

(* SignalHandler's constructor.  A handle that fails to start is reported  *)
(* and left.                                                               *)
MakeSignalHandler ==
  /\ MainGoes("enter", "made")
  /\ \E started \in SUBSET Signals :
       action' = [s \in Signals |-> IF s \in started THEN "libuv" ELSE "default"]
  /\ UNCHANGED <<monitor, callback, server>>

RegisterCallback ==
  /\ MainGoes("made", "registered")
  /\ callback' = TRUE
  /\ UNCHANGED <<action, monitor, server>>

(* A mistake to catch: the monitor is started before the callback is set. *)
StartMonitorFirst ==
  /\ MainGoes("made", "monitored")
  /\ monitor' = "poll"
  /\ UNCHANGED <<action, callback, server>>

(* SignalHandler::Start *)
StartMonitor ==
  /\ MainGoes("registered", "monitored")
  /\ monitor' = "poll"
  /\ UNCHANGED <<action, callback, server>>

(* H2OServer's constructor has returned; g_server_ is being assigned. *)
MakeServer ==
  /\ MainGoes("monitored", "assign")
  /\ server' = "assigning"
  /\ UNCHANGED <<action, monitor, callback>>

(* The end of the assignment, and the five calls of RegisterHandler. *)
RegisterHandlers ==
  /\ MainGoes("assign", "start")
  /\ server' = "set"
  /\ UNCHANGED <<action, monitor, callback>>

(* H2OServer::Start, from its first line into RunEventLoop. *)
StartServer ==
  /\ MainGoes("start", "loop")
  /\ UNCHANGED <<action, monitor, callback, server>>

(* h2o_evloop_run reports an error, Start returns and main() returns 0. *)
LeaveEventLoop ==
  /\ MainGoes("loop", "returned")
  /\ UNCHANGED <<action, monitor, callback, server>>

(* std::thread, the constructor of H2OServer or one of the calls in Start  *)
(* fails: main() catches the exception and returns 1.                      *)
Throws ==
  /\ \E at \in {"registered", "monitored", "start"} : MainGoes(at, "returned")
  /\ UNCHANGED <<action, monitor, callback, server>>

(* The globals are destroyed, g_signal_ first: a thread that was started   *)
(* and never joined makes ~thread call std::terminate.                     *)
EndProcess ==
  /\ process = "running"
  /\ main = "returned"
  /\ process' = IF monitor = None THEN "exited" ELSE "aborted"
  /\ UNCHANGED <<main, action, pipe, batch, monitor, signum, stopFlag,
                 callback, server, sent, calls>>

-------------------------------------------------------------------------------
(* The operating system. *)

Send(s) ==
  /\ process = "running"
  /\ sent < MaxSignals
  /\ sent' = sent + 1
  /\ \/ /\ action[s] = "libuv"
        /\ pipe' = Append(pipe, s)
        /\ UNCHANGED process
     \/ /\ action[s] = "default"
        /\ process' = "killed"
        /\ UNCHANGED pipe
  /\ UNCHANGED <<main, action, batch, monitor, signum, stopFlag, callback,
                 server, calls>>

-------------------------------------------------------------------------------
(* thread_, which runs uv_run.                                             *)

(* The thread goes from one place to the next; main()'s state stays. *)
MonitorGoes(from, to) ==
  /\ process = "running"
  /\ monitor = from
  /\ monitor' = to
  /\ UNCHANGED <<main, process, callback, server, sent>>

Alive == \E s \in Signals : action[s] = "libuv"

(* uv_run blocks until the pipe holds something. *)
Poll ==
  /\ MonitorGoes("poll", "dispatch")
  /\ Alive /\ ~stopFlag /\ pipe # << >>
  /\ batch' = pipe
  /\ pipe' = << >>
  /\ UNCHANGED <<action, signum, stopFlag, calls>>

(* A mistake to catch: UV_RUN_NOWAIT, which does not wait for a signal. *)
DoNotWait ==
  /\ MonitorGoes("poll", "ended")
  /\ ~Alive \/ stopFlag \/ pipe = << >>
  /\ UNCHANGED <<action, pipe, batch, signum, stopFlag, calls>>

(* uv_run returns: it was stopped, or no handle is started. *)
StopPolling ==
  /\ MonitorGoes("poll", "ended")
  /\ ~Alive \/ stopFlag
  /\ UNCHANGED <<action, pipe, batch, signum, stopFlag, calls>>

(* OnSignal, when the signal's handle is started. *)
OnSignal ==
  /\ batch # << >>
  /\ action[Head(batch)] = "libuv"
  /\ MonitorGoes("dispatch", IF callback THEN "callback" ELSE "stop_handle")
  /\ signum' = Head(batch)
  /\ batch' = Tail(batch)
  /\ UNCHANGED <<action, pipe, stopFlag, calls>>

SkipSignal ==
  /\ batch # << >>
  /\ action[Head(batch)] # "libuv"
  /\ MonitorGoes("dispatch", "dispatch")
  /\ batch' = Tail(batch)
  /\ UNCHANGED <<action, pipe, signum, stopFlag, calls>>

BatchDone ==
  /\ batch = << >>
  /\ MonitorGoes("dispatch", "poll")
  /\ UNCHANGED <<action, pipe, batch, signum, stopFlag, calls>>

(* A mistake to catch: CaptureSignalDefault without its test. *)
UseServer ==
  /\ MonitorGoes("callback", "stop")
  /\ calls' = [calls EXCEPT ![signum] = @ + 1]
  /\ UNCHANGED <<action, pipe, batch, signum, stopFlag>>

(* CaptureSignalDefault reads g_server_.  While main() assigns it, the     *)
(* unsynchronised read finds the old value or the new one.                 *)
TestServer ==
  /\ \/ server # "null" /\ MonitorGoes("callback", "stop")
     \/ server # "set"  /\ MonitorGoes("callback", "stop_handle")
  /\ calls' = [calls EXCEPT ![signum] = @ + 1]
  /\ UNCHANGED <<action, pipe, batch, signum, stopFlag>>

(* g_server_->Stop(), whose body is empty. *)
Stop ==
  /\ MonitorGoes("stop", "stop_handle")
  /\ UNCHANGED <<action, pipe, batch, signum, stopFlag, calls>>

(* A mistake to catch: OnSignal without uv_signal_stop. *)
StopLoopOnly ==
  /\ MonitorGoes("stop_handle", "dispatch")
  /\ stopFlag' = TRUE
  /\ UNCHANGED <<action, pipe, batch, signum, calls>>

(* The end of OnSignal: uv_signal_stop and uv_stop. *)
StopHandle ==
  /\ MonitorGoes("stop_handle", "dispatch")
  /\ action' = [action EXCEPT ![signum] = "default"]
  /\ stopFlag' = TRUE
  /\ UNCHANGED <<pipe, batch, signum, calls>>

-------------------------------------------------------------------------------
(* The process is over. *)
Ended == process # "running" /\ UNCHANGED vars

MainStep ==
  \/ MakeSignalHandler
  \/ RegisterCallback
  \/ StartMonitor
  \/ MakeServer
  \/ RegisterHandlers
  \/ StartServer
  \/ Throws
  \/ EndProcess

MonitorStep ==
  \/ Poll
  \/ StopPolling
  \/ OnSignal
  \/ SkipSignal
  \/ BatchDone
  \/ TestServer
  \/ Stop
  \/ StopHandle

Next ==
  \/ MainStep
  \/ LeaveEventLoop
  \/ \E s \in Signals : Send(s)
  \/ MonitorStep
  \/ Ended

Spec == Init /\ [][Next]_vars

(* Both threads run; no signal has to be sent and the event loop does not  *)
(* have to fail.                                                           *)
FairSpec == Spec /\ WF_vars(MainStep) /\ WF_vars(MonitorStep)
-------------------------------------------------------------------------------
(* Types.  No signal is in the pipe or read from it more often than it was *)
(* sent.                                                                   *)
TypeOK ==
  /\ main \in {"enter", "made", "registered", "monitored", "assign", "start",
               "loop", "returned"}
  /\ process \in {"running", "exited", "aborted", "killed"}
  /\ action \in [Signals -> {"default", "libuv"}]
  /\ pipe \in Seq(Signals)
  /\ batch \in Seq(Signals)
  /\ Len(pipe) + Len(batch) <= sent
  /\ monitor \in {None, "poll", "dispatch", "callback", "stop", "stop_handle",
                  "ended"}
  /\ signum \in Signals \cup {None}
  /\ stopFlag \in BOOLEAN
  /\ callback \in BOOLEAN
  /\ server \in {"null", "assigning", "set"}
  /\ sent \in 0..MaxSignals
  /\ calls \in [Signals -> Nat]

(* However early a signal comes, OnSignal does not get to "No callback     *)
(* registered": the thread that calls it starts after RegisterCallback.    *)
(* A signal whose handle OnSignal stopped has had its callback.            *)
CallbackReady ==
  \A s \in Signals :
    monitor = "stop_handle" /\ signum = s => calls[s] > 0

(* The callback runs at most once for SIGINT and once for SIGTERM, however *)
(* many of them are sent and however they fall into uv_run's reads.        *)
AnsweredOnce == \A s \in Signals : calls[s] <= 1

(* Stop is never called through a null g_server_, though the monitor runs  *)
(* while main() still makes the server.                                    *)
StopHasServer == monitor = "stop" => server # "null"

(* The first signal that libuv catches leads to a call of the callback,    *)
(* even when it comes before the monitor runs, unless the process ends.    *)
FirstSignalAnswered ==
  pipe # << >> ~> \/ process # "running"
                  \/ \E s \in Signals : calls[s] > 0

-------------------------------------------------------------------------------
(* What the repository says and the code does not do.                      *)

(* "The server will run indefinitely until stopped.  To stop the server,   *)
(* you can call server.stop() from another thread or signal handler"       *)
(* (main.cc, main): a call of Stop by the signal handler, while main() is  *)
(* in the event loop, ends the event loop.                                 *)
StopEndsServer ==
  main = "loop" /\ monitor = "stop" ~> main = "returned" \/ process # "running"
===============================================================================
