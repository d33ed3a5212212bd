------------------------ MODULE ServerLifecycleProofs ------------------------
(***************************************************************************)
(* The safety properties of ServerLifecycle, for any set of monitored      *)
(* signals and any number of signals sent.                                 *)
(***************************************************************************)
EXTENDS ServerLifecycle, SequenceTheorems, TLAPS

LEMMA TypeInit == Init => TypeOK
<1> SUFFICES ASSUME Init PROVE TypeOK
  OBVIOUS
<1>1. stopFlag \in BOOLEAN /\ callback \in BOOLEAN
  BY Zenon DEF Init
<1> QED
  BY <1>1, MaxSignalsAssumption DEF Init, TypeOK, None

LEMMA TypeMain == TypeOK /\ (MainStep \/ LeaveEventLoop) => TypeOK'
<1> SUFFICES ASSUME TypeOK, MainStep \/ LeaveEventLoop PROVE TypeOK'
  OBVIOUS
<1> USE DEF TypeOK, MainGoes
<1>1. CASE MakeSignalHandler
  BY <1>1 DEF MakeSignalHandler
<1>2. CASE RegisterCallback
  BY <1>2 DEF RegisterCallback
<1>3. CASE StartMonitor
  BY <1>3 DEF StartMonitor
<1>4. CASE MakeServer
  BY <1>4 DEF MakeServer
<1>5. CASE RegisterHandlers
  BY <1>5 DEF RegisterHandlers
<1>6. CASE StartServer
  BY <1>6 DEF StartServer
<1>7. CASE Throws
  BY <1>7 DEF Throws
<1>8. CASE EndProcess
  BY <1>8 DEF EndProcess
<1>9. CASE LeaveEventLoop
  BY <1>9 DEF LeaveEventLoop
<1> QED
  BY <1>1, <1>2, <1>3, <1>4, <1>5, <1>6, <1>7, <1>8, <1>9 DEF MainStep

LEMMA TypeSend ==
  ASSUME TypeOK, NEW s \in Signals, Send(s)
  PROVE  TypeOK'
<1>1. sent' \in 0..MaxSignals
  BY MaxSignalsAssumption DEF Send, TypeOK
<1>2. pipe' \in Seq(Signals) /\ Len(pipe') + Len(batch') <= sent'
  <2>1. CASE pipe' = Append(pipe, s)
    BY <2>1 DEF Send, TypeOK
  <2>2. CASE pipe' = pipe
    BY <2>2 DEF Send, TypeOK
  <2> QED
    BY <2>1, <2>2 DEF Send
<1> QED
  BY <1>1, <1>2 DEF Send, TypeOK

LEMMA TypeMonitor == TypeOK /\ MonitorStep => TypeOK'
<1> SUFFICES ASSUME TypeOK, MonitorStep PROVE TypeOK'
  OBVIOUS
<1> USE DEF TypeOK, MonitorGoes
<1>1. CASE Poll
  BY <1>1 DEF Poll
<1>2. CASE StopPolling
  BY <1>2 DEF StopPolling
<1>3. CASE OnSignal
  <2>1. /\ Head(batch) \in Signals
        /\ Tail(batch) \in Seq(Signals)
        /\ Len(Tail(batch)) = Len(batch) - 1
    BY <1>3, HeadTailProperties DEF OnSignal
  <2> QED
    BY <1>3, <2>1 DEF OnSignal
<1>4. CASE SkipSignal
  <2>1. /\ Tail(batch) \in Seq(Signals)
        /\ Len(Tail(batch)) = Len(batch) - 1
    BY <1>4, HeadTailProperties DEF SkipSignal
  <2> QED
    BY <1>4, <2>1 DEF SkipSignal
<1>5. CASE BatchDone
  BY <1>5 DEF BatchDone
<1>6. CASE TestServer
  <2>1. calls' \in [Signals -> Nat]
    <3>1. calls' = [calls EXCEPT ![signum] = calls[signum] + 1]
      BY <1>6 DEF TestServer
    <3>2. \A s \in Signals : calls'[s] = calls[s] \/ calls'[s] = calls[s] + 1
      BY <3>1
    <3>3. \A s \in Signals : calls'[s] \in Nat
      <4> TAKE s \in Signals
      <4> QED
        BY <3>2
    <3> QED
      BY <3>1, <3>3
  <2>2. monitor' \in {"stop", "stop_handle"}
    BY <1>6 DEF TestServer
  <2>3. UNCHANGED <<main, process, callback, server, sent, action, pipe, batch,
                    signum, stopFlag>>
    BY <1>6 DEF TestServer
  <2> QED
    BY <2>1, <2>2, <2>3
<1>7. CASE Stop
  BY <1>7 DEF Stop
<1>8. CASE StopHandle
  BY <1>8 DEF StopHandle
<1> QED
  BY <1>1, <1>2, <1>3, <1>4, <1>5, <1>6, <1>7, <1>8 DEF MonitorStep

LEMMA TypeStep == TypeOK /\ [Next]_vars => TypeOK'
  BY TypeMain, TypeSend, TypeMonitor DEF Next, Ended, vars, TypeOK

-------------------------------------------------------------------------------
(* The thread is inside OnSignal. *)
Answering == monitor \in {"callback", "stop", "stop_handle"}

(* The thread exists only when the callback is set, and OnSignal has a     *)
(* signal; a signal that was answered is not caught any more unless it is  *)
(* the one being answered; the answer is counted between "callback" and    *)
(* the rest of OnSignal; g_server_ never becomes null again.               *)
AnswerInv ==
  /\ main \in {"enter", "made", "registered"} => monitor = None
  /\ main \notin {"enter", "made"} => callback
  /\ main = "enter" => \A s \in Signals : calls[s] = 0
  /\ Answering => signum \in Signals
  /\ monitor = "callback" => calls[signum] = 0
  /\ monitor \in {"stop", "stop_handle"} => calls[signum] = 1
  /\ \A s \in Signals :
       \/ calls[s] = 0
       \/ /\ calls[s] = 1
          /\ action[s] = "default" \/ (Answering /\ signum = s)
  /\ StopHasServer

LEMMA AnswerInit == Init => AnswerInv
  BY DEF Init, AnswerInv, Answering, StopHasServer, None

LEMMA AnswerMain == TypeOK /\ AnswerInv /\ (MainStep \/ LeaveEventLoop)
                      => AnswerInv'
<1> SUFFICES ASSUME TypeOK, AnswerInv, MainStep \/ LeaveEventLoop
             PROVE  AnswerInv'
  OBVIOUS
<1> USE DEF TypeOK, AnswerInv, Answering, StopHasServer, MainGoes, None
<1>1. CASE MakeSignalHandler
  BY <1>1 DEF MakeSignalHandler
<1>2. CASE RegisterCallback
  BY <1>2 DEF RegisterCallback
<1>3. CASE StartMonitor
  BY <1>3 DEF StartMonitor
<1>4. CASE MakeServer
  BY <1>4 DEF MakeServer
<1>5. CASE RegisterHandlers
  BY <1>5 DEF RegisterHandlers
<1>6. CASE StartServer
  BY <1>6 DEF StartServer
<1>7. CASE Throws
  BY <1>7 DEF Throws
<1>8. CASE EndProcess
  BY <1>8 DEF EndProcess
<1>9. CASE LeaveEventLoop
  BY <1>9 DEF LeaveEventLoop
<1> QED
  BY <1>1, <1>2, <1>3, <1>4, <1>5, <1>6, <1>7, <1>8, <1>9 DEF MainStep

LEMMA AnswerSend ==
  ASSUME TypeOK, AnswerInv, NEW s \in Signals, Send(s)
  PROVE  AnswerInv'
  BY DEF Send, TypeOK, AnswerInv, Answering, StopHasServer

LEMMA AnswerMonitor == TypeOK /\ AnswerInv /\ MonitorStep => AnswerInv'
<1> SUFFICES ASSUME TypeOK, AnswerInv, MonitorStep PROVE AnswerInv'
  OBVIOUS
<1> USE DEF TypeOK, AnswerInv, Answering, StopHasServer, MonitorGoes, None
<1>1. CASE Poll
  BY <1>1 DEF Poll
<1>2. CASE StopPolling
  BY <1>2 DEF StopPolling
<1>3. CASE OnSignal
  <2>1. Head(batch) \in Signals
    BY <1>3, HeadTailProperties DEF OnSignal
  <2>2. monitor' = "callback"
    BY <1>3 DEF OnSignal
  <2>3. calls[Head(batch)] = 0
    BY <1>3, <2>1 DEF OnSignal
  <2>4. /\ UNCHANGED <<main, callback, server, action, calls>>
        /\ signum' = Head(batch)
        /\ monitor = "dispatch"
    BY <1>3 DEF OnSignal
  <2>5. ASSUME NEW s \in Signals
        PROVE  calls'[s] = 0 \/ (calls'[s] = 1 /\ action'[s] = "default")
    BY <2>4
  <2> QED
    BY <2>1, <2>2, <2>3, <2>4, <2>5
<1>4. CASE SkipSignal
  BY <1>4 DEF SkipSignal
<1>5. CASE BatchDone
  BY <1>5 DEF BatchDone
<1>6. CASE TestServer
  BY <1>6 DEF TestServer
<1>7. CASE Stop
  BY <1>7 DEF Stop
<1>8. CASE StopHandle
  BY <1>8 DEF StopHandle
<1> QED
  BY <1>1, <1>2, <1>3, <1>4, <1>5, <1>6, <1>7, <1>8 DEF MonitorStep

LEMMA AnswerStep == TypeOK /\ AnswerInv /\ [Next]_vars => AnswerInv'
<1>1. TypeOK /\ AnswerInv /\ UNCHANGED vars => AnswerInv'
  BY DEF vars, AnswerInv, Answering, StopHasServer
<1> QED
  BY <1>1, AnswerMain, AnswerSend, AnswerMonitor DEF Next, Ended

-------------------------------------------------------------------------------
(* The variables of main(), of SignalHandler and of libuv keep their       *)
(* types, and libuv hands on no more signals than were sent.               *)
THEOREM LifecycleTypeCorrect == Spec => []TypeOK
  BY TypeInit, TypeStep, PTL DEF Spec

LEMMA AnswerInvariant == Spec => [](TypeOK /\ AnswerInv)
  BY TypeInit, TypeStep, AnswerInit, AnswerStep, PTL DEF Spec

(* OnSignal always finds the callback set by RegisterCallback, whenever    *)
(* the signal comes.                                                       *)
THEOREM CallbackIsReady == Spec => []CallbackReady
<1>1. TypeOK /\ AnswerInv => CallbackReady
  BY DEF TypeOK, AnswerInv, CallbackReady
<1> QED
  BY <1>1, AnswerInvariant, PTL

(* uv_signal_stop in OnSignal lets each signal number have its callback at *)
(* most once, however many are sent and however they are read.             *)
THEOREM AnsweredAtMostOnce == Spec => []AnsweredOnce
<1>1. TypeOK /\ AnswerInv => AnsweredOnce
  <2> SUFFICES ASSUME AnswerInv, NEW s \in Signals PROVE calls[s] <= 1
    BY DEF AnsweredOnce
  <2>1. calls[s] = 0 \/ calls[s] = 1
    BY DEF AnswerInv
  <2> QED
    BY <2>1
<1> QED
  BY <1>1, AnswerInvariant, PTL

(* CaptureSignalDefault's test of g_server_ keeps Stop from being called   *)
(* through null, since g_server_ never becomes null again.                 *)
THEOREM StopAlwaysHasServer == Spec => []StopHasServer
<1>1. AnswerInv => StopHasServer
  BY DEF AnswerInv
<1> QED
  BY <1>1, AnswerInvariant, PTL
===============================================================================
