----------------------- MODULE MultiThreadedServerProofs -----------------------
(***************************************************************************)
(* The safety properties of MultiThreadedServer, for any number of threads *)
(* and of handlers.                                                        *)
(***************************************************************************)
EXTENDS MultiThreadedServer, TLAPS

Made == {"ready", "disposed"}

(* What Start has done so far: the socket it holds, and how far it is in   *)
(* each of its loops.                                                      *)
SocketInv ==
  /\ bound <= 1
  /\ sockets = IF owner = "bind" THEN bound + 1 ELSE bound
  /\ owner \in {"listen", "make", "init", "watch", "spawn"} => bound = 1
  /\ bound = 0 => threads = << >> /\ \A i \in Index : context[i] = "absent"

ContextInv ==
  /\ owner \in {"listen", "make"} => \A i \in Index : context[i] = "absent"
  /\ owner \in {"init", "watch", "spawn"} => at \in Index
  /\ owner = "init" => \A i \in Index :
       IF i < at THEN context[i] \in Made ELSE context[i] = "raw"
  /\ owner \in {"watch", "spawn"} => \A i \in Index : context[i] \in Made
  /\ owner \notin {"init", "watch", "spawn"} =>
       \/ \A i \in Index : context[i] = "absent"
       \/ \A i \in Index : context[i] \in Made

ThreadInv ==
  /\ owner \in {"listen", "make", "init", "watch"} => threads = << >>
  /\ owner = "spawn" => Len(threads) = at - 1
  /\ Len(threads) <= NumThreads
  /\ \A k \in 1..Len(threads) : threads[k].index = k
  /\ owner = "gone" => \A k \in 1..Len(threads) : threads[k].state = "joined"

(* Stop is disposing only where there was something to dispose of, and the *)
(* owner calls it from the destructor.                                     *)
StopInv ==
  /\ \A c \in Callers :
       stopping[c] \in Index => \E i \in Index : context[i] # "absent"
  /\ stopping["owner"] # 0 => owner = "stop"

IInv == TypeOK /\ SocketInv /\ ContextInv /\ ThreadInv /\ StopInv

LEMMA IInvInit == Init => IInv
BY NumThreadsAssumption, MaxHandlersAssumption
DEF Init, IInv, TypeOK, SocketInv, ContextInv, ThreadInv, StopInv, Index,
    Callers, NotStopping, Thread

(* How the program counters may move. *)
LEMMA IteratesType ==
  ASSUME IInv, NEW loop, NEW to, OwnerIterates(loop, to),
         loop \in {"init", "watch", "spawn"}
  PROVE  /\ at \in Index /\ at' \in Index
         /\ owner = loop
         /\ \/ owner' = loop /\ at < NumThreads /\ at' = at + 1
            \/ owner' = to /\ at = NumThreads /\ at' = 1
         /\ UNCHANGED <<stopping, wild, process>>
BY NumThreadsAssumption
DEF IInv, TypeOK, ContextInv, OwnerIterates, OwnerGoes, Index

(* One more thread, on the index after the last. *)
LEMMA StartedType ==
  ASSUME threads \in Seq(Thread), NEW i \in Index, Len(threads) = i - 1,
         \A k \in 1..Len(threads) : threads[k].index = k
  PROVE  /\ Started(i) \in Seq(Thread)
         /\ Len(Started(i)) = i
         /\ \A k \in 1..Len(Started(i)) : Started(i)[k].index = k
<1> DEFINE t == [index |-> i, state |-> "running"]
<1>1. t \in Thread
  BY DEF Thread
<1>2. /\ Started(i) = Append(threads, t)
      /\ Started(i) \in Seq(Thread)
      /\ Len(Started(i)) = Len(threads) + 1
  BY <1>1 DEF Started
<1>3. \A k \in 1..Len(Started(i)) :
        Started(i)[k] = IF k <= Len(threads) THEN threads[k] ELSE t
  BY <1>1, <1>2
<1>4. Len(Started(i)) = i
  BY <1>2, NumThreadsAssumption DEF Index
<1>5. ASSUME NEW k \in 1..Len(Started(i)) PROVE Started(i)[k].index = k
  <2>1. CASE k <= Len(threads)
    BY <2>1, <1>3
  <2>2. CASE k = i
    BY <2>2, <1>3, <1>4, NumThreadsAssumption DEF Index
  <2> QED
    BY <2>1, <2>2, <1>4, NumThreadsAssumption DEF Index
<1> QED
  BY <1>2, <1>4, <1>5

(* A thread that changes its state stays on its index. *)
LEMMA StateChangeType ==
  ASSUME threads \in Seq(Thread), NEW k \in 1..Len(threads),
         NEW s \in {"running", "ended", "joined"},
         \A j \in 1..Len(threads) : threads[j].index = j,
         threads' = [threads EXCEPT ![k].state = s]
  PROVE  /\ threads' \in Seq(Thread)
         /\ Len(threads') = Len(threads)
         /\ \A j \in 1..Len(threads) : threads'[j].index = j
         /\ \A j \in 1..Len(threads) : threads'[j].state \in {s, threads[j].state}
<1> DEFINE t == [threads[k] EXCEPT !.state = s]
<1>1. threads[k] \in Thread
  OBVIOUS
<1>2. t \in Thread /\ t.index = threads[k].index /\ t.state = s
  BY <1>1 DEF Thread
<1>3. threads' = [threads EXCEPT ![k] = t]
  OBVIOUS
<1> QED
  BY <1>2, <1>3

-------------------------------------------------------------------------------
(* The owner's steps. *)

LEMMA StartStep ==
  ASSUME IInv, \/ RegisterHandler \/ OpenSocket \/ Bind \/ BindFails \/ Listen
               \/ ListenFails \/ MakeContexts
  PROVE  IInv'
<1> USE NumThreadsAssumption, MaxHandlersAssumption
    DEF IInv, TypeOK, SocketInv, ContextInv, ThreadInv, StopInv, OwnerGoes,
        startVars, Made
<1>1. CASE RegisterHandler
  BY <1>1 DEF RegisterHandler
<1>2. CASE OpenSocket
  BY <1>2 DEF OpenSocket
<1>3. CASE Bind
  BY <1>3 DEF Bind
<1>4. CASE BindFails
  BY <1>4 DEF BindFails
<1>5. CASE Listen
  BY <1>5 DEF Listen
<1>6. CASE ListenFails
  BY <1>6 DEF ListenFails
<1>7. CASE MakeContexts
  BY <1>7 DEF MakeContexts, Resized, Index
<1> QED
  BY <1>1, <1>2, <1>3, <1>4, <1>5, <1>6, <1>7

LEMMA InitContextStep == ASSUME IInv, InitContext PROVE IInv'
<1> USE NumThreadsAssumption DEF IInv
<1>1. /\ at \in Index /\ at' \in Index
      /\ owner = "init"
      /\ \/ owner' = "init" /\ at < NumThreads /\ at' = at + 1
         \/ owner' = "watch" /\ at = NumThreads /\ at' = 1
      /\ UNCHANGED <<stopping, wild, process>>
  BY IteratesType DEF InitContext
<1>2. /\ context' = [context EXCEPT ![at] = "ready"]
      /\ UNCHANGED <<startVars, threads, handlers>>
  BY DEF InitContext
<1>3. \A i \in Index : IF i <= at THEN context'[i] \in Made ELSE context'[i] = "raw"
  BY <1>1, <1>2 DEF TypeOK, ContextInv, Made, Index
<1>4. TypeOK'
  BY <1>1, <1>2 DEF TypeOK, startVars, Index
<1>5. SocketInv' /\ ThreadInv'
  BY <1>1, <1>2 DEF SocketInv, ThreadInv, startVars
<1>6. ContextInv'
  BY <1>1, <1>3 DEF ContextInv, Index
<1>7. StopInv'
  BY <1>1, <1>3 DEF StopInv, Made
<1> QED
  BY <1>4, <1>5, <1>6, <1>7

LEMMA WatchSocketStep == ASSUME IInv, WatchSocket PROVE IInv'
<1> USE NumThreadsAssumption DEF IInv
<1>1. /\ at \in Index /\ at' \in Index
      /\ owner = "watch"
      /\ \/ owner' = "watch" /\ at < NumThreads /\ at' = at + 1
         \/ owner' = "spawn" /\ at = NumThreads /\ at' = 1
      /\ UNCHANGED <<stopping, wild, process>>
  BY IteratesType DEF WatchSocket
<1>2. /\ watched' = watched \cup {at}
      /\ UNCHANGED <<sockets, bound, context, threads, handlers>>
  BY DEF WatchSocket
<1>3. TypeOK'
  BY <1>1, <1>2 DEF TypeOK, Index
<1> QED
  BY <1>1, <1>2, <1>3 DEF SocketInv, ThreadInv, ContextInv, StopInv

LEMMA SpawnStep == ASSUME IInv, SpawnThread \/ SpawnFails PROVE IInv'
<1> USE NumThreadsAssumption DEF IInv
<1>1. CASE SpawnThread
  <2>1. /\ at \in Index /\ at' \in Index
        /\ owner = "spawn"
        /\ \/ owner' = "spawn" /\ at < NumThreads /\ at' = at + 1
           \/ owner' = "free" /\ at = NumThreads /\ at' = 1
        /\ UNCHANGED <<stopping, wild, process>>
    BY <1>1, IteratesType DEF SpawnThread
  <2>2. /\ threads' = Started(at)
        /\ UNCHANGED <<startVars, context, handlers>>
    BY <1>1 DEF SpawnThread
  <2>3. /\ threads' \in Seq(Thread)
        /\ Len(threads') = at
        /\ \A k \in 1..Len(threads') : threads'[k].index = k
    BY <2>1, <2>2, StartedType DEF TypeOK, ThreadInv
  <2>4. TypeOK'
    BY <2>1, <2>2, <2>3 DEF TypeOK, startVars, Index
  <2>5. SocketInv' /\ ContextInv' /\ StopInv'
    BY <2>1, <2>2 DEF SocketInv, ContextInv, StopInv, startVars
  <2>6. /\ at \in Nat /\ at <= NumThreads
        /\ owner' = "spawn" => at = at' - 1
    <3>1. at \in Nat /\ at <= NumThreads
      BY <2>1 DEF Index
    <3>2. owner' = "spawn" => at' = at + 1
      BY <2>1
    <3> QED
      BY <3>1, <3>2
  <2>7. owner' \in {"spawn", "free"}
    BY <2>1
  <2>8. /\ owner' = "spawn" => Len(threads') = at' - 1
        /\ Len(threads') <= NumThreads
    BY <2>3, <2>6
  <2>9. ThreadInv'
    BY <2>3, <2>7, <2>8 DEF ThreadInv
  <2> QED
    BY <2>4, <2>5, <2>9
<1>2. CASE SpawnFails
  BY <1>2
  DEF SpawnFails, OwnerGoes, startVars, TypeOK, SocketInv, ThreadInv, ContextInv,
      StopInv
<1> QED
  BY <1>1, <1>2

LEMMA WaitStep == ASSUME IInv, Wait \/ Join \/ WaitReturns PROVE IInv'
<1> USE DEF IInv
<1>1. CASE Wait \/ WaitReturns
  BY <1>1
  DEF Wait, WaitReturns, OwnerGoes, startVars, TypeOK, SocketInv, ThreadInv,
      ContextInv, StopInv
<1>2. CASE Join
  <2>1. /\ owner = "join" /\ owner' = "join" /\ at' = at + 1
        /\ at \in 1..Len(threads)
        /\ threads' = [threads EXCEPT ![at].state = "joined"]
        /\ UNCHANGED <<startVars, context, handlers, stopping, wild, process>>
    BY <1>2 DEF Join, OwnerGoes, TypeOK
  <2>2. /\ threads' \in Seq(Thread)
        /\ Len(threads') = Len(threads)
        /\ \A j \in 1..Len(threads) : threads'[j].index = j
    BY <2>1, StateChangeType DEF TypeOK, ThreadInv
  <2>3. TypeOK'
    BY <2>1, <2>2 DEF TypeOK, startVars
  <2>4. Len(threads) # 0 /\ threads # << >>
    BY <2>1 DEF TypeOK
  <2>5. SocketInv'
    BY <2>1, <2>4 DEF SocketInv, startVars
  <2>6. ThreadInv' /\ ContextInv' /\ StopInv'
    BY <2>1, <2>2 DEF ThreadInv, ContextInv, StopInv
  <2> QED
    BY <2>3, <2>5, <2>6
<1> QED
  BY <1>1, <1>2

LEMMA DestroyStep == ASSUME IInv, Destroy \/ DestroyMembers PROVE IInv'
<1> USE DEF IInv, TypeOK, SocketInv, ThreadInv, ContextInv, StopInv, startVars
<1>1. CASE Destroy
  BY <1>1 DEF Destroy
<1>2. CASE DestroyMembers
  BY <1>2 DEF DestroyMembers
<1> QED
  BY <1>1, <1>2

LEMMA OwnerStepKeeps == ASSUME IInv, OwnerStep PROVE IInv'
BY StartStep, InitContextStep, WatchSocketStep, SpawnStep, WaitStep, DestroyStep
DEF OwnerStep

-------------------------------------------------------------------------------
(* Stop, the loop threads, and the end of the process. *)

LEMMA CrashKeeps == ASSUME IInv, Crash PROVE IInv'
BY DEF Crash, IInv, TypeOK, SocketInv, ThreadInv, ContextInv, StopInv, startVars

LEMMA DisposeKeeps ==
  ASSUME IInv, NEW c \in Callers, Dispose(c)
  PROVE  IInv'
<1> USE NumThreadsAssumption DEF IInv
<1>1. PICK i \in Index : i = stopping[c] /\ context[i] # "raw"
  BY DEF Dispose
<1>2. /\ context' = [context EXCEPT ![i] = "disposed"]
      /\ stopping' = [stopping EXCEPT ![c] = i + 1]
      /\ UNCHANGED <<owner, at, startVars, threads, handlers, wild, process>>
  BY <1>1 DEF Dispose
<1>3. /\ context'[i] = "disposed"
      /\ \A j \in Index : j # i => context'[j] = context[j]
  BY <1>2 DEF TypeOK
<1>4. \E j \in Index : context[j] # "absent"
  BY <1>1 DEF StopInv
<1>5. TypeOK'
  BY <1>2 DEF TypeOK, startVars, Index
<1>6. SocketInv' /\ ThreadInv'
  BY <1>2, <1>4 DEF SocketInv, ThreadInv, startVars
<1>7. ContextInv'
  BY <1>1, <1>2, <1>3, <1>4 DEF ContextInv, Made, startVars
<1>8. StopInv'
  <2>1. \E j \in Index : context'[j] # "absent"
    BY <1>3
  <2>2. stopping'["owner"] # 0 => stopping["owner"] # 0
    BY <1>1, <1>2 DEF TypeOK, Callers, Index
  <2> QED
    BY <1>2, <2>1, <2>2 DEF StopInv
<1> QED
  BY <1>5, <1>6, <1>7, <1>8

LEMMA StopStepKeeps ==
  ASSUME IInv, NEW c \in Callers, StopStep(c)
  PROVE  IInv'
<1>1. CASE Stop(c)
  <2>1. CASE Crash
    BY <2>1, CrashKeeps
  <2>2. CASE ~Crash
    <3>1. /\ stopping' = [stopping EXCEPT ![c] =
                            IF \A i \in Index : context[i] = "absent"
                            THEN NumThreads + 1 ELSE 1]
          /\ UNCHANGED <<owner, at, startVars, context, threads, handlers, wild,
                         process>>
      BY <1>1, <2>2 DEF Stop
    <3>2. TypeOK'
      BY <3>1, NumThreadsAssumption DEF IInv, TypeOK, startVars
    <3>3. StopInv'
      BY <1>1, <3>1, NumThreadsAssumption
      DEF IInv, TypeOK, StopInv, Stop, MayCallStop, Index, Callers
    <3> QED
      BY <3>1, <3>2, <3>3 DEF IInv, SocketInv, ThreadInv, ContextInv, startVars
  <2> QED
    BY <2>1, <2>2
<1>2. CASE Dispose(c)
  BY <1>2, DisposeKeeps
<1>3. CASE DisposeCrashes(c)
  BY <1>3, CrashKeeps DEF DisposeCrashes
<1>4. CASE StopReturns(c)
  <2>1. CASE Crash
    BY <2>1, CrashKeeps
  <2>2. CASE ~Crash
    <3>1. /\ stopping' = [stopping EXCEPT ![c] = NotStopping]
          /\ owner' = IF c = "owner" THEN "members" ELSE owner
          /\ UNCHANGED <<at, startVars, context, threads, handlers, wild, process>>
      BY <1>4, <2>2 DEF StopReturns
    <3>2. c = "owner" => owner = "stop"
      BY <1>4, NumThreadsAssumption DEF StopReturns, IInv, StopInv
    <3>3. stopping' \in [Callers -> 0..NumThreads + 1]
      BY <3>1, NumThreadsAssumption DEF IInv, TypeOK, NotStopping
    <3>4. StopInv'
      BY <3>1, NumThreadsAssumption
      DEF IInv, TypeOK, StopInv, Callers, NotStopping, Index
    <3> QED
      BY <3>1, <3>2, <3>3, <3>4
      DEF IInv, TypeOK, SocketInv, ThreadInv, ContextInv, startVars
  <2> QED
    BY <2>1, <2>2
<1> QED
  BY <1>1, <1>2, <1>3, <1>4 DEF StopStep

LEMMA LoopEndsKeeps ==
  ASSUME IInv, NEW k \in 1..Len(threads), LoopEnds(k)
  PROVE  IInv'
<1>1. /\ threads' = [threads EXCEPT ![k].state = "ended"]
      /\ threads[k].state = "running"
      /\ UNCHANGED <<owner, at, startVars, context, handlers, stopping, wild, process>>
  BY DEF LoopEnds, Running
<1>2. /\ threads' \in Seq(Thread)
      /\ Len(threads') = Len(threads)
      /\ \A j \in 1..Len(threads) : threads'[j].index = j
  BY <1>1, StateChangeType DEF IInv, TypeOK, ThreadInv
<1>3. owner # "gone" /\ Len(threads) # 0 /\ threads # << >>
  BY <1>1 DEF IInv, ThreadInv, TypeOK
<1>4. TypeOK'
  BY <1>1, <1>2 DEF IInv, TypeOK, startVars
<1>5. SocketInv'
  BY <1>1, <1>3 DEF IInv, SocketInv, startVars
<1>6. ThreadInv'
  BY <1>1, <1>2, <1>3 DEF IInv, ThreadInv, TypeOK
<1>7. ContextInv' /\ StopInv'
  BY <1>1 DEF IInv, ContextInv, StopInv
<1> QED
  BY <1>4, <1>5, <1>6, <1>7 DEF IInv

LEMMA IInvStep == IInv /\ [Next]_vars => IInv'
<1> SUFFICES ASSUME IInv, [Next]_vars PROVE IInv'
  OBVIOUS
<1>1. CASE AcceptConnection \/ LoopBreaks
  BY <1>1, CrashKeeps DEF AcceptConnection, LoopBreaks
<1>2. CASE UNCHANGED vars
  BY <1>2
  DEF vars, startVars, IInv, TypeOK, SocketInv, ThreadInv, ContextInv, StopInv
<1> QED
  BY <1>1, <1>2, OwnerStepKeeps, StopStepKeeps, LoopEndsKeeps DEF Next, Ended

LEMMA Invariance == Spec => []IInv
BY IInvInit, IInvStep, PTL DEF Spec

-------------------------------------------------------------------------------
(* The types, for any number of threads; no socket is closed twice and no  *)
(* thread is given an index outside contexts_.                             *)
THEOREM ThreadedTypeCorrect == Spec => []TypeOK
<1>1. IInv => TypeOK
  BY DEF IInv
<1> QED
  BY <1>1, Invariance, PTL

(* However Start fails and is repeated, its sockets are accounted for. *)
THEOREM SocketsAreAccounted == Spec => []SocketsAccounted
<1>1. IInv => SocketsAccounted
  BY DEF IInv, TypeOK, SocketInv, SocketsAccounted, OutsideStart
<1> QED
  BY <1>1, Invariance, PTL

(* A failed Start leaves nothing that Stop would trip on. *)
THEOREM ContextsAreAllOrNone == Spec => []AllOrNoContexts
<1>1. IInv => AllOrNoContexts
  BY DEF IInv, ContextInv, AllOrNoContexts, OutsideStart, Made
<1> QED
  BY <1>1, Invariance, PTL

(* Start gets as far as making threads once in the life of a server. *)
THEOREM OneThreadEach == Spec => []OneThreadPerContext
<1>1. IInv => OneThreadPerContext
  BY DEF IInv, ThreadInv, OneThreadPerContext
<1> QED
  BY <1>1, Invariance, PTL

(* While a thread runs, no call of Start touches the contexts. *)
THEOREM ContextsStay == Spec => RunningContextsStay
<1> DEFINE Stay == Running # {} =>
                     \A i \in Index : context'[i] \in {context[i], "disposed"}
<1>1. IInv /\ [Next]_vars => [Stay]_vars
  <2> SUFFICES ASSUME IInv, Next, Running # {}
               PROVE  \A i \in Index : context'[i] \in {context[i], "disposed"}
    OBVIOUS
  <2>1. threads # << >>
    BY DEF Running
  <2>2. owner \notin {"make", "init"}
    BY <2>1 DEF IInv, ThreadInv
  <2>3. \/ UNCHANGED context
        \/ \E c \in Callers : Dispose(c)
    BY <2>2
    DEF Next, OwnerStep, StopStep, RegisterHandler, OpenSocket, Bind, BindFails,
        Listen, ListenFails, MakeContexts, InitContext, WatchSocket, SpawnThread,
        SpawnFails, Wait, Join, WaitReturns, Destroy, DestroyMembers, Stop,
        DisposeCrashes, StopReturns, LoopEnds, AcceptConnection, LoopBreaks, Ended,
        Crash, OwnerGoes, OwnerIterates, vars
  <2> QED
    BY <2>3 DEF Dispose, IInv, TypeOK
<1> QED
  BY <1>1, Invariance, PTL DEF Spec, RunningContextsStay
===============================================================================
