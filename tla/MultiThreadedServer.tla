-------------------------- MODULE MultiThreadedServer --------------------------
(***************************************************************************)
(* MultiThreadedH2OServer (http_server.cc) from its constructor to its     *)
(* destructor.                                                             *)
(*                                                                         *)
(* The owner is the thread that makes the server, registers handlers,      *)
(* calls Start and Wait and destroys it; it may go on after an exception   *)
(* of Start.  A stopper is any other thread that calls Stop before the     *)
(* destructor begins.  The loop threads are those that Start makes.        *)
(* Where the code's behaviour is undefined, the process may crash or go on *)
(* as if nothing had happened.                                             *)
(***************************************************************************)
EXTENDS Naturals, Sequences

CONSTANTS
  NumThreads,  \* num_threads_
  MaxHandlers  \* bound: calls of RegisterHandler

ASSUME NumThreadsAssumption == NumThreads \in Nat \ {0}
ASSUME MaxHandlersAssumption == MaxHandlers \in Nat

VARIABLES
  owner,     \* where the owner is
  at,        \* i of the loop the owner is in
  sockets,   \* file descriptors of Start that are open
  bound,     \* those of them that are bound to the port
  context,   \* what each element of contexts_ is
  watched,   \* the contexts with a socket that waits for connections
  threads,   \* threads_: the index each thread runs on, and its state
  handlers,  \* the size of handlers_
  stopping,  \* the context each caller of Stop disposes of next
  wild,      \* which members no one initialises are not null by chance
  process    \* "alive", or how it ended

startVars == <<sockets, bound, watched>>
vars == <<owner, at, startVars, context, threads, handlers, stopping, wild,
          process>>

Index == 1..NumThreads
Callers == {"owner", "stopper"}
NotStopping == 0
Uninitialised == {"queues_", "listener_"}

Init ==
  /\ owner = "free"
  /\ at = 1
  /\ sockets = 0
  /\ bound = 0
  /\ context = [i \in Index |-> "absent"]
  /\ watched = {}
  /\ threads = << >>
  /\ handlers = 0
  /\ stopping = [c \in Callers |-> NotStopping]
  /\ wild \in SUBSET Uninitialised
  /\ process = "alive"

Running == {k \in 1..Len(threads) : threads[k].state = "running"}

(* The owner goes from one place to the next. *)
OwnerGoes(from, to) ==
  /\ process = "alive"
  /\ owner = from
  /\ owner' = to
  /\ UNCHANGED <<stopping, wild, process>>

(* One iteration of a loop over the threads; the last one leaves for to. *)
OwnerIterates(loop, to) ==
  /\ OwnerGoes(loop, IF at < NumThreads THEN loop ELSE to)
  /\ at' = IF at < NumThreads THEN at + 1 ELSE 1

RegisterHandler ==
  /\ OwnerGoes("free", "free")
  /\ handlers < MaxHandlers
  /\ handlers' = handlers + 1
  /\ UNCHANGED <<at, startVars, context, threads>>

-------------------------------------------------------------------------------
(* Start.  A call that fails closes the socket and throws; socket() itself *)
(* failing leaves no trace.                                                *)

(* resize, which keeps the contexts that are there. *)
Resized == [i \in Index |-> IF context[i] = "absent" THEN "raw" ELSE context[i]]

(* A mistake to catch: contexts_ is resized before anything can fail. *)
ResizeAndOpenSocket ==
  /\ OwnerGoes("free", "bind")
  /\ sockets' = sockets + 1
  /\ context' = Resized
  /\ UNCHANGED <<at, bound, watched, threads, handlers>>

OpenSocket ==
  /\ OwnerGoes("free", "bind")
  /\ sockets' = sockets + 1
  /\ UNCHANGED <<at, bound, watched, context, threads, handlers>>

(* A mistake to catch: SO_REUSEPORT is set before bind. *)
BindReusingPort ==
  /\ OwnerGoes("bind", "listen")
  /\ bound' = bound + 1
  /\ UNCHANGED <<at, sockets, watched, context, threads, handlers>>

(* The port, which is not 0, is taken as long as a socket is bound to it. *)
Bind ==
  /\ OwnerGoes("bind", "listen")
  /\ bound = 0
  /\ bound' = bound + 1
  /\ UNCHANGED <<at, sockets, watched, context, threads, handlers>>

(* A mistake to catch: the exception leaves without close(fd). *)
BindFailsOpen ==
  /\ OwnerGoes("bind", "free")
  /\ UNCHANGED <<at, startVars, context, threads, handlers>>

BindFails ==
  /\ OwnerGoes("bind", "free")
  /\ sockets' = sockets - 1
  /\ UNCHANGED <<at, bound, watched, context, threads, handlers>>

Listen ==
  /\ OwnerGoes("listen", "make")
  /\ UNCHANGED <<at, startVars, context, threads, handlers>>

ListenFails ==
  /\ OwnerGoes("listen", "free")
  /\ sockets' = sockets - 1
  /\ bound' = bound - 1
  /\ UNCHANGED <<at, watched, context, threads, handlers>>

(* contexts_.resize, and the one loop_ for all of them. *)
MakeContexts ==
  /\ OwnerGoes("make", "init")
  /\ at' = 1
  /\ context' = Resized
  /\ UNCHANGED <<startVars, threads, handlers>>

(* A mistake to catch: threads are counted from one and contexts_ from zero. *)
StartedOneUp(i) == Append(threads, [index |-> i + 1, state |-> "running"])

Started(i) == Append(threads, [index |-> i, state |-> "running"])

(* A mistake to catch: each thread is made with its context. *)
InitContextAndSpawn ==
  /\ OwnerIterates("init", "watch")
  /\ context' = [context EXCEPT ![at] = "ready"]
  /\ threads' = Started(at)
  /\ UNCHANGED <<startVars, handlers>>

InitContext ==
  /\ OwnerIterates("init", "watch")
  /\ context' = [context EXCEPT ![at] = "ready"]
  /\ UNCHANGED <<startVars, threads, handlers>>

(* One more listening socket object on the same file descriptor. *)
WatchSocket ==
  /\ OwnerIterates("watch", "spawn")
  /\ watched' = watched \cup {at}
  /\ UNCHANGED <<sockets, bound, context, threads, handlers>>

SpawnThread ==
  /\ OwnerIterates("spawn", "free")
  /\ threads' = Started(at)
  /\ UNCHANGED <<startVars, context, handlers>>

(* std::thread's constructor throws; the threads before it run already. *)
SpawnFails ==
  /\ OwnerGoes("spawn", "free")
  /\ at' = 1
  /\ UNCHANGED <<startVars, context, threads, handlers>>

-------------------------------------------------------------------------------
(* Wait, which joins one thread after the other. *)

Wait ==
  /\ OwnerGoes("free", "join")
  /\ at' = 1
  /\ UNCHANGED <<startVars, context, threads, handlers>>

(* join() when the thread is joinable, which it is until it was joined. *)
Join ==
  /\ at <= Len(threads)
  /\ threads[at].state # "running"
  /\ OwnerGoes("join", "join")
  /\ threads' = [threads EXCEPT ![at].state = "joined"]
  /\ at' = at + 1
  /\ UNCHANGED <<startVars, context, handlers>>

WaitReturns ==
  /\ at > Len(threads)
  /\ OwnerGoes("join", "free")
  /\ at' = 1
  /\ UNCHANGED <<startVars, context, threads, handlers>>

-------------------------------------------------------------------------------
(* The destructor: Stop, then the members from the last to the first. *)

Destroy ==
  /\ process = "alive"
  /\ owner = "free"
  /\ stopping["stopper"] = NotStopping
  /\ owner' = "stop"
  /\ UNCHANGED <<at, startVars, context, threads, handlers, stopping, wild,
                 process>>

(* threads_ goes: a thread that was not joined makes ~thread call          *)
(* std::terminate.  No one closes the socket.                              *)
DestroyMembers ==
  /\ process = "alive"
  /\ owner = "members"
  /\ \/ /\ \A k \in 1..Len(threads) : threads[k].state = "joined"
        /\ owner' = "gone"
        /\ UNCHANGED process
     \/ /\ \E k \in 1..Len(threads) : threads[k].state # "joined"
        /\ process' = "aborted"
        /\ UNCHANGED owner
  /\ UNCHANGED <<at, startVars, context, threads, handlers, stopping, wild>>

-------------------------------------------------------------------------------
(* Stop.  The range of the loop is that of contexts_ when it begins. *)

Crash ==
  /\ process' = "crashed"
  /\ UNCHANGED <<owner, at, startVars, context, threads, handlers, stopping, wild>>

MayCallStop(c) ==
  /\ process = "alive"
  /\ stopping[c] = NotStopping
  /\ owner = "stop" <=> c = "owner"
  /\ owner \notin {"members", "gone"}

Stop(c) ==
  /\ MayCallStop(c)
  /\ \/ /\ "queues_" \in wild
        /\ Crash
     \/ /\ "queues_" \notin wild
        /\ stopping' = [stopping EXCEPT ![c] =
                          IF \A i \in Index : context[i] = "absent"
                          THEN NumThreads + 1 ELSE 1]
        /\ UNCHANGED <<owner, at, startVars, context, threads, handlers, wild,
                       process>>

(* h2o_context_dispose of a copy: what the context points to is freed and  *)
(* the element of contexts_ keeps its pointers.                            *)
Dispose(c) ==
  /\ process = "alive"
  /\ stopping[c] \in Index
  /\ context[stopping[c]] # "raw"
  /\ context' = [context EXCEPT ![stopping[c]] = "disposed"]
  /\ stopping' = [stopping EXCEPT ![c] = @ + 1]
  /\ UNCHANGED <<owner, at, startVars, threads, handlers, wild, process>>

(* A context that is all zeros has no configuration; one that was disposed *)
(* of is freed again; one that a thread works on is freed under it.        *)
DisposeCrashes(c) ==
  /\ process = "alive"
  /\ stopping[c] \in Index
  /\ context[stopping[c]] \in {"raw", "disposed"} \/ Running # {}
  /\ Crash

StopReturns(c) ==
  /\ process = "alive"
  /\ stopping[c] = NumThreads + 1
  /\ \/ /\ "listener_" \in wild
        /\ Crash
     \/ /\ "listener_" \notin wild
        /\ stopping' = [stopping EXCEPT ![c] = NotStopping]
        /\ owner' = IF c = "owner" THEN "members" ELSE owner
        /\ UNCHANGED <<at, startVars, context, threads, handlers, wild, process>>

-------------------------------------------------------------------------------
(* The loop threads. *)

(* h2o_evloop_run reports an error, and RunEventLoop returns. *)
LoopEnds(k) ==
  /\ process = "alive"
  /\ k \in Running
  /\ threads' = [threads EXCEPT ![k].state = "ended"]
  /\ UNCHANGED <<owner, at, startVars, context, handlers, stopping, wild, process>>

(* A connection: AcceptConnection finds no h2o_accept_ctx_t in the         *)
(* listener's data and h2o_accept goes through null.                       *)
AcceptConnection ==
  /\ process = "alive"
  /\ Running # {}
  /\ watched # {}
  /\ Crash

(* Two threads in h2o_evloop_run on one loop_, which is not made for it. *)
LoopBreaks ==
  /\ process = "alive"
  /\ \E j, k \in Running : j # k
  /\ Crash

(* The process is over, or the server is and nothing of it runs. *)
Ended ==
  /\ process # "alive" \/ owner = "gone"
  /\ UNCHANGED vars

-------------------------------------------------------------------------------
OwnerStep ==
  \/ RegisterHandler
  \/ OpenSocket
  \/ Bind
  \/ BindFails
  \/ Listen
  \/ ListenFails
  \/ MakeContexts
  \/ InitContext
  \/ WatchSocket
  \/ SpawnThread
  \/ SpawnFails
  \/ Wait
  \/ Join
  \/ WaitReturns
  \/ Destroy
  \/ DestroyMembers

StopStep(c) ==
  \/ Stop(c)
  \/ Dispose(c)
  \/ DisposeCrashes(c)
  \/ StopReturns(c)

Next ==
  \/ OwnerStep
  \/ \E c \in Callers : StopStep(c)
  \/ \E k \in 1..Len(threads) : LoopEnds(k)
  \/ AcceptConnection
  \/ LoopBreaks
  \/ Ended

Spec == Init /\ [][Next]_vars
-------------------------------------------------------------------------------
(* Types.  The index that a thread was given is one of contexts_. *)
Thread == [index : Index, state : {"running", "ended", "joined"}]

TypeOK ==
  /\ owner \in {"free", "bind", "listen", "make", "init", "watch", "spawn",
                "join", "stop", "members", "gone"}
  /\ at \in Nat \ {0}
  /\ sockets \in Nat
  /\ bound \in Nat
  /\ context \in [Index -> {"absent", "raw", "ready", "disposed"}]
  /\ watched \subseteq Index
  /\ threads \in Seq(Thread)
  /\ handlers \in 0..MaxHandlers
  /\ stopping \in [Callers -> 0..NumThreads + 1]
  /\ wild \subseteq Uninitialised
  /\ process \in {"alive", "aborted", "crashed"}

(* The owner is not inside Start, where bind and listen succeed or fail. *)
OutsideStart == owner \notin {"bind", "listen", "make", "init", "watch", "spawn"}

(* However often Start is called and wherever it fails, it leaves one      *)
(* socket, which holds the port, or none that the next bind would meet;    *)
(* and a server with threads holds the port.                               *)
SocketsAccounted ==
  /\ OutsideStart => sockets = bound
  /\ bound <= 1
  /\ threads # << >> => bound = 1

(* A Start that failed has initialised every element of contexts_ or left  *)
(* it empty: the destructor's Stop, which disposes of all there are, never *)
(* finds one that is all zeros.                                            *)
AllOrNoContexts ==
  OutsideStart => \/ \A i \in Index : context[i] = "absent"
                  \/ \A i \in Index : context[i] \in {"ready", "disposed"}

(* The contexts a running thread may work on stay what they are, also when *)
(* Start is called again: only Stop may dispose of them.                   *)
RunningContextsStay ==
  [][Running # {} =>
       \A i \in Index : context'[i] \in {context[i], "disposed"}]_vars

(* No two threads were ever made for one context, not even after all of    *)
(* them have ended: Start gets that far once.                              *)
OneThreadPerContext ==
  \A j, k \in 1..Len(threads) : threads[j].index = threads[k].index => j = k
===============================================================================
