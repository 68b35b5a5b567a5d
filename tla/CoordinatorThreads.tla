------------------------- MODULE CoordinatorThreads -------------------------
(* The threads of a coordinator process: the two accept loops and the         *)
(* sessions they start, the queue of movements and the workers that drain it, *)
(* the thread that stops the process, and wait_for_idle.  What a movement's   *)
(* drive does is MovementFabric; here it is one step.                         *)
(*                                                                            *)
(* The model has the granularity of the mutex and the atomics: a worker that  *)
(* has found its predicate false still holds queue_mutex_ until it blocks,    *)
(* and only those who take the mutex are kept out in between.                 *)
EXTENDS Integers, FiniteSets

CONSTANTS
    Workers,         \* worker_threads
    EndpointConns,   \* connections to the endpoint listener
    AdminConns,      \* connections to the admin listener
    max_sessions,    \* CoordinatorConfig::max_sessions
    MaxSubmitted,    \* bound: submissions in one behaviour
    Stops            \* whether the process is asked to stop

Conns == EndpointConns \cup AdminConns
Acceptors == {"endpoint", "admin"}
Offered(a) == IF a = "admin" THEN AdminConns ELSE EndpointConns

ASSUME ThreadsAssumptions ==
    /\ EndpointConns \cap AdminConns = {} /\ IsFiniteSet(Conns)
    /\ max_sessions \in Nat \ {0} /\ MaxSubmitted \in Nat /\ Stops \in BOOLEAN

VARIABLES
    stopping,   \* stopping_
    queue,      \* how many movements queue_ holds
    holder,     \* who holds queue_mutex_ across steps, "free" when nobody
    worker,     \* worker_loop of each worker
    driving,    \* active_movements_
    accepting,  \* accept_loop of each listener: its pc, or the connection it admits
    conn,       \* each connection and the session_loop it becomes
    active,     \* active_sessions_
    linked,     \* links_: endpoint sessions that request_shutdown can reach
    stopper,    \* request_shutdown and stop
    store_,     \* the store is open and its directory locked
    waiter,     \* a thread in wait_for_idle
    submitted,
    missed      \* history: the workers past their predicate when the stop was notified

threadsVars == <<stopping, queue, holder, worker, driving, accepting, conn, active, linked, stopper,
                 store_, waiter, submitted, missed>>
poolVars == <<queue, holder, worker, driving, waiter>>
sessionVars == <<accepting, conn, active, linked, submitted>>
stopVars == <<stopping, stopper, store_, missed>>

ThreadsInit ==
    /\ stopping = FALSE /\ queue = 0 /\ holder = "free"
    /\ worker = [w \in Workers |-> "evaluate"] /\ driving = 0
    /\ accepting = [a \in Acceptors |-> "poll"]
    /\ conn = [c \in Conns |-> "offered"] /\ active = 0 /\ linked = {}
    /\ stopper = "running" /\ store_ = TRUE /\ waiter = "none" /\ submitted = 0 /\ missed = {}

-----------------------------------------------------------------------------
(* worker_loop.  The predicate of queue_cv_.wait, and what follows it.        *)
Evaluate(w) ==
    /\ worker[w] = "evaluate" /\ holder = "free"
    /\ \/ queue > 0 /\ queue' = queue - 1 /\ worker' = [worker EXCEPT ![w] = "popped"] /\ UNCHANGED holder
       \/ queue = 0 /\ stopping /\ worker' = [worker EXCEPT ![w] = "exited"] /\ UNCHANGED <<queue, holder>>
       \/ queue = 0 /\ ~stopping /\ worker' = [worker EXCEPT ![w] = "deciding"]
          /\ holder' = w /\ UNCHANGED queue
    /\ UNCHANGED <<driving, waiter, sessionVars, stopVars>>

(* The predicate was false: wait blocks and gives the mutex up, in one step. *)
Block(w) ==
    /\ worker[w] = "deciding"
    /\ worker' = [worker EXCEPT ![w] = "blocked"] /\ holder' = "free"
    /\ UNCHANGED <<queue, driving, waiter, sessionVars, stopVars>>

(* active_movements_ goes up after the mutex was released, ... *)
StartDrive(w) ==
    /\ worker[w] = "popped"
    /\ worker' = [worker EXCEPT ![w] = "drive"] /\ driving' = driving + 1
    /\ UNCHANGED <<queue, holder, waiter, sessionVars, stopVars>>

(* ... down after drive_movement, and idle_cv_ is notified last. *)
EndDrive(w) ==
    /\ worker[w] = "drive"
    /\ worker' = [worker EXCEPT ![w] = "notify"] /\ driving' = driving - 1
    /\ UNCHANGED <<queue, holder, waiter, sessionVars, stopVars>>

WokenWaiter == IF waiter = "blocked" THEN "evaluate" ELSE waiter

NotifyIdle(w) ==
    /\ worker[w] = "notify"
    /\ worker' = [worker EXCEPT ![w] = "evaluate"] /\ waiter' = WokenWaiter
    /\ UNCHANGED <<queue, holder, driving, sessionVars, stopVars>>

Worker(w) == Evaluate(w) \/ Block(w) \/ StartDrive(w) \/ EndDrive(w) \/ NotifyIdle(w)

Woken(ws) == [w \in Workers |-> IF w \in ws THEN "evaluate" ELSE worker[w]]
Blocked == {w \in Workers : worker[w] = "blocked"}

(* A condition variable may wake a waiter for no reason. *)
SpuriousWakeup ==
    /\ \E w \in Blocked : worker' = Woken({w})
    /\ UNCHANGED <<queue, holder, driving, waiter, sessionVars, stopVars>>

(* wait_for_idle: the same two steps, over queue_ and active_movements_. *)
WaitForIdle ==
    /\ \/ waiter = "none" /\ waiter' = "evaluate" /\ UNCHANGED holder
       \/ /\ waiter = "evaluate" /\ holder = "free"
          /\ IF queue = 0 /\ driving = 0
             THEN waiter' = "returned" /\ UNCHANGED holder
             ELSE waiter' = "deciding" /\ holder' = "waiter"
       \/ waiter = "deciding" /\ waiter' = "blocked" /\ holder' = "free"
    /\ UNCHANGED <<queue, worker, driving, sessionVars, stopVars>>

-----------------------------------------------------------------------------
(* accept_loop and session_loop.                                             *)

Accept_NoLimit(a) ==   \* mutant: the number of sessions is not looked at
    /\ accepting[a] = "poll" /\ stopper \in {"running", "signalled"}
    /\ \E c \in Offered(a) :
         /\ conn[c] = "offered"
         /\ accepting' = [accepting EXCEPT ![a] = "admit"]
         /\ conn' = [conn EXCEPT ![c] = "accepted"]
    /\ UNCHANGED <<active, linked, submitted, poolVars, stopVars>>

(* A connection, which may come at any time, is accepted and compared with    *)
(* max_sessions: it is closed, ...                                            *)
Accept(a) ==
    /\ accepting[a] = "poll" /\ stopper \in {"running", "signalled"}
    /\ \E c \in Offered(a) :
         /\ conn[c] = "offered"
         /\ IF active >= max_sessions
            THEN conn' = [conn EXCEPT ![c] = "ended"] /\ UNCHANGED accepting
            ELSE /\ accepting' = [accepting EXCEPT ![a] = "admit"]
                 /\ conn' = [conn EXCEPT ![c] = "accepted"]
    /\ UNCHANGED <<active, linked, submitted, poolVars, stopVars>>

(* ... or counted in a second step, when its session thread is started. *)
Admit(a) ==
    /\ accepting[a] = "admit"
    /\ \E c \in Offered(a) :
         /\ conn[c] = "accepted"
         /\ conn' = [conn EXCEPT ![c] = "serving"]
    /\ active' = active + 1 /\ accepting' = [accepting EXCEPT ![a] = "poll"]
    /\ UNCHANGED <<linked, submitted, poolVars, stopVars>>

AcceptLoopEnds(a) ==
    /\ accepting[a] = "poll" /\ stopping
    /\ accepting' = [accepting EXCEPT ![a] = "exited"]
    /\ UNCHANGED <<conn, active, linked, submitted, poolVars, stopVars>>

(* REGISTER enters the session in links_. *)
RegisterLink(c) ==
    /\ c \in EndpointConns \ linked /\ conn[c] = "serving"
    /\ linked' = linked \cup {c}
    /\ UNCHANGED <<accepting, conn, active, submitted, poolVars, stopVars>>

(* SUBMIT_MOVEMENT: accepted as long as the store is there, even while the    *)
(* process is stopping; the record is put, ...                                *)
Submit(c) ==
    /\ c \in AdminConns /\ conn[c] = "serving" /\ store_ /\ submitted < MaxSubmitted
    /\ submitted' = submitted + 1 /\ conn' = [conn EXCEPT ![c] = "enqueue"]
    /\ UNCHANGED <<accepting, active, linked, poolVars, stopVars>>

(* ... queued under the mutex, ... *)
Push(c) ==
    /\ conn[c] = "enqueue" /\ holder = "free"
    /\ queue' = queue + 1 /\ conn' = [conn EXCEPT ![c] = "notify"]
    /\ UNCHANGED <<accepting, active, linked, submitted, holder, worker, driving, waiter, stopVars>>

NotifyOne_Forgotten(c) ==   \* mutant: nobody is told of the movement
    /\ conn[c] = "notify" /\ conn' = [conn EXCEPT ![c] = "serving"]
    /\ UNCHANGED <<accepting, active, linked, submitted, poolVars, stopVars>>

(* ... and one waiting worker is notified. *)
NotifyOne(c) ==
    /\ conn[c] = "notify" /\ conn' = [conn EXCEPT ![c] = "serving"]
    /\ IF Blocked = {} THEN UNCHANGED worker ELSE \E w \in Blocked : worker' = Woken({w})
    /\ UNCHANGED <<accepting, active, linked, submitted, queue, holder, driving, waiter, stopVars>>

(* receive fails: the peer left, the stream was shut down, or the budget ran  *)
(* out on a silent peer.                                                      *)
SessionEnds(c) ==
    /\ conn[c] = "serving"
    /\ conn' = [conn EXCEPT ![c] = "ended"] /\ active' = active - 1 /\ linked' = linked \ {c}
    /\ UNCHANGED <<accepting, submitted, poolVars, stopVars>>

SessionLoop(c) == RegisterLink(c) \/ Submit(c) \/ Push(c) \/ NotifyOne(c) \/ SessionEnds(c)

-----------------------------------------------------------------------------
(* request_shutdown and stop, by one thread.                                 *)

StopStep(from, to) == stopper = from /\ stopper' = to

Signal ==
    /\ Stops /\ StopStep("running", "signalled") /\ stopping' = TRUE
    /\ UNCHANGED <<poolVars, sessionVars, store_, missed>>

(* The listeners are closed and the registered streams shut down. *)
CloseListeners ==
    /\ StopStep("signalled", "closed")
    /\ UNCHANGED <<poolVars, sessionVars, stopping, store_, missed>>

NotifyAll_Forgotten ==   \* mutant: the waiting workers are not told
    /\ StopStep("closed", "joining")
    /\ missed' = {w \in Workers : worker[w] = "deciding"}
    /\ UNCHANGED <<poolVars, sessionVars, stopping, store_>>

(* Notified without queue_mutex_. *)
NotifyAll ==
    /\ StopStep("closed", "joining")
    /\ missed' = {w \in Workers : worker[w] = "deciding"}
    /\ worker' = Woken(Blocked) /\ waiter' = WokenWaiter
    /\ UNCHANGED <<queue, holder, driving, sessionVars, stopping, store_>>

JoinAcceptors ==
    /\ \A a \in Acceptors : accepting[a] = "exited"
    /\ StopStep("joining", "accepted")
    /\ UNCHANGED <<poolVars, sessionVars, stopping, store_, missed>>

JoinWorkers ==
    /\ \A w \in Workers : worker[w] = "exited"
    /\ StopStep("accepted", "drained")
    /\ UNCHANGED <<poolVars, sessionVars, stopping, store_, missed>>

Release_BeforeSessions ==   \* mutant: the session threads are not joined
    /\ StopStep("drained", "stopped")
    /\ store_' = FALSE /\ queue' = 0 /\ linked' = {}
    /\ UNCHANGED <<holder, worker, driving, waiter, accepting, conn, active, submitted, stopping, missed>>

(* The sessions are joined, then the links, the queue and the store released. *)
Release ==
    /\ \A c \in Conns : conn[c] \notin {"serving", "enqueue", "notify"}
    /\ StopStep("drained", "stopped")
    /\ store_' = FALSE /\ queue' = 0 /\ linked' = {}
    /\ UNCHANGED <<holder, worker, driving, waiter, accepting, conn, active, submitted, stopping, missed>>

Stopper == CloseListeners \/ NotifyAll \/ JoinAcceptors \/ JoinWorkers \/ Release

ThreadsNext ==
    \/ \E w \in Workers : Worker(w)
    \/ \E a \in Acceptors : Accept(a) \/ Admit(a) \/ AcceptLoopEnds(a)
    \/ \E c \in Conns : SessionLoop(c)
    \/ SpuriousWakeup \/ WaitForIdle \/ Signal \/ Stopper

ThreadsSpec == ThreadsInit /\ [][ThreadsNext]_threadsVars

(* Every thread runs, drives end within their budgets, and a session ends     *)
(* once its peer is gone, shut down or silent for the receive budget.         *)
ThreadsFairness ==
    /\ \A w \in Workers : WF_threadsVars(Worker(w))
    /\ \A a \in Acceptors : WF_threadsVars(Admit(a)) /\ WF_threadsVars(AcceptLoopEnds(a))
    /\ \A c \in Conns : WF_threadsVars(Push(c)) /\ WF_threadsVars(NotifyOne(c)) /\ WF_threadsVars(SessionEnds(c))
    /\ WF_threadsVars(WaitForIdle) /\ WF_threadsVars(Stopper)

FairThreadsSpec == ThreadsSpec /\ ThreadsFairness

-----------------------------------------------------------------------------
Serving == {c \in Conns : conn[c] \in {"serving", "enqueue", "notify"}}

(* When stop() has released the store and with it the directory lock, no      *)
(* thread that could still use the store is left: not a worker, not a         *)
(* session, not an accept loop that could start one.                          *)
StoreReleasedLast ==
    ~store_ => /\ Serving = {} /\ \A w \in Workers : worker[w] = "exited"
               /\ \A c \in Conns : conn[c] # "accepted"

(* active_sessions_ counts the sessions being served, and as the two accept   *)
(* loops compare and count in separate steps, together they admit at most one *)
(* more than max_sessions.                                                    *)
SessionsAlmostBounded == active = Cardinality(Serving) /\ active <= max_sessions + 1

(* A queued movement is always popped by a worker while the process runs: the *)
(* push is under the mutex, so no notification of enqueue() is lost.          *)
QueuedIsDriven == queue > 0 ~> (queue = 0 \/ stopping)

(* A stop that began completes, unless a worker had found its predicate false *)
(* just before stopping_ was set and fell asleep just after the notification, *)
(* which request_shutdown sends without queue_mutex_: then that worker sleeps *)
(* and stop() waits for it.  No other thread holds a stop up.                 *)
StopHeldOnlyByASleeper ==
    stopping ~> ~store_ \/ \E w \in missed : worker[w] = "blocked"

=============================================================================
