----------------------------- MODULE ThreadPool -----------------------------
(***************************************************************************)
(* lzhlib::thread::thread_pool (include/lzhlib/thread/thread_pool.hpp) on  *)
(* top of ThreadQueue: the workers are the queue's consumers, the threads  *)
(* that call stop() its closers, and everything that calls submit(), a     *)
(* task running in a worker included, its producers.                       *)
(*                                                                         *)
(* `at' is where a thread is in the pool's code; while it is inside a call *)
(* of the queue, the queue's own pc says where.  The load of `stopped' in  *)
(* submit(), the push, the lock of stop_mutex, tasks.close() and the join  *)
(* are separate steps.  The values of the queue are the packaged tasks.    *)
(***************************************************************************)
EXTENDS ThreadQueue

CONSTANTS
    Submitters,     \* threads outside the pool that call submit()
    Owner           \* the thread that runs the constructor and the destructor

Workers == Consumers

ASSUME PoolAssumption ==
    /\ Producers = Submitters \cup Workers
    /\ Owner \in Closers
    /\ Workers \cap Submitters = {} /\ Workers \cap Closers = {}
    /\ Submitters \cap Closers = {}
    /\ "wait" \in PopOps

VARIABLES
    stopped, stop_mutex,    \* the flag, and the owner of the mutex
    phase,                  \* "ctor" while constructing, then "live" or "failed"
    at,                     \* per thread: its place in the pool's code
    task, arg,              \* worker_function()'s local task, submit()'s local task
    futures, ran            \* tasks whose submit() returned a future; tasks executed

poolvars == <<stopped, stop_mutex, phase, at, task, arg, futures, ran>>
allvars == <<vars, poolvars>>

Busy == {"task", "submit", "pushing"}   \* a worker inside task()
Places == Busy \cup {"out", "unstarted", "loop", "popping", "exited",
                     "stop_lock", "stop_close", "joining", "stopped"}

PoolTypeOK ==
    /\ stopped \in BOOLEAN
    /\ stop_mutex \in Closers \cup {NoThread}
    /\ phase \in {"ctor", "live", "failed"}
    /\ at \in [Threads -> Places]
    /\ task \in [Threads -> Values \cup {NoValue}]
    /\ arg \in [Threads -> Values \cup {NoValue}]
    /\ futures \subseteq Values
    /\ ran \subseteq Values

PoolInit ==
    /\ Init
    /\ stopped = FALSE /\ stop_mutex = NoThread /\ phase = "ctor"
    /\ at = [t \in Threads |-> IF t \in Workers THEN "unstarted" ELSE "out"]
    /\ task = [t \in Threads |-> NoValue]
    /\ arg = [t \in Threads |-> NoValue]
    /\ futures = {} /\ ran = {}

Move(t, place) == at' = [at EXCEPT ![t] = place]

----------------------------------------------------------------------------
(* thread_pool(thread_number)                                              *)

\* workers.emplace_back(&thread_pool::worker_function, this)
Spawn(w) ==
    /\ phase = "ctor"
    /\ at[w] = "unstarted"
    /\ Move(w, "loop")
    /\ UNCHANGED <<vars, stopped, stop_mutex, phase, task, arg, futures, ran>>

CtorDone ==
    /\ phase = "ctor"
    /\ \A w \in Workers : at[w] # "unstarted"
    /\ phase' = "live"
    /\ UNCHANGED <<vars, stopped, stop_mutex, at, task, arg, futures, ran>>

\* A thread cannot be started: the catch clause calls stop() and rethrows.
CtorThrow ==
    /\ phase = "ctor"
    /\ \E w \in Workers : at[w] = "unstarted"
    /\ phase' = "failed"
    /\ Move(Owner, "stop_lock")
    /\ UNCHANGED <<vars, stopped, stop_mutex, task, arg, futures, ran>>

----------------------------------------------------------------------------
(* submit(f)                                                               *)

\* Where a thread is when it is not inside submit(): in client code, or in the
\* task that a worker runs.
Home(t) == IF t \in Workers THEN "task" ELSE "out"

SubmitCheck(t, v) ==
    /\ phase = "live"
    /\ at[t] = Home(t)
    /\ v \in Values \ (offered \cup {arg[u] : u \in Threads})
    /\ ~stopped                 \* otherwise submit() throws, and nothing changes
    /\ arg' = [arg EXCEPT ![t] = v]
    /\ Move(t, "submit")
    /\ UNCHANGED <<vars, stopped, stop_mutex, phase, task, futures, ran>>

\* tasks.push(std::move(task)) starts.
SubmitPush(t) ==
    /\ at[t] = "submit"
    /\ PushCheck(t, arg[t])
    /\ Move(t, "pushing")
    /\ UNCHANGED <<stopped, stop_mutex, phase, task, arg, futures, ran>>

SubmitReturnSwallows(t) ==
    /\ at[t] = "pushing"
    /\ pc[t] = "idle"
    /\ futures' = futures \cup {arg[t]}
    /\ arg' = [arg EXCEPT ![t] = NoValue]
    /\ Move(t, Home(t))
    /\ UNCHANGED <<vars, stopped, stop_mutex, phase, task, ran>>

SubmitRetries(t) ==
    /\ at[t] = "pushing"
    /\ pc[t] = "idle"
    /\ \/ /\ status[t] = "ok"
          /\ futures' = futures \cup {arg[t]}
          /\ arg' = [arg EXCEPT ![t] = NoValue]
          /\ Move(t, Home(t))
          /\ UNCHANGED <<vars, stopped, stop_mutex, phase, task, ran>>
       \/ /\ status[t] = "closed"
          /\ UNCHANGED allvars

\* push() returned, or threw queue_closed, which becomes thread_pool_stopped.
SubmitReturn(t) ==
    /\ at[t] = "pushing"
    /\ pc[t] = "idle"
    /\ futures' = IF status[t] = "ok" THEN futures \cup {arg[t]} ELSE futures
    /\ arg' = [arg EXCEPT ![t] = NoValue]
    /\ Move(t, Home(t))
    /\ UNCHANGED <<vars, stopped, stop_mutex, phase, task, ran>>

----------------------------------------------------------------------------
(* worker_function()                                                       *)

WorkerPop(w) ==
    /\ at[w] = "loop"
    /\ PopCall(w, "wait")
    /\ Move(w, "popping")
    /\ UNCHANGED <<stopped, stop_mutex, phase, task, arg, futures, ran>>

WorkerTakesAnyAnswer(w) ==
    /\ at[w] = "popping"
    /\ pc[w] = "idle"
    /\ Move(w, "task")
    /\ task' = [task EXCEPT ![w] = IF status[w] = "value" THEN val[w] ELSE task[w]]
    /\ UNCHANGED <<vars, stopped, stop_mutex, phase, arg, futures, ran>>

\* wait_and_pop(task) returned: true starts the task, false ends the thread.
WorkerTakes(w) ==
    /\ at[w] = "popping"
    /\ pc[w] = "idle"
    /\ \/ /\ status[w] = "value"
          /\ task' = [task EXCEPT ![w] = val[w]]
          /\ Move(w, "task")
       \/ /\ status[w] # "value"
          /\ Move(w, "exited")
          /\ UNCHANGED task
    /\ UNCHANGED <<vars, stopped, stop_mutex, phase, arg, futures, ran>>

\* task() returned; its result or its exception is in the future.
WorkerRuns(w) ==
    /\ at[w] = "task"
    /\ w \in Workers
    /\ ran' = ran \cup {task[w]}
    /\ Move(w, "loop")
    /\ UNCHANGED <<vars, stopped, stop_mutex, phase, task, arg, futures>>

----------------------------------------------------------------------------
(* stop() and ~thread_pool()                                               *)

StopCall(t) ==
    /\ phase = "live"
    /\ at[t] \in {"out", "stopped"}
    /\ Move(t, "stop_lock")
    /\ UNCHANGED <<vars, stopped, stop_mutex, phase, task, arg, futures, ran>>

StopTestsFirst(t) ==
    /\ at[t] = "stop_lock"
    /\ \/ /\ stopped
          /\ Move(t, "stopped")
          /\ UNCHANGED <<stopped, stop_mutex>>
       \/ /\ ~stopped
          /\ stop_mutex = NoThread
          /\ stopped' = TRUE
          /\ stop_mutex' = t
          /\ Move(t, "stop_close")
    /\ UNCHANGED <<vars, phase, task, arg, futures, ran>>

\* The lock, the test of stopped and its store: only a thread that holds
\* stop_mutex writes stopped, so nobody can tell these apart.
StopLock(t) ==
    /\ at[t] = "stop_lock"
    /\ stop_mutex = NoThread
    /\ \/ /\ stopped
          /\ Move(t, "stopped")
          /\ UNCHANGED <<stopped, stop_mutex>>
       \/ /\ ~stopped
          /\ stopped' = TRUE
          /\ stop_mutex' = t
          /\ Move(t, "stop_close")
    /\ UNCHANGED <<vars, phase, task, arg, futures, ran>>

StopWithoutClose(t) ==
    /\ at[t] = "stop_close"
    /\ Move(t, "joining")
    /\ UNCHANGED <<vars, stopped, stop_mutex, phase, task, arg, futures, ran>>

\* tasks.close() starts.
StopClose(t) ==
    /\ at[t] = "stop_close"
    /\ CloseStore(t)
    /\ Move(t, "joining")
    /\ UNCHANGED <<stopped, stop_mutex, phase, task, arg, futures, ran>>

StopJoinsSome(t) ==
    /\ at[t] = "joining"
    /\ pc[t] = "idle"
    /\ (\E w \in Workers : at[w] = "exited") \/ \A w \in Workers : at[w] = "unstarted"
    /\ stop_mutex' = NoThread
    /\ Move(t, "stopped")
    /\ UNCHANGED <<vars, stopped, phase, task, arg, futures, ran>>

\* close() returned, every started worker has been joined; unlock and return.
StopJoin(t) ==
    /\ at[t] = "joining"
    /\ pc[t] = "idle"
    /\ \A w \in Workers : at[w] \in {"unstarted", "exited"}
    /\ stop_mutex' = NoThread
    /\ Move(t, "stopped")
    /\ UNCHANGED <<vars, stopped, phase, task, arg, futures, ran>>

----------------------------------------------------------------------------

\* A step inside a call of the queue.
QueueStep(t) == Step(t) /\ UNCHANGED poolvars

QueueSpuriousWakeup(t) == SpuriousWakeup(t) /\ UNCHANGED poolvars

\* A step of a call or of a worker that is under way.
PoolStep(t) ==
    \/ QueueStep(t)
    \/ SubmitPush(t) \/ SubmitReturn(t)
    \/ WorkerPop(t) \/ WorkerTakes(t) \/ WorkerRuns(t)
    \/ StopLock(t) \/ StopClose(t) \/ StopJoin(t)

Construct == (\E w \in Workers : Spawn(w)) \/ CtorDone \/ CtorThrow

\* Nothing is left to do when stop() has returned to all its callers; clients
\* may then call no more.
Quiet ==
    /\ \A t \in Threads : pc[t] = "idle" /\ at[t] \in {"out", "stopped", "exited", "unstarted"}
    /\ phase # "ctor"
    /\ UNCHANGED allvars

PoolNext ==
    \/ Construct
    \/ \E t \in Producers, v \in Values : SubmitCheck(t, v)
    \/ \E t \in Closers : StopCall(t)
    \/ \E t \in Threads : PoolStep(t) \/ QueueSpuriousWakeup(t)
    \/ Quiet

PoolSpec == PoolInit /\ [][PoolNext]_allvars

\* Every thread that can run is run, tasks return, and the constructor goes on;
\* clients owe no calls, and a contended mutex is granted in any order.
FairPoolSpec ==
    /\ PoolSpec
    /\ WF_allvars(Construct)
    /\ \A t \in Threads : WF_allvars(PoolStep(t))

----------------------------------------------------------------------------
(* Safety                                                                  *)

StopReturned == \E t \in Closers : at[t] = "stopped"

\* When stop() has returned to any caller, a concurrent or a second one, or the
\* constructor's own catch clause, every worker that was started has finished:
\* no std::thread is destroyed joinable and no worker touches a destroyed pool
\* (thread_pool.hpp:64-71, 82-97).
StopMeansQuiescent ==
    StopReturned => \A w \in Workers : at[w] \in {"unstarted", "exited"}

\* When stop() has returned from a pool with workers, every task whose push()
\* took effect, hence every task a future was handed out for, has run
\* (thread_pool.hpp:80-81, 91, 127-144).
NoTaskLost ==
    (StopReturned /\ Workers # {}) =>
        /\ futures \subseteq ran
        /\ \A k \in 1..Len(pushed) : pushed[k] \in ran

\* A task is executed at most once: no two workers hold the same task and none
\* holds one that has run, although every worker reuses its task object
\* (thread_pool.hpp:129-136).
TaskRunsOnce ==
    \A w \in Workers : at[w] \in Busy =>
        /\ task[w] \in Values \ ran
        /\ \A u \in Workers \ {w} : at[u] \in Busy => task[u] # task[w]

\* submit() returns a future exactly for a task that is in the queue for good:
\* whenever nobody is between its push() and its return, the tasks with futures
\* are the tasks pushed (thread_pool.hpp:110-119).
FutureMeansQueued ==
    (\A t \in Producers : at[t] # "pushing") =>
        futures = {pushed[k] : k \in 1..Len(pushed)}

----------------------------------------------------------------------------
(* The inductive invariant behind the safety properties                    *)

Quiescent == \A w \in Workers : at[w] \in {"unstarted", "exited"}

PopPCs == HeadHeld \cup {"pop_lock", "waiting", "relock"}
PushPCs == PushHeld \cup {"push_notify"}

\* Where a thread is in the pool says what it may be doing in the queue.
PlaceInv ==
    \A t \in Threads :
        /\ at[t] \in {"unstarted", "loop", "popping", "task", "exited"} => t \in Workers
        /\ at[t] \in {"submit", "pushing"} => t \in Producers
        /\ at[t] \in {"out", "stop_lock", "stop_close", "joining", "stopped"} => t \notin Workers
        /\ at[t] \in {"stop_lock", "stop_close", "joining", "stopped"} => t \in Closers
        /\ pc[t] \in PopPCs => at[t] = "popping" /\ op[t] = "wait"
        /\ pc[t] \in PushPCs => at[t] = "pushing"
        /\ pc[t] = "close_notify" => at[t] = "joining"

\* wait_and_pop() has put a task into w's local variable, which w will now run.
HandedOver(w) == at[w] = "popping" /\ pc[w] = "idle" /\ status[w] = "value"

\* Once stopped is set and stop_mutex free again, all started workers are done,
\* and no more are started.
StopInv ==
    /\ \A t \in Closers : at[t] \in {"stop_close", "joining"} <=> stop_mutex = t
    /\ StopReturned \/ stop_mutex # NoThread => stopped
    /\ StopReturned => stop_mutex = NoThread
    /\ stopped /\ stop_mutex = NoThread => Quiescent
    /\ stopped => phase # "ctor"
    /\ phase = "ctor" => \A t \in Closers : at[t] = "out"
    /\ phase = "live" => \A w \in Workers : at[w] # "unstarted"
    /\ phase # "live" =>
          pushed = <<>> /\ \A t \in Producers : at[t] \notin Busy /\ ~HandedOver(t)

\* A worker leaves only when the queue is closed and drained.
ExitInv ==
    \A w \in Workers :
        /\ at[w] = "exited" => drained
        /\ at[w] = "popping" /\ pc[w] = "idle" /\ status[w] # "value" => drained

\* w holds the task v: it runs it, or is about to.
Holds(w, v) ==
    \/ at[w] \in Busy /\ task[w] = v
    \/ HandedOver(w) /\ val[w] = v

\* Every popped task has run or is in the hands of a worker, and a future stands
\* for a task that was linked.
TaskInv ==
    /\ \A k \in 1..Len(popped) :
          popped[k] \in ran \/ \E w \in Workers : Holds(w, popped[k])
    /\ \A w \in Workers :
          /\ at[w] \in Busy => task[w] \in Values
          /\ HandedOver(w) => val[w] \in Values
    /\ \A v \in futures : \E k \in 1..Len(pushed) : pushed[k] = v
    /\ \A t \in Producers : at[t] = "pushing" =>
          /\ pc[t] \in PushHeld => val[t] = arg[t]
          /\ (pc[t] = "push_notify" \/ (pc[t] = "idle" /\ status[t] = "ok")) =>
                \E k \in 1..Len(pushed) : pushed[k] = arg[t]

\* The inductive invariant of the pool and its queue (the whole of
\* thread_pool.hpp).
PoolInv == QueueInv /\ PoolTypeOK /\ PlaceInv /\ StopInv /\ ExitInv /\ TaskInv

\* push() of t has linked its task, and submit() has not returned yet.
Linking(t) ==
    at[t] = "pushing" /\ (pc[t] = "push_notify" \/ (pc[t] = "idle" /\ status[t] = "ok"))

\* A task that was linked has a future or a submit() about to return it.
FutureInv ==
    \A k \in 1..Len(pushed) :
        pushed[k] \in futures \/ \E t \in Producers : Linking(t) /\ arg[t] = pushed[k]

\* A task that is held has been popped, has not run, and has one holder; so has a
\* task that ran been popped.
OnceInv ==
    /\ \A v \in ran : \E k \in 1..Len(popped) : popped[k] = v
    /\ \A w \in Workers, v \in Values : Holds(w, v) =>
          /\ v \notin ran
          /\ \E k \in 1..Len(popped) : popped[k] = v
          /\ \A u \in Workers \ {w} : ~Holds(u, v)

----------------------------------------------------------------------------
(* Liveness                                                                *)

\* Every submit() returns a future or throws thread_pool_stopped, also from
\* inside a task and while stop() is joining (thread_pool.hpp:103-120).
SubmitReturns == \A t \in Producers : at[t] \in {"submit", "pushing"} ~> at[t] = Home(t)

\* A worker that sleeps on has_new_element of the closed queue.
MissedClose == closed /\ \E w \in Workers : pc[w] = "waiting"

\* stop() returns to every caller, except when a worker missed the wakeup of
\* close() for good: nothing else, not a task that submits, not a second stop(),
\* can hang it (thread_pool.hpp:85-97).
OnlyMissedCloseHangsStop ==
    \A t \in Closers : at[t] = "stop_lock" ~> (at[t] = "stopped" \/ []MissedClose)
=============================================================================
