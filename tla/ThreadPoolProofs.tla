-------------------------- MODULE ThreadPoolProofs --------------------------
(***************************************************************************)
(* The safety of lzhlib::thread::thread_pool for any number of workers,    *)
(* submitters, stopping threads and tasks: what stop() guarantees when it  *)
(* returns.  Every step of the pool is a step of the queue or leaves the   *)
(* queue alone, so QueueInv carries over from ThreadQueueProofs.           *)
(***************************************************************************)
EXTENDS ThreadPool, ThreadQueueProofs

\* What a step of t inside a queue call leaves of the other threads.
Others(t) ==
    \A u \in Threads \ {t} :
        /\ pc'[u] = pc[u] \/ (pc[u] = "waiting" /\ pc'[u] = "relock")
        /\ op'[u] = op[u] /\ val'[u] = val[u] /\ status'[u] = status[u]

\* How t itself moves: a call stays the call it is until it returns.
Mine(t) ==
    /\ pc[t] # "idle"
    /\ pc[t] \in PushPCs => pc'[t] \in PushPCs \cup {"idle"}
    /\ pc[t] \in PopPCs => pc'[t] \in PopPCs \cup {"idle"}
    /\ pc[t] = "close_notify" => pc'[t] = "idle"
    /\ pc'[t] \in PopPCs /\ op[t] = "wait" => op'[t] = "wait"

\* What the step does to the history, and what its answers say of it.
Past(t) ==
    /\ drained => drained'
    /\ \/ pushed' = pushed
       \/ pc[t] = "push_link" /\ pc'[t] = "push_notify" /\ pushed' = Append(pushed, val[t])
    /\ \/ popped' = popped
       \/ /\ pc[t] = "pop_head" /\ pc'[t] = "idle" /\ status'[t] = "value"
          /\ popped' = Append(popped, val'[t])
    /\ pc[t] \in PopPCs /\ pc'[t] = "idle" /\ status'[t] = "value" =>
          popped' = Append(popped, val'[t])
    /\ pc'[t] \in PushHeld => pc[t] \in PushHeld /\ val'[t] = val[t]
    /\ pc'[t] = "push_notify" => pushed' = Append(pushed, val[t]) /\ pc[t] = "push_link"
    /\ pc[t] \in PushHeld /\ pc'[t] = "idle" => status'[t] = "closed"
    /\ pc[t] \in PopPCs /\ pc'[t] = "idle" /\ op[t] = "wait" /\ status'[t] # "value" => drained'

\* A step inside a call of the queue, as the pool sees it (queue.hpp:97-176).
LEMMA StepFrame ==
    ASSUME QueueInv, NEW t \in Threads, Step(t) \/ SpuriousWakeup(t)
    PROVE  Others(t) /\ Mine(t) /\ Past(t)
<1> USE DEF QueueInv, TypeOK, PCs, PushPCs, PopPCs, HeadHeld, PushHeld, TailHeld, PopNames,
            Goto, Return, locks, chain, history, Waiting, Others, Mine, Past
<1>1. CASE PushLock(t) BY <1>1 DEF PushLock
<1>2. CASE PushRecheck(t) BY <1>2 DEF PushRecheck
<1>3. CASE PushLink(t) BY <1>3 DEF PushLink
<1>4. CASE PushNotify(t) BY <1>4 DEF PushNotify
<1>5. CASE CloseNotify(t) BY <1>5 DEF CloseNotify
<1>6. CASE PopLock(t) BY <1>6 DEF PopLock
<1>7. CASE PredClosed(t) BY <1>7 DEF PredClosed
<1>8. CASE PredEmpty(t) BY <1>8 DEF PredEmpty
<1>9. CASE Block(t) BY <1>9 DEF Block
<1>10. CASE Timeout(t) BY <1>10 DEF Timeout
<1>11. CASE Relock(t) BY <1>11 DEF Relock
<1>12. CASE CheckEmpty(t) BY <1>12 DEF CheckEmpty
<1>13. CASE PopHead(t) BY <1>13 DEF PopHead
<1>14. CASE SpuriousWakeup(t) BY <1>14 DEF SpuriousWakeup
<1> QED BY <1>1, <1>2, <1>3, <1>4, <1>5, <1>6, <1>7, <1>8, <1>9, <1>10, <1>11, <1>12,
           <1>13, <1>14 DEF Step

\* A step of the pool is a step of the queue or leaves the queue alone.
LEMMA QueueMoves == PoolInv /\ [PoolNext]_allvars => [Next]_vars
<1> SUFFICES ASSUME PoolInv, [PoolNext]_allvars PROVE [Next]_vars
  OBVIOUS
<1> USE PoolAssumption DEF PoolInv, PoolTypeOK, PlaceInv, Workers, Threads
<1>1. ASSUME NEW t \in Threads, SubmitPush(t) PROVE Next
  <2>1. t \in Producers /\ arg[t] \in Values
    BY <1>1 DEF SubmitPush, PushCheck
  <2> QED BY <1>1, <2>1 DEF SubmitPush, Next
<1>2. ASSUME NEW t \in Threads, WorkerPop(t) PROVE Next
  BY <1>2 DEF WorkerPop, Next
<1>3. ASSUME NEW t \in Threads, StopClose(t) PROVE Next
  BY <1>3 DEF StopClose, Next
<1>4. ASSUME NEW t \in Threads, QueueStep(t) \/ QueueSpuriousWakeup(t) PROVE Next
  BY <1>4 DEF QueueStep, QueueSpuriousWakeup, Next
<1>5. ASSUME NEW t \in Threads, PoolStep(t) PROVE [Next]_vars
  BY <1>1, <1>2, <1>3, <1>4, <1>5
     DEF PoolStep, SubmitReturn, WorkerTakes, WorkerRuns, StopLock, StopJoin
<1>6. ASSUME Construct PROVE UNCHANGED vars
  BY <1>6 DEF Construct, Spawn, CtorDone, CtorThrow
<1>7. ASSUME Quiet \/ UNCHANGED allvars PROVE UNCHANGED vars
  BY <1>7 DEF Quiet, allvars
<1>8. ASSUME NEW t \in Producers, NEW v \in Values, SubmitCheck(t, v) PROVE UNCHANGED vars
  BY <1>8 DEF SubmitCheck
<1>9. ASSUME NEW t \in Closers, StopCall(t) PROVE UNCHANGED vars
  BY <1>9 DEF StopCall
<1> QED BY <1>4, <1>5, <1>6, <1>7, <1>8, <1>9 DEF PoolNext

\* Appending to a history keeps what is in it.
LEMMA Grows ==
    ASSUME NEW S, NEW s \in Seq(S), NEW r \in Seq(S), NEW x, r = s \/ r = Append(s, x)
    PROVE  /\ Len(s) \in Nat /\ Len(r) \in Nat /\ Len(s) <= Len(r)
           /\ \A k \in 1..Len(s) : k \in 1..Len(r) /\ r[k] = s[k]
           /\ \A k \in 1..Len(r) : k \in 1..Len(s) \/ (r = Append(s, x) /\ r[k] = x)
           /\ r = Append(s, x) /\ x \in S => Len(r) \in 1..Len(r) /\ r[Len(r)] = x
<1>1. CASE r = s
  <2>1. x \in S => r # Append(s, x)
    BY <1>1
  <2> QED BY <1>1, <2>1
<1>2. CASE r = Append(s, x)
  <2>1. Len(s) \in Nat
    OBVIOUS
  <2>2. r # s
    BY <1>2, <2>1
  <2> QED BY <1>2, <2>1
<1> QED BY <1>1, <1>2

\* A step inside a call of the queue.
LEMMA QueueStepInv ==
    ASSUME PoolInv, QueueInv', NEW t \in Threads, QueueStep(t) \/ QueueSpuriousWakeup(t)
    PROVE  PoolInv'
<1> USE PoolAssumption
<1>1. Others(t) /\ Mine(t) /\ Past(t) /\ UNCHANGED poolvars
  BY StepFrame DEF PoolInv, QueueStep, QueueSpuriousWakeup
<1>2. PoolTypeOK' /\ (PoolTypeOK /\ TypeOK /\ TypeOK')
  BY <1>1 DEF PoolInv, QueueInv, PoolTypeOK, poolvars
<1>3. PlaceInv'
  BY <1>1, <1>2 DEF PoolInv, PlaceInv, poolvars, Others, Mine, TypeOK, PopPCs, PushPCs,
                    PCs, HeadHeld, PushHeld, TailHeld
<1>h. ASSUME NEW u \in Workers, HandedOver(u)'
      PROVE  \/ HandedOver(u) /\ val'[u] = val[u]
             \/ u = t /\ popped' = Append(popped, val'[t])
  <2>1. CASE u # t
    <3>1. at[u] = "popping" /\ pc'[u] = "idle" /\ status'[u] = "value" /\ u \in Threads
      BY <1>1, <1>h DEF HandedOver, poolvars, Threads, Workers
    <3> QED BY <1>1, <2>1, <3>1 DEF HandedOver, Others
  <2>2. CASE u = t
    <3>1. pc[t] \in PopPCs
      BY <1>1, <1>2, <1>h, <2>2 DEF PoolInv, PlaceInv, HandedOver, Mine, TypeOK, PCs, PopPCs,
                                   PushPCs, HeadHeld, PushHeld, TailHeld, poolvars
    <3> QED BY <1>1, <1>h, <2>2, <3>1 DEF HandedOver, Past
  <2> QED BY <2>1, <2>2
<1>4. StopInv'
  <2>1. phase # "live" => pushed' = pushed
    BY <1>1, <1>2 DEF PoolInv, StopInv, PlaceInv, Past, PushPCs, PushHeld, TailHeld, Busy
  <2>2. phase # "live" => \A u \in Workers : ~HandedOver(u)'
    <3>1. SUFFICES ASSUME phase # "live", NEW u \in Workers, HandedOver(u)' PROVE FALSE
      OBVIOUS
    <3>2. ~HandedOver(u) /\ pushed' = <<>>
      BY <2>1, <3>1 DEF PoolInv, StopInv
    <3>3. popped' = Append(popped, val'[t])
      BY <1>h, <3>1, <3>2
    <3>4. Len(popped') = Len(popped) + 1 /\ Len(popped) \in Nat
      BY <1>2, <3>3 DEF TypeOK
    <3>5. Len(popped') <= 0
      BY <3>2 DEF QueueInv, FifoOrder
    <3> QED BY <3>4, <3>5
  <2>3. phase # "live" => pushed' = <<>> /\ \A u \in Producers : at'[u] \notin Busy /\ ~HandedOver(u)'
    <3>1. \A u \in Producers \ Workers : ~HandedOver(u)'
      BY <1>3 DEF PlaceInv, HandedOver, Workers, Threads
    <3> QED BY <1>1, <2>1, <2>2, <3>1 DEF PoolInv, StopInv, poolvars
  <2> QED BY <1>1, <2>3 DEF PoolInv, StopInv, StopReturned, Quiescent, poolvars
<1>5. ExitInv'
  <2> SUFFICES ASSUME NEW w \in Workers
               PROVE  /\ at[w] = "exited" => drained'
                      /\ at[w] = "popping" /\ pc'[w] = "idle" /\ status'[w] # "value" => drained'
    BY <1>1 DEF ExitInv, poolvars, Workers
  <2>1. CASE w = t
    BY <1>1, <2>1 DEF PoolInv, ExitInv, PlaceInv, Mine, Past, PopPCs, PushPCs, TypeOK, PCs,
                      QueueInv, HeadHeld, PushHeld, TailHeld
  <2>2. CASE w # t
    BY <1>1, <2>2 DEF PoolInv, ExitInv, Others, Past, Threads, Workers
  <2> QED BY <2>1, <2>2
<1>6. TaskInv'
  <2>1. \A w \in Workers, v \in Values : Holds(w, v) => Holds(w, v)'
    BY <1>1 DEF Holds, HandedOver, Others, Mine, poolvars, Threads, Workers
  <2>2. \A k \in 1..Len(popped') : popped'[k] \in ran' \/ \E w \in Workers : Holds(w, popped[k])'
    <3>1. \A k \in 1..Len(popped) : popped[k] \in Values
      BY <1>2 DEF TypeOK
    <3>2. CASE popped' = popped
      BY <1>1, <2>1, <3>1, <3>2 DEF PoolInv, TaskInv, poolvars, Holds, HandedOver
    <3>3. CASE popped' = Append(popped, val'[t]) /\ pc[t] = "pop_head" /\ pc'[t] = "idle"
               /\ status'[t] = "value"
      <4>1. t \in Workers /\ Holds(t, val[t])'
        BY <1>1, <3>3 DEF PoolInv, PlaceInv, Holds, HandedOver, PopPCs, HeadHeld, poolvars
      <4>2. \A k \in 1..Len(popped') :
               (k \in 1..Len(popped) /\ popped'[k] = popped[k]) \/ popped'[k] = val'[t]
        BY <1>2, <3>3, Grows DEF TypeOK
      <4> QED BY <1>1, <2>1, <3>1, <4>1, <4>2 DEF PoolInv, TaskInv, poolvars, Holds, HandedOver
    <3> QED BY <1>1, <3>2, <3>3 DEF Past
  <2>6. ASSUME NEW w \in Workers
        PROVE  /\ at'[w] \in Busy => task'[w] \in Values
               /\ HandedOver(w)' => val'[w] \in Values
    <3>1. popped' = Append(popped, val'[t]) => val'[t] \in Values
      <4> SUFFICES ASSUME popped' = Append(popped, val'[t]) PROVE val'[t] \in Values
        OBVIOUS
      <4>1. Len(popped) \in Nat /\ Len(popped') = Len(popped) + 1 /\ popped'[Len(popped')] = val'[t]
        BY <1>2 DEF TypeOK
      <4> QED BY <1>2, <4>1 DEF TypeOK
    <3> QED BY <1>1, <1>h, <3>1 DEF PoolInv, TaskInv, poolvars
  <2>3. \A k \in 1..Len(pushed) : k \in 1..Len(pushed') /\ pushed'[k] = pushed[k]
    BY <1>1, <1>2, Grows DEF Past, TypeOK
  <2>4. \A v \in futures' : \E k \in 1..Len(pushed') : pushed'[k] = v
    BY <1>1, <2>3 DEF PoolInv, TaskInv, poolvars
  <2>5. ASSUME NEW u \in Producers, at'[u] = "pushing"
        PROVE  /\ pc'[u] \in PushHeld => val'[u] = arg'[u]
               /\ (pc'[u] = "push_notify" \/ (pc'[u] = "idle" /\ status'[u] = "ok")) =>
                     \E k \in 1..Len(pushed') : pushed'[k] = arg'[u]
    <3>1. at[u] = "pushing" /\ arg'[u] = arg[u] /\ u \in Threads
      BY <1>1, <2>5 DEF poolvars, Threads
    <3>2. CASE u # t
      <4>1. pc'[u] = pc[u] \/ pc'[u] = "relock"
        BY <1>1, <3>1, <3>2 DEF Others
      <4>2. val'[u] = val[u] /\ status'[u] = status[u]
        BY <1>1, <3>1, <3>2 DEF Others
      <4> QED BY <2>3, <3>1, <4>1, <4>2 DEF PoolInv, TaskInv, PushHeld, TailHeld
    <3>3. CASE u = t
      <4>1. pc[t] \in PushPCs
        BY <1>1, <3>1, <3>3 DEF PoolInv, PlaceInv, QueueInv, TypeOK, PCs, PopPCs, PushPCs, Mine, PushHeld
      <4>2. pc'[t] \in PushHeld => val'[t] = arg[t]
        BY <1>1, <3>1, <3>3 DEF Past, PoolInv, TaskInv
      <4>3. pc'[t] = "push_notify" => \E k \in 1..Len(pushed') : pushed'[k] = arg[t]
        <5>1. SUFFICES ASSUME pc'[t] = "push_notify"
                       PROVE  \E k \in 1..Len(pushed') : pushed'[k] = arg[t]
          OBVIOUS
        <5>2. pc[t] \in PushHeld /\ pushed' = Append(pushed, val[t])
          BY <1>1, <5>1 DEF Past, PushHeld, TailHeld
        <5>3. val[t] = arg[t] /\ val[t] \in Values
          BY <3>1, <3>3, <5>2 DEF PoolInv, TaskInv, QueueInv, NewNodeInv
        <5> QED BY <1>2, <5>2, <5>3, Grows DEF TypeOK
      <4>4. pc'[t] = "idle" /\ status'[t] = "ok" => \E k \in 1..Len(pushed') : pushed'[k] = arg[t]
        <5>1. SUFFICES ASSUME pc'[t] = "idle", status'[t] = "ok"
                       PROVE  \E k \in 1..Len(pushed') : pushed'[k] = arg[t]
          OBVIOUS
        <5>2. pc[t] = "push_notify"
          BY <1>1, <4>1, <5>1 DEF Past, PushPCs
        <5> QED BY <2>3, <3>1, <3>3, <5>2 DEF PoolInv, TaskInv
      <4> QED BY <3>1, <3>3, <4>2, <4>3, <4>4
    <3> QED BY <3>2, <3>3
  <2> QED BY <2>2, <2>4, <2>5, <2>6 DEF TaskInv
<1> QED BY <1>2, <1>3, <1>4, <1>5, <1>6 DEF PoolInv

\* A step that pops nothing and pushes nothing keeps TaskInv, if every task that
\* was held is still held or has run, and every new future is for a linked task.
LEMMA TaskStable ==
    ASSUME TypeOK, TaskInv, UNCHANGED <<pushed, popped>>, ran \subseteq ran',
           \A w \in Workers, v \in Values : Holds(w, v) => v \in ran' \/ Holds(w, v)',
           \A w \in Workers : at'[w] \in Busy => task'[w] \in Values,
           \A w \in Workers : HandedOver(w)' => val'[w] \in Values,
           \A v \in futures' : v \in futures \/ \E k \in 1..Len(pushed) : pushed[k] = v,
           \A t \in Producers : at'[t] = "pushing" =>
               \/ at[t] = "pushing" /\ pc'[t] = pc[t] /\ val'[t] = val[t]
                  /\ arg'[t] = arg[t] /\ status'[t] = status[t]
               \/ pc'[t] = "push_lock" /\ val'[t] = arg'[t]
               \/ pc'[t] = "idle" /\ status'[t] # "ok"
    PROVE  TaskInv'
<1>1. \A k \in 1..Len(popped) : popped[k] \in Values
  BY DEF TypeOK
<1>2. ASSUME NEW k \in 1..Len(popped)
      PROVE  popped[k] \in ran' \/ \E w \in Workers : Holds(w, popped[k])'
  BY <1>1 DEF TaskInv, Holds, HandedOver
<1>3. \A v \in futures' : \E k \in 1..Len(pushed) : pushed[k] = v
  BY DEF TaskInv
<1>4. ASSUME NEW t \in Producers, at'[t] = "pushing"
      PROVE  /\ pc'[t] \in PushHeld => val'[t] = arg'[t]
             /\ (pc'[t] = "push_notify" \/ (pc'[t] = "idle" /\ status'[t] = "ok")) =>
                   \E k \in 1..Len(pushed) : pushed[k] = arg'[t]
  BY <1>4 DEF TaskInv, PushHeld, TailHeld
<1> QED BY <1>2, <1>3, <1>4 DEF TaskInv, Holds, HandedOver

\* The constructor, with the failure that makes it call stop() (thread_pool.hpp:56-72).
LEMMA ConstructInv ==
    ASSUME PoolInv, QueueInv', Construct
    PROVE  PoolInv'
<1> USE PoolAssumption DEF PoolInv, QueueInv, TypeOK, PoolTypeOK, Places, Busy, Move, vars, Workers, Threads
<1>1. CASE \E w \in Workers : Spawn(w)
  <2> PICK w \in Workers : Spawn(w) BY <1>1
  <2> USE DEF Spawn
  <2>1. PoolTypeOK' OBVIOUS
  <2>2. PlaceInv' BY DEF PlaceInv, PopPCs, PushPCs
  <2>3. StopInv' BY DEF StopInv, StopReturned, Quiescent, HandedOver
  <2>4. ExitInv' BY DEF ExitInv
  <2>5. TaskInv'
    <3>1. \A x \in Workers, y \in Values : Holds(x, y) => Holds(x, y)'
      BY DEF Holds, HandedOver
    <3> QED BY <3>1, TaskStable DEF TaskInv, HandedOver
  <2> QED BY <2>1, <2>2, <2>3, <2>4, <2>5
<1>2. CASE CtorDone
  <2> USE <1>2 DEF CtorDone
  <2>1. PoolTypeOK' OBVIOUS
  <2>2. PlaceInv' BY DEF PlaceInv
  <2>3. StopInv' BY DEF StopInv, StopReturned, Quiescent, HandedOver
  <2>4. ExitInv' BY DEF ExitInv
  <2>5. TaskInv'
    <3>1. \A x \in Workers, y \in Values : Holds(x, y) => Holds(x, y)'
      BY DEF Holds, HandedOver
    <3> QED BY <3>1, TaskStable DEF TaskInv, HandedOver
  <2> QED BY <2>1, <2>2, <2>3, <2>4, <2>5
<1>3. CASE CtorThrow
  <2> USE <1>3 DEF CtorThrow
  <2>0. at[Owner] = "out" /\ Owner \in Threads /\ Owner \notin Workers
    BY DEF StopInv
  <2>1. PoolTypeOK' BY <2>0
  <2>2. PlaceInv' BY <2>0 DEF PlaceInv, PopPCs, PushPCs
  <2>3. StopInv' BY <2>0 DEF StopInv, StopReturned, Quiescent, HandedOver
  <2>4. ExitInv' BY <2>0 DEF ExitInv
  <2>5. TaskInv'
    <3>1. \A x \in Workers, y \in Values : Holds(x, y) => Holds(x, y)'
      BY <2>0 DEF Holds, HandedOver
    <3> QED BY <3>1, TaskStable DEF TaskInv, HandedOver
  <2> QED BY <2>1, <2>2, <2>3, <2>4, <2>5
<1> QED BY <1>1, <1>2, <1>3 DEF Construct

\* submit(), from a client's thread or from a task (thread_pool.hpp:103-120).
LEMMA SubmitInv ==
    ASSUME PoolInv, QueueInv', NEW t \in Threads,
           \/ \E v \in Values : SubmitCheck(t, v) /\ t \in Producers
           \/ SubmitPush(t) \/ SubmitReturn(t)
    PROVE  PoolInv'
<1> USE PoolAssumption DEF PoolInv, QueueInv, TypeOK, PoolTypeOK, Places, Busy, Move, Home, vars, Workers, Threads
<1>1. CASE \E v \in Values : SubmitCheck(t, v) /\ t \in Producers
  <2> PICK v \in Values : SubmitCheck(t, v) /\ t \in Producers BY <1>1
  <2> USE DEF SubmitCheck
  <2>1. PoolTypeOK' OBVIOUS
  <2>2. PlaceInv' BY DEF PlaceInv, PopPCs, PushPCs
  <2>3. StopInv' BY DEF StopInv, StopReturned, Quiescent, HandedOver
  <2>4. ExitInv' BY DEF ExitInv
  <2>5. TaskInv'
    <3>1. \A x \in Workers, y \in Values : Holds(x, y) => Holds(x, y)'
      BY DEF Holds, HandedOver
    <3>2. \A w \in Workers : /\ at'[w] \in Busy => task'[w] \in Values
                             /\ HandedOver(w)' => val'[w] \in Values
      BY DEF TaskInv, HandedOver
    <3>3. \A u \in Producers : at'[u] = "pushing" =>
             at[u] = "pushing" /\ UNCHANGED <<pc, val, status>> /\ arg'[u] = arg[u]
      OBVIOUS
    <3> QED BY <3>1, <3>2, <3>3, TaskStable
  <2> QED BY <2>1, <2>2, <2>3, <2>4, <2>5
<1>2. CASE SubmitPush(t)
  <2> USE <1>2 DEF SubmitPush, PushCheck, Return, Goto, locks, chain, history
  <2>1. PoolTypeOK' OBVIOUS
  <2>0. /\ UNCHANGED <<stopped, stop_mutex, phase, task, arg, futures, ran, pushed, popped, drained>>
        /\ at[t] = "submit" /\ at' = [at EXCEPT ![t] = "pushing"]
        /\ pc[t] = "idle" /\ pc'[t] \in {"idle", "push_lock"}
        /\ pc'[t] = "idle" => status'[t] = "closed"
        /\ pc'[t] = "push_lock" => val'[t] = arg[t]
        /\ t \in Producers
        /\ \A u \in Threads \ {t} : /\ pc'[u] = pc[u] /\ op'[u] = op[u] /\ val'[u] = val[u]
                                    /\ status'[u] = status[u]
    BY DEF PlaceInv
  <2> HIDE DEF SubmitPush, PushCheck
  <2>2. PlaceInv' BY <2>0 DEF PlaceInv, PopPCs, PushPCs, HeadHeld, PushHeld, TailHeld
  <2>3. StopInv' BY <2>0 DEF StopInv, StopReturned, Quiescent, HandedOver
  <2>4. ExitInv' BY <2>0 DEF ExitInv
  <2>5. TaskInv'
    <3>1. \A x \in Workers, y \in Values : Holds(x, y) => Holds(x, y)'
      BY <2>0 DEF Holds, HandedOver
    <3>2. \A u \in Producers : at'[u] = "pushing" =>
             \/ at[u] = "pushing" /\ pc'[u] = pc[u] /\ val'[u] = val[u]
                /\ arg'[u] = arg[u] /\ status'[u] = status[u]
             \/ pc'[u] = "push_lock" /\ val'[u] = arg'[u]
             \/ pc'[u] = "idle" /\ status'[u] # "ok"
      BY <2>0
    <3> QED BY <2>0, <3>1, <3>2, TaskStable DEF TaskInv, HandedOver
  <2> QED BY <2>1, <2>2, <2>3, <2>4, <2>5
<1>3. CASE SubmitReturn(t)
  <2> USE <1>3 DEF SubmitReturn
  <2>0. t \in Producers BY DEF PlaceInv
  <2>a. status[t] = "ok" => \E k \in 1..Len(pushed) : pushed[k] = arg[t]
    BY <2>0 DEF TaskInv
  <2>1. PoolTypeOK'
    <3>1. \A k \in 1..Len(pushed) : pushed[k] \in Values
      OBVIOUS
    <3>2. status[t] = "ok" => arg[t] \in Values
      BY <2>a, <3>1
    <3> QED BY <3>2
  <2>2. PlaceInv' BY <2>0 DEF PlaceInv, PopPCs, PushPCs, HeadHeld, PushHeld, TailHeld
  <2>3. StopInv' BY <2>0 DEF StopInv, StopReturned, Quiescent, HandedOver
  <2>4. ExitInv' BY <2>0 DEF ExitInv
  <2>5. TaskInv'
    <3>1. \A x \in Workers, y \in Values : Holds(x, y) => Holds(x, y)'
      BY DEF Holds, HandedOver
    <3>2. \A v \in futures' : v \in futures \/ \E k \in 1..Len(pushed) : pushed[k] = v
      BY <2>a
    <3> QED BY <3>1, <3>2, TaskStable DEF TaskInv, HandedOver
  <2> QED BY <2>1, <2>2, <2>3, <2>4, <2>5
<1> QED BY <1>1, <1>2, <1>3

\* worker_function() (thread_pool.hpp:127-144).
LEMMA WorkerInv ==
    ASSUME PoolInv, QueueInv', NEW t \in Threads,
           WorkerPop(t) \/ WorkerTakes(t) \/ WorkerRuns(t)
    PROVE  PoolInv'
<1> USE PoolAssumption DEF PoolInv, QueueInv, TypeOK, PoolTypeOK, Places, Busy, Move, vars, Workers, Threads
<1>1. CASE WorkerPop(t)
  <2> USE <1>1 DEF WorkerPop, PopCall, Goto, locks, chain, history
  <2>0. t \in Workers BY DEF PlaceInv
  <2>1. PoolTypeOK' OBVIOUS
  <2>2. PlaceInv' BY <2>0 DEF PlaceInv, PopPCs, PushPCs, HeadHeld, PushHeld, TailHeld
  <2>3. StopInv' BY <2>0 DEF StopInv, StopReturned, Quiescent, HandedOver
  <2>4. ExitInv' BY <2>0 DEF ExitInv
  <2>5. TaskInv'
    <3>1. \A x \in Workers, y \in Values : Holds(x, y) => Holds(x, y)'
      BY DEF Holds, HandedOver
    <3> QED BY <3>1, TaskStable DEF TaskInv, HandedOver
  <2> QED BY <2>1, <2>2, <2>3, <2>4, <2>5
<1>2. CASE WorkerTakes(t)
  <2> USE <1>2 DEF WorkerTakes
  <2>0. t \in Workers BY DEF PlaceInv
  <2>1. PoolTypeOK' OBVIOUS
  <2>2. PlaceInv' BY <2>0 DEF PlaceInv, PopPCs, PushPCs, HeadHeld, PushHeld, TailHeld
  <2>a. at[t] = "popping" /\ at'[t] \in {"task", "exited"} /\ (at'[t] = "task" => HandedOver(t))
        /\ \A x \in Threads \ {t} : at'[x] = at[x]
    BY DEF HandedOver
  <2>b. UNCHANGED <<vars, stopped, stop_mutex, phase>>
    OBVIOUS
  <2>c. ~Quiescent /\ StopReturned' = StopReturned
    BY <2>0, <2>a DEF Quiescent, StopReturned
  <2>3. StopInv'
    <3>1. phase # "live" => \A x \in Producers : at'[x] \notin Busy /\ ~HandedOver(x)'
      BY <2>0, <2>a, <2>b DEF StopInv, HandedOver
    <3> QED BY <2>0, <2>a, <2>b, <2>c, <3>1 DEF StopInv
  <2>4. ExitInv' BY <2>0 DEF ExitInv
  <2>5. TaskInv'
    <3>1. \A x \in Workers, y \in Values : Holds(x, y) => Holds(x, y)'
      BY DEF Holds, HandedOver
    <3>2. UNCHANGED <<pushed, popped, ran, futures>>
      BY <2>b
    <3>3. ASSUME NEW w \in Workers, at'[w] \in Busy PROVE task'[w] \in Values
      <4>1. CASE w = t
        BY <2>a, <3>3, <4>1 DEF TaskInv
      <4>2. CASE w # t
        BY <2>a, <3>3, <4>2 DEF TaskInv
      <4> QED BY <4>1, <4>2
    <3>4. ASSUME NEW w \in Workers, HandedOver(w)' PROVE val'[w] \in Values
      BY <2>a, <3>4 DEF TaskInv, HandedOver
    <3>5. \A u \in Producers : at'[u] = "pushing" =>
             /\ at[u] = "pushing" /\ pc'[u] = pc[u] /\ val'[u] = val[u]
             /\ arg'[u] = arg[u] /\ status'[u] = status[u]
      BY <2>a, <2>b
    <3> QED
      <4> HIDE DEF WorkerTakes, PoolTypeOK, Busy, Places, Move
      <4> QED BY <3>1, <3>2, <3>3, <3>4, <3>5, TaskStable
  <2> QED BY <2>1, <2>2, <2>3, <2>4, <2>5
<1>3. CASE WorkerRuns(t)
  <2> USE <1>3 DEF WorkerRuns
  <2>0. task[t] \in Values BY DEF TaskInv
  <2>1. PoolTypeOK' BY <2>0
  <2>2. PlaceInv' BY DEF PlaceInv, PopPCs, PushPCs, HeadHeld, PushHeld, TailHeld
  <2>3. StopInv' BY DEF StopInv, StopReturned, Quiescent, HandedOver
  <2>4. ExitInv' BY DEF ExitInv
  <2>5. TaskInv'
    <3>1. \A x \in Workers, y \in Values : Holds(x, y) => y \in ran' \/ Holds(x, y)'
      BY DEF Holds, HandedOver
    <3> QED BY <3>1, TaskStable DEF TaskInv, HandedOver
  <2> QED BY <2>1, <2>2, <2>3, <2>4, <2>5
<1> QED BY <1>1, <1>2, <1>3

\* stop() (thread_pool.hpp:82-97).
LEMMA StopStepInv ==
    ASSUME PoolInv, QueueInv', NEW t \in Threads,
           (StopCall(t) /\ t \in Closers) \/ StopLock(t) \/ StopClose(t) \/ StopJoin(t)
    PROVE  PoolInv'
<1> USE PoolAssumption, Constants
    DEF PoolInv, QueueInv, TypeOK, PoolTypeOK, Places, Busy, Move, vars, Workers, Threads
<1>1. CASE StopCall(t) /\ t \in Closers
  <2> USE <1>1 DEF StopCall
  <2>1. PoolTypeOK' OBVIOUS
  <2>2. PlaceInv' BY DEF PlaceInv, PopPCs, PushPCs, HeadHeld, PushHeld, TailHeld
  <2>3. StopInv' BY DEF StopInv, StopReturned, Quiescent, HandedOver
  <2>4. ExitInv' BY DEF ExitInv
  <2>5. TaskInv'
    <3>1. \A x \in Workers, y \in Values : Holds(x, y) => Holds(x, y)'
      BY DEF Holds, HandedOver
    <3> QED BY <3>1, TaskStable DEF TaskInv, HandedOver
  <2> QED BY <2>1, <2>2, <2>3, <2>4, <2>5
<1>2. CASE StopLock(t)
  <2> USE <1>2 DEF StopLock
  <2>0. t \in Closers /\ t \notin Workers BY DEF PlaceInv
  <2>1. PoolTypeOK'
    <3>1. stopped' \in BOOLEAN /\ stop_mutex' \in Closers \cup {NoThread}
      BY <2>0
    <3>2. at' \in [Threads -> Places]
      <4>1. \E p \in Places : at' = [at EXCEPT ![t] = p]
        OBVIOUS
      <4>2. at \in [Threads -> Places]
        OBVIOUS
      <4> HIDE DEF StopLock, Places
      <4> QED BY <4>1, <4>2
    <3> QED BY <3>1, <3>2
  <2>2. PlaceInv' BY <2>0 DEF PlaceInv, PopPCs, PushPCs, HeadHeld, PushHeld, TailHeld
  <2>3. StopInv' BY <2>0 DEF StopInv, StopReturned, Quiescent, HandedOver
  <2>4. ExitInv' BY <2>0 DEF ExitInv
  <2>5. TaskInv'
    <3>1. \A x \in Workers, y \in Values : Holds(x, y) => Holds(x, y)'
      BY <2>0 DEF Holds, HandedOver
    <3> QED BY <3>1, TaskStable DEF TaskInv, HandedOver
  <2> QED BY <2>1, <2>2, <2>3, <2>4, <2>5
<1>3. CASE StopClose(t)
  <2> USE <1>3 DEF StopClose, CloseStore, Goto, locks, chain, history
  <2>0. t \in Closers /\ t \notin Workers BY DEF PlaceInv
  <2>1. PoolTypeOK' OBVIOUS
  <2>2. PlaceInv' BY <2>0 DEF PlaceInv, PopPCs, PushPCs, HeadHeld, PushHeld, TailHeld
  <2>3. StopInv' BY <2>0 DEF StopInv, StopReturned, Quiescent, HandedOver
  <2>4. ExitInv' BY <2>0 DEF ExitInv
  <2>5. TaskInv'
    <3>1. \A x \in Workers, y \in Values : Holds(x, y) => Holds(x, y)'
      BY <2>0 DEF Holds, HandedOver
    <3> QED BY <3>1, TaskStable DEF TaskInv, HandedOver
  <2> QED BY <2>1, <2>2, <2>3, <2>4, <2>5
<1>4. CASE StopJoin(t)
  <2> USE <1>4 DEF StopJoin
  <2>0. t \in Closers /\ t \notin Workers BY DEF PlaceInv
  <2>1. PoolTypeOK' OBVIOUS
  <2>2. PlaceInv' BY <2>0 DEF PlaceInv, PopPCs, PushPCs, HeadHeld, PushHeld, TailHeld
  <2>3. StopInv' BY <2>0 DEF StopInv, StopReturned, Quiescent, HandedOver
  <2>4. ExitInv' BY <2>0 DEF ExitInv
  <2>5. TaskInv'
    <3>1. \A x \in Workers, y \in Values : Holds(x, y) => Holds(x, y)'
      BY <2>0 DEF Holds, HandedOver
    <3> QED BY <3>1, TaskStable DEF TaskInv, HandedOver
  <2> QED BY <2>1, <2>2, <2>3, <2>4, <2>5
<1> QED BY <1>1, <1>2, <1>3, <1>4

\* The state before the constructor's body (thread_pool.hpp:45-55).
LEMMA PoolInitInv == PoolInit => PoolInv
<1> SUFFICES ASSUME PoolInit PROVE PoolInv
  OBVIOUS
<1> USE PoolAssumption, Constants DEF PoolInit
<1>1. QueueInv
  BY InitInv
<1>2. PoolTypeOK
  BY DEF PoolTypeOK, Places, Busy
<1>3. PlaceInv /\ StopInv /\ ExitInv
  BY DEF Init, PlaceInv, StopInv, ExitInv, StopReturned, Quiescent, Busy, HandedOver, Workers, Threads,
         PopPCs, PushPCs, HeadHeld, PushHeld, TailHeld
<1>4. TaskInv
  <2>1. Len(popped) = 0 /\ futures = {} /\ \A t \in Threads : at[t] \in {"unstarted", "out"}
    BY DEF Init
  <2> QED BY <2>1 DEF TaskInv, Holds, HandedOver, Busy, Workers, Threads
<1> QED BY <1>1, <1>2, <1>3, <1>4 DEF PoolInv

LEMMA PoolNextInv == PoolInv /\ [PoolNext]_allvars => PoolInv'
<1> SUFFICES ASSUME PoolInv, [PoolNext]_allvars PROVE PoolInv'
  OBVIOUS
<1> USE PoolAssumption DEF Threads, Workers
<1>1. QueueInv'
  BY QueueMoves, NextInv DEF PoolInv
<1>2. CASE Construct BY <1>1, <1>2, ConstructInv
<1>3. ASSUME NEW t \in Producers, NEW v \in Values, SubmitCheck(t, v) PROVE PoolInv'
  BY <1>1, <1>3, SubmitInv
<1>4. ASSUME NEW t \in Closers, StopCall(t) PROVE PoolInv'
  BY <1>1, <1>4, StopStepInv
<1>5. ASSUME NEW t \in Threads, PoolStep(t) \/ QueueSpuriousWakeup(t) PROVE PoolInv'
  BY <1>1, <1>5, QueueStepInv, SubmitInv, WorkerInv, StopStepInv DEF PoolStep
<1>6. CASE UNCHANGED allvars
  <2> USE <1>6 DEF allvars, poolvars, vars
  <2>1. PoolTypeOK' /\ PlaceInv' /\ StopInv' /\ ExitInv'
    BY DEF PoolInv, PoolTypeOK, PlaceInv, StopInv, ExitInv, StopReturned, Quiescent, HandedOver
  <2>2. TaskInv'
    BY DEF PoolInv, TaskInv, Holds, HandedOver
  <2> QED BY <1>1, <2>1, <2>2 DEF PoolInv
<1> QED BY <1>2, <1>3, <1>4, <1>5, <1>6 DEF PoolNext, Quiet

----------------------------------------------------------------------------

\* The pool and its queue keep their invariant: where the threads are, what
\* stop_mutex protects, and where every task is (thread_pool.hpp:45-144).
THEOREM PoolSafe == PoolSpec => []PoolInv
BY PoolInitInv, PoolNextInv, PTL DEF PoolSpec

\* The pool uses the queue through its operations only, so everything proved of
\* the queue holds inside the pool (thread_pool.hpp:91, 110-113, 132).
THEOREM PoolUsesQueue == PoolSpec => Spec
<1>1. PoolInit => Init
  BY DEF PoolInit
<1>2. PoolInv /\ [PoolNext]_allvars => [Next]_vars
  BY QueueMoves
<1> QED BY <1>1, <1>2, PoolSafe, PTL DEF PoolSpec, Spec

\* stop() returns, to any caller, only when every started worker has finished
\* (thread_pool.hpp:64-71, 82-97).
THEOREM QuiescentSafe == PoolSpec => []StopMeansQuiescent
<1>1. PoolInv => StopMeansQuiescent
  BY DEF PoolInv, StopInv, StopMeansQuiescent, Quiescent
<1> QED BY <1>1, PoolSafe, PTL

\* When stop() has returned from a pool with workers, every task that push()
\* linked has run, and so has every task with a future (thread_pool.hpp:80-81).
THEOREM NoTaskLostSafe == PoolSpec => []NoTaskLost
<1>1. PoolInv => NoTaskLost
  <2> SUFFICES ASSUME PoolInv, StopReturned, Workers # {}
               PROVE  /\ futures \subseteq ran
                      /\ \A k \in 1..Len(pushed) : pushed[k] \in ran
    BY DEF NoTaskLost
  <2>1. Quiescent
    BY DEF PoolInv, StopInv
  <2>2. \A w \in Workers, v \in Values : ~Holds(w, v)
    BY <2>1 DEF Quiescent, Holds, HandedOver, Busy
  <2>3. Len(pushed) \in Nat /\ Len(popped) \in Nat /\ \A k \in 1..Len(popped) : popped[k] \in Values
    BY DEF PoolInv, QueueInv, TypeOK
  <2>4. \A k \in 1..Len(popped) : popped[k] \in ran
    BY <2>2, <2>3 DEF PoolInv, TaskInv
  <2>5. \A k \in 1..Len(pushed) : pushed[k] \in ran
    <3>1. CASE phase = "live"
      <4>1. \E w \in Workers : at[w] = "exited"
        BY <2>1, <3>1 DEF PoolInv, StopInv, Quiescent
      <4>2. head = tail
        BY <4>1 DEF PoolInv, ExitInv, QueueInv, DrainedIsFinal
      <4>3. PICK c \in [1..(Len(pushed) + 1) -> Nodes] : IsChain(c)
        BY DEF PoolInv, QueueInv, ChainInv
      <4>4. Len(popped) = Len(pushed)
        BY <4>2, <4>3, ChainEnds DEF PoolInv, QueueInv, FifoOrder
      <4> QED BY <2>3, <2>4, <4>4 DEF PoolInv, QueueInv, FifoOrder
    <3>2. CASE phase # "live"
      <4>1. pushed = <<>>
        BY <3>2 DEF PoolInv, StopInv
      <4> QED BY <4>1
    <3> QED BY <3>1, <3>2
  <2> QED BY <2>5 DEF PoolInv, TaskInv
<1> QED BY <1>1, PoolSafe, PTL
----------------------------------------------------------------------------
(* Futures                                                                 *)

\* A step that links nothing keeps FutureInv, if whoever is about to get a future
\* stays so or gets it.
LEMMA FutureStable ==
    ASSUME FutureInv, pushed' = pushed, futures \subseteq futures',
           \A t \in Producers : Linking(t) => (Linking(t)' /\ arg'[t] = arg[t]) \/ arg[t] \in futures'
    PROVE  FutureInv'
BY DEF FutureInv

\* What the steps of the pool itself, outside the queue's calls, do to the places,
\* calls and arguments of threads that are inside push() (thread_pool.hpp:56-144).
LEMMA PoolFrame ==
    ASSUME PoolInv, PoolNext, \A t \in Threads : ~QueueStep(t) /\ ~QueueSpuriousWakeup(t)
    PROVE  /\ pushed' = pushed /\ popped' = popped /\ futures \subseteq futures'
           /\ \A t \in Producers : at[t] = "pushing" =>
                 /\ pc'[t] = pc[t] /\ status'[t] = status[t]
                 /\ \/ at'[t] = "pushing" /\ arg'[t] = arg[t]
                    \/ pc[t] = "idle" /\ (status[t] = "ok" => arg[t] \in futures')
<1> USE PoolAssumption DEF Threads, Workers, PoolInv, QueueInv, TypeOK, PoolTypeOK
<1>1. ASSUME Construct
      PROVE  UNCHANGED <<vars, futures, arg>> /\ \A t \in Threads : at[t] = "pushing" => at'[t] = at[t]
  <2>1. CASE \E w \in Workers : Spawn(w)
    BY <2>1 DEF Spawn, Move
  <2>2. CASE CtorDone
    BY <2>2 DEF CtorDone
  <2>3. CASE CtorThrow
    <3>1. at[Owner] = "out"
      BY <2>3 DEF CtorThrow, StopInv
    <3> QED BY <2>3, <3>1 DEF CtorThrow, Move
  <2> QED BY <1>1, <2>1, <2>2, <2>3 DEF Construct
<1>2. ASSUME NEW t \in Producers, NEW v \in Values, SubmitCheck(t, v)
      PROVE  UNCHANGED <<vars, futures>> /\ \A u \in Threads : at[u] = "pushing" => at'[u] = at[u] /\ arg'[u] = arg[u]
  BY <1>2 DEF SubmitCheck, Move, Home
<1>3. ASSUME NEW t \in Closers, StopCall(t)
      PROVE  UNCHANGED <<vars, futures, arg>> /\ \A u \in Threads : at[u] = "pushing" => at'[u] = at[u]
  BY <1>3 DEF StopCall, Move
<1>4. ASSUME NEW t \in Threads, SubmitPush(t) \/ WorkerPop(t) \/ StopClose(t)
      PROVE  /\ UNCHANGED <<pushed, popped, futures, arg>>
             /\ \A u \in Threads : at[u] = "pushing" => at'[u] = at[u] /\ pc'[u] = pc[u] /\ status'[u] = status[u]
  <2>1. at[t] # "pushing" /\ UNCHANGED <<futures, arg>> /\ \A u \in Threads \ {t} : at'[u] = at[u]
    BY <1>4 DEF SubmitPush, WorkerPop, StopClose, Move
  <2>2. UNCHANGED <<pushed, popped>> /\ \A u \in Threads \ {t} : pc'[u] = pc[u] /\ status'[u] = status[u]
    BY <1>4 DEF SubmitPush, WorkerPop, StopClose, PushCheck, PopCall, CloseStore, Return, Goto, history
  <2> QED BY <2>1, <2>2
<1>5. ASSUME NEW t \in Threads, WorkerTakes(t) \/ WorkerRuns(t) \/ StopLock(t) \/ StopJoin(t)
      PROVE  /\ UNCHANGED <<vars, futures, arg>>
             /\ \A u \in Threads : at[u] = "pushing" => at'[u] = at[u]
  <2>1. at[t] # "pushing" /\ UNCHANGED <<vars, futures, arg>> /\ \A u \in Threads \ {t} : at'[u] = at[u]
    BY <1>5 DEF WorkerTakes, WorkerRuns, StopLock, StopJoin, Move
  <2> QED BY <2>1
<1>6. ASSUME NEW t \in Threads, SubmitReturn(t)
      PROVE  /\ UNCHANGED vars /\ futures \subseteq futures'
             /\ pc[t] = "idle" /\ (status[t] = "ok" => arg[t] \in futures')
             /\ \A u \in Threads \ {t} : at'[u] = at[u] /\ arg'[u] = arg[u]
  BY <1>6 DEF SubmitReturn, Move
<1>7. CASE Quiet
  BY <1>7 DEF Quiet, allvars, poolvars, vars
<1> HIDE DEF PoolInv, QueueInv, TypeOK, PoolTypeOK
<1>8. CASE \E t \in Threads : SubmitReturn(t)
  BY <1>6, <1>8 DEF vars
<1>9. CASE \E t \in Threads : PoolStep(t) /\ ~SubmitReturn(t)
  BY <1>4, <1>5, <1>9 DEF PoolStep, vars
<1>10. CASE Construct \/ (\E t \in Producers, v \in Values : SubmitCheck(t, v)) \/ (\E t \in Closers : StopCall(t))
  BY <1>1, <1>2, <1>3, <1>10 DEF vars
<1> QED BY <1>7, <1>8, <1>9, <1>10 DEF PoolNext

\* The futures follow the linked tasks (thread_pool.hpp:110-119).
LEMMA FutureStep == PoolInv /\ FutureInv /\ [PoolNext]_allvars => FutureInv'
<1> SUFFICES ASSUME PoolInv, FutureInv, [PoolNext]_allvars PROVE FutureInv'
  OBVIOUS
<1>1. ASSUME NEW t \in Threads, QueueStep(t) \/ QueueSpuriousWakeup(t) PROVE FutureInv'
  <2>1. Others(t) /\ Mine(t) /\ Past(t) /\ UNCHANGED poolvars
    BY <1>1, StepFrame DEF PoolInv, QueueStep, QueueSpuriousWakeup
  <2>2. ASSUME NEW u \in Producers, Linking(u) PROVE Linking(u)' /\ arg'[u] = arg[u]
    <3>1. CASE u # t
      BY <2>1, <2>2, <3>1 DEF Linking, Others, poolvars, Threads
    <3>2. CASE u = t
      <4>1. pc[t] = "push_notify"
        BY <2>1, <2>2, <3>2 DEF Linking, Mine
      <4>2. PushNotify(t)
        BY <1>1, <4>1 DEF QueueStep, QueueSpuriousWakeup, Step, PushLock, PushRecheck, PushLink, CloseNotify,
           PopLock, PredClosed, PredEmpty, Block, Timeout, Relock, CheckEmpty, PopHead, SpuriousWakeup
      <4>3. pc'[t] = "idle" /\ status'[t] = "ok"
        BY <4>1, <4>2 DEF PushNotify, Waiting, PoolInv, QueueInv, TypeOK
      <4> QED BY <2>1, <2>2, <3>2, <4>3 DEF Linking, poolvars
    <3> QED BY <3>1, <3>2
  <2>3. CASE pushed' = pushed
    BY <2>1, <2>2, <2>3, FutureStable DEF poolvars
  <2>4. CASE pc[t] = "push_link" /\ pc'[t] = "push_notify" /\ pushed' = Append(pushed, val[t])
    <3>1. t \in Producers /\ at[t] = "pushing" /\ val[t] = arg[t]
      BY <2>4 DEF PoolInv, PlaceInv, TaskInv, PushPCs, PushHeld, TailHeld
    <3>2. Linking(t)' /\ arg'[t] = arg[t]
      BY <2>1, <2>4, <3>1 DEF Linking, poolvars
    <3>3. pushed \in Seq(Values) /\ pushed' \in Seq(Values)
      <4>1. val[t] \in Values
        BY <2>4 DEF PoolInv, QueueInv, NewNodeInv, PushHeld, TailHeld
      <4> QED BY <2>4, <4>1 DEF PoolInv, QueueInv, TypeOK
    <3>4. ASSUME NEW k \in 1..Len(pushed')
          PROVE  pushed'[k] \in futures' \/ \E u \in Producers : Linking(u)' /\ arg'[u] = pushed'[k]
      <4>1. (k \in 1..Len(pushed) /\ pushed'[k] = pushed[k]) \/ pushed'[k] = val[t]
        BY <2>4, <3>3, Grows
      <4> QED BY <2>1, <2>2, <3>1, <3>2, <4>1 DEF FutureInv, poolvars
    <3> QED BY <3>4 DEF FutureInv
  <2> QED BY <2>1, <2>3, <2>4 DEF Past
<1>2. ASSUME PoolNext, \A t \in Threads : ~QueueStep(t) /\ ~QueueSpuriousWakeup(t) PROVE FutureInv'
  <2>1. ASSUME NEW t \in Producers, Linking(t)
        PROVE  (Linking(t)' /\ arg'[t] = arg[t]) \/ arg[t] \in futures'
    BY <1>2, <2>1, PoolFrame DEF Linking
  <2> QED BY <1>2, <2>1, PoolFrame, FutureStable
<1>3. CASE UNCHANGED allvars
  BY <1>3 DEF allvars, vars, poolvars, FutureInv, Linking
<1> QED BY <1>1, <1>2, <1>3

\* submit() returns a future exactly for a task that is in the queue for good
\* (thread_pool.hpp:110-119).
THEOREM FutureSafe == PoolSpec => []FutureMeansQueued
<1>1. PoolInit => FutureInv
  BY DEF PoolInit, Init, FutureInv
<1>2. PoolSpec => []FutureInv
  BY <1>1, FutureStep, PoolSafe, PTL DEF PoolSpec
<1>3. PoolInv /\ FutureInv => FutureMeansQueued
  BY DEF PoolInv, TaskInv, FutureInv, FutureMeansQueued, Linking
<1> QED BY <1>2, <1>3, PoolSafe, PTL
----------------------------------------------------------------------------
(* Every task runs at most once                                            *)

\* Inside a call of the queue a worker is handed a task only by the pop of that
\* very step (queue.hpp:151-176).
LEMMA HandsOver ==
    ASSUME PoolInv, NEW t \in Threads, QueueStep(t) \/ QueueSpuriousWakeup(t),
           NEW u \in Workers, HandedOver(u)'
    PROVE  \/ HandedOver(u) /\ val'[u] = val[u]
           \/ u = t /\ popped' = Append(popped, val'[t])
<1>1. Others(t) /\ Mine(t) /\ Past(t) /\ UNCHANGED poolvars
  BY StepFrame DEF PoolInv, QueueStep, QueueSpuriousWakeup
<1>2. at[u] = "popping" /\ pc'[u] = "idle" /\ status'[u] = "value" /\ u \in Threads
  BY <1>1 DEF HandedOver, poolvars, Threads, Workers
<1>3. CASE u # t
  BY <1>1, <1>2, <1>3 DEF HandedOver, Others
<1>4. CASE u = t
  <2>1. pc[t] \in PopPCs
    BY <1>1, <1>2, <1>4 DEF PoolInv, QueueInv, PlaceInv, Mine, TypeOK, PCs, PopPCs,
                            PushPCs, HeadHeld, PushHeld, TailHeld
  <2> QED BY <1>1, <1>2, <1>4, <2>1 DEF Past
<1> QED BY <1>3, <1>4

\* A step that pops and runs nothing keeps OnceInv, if nobody gets hold of a task.
LEMMA OnceStable ==
    ASSUME OnceInv, popped' = popped, ran' = ran,
           \A w \in Workers, v \in Values : Holds(w, v)' => Holds(w, v)
    PROVE  OnceInv'
<1> HIDE DEF Holds
<1> QED BY DEF OnceInv

\* Outside the queue's calls only the end of a task changes who holds what: a
\* worker that takes the task already had it in its hands (thread_pool.hpp:56-144).
LEMMA PoolHolds ==
    ASSUME PoolInv, PoolNext,
           \A t \in Threads : ~QueueStep(t) /\ ~QueueSpuriousWakeup(t) /\ ~WorkerRuns(t)
    PROVE  /\ popped' = popped /\ ran' = ran
           /\ \A w \in Workers, v \in Values : Holds(w, v)' => Holds(w, v)
<1> USE PoolAssumption DEF Threads, Workers, PoolInv, QueueInv, TypeOK, PoolTypeOK
<1>1. CASE Construct
  BY <1>1 DEF Construct, Spawn, CtorDone, CtorThrow, Move, Holds, HandedOver, Busy, vars
<1>2. ASSUME NEW t \in Producers, NEW v \in Values, SubmitCheck(t, v)
      PROVE  /\ popped' = popped /\ ran' = ran
             /\ \A w \in Workers, y \in Values : Holds(w, y)' => Holds(w, y)
  BY <1>2 DEF SubmitCheck, Move, Home, Holds, HandedOver, Busy, vars
<1>3. ASSUME NEW t \in Closers, StopCall(t)
      PROVE  /\ popped' = popped /\ ran' = ran
             /\ \A w \in Workers, y \in Values : Holds(w, y)' => Holds(w, y)
  BY <1>3 DEF StopCall, Move, Holds, HandedOver, Busy, vars
<1>4. ASSUME NEW t \in Threads, SubmitPush(t) \/ WorkerPop(t) \/ StopClose(t)
      PROVE  /\ popped' = popped /\ ran' = ran
             /\ \A w \in Workers, y \in Values : Holds(w, y)' => Holds(w, y)
  <2>1. /\ UNCHANGED <<popped, ran, task>>
        /\ \A u \in Threads \ {t} : /\ at'[u] = at[u] /\ pc'[u] = pc[u] /\ val'[u] = val[u]
                                    /\ status'[u] = status[u]
        /\ at'[t] \in Busy => at[t] \in Busy
        /\ at'[t] = "popping" => pc'[t] = "pop_lock"
    BY <1>4 DEF SubmitPush, WorkerPop, StopClose, PushCheck, PopCall, CloseStore, Return, Goto,
                history, Move, Busy
  <2> HIDE DEF PoolInv, QueueInv, TypeOK, PoolTypeOK
  <2> QED BY <2>1 DEF Holds, HandedOver
<1>5. ASSUME NEW t \in Threads, WorkerTakes(t)
      PROVE  /\ popped' = popped /\ ran' = ran
             /\ \A w \in Workers, y \in Values : Holds(w, y)' => Holds(w, y)
  <2>1. /\ UNCHANGED <<popped, ran, pc, val, status>>
        /\ \A u \in Threads \ {t} : at'[u] = at[u] /\ task'[u] = task[u]
        /\ at'[t] = "exited" \/ (HandedOver(t) /\ at'[t] = "task" /\ task'[t] = val[t])
    BY <1>5 DEF WorkerTakes, Move, HandedOver, vars
  <2> HIDE DEF PoolInv, QueueInv, TypeOK, PoolTypeOK
  <2> QED BY <2>1 DEF Holds, HandedOver, Busy
<1>6. ASSUME NEW t \in Threads, SubmitReturn(t) \/ StopLock(t) \/ StopJoin(t)
      PROVE  /\ popped' = popped /\ ran' = ran
             /\ \A w \in Workers, y \in Values : Holds(w, y)' => Holds(w, y)
  <2>1. /\ UNCHANGED <<popped, ran, pc, val, status, task>>
        /\ \A u \in Threads \ {t} : at'[u] = at[u]
        /\ at'[t] \in Busy => at[t] \in Busy
        /\ at'[t] # "popping"
    BY <1>6 DEF SubmitReturn, StopLock, StopJoin, Move, Home, Busy, vars
  <2> HIDE DEF PoolInv, QueueInv, TypeOK, PoolTypeOK
  <2> QED BY <2>1 DEF Holds, HandedOver
<1>7. CASE Quiet
  BY <1>7 DEF Quiet, allvars, poolvars, vars, Holds, HandedOver
<1> HIDE DEF PoolInv, QueueInv, TypeOK, PoolTypeOK
<1>8. CASE \E t \in Threads : PoolStep(t)
  BY <1>4, <1>5, <1>6, <1>8 DEF PoolStep
<1> QED BY <1>1, <1>2, <1>3, <1>7, <1>8 DEF PoolNext

\* The task that a worker ran is held by nobody any more (thread_pool.hpp:129-136).
LEMMA RunOnce ==
    ASSUME PoolInv, OnceInv, NEW t \in Threads, WorkerRuns(t)
    PROVE  OnceInv'
<1>1. /\ at[t] = "task" /\ t \in Workers /\ ran' = ran \cup {task[t]} /\ at'[t] = "loop"
      /\ UNCHANGED <<popped, task, pc, val, status>>
      /\ \A u \in Threads \ {t} : at'[u] = at[u]
  BY DEF WorkerRuns, Move, vars, PoolInv, PoolTypeOK
<1>2. task[t] \in Values /\ Holds(t, task[t])
  BY <1>1 DEF PoolInv, TaskInv, Holds, Busy
<1>3. ASSUME NEW w \in Workers, NEW v \in Values, Holds(w, v)' PROVE Holds(w, v) /\ w # t
  BY <1>1, <1>3 DEF Holds, HandedOver, Busy, Workers, Threads
<1> HIDE DEF Holds
<1>4. ASSUME NEW v \in ran' PROVE \E k \in 1..Len(popped) : popped[k] = v
  BY <1>1, <1>2 DEF OnceInv
<1>5. ASSUME NEW w \in Workers, NEW v \in Values, Holds(w, v)'
      PROVE  /\ v \notin ran'
             /\ \E k \in 1..Len(popped) : popped[k] = v
             /\ \A u \in Workers \ {w} : ~Holds(u, v)'
  <2>1. Holds(w, v) /\ w # t
    BY <1>3, <1>5
  <2>2. v # task[t]
    BY <1>1, <1>2, <2>1 DEF OnceInv
  <2> QED BY <1>1, <1>3, <2>1, <2>2 DEF OnceInv
<1> QED BY <1>1, <1>4, <1>5 DEF OnceInv

\* A pop hands out a task that nobody has popped before, because nobody linked it
\* twice (queue.hpp:144-149, thread_pool.hpp:129-136).
LEMMA PopOnce ==
    ASSUME PoolInv, OnceInv, QueueInv', FreshInv', NEW t \in Threads,
           QueueStep(t) \/ QueueSpuriousWakeup(t)
    PROVE  OnceInv'
<1>1. Past(t) /\ UNCHANGED poolvars
  BY StepFrame DEF PoolInv, QueueStep, QueueSpuriousWakeup
<1>2. popped \in Seq(Values) /\ popped' \in Seq(Values) /\ Len(popped) \in Nat /\ pushed' \in Seq(Values)
  BY DEF PoolInv, QueueInv, TypeOK
<1>3. ASSUME NEW w \in Workers, NEW v \in Values, Holds(w, v)'
      PROVE  Holds(w, v) \/ (popped' = Append(popped, val'[t]) /\ v = val'[t] /\ w = t)
  <2>1. CASE at'[w] \in Busy /\ task'[w] = v
    BY <1>1, <2>1 DEF Holds, poolvars
  <2>2. CASE HandedOver(w)' /\ val'[w] = v
    <3>1. (HandedOver(w) /\ val'[w] = val[w]) \/ (w = t /\ popped' = Append(popped, val'[t]))
      BY <2>2, HandsOver
    <3> QED BY <2>2, <3>1 DEF Holds
  <2> QED BY <1>3, <2>1, <2>2 DEF Holds
<1>4. CASE popped' = popped
  <2>1. popped' # Append(popped, val'[t])
    <3>1. Len(Append(popped, val'[t])) = Len(popped) + 1
      BY <1>2
    <3> QED BY <1>2, <1>4, <3>1
  <2> QED BY <1>1, <1>3, <1>4, <2>1, OnceStable DEF poolvars
<1>5. CASE popped' = Append(popped, val'[t])
  <2> DEFINE x == val'[t]
  <2>1. /\ Len(popped') = Len(popped) + 1 /\ popped'[Len(popped) + 1] = x
        /\ \A k \in 1..Len(popped) : popped'[k] = popped[k] /\ k \in 1..Len(popped')
        /\ Len(popped) + 1 \in 1..Len(popped')
    BY <1>2, <1>5
  <2>2. ASSUME NEW k \in 1..Len(popped) PROVE popped[k] # x
    <3>1. Len(popped') <= Len(pushed') /\ \A j \in 1..Len(popped') : popped'[j] = pushed'[j]
      BY DEF QueueInv, FifoOrder
    <3>2. /\ k \in 1..Len(pushed') /\ Len(popped) + 1 \in 1..Len(pushed') /\ k # Len(popped) + 1
      BY <1>2, <2>1, <3>1
    <3>3. pushed'[k] # pushed'[Len(popped) + 1]
      BY <3>2 DEF FreshInv
    <3> QED BY <2>1, <3>1, <3>3
  <2> HIDE DEF x, Holds
  <2>3. x \notin ran /\ \A w \in Workers : x \in Values => ~Holds(w, x)
    BY <2>2 DEF OnceInv
  <2>4. ran' = ran
    BY <1>1 DEF poolvars
  <2>5. ASSUME NEW v \in ran' PROVE \E k \in 1..Len(popped') : popped'[k] = v
    <3>1. PICK k \in 1..Len(popped) : popped[k] = v
      BY <2>4 DEF OnceInv
    <3> QED BY <2>1, <3>1
  <2>6. ASSUME NEW w \in Workers, NEW v \in Values, Holds(w, v)'
        PROVE  /\ v \notin ran'
               /\ \E k \in 1..Len(popped') : popped'[k] = v
               /\ \A u \in Workers \ {w} : ~Holds(u, v)'
    <3>1. \A u \in Workers : Holds(u, v)' => Holds(u, v) \/ (v = x /\ u = t)
      BY <1>3 DEF x
    <3>2. CASE v = x
      <4>1. \A u \in Workers : Holds(u, v)' => u = t
        BY <2>3, <3>1, <3>2
      <4> QED BY <2>1, <2>3, <2>4, <2>6, <3>2, <4>1
    <3>3. CASE v # x
      <4>1. Holds(w, v)
        BY <2>6, <3>1, <3>3
      <4>2. v \notin ran /\ (\E k \in 1..Len(popped) : popped[k] = v) /\ \A u \in Workers \ {w} : ~Holds(u, v)
        BY <4>1 DEF OnceInv
      <4> QED BY <2>1, <2>4, <3>1, <3>3, <4>2
    <3> QED BY <3>2, <3>3
  <2> QED BY <2>5, <2>6 DEF OnceInv
<1> QED BY <1>1, <1>4, <1>5 DEF Past

\* One holder per task, whichever step is taken (thread_pool.hpp:103-144).
LEMMA OnceStep == PoolInv /\ PoolInv' /\ FreshInv' /\ OnceInv /\ [PoolNext]_allvars => OnceInv'
<1> SUFFICES ASSUME PoolInv, PoolInv', FreshInv', OnceInv, [PoolNext]_allvars PROVE OnceInv'
  OBVIOUS
<1>1. QueueInv'
  BY DEF PoolInv
<1>2. CASE \E t \in Threads : QueueStep(t) \/ QueueSpuriousWakeup(t)
  BY <1>1, <1>2, PopOnce
<1>3. CASE \E t \in Threads : WorkerRuns(t)
  BY <1>3, RunOnce
<1>4. CASE PoolNext /\ \A t \in Threads : ~QueueStep(t) /\ ~QueueSpuriousWakeup(t) /\ ~WorkerRuns(t)
  BY <1>4, PoolHolds, OnceStable
<1>5. CASE UNCHANGED allvars
  BY <1>5, OnceStable DEF allvars, poolvars, vars, Holds, HandedOver
<1> QED BY <1>2, <1>3, <1>4, <1>5

LEMMA OnceInit == PoolInit => OnceInv
<1> SUFFICES ASSUME PoolInit PROVE OnceInv
  OBVIOUS
<1>1. ran = {} /\ \A w \in Workers : at[w] = "unstarted"
  BY DEF PoolInit, Workers, Threads
<1> QED BY <1>1 DEF OnceInv, Holds, HandedOver, Busy

\* A task is executed at most once, although the workers share one queue and each
\* reuses its task object (thread_pool.hpp:129-136).
THEOREM TaskRunsOnceSafe == PoolSpec => []TaskRunsOnce
<1>1. PoolInv /\ OnceInv => TaskRunsOnce
  <2> SUFFICES ASSUME PoolInv, OnceInv, NEW w \in Workers, at[w] \in Busy
               PROVE  /\ task[w] \in Values \ ran
                      /\ \A u \in Workers \ {w} : at[u] \in Busy => task[u] # task[w]
    BY DEF TaskRunsOnce
  <2>1. task[w] \in Values /\ Holds(w, task[w])
    BY DEF PoolInv, TaskInv, Holds
  <2>2. \A u \in Workers : at[u] \in Busy => Holds(u, task[u])
    BY DEF Holds
  <2> HIDE DEF Holds
  <2> QED BY <2>1, <2>2 DEF OnceInv
<1>2. PoolSpec => []FreshInv
  BY PoolUsesQueue, FreshSafe
<1> QED BY <1>1, <1>2, OnceInit, OnceStep, PoolSafe, PTL DEF PoolSpec
=============================================================================
