---------------------------- MODULE ThreadQueue ----------------------------
(***************************************************************************)
(* lzhlib::thread::queue<T> (include/lzhlib/thread/queue.hpp): a singly    *)
(* linked queue with a dummy tail node, one mutex for each end, a          *)
(* condition variable for blocked consumers and an atomic closed flag.     *)
(*                                                                         *)
(* Every read or write that another thread can observe between two lock    *)
(* operations is a step of its own: the two loads of `closed' in push(),   *)
(* the two halves of the wait predicate, the moment between evaluating the *)
(* predicate and blocking, and the gap between publishing an element (or   *)
(* the closed flag) and notifying.  What a thread does on memory only it   *)
(* can reach is part of the step next to it.                               *)
(*                                                                         *)
(* Nodes are heap addresses: a freed address may be handed out again, so   *)
(* comparing head with tail is a comparison of addresses as in the code.   *)
(* Values are opaque tokens, each pushed at most once; the queue never     *)
(* looks into a value, so unique tokens show loss, duplication and         *)
(* reordering most sharply.                                                *)
(***************************************************************************)
EXTENDS Naturals, Sequences, FiniteSets

CONSTANTS
    Producers,  \* threads that call push()
    Consumers,  \* threads that call the pop operations
    Closers,    \* threads that call close()
    PopOps,     \* the pop operations the consumers call, a subset of PopNames
    Values,     \* the values passed to push()
    Nodes,      \* heap addresses of queue nodes
    NULL,       \* the null pointer
    NoValue,    \* std::nullopt
    NoThread    \* the owner of an unlocked mutex

Threads == Producers \cup Consumers \cup Closers

\* wait_and_pop, wait_for_and_pop and try_pop; both overloads of each run the
\* same private function and differ only in how they hand the node's data over.
PopNames == {"wait", "wait_for", "try"}

ASSUME QueueAssumption ==
    /\ PopOps \subseteq PopNames
    /\ NULL \notin Nodes
    /\ NoValue \notin Values
    /\ NoThread \notin Threads
    /\ Nodes # {}

VARIABLES
    head_mutex, tail_mutex,         \* the owner of each mutex
    head, tail, next, data, heap,   \* the two end pointers, the nodes, the live addresses
    closed,                         \* std::atomic<bool> closed
    pc, op, val, node, status,      \* per thread: the next step, the pop running,
                                    \* its T, its new_node, the last call's outcome
    offered,                        \* values clients have passed to push() so far
    pushed, popped, drained         \* history: linked values, popped values, and
                                    \* whether some pop answered "closed and drained"

locks == <<head_mutex, tail_mutex>>
chain == <<head, tail, next, data, heap>>
history == <<pushed, popped, drained>>
vars == <<head_mutex, tail_mutex, head, tail, next, data, heap, closed,
          pc, op, val, node, status, offered, pushed, popped, drained>>

HeadHeld == {"pred_closed", "pred_empty", "block", "check_empty", "pop_head"}
TailHeld == {"push_recheck", "push_link"}
PushHeld == TailHeld \cup {"push_lock"}     \* steps at which push() owns new_node
PCs == HeadHeld \cup PushHeld \cup
       {"idle", "push_notify", "close_notify", "pop_lock", "waiting", "relock"}

TypeOK ==
    /\ head_mutex \in Threads \cup {NoThread}
    /\ tail_mutex \in Threads \cup {NoThread}
    /\ head \in Nodes
    /\ tail \in Nodes
    /\ next \in [Nodes -> Nodes \cup {NULL}]
    /\ data \in [Nodes -> Values \cup {NoValue}]
    /\ heap \subseteq Nodes
    /\ closed \in BOOLEAN
    /\ pc \in [Threads -> PCs]
    /\ op \in [Threads -> PopNames \cup {"none", "expired"}]
    /\ val \in [Threads -> Values \cup {NoValue}]
    /\ node \in [Threads -> Nodes \cup {NULL}]
    /\ status \in [Threads -> {"none", "ok", "value", "nullopt", "closed"}]
    /\ offered \subseteq Values
    /\ pushed \in Seq(Values)
    /\ popped \in Seq(Values)
    /\ drained \in BOOLEAN

\* queue(): one node, owned by head and pointed to by tail.
Init ==
    /\ head_mutex = NoThread /\ tail_mutex = NoThread
    /\ head \in Nodes /\ tail = head /\ heap = {head}
    /\ next = [n \in Nodes |-> NULL]
    /\ data = [n \in Nodes |-> NoValue]
    /\ closed = FALSE
    /\ pc = [t \in Threads |-> "idle"]
    /\ op = [t \in Threads |-> "none"]
    /\ val = [t \in Threads |-> NoValue]
    /\ node = [t \in Threads |-> NULL]
    /\ status = [t \in Threads |-> "none"]
    /\ offered = {}
    /\ pushed = <<>> /\ popped = <<>> /\ drained = FALSE

Goto(t, label) == pc' = [pc EXCEPT ![t] = label]

\* The call of thread t ends with outcome s: a value, std::nullopt, normal
\* return, or queue_closed / false.
Return(t, s) ==
    /\ pc' = [pc EXCEPT ![t] = "idle"]
    /\ op' = [op EXCEPT ![t] = "none"]
    /\ status' = [status EXCEPT ![t] = s]

----------------------------------------------------------------------------
(* push(T value)                                                           *)

\* The first, unlocked is_closed() test, and make_unique<node>() when it passes.
PushCheck(t, v) ==
    /\ pc[t] = "idle"
    /\ v \in Values \ offered
    /\ offered' = offered \cup {v}
    /\ \/ /\ closed
          /\ Return(t, "closed")
          /\ val' = [val EXCEPT ![t] = NoValue]
          /\ UNCHANGED <<node, chain>>
       \/ /\ ~closed
          /\ \E n \in Nodes \ heap :
                /\ heap' = heap \cup {n}
                /\ next' = [next EXCEPT ![n] = NULL]
                /\ data' = [data EXCEPT ![n] = NoValue]
                /\ node' = [node EXCEPT ![t] = n]
          /\ val' = [val EXCEPT ![t] = v]
          /\ Goto(t, "push_lock")
          /\ UNCHANGED <<op, status, head, tail>>
    /\ UNCHANGED <<locks, closed, history>>

\* lock_guard on tail_mutex.
PushLock(t) ==
    /\ pc[t] = "push_lock"
    /\ tail_mutex = NoThread
    /\ tail_mutex' = t
    /\ Goto(t, "push_recheck")
    /\ UNCHANGED <<head_mutex, chain, closed, op, val, node, status, offered, history>>

PushRecheckDropped(t) ==
    /\ pc[t] = "push_recheck"
    /\ Goto(t, "push_link")
    /\ UNCHANGED <<locks, chain, closed, op, val, node, status, offered, history>>

PushRecheckKeepsLock(t) ==
    /\ pc[t] = "push_recheck"
    /\ \/ /\ closed
          /\ Return(t, "closed")
          /\ val' = [val EXCEPT ![t] = NoValue]
          /\ node' = [node EXCEPT ![t] = NULL]
          /\ heap' = heap \ {node[t]}
          /\ UNCHANGED tail_mutex
       \/ /\ ~closed
          /\ Goto(t, "push_link")
          /\ UNCHANGED <<op, status, val, node, heap, tail_mutex>>
    /\ UNCHANGED <<head_mutex, head, tail, next, data, closed, offered, history>>

\* The second test, under tail_mutex.  Throwing unwinds lock_guard and new_node.
PushRecheck(t) ==
    /\ pc[t] = "push_recheck"
    /\ \/ /\ closed
          /\ Return(t, "closed")
          /\ val' = [val EXCEPT ![t] = NoValue]
          /\ node' = [node EXCEPT ![t] = NULL]
          /\ heap' = heap \ {node[t]}
          /\ tail_mutex' = NoThread
       \/ /\ ~closed
          /\ Goto(t, "push_link")
          /\ UNCHANGED <<op, status, val, node, heap, tail_mutex>>
    /\ UNCHANGED <<head_mutex, head, tail, next, data, closed, offered, history>>

PushLinkOverwrites(t) ==
    /\ pc[t] = "push_link"
    /\ data' = [data EXCEPT ![node[t]] = val[t]]
    /\ next' = [next EXCEPT ![tail] = node[t]]
    /\ tail' = node[t]
    /\ pushed' = Append(pushed, val[t])
    /\ val' = [val EXCEPT ![t] = NoValue]
    /\ node' = [node EXCEPT ![t] = NULL]
    /\ tail_mutex' = NoThread
    /\ Goto(t, "push_notify")
    /\ UNCHANGED <<head_mutex, head, heap, closed, op, status, offered, popped, drained>>

\* The value goes into the old dummy, new_node becomes the dummy; unlock.
PushLink(t) ==
    /\ pc[t] = "push_link"
    /\ data' = [data EXCEPT ![tail] = val[t]]
    /\ next' = [next EXCEPT ![tail] = node[t]]
    /\ tail' = node[t]
    /\ pushed' = Append(pushed, val[t])
    /\ val' = [val EXCEPT ![t] = NoValue]
    /\ node' = [node EXCEPT ![t] = NULL]
    /\ tail_mutex' = NoThread
    /\ Goto(t, "push_notify")
    /\ UNCHANGED <<head_mutex, head, heap, closed, op, status, offered, popped, drained>>

Waiting == {w \in Threads : pc[w] = "waiting"}

\* has_new_element.notify_one(), with no mutex held.
PushNotify(t) ==
    /\ pc[t] = "push_notify"
    /\ \/ /\ Waiting = {}
          /\ pc' = [pc EXCEPT ![t] = "idle"]
       \/ \E w \in Waiting :
             pc' = [pc EXCEPT ![t] = "idle", ![w] = "relock"]
    /\ status' = [status EXCEPT ![t] = "ok"]
    /\ UNCHANGED <<locks, chain, closed, op, val, node, offered, history>>

----------------------------------------------------------------------------
(* close()                                                                 *)

\* closed.store(true), with no mutex held.
CloseStore(t) ==
    /\ pc[t] = "idle"
    /\ closed' = TRUE
    /\ Goto(t, "close_notify")
    /\ UNCHANGED <<locks, chain, op, val, node, status, offered, history>>

\* has_new_element.notify_all().
CloseNotify(t) ==
    /\ pc[t] = "close_notify"
    /\ pc' = [w \in Threads |-> IF w = t THEN "idle"
                                ELSE IF w \in Waiting THEN "relock" ELSE pc[w]]
    /\ status' = [status EXCEPT ![t] = "ok"]
    /\ UNCHANGED <<locks, chain, closed, op, val, node, offered, history>>

----------------------------------------------------------------------------
(* wait_and_pop(), wait_for_and_pop(), try_pop()                           *)

PopCall(t, o) ==
    /\ pc[t] = "idle"
    /\ op' = [op EXCEPT ![t] = o]
    /\ val' = [val EXCEPT ![t] = NoValue]
    /\ Goto(t, "pop_lock")
    /\ UNCHANGED <<locks, chain, closed, node, status, offered, history>>

\* The lock on head_mutex; try_pop_head() goes straight to its is_empty() test.
PopLock(t) ==
    /\ pc[t] = "pop_lock"
    /\ head_mutex = NoThread
    /\ head_mutex' = t
    /\ Goto(t, IF op[t] = "try" THEN "check_empty" ELSE "pred_closed")
    /\ UNCHANGED <<tail_mutex, chain, closed, op, val, node, status, offered, history>>

\* The wait predicate, left operand: closed.load().
PredClosed(t) ==
    /\ pc[t] = "pred_closed"
    /\ Goto(t, IF closed THEN "check_empty" ELSE "pred_empty")
    /\ UNCHANGED <<locks, chain, closed, op, val, node, status, offered, history>>

\* The wait predicate, right operand: !is_empty(), which locks tail_mutex to
\* read tail.  A false predicate blocks, or after the timeout returns nullptr.
PredEmpty(t) ==
    /\ pc[t] = "pred_empty"
    /\ tail_mutex = NoThread
    /\ \/ /\ head # tail
          /\ Goto(t, "check_empty")
          /\ UNCHANGED <<op, status, head_mutex>>
       \/ /\ head = tail
          /\ op[t] # "expired"
          /\ Goto(t, "block")
          /\ UNCHANGED <<op, status, head_mutex>>
       \/ /\ head = tail
          /\ op[t] = "expired"
          /\ Return(t, "nullopt")
          /\ head_mutex' = NoThread
    /\ UNCHANGED <<tail_mutex, chain, closed, val, node, offered, history>>

\* condition_variable::wait: unlocking head_mutex and starting to wait is atomic
\* with respect to threads that lock head_mutex, which no notifier does.
Block(t) ==
    /\ pc[t] = "block"
    /\ head_mutex' = NoThread
    /\ Goto(t, "waiting")
    /\ UNCHANGED <<tail_mutex, chain, closed, op, val, node, status, offered, history>>

TimeoutNever(t) == FALSE /\ UNCHANGED vars

\* wait_for: the duration has passed; the predicate decides once more.
Timeout(t) ==
    /\ pc[t] = "waiting"
    /\ op[t] = "wait_for"
    /\ op' = [op EXCEPT ![t] = "expired"]
    /\ Goto(t, "relock")
    /\ UNCHANGED <<locks, chain, closed, val, node, status, offered, history>>

\* A wakeup without a notification, which the standard allows and never promises.
SpuriousWakeup(t) ==
    /\ pc[t] = "waiting"
    /\ Goto(t, "relock")
    /\ UNCHANGED <<locks, chain, closed, op, val, node, status, offered, history>>

RelockSkipsPredicate(t) ==
    /\ pc[t] = "relock"
    /\ head_mutex = NoThread
    /\ head_mutex' = t
    /\ Goto(t, "pop_head")
    /\ UNCHANGED <<tail_mutex, chain, closed, op, val, node, status, offered, history>>

\* A woken thread locks head_mutex again and re-evaluates the predicate.
Relock(t) ==
    /\ pc[t] = "relock"
    /\ head_mutex = NoThread
    /\ head_mutex' = t
    /\ Goto(t, "pred_closed")
    /\ UNCHANGED <<tail_mutex, chain, closed, op, val, node, status, offered, history>>

\* The is_empty() test after the wait, or the only one of try_pop_head().
CheckEmpty(t) ==
    /\ pc[t] = "check_empty"
    /\ tail_mutex = NoThread
    /\ \/ /\ head # tail
          /\ Goto(t, "pop_head")
          /\ UNCHANGED <<op, status, head_mutex, drained>>
       \/ /\ head = tail
          /\ Return(t, IF op[t] = "wait" THEN "closed" ELSE "nullopt")
          /\ head_mutex' = NoThread
          /\ drained' = (drained \/ op[t] # "try")
    /\ UNCHANGED <<tail_mutex, chain, closed, val, node, offered, pushed, popped>>

\* pop_head(), unlock, and handing the data to the caller frees the node.
PopHead(t) ==
    /\ pc[t] = "pop_head"
    /\ head' = next[head]
    /\ heap' = heap \ {head}
    /\ next' = [next EXCEPT ![head] = NULL]
    /\ data' = [data EXCEPT ![head] = NoValue]
    /\ val' = [val EXCEPT ![t] = data[head]]
    /\ popped' = Append(popped, data[head])
    /\ head_mutex' = NoThread
    /\ Return(t, "value")
    /\ UNCHANGED <<tail_mutex, tail, closed, node, offered, pushed, drained>>

----------------------------------------------------------------------------

\* A step inside a running call; every thread the scheduler runs takes it.
Step(t) ==
    \/ PushLock(t) \/ PushRecheck(t) \/ PushLink(t) \/ PushNotify(t)
    \/ CloseNotify(t)
    \/ PopLock(t) \/ PredClosed(t) \/ PredEmpty(t) \/ Block(t)
    \/ Timeout(t) \/ Relock(t) \/ CheckEmpty(t) \/ PopHead(t)

Next ==
    \/ \E t \in Producers, v \in Values : PushCheck(t, v)
    \/ \E t \in Closers : CloseStore(t)
    \/ \E t \in Consumers, o \in PopOps : PopCall(t, o)
    \/ \E t \in Threads : Step(t) \/ SpuriousWakeup(t)

Spec == Init /\ [][Next]_vars

\* The operating system runs every thread that can run: a step that stays
\* enabled is taken.  Nothing is assumed of the order in which a contended
\* mutex is granted, of spurious wakeups, or of clients making further calls.
FairSpec == Spec /\ \A t \in Threads : WF_vars(Step(t))

\* Clients whose consumers poll forever: while (true) wait_for_and_pop(...).
PollingSpec ==
    FairSpec /\ \A t \in Consumers : WF_vars(\E o \in PopOps : PopCall(t, o))

----------------------------------------------------------------------------
(* Safety                                                                  *)

\* The values popped so far are the first values pushed, in the same order:
\* pop_head() never loses, repeats or reorders an element, whatever addresses
\* make_unique reuses (queue.hpp:97-112, 144-149).
FifoOrder ==
    /\ Len(popped) <= Len(pushed)
    /\ \A k \in 1..Len(popped) : popped[k] = pushed[k]

\* The address test head == tail of is_empty() says "empty" exactly when every
\* pushed value has been popped (queue.hpp:140-143).
EmptyIsExact == (head = tail) <=> (Len(popped) = Len(pushed))

\* Once some pop has answered "closed and drained", nothing is queued and no
\* push() is past its locked test of closed, so no element arrives later
\* (queue.hpp:104-109, 158-159, 166-167).
DrainedIsFinal ==
    drained => closed /\ head = tail /\ \A t \in Threads : pc[t] # "push_link"

\* head and tail point to live nodes, and so does every new_node of a running
\* push(), which is not yet reachable from the queue (queue.hpp:101-109).
NoDanglingNode ==
    /\ {head, tail} \subseteq heap
    /\ \A t \in Threads : pc[t] \in PushHeld =>
          /\ node[t] \in heap \ {head, tail}
          /\ \A u \in Threads \ {t} : pc[u] \in PushHeld => node[u] # node[t]

\* The values linked and not yet popped, as the abstract queue sees them.
Contents == [i \in 1..(Len(pushed) - Len(popped)) |-> pushed[Len(popped) + i]]

Abstract == INSTANCE ClosableQueue WITH
    queue <- Contents,
    accepted <- {t \in Threads : pc[t] = "push_link"},
    taken <- popped, isClosed <- closed, isDrained <- drained

\* The queue implements the closable FIFO queue: the locked test of closed is
\* where push() is accepted, the link is where it takes effect, and no answer
\* "closed and drained" overtakes an accepted push() (queue.hpp:97-176).
ImplementsClosableQueue == Abstract!QSpec

----------------------------------------------------------------------------
(* The inductive invariant behind the safety properties                    *)

\* A mutex is owned by exactly the thread whose step lies between its lock and
\* its unlock.
LockInv ==
    \A t \in Threads :
        /\ (head_mutex = t) <=> (pc[t] \in HeadHeld)
        /\ (tail_mutex = t) <=> (pc[t] \in TailHeld)

\* What a consumer has learned under head_mutex stays true until it unlocks.
PopInv ==
    \A t \in Threads :
        /\ pc[t] = "pop_head" => head # tail
        /\ (pc[t] = "check_empty" /\ op[t] # "try") => (closed \/ head # tail)

\* c[k] is the node of the k-th pushed value and c[Len(pushed) + 1] the dummy:
\* from head to tail the nodes are live, distinct, linked in order, hold the
\* values not yet popped, and none of them is the new_node of a running push().
IsChain(c) ==
    LET first == Len(popped) + 1  last == Len(pushed) + 1
    IN  /\ c[first] = head /\ c[last] = tail
        /\ \A i, j \in first..last : c[i] = c[j] => i = j
        /\ \A i \in first..last :
              /\ c[i] \in heap
              /\ \A t \in Threads : pc[t] \in PushHeld => node[t] # c[i]
        /\ \A i \in first..Len(pushed) :
              next[c[i]] = c[i + 1] /\ data[c[i]] = pushed[i]

ChainInv ==
    /\ Len(popped) <= Len(pushed)
    /\ \E c \in [1..(Len(pushed) + 1) -> Nodes] : IsChain(c)

\* The values pushes are carrying, and the new nodes they own.
NewNodeInv ==
    \A t \in Threads : pc[t] \in PushHeld =>
        /\ val[t] \in Values
        /\ node[t] \in heap
        /\ \A u \in Threads \ {t} : pc[u] \in PushHeld => node[u] # node[t]

\* The inductive invariant: list structure, lock ownership and history together
\* (the whole of queue.hpp).
QueueInv ==
    /\ TypeOK /\ LockInv /\ PopInv /\ NewNodeInv /\ ChainInv
    /\ FifoOrder /\ DrainedIsFinal

\* Every value is pushed at most once, and is not linked before its push() does it.
FreshInv ==
    /\ \A k \in 1..Len(pushed) : pushed[k] \in offered
    /\ \A j, k \in 1..Len(pushed) : pushed[j] = pushed[k] => j = k
    /\ \A t \in Threads : pc[t] \in PushHeld =>
          /\ val[t] \in offered
          /\ \A k \in 1..Len(pushed) : pushed[k] # val[t]
          /\ \A u \in Threads \ {t} : pc[u] \in PushHeld => val[u] # val[t]

----------------------------------------------------------------------------
(* Liveness                                                                *)

\* Every push() and close() that starts returns or throws: the two mutexes never
\* block each other (queue.hpp:97-122).
PushAndCloseReturn ==
    \A t \in Producers \cup Closers : pc[t] # "idle" ~> pc[t] = "idle"

\* Polling consumers pop every element that was pushed: a notification that
\* finds nobody waiting delays wait_for_and_pop by at most its duration
\* (queue.hpp:151-161).
PolledQueueDrains ==
    \A n \in 1..Cardinality(Values) : Len(pushed) >= n ~> Len(popped) >= n

\* "Wakes every blocked consumer ... drains the remaining elements and then
\* finishes instead of blocking forever" (queue.hpp:114-117).
CloseWakesConsumers ==
    \A t \in Consumers : (closed /\ pc[t] = "waiting") ~> pc[t] # "waiting"
=============================================================================
