------------------------- MODULE ThreadQueueProofs -------------------------
(***************************************************************************)
(* The safety of lzhlib::thread::queue for any number of threads, values   *)
(* and nodes.  QueueInv is preserved by every step; the properties the     *)
(* runs check on small instances follow from it.                           *)
(***************************************************************************)
EXTENDS ThreadQueue, TLAPS

\* The constants are what QueueAssumption says, in the form the steps use.
LEMMA Constants ==
    /\ NULL \notin Nodes
    /\ NoValue \notin Values
    /\ NoThread \notin Threads
    /\ PopOps \subseteq PopNames
BY QueueAssumption

\* The queue() constructor establishes the invariant (queue.hpp:33-35).
LEMMA InitInv == Init => QueueInv
<1> SUFFICES ASSUME Init PROVE QueueInv
  OBVIOUS
<1>1. TypeOK
  <2>1. pushed \in Seq(Values) /\ popped \in Seq(Values)
    BY DEF Init
  <2>2. "idle" \in PCs
    BY DEF PCs
  <2> QED BY <2>1, <2>2 DEF Init, TypeOK
<1>2. LockInv /\ PopInv /\ NewNodeInv /\ FifoOrder /\ DrainedIsFinal
  BY Constants DEF Init, LockInv, PopInv, NewNodeInv, FifoOrder, DrainedIsFinal,
         HeadHeld, PushHeld, TailHeld
<1>3. ChainInv
  <2> DEFINE c == [k \in 1..1 |-> head]
  <2>1. c \in [1..(Len(pushed) + 1) -> Nodes]
    BY DEF Init
  <2>2. IsChain(c)
    BY DEF Init, IsChain, PushHeld, TailHeld
  <2> QED BY <2>1, <2>2 DEF Init, ChainInv
<1> QED BY <1>1, <1>2, <1>3 DEF QueueInv

\* A step that leaves head, tail and the history alone keeps the chain, if it
\* frees at most a new_node and gives no thread a node that was already live.
LEMMA ChainStable ==
    ASSUME TypeOK, ChainInv, UNCHANGED <<head, tail, pushed, popped>>,
           \A m \in heap :
               /\ next'[m] = next[m] /\ data'[m] = data[m]
               /\ m \in heap' \/ \E t \in Threads : pc[t] \in PushHeld /\ node[t] = m,
           \A t \in Threads : pc'[t] \in PushHeld =>
               (pc[t] \in PushHeld /\ node'[t] = node[t]) \/ node'[t] \notin heap
    PROVE  ChainInv'
<1>1. PICK c \in [1..(Len(pushed) + 1) -> Nodes] : IsChain(c)
  BY DEF ChainInv
<1>2. Len(pushed) \in Nat /\ Len(popped) \in Nat
  BY DEF TypeOK
<1>3. \A i \in (Len(popped) + 1)..(Len(pushed) + 1) :
         /\ c[i] \in heap /\ c[i] \in heap'
         /\ \A t \in Threads : pc'[t] \in PushHeld => node'[t] # c[i]
  BY <1>1 DEF IsChain
<1>4. \A i \in (Len(popped) + 1)..Len(pushed) :
         next'[c[i]] = c[i + 1] /\ data'[c[i]] = pushed[i]
  BY <1>1, <1>2, <1>3 DEF IsChain
<1>5. IsChain(c)'
  BY <1>1, <1>3, <1>4 DEF IsChain
<1> QED BY <1>1, <1>5 DEF ChainInv

\* The two ends of a chain, and what that says of head and tail.
LEMMA ChainEnds ==
    ASSUME TypeOK, Len(popped) <= Len(pushed),
           NEW c \in [1..(Len(pushed) + 1) -> Nodes], IsChain(c)
    PROVE  /\ Len(pushed) \in Nat /\ Len(popped) \in Nat
           /\ c[Len(popped) + 1] = head /\ c[Len(pushed) + 1] = tail
           /\ head \in heap /\ tail \in heap
           /\ \A t \in Threads : pc[t] \in PushHeld => node[t] # head /\ node[t] # tail
           /\ (head = tail) <=> (Len(popped) = Len(pushed))
<1>1. Len(pushed) \in Nat /\ Len(popped) \in Nat
  BY DEF TypeOK
<1>2. /\ Len(popped) + 1 \in (Len(popped) + 1)..(Len(pushed) + 1)
      /\ Len(pushed) + 1 \in (Len(popped) + 1)..(Len(pushed) + 1)
  BY <1>1
<1>3. c[Len(popped) + 1] = head /\ c[Len(pushed) + 1] = tail
  BY DEF IsChain
<1>4. /\ head \in heap /\ tail \in heap
      /\ \A t \in Threads : pc[t] \in PushHeld => node[t] # head /\ node[t] # tail
  BY <1>2, <1>3 DEF IsChain
<1>5. (head = tail) <=> (Len(popped) = Len(pushed))
  <2>1. c[Len(popped) + 1] = c[Len(pushed) + 1] => Len(popped) + 1 = Len(pushed) + 1
    BY <1>2 DEF IsChain
  <2> QED BY <1>1, <1>3, <2>1
<1> QED BY <1>1, <1>3, <1>4, <1>5

\* The steps of push(), close() and the pop operations that only move a thread
\* on, take or release a lock, wake a thread, or answer without an element.
LEMMA QuietStep ==
    ASSUME QueueInv, NEW t \in Threads,
           \/ PushLock(t) \/ PushNotify(t) \/ CloseStore(t) \/ CloseNotify(t)
           \/ (\E o \in PopOps : PopCall(t, o)) \/ PopLock(t) \/ PredClosed(t)
           \/ PredEmpty(t) \/ Block(t) \/ Timeout(t) \/ SpuriousWakeup(t)
           \/ Relock(t) \/ CheckEmpty(t)
    PROVE  QueueInv'
<1> USE Constants DEF QueueInv
<1>. DEFINE Quiet == /\ UNCHANGED <<head, tail, next, data, heap, node, pushed, popped>>
                     /\ \A u \in Threads : pc'[u] \in PushHeld <=> pc[u] \in PushHeld
                     /\ \A u \in Threads : pc'[u] \in PushHeld => val'[u] = val[u]
<1> USE DEF Goto, Return, locks, chain, history, Waiting
<1>1. TypeOK'
  <2> USE DEF TypeOK, PCs, HeadHeld, PushHeld, TailHeld, PopNames
  <2>1. CASE PushLock(t) BY <2>1 DEF PushLock
  <2>2. CASE PushNotify(t) BY <2>2 DEF PushNotify
  <2>3. CASE CloseStore(t) BY <2>3 DEF CloseStore
  <2>4. CASE CloseNotify(t) BY <2>4 DEF CloseNotify
  <2>5. CASE \E o \in PopOps : PopCall(t, o) BY <2>5 DEF PopCall
  <2>6. CASE PopLock(t) BY <2>6 DEF PopLock
  <2>7. CASE PredClosed(t) BY <2>7 DEF PredClosed
  <2>8. CASE PredEmpty(t) BY <2>8 DEF PredEmpty
  <2>9. CASE Block(t) BY <2>9 DEF Block
  <2>10. CASE Timeout(t) BY <2>10 DEF Timeout
  <2>11. CASE SpuriousWakeup(t) BY <2>11 DEF SpuriousWakeup
  <2>12. CASE Relock(t) BY <2>12 DEF Relock
  <2>13. CASE CheckEmpty(t) BY <2>13 DEF CheckEmpty
  <2> QED BY <2>1, <2>2, <2>3, <2>4, <2>5, <2>6, <2>7, <2>8, <2>9, <2>10, <2>11, <2>12, <2>13
<1>2. Quiet /\ LockInv' /\ PopInv' /\ DrainedIsFinal'
  <2> USE DEF TypeOK, LockInv, PopInv, DrainedIsFinal, PCs, HeadHeld, PushHeld, TailHeld, PopNames
  <2>1. CASE PushLock(t) BY <2>1 DEF PushLock
  <2>2. CASE PushNotify(t)
    <3> DEFINE Moved(u) == \/ pc'[u] = pc[u]
                           \/ pc[u] = "push_notify" /\ pc'[u] = "idle"
                           \/ pc[u] = "waiting" /\ pc'[u] = "relock"
    <3>1. \A u \in Threads : Moved(u)
      BY <2>2 DEF PushNotify
    <3>2. UNCHANGED <<head_mutex, tail_mutex, head, tail, next, data, heap, closed,
                      op, val, node, pushed, popped, drained>>
      BY <2>2 DEF PushNotify
    <3>3. Quiet BY <3>1, <3>2
    <3>4. LockInv' BY <3>1, <3>2
    <3> QED BY <3>1, <3>2, <3>3, <3>4
  <2>3. CASE CloseStore(t) BY <2>3 DEF CloseStore
  <2>4. CASE CloseNotify(t) BY <2>4 DEF CloseNotify
  <2>5. CASE \E o \in PopOps : PopCall(t, o) BY <2>5 DEF PopCall
  <2>6. CASE PopLock(t) BY <2>6 DEF PopLock
  <2>7. CASE PredClosed(t) BY <2>7 DEF PredClosed
  <2>8. CASE PredEmpty(t)
    <3>1. Quiet BY <2>8 DEF PredEmpty
    <3>2. LockInv' BY <2>8 DEF PredEmpty
    <3>3. PopInv' BY <2>8 DEF PredEmpty
    <3>4. DrainedIsFinal' BY <2>8 DEF PredEmpty
    <3> QED BY <3>1, <3>2, <3>3, <3>4
  <2>9. CASE Block(t) BY <2>9 DEF Block
  <2>10. CASE Timeout(t) BY <2>10 DEF Timeout
  <2>11. CASE SpuriousWakeup(t) BY <2>11 DEF SpuriousWakeup
  <2>12. CASE Relock(t) BY <2>12 DEF Relock
  <2>13. CASE CheckEmpty(t)
    <3>1. Quiet BY <2>13 DEF CheckEmpty
    <3>2. LockInv' BY <2>13 DEF CheckEmpty
    <3>3. PopInv' BY <2>13 DEF CheckEmpty
    <3>4. DrainedIsFinal' BY <2>13 DEF CheckEmpty
    <3> QED BY <3>1, <3>2, <3>3, <3>4
  <2> QED BY <2>1, <2>2, <2>3, <2>4, <2>5, <2>6, <2>7, <2>8, <2>9, <2>10, <2>11, <2>12, <2>13
<1>3. NewNodeInv'
  BY <1>2 DEF NewNodeInv
<1>4. FifoOrder'
  BY <1>2 DEF FifoOrder
<1>5. ChainInv'
  <2>1. \A m \in heap : next'[m] = next[m] /\ data'[m] = data[m] /\ m \in heap'
    BY <1>2
  <2>2. \A u \in Threads : pc'[u] \in PushHeld => pc[u] \in PushHeld /\ node'[u] = node[u]
    BY <1>2
  <2> QED BY <1>2, <2>1, <2>2, ChainStable
<1> QED BY <1>1, <1>2, <1>3, <1>4, <1>5

\* push() up to its allocation: the new node is not reachable from the queue
\* (queue.hpp:97-102).
LEMMA PushCheckStep ==
    ASSUME QueueInv, NEW t \in Threads, NEW v \in Values, PushCheck(t, v)
    PROVE  QueueInv'
<1> USE Constants DEF QueueInv, PushCheck, Goto, Return, locks, chain, history
<1>1. TypeOK'
  <2> USE DEF TypeOK
  <2>0. "idle" \in PCs /\ "push_lock" \in PCs
    BY DEF PCs, PushHeld
  <2>1. UNCHANGED <<head_mutex, tail_mutex, head, tail, closed, pushed, popped, drained>>
    OBVIOUS
  <2>2. heap' \subseteq Nodes /\ offered' \subseteq Values
    OBVIOUS
  <2>3. /\ next' \in [Nodes -> Nodes \cup {NULL}]
        /\ data' \in [Nodes -> Values \cup {NoValue}]
        /\ node' \in [Threads -> Nodes \cup {NULL}]
    <3>1. next' = next \/ \E n \in Nodes : next' = [next EXCEPT ![n] = NULL]
      OBVIOUS
    <3>2. data' = data \/ \E n \in Nodes : data' = [data EXCEPT ![n] = NoValue]
      OBVIOUS
    <3>3. node' = node \/ \E n \in Nodes : node' = [node EXCEPT ![t] = n]
      OBVIOUS
    <3> HIDE DEF PushCheck
    <3>4. next' \in [Nodes -> Nodes \cup {NULL}]
      BY <3>1
    <3>5. data' \in [Nodes -> Values \cup {NoValue}]
      BY <3>2
    <3>6. node' \in [Threads -> Nodes \cup {NULL}]
      BY <3>3
    <3> QED BY <3>4, <3>5, <3>6
  <2>4. /\ val' \in [Threads -> Values \cup {NoValue}]
        /\ op' \in [Threads -> PopNames \cup {"none", "expired"}]
    <3>1. \E w \in Values \cup {NoValue} : val' = [val EXCEPT ![t] = w]
      OBVIOUS
    <3>2. op' = op \/ op' = [op EXCEPT ![t] = "none"]
      OBVIOUS
    <3> QED BY <3>1, <3>2
  <2>5. pc' \in [Threads -> PCs]
    BY <2>0
  <2>6. status' \in [Threads -> {"none", "ok", "value", "nullopt", "closed"}]
    OBVIOUS
  <2> QED BY <2>1, <2>2, <2>3, <2>4, <2>5, <2>6
<1>2. LockInv' /\ PopInv' /\ DrainedIsFinal'
  BY DEF TypeOK, LockInv, PopInv, DrainedIsFinal, PCs, HeadHeld, PushHeld, TailHeld
<1>3. NewNodeInv'
  <2>1. \A u \in Threads \ {t} :
           pc'[u] = pc[u] /\ val'[u] = val[u] /\ node'[u] = node[u]
    BY DEF TypeOK
  <2>2. heap \subseteq heap'
    OBVIOUS
  <2>3. pc'[t] \in PushHeld => val'[t] \in Values /\ node'[t] \in heap' \ heap
    BY DEF TypeOK, PushHeld, TailHeld
  <2> HIDE DEF PushCheck
  <2> QED BY <2>1, <2>2, <2>3 DEF NewNodeInv
<1>4. FifoOrder'
  BY DEF FifoOrder
<1>5. ChainInv'
  <2>1. \A m \in heap : next'[m] = next[m] /\ data'[m] = data[m] /\ m \in heap'
    BY DEF TypeOK
  <2>2. \A u \in Threads : pc'[u] \in PushHeld =>
           (pc[u] \in PushHeld /\ node'[u] = node[u]) \/ node'[u] \notin heap
    BY DEF TypeOK, PushHeld, TailHeld
  <2> QED BY <2>1, <2>2, ChainStable
<1> QED BY <1>1, <1>2, <1>3, <1>4, <1>5

\* push() testing closed again under tail_mutex: if it throws, what it frees is
\* its own new_node (queue.hpp:104-106).
LEMMA PushRecheckStep ==
    ASSUME QueueInv, NEW t \in Threads, PushRecheck(t)
    PROVE  QueueInv'
<1> USE Constants DEF QueueInv, PushRecheck, Goto, Return, locks, chain, history
<1>1. TypeOK'
  BY DEF TypeOK, PCs, HeadHeld, PushHeld, TailHeld
<1>2. LockInv' /\ PopInv' /\ DrainedIsFinal'
  BY DEF TypeOK, LockInv, PopInv, DrainedIsFinal, PCs, HeadHeld, PushHeld, TailHeld
<1>3. NewNodeInv'
  <2>1. /\ pc[t] \in PushHeld
        /\ \A u \in Threads : pc'[u] \in PushHeld =>
              pc[u] \in PushHeld /\ node'[u] = node[u] /\ val'[u] = val[u]
    BY DEF TypeOK, PushHeld, TailHeld
  <2>2. CASE closed
    <3>1. pc'[t] \notin PushHeld
      BY <2>2 DEF TypeOK, PushHeld, TailHeld
    <3> QED BY <2>1, <2>2, <3>1 DEF NewNodeInv
  <2>3. CASE ~closed
    BY <2>1, <2>3 DEF NewNodeInv
  <2> QED BY <2>2, <2>3
<1>4. FifoOrder'
  BY DEF FifoOrder
<1>5. ChainInv'
  <2>1. \A m \in heap : /\ next'[m] = next[m] /\ data'[m] = data[m]
                        /\ m \in heap' \/ \E u \in Threads : pc[u] \in PushHeld /\ node[u] = m
    BY DEF PushHeld, TailHeld
  <2>2. \A u \in Threads : pc'[u] \in PushHeld => pc[u] \in PushHeld /\ node'[u] = node[u]
    BY DEF TypeOK, PushHeld, TailHeld
  <2> QED BY <2>1, <2>2, ChainStable
<1> QED BY <1>1, <1>2, <1>3, <1>4, <1>5

\* push() linking its node: the chain grows by the new dummy (queue.hpp:107-109).
LEMMA PushLinkStep ==
    ASSUME QueueInv, NEW t \in Threads, PushLink(t)
    PROVE  QueueInv'
<1> USE Constants DEF QueueInv, PushLink, Goto
<1>a. val[t] \in Values /\ node[t] \in heap /\ pc[t] \in PushHeld
  BY DEF NewNodeInv, PushHeld, TailHeld
<1>b. PICK c \in [1..(Len(pushed) + 1) -> Nodes] : IsChain(c)
  BY DEF ChainInv
<1>c. /\ pushed' \in Seq(Values)
      /\ Len(pushed) \in Nat /\ Len(popped) \in Nat
      /\ Len(pushed') = Len(pushed) + 1 /\ Len(popped) <= Len(pushed)
      /\ \A k \in 1..Len(pushed) : pushed'[k] = pushed[k]
      /\ pushed'[Len(pushed) + 1] = val[t]
  BY <1>a DEF TypeOK, ChainInv
<1>1. TypeOK'
  BY <1>a, <1>c DEF TypeOK, PCs, HeadHeld, PushHeld, TailHeld
<1>2. LockInv'
  BY DEF TypeOK, LockInv, PCs, HeadHeld, PushHeld, TailHeld
<1>3. head # node[t] /\ tail # node[t] /\ head \in Nodes /\ tail \in Nodes
  BY <1>a, <1>b, <1>c, ChainEnds DEF TypeOK
<1>4. PopInv' /\ DrainedIsFinal'
  BY <1>3 DEF TypeOK, PopInv, DrainedIsFinal, PCs, HeadHeld, PushHeld, TailHeld
<1>5. NewNodeInv'
  BY DEF TypeOK, NewNodeInv, PCs, HeadHeld, PushHeld, TailHeld
<1>6. FifoOrder'
  BY <1>c DEF FifoOrder
<1>7. ChainInv'
  <2>0. PICK d : d = [k \in 1..(Len(pushed) + 2) |-> IF k = Len(pushed) + 2 THEN node[t] ELSE c[k]]
    OBVIOUS
  <2> DEFINE first == Len(popped) + 1
             last == Len(pushed) + 2
  <2>1. d \in [1..(Len(pushed') + 1) -> Nodes]
    BY <1>a, <1>c, <2>0 DEF TypeOK
  <2>2. /\ last \in Nat /\ first \in Nat /\ first < last /\ 1 <= first
        /\ Len(pushed') + 1 = last
        /\ d[last] = node[t]
        /\ \A k \in 1..(last - 1) : d[k] = c[k]
    BY <1>c, <2>0
  <2>3. \A i \in first..(last - 1) : d[i] \in heap /\ d[i] # node[t]
    BY <1>a, <1>b, <1>c, <2>2 DEF IsChain
  <2>4. d[first] = head' /\ d[last] = tail'
    BY <1>b, <1>c, <2>2 DEF IsChain
  <2>5. \A i, j \in first..last : d[i] = d[j] => i = j
    <3>1. \A i, j \in first..(last - 1) : d[i] = d[j] => i = j
      BY <1>b, <1>c, <2>2 DEF IsChain
    <3> HIDE DEF first, last
    <3> QED BY <2>2, <2>3, <3>1
  <2>6. \A i \in first..last : /\ d[i] \in heap
                               /\ \A u \in Threads : pc'[u] \in PushHeld => node'[u] # d[i]
    <3>1. \A u \in Threads : pc'[u] \in PushHeld => u # t /\ pc[u] \in PushHeld /\ node'[u] = node[u]
      BY DEF TypeOK, PushHeld, TailHeld
    <3>2. \A i \in first..(last - 1) : \A u \in Threads : pc[u] \in PushHeld => node[u] # d[i]
      BY <1>b, <1>c, <2>2 DEF IsChain
    <3>3. \A u \in Threads \ {t} : pc[u] \in PushHeld => node[u] # node[t]
      BY <1>a DEF NewNodeInv
    <3> HIDE DEF first, last
    <3>4. \A i \in first..last : i \in first..(last - 1) \/ i = last
      BY <2>2
    <3> QED BY <1>a, <2>2, <2>3, <3>1, <3>2, <3>3, <3>4
  <2>7. \A i \in first..Len(pushed') : next'[d[i]] = d[i + 1] /\ data'[d[i]] = pushed'[i]
    <3>1. \A i \in first..Len(pushed) : /\ next[d[i]] = d[i + 1] /\ data[d[i]] = pushed[i]
                                        /\ d[i] # tail /\ d[i] \in Nodes
      <4>1. \A i \in first..Len(pushed) : /\ i \in first..(Len(pushed) + 1)
                                          /\ i # Len(pushed) + 1 /\ d[i] = c[i] /\ d[i + 1] = c[i + 1]
                                          /\ c[i] \in Nodes
        BY <1>c, <2>2
      <4>2. Len(pushed) + 1 \in first..(Len(pushed) + 1)
        BY <1>c
      <4> QED BY <1>b, <4>1, <4>2 DEF IsChain
    <3>2. d[Len(pushed) + 1] = tail
      BY <1>b, <1>c, <2>2 DEF IsChain
    <3>3. next'[tail] = node[t] /\ data'[tail] = val[t]
      BY <1>3 DEF TypeOK
    <3>4. \A m \in Nodes : m # tail => next'[m] = next[m] /\ data'[m] = data[m]
      BY DEF TypeOK
    <3>5. \A i \in first..Len(pushed') : i \in first..Len(pushed) \/ i = Len(pushed) + 1
      BY <1>c
    <3>6. ASSUME NEW i \in first..Len(pushed)
          PROVE  next'[d[i]] = d[i + 1] /\ data'[d[i]] = pushed'[i]
      <4>1. pushed'[i] = pushed[i]
        BY <1>c
      <4> QED BY <3>1, <3>4, <4>1
    <3>7. /\ next'[d[Len(pushed) + 1]] = d[Len(pushed) + 2]
          /\ data'[d[Len(pushed) + 1]] = pushed'[Len(pushed) + 1]
      BY <1>c, <2>2, <3>2, <3>3
    <3>8. (Len(pushed) + 1) + 1 = Len(pushed) + 2
      BY <1>c
    <3> QED BY <3>5, <3>6, <3>7, <3>8
  <2>8. IsChain(d)'
    <3>1. Len(popped') + 1 = first /\ Len(pushed') + 1 = last
      BY <2>2
    <3> HIDE DEF first, last
    <3> QED BY <2>4, <2>5, <2>6, <2>7, <3>1 DEF IsChain
  <2> HIDE DEF first, last
  <2> QED BY <1>c, <2>1, <2>8 DEF ChainInv
<1> QED BY <1>1, <1>2, <1>4, <1>5, <1>6, <1>7

\* pop_head(): the chain loses its first node, which held the oldest value
\* (queue.hpp:144-149).
LEMMA PopHeadStep ==
    ASSUME QueueInv, NEW t \in Threads, PopHead(t)
    PROVE  QueueInv'
<1> USE Constants DEF QueueInv, PopHead, Return
<1>b. PICK c \in [1..(Len(pushed) + 1) -> Nodes] : IsChain(c)
  BY DEF ChainInv
<1>c. /\ Len(pushed) \in Nat /\ Len(popped) \in Nat
      /\ Len(popped) < Len(pushed)
  BY <1>b, ChainEnds DEF ChainInv, PopInv
<1>d. data[head] = pushed[Len(popped) + 1] /\ data[head] \in Values
  <2>1. Len(popped) + 1 \in (Len(popped) + 1)..Len(pushed)
    BY <1>c
  <2>2. pushed[Len(popped) + 1] \in Values
    BY <1>c DEF TypeOK
  <2> QED BY <1>b, <2>1, <2>2 DEF IsChain
<1>e. /\ popped' \in Seq(Values) /\ Len(popped') = Len(popped) + 1
      /\ \A k \in 1..Len(popped) : popped'[k] = popped[k]
      /\ popped'[Len(popped) + 1] = data[head]
  BY <1>c, <1>d DEF TypeOK
<1>f. c[Len(popped) + 1] = head /\ c[Len(popped) + 2] = head' /\ head' \in Nodes
  BY <1>b, <1>c DEF IsChain
<1>1. TypeOK'
  BY <1>d, <1>e, <1>f DEF TypeOK, PCs, HeadHeld, PushHeld, TailHeld
<1>2. LockInv' /\ PopInv'
  BY DEF TypeOK, LockInv, PopInv, PCs, HeadHeld, PushHeld, TailHeld
<1>3. DrainedIsFinal'
  BY DEF TypeOK, PopInv, DrainedIsFinal
<1>4. NewNodeInv'
  <2>1. \A u \in Threads : pc'[u] \in PushHeld => pc[u] \in PushHeld /\ u # t
    BY DEF TypeOK, PushHeld, TailHeld
  <2>2. \A u \in Threads : pc[u] \in PushHeld => node[u] # head
    BY <1>b, <1>c, ChainEnds
  <2> QED BY <2>1, <2>2 DEF NewNodeInv, TypeOK
<1>5. FifoOrder'
  <2>1. \A k \in 1..Len(popped') : k \in 1..Len(popped) \/ k = Len(popped) + 1
    BY <1>c, <1>e
  <2> QED BY <1>c, <1>d, <1>e, <2>1 DEF FifoOrder
<1>6. ChainInv'
  <2> DEFINE first == Len(popped) + 2
             last == Len(pushed) + 1
  <2>1. /\ first \in Nat /\ last \in Nat /\ first <= last
        /\ Len(popped') + 1 = first
        /\ \A i \in first..last : i \in (Len(popped) + 1)..last /\ i # Len(popped) + 1
        /\ \A i \in first..Len(pushed) : i \in first..last /\ i \in (Len(popped) + 1)..Len(pushed)
    BY <1>c, <1>e
  <2>2. \A i \in first..last : c[i] \in heap' /\ c[i] # head /\ c[i] \in Nodes
    <3>1. \A i \in first..last : i \in 1..(Len(pushed) + 1)
      BY <1>c
    <3>2. Len(popped) + 1 \in (Len(popped) + 1)..last
      BY <1>c
    <3>3. \A i \in first..last : c[i] \in heap /\ c[i] # head
      BY <1>b, <1>f, <2>1, <3>2 DEF IsChain
    <3>4. heap' = heap \ {head}
      OBVIOUS
    <3> QED BY <1>b, <3>1, <3>3, <3>4
  <2>3. \A i \in first..last : \A u \in Threads : pc'[u] \in PushHeld => node'[u] # c[i]
    <3>1. \A u \in Threads : pc'[u] \in PushHeld => pc[u] \in PushHeld
      BY DEF TypeOK, PushHeld, TailHeld
    <3> QED BY <1>b, <2>1, <3>1 DEF IsChain
  <2>4. \A i \in first..Len(pushed) : next'[c[i]] = c[i + 1] /\ data'[c[i]] = pushed[i]
    <3>1. \A m \in Nodes : m # head => next'[m] = next[m] /\ data'[m] = data[m]
      BY DEF TypeOK
    <3>2. \A i \in first..Len(pushed) : next[c[i]] = c[i + 1] /\ data[c[i]] = pushed[i]
      BY <1>b, <2>1 DEF IsChain
    <3> QED BY <2>1, <2>2, <3>1, <3>2
  <2>5. \A i, j \in first..last : c[i] = c[j] => i = j
    BY <1>b, <2>1 DEF IsChain
  <2>6. IsChain(c)'
    BY <1>b, <1>f, <2>1, <2>2, <2>3, <2>4, <2>5 DEF IsChain
  <2> QED BY <1>b, <1>c, <1>e, <2>6 DEF ChainInv
<1> QED BY <1>1, <1>2, <1>3, <1>4, <1>5, <1>6

\* Every step of every thread preserves the invariant.
LEMMA NextInv == QueueInv /\ [Next]_vars => QueueInv'
<1> SUFFICES ASSUME QueueInv, [Next]_vars PROVE QueueInv'
  OBVIOUS
<1>1. ASSUME NEW t \in Producers, NEW v \in Values, PushCheck(t, v) PROVE QueueInv'
  BY <1>1, PushCheckStep DEF Threads
<1>2. ASSUME NEW t \in Closers, CloseStore(t) PROVE QueueInv'
  BY <1>2, QuietStep DEF Threads
<1>3. ASSUME NEW t \in Consumers, NEW o \in PopOps, PopCall(t, o) PROVE QueueInv'
  BY <1>3, QuietStep DEF Threads
<1>4. ASSUME NEW t \in Threads, Step(t) \/ SpuriousWakeup(t) PROVE QueueInv'
  <2>1. CASE PushRecheck(t) BY <2>1, PushRecheckStep
  <2>2. CASE PushLink(t) BY <2>2, PushLinkStep
  <2>3. CASE PopHead(t) BY <2>3, PopHeadStep
  <2> QED BY <1>4, <2>1, <2>2, <2>3, QuietStep DEF Step
<1>5. CASE UNCHANGED vars
  <2>1. ChainInv'
    BY <1>5, ChainStable DEF vars, QueueInv
  <2> QED BY <1>5, <2>1 DEF vars, QueueInv, TypeOK, LockInv, PopInv, NewNodeInv,
                            FifoOrder, DrainedIsFinal
<1> QED BY <1>1, <1>2, <1>3, <1>4, <1>5 DEF Next

\* Type correctness, lock discipline, list structure and history hold in every
\* reachable state, for any number of threads, values and nodes.
THEOREM QueueSafe == Spec => []QueueInv
BY InitInv, NextInv, PTL DEF Spec

\* No interleaving of push() and the pop operations loses, repeats or reorders
\* an element (queue.hpp:97-176).
THEOREM FifoSafe == Spec => []FifoOrder
<1>1. QueueInv => FifoOrder
  BY DEF QueueInv
<1> QED BY <1>1, QueueSafe, PTL

\* is_empty()'s comparison of two addresses is exact, although addresses are
\* reused (queue.hpp:140-143).
THEOREM EmptySafe == Spec => []EmptyIsExact
<1>1. QueueInv => EmptyIsExact
  <2> SUFFICES ASSUME QueueInv PROVE EmptyIsExact
    OBVIOUS
  <2>1. PICK c \in [1..(Len(pushed) + 1) -> Nodes] : IsChain(c)
    BY DEF QueueInv, ChainInv
  <2>2. Len(pushed) \in Nat /\ Len(popped) \in Nat /\ Len(popped) <= Len(pushed)
    BY DEF QueueInv, TypeOK, ChainInv
  <2> QED BY <2>1, <2>2, ChainEnds DEF EmptyIsExact, QueueInv
<1> QED BY <1>1, QueueSafe, PTL

\* "Closed and drained" is final: no consumer is told so while an accepted
\* push() can still add an element (queue.hpp:104-109, 158-159, 166-167).
THEOREM DrainedSafe == Spec => []DrainedIsFinal
<1>1. QueueInv => DrainedIsFinal
  BY DEF QueueInv
<1> QED BY <1>1, QueueSafe, PTL

\* Neither end of the queue, nor a push() about to link, ever refers to a freed
\* node (queue.hpp:101-109, 144-149).
THEOREM NodesSafe == Spec => []NoDanglingNode
<1>1. QueueInv => NoDanglingNode
  <2> SUFFICES ASSUME QueueInv PROVE NoDanglingNode
    OBVIOUS
  <2>1. PICK c \in [1..(Len(pushed) + 1) -> Nodes] : IsChain(c)
    BY DEF QueueInv, ChainInv
  <2>2. Len(pushed) \in Nat /\ Len(popped) \in Nat /\ Len(popped) <= Len(pushed)
    BY DEF QueueInv, TypeOK, ChainInv
  <2>3. /\ head \in heap /\ tail \in heap
        /\ \A t \in Threads : pc[t] \in PushHeld => node[t] # head /\ node[t] # tail
    BY <2>1, <2>2, ChainEnds DEF QueueInv
  <2> QED BY <2>3 DEF NoDanglingNode, QueueInv, NewNodeInv
<1> QED BY <1>1, QueueSafe, PTL
----------------------------------------------------------------------------

(* The queue implements ClosableQueue                                      *)

\* Sequences of one length with the same elements are equal.
LEMMA SameSeq ==
    ASSUME NEW S, NEW r \in Seq(S), NEW s \in Seq(S), Len(r) = Len(s),
           \A i \in 1..Len(r) : r[i] = s[i]
    PROVE  r = s
OBVIOUS

\* What is left of the sequence p when its first Len(q) elements are taken off.
LEMMA DropSeq ==
    ASSUME NEW S, NEW p \in Seq(S), NEW q \in Seq(S), Len(q) <= Len(p),
           NEW c \in [1..(Len(p) - Len(q)) -> S],
           \A i \in 1..(Len(p) - Len(q)) : c[i] = p[Len(q) + i]
    PROVE  \E n \in Nat :
              /\ Len(p) = Len(q) + n /\ Len(p) \in Nat /\ Len(q) \in Nat
              /\ c \in Seq(S) /\ Len(c) = n
              /\ \A i \in 1..n : c[i] = p[Len(q) + i] /\ Len(q) + i \in 1..Len(p)
<1>1. Len(p) \in Nat /\ Len(q) \in Nat /\ \A k \in 1..Len(p) : p[k] \in S
  OBVIOUS
<1>2. PICK n \in Nat : n = Len(p) - Len(q)
  <2>1. Len(p) - Len(q) \in Nat
    BY <1>1
  <2> QED BY <2>1
<1>3. Len(p) = Len(q) + n /\ \A i \in 1..n : Len(q) + i \in 1..Len(p)
  BY <1>1, <1>2
<1>4. c \in [1..n -> S] /\ \A i \in 1..n : c[i] = p[Len(q) + i]
  BY <1>2
<1>5. c \in Seq(S) /\ Len(c) = n /\ \A i \in 1..n : c[i] = p[Len(q) + i]
  BY <1>4
<1> QED BY <1>1, <1>3, <1>5

\* Contents is what was pushed and not yet popped, before a step and after it.
LEMMA ContentsSeq ==
    /\ QueueInv => \E n \in Nat :
          /\ Len(pushed) = Len(popped) + n /\ Len(pushed) \in Nat /\ Len(popped) \in Nat
          /\ Contents \in Seq(Values) /\ Len(Contents) = n
          /\ \A i \in 1..n : Contents[i] = pushed[Len(popped) + i] /\ Len(popped) + i \in 1..Len(pushed)
    /\ QueueInv' => \E n \in Nat :
          /\ Len(pushed') = Len(popped') + n /\ Len(pushed') \in Nat /\ Len(popped') \in Nat
          /\ Contents' \in Seq(Values) /\ Len(Contents') = n
          /\ \A i \in 1..n : Contents'[i] = pushed'[Len(popped') + i] /\ Len(popped') + i \in 1..Len(pushed')
<1>1. ASSUME QueueInv
      PROVE  \E n \in Nat :
                /\ Len(pushed) = Len(popped) + n /\ Len(pushed) \in Nat /\ Len(popped) \in Nat
                /\ Contents \in Seq(Values) /\ Len(Contents) = n
                /\ \A i \in 1..n : Contents[i] = pushed[Len(popped) + i] /\ Len(popped) + i \in 1..Len(pushed)
  <2>1. pushed \in Seq(Values) /\ popped \in Seq(Values) /\ Len(popped) <= Len(pushed)
    BY <1>1 DEF QueueInv, TypeOK, FifoOrder
  <2>2. \A i \in 1..(Len(pushed) - Len(popped)) : pushed[Len(popped) + i] \in Values
    BY <2>1
  <2>3. /\ Contents \in [1..(Len(pushed) - Len(popped)) -> Values]
        /\ \A i \in 1..(Len(pushed) - Len(popped)) : Contents[i] = pushed[Len(popped) + i]
    BY <2>2 DEF Contents
  <2> QED BY <2>1, <2>3, DropSeq
<1>2. ASSUME QueueInv'
      PROVE  \E n \in Nat :
                /\ Len(pushed') = Len(popped') + n /\ Len(pushed') \in Nat /\ Len(popped') \in Nat
                /\ Contents' \in Seq(Values) /\ Len(Contents') = n
                /\ \A i \in 1..n : Contents'[i] = pushed'[Len(popped') + i] /\ Len(popped') + i \in 1..Len(pushed')
  <2>1. pushed' \in Seq(Values) /\ popped' \in Seq(Values) /\ Len(popped') <= Len(pushed')
    BY <1>2 DEF QueueInv, TypeOK, FifoOrder
  <2>2. \A i \in 1..(Len(pushed') - Len(popped')) : pushed'[Len(popped') + i] \in Values
    BY <2>1
  <2>3. /\ Contents' \in [1..(Len(pushed') - Len(popped')) -> Values]
        /\ \A i \in 1..(Len(pushed') - Len(popped')) : Contents'[i] = pushed'[Len(popped') + i]
    BY <2>2 DEF Contents
  <2> QED BY <2>1, <2>3, DropSeq
<1> QED BY <1>1, <1>2

\* The second test of closed is where a push() is accepted (queue.hpp:104-108).
LEMMA RecheckAccepts ==
    ASSUME QueueInv, NEW t \in Threads, PushRecheck(t)
    PROVE  Abstract!Accept(t) \/ UNCHANGED <<Contents, Abstract!qvars>>
<1>1. UNCHANGED <<pushed, popped, closed, drained>>
  BY DEF PushRecheck, history
<1>2. UNCHANGED Contents
  BY <1>1 DEF Contents
<1>3. CASE closed
  <2>1. \A u \in Threads : pc'[u] = "push_link" <=> pc[u] = "push_link"
    BY <1>3 DEF PushRecheck, Return, QueueInv, TypeOK
  <2> QED BY <1>1, <1>2, <2>1 DEF Abstract!qvars
<1>4. CASE ~closed
  <2>1. \A u \in Threads : pc'[u] = "push_link" <=> (pc[u] = "push_link" \/ u = t)
    BY <1>4 DEF PushRecheck, Goto, QueueInv, TypeOK
  <2> QED BY <1>1, <1>2, <1>4, <2>1 DEF Abstract!Accept
<1> QED BY <1>3, <1>4

\* Linking the node puts the value at the end (queue.hpp:109-110).
LEMMA LinkPuts ==
    ASSUME QueueInv, QueueInv', NEW t \in Threads, PushLink(t)
    PROVE  val[t] \in Values /\ Abstract!Put(t, val[t])
<1>1. /\ pc[t] = "push_link" /\ pushed' = Append(pushed, val[t]) /\ popped' = popped
      /\ closed' = closed /\ drained' = drained /\ val[t] \in Values /\ pushed \in Seq(Values)
  BY DEF PushLink, QueueInv, NewNodeInv, TypeOK, PushHeld, TailHeld
<1>2. \A u \in Threads : pc'[u] = "push_link" <=> (pc[u] = "push_link" /\ u # t)
  BY DEF PushLink, Goto, QueueInv, TypeOK
<1>3. Contents' = Append(Contents, val[t])
  <2>1. PICK n \in Nat :
          /\ Len(pushed) = Len(popped) + n /\ Len(pushed) \in Nat /\ Len(popped) \in Nat
          /\ Contents \in Seq(Values) /\ Len(Contents) = n
          /\ \A i \in 1..n : Contents[i] = pushed[Len(popped) + i] /\ Len(popped) + i \in 1..Len(pushed)
    BY ContentsSeq
  <2>2. PICK m \in Nat :
          /\ Len(pushed') = Len(popped') + m /\ Len(pushed') \in Nat /\ Len(popped') \in Nat
          /\ Contents' \in Seq(Values) /\ Len(Contents') = m
          /\ \A i \in 1..m : Contents'[i] = pushed'[Len(popped') + i] /\ Len(popped') + i \in 1..Len(pushed')
    BY ContentsSeq
  <2>3. /\ Len(pushed') = Len(pushed) + 1 /\ pushed'[Len(pushed) + 1] = val[t]
        /\ \A k \in 1..Len(pushed) : pushed'[k] = pushed[k]
    BY <1>1, <2>1
  <2>4. m = n + 1 /\ Len(popped) + (n + 1) = Len(pushed) + 1
    BY <1>1, <2>1, <2>2, <2>3
  <2>5. Len(Contents') = n + 1 /\ Contents'[n + 1] = val[t] /\ \A i \in 1..n : Contents'[i] = Contents[i]
    <3>1. \A i \in 1..(n + 1) : Contents'[i] = pushed'[Len(popped) + i]
      BY <1>1, <2>2, <2>4
    <3>2. n + 1 \in 1..(n + 1) /\ \A i \in 1..n : i \in 1..(n + 1)
      OBVIOUS
    <3>3. Contents'[n + 1] = val[t]
      BY <2>3, <2>4, <3>1, <3>2
    <3>4. \A i \in 1..n : Contents'[i] = Contents[i]
      BY <2>1, <2>3, <3>1, <3>2
    <3> QED BY <2>2, <2>4, <3>3, <3>4
  <2>6. /\ Append(Contents, val[t]) \in Seq(Values) /\ Len(Append(Contents, val[t])) = n + 1
        /\ Append(Contents, val[t])[n + 1] = val[t]
        /\ \A i \in 1..n : Append(Contents, val[t])[i] = Contents[i]
    BY <1>1, <2>1
  <2>7. \A i \in 1..(n + 1) : i \in 1..n \/ i = n + 1
    OBVIOUS
  <2> QED BY <2>2, <2>5, <2>6, <2>7, SameSeq
<1> QED BY <1>1, <1>2, <1>3 DEF Abstract!Put

\* pop_head() takes the oldest value (queue.hpp:144-149).
LEMMA PopTakes ==
    ASSUME QueueInv, QueueInv', NEW t \in Threads, PopHead(t)
    PROVE  Abstract!Take
<1>1. /\ pushed' = pushed /\ closed' = closed /\ drained' = drained
      /\ popped' = Append(popped, data[head]) /\ popped \in Seq(Values)
  BY DEF PopHead, QueueInv, TypeOK
<1>2. \A u \in Threads : pc'[u] = "push_link" <=> pc[u] = "push_link"
  BY DEF PopHead, Return, QueueInv, TypeOK
<1>3. PICK k \in Nat :
        /\ Len(pushed) = Len(popped) + k /\ Len(pushed) \in Nat /\ Len(popped) \in Nat
        /\ Contents \in Seq(Values) /\ Len(Contents) = k
        /\ \A i \in 1..k : Contents[i] = pushed[Len(popped) + i] /\ Len(popped) + i \in 1..Len(pushed)
  BY ContentsSeq
<1>4. PICK n \in Nat :
        /\ Len(pushed') = Len(popped') + n /\ Len(pushed') \in Nat /\ Len(popped') \in Nat
        /\ Contents' \in Seq(Values) /\ Len(Contents') = n
        /\ \A i \in 1..n : Contents'[i] = pushed'[Len(popped') + i] /\ Len(popped') + i \in 1..Len(pushed')
  BY ContentsSeq
<1>5. Len(popped') = Len(popped) + 1 /\ popped'[Len(popped) + 1] = data[head]
  BY <1>1, <1>3
<1>6. k = n + 1
  BY <1>1, <1>3, <1>4, <1>5
<1>7. data[head] = Contents[1]
  <2>1. Len(popped) + 1 \in 1..Len(popped') /\ 1 \in 1..(n + 1)
    BY <1>3, <1>5
  <2>2. popped'[Len(popped) + 1] = pushed[Len(popped) + 1]
    BY <1>1, <2>1 DEF QueueInv, FifoOrder
  <2> QED BY <1>3, <1>5, <1>6, <2>1, <2>2
<1>8. Contents # <<>> /\ Head(Contents) = Contents[1]
  <2>1. Len(Contents) # 0
    BY <1>3, <1>6
  <2>2. Contents # <<>>
    BY <2>1
  <2> QED BY <1>3, <2>2
<1>9. Contents' = Tail(Contents)
  <2>1. /\ Tail(Contents) \in Seq(Values) /\ Len(Tail(Contents)) = n
        /\ \A i \in 1..n : Tail(Contents)[i] = Contents[i + 1]
    BY <1>3, <1>6, <1>8
  <2>2. \A i \in 1..n : i + 1 \in 1..(n + 1) /\ Len(popped) + (i + 1) = Len(popped') + i
    BY <1>3, <1>5
  <2>3. \A i \in 1..n : Contents'[i] = Tail(Contents)[i]
    BY <1>1, <1>3, <1>4, <1>6, <2>1, <2>2
  <2> QED BY <1>4, <2>1, <2>3, SameSeq
<1> QED BY <1>1, <1>2, <1>7, <1>8, <1>9 DEF Abstract!Take

\* An empty queue has no contents.
LEMMA EmptyContents == QueueInv /\ Len(popped) = Len(pushed) => Contents = <<>>
<1> SUFFICES ASSUME QueueInv, Len(popped) = Len(pushed) PROVE Contents = <<>>
  OBVIOUS
<1>1. PICK n \in Nat :
        /\ Len(pushed) = Len(popped) + n /\ Len(pushed) \in Nat /\ Len(popped) \in Nat
        /\ Contents \in Seq(Values) /\ Len(Contents) = n
        /\ \A i \in 1..n : Contents[i] = pushed[Len(popped) + i] /\ Len(popped) + i \in 1..Len(pushed)
  BY ContentsSeq
<1>2. Len(Contents) = 0
  BY <1>1
<1>3. <<>> \in Seq(Values) /\ Len(<<>>) = 0
  OBVIOUS
<1> QED BY <1>1, <1>2, <1>3, SameSeq

\* "Closed and drained" is answered when it is true (queue.hpp:158-159, 166-167).
LEMMA CheckDrains ==
    ASSUME QueueInv, QueueInv', EmptyIsExact, NEW t \in Threads, CheckEmpty(t)
    PROVE  Abstract!Drain \/ UNCHANGED Abstract!qvars
<1>1. UNCHANGED <<pushed, popped, closed, head, tail>>
  BY DEF CheckEmpty, chain
<1>2. UNCHANGED Contents
  BY <1>1 DEF Contents
<1>3. \A u \in Threads : pc'[u] = "push_link" <=> pc[u] = "push_link"
  BY DEF CheckEmpty, Return, Goto, QueueInv, TypeOK
<1>4. CASE drained' = drained
  BY <1>1, <1>2, <1>3, <1>4 DEF Abstract!qvars
<1>5. CASE drained' # drained
  <2>1. drained' = TRUE
    BY <1>5 DEF CheckEmpty, QueueInv, TypeOK
  <2>2. closed /\ head = tail /\ \A u \in Threads : pc[u] # "push_link"
    BY <1>1, <1>3, <2>1 DEF QueueInv, DrainedIsFinal
  <2>3. Contents = <<>>
    BY <2>2, EmptyContents DEF EmptyIsExact
  <2> QED BY <1>1, <1>2, <1>3, <2>1, <2>2, <2>3 DEF Abstract!Drain
<1> QED BY <1>4, <1>5

\* Every other step is invisible to the clients of the abstract queue.
LEMMA QuietStutters ==
    ASSUME QueueInv, UNCHANGED <<pushed, popped, closed, drained>>,
           \A u \in Threads : pc'[u] = "push_link" <=> pc[u] = "push_link"
    PROVE  UNCHANGED Abstract!qvars
<1>1. UNCHANGED Contents
  BY DEF Contents
<1> QED BY <1>1 DEF Abstract!qvars

\* Each step is one step of the abstract queue or none (queue.hpp:97-176).
LEMMA StepImplements ==
    QueueInv /\ QueueInv' /\ EmptyIsExact /\ [Next]_vars => [Abstract!QNext]_(Abstract!qvars)
<1> SUFFICES ASSUME QueueInv, QueueInv', EmptyIsExact, [Next]_vars
             PROVE  Abstract!QNext \/ UNCHANGED Abstract!qvars
  OBVIOUS
<1>t. pc \in [Threads -> PCs]
  BY DEF QueueInv, TypeOK
<1>1. ASSUME NEW t \in Producers, NEW v \in Values, PushCheck(t, v) PROVE UNCHANGED Abstract!qvars
  <2>1. /\ UNCHANGED <<pushed, popped, closed, drained>>
        /\ \A u \in Threads : pc'[u] = "push_link" <=> pc[u] = "push_link"
    BY <1>t, <1>1 DEF PushCheck, Return, Goto, history, Threads
  <2> QED BY <2>1, QuietStutters
<1>2. ASSUME NEW t \in Closers, CloseStore(t) PROVE Abstract!Close
  <2>1. /\ UNCHANGED <<pushed, popped, drained>> /\ closed' = TRUE
        /\ \A u \in Threads : pc'[u] = "push_link" <=> pc[u] = "push_link"
    BY <1>t, <1>2 DEF CloseStore, Goto, history, Threads
  <2>2. UNCHANGED Contents
    BY <2>1 DEF Contents
  <2> QED BY <2>1, <2>2 DEF Abstract!Close
<1>3. ASSUME NEW t \in Consumers, NEW o \in PopOps, PopCall(t, o) PROVE UNCHANGED Abstract!qvars
  <2>1. /\ UNCHANGED <<pushed, popped, closed, drained>>
        /\ \A u \in Threads : pc'[u] = "push_link" <=> pc[u] = "push_link"
    BY <1>t, <1>3 DEF PopCall, Goto, history, Threads
  <2> QED BY <2>1, QuietStutters
<1>4. ASSUME NEW t \in Threads, Step(t) \/ SpuriousWakeup(t)
      PROVE  Abstract!QNext \/ UNCHANGED Abstract!qvars
  <2>1. CASE PushRecheck(t) BY <2>1, RecheckAccepts DEF Abstract!QNext
  <2>2. CASE PushLink(t)
    <3>1. val[t] \in Values /\ Abstract!Put(t, val[t])
      BY <2>2, LinkPuts
    <3>2. \E u \in Threads, v \in Values : Abstract!Put(u, v)
      BY <3>1 DEF Abstract!Put
    <3> QED BY <3>2 DEF Abstract!QNext
  <2>3. CASE PopHead(t) BY <2>3, PopTakes DEF Abstract!QNext
  <2>4. CASE CheckEmpty(t) BY <2>4, CheckDrains DEF Abstract!QNext
  <2>5. CASE ~PushRecheck(t) /\ ~PushLink(t) /\ ~PopHead(t) /\ ~CheckEmpty(t)
    <3>1. /\ UNCHANGED <<pushed, popped, closed, drained>>
          /\ \A u \in Threads : pc'[u] = "push_link" <=> pc[u] = "push_link"
      BY <1>t, <1>4, <2>5 DEF Step, PushLock, PushNotify, CloseNotify, PopLock, PredClosed,
         PredEmpty, Block, Timeout, Relock, SpuriousWakeup, Goto, Return, history, Waiting
    <3> QED BY <3>1, QuietStutters
  <2> QED BY <2>1, <2>2, <2>3, <2>4, <2>5
<1>5. CASE UNCHANGED vars
  BY <1>5, QuietStutters DEF vars
<1> QED BY <1>1, <1>2, <1>3, <1>4, <1>5 DEF Next, Abstract!QNext

\* The queue implements the closable FIFO queue, for any number of threads, values
\* and nodes (queue.hpp:97-176).
THEOREM ClosableQueueImplemented == Spec => ImplementsClosableQueue
<1>1. Init => Abstract!QInit
  <2> SUFFICES ASSUME Init PROVE Abstract!QInit
    OBVIOUS
  <2>1. Contents = <<>>
    BY InitInv, EmptyContents DEF Init
  <2> QED BY <2>1 DEF Init, Abstract!QInit
<1>2. QueueInv /\ QueueInv' /\ EmptyIsExact /\ [Next]_vars => [Abstract!QNext]_(Abstract!qvars)
  BY StepImplements
<1> QED BY <1>1, <1>2, QueueSafe, EmptySafe, PTL DEF Spec, ImplementsClosableQueue, Abstract!QSpec

----------------------------------------------------------------------------
(* Fresh values                                                            *)

\* A step that links nothing keeps the values of running pushes fresh, if no thread
\* gets a value to push.
LEMMA FreshStable ==
    ASSUME FreshInv, pushed' = pushed, offered \subseteq offered',
           \A t \in Threads : pc'[t] \in PushHeld => pc[t] \in PushHeld /\ val'[t] = val[t]
    PROVE  FreshInv'
BY DEF FreshInv

\* No value is linked twice: a push carries a value no other one carries or has
\* linked (queue.hpp:97-112).
LEMMA FreshStep == QueueInv /\ FreshInv /\ [Next]_vars => FreshInv'
<1> SUFFICES ASSUME QueueInv, FreshInv, [Next]_vars PROVE FreshInv'
  OBVIOUS
<1> USE DEF PushHeld, TailHeld
<1>t. TypeOK
  BY DEF QueueInv
<1>1. ASSUME NEW t \in Producers, NEW v \in Values, PushCheck(t, v) PROVE FreshInv'
  <2>1. t \in Threads /\ pushed' = pushed /\ offered' = offered \cup {v} /\ v \notin offered
    BY <1>1 DEF PushCheck, history, Threads
  <2>2. \A u \in Threads \ {t} : pc'[u] = pc[u] /\ val'[u] = val[u]
    BY <1>t, <1>1, <2>1 DEF PushCheck, Return, Goto, TypeOK
  <2>3. pc'[t] = "idle" \/ (pc'[t] = "push_lock" /\ val'[t] = v)
    BY <1>t, <1>1, <2>1 DEF PushCheck, Return, Goto, TypeOK
  <2>4. CASE pc'[t] = "idle"
    BY <2>1, <2>2, <2>4, FreshStable
  <2>5. CASE pc'[t] = "push_lock" /\ val'[t] = v
    BY <2>1, <2>2, <2>5 DEF FreshInv
  <2> QED BY <2>3, <2>4, <2>5
<1>2. ASSUME NEW t \in Closers, CloseStore(t) PROVE FreshInv'
  <2>1. UNCHANGED <<pushed, offered, val>> /\ \A u \in Threads : pc'[u] = pc[u] \/ pc'[u] = "close_notify"
    BY <1>t, <1>2 DEF CloseStore, Goto, history, TypeOK
  <2> QED BY <2>1, FreshStable
<1>3. ASSUME NEW t \in Consumers, NEW o \in PopOps, PopCall(t, o) PROVE FreshInv'
  <2>1. UNCHANGED <<pushed, offered>>
        /\ \A u \in Threads : (pc'[u] = pc[u] /\ val'[u] = val[u]) \/ pc'[u] = "pop_lock"
    BY <1>t, <1>3 DEF PopCall, Goto, history, TypeOK
  <2> QED BY <2>1, FreshStable
<1>4. ASSUME NEW t \in Threads, Step(t) \/ SpuriousWakeup(t) PROVE FreshInv'
  <2>1. CASE PushLink(t)
    <3>1. /\ pc[t] = "push_link" /\ pushed' = Append(pushed, val[t]) /\ offered' = offered
          /\ pc'[t] = "push_notify"
          /\ \A u \in Threads \ {t} : pc'[u] = pc[u] /\ val'[u] = val[u]
      BY <1>t, <2>1 DEF PushLink, Goto, TypeOK
    <3>2. val[t] \in Values /\ pushed \in Seq(Values)
      BY <1>t, <3>1 DEF QueueInv, NewNodeInv, TypeOK
    <3>3. /\ Len(pushed) \in Nat /\ Len(pushed') = Len(pushed) + 1 /\ pushed'[Len(pushed) + 1] = val[t]
          /\ \A k \in 1..Len(pushed) : pushed'[k] = pushed[k]
      BY <3>1, <3>2
    <3>4. \A k \in 1..Len(pushed') : k \in 1..Len(pushed) \/ k = Len(pushed) + 1
      BY <3>3
    <3>5. /\ val[t] \in offered
          /\ \A k \in 1..Len(pushed) : pushed[k] # val[t]
          /\ \A u \in Threads \ {t} : pc[u] \in PushHeld => val[u] # val[t]
      BY <3>1 DEF FreshInv
    <3>6. \A k \in 1..Len(pushed') : pushed'[k] \in offered'
      BY <3>1, <3>3, <3>4, <3>5 DEF FreshInv
    <3>7. ASSUME NEW j \in 1..Len(pushed'), NEW k \in 1..Len(pushed'), pushed'[j] = pushed'[k] PROVE j = k
      BY <3>3, <3>4, <3>5, <3>7 DEF FreshInv
    <3>8. ASSUME NEW u \in Threads, pc'[u] \in PushHeld
          PROVE  /\ val'[u] \in offered'
                 /\ \A k \in 1..Len(pushed') : pushed'[k] # val'[u]
                 /\ \A x \in Threads \ {u} : pc'[x] \in PushHeld => val'[x] # val'[u]
      <4>1. u # t
        BY <3>1, <3>8
      <4> QED BY <3>1, <3>3, <3>4, <3>5, <3>8, <4>1 DEF FreshInv
    <3> QED BY <3>6, <3>7, <3>8 DEF FreshInv
  <2>2. CASE ~PushLink(t)
    <3> USE DEF Goto, Return, locks, chain, history, Waiting
    <3>1. pushed' = pushed /\ offered' = offered
      BY <1>4, <2>2 DEF Step, PushLock, PushRecheck, PushNotify, CloseNotify, PopLock, PredClosed,
         PredEmpty, Block, Timeout, Relock, CheckEmpty, PopHead, SpuriousWakeup
    <3>2. ASSUME NEW u \in Threads, pc'[u] \in PushHeld PROVE pc[u] \in PushHeld /\ val'[u] = val[u]
      BY <1>t, <1>4, <2>2, <3>2 DEF TypeOK, Step, PushLock, PushRecheck, PushNotify, CloseNotify,
         PopLock, PredClosed, PredEmpty, Block, Timeout, Relock, CheckEmpty, PopHead, SpuriousWakeup
    <3> QED BY <3>1, <3>2, FreshStable
  <2> QED BY <2>1, <2>2
<1>5. CASE UNCHANGED vars
  BY <1>5, FreshStable DEF vars
<1> QED BY <1>1, <1>2, <1>3, <1>4, <1>5 DEF Next

\* Nothing is linked in the state of queue() (queue.hpp:33-35).
LEMMA FreshInit == Init => FreshInv
BY DEF Init, FreshInv, PushHeld, TailHeld

\* No value is linked twice, in every reachable state (queue.hpp:97-112).
LEMMA FreshSafe == Spec => []FreshInv
BY FreshInit, FreshStep, QueueSafe, PTL DEF Spec
=============================================================================
