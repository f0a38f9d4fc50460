--------------------------- MODULE IndexSequences ---------------------------
(***************************************************************************)
(* What indexed_list promises: a fixed stock of indices, distributed over  *)
(* sequences, one per head the caller keeps.  No index is in two sequences *)
(* or twice in one, and an operation touches only the sequence it is given. *)
(***************************************************************************)
EXTENDS Naturals, Sequences, SequencesExt

CONSTANTS Heads

VARIABLES seqs, size    \* the sequence of each head; the indices are 0 .. size - 1

svars == <<seqs, size>>

Members(h) == {seqs[h][k] : k \in 1..Len(seqs[h])}
Free == {i \in 0..(size - 1) : \A h \in Heads : i \notin Members(h)}
Position(h, i) == CHOOSE k \in 1..Len(seqs[h]) : seqs[h][k] = i

SInit == seqs = [h \in Heads |-> <<>>] /\ size \in Nat

SPush(h, i) == i \in Free /\ seqs' = [seqs EXCEPT ![h] = <<i>> \o @]

SPop(h) == seqs[h] # <<>> /\ seqs' = [seqs EXCEPT ![h] = Tail(@)]

\* Before the member nx.
SInsert(h, nx, i) ==
    /\ i \in Free /\ nx \in Members(h)
    /\ seqs' = [seqs EXCEPT ![h] = InsertAt(@, Position(h, nx), i)]

SInsertLast(h, i) == i \in Free /\ seqs' = [seqs EXCEPT ![h] = Append(@, i)]

SRemove(h, i) ==
    /\ i \in Members(h)
    /\ seqs' = [seqs EXCEPT ![h] = RemoveAt(@, Position(h, i))]

SFormList(h, b, e) ==
    /\ seqs[h] = <<>> /\ b < e /\ b..(e - 1) \subseteq Free
    /\ seqs' = [seqs EXCEPT ![h] = [k \in 1..(e - b) |-> b + k - 1]]

\* More indices, or fewer: those given up are in no sequence.
SResize ==
    /\ size' \in Nat
    /\ \A h \in Heads : Members(h) \subseteq 0..(size' - 1)
    /\ UNCHANGED seqs

SClear == seqs' = [h \in Heads |-> <<>>]

SNext ==
    \/ /\ UNCHANGED size
       /\ \/ SClear
          \/ \E h \in Heads :
                \/ SPop(h)
                \/ \E i \in 0..(size - 1) :
                      \/ SPush(h, i) \/ SInsertLast(h, i) \/ SRemove(h, i)
                      \/ \E j \in 0..size : SInsert(h, j, i) \/ SFormList(h, i, j)
    \/ SResize

SSpec == SInit /\ [][SNext]_svars
=============================================================================
