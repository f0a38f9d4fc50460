------------------------ MODULE DynamicReaderProofs ------------------------
(***************************************************************************)
(* Theorems about DynamicReader for any addresses, texts and integers: who *)
(* receives what is read when readers are copied, moved and destroyed, and *)
(* what that is.                                                           *)
(***************************************************************************)
EXTENDS DynamicReader, FiniteSetTheorems, SequenceTheorems, WellFoundedInduction, TLAPS

\* A reader alive has a variable for each index and functions that refer to one reader.
Shape ==
    /\ variables = [r \in Alive |-> variables[r]]
    /\ \A r \in Alive : variables[r] = [i \in Indices |-> variables[r][i]]
    /\ bound = [r \in Alive |-> bound[r]]

\* How a call changes the variables of the readers that stay alive: not at all, by
\* an assignment of a whole reader, by moving from it, or by what is read through a
\* function that refers to it.
Changes(r) ==
    \/ variables'[r] \in {variables[q] : q \in Alive}
    \/ /\ bound'[r] = NoReader
       /\ variables'[r] = [variables[r] EXCEPT ![1] = {<<>> : s \in variables[r][1]}]
    \/ \E q \in Alive, i \in Indices, t \in Texts :
          /\ bound[q] = r /\ Result(q, i, t) # {}
          /\ variables'[r] = [variables[r] EXCEPT ![i] = Result(q, i, t)]

\* No reader is alive at first.
LEMMA InitShape == Init => Shape
BY DEF Init, Shape, Alive

Constructed(r) ==
    /\ Alive' = Alive \cup {r} /\ r \notin Alive
    /\ variables' = [q \in Alive \cup {r} |-> IF q = r THEN [i \in Indices |-> {}] ELSE variables[q]]
    /\ bound' = [q \in Alive \cup {r} |-> IF q = r THEN r ELSE bound[q]]

Copied(r, from) ==
    /\ Alive' = Alive \cup {r}
    /\ variables' = [q \in Alive \cup {r} |-> IF q = r THEN variables[from] ELSE variables[q]]
    /\ bound' = [q \in Alive \cup {r} |-> IF q = r THEN bound[from] ELSE bound[q]]

Emptied(vs) == [vs EXCEPT ![1] = {<<>> : s \in vs[1]}]

Moved(r, from) ==
    /\ Alive' = Alive \cup {r} /\ r # from
    /\ variables' = [q \in Alive \cup {r} |-> IF q = r THEN variables[from]
                        ELSE IF q = from THEN Emptied(variables[from]) ELSE variables[q]]
    /\ bound' = [q \in Alive \cup {r} |-> IF q = r THEN bound[from]
                        ELSE IF q = from THEN NoReader ELSE bound[q]]

Destroyed(r) ==
    /\ Alive' = Alive \ {r}
    /\ variables' = [q \in Alive \ {r} |-> variables[q]]
    /\ bound' = [q \in Alive \ {r} |-> bound[q]]

\* What construction, copy, move and destruction do, as functions of the reader (the
\* implicit and default members of dynamic_reader.hpp:9-74).
LEMMA ConstructIs ==
    ASSUME Shape, NEW r \in Addresses, construct(r)
    PROVE  Constructed(r)
BY DEF Constructed, construct, With, Shape, Alive

\* copy()
LEMMA CopyIs ==
    ASSUME Shape, NEW r \in Addresses, NEW from \in Alive, copy(r, from)
    PROVE  Copied(r, from)
BY DEF Copied, copy, With, Shape, Alive

\* move(): the nested update is one of the reader moved from.
LEMMA MoveIs ==
    ASSUME Shape, NEW r \in Addresses, NEW from \in Alive, move(r, from)
    PROVE  Moved(r, from)
<1> DEFINE assigned == With(variables, r, variables[from])  emptied == Emptied(variables[from])
<1>1. r # from /\ assigned[from] = variables[from] /\ DOMAIN assigned = Alive \cup {r}
  BY DEF move, With, Alive
<1>2. variables' = [assigned EXCEPT ![from] = emptied]
  <2>1. variables' = [assigned EXCEPT ![from][1] = {<<>> : s \in variables[from][1]}]
    BY DEF move
  <2> QED BY <1>1, <2>1 DEF Emptied
<1>3. \A q \in Alive \cup {r} : assigned[q] = IF q = r THEN variables[from] ELSE variables[q]
  BY DEF With, Alive
<1>4. variables' = [q \in Alive \cup {r} |-> IF q = r THEN variables[from]
                                            ELSE IF q = from THEN emptied ELSE variables[q]]
  <2> HIDE DEF emptied, assigned
  <2> QED BY <1>1, <1>2, <1>3
<1>5. bound' = [q \in Alive \cup {r} |-> IF q = r THEN bound[from]
                                        ELSE IF q = from THEN NoReader ELSE bound[q]]
  <2>1. DOMAIN bound = Alive
    BY DEF Shape
  <2> QED BY <2>1 DEF move, With
<1>6. Alive' = Alive \cup {r}
  BY <1>4 DEF Alive
<1> QED BY <1>1, <1>4, <1>5, <1>6 DEF Moved

\* destroy()
LEMMA DestroyIs ==
    ASSUME Shape, NEW r \in Alive, destroy(r)
    PROVE  Destroyed(r)
BY DEF Destroyed, destroy, Alive

\* They change no reader that stays alive other than as a whole.
LEMMA LifeKeepsShape ==
    ASSUME Shape,
           \/ \E r \in Addresses : construct(r)
           \/ \E r \in Addresses, from \in Alive : copy(r, from) \/ move(r, from)
           \/ \E r \in Alive : destroy(r)
    PROVE  Shape' /\ \A r \in Alive \cap Alive' : Changes(r)
<1>1. ASSUME NEW r \in Addresses, construct(r)
      PROVE  Shape' /\ \A p \in Alive \cap Alive' : Changes(p)
  <2>1. Constructed(r)
    BY <1>1, ConstructIs
  <2> QED BY <2>1 DEF Constructed, Shape, Changes
<1>2. ASSUME NEW r \in Addresses, NEW from \in Alive, copy(r, from)
      PROVE  Shape' /\ \A p \in Alive \cap Alive' : Changes(p)
  <2>1. Copied(r, from)
    BY <1>2, CopyIs
  <2> QED BY <2>1 DEF Copied, Shape, Changes
<1>3. ASSUME NEW r \in Addresses, NEW from \in Alive, move(r, from)
      PROVE  Shape' /\ \A p \in Alive \cap Alive' : Changes(p)
  <2>1. Emptied(variables[from]) = [i \in Indices |-> Emptied(variables[from])[i]]
    BY DEF Shape, Emptied
  <2>2. Moved(r, from)
    BY <1>3, MoveIs
  <2>3. Shape'
    BY <2>1, <2>2 DEF Moved, Shape
  <2>4. Changes(from)
    BY <2>2 DEF Moved, Changes, Emptied
  <2>5. \A p \in Alive \cap Alive' : p # from => Changes(p)
    BY <2>2 DEF Moved, Changes
  <2> QED BY <2>3, <2>4, <2>5
<1>4. ASSUME NEW r \in Alive, destroy(r)
      PROVE  Shape' /\ \A p \in Alive \cap Alive' : Changes(p)
  <2>1. Destroyed(r)
    BY <1>4, DestroyIs
  <2> QED BY <2>1 DEF Destroyed, Shape, Changes
<1> QED BY <1>1, <1>2, <1>3, <1>4

\* read() (dynamic_reader.hpp:50-60, 73).
LEMMA ReadKeepsShape ==
    ASSUME Shape, NEW r \in Alive, NEW i \in Indices \cup {2}, NEW t \in Texts, read(r, i, t)
    PROVE  Shape' /\ \A p \in Alive \cap Alive' : Changes(p)
<1>1. CASE Result(r, i, t) # {} /\ bound[r] \in Alive
  <2> DEFINE to == bound[r]
             filled == [variables[to] EXCEPT ![i] = Result(r, i, t)]
  <2>1. i \in Indices
    BY <1>1 DEF Result
  <2>2. /\ Alive' = Alive /\ bound' = bound
        /\ variables' = [q \in Alive |-> IF q = to THEN filled ELSE variables[q]]
    BY <1>1 DEF read, Shape, Alive
  <2>3. filled = [j \in Indices |-> filled[j]]
    BY <1>1 DEF Shape
  <2>4. Changes(to)
    BY <1>1, <2>1, <2>2 DEF Changes
  <2>5. \A p \in Alive : p # to => Changes(p)
    BY <2>2 DEF Changes
  <2> QED BY <2>2, <2>3, <2>4, <2>5 DEF Shape
<1>2. CASE ~(Result(r, i, t) # {} /\ bound[r] \in Alive)
  BY <1>2 DEF read, Shape, Alive, Changes
<1> QED BY <1>1, <1>2

\* Every step keeps the shape and changes a reader in one of the three ways.
LEMMA NextShape == Shape /\ [Next]_rvars => Shape' /\ \A r \in Alive \cap Alive' : Changes(r)
<1> SUFFICES ASSUME Shape, [Next]_rvars
             PROVE  Shape' /\ \A r \in Alive \cap Alive' : Changes(r)
  OBVIOUS
<1>1. CASE UNCHANGED rvars
  BY <1>1 DEF rvars, Shape, Alive, Changes
<1>2. CASE Next
  BY <1>1, <1>2, LifeKeepsShape, ReadKeepsShape DEF Next
<1> QED BY <1>1, <1>2

\* The shape holds in every reachable state.
LEMMA ShapeHolds == Spec => []Shape
BY InitShape, NextShape, PTL DEF Spec

\* What no function refers to changes only as a whole, however readers are copied,
\* moved and destroyed (dynamic_reader.hpp:50-60, 73).
THEOREM UnboundIsFrozenSafe == Spec => UnboundIsFrozen
<1>1. ASSUME Shape, [Next]_rvars
      PROVE  \A r \in Alive \cap Alive' :
                (\A q \in Alive : bound[q] # r) =>
                    \/ variables'[r] \in {variables[q] : q \in Alive}
                    \/ bound'[r] = NoReader /\ variables'[r][0] = variables[r][0]
  <2> SUFFICES ASSUME NEW r \in Alive \cap Alive', \A q \in Alive : bound[q] # r
               PROVE  \/ variables'[r] \in {variables[q] : q \in Alive}
                      \/ bound'[r] = NoReader /\ variables'[r][0] = variables[r][0]
    OBVIOUS
  <2>1. Changes(r)
    BY <1>1, NextShape
  <2>2. variables[r] = [i \in Indices |-> variables[r][i]] /\ 0 \in Indices
    BY <1>1 DEF Shape, Indices
  <2> QED BY <2>1, <2>2 DEF Changes
<1> QED BY <1>1, ShapeHolds, PTL DEF Spec, UnboundIsFrozen

\* No read that fails takes a value away: a variable becomes empty only by an
\* assignment of its whole reader (dynamic_reader.hpp:56-59).
THEOREM FailedReadKeepsValueSafe == Spec => FailedReadKeepsValue
<1>1. ASSUME Shape, [Next]_rvars
      PROVE  \A r \in Alive \cap Alive', i \in Indices :
                variables[r][i] # {} /\ variables'[r][i] = {} =>
                    \E q \in Alive : variables'[r] = variables[q]
  <2> SUFFICES ASSUME NEW r \in Alive \cap Alive', NEW i \in Indices,
                      variables[r][i] # {}, variables'[r][i] = {}
               PROVE  \E q \in Alive : variables'[r] = variables[q]
    OBVIOUS
  <2>1. Changes(r)
    BY <1>1, NextShape
  <2>2. variables[r] = [j \in Indices |-> variables[r][j]]
    BY <1>1 DEF Shape
  <2>3. CASE variables'[r] = [variables[r] EXCEPT ![1] = {<<>> : s \in variables[r][1]}]
    <3>1. CASE i = 1
      <4>1. variables'[r][1] = {<<>> : s \in variables[r][1]}
        BY <2>2, <2>3, <3>1
      <4> QED BY <3>1, <4>1
    <3>2. CASE i # 1
      BY <2>2, <2>3, <3>2
    <3> QED BY <3>1, <3>2
  <2>4. ASSUME NEW q \in Alive, NEW j \in Indices, NEW t \in Texts, Result(q, j, t) # {},
               variables'[r] = [variables[r] EXCEPT ![j] = Result(q, j, t)]
        PROVE  FALSE
    BY <2>2, <2>4
  <2> QED BY <2>1, <2>3, <2>4 DEF Changes
<1> QED BY <1>1, ShapeHolds, PTL DEF Spec, FailedReadKeepsValue
----------------------------------------------------------------------------
(* What the readers hold                                                   *)

\* What an optional with index i can hold.
TypeOf(i) == IF i = 0 THEN IntMin..IntMax ELSE Seq(Chars)
Optionals(i) == {{}} \cup {{x} : x \in TypeOf(i)}

\* Each variable is an optional of its type.
Typed ==
    /\ Shape
    /\ \A r \in Alive : /\ r \in Addresses /\ bound[r] \in Addresses \cup {NoReader}
                        /\ \A i \in Indices : variables[r][i] \in Optionals(i)
    /\ undefined \in BOOLEAN

\* A set of positions that is not empty has a last one.
LEMMA LastPlace ==
    ASSUME NEW n \in Nat, NEW I \in SUBSET (1..n), I # {}
    PROVE  Max(I) \in I
<1> DEFINE T == {n - i : i \in I}
<1>1. T \in SUBSET Nat /\ T # {}
  <2>1. \A i \in I : n - i \in Nat
    OBVIOUS
  <2>2. PICK i \in I : TRUE
    OBVIOUS
  <2>3. n - i \in T
    OBVIOUS
  <2> QED BY <2>1, <2>3
<1>2. PICK m \in T : \A k \in T : ~(<<k, m>> \in OpToRel(<, Nat))
  BY <1>1, NatLessThanWellFounded, WFMin
<1>3. PICK i \in I : m = n - i
  OBVIOUS
<1>4. ASSUME NEW j \in I PROVE i >= j
  <2>1. n - j \in T /\ m \in Nat /\ n - j \in Nat
    BY <1>1
  <2>2. ~(n - j < m)
    BY <1>2, <2>1 DEF OpToRel
  <2> QED BY <1>3, <2>1, <2>2
<1> QED BY <1>3, <1>4 DEF Max

\* What the predefined readers return has the type of their variable
\* (literal_reader.hpp:43-88).
LEMMA ParseType ==
    ASSUME NEW i \in Indices, NEW t \in Texts
    PROVE  Parse(i, t) \in Optionals(i)
<1>1. t \in Seq(Chars)
  BY ReaderAssumption
<1>2. \A v : stored(v) \in IntMin..IntMax
  BY ReaderAssumption DEF stored
<1>3. CASE i = 0
  BY <1>2, <1>3 DEF Parse, read_arithmetic, Optionals, TypeOf
<1>4. CASE i = 1
  <2> DEFINE I == {k \in 1..Len(t) : t[k] = t[1]}
             last == SelectLastInSeq(t, LAMBDA c : c = t[1])
  <2>1. last = IF I # {} THEN Max(I) ELSE 0
    BY DEF SelectLastInSeq
  <2>2. Len(t) \in Nat
    BY <1>1
  <2>3. last \in 0..Len(t)
    <3>1. I \in SUBSET (1..Len(t))
      OBVIOUS
    <3>2. I # {} => Max(I) \in I
      <4> HIDE DEF I
      <4> QED BY <2>2, <3>1, LastPlace
    <3> HIDE DEF last
    <3> QED BY <2>1, <2>2, <3>1, <3>2
  <2>4. SubSeq(t, 2, last - 1) \in Seq(Chars)
    <3> HIDE DEF last
    <3> QED BY <1>1, <2>2, <2>3
  <2>5. Parse(i, t) = IF t = <<>> \/ t[1] \notin Quotes \/ last = 1 THEN {} ELSE {SubSeq(t, 2, last - 1)}
    BY <1>4 DEF Parse, read_string
  <2> DEFINE body == SubSeq(t, 2, last - 1)
  <2>6. Parse(i, t) = {} \/ Parse(i, t) = {body}
    BY <2>5
  <2>7. body \in TypeOf(i)
    <3>1. TypeOf(i) = Seq(Chars)
      BY <1>4 DEF TypeOf
    <3> QED BY <2>4, <3>1
  <2>8. {body} \in Optionals(i) /\ {} \in Optionals(i)
    <3> HIDE DEF body
    <3> QED BY <2>7 DEF Optionals
  <2> QED BY <2>6, <2>8
<1> QED BY <1>3, <1>4 DEF Indices

\* A string that was moved from is empty, and an optional stays one.
LEMMA EmptiedType ==
    ASSUME NEW S \in Optionals(1)
    PROVE  {<<>> : s \in S} \in Optionals(1)
<1>1. <<>> \in TypeOf(1)
  BY DEF TypeOf
<1>2. CASE S = {}
  <2>1. {<<>> : s \in S} = {}
    BY <1>2
  <2> QED BY <2>1 DEF Optionals
<1>3. CASE S # {}
  <2>1. {<<>> : s \in S} = {<<>>}
    BY <1>3
  <2> QED BY <1>1, <2>1 DEF Optionals
<1> QED BY <1>2, <1>3

\* Readers are at addresses, their functions refer to addresses, and a new reader is
\* empty or a copy.
LEMMA NewReaderType ==
    ASSUME Typed, [Next]_rvars, NEW r \in Alive'
    PROVE  /\ r \in Addresses /\ bound'[r] \in Addresses \cup {NoReader}
           /\ r \in Alive \/ variables'[r] = [i \in Indices |-> {}]
              \/ \E q \in Alive : variables'[r] = variables[q]
<1>0. Shape /\ \A q \in Alive : q \in Addresses /\ bound[q] \in Addresses \cup {NoReader}
  BY DEF Typed
<1>1. ASSUME NEW p \in Addresses, construct(p)
      PROVE  /\ r \in Addresses /\ bound'[r] \in Addresses \cup {NoReader}
             /\ r \in Alive \/ variables'[r] = [i \in Indices |-> {}]
  <2>1. Constructed(p)
    BY <1>0, <1>1, ConstructIs
  <2> QED BY <1>0, <2>1 DEF Constructed
<1>2. ASSUME NEW p \in Addresses, NEW from \in Alive, copy(p, from) \/ move(p, from)
      PROVE  /\ r \in Addresses /\ bound'[r] \in Addresses \cup {NoReader}
             /\ r \in Alive \/ \E q \in Alive : variables'[r] = variables[q]
  <2>1. Copied(p, from) \/ Moved(p, from)
    BY <1>0, <1>2, CopyIs, MoveIs
  <2> QED BY <1>0, <2>1 DEF Copied, Moved
<1>3. ASSUME NEW p \in Alive, destroy(p)
      PROVE  r \in Alive /\ bound'[r] = bound[r]
  BY <1>0, <1>3, DestroyIs DEF Destroyed
<1>4. CASE bound' = bound /\ Alive' = Alive
  BY <1>0, <1>4
<1>5. ASSUME NEW p, NEW i, NEW t, read(p, i, t)
      PROVE  bound' = bound /\ Alive' = Alive
  BY <1>5 DEF read, Alive
<1>6. UNCHANGED rvars => bound' = bound /\ Alive' = Alive
  BY DEF rvars, Alive
<1> QED BY <1>0, <1>1, <1>2, <1>3, <1>4, <1>5, <1>6 DEF Next

\* A call keeps the types: what a variable holds was assigned from another reader,
\* emptied by a move, or read.
LEMMA TypedStep == Typed /\ [Next]_rvars => Typed'
<1> SUFFICES ASSUME Typed, [Next]_rvars PROVE Typed'
  OBVIOUS
<1>1. Shape' /\ \A r \in Alive \cap Alive' : Changes(r)
  BY NextShape DEF Typed
<1>2. ASSUME NEW r \in Alive \cap Alive', NEW i \in Indices
      PROVE  variables'[r][i] \in Optionals(i)
  <2>1. CASE variables'[r] \in {variables[q] : q \in Alive}
    BY <2>1 DEF Typed
  <2>2. CASE variables'[r] = [variables[r] EXCEPT ![1] = {<<>> : s \in variables[r][1]}]
    <3>1. variables'[r][i] = IF i = 1 THEN {<<>> : s \in variables[r][1]} ELSE variables[r][i]
      BY <2>2 DEF Typed, Shape
    <3>2. variables[r][i] \in Optionals(i)
      BY DEF Typed
    <3> QED BY <3>1, <3>2, EmptiedType
  <2>3. ASSUME NEW q \in Alive, NEW j \in Indices, NEW t \in Texts, Result(q, j, t) # {},
               variables'[r] = [variables[r] EXCEPT ![j] = Result(q, j, t)]
        PROVE  variables'[r][i] \in Optionals(i)
    <3>1. variables'[r][i] = IF i = j THEN Result(q, j, t) ELSE variables[r][i]
      BY <2>3 DEF Typed, Shape
    <3>2. variables[r][i] \in Optionals(i)
      BY DEF Typed
    <3>3. Result(q, j, t) \in Optionals(j)
      BY <2>3, ParseType DEF Result
    <3> QED BY <3>1, <3>2, <3>3
  <2>4. Changes(r)
    BY <1>1
  <2> QED BY <2>1, <2>2, <2>3, <2>4 DEF Changes
<1>3. ASSUME NEW r \in Alive'
      PROVE  /\ r \in Addresses /\ bound'[r] \in Addresses \cup {NoReader}
             /\ r \in Alive \/ variables'[r] = [i \in Indices |-> {}]
                \/ \E q \in Alive : variables'[r] = variables[q]
  BY NewReaderType DEF Typed
<1>4. ASSUME NEW r \in Alive' \ Alive, NEW i \in Indices
      PROVE  variables'[r][i] \in Optionals(i)
  BY <1>3 DEF Typed, Optionals
<1>5. undefined' \in BOOLEAN
  BY DEF Typed, Next, construct, copy, move, destroy, read, rvars
<1> QED BY <1>1, <1>2, <1>3, <1>4, <1>5 DEF Typed

\* No reader is alive at first.
LEMMA TypedInit == Init => Typed
BY InitShape DEF Init, Typed, Alive

\* An optional holds one value of its type or none, whatever is read, copied and
\* moved, and functions refer to readers.
THEOREM ReaderTypeSafe == Spec => []ReaderTypeOK
<1>1. Typed => ReaderTypeOK
  <2> SUFFICES ASSUME Typed PROVE ReaderTypeOK
    OBVIOUS
  <2>1. ASSUME NEW r \in Alive, NEW i \in Indices
        PROVE  Cardinality(variables[r][i]) <= 1 /\ variables[r][i] \subseteq TypeOf(i)
    <3>1. variables[r][i] = {} \/ \E x \in TypeOf(i) : variables[r][i] = {x}
      BY DEF Typed, Optionals
    <3>2. Cardinality({}) = 0 /\ \A x : Cardinality({x}) = 1
      BY FS_EmptySet, FS_Singleton
    <3> QED BY <3>1, <3>2
  <2>2. \A r \in Alive : /\ variables[r][0] \subseteq IntMin..IntMax
                         /\ variables[r][1] \subseteq Seq(Chars)
    <3>1. 0 \in Indices /\ 1 \in Indices /\ TypeOf(0) = IntMin..IntMax /\ TypeOf(1) = Seq(Chars)
      BY DEF Indices, TypeOf
    <3> QED BY <2>1, <3>1
  <2>3. bound \in [Alive -> Addresses \cup {NoReader}]
    BY DEF Typed, Shape
  <2> QED BY <2>1, <2>2, <2>3 DEF ReaderTypeOK, Typed
<1> QED BY <1>1, TypedInit, TypedStep, PTL DEF Spec

----------------------------------------------------------------------------
(* What is read                                                            *)

\* A set of places has a last one, so Max returns it.
LEMMA MaxIs == ASSUME NEW S, NEW n \in S, \A m \in S : n >= m, S \subseteq Int PROVE Max(S) = n
<1>1. ASSUME NEW x \in S, \A m \in S : x >= m PROVE x = n
  <2>1. x >= n /\ n >= x /\ x \in Int /\ n \in Int
    BY <1>1
  <2> QED BY <2>1
<1> QED BY <1>1 DEF Max

\* Any text between quotes, whatever it is, is read back, as long as no other quote of
\* that kind follows.
THEOREM QuotedTextReadsBack ==
    ASSUME NEW q \in Quotes, NEW body \in Seq(Chars), NEW rest \in Seq(Chars),
           \A i \in 1..Len(rest) : rest[i] # q
    PROVE  read_string(<<q>> \o body \o <<q>> \o rest) = {body}
<1> DEFINE n == Len(body)
           t == <<q>> \o body \o <<q>> \o rest
           I == {i \in 1..Len(t) : t[i] = q}
<1>1. n \in Nat /\ Len(rest) \in Nat /\ q \in Chars
  BY DEF Chars
<1>2. <<q>> \o body \in Seq(Chars) /\ Len(<<q>> \o body) = n + 1 /\ <<q>> \in Seq(Chars)
  BY <1>1
<1>3. <<q>> \o body \o <<q>> \in Seq(Chars) /\ Len(<<q>> \o body \o <<q>>) = n + 2
  BY <1>1, <1>2
<1>4. t \in Seq(Chars) /\ Len(t) = n + 2 + Len(rest)
  BY <1>1, <1>3
<1>5. t[1] = q
  BY <1>1, <1>2, <1>3, <1>4
<1>6. t[n + 2] = q
  BY <1>1, <1>2, <1>3, <1>4
<1>7. \A i \in 1..n : t[i + 1] = body[i]
  BY <1>1, <1>2, <1>3, <1>4
<1>8. \A i \in (n + 3)..Len(t) : t[i] # q
  <2>1. \A i \in (n + 3)..Len(t) : t[i] = rest[i - (n + 2)] /\ i - (n + 2) \in 1..Len(rest)
    BY <1>1, <1>3, <1>4
  <2> QED BY <2>1
<1> HIDE DEF t, n
<1>9. Max(I) = n + 2 /\ I # {}
  <2>1. n + 2 \in I
    BY <1>1, <1>4, <1>6
  <2>2. \A m \in I : n + 2 >= m
    BY <1>1, <1>4, <1>8
  <2>3. I \subseteq Int
    BY <1>4
  <2> HIDE DEF I
  <2> QED BY <2>1, <2>2, <2>3, MaxIs
<1>10. SubSeq(t, 2, (n + 2) - 1) = body
  <2>1. (n + 2) - 1 = n + 1 /\ 2 \in 1..(Len(t) + 1) /\ n + 1 \in 1..Len(t)
    BY <1>1, <1>4
  <2>2. SubSeq(t, 2, n + 1) \in Seq(Chars) /\ Len(SubSeq(t, 2, n + 1)) = n
    BY <1>1, <1>4, <2>1, SubSeqProperties
  <2>3. \A i \in 1..n : SubSeq(t, 2, n + 1)[i] = t[i + 1]
    BY <1>1, <1>4, <2>1, SubSeqProperties
  <2>4. body \in Seq(Chars) /\ Len(body) = n
    BY DEF n
  <2>5. \A i \in 1..n : SubSeq(t, 2, n + 1)[i] = body[i]
    BY <1>7, <2>3
  <2>6. SubSeq(t, 2, n + 1) = body
    BY <2>2, <2>4, <2>5, SeqEqual
  <2> QED BY <2>1, <2>6
<1>11. {i \in 1..Len(t) : t[i] = t[1]} = I
  BY <1>5
<1>12. t # <<>> /\ n + 2 # 1
  BY <1>1, <1>4
<1>13. read_string(t) = {SubSeq(t, 2, (n + 2) - 1)}
  <2> HIDE DEF I
  <2>1. read_string(t) = LET last == IF I # {} THEN Max(I) ELSE 0
                         IN  IF t = <<>> \/ t[1] \notin Quotes \/ last = 1 THEN {} ELSE {SubSeq(t, 2, last - 1)}
    BY <1>11 DEF read_string, SelectLastInSeq
  <2> QED BY <1>5, <1>9, <1>12, <2>1
<1> QED BY <1>10, <1>13 DEF t

\* What TextsOf holds are sequences.
LEMMA TextIs == ASSUME NEW S, NEW n \in Nat, NEW s \in TextsOf(S, n) PROVE s \in Seq(S) /\ Len(s) <= n
BY DEF TextsOf

\* A quoted string reads as what is between the quotes.
THEOREM StringsRoundTripSafe == Spec => []StringsRoundTrip
<1>1. ASSUME NEW r \in Alive, bound[r] # NoReader, NEW q \in Quotes,
             NEW body \in TextsOf(Quotes \cup {"-", "1"}, 2), NEW rest \in {<<>>, <<"-">>}
      PROVE  Result(r, 1, <<q>> \o body \o <<q>> \o rest) = {body}
  <2>1. body \in Seq(Chars)
    <3>1. body \in Seq(Quotes \cup {"-", "1"})
      BY TextIs
    <3>2. Quotes \cup {"-", "1"} \subseteq Chars
      BY DEF Chars, Digits
    <3> QED BY <3>1, <3>2
  <2>2. rest \in Seq(Chars) /\ \A i \in 1..Len(rest) : rest[i] # q
    <3>1. q # "-" /\ "-" \in Chars
      BY DEF Chars, Quotes
    <3>2. CASE rest = <<>>
      BY <3>2
    <3>3. CASE rest = <<"-">>
      BY <3>1, <3>3
    <3> QED BY <3>2, <3>3
  <2>3. read_string(<<q>> \o body \o <<q>> \o rest) = {body}
    BY <2>1, <2>2, QuotedTextReadsBack
  <2> QED BY <1>1, <2>3 DEF Result, Parse, Indices
<1>2. StringsRoundTrip
  BY <1>1 DEF StringsRoundTrip
<1> QED BY <1>2, PTL

----------------------------------------------------------------------------
(* Numbers                                                                 *)

\* Whatever follows a number, if it does not begin with a digit, is not taken for a part of it.
LEMMA DigitsFromIs ==
    ASSUME NEW t \in Seq(Chars), NEW from \in Nat \ {0}, NEW n \in Nat, from + n <= Len(t) + 1,
           \A i \in from..(from + n - 1) : t[i] \in DOMAIN Digits,
           from + n <= Len(t) => t[from + n] \notin DOMAIN Digits
    PROVE  DigitsFrom(t, from) = n
<1> DEFINE ends == {k \in from..(Len(t) + 1) : \A i \in from..(k - 1) : t[i] \in DOMAIN Digits}
           last == CHOOSE k \in ends : \A m \in ends : m <= k
<1>1. Len(t) \in Nat /\ from + n \in ends /\ ends \subseteq Int
  OBVIOUS
<1>2. ASSUME NEW m \in ends PROVE m <= from + n
  <2> SUFFICES ASSUME m > from + n PROVE FALSE
    BY <1>1
  <2>1. from + n \in from..(m - 1) /\ from + n <= Len(t)
    BY <1>1
  <2> QED BY <2>1
<1>3. last = from + n
  <2> HIDE DEF ends
  <2>1. \A k \in ends : (\A m \in ends : m <= k) => k = from + n
    BY <1>1, <1>2
  <2> QED BY <1>1, <1>2, <2>1
<1>4. DigitsFrom(t, from) = last - from
  BY DEF DigitsFrom
<1> HIDE DEF last
<1> QED BY <1>3, <1>4

\* The fold that Decimal is.
HornerEntry(f, q, s) == IF s = {} THEN 0 ELSE 10 * f[s \ {Max(s)}] + Digits[q[Max(s)]]
Horner(q) == (CHOOSE f : f = [s \in SUBSET (DOMAIN q) |-> HornerEntry(f, q, s)])[DOMAIN q]

\* Decimal, as FoldLeft unfolds.
LEMMA DecimalIs ==
    ASSUME NEW t, NEW from, NEW n
    PROVE  Decimal(t, from, n) = Horner(SubSeq(t, from, from + n - 1))
BY DEF Decimal, FoldLeft, MapThenFoldSet, Horner, HornerEntry

\* Decimal of a whole text is its fold.
LEMMA DecimalOf == ASSUME NEW S, NEW s \in Seq(S) PROVE Decimal(s, 1, Len(s)) = Horner(s)
<1> DEFINE n == Len(s)
<1>1. n \in Nat /\ (1 + n) - 1 = n /\ SubSeq(s, 1, n) = s
  OBVIOUS
<1>2. Decimal(s, 1, n) = Horner(SubSeq(s, 1, (1 + n) - 1))
  BY DecimalIs
<1> HIDE DEF n
<1>3. Decimal(s, 1, n) = Horner(s)
  BY <1>1, <1>2
<1> QED BY <1>3 DEF n

\* The fold that Value is.
Weight(q, i) == Digits[q[i]] * 10 ^ (Len(q) - i)
Pick(s) == CHOOSE x \in s : TRUE
ValueEntry(f, q, s) == IF s = {} THEN 0 ELSE Weight(q, Pick(s)) + f[s \ {Pick(s)}]
Total(q) == (CHOOSE f : f = [s \in SUBSET (1..Len(q)) |-> ValueEntry(f, q, s)])[1..Len(q)]

\* Value, as MapThenSumSet unfolds.
LEMMA ValueIs == ASSUME NEW q PROVE Value(q) = Total(q)
BY DEF Value, MapThenSumSet, MapThenFoldSet, Total, ValueEntry, Weight, Pick

\* A digit is worth a number.
LEMMA DigitType == \A c \in DOMAIN Digits : Digits[c] \in Nat
BY DEF Digits

\* Two functions on the same set with the same values are the same.
LEMMA SameValues ==
    ASSUME NEW D, NEW f, NEW g, f = [x \in D |-> f[x]], g = [x \in D |-> g[x]],
           \A x \in D : f[x] = g[x]
    PROVE  f = g
OBVIOUS

\* The sets of places of two digits are different.
LEMMA PlacesDiffer == {1} # {2} /\ {1, 2} # {1} /\ {1, 2} # {2}
<1>1. 1 \notin {2} /\ 2 \notin {1} /\ 1 \in {1} /\ 1 \in {1, 2} /\ 2 \in {1, 2}
  OBVIOUS
<1>2. {1} # {2}
  BY <1>1
<1>3. {1, 2} # {1}
  BY <1>1
<1>4. {1, 2} # {2}
  BY <1>1
<1> QED BY <1>2, <1>3, <1>4

\* FoldLeft takes the last place out first.
LEMMA LastIs == Max({1}) = 1 /\ Max({1, 2}) = 2
<1> DEFINE one == {1}  two == {1, 2}
<1>1. 1 \in one /\ one \subseteq Int /\ \A m \in one : 1 >= m
  OBVIOUS
<1>2. 2 \in two /\ two \subseteq Int /\ \A m \in two : 2 >= m
  OBVIOUS
<1>3. Max(one) = 1 /\ Max(two) = 2
  <2> HIDE DEF one, two
  <2> QED BY <1>1, <1>2, MaxIs
<1> QED BY <1>3

\* The fold of one digit: a function with its equation exists, and any such function
\* gives the digit.
LEMMA HornerOfOne == ASSUME NEW q \in Seq(DOMAIN Digits), Len(q) = 1 PROVE Horner(q) = Digits[q[1]]
<1> DEFINE d == Digits[q[1]]
           P == SUBSET {1}
           g == [s \in P |-> IF s = {} THEN 0 ELSE d]
           e(f) == [s \in P |-> HornerEntry(f, q, s)]
           fold == CHOOSE f : f = e(f)
<1>1. DOMAIN q = {1} /\ d \in Nat
  <2>1. q[1] \in DOMAIN Digits
    OBVIOUS
  <2> QED BY <2>1, DigitType
<1>3. \A s \in P : s = {} \/ s = {1}
  OBVIOUS
<1>4. {} \in P /\ {1} \in P /\ {1} \ {1} = {} /\ {1} # {}
  OBVIOUS
<1>5. \A f : HornerEntry(f, q, {}) = 0 /\ HornerEntry(f, q, {1}) = 10 * f[{}] + d
  BY LastIs, <1>4 DEF HornerEntry
<1>6. g[{}] = 0 /\ g[{1}] = d
  BY <1>4
<1>7. g = e(g)
  <2>1. \A s \in P : g[s] = HornerEntry(g, q, s)
    <3> HIDE DEF g
    <3>1. HornerEntry(g, q, {}) = g[{}] /\ HornerEntry(g, q, {1}) = 10 * g[{}] + d
      BY <1>5, <1>6
    <3>2. 10 * g[{}] + d = g[{1}]
      BY <1>1, <1>6
    <3> HIDE DEF d, P
    <3> QED BY <1>3, <3>1, <3>2
  <2>2. \A s \in P : g[s] = e(g)[s]
    BY <2>1
  <2>3. g = [s \in P |-> g[s]] /\ e(g) = [s \in P |-> e(g)[s]]
    OBVIOUS
  <2> HIDE DEF g, e, P
  <2> QED BY <2>2, <2>3, SameValues
<1>8. fold = e(fold)
  <2> HIDE DEF e, g
  <2> QED BY <1>7
<1>9. fold[{1}] = 10 * fold[{}] + d /\ fold[{}] = 0
  <2>1. \A s \in P : e(fold)[s] = HornerEntry(fold, q, s)
    <3> HIDE DEF fold
    <3> QED OBVIOUS
  <2> HIDE DEF fold, e
  <2> QED BY <1>4, <1>5, <1>8, <2>1
<1>10. Horner(q) = fold[{1}]
  BY <1>1 DEF Horner
<1> HIDE DEF fold
<1> QED BY <1>1, <1>9, <1>10

\* The fold of two digits.
LEMMA HornerOfTwo ==
    ASSUME NEW q \in Seq(DOMAIN Digits), Len(q) = 2
    PROVE  Horner(q) = 10 * Digits[q[1]] + Digits[q[2]]
<1> DEFINE c == Digits[q[1]]
           d == Digits[q[2]]
           P == SUBSET {1, 2}
           g == [s \in P |-> IF s = {} THEN 0 ELSE IF s = {1} THEN c ELSE IF s = {2} THEN d ELSE 10 * c + d]
           e(f) == [s \in P |-> HornerEntry(f, q, s)]
           fold == CHOOSE f : f = e(f)
<1>1. DOMAIN q = {1, 2} /\ c \in Nat /\ d \in Nat
  <2>1. q[1] \in DOMAIN Digits /\ q[2] \in DOMAIN Digits
    OBVIOUS
  <2> QED BY <2>1, DigitType
<1>2. Max({2}) = 2
  <2> DEFINE S == {2}
  <2>1. 2 \in S /\ S \subseteq Int /\ \A m \in S : 2 >= m
    OBVIOUS
  <2>2. Max(S) = 2
    <3> HIDE DEF S
    <3> QED BY <2>1, MaxIs
  <2> QED BY <2>2
<1>3. \A s \in P : s = {} \/ s = {1} \/ s = {2} \/ s = {1, 2}
  OBVIOUS
<1>4. /\ {} \in P /\ {1} \in P /\ {2} \in P /\ {1, 2} \in P
      /\ {1} \ {1} = {} /\ {2} \ {2} = {} /\ {1, 2} \ {2} = {1}
      /\ {1} # {} /\ {2} # {} /\ {1, 2} # {} /\ {1} # {2} /\ {1, 2} # {1} /\ {1, 2} # {2}
  <2>1. {} \in P /\ {1} \in P /\ {2} \in P /\ {1, 2} \in P
    OBVIOUS
  <2>2. {1} \ {1} = {} /\ {2} \ {2} = {}
    OBVIOUS
  <2>3. {1, 2} \ {2} = {1}
    OBVIOUS
  <2>4. {1} # {} /\ {2} # {} /\ {1, 2} # {}
    OBVIOUS
  <2>5. {1} # {2} /\ {1, 2} # {1} /\ {1, 2} # {2}
    BY PlacesDiffer
  <2> HIDE DEF P
  <2> QED BY <2>1, <2>2, <2>3, <2>4, <2>5
<1>5. \A f : /\ HornerEntry(f, q, {}) = 0
             /\ HornerEntry(f, q, {1}) = 10 * f[{}] + c
             /\ HornerEntry(f, q, {2}) = 10 * f[{}] + d
             /\ HornerEntry(f, q, {1, 2}) = 10 * f[{1}] + d
  BY LastIs, <1>2, <1>4 DEF HornerEntry
<1>6. g[{}] = 0 /\ g[{1}] = c /\ g[{2}] = d /\ g[{1, 2}] = 10 * c + d
  BY <1>4
<1>7. g = e(g)
  <2>1. \A s \in P : g[s] = HornerEntry(g, q, s)
    <3> HIDE DEF g
    <3>1. /\ HornerEntry(g, q, {}) = g[{}] /\ HornerEntry(g, q, {1}) = 10 * g[{}] + c
          /\ HornerEntry(g, q, {2}) = 10 * g[{}] + d /\ HornerEntry(g, q, {1, 2}) = 10 * g[{1}] + d
      BY <1>5, <1>6
    <3>2. 10 * g[{}] + c = g[{1}] /\ 10 * g[{}] + d = g[{2}] /\ 10 * g[{1}] + d = g[{1, 2}]
      BY <1>1, <1>6
    <3> HIDE DEF c, d, P
    <3> QED BY <1>3, <3>1, <3>2
  <2>2. \A s \in P : g[s] = e(g)[s]
    BY <2>1
  <2>3. g = [s \in P |-> g[s]] /\ e(g) = [s \in P |-> e(g)[s]]
    OBVIOUS
  <2> HIDE DEF g, e, P
  <2> QED BY <2>2, <2>3, SameValues
<1>8. fold = e(fold)
  <2> HIDE DEF e, g
  <2> QED BY <1>7
<1>9. fold[{1, 2}] = 10 * fold[{1}] + d /\ fold[{1}] = 10 * fold[{}] + c /\ fold[{}] = 0
  <2>1. \A s \in P : e(fold)[s] = HornerEntry(fold, q, s)
    <3> HIDE DEF fold
    <3> QED OBVIOUS
  <2> HIDE DEF fold, e
  <2> QED BY <1>4, <1>5, <1>8, <2>1
<1>10. Horner(q) = fold[{1, 2}]
  BY <1>1 DEF Horner
<1>11. fold[{1}] = c
  <2> HIDE DEF fold
  <2> QED BY <1>1, <1>9
<1> HIDE DEF fold
<1> QED BY <1>1, <1>9, <1>10, <1>11

\* The weights of the digits of a number of one or two of them.
LEMMA Weights ==
    ASSUME NEW q \in Seq(DOMAIN Digits)
    PROVE  /\ Len(q) = 1 => Weight(q, 1) = Digits[q[1]]
           /\ Len(q) = 2 => Weight(q, 1) = 10 * Digits[q[1]] /\ Weight(q, 2) = Digits[q[2]]
<1>1. 10 ^ 0 = 1 /\ 10 ^ 1 = 10
  OBVIOUS
<1>2. \A i \in 1..Len(q) : Digits[q[i]] \in Nat
  <2>1. \A i \in 1..Len(q) : q[i] \in DOMAIN Digits
    OBVIOUS
  <2> QED BY <2>1, DigitType
<1>3. CASE Len(q) = 1
  <2>1. Len(q) - 1 = 0 /\ Digits[q[1]] \in Nat
    BY <1>2, <1>3
  <2>2. Weight(q, 1) = Digits[q[1]] * 1
    BY <1>1, <2>1 DEF Weight
  <2> QED BY <1>3, <2>1, <2>2
<1>4. CASE Len(q) = 2
  <2>1. Len(q) - 1 = 1 /\ Len(q) - 2 = 0 /\ Digits[q[1]] \in Nat /\ Digits[q[2]] \in Nat
    BY <1>2, <1>4
  <2>2. Weight(q, 1) = Digits[q[1]] * 10 /\ Weight(q, 2) = Digits[q[2]] * 1
    BY <1>1, <2>1 DEF Weight
  <2> QED BY <1>4, <2>1, <2>2
<1> QED BY <1>3, <1>4

\* The value of a digit.
LEMMA ValueOfOne == ASSUME NEW q \in Seq(DOMAIN Digits), Len(q) = 1 PROVE Value(q) = Digits[q[1]]
<1> DEFINE d == Digits[q[1]]
           P == SUBSET {1}
           g == [s \in P |-> IF s = {} THEN 0 ELSE d]
           e(f) == [s \in P |-> ValueEntry(f, q, s)]
           fold == CHOOSE f : f = e(f)
<1>1. 1..Len(q) = {1} /\ d \in Nat
  <2>1. q[1] \in DOMAIN Digits
    OBVIOUS
  <2> QED BY <2>1, DigitType
<1>2. Pick({1}) = 1
  BY DEF Pick
<1>3. \A s \in P : s = {} \/ s = {1}
  OBVIOUS
<1>4. {} \in P /\ {1} \in P /\ {1} \ {1} = {} /\ {1} # {}
  OBVIOUS
<1>5. \A f : ValueEntry(f, q, {}) = 0 /\ ValueEntry(f, q, {1}) = d + f[{}]
  BY <1>2, <1>4, Weights DEF ValueEntry
<1>6. g[{}] = 0 /\ g[{1}] = d
  BY <1>4
<1>7. g = e(g)
  <2>1. \A s \in P : g[s] = ValueEntry(g, q, s)
    <3> HIDE DEF g
    <3>1. ValueEntry(g, q, {}) = g[{}] /\ ValueEntry(g, q, {1}) = d + g[{}]
      BY <1>5, <1>6
    <3>2. d + g[{}] = g[{1}]
      BY <1>1, <1>6
    <3> HIDE DEF d, P
    <3> QED BY <1>3, <3>1, <3>2
  <2>2. \A s \in P : g[s] = e(g)[s]
    BY <2>1
  <2>3. g = [s \in P |-> g[s]] /\ e(g) = [s \in P |-> e(g)[s]]
    OBVIOUS
  <2> HIDE DEF g, e, P
  <2> QED BY <2>2, <2>3, SameValues
<1>8. fold = e(fold)
  <2> HIDE DEF e, g
  <2> QED BY <1>7
<1>9. fold[{1}] = d + fold[{}] /\ fold[{}] = 0
  <2>1. \A s \in P : e(fold)[s] = ValueEntry(fold, q, s)
    <3> HIDE DEF fold
    <3> QED OBVIOUS
  <2> HIDE DEF fold, e
  <2> QED BY <1>4, <1>5, <1>8, <2>1
<1>10. Value(q) = fold[{1}]
  BY <1>1, ValueIs DEF Total
<1> HIDE DEF fold
<1> QED BY <1>1, <1>9, <1>10

\* The value of two digits, whichever of them the sum begins with.
LEMMA ValueOfTwo ==
    ASSUME NEW q \in Seq(DOMAIN Digits), Len(q) = 2
    PROVE  Value(q) = 10 * Digits[q[1]] + Digits[q[2]]
<1> DEFINE c == 10 * Digits[q[1]]
           d == Digits[q[2]]
           P == SUBSET {1, 2}
           g == [s \in P |-> IF s = {} THEN 0 ELSE IF s = {1} THEN c ELSE IF s = {2} THEN d ELSE c + d]
           e(f) == [s \in P |-> ValueEntry(f, q, s)]
           fold == CHOOSE f : f = e(f)
           v(x) == IF x = 1 THEN c ELSE d
           p == Pick({1, 2})
           o == IF p = 1 THEN {2} ELSE {1}
<1>1. 1..Len(q) = {1, 2} /\ c \in Nat /\ d \in Nat
  <2>1. q[1] \in DOMAIN Digits /\ q[2] \in DOMAIN Digits
    OBVIOUS
  <2> QED BY <2>1, DigitType
<1>2. Pick({1}) = 1 /\ Pick({2}) = 2 /\ p \in {1, 2}
  BY DEF Pick
<1>3. \A s \in P : s = {} \/ s = {1} \/ s = {2} \/ s = {1, 2}
  OBVIOUS
<1>4. {} \in P /\ {1} \in P /\ {2} \in P /\ {1, 2} \in P
  OBVIOUS
<1>5. {1} # {} /\ {2} # {} /\ {1, 2} # {} /\ {1} # {2} /\ {1, 2} # {1} /\ {1, 2} # {2}
  <2>1. {1} # {} /\ {2} # {} /\ {1, 2} # {}
    OBVIOUS
  <2>2. {1} # {2} /\ {1, 2} # {1} /\ {1, 2} # {2}
    BY PlacesDiffer
  <2> QED BY <2>1, <2>2
<1>6. {1} \ {1} = {} /\ {2} \ {2} = {} /\ {1, 2} \ {p} = o
  <2>1. {1} \ {1} = {} /\ {2} \ {2} = {}
    OBVIOUS
  <2>2. {1, 2} \ {1} = {2} /\ {1, 2} \ {2} = {1}
    OBVIOUS
  <2> HIDE DEF p
  <2> QED BY <1>2, <2>1, <2>2
<1>7. Weight(q, 1) = c /\ Weight(q, 2) = d /\ Weight(q, p) = v(p)
  <2>1. Weight(q, 1) = c /\ Weight(q, 2) = d
    BY Weights
  <2> HIDE DEF c, d, p
  <2> QED BY <1>2, <2>1
<1>8. \A f : /\ ValueEntry(f, q, {}) = 0
             /\ ValueEntry(f, q, {1}) = c + f[{}]
             /\ ValueEntry(f, q, {2}) = d + f[{}]
             /\ ValueEntry(f, q, {1, 2}) = v(p) + f[o]
  <2> HIDE DEF c, d, v, o
  <2> QED BY <1>2, <1>5, <1>6, <1>7 DEF ValueEntry
<1>9. g[{}] = 0 /\ g[{1}] = c /\ g[{2}] = d /\ g[{1, 2}] = c + d
  <2> HIDE DEF c, d
  <2> QED BY <1>4, <1>5
<1>10. v(p) + g[o] = c + d
  <2> HIDE DEF g, c, d, p
  <2> QED BY <1>1, <1>2, <1>9
<1>11. g = e(g)
  <2>1. \A s \in P : g[s] = ValueEntry(g, q, s)
    <3> HIDE DEF g
    <3>1. /\ ValueEntry(g, q, {}) = g[{}] /\ ValueEntry(g, q, {1}) = c + g[{}]
          /\ ValueEntry(g, q, {2}) = d + g[{}] /\ ValueEntry(g, q, {1, 2}) = g[{1, 2}]
      <4> HIDE DEF c, d, v, p, o
      <4> QED BY <1>8, <1>9, <1>10
    <3>2. c + g[{}] = g[{1}] /\ d + g[{}] = g[{2}]
      <4> HIDE DEF c, d
      <4> QED BY <1>1, <1>9
    <3> HIDE DEF c, d, P
    <3> QED BY <1>3, <3>1, <3>2
  <2>2. \A s \in P : g[s] = e(g)[s]
    BY <2>1
  <2>3. g = [s \in P |-> g[s]] /\ e(g) = [s \in P |-> e(g)[s]]
    OBVIOUS
  <2> HIDE DEF g, e, P
  <2> QED BY <2>2, <2>3, SameValues
<1>12. fold = e(fold)
  <2> HIDE DEF e, g
  <2> QED BY <1>11
<1>13. /\ fold[{1, 2}] = v(p) + fold[o]
       /\ fold[{1}] = c + fold[{}] /\ fold[{2}] = d + fold[{}] /\ fold[{}] = 0
  <2>1. \A s \in P : e(fold)[s] = ValueEntry(fold, q, s)
    <3> HIDE DEF fold
    <3> QED OBVIOUS
  <2> HIDE DEF fold, e, c, d, v, p, o
  <2> QED BY <1>4, <1>8, <1>12, <2>1
<1>14. Value(q) = fold[{1, 2}]
  <2>1. \A f : e(f) = [s \in SUBSET (1..Len(q)) |-> ValueEntry(f, q, s)]
    BY <1>1
  <2> QED BY <1>1, ValueIs DEF Total
<1> HIDE DEF fold, c, d, p
<1>15. fold[{1}] = c /\ fold[{2}] = d
  BY <1>1, <1>13
<1>16. fold[{1, 2}] = c + d
  BY <1>1, <1>2, <1>13, <1>15
<1> QED BY <1>14, <1>16 DEF c, d

\* The digits of a number, whatever follows them, are read as the number they are without
\* it, if what follows does not begin with a digit.
THEOREM NumberReadsBack ==
    ASSUME NEW s \in Seq(DOMAIN Digits), s # <<>>, NEW rest \in Seq(Chars),
           rest = <<>> \/ rest[1] \notin DOMAIN Digits
    PROVE  /\ read_arithmetic(s \o rest) = {stored(Decimal(s, 1, Len(s)))}
           /\ read_arithmetic(<<"-">> \o s \o rest) = {stored(-Decimal(s, 1, Len(s)))}
<1> DEFINE n == Len(s)
           t == s \o rest
           u == <<"-">> \o s \o rest
<1>1. n \in Nat /\ n # 0 /\ Len(rest) \in Nat /\ s \in Seq(Chars) /\ "-" \in Chars /\ "-" \notin DOMAIN Digits
  <2>1. DOMAIN Digits \subseteq Chars /\ "-" \in Chars
    BY DEF Chars
  <2>2. "-" \notin DOMAIN Digits
    BY DEF Digits
  <2> QED BY <2>1, <2>2
<1>2. t \in Seq(Chars) /\ Len(t) = n + Len(rest)
  BY <1>1
<1>3. <<"-">> \in Seq(Chars) /\ <<"-">> \o s \in Seq(Chars) /\ Len(<<"-">> \o s) = n + 1
  BY <1>1
<1>4. u \in Seq(Chars) /\ Len(u) = n + 1 + Len(rest)
  BY <1>1, <1>3
<1>5. \A i \in 1..n : t[i] = s[i] /\ u[i + 1] = s[i] /\ s[i] \in DOMAIN Digits
  BY <1>1, <1>2, <1>3, <1>4
<1>6. n + 1 <= Len(t) => t[n + 1] \notin DOMAIN Digits
  <2> SUFFICES ASSUME n + 1 <= Len(t) PROVE t[n + 1] \notin DOMAIN Digits
    OBVIOUS
  <2>1. Len(rest) # 0 /\ rest # <<>>
    BY <1>1, <1>2
  <2>2. t[n + 1] = rest[1]
    BY <1>1, <1>2, <2>1
  <2> QED BY <2>1, <2>2
<1>7. n + 2 <= Len(u) => u[n + 2] \notin DOMAIN Digits
  <2> SUFFICES ASSUME n + 2 <= Len(u) PROVE u[n + 2] \notin DOMAIN Digits
    OBVIOUS
  <2>1. Len(rest) # 0 /\ rest # <<>>
    BY <1>1, <1>4
  <2>2. u[n + 2] = rest[1]
    BY <1>1, <1>3, <1>4, <2>1
  <2> QED BY <2>1, <2>2
<1>8. u[1] = "-" /\ t[1] # "-" /\ t # <<>> /\ u # <<>>
  BY <1>1, <1>2, <1>3, <1>4, <1>5
<1> HIDE DEF t, u, n
<1>9. DigitsFrom(t, 1) = n
  <2>1. \A i \in 1..(1 + n - 1) : t[i] \in DOMAIN Digits
    <3>1. 1 + n - 1 = n
      BY <1>1
    <3> QED BY <1>5, <3>1
  <2>2. 1 + n <= Len(t) + 1 /\ (1 + n <= Len(t) => t[1 + n] \notin DOMAIN Digits) /\ 1 \in Nat \ {0}
    <3>1. 1 + n = n + 1
      BY <1>1
    <3> QED BY <1>1, <1>2, <1>6, <3>1
  <2> QED BY <1>1, <1>2, <2>1, <2>2, DigitsFromIs
<1>10. DigitsFrom(u, 2) = n
  <2>1. \A i \in 2..(2 + n - 1) : u[i] \in DOMAIN Digits
    <3>1. \A i \in 2..(2 + n - 1) : i - 1 \in 1..n /\ (i - 1) + 1 = i
      BY <1>1
    <3>2. ASSUME NEW i \in 2..(2 + n - 1) PROVE u[i] \in DOMAIN Digits
      <4> DEFINE k == i - 1
      <4>1. k \in 1..n /\ k + 1 = i
        BY <3>1
      <4>2. u[k + 1] \in DOMAIN Digits
        <5> HIDE DEF k
        <5> QED BY <1>5, <4>1
      <4> QED BY <4>1, <4>2
    <3> QED BY <3>2
  <2>2. 2 + n <= Len(u) + 1 /\ (2 + n <= Len(u) => u[2 + n] \notin DOMAIN Digits) /\ 2 \in Nat \ {0}
    <3>1. 2 + n = n + 2
      BY <1>1
    <3> QED BY <1>1, <1>4, <1>7, <3>1
  <2> QED BY <1>1, <1>4, <2>1, <2>2, DigitsFromIs
<1>11. SubSeq(t, 1, (1 + n) - 1) = s
  <2>1. (1 + n) - 1 = n /\ 1 \in 1..(Len(t) + 1) /\ n \in 1..Len(t)
    BY <1>1, <1>2
  <2>2. SubSeq(t, 1, n) \in Seq(Chars) /\ Len(SubSeq(t, 1, n)) = n
    BY <1>1, <1>2, <2>1, SubSeqProperties
  <2>3. \A i \in 1..n : SubSeq(t, 1, n)[i] = s[i]
    BY <1>1, <1>2, <1>5, <2>1, SubSeqProperties
  <2>4. SubSeq(t, 1, n) = s
    BY <1>1, <2>2, <2>3, SeqEqual DEF n
  <2> QED BY <2>1, <2>4
<1>12. SubSeq(u, 2, (2 + n) - 1) = s
  <2>1. (2 + n) - 1 = n + 1 /\ 2 \in 1..(Len(u) + 1) /\ n + 1 \in 1..Len(u)
    BY <1>1, <1>4
  <2>2. SubSeq(u, 2, n + 1) \in Seq(Chars) /\ Len(SubSeq(u, 2, n + 1)) = n
    BY <1>1, <1>4, <2>1, SubSeqProperties
  <2>3. \A i \in 1..n : SubSeq(u, 2, n + 1)[i] = u[i + 1]
    BY <1>1, <1>4, <2>1, SubSeqProperties
  <2>4. SubSeq(u, 2, n + 1) = s
    BY <1>1, <1>5, <2>2, <2>3, SeqEqual DEF n
  <2> QED BY <2>1, <2>4
<1>13. Decimal(t, 1, n) = Decimal(s, 1, n) /\ Decimal(u, 2, n) = Decimal(s, 1, n)
  <2>1. Decimal(t, 1, n) = Horner(s)
    <3>1. Decimal(t, 1, n) = Horner(SubSeq(t, 1, (1 + n) - 1))
      BY <1>1, DecimalIs
    <3> QED BY <1>11, <3>1
  <2>2. Decimal(u, 2, n) = Horner(s)
    <3>1. Decimal(u, 2, n) = Horner(SubSeq(u, 2, (2 + n) - 1))
      BY <1>1, DecimalIs
    <3> QED BY <1>12, <3>1
  <2>3. Decimal(s, 1, n) = Horner(s)
    BY DecimalOf DEF n
  <2> QED BY <2>1, <2>2, <2>3
<1>14. read_arithmetic(t) = {stored(Decimal(s, 1, n))}
  BY <1>1, <1>8, <1>9, <1>13 DEF read_arithmetic
<1>15. read_arithmetic(u) = {stored(-Decimal(s, 1, n))}
  BY <1>1, <1>8, <1>10, <1>13 DEF read_arithmetic
<1> QED BY <1>14, <1>15 DEF t, u, n

\* Reading what NumbersRoundTrip writes gives its value back, in the range.
LEMMA NumbersRead ==
    ASSUME NEW s \in TextsOf(DOMAIN Digits, 2) \ {<<>>}
    PROVE  s \in Seq(DOMAIN Digits) /\ Value(s) \in Nat /\ Decimal(s, 1, Len(s)) = Value(s)
<1>1. s \in Seq(DOMAIN Digits) /\ Len(s) <= 2 /\ Len(s) # 0 /\ Len(s) \in Nat
  BY TextIs
<1>2. Len(s) = 1 \/ Len(s) = 2
  <2> DEFINE n == Len(s)
  <2>1. n <= 2 /\ n # 0 /\ n \in Nat
    BY <1>1
  <2> HIDE DEF n
  <2>2. n = 1 \/ n = 2
    BY <2>1
  <2> QED BY <2>2 DEF n
<1>3. CASE Len(s) = 1
  <2>1. s[1] \in DOMAIN Digits
    BY <1>1, <1>3
  <2>2. Digits[s[1]] \in Nat
    BY <2>1, DigitType
  <2> QED BY <1>1, <1>3, <2>2, HornerOfOne, ValueOfOne, DecimalOf
<1>4. CASE Len(s) = 2
  <2>1. \A i \in 1..Len(s) : s[i] \in DOMAIN Digits
    BY <1>1
  <2>2. 1 \in 1..Len(s) /\ 2 \in 1..Len(s)
    BY <1>4
  <2>3. Digits[s[1]] \in Nat /\ Digits[s[2]] \in Nat
    BY <2>1, <2>2, DigitType
  <2>4. Horner(s) = 10 * Digits[s[1]] + Digits[s[2]]
    BY <1>1, <1>4, HornerOfTwo
  <2>5. Value(s) = 10 * Digits[s[1]] + Digits[s[2]]
    BY <1>1, <1>4, ValueOfTwo
  <2>6. Decimal(s, 1, Len(s)) = Horner(s)
    BY <1>1, DecimalOf
  <2>7. 10 * Digits[s[1]] + Digits[s[2]] \in Nat
    BY <2>3
  <2> QED BY <1>1, <2>4, <2>5, <2>6, <2>7
<1> QED BY <1>2, <1>3, <1>4

\* A number reads as its value if it is in the range, and as 0 if it is not.
THEOREM NumbersRoundTripSafe == Spec => []NumbersRoundTrip
<1>1. ASSUME NEW r \in Alive, bound[r] # NoReader,
             NEW s \in TextsOf(DOMAIN Digits, 2) \ {<<>>}, NEW rest \in {<<>>, <<"-">>}
      PROVE  /\ Result(r, 0, s \o rest) = {IF Value(s) <= IntMax THEN Value(s) ELSE 0}
             /\ Result(r, 0, <<"-">> \o s \o rest) = {IF -Value(s) >= IntMin THEN -Value(s) ELSE 0}
  <2>1. s \in Seq(DOMAIN Digits) /\ s # <<>> /\ Value(s) \in Nat /\ Decimal(s, 1, Len(s)) = Value(s)
    BY NumbersRead
  <2>2. rest \in Seq(Chars) /\ (rest = <<>> \/ rest[1] \notin DOMAIN Digits)
    <3>1. "-" \in Chars /\ "-" \notin DOMAIN Digits
      BY DEF Chars, Digits
    <3>2. CASE rest = <<>>
      BY <3>2
    <3>3. CASE rest = <<"-">>
      BY <3>1, <3>3
    <3> QED BY <3>2, <3>3
  <2>3. /\ read_arithmetic(s \o rest) = {stored(Value(s))}
        /\ read_arithmetic(<<"-">> \o s \o rest) = {stored(-Value(s))}
    BY <2>1, <2>2, NumberReadsBack
  <2>4. stored(Value(s)) = IF Value(s) <= IntMax THEN Value(s) ELSE 0
    BY <2>1, ReaderAssumption DEF stored
  <2>5. stored(-Value(s)) = IF -Value(s) >= IntMin THEN -Value(s) ELSE 0
    BY <2>1, ReaderAssumption DEF stored
  <2>6. \A t : Result(r, 0, t) = read_arithmetic(t)
    BY <1>1 DEF Result, Parse, Indices
  <2> QED BY <2>3, <2>4, <2>5, <2>6
<1>2. NumbersRoundTrip
  BY <1>1 DEF NumbersRoundTrip
<1> QED BY <1>2, PTL
=============================================================================
