--------------------------- MODULE DynamicReader ---------------------------
(***************************************************************************)
(* lzhlib::reader::dynamic_reader (include/lzhlib/reader/                  *)
(* dynamic_reader.hpp) over a literal_reader of a signed integer, at index *)
(* 0, and a std::string, at index 1.  read(index, str) calls a stored      *)
(* function that parses str and puts the result into a variable of the     *)
(* reader the function refers to: the reader it was created in.  The       *)
(* class defines no copy or move, so the functions are copied and moved    *)
(* with the reference they hold.                                           *)
(*                                                                         *)
(* A reader is named by its address, and an address can be used again.     *)
(* Texts are sequences of characters; for the characters that are not in   *)
(* Chars stand a quote where a number is read, and '-' where a string is.  *)
(* A read that throws is a step that changes nothing.                      *)
(***************************************************************************)
EXTENDS Integers, SequencesExt

CONSTANTS
    Addresses,      \* where readers can be
    NoReader,       \* what a function that was moved from refers to
    Texts,          \* the texts clients read
    IntMin, IntMax  \* the range of the integer type

Digits == [c \in {"0", "1", "2", "3", "4", "5", "6", "7", "8", "9"} |->
              CASE c = "0" -> 0 [] c = "1" -> 1 [] c = "2" -> 2 [] c = "3" -> 3 [] c = "4" -> 4
                [] c = "5" -> 5 [] c = "6" -> 6 [] c = "7" -> 7 [] c = "8" -> 8 [] c = "9" -> 9]
Quotes == {"'", "\""}
Chars == DOMAIN Digits \cup Quotes \cup {"-"}

ASSUME ReaderAssumption ==
    /\ NoReader \notin Addresses
    /\ Texts \subseteq Seq(Chars)
    /\ IntMin \in Int /\ IntMax \in Nat /\ IntMin <= 0

VARIABLES
    variables,  \* per reader alive: the optional of each index, as a set of at most one
    bound,      \* per reader alive: the reader its functions refer to
    undefined   \* a function was called whose reader is gone

rvars == <<variables, bound, undefined>>

Alive == DOMAIN variables
Indices == {0, 1}

----------------------------------------------------------------------------
(* predefined_reader                                                       *)

\* The number of leading digits of t from position from on.
DigitsFrom(t, from) ==
    LET ends == {n \in from..(Len(t) + 1) : \A i \in from..(n - 1) : t[i] \in DOMAIN Digits}
    IN  (CHOOSE n \in ends : \A m \in ends : m <= n) - from

\* The value of the digits of t from position from on.
Decimal(t, from, n) == FoldLeft(LAMBDA v, c : 10 * v + Digits[c], 0, SubSeq(t, from, from + n - 1))

stored_unchecked(v) == v

\* What result holds after std::from_chars() found the integer v: one out of range
\* leaves the 0 that result was initialized with.
stored(v) == IF v \in IntMin..IntMax THEN v ELSE 0

\* A '-' is part of the integer, and what follows it is ignored.  {}: throws.
read_arithmetic(t) ==
    LET first == IF t # <<>> /\ t[1] = "-" THEN 2 ELSE 1
        n == DigitsFrom(t, first)
        v == Decimal(t, first, n)
    IN  IF n = 0 THEN {} ELSE {stored(IF first = 2 THEN -v ELSE v)}

read_string_to_next(t) ==
    LET next == SelectInSubSeq(t, 2, Len(t), LAMBDA c : c = t[1])
    IN  IF t = <<>> \/ t[1] \notin Quotes \/ next = 0 THEN {} ELSE {SubSeq(t, 2, next - 1)}

\* What lies between the first character, a quote, and the last quote of its kind.
\* The first character of an empty text is beyond it, and whatever it is, no quote
\* is found.
read_string(t) ==
    LET last == SelectLastInSeq(t, LAMBDA c : c = t[1])
    IN  IF t = <<>> \/ t[1] \notin Quotes \/ last = 1 THEN {} ELSE {SubSeq(t, 2, last - 1)}

Parse(i, t) == IF i = 0 THEN read_arithmetic(t) ELSE read_string(t)

----------------------------------------------------------------------------
(* Clients                                                                 *)

Init ==
    /\ variables = [r \in {} |-> {}]
    /\ bound = [r \in {} |-> NoReader]
    /\ undefined = FALSE

With(f, r, x) == [q \in DOMAIN f \cup {r} |-> IF q = r THEN x ELSE f[q]]

\* The functions of a new reader refer to the reader.
construct(r) ==
    /\ r \in Addresses \ Alive
    /\ variables' = With(variables, r, [i \in Indices |-> {}])
    /\ bound' = With(bound, r, r)
    /\ UNCHANGED undefined

\* The implicit copy constructor and, of a reader alive, copy assignment.
copy(r, from) ==
    /\ variables' = With(variables, r, variables[from])
    /\ bound' = With(bound, r, bound[from])
    /\ UNCHANGED undefined

\* The implicit move constructor and assignment: they empty the string and the
\* functions they move from.
move(r, from) ==
    /\ r # from
    /\ variables' = [With(variables, r, variables[from]) EXCEPT
                        ![from][1] = {<<>> : s \in variables[from][1]}]
    /\ bound' = [With(bound, r, bound[from]) EXCEPT ![from] = NoReader]
    /\ UNCHANGED undefined

destroy(r) ==
    /\ variables' = [q \in Alive \ {r} |-> variables[q]]
    /\ bound' = [q \in Alive \ {r} |-> bound[q]]
    /\ UNCHANGED undefined

\* What a read through r yields: {} when it throws std::out_of_range, the
\* std::bad_function_call of an emptied function, or what the parser throws.
Result(r, i, t) == IF i \in Indices /\ bound[r] # NoReader THEN Parse(i, t) ELSE {}

read_into_itself(r, i, t) ==
    /\ variables' = IF Result(r, i, t) = {} THEN variables
                    ELSE [variables EXCEPT ![r][i] = Result(r, i, t)]
    /\ UNCHANGED <<bound, undefined>>

read_resets(r, i, t) ==
    LET to == bound[r]
    IN  /\ undefined' = (i \in Indices /\ to \notin Alive \cup {NoReader})
        /\ variables' = IF i \in Indices /\ to \in Alive THEN [variables EXCEPT ![to][i] = Parse(i, t)]
                        ELSE variables
        /\ UNCHANGED bound

\* read(index, str): the result replaces a value of the reader the function refers to.
read(r, i, t) ==
    LET to == bound[r]
    IN  /\ undefined' = (i \in Indices /\ to \notin Alive \cup {NoReader})
        /\ variables' = IF Result(r, i, t) # {} /\ to \in Alive
                        THEN [variables EXCEPT ![to][i] = Result(r, i, t)] ELSE variables
        /\ UNCHANGED bound

Next ==
    \/ /\ ~undefined
       /\ \/ \E r \in Addresses : construct(r)
          \/ \E r \in Addresses, from \in Alive : copy(r, from) \/ move(r, from)
          \/ \E r \in Alive : destroy(r) \/ \E i \in Indices \cup {2}, t \in Texts : read(r, i, t)
    \/ undefined /\ UNCHANGED rvars

Spec == Init /\ [][Next]_rvars

----------------------------------------------------------------------------
(* Properties                                                              *)

ReaderTypeOK ==
    /\ \A r \in Alive :
          /\ \A i \in Indices : Cardinality(variables[r][i]) <= 1
          /\ variables[r][0] \subseteq IntMin..IntMax /\ variables[r][1] \subseteq Seq(Chars)
    /\ bound \in [Alive -> Addresses \cup {NoReader}]
    /\ undefined \in BOOLEAN

\* Texts of up to n characters of S.
TextsOf(S, n) == UNION {[1..k -> S] : k \in 0..n}

\* A quoted string reads as what is between the quotes, also when it contains
\* quotes, and what follows is ignored (literal_reader.hpp:63-78).
StringsRoundTrip ==
    \A r \in {p \in Alive : bound[p] # NoReader} :
        \A q \in Quotes, body \in TextsOf(Quotes \cup {"-", "1"}, 2), rest \in {<<>>, <<"-">>} :
            Result(r, 1, <<q>> \o body \o <<q>> \o rest) = {body}

\* The sum of the digits of s, each times its power of ten.
Value(s) == MapThenSumSet(LAMBDA i : Digits[s[i]] * 10 ^ (Len(s) - i), 1..Len(s))

\* An integer of one or two digits reads as its value if it is in the range, up to the
\* last one on both sides, and as 0 without an exception if it is not; what follows is
\* ignored (literal_reader.hpp:50-58).
NumbersRoundTrip ==
    \A r \in {p \in Alive : bound[p] # NoReader} :
        \A s \in TextsOf(DOMAIN Digits, 2) \ {<<>>}, rest \in {<<>>, <<"-">>} :
            /\ Result(r, 0, s \o rest) = {IF Value(s) <= IntMax THEN Value(s) ELSE 0}
            /\ Result(r, 0, <<"-">> \o s \o rest) = {IF -Value(s) >= IntMin THEN -Value(s) ELSE 0}

\* What no function refers to changes only as a whole, when it is assigned to or
\* moved from: a copy never receives what is read through it
\* (dynamic_reader.hpp:50-60, 73).
UnboundIsFrozen ==
    [][\A r \in Alive \cap Alive' :
           (\A q \in Alive : bound[q] # r) =>
               \/ variables'[r] \in {variables[q] : q \in Alive}
               \/ bound'[r] = NoReader /\ variables'[r][0] = variables[r][0]]_rvars

\* A read that fails, whatever is read and through whichever reader, takes away no
\* value that was read before (dynamic_reader.hpp:56-59).
FailedReadKeepsValue ==
    [][\A r \in Alive \cap Alive', i \in Indices :
           variables[r][i] # {} /\ variables'[r][i] = {} =>
               \E q \in Alive : variables'[r] = variables[q]]_rvars
=============================================================================
