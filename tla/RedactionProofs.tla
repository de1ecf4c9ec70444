-------------------------- MODULE RedactionProofs --------------------------
(***************************************************************************)
(* The restorer does not show how an answer was cut: for any texts and any *)
(* answer of the detector, and for any alphabet and length of the          *)
(* upstream's answer.  What is shown of the restorer itself (PushKeeps,    *)
(* FlushEnds) is for any mapping and any text.                             *)
(*                                                                         *)
(* The argument is about the scan of replaceFrom (one Replace for each     *)
(* position):                                                              *)
(*   Split     where a scan stands outside every token, the whole is what  *)
(*             it has made and what a scan from there gives;               *)
(*   Parting   the scan of a text that more input follows ends where the   *)
(*             scan of the longer text has not decided anything yet;       *)
(*   Emitted   so what a run emits stands at the front of what any longer  *)
(*             text gives: all that could still become a placeholder of    *)
(*             the mapping is held back;                                   *)
(*   Slide     what a scan gives depends on no more than two units before  *)
(*             its start, so the context of a restorer is long enough;     *)
(*   PushKeeps and FlushEnds put these together for a restorer.            *)
(* RedactionInv says of every open field that its restorer, with what the  *)
(* client has got, gives for EVERY continuation what restoring all of it   *)
(* at once gives.                                                          *)
(***************************************************************************)
EXTENDS RedactedRequest, Lists, TLAPS

-----------------------------------------------------------------------------
(* Units, cores and tokens.                                                 *)

\* What the units are to each other.
LEMMA Units ==
    /\ \A c : IsDigit(c) => IsWord(c) /\ c \notin Classes /\ c \notin {"[", "]", "\\", "o", "c"}
    /\ \A c \in Classes : IsWord(c) /\ c \notin {"[", "]", "\\", "o", "c"}
    /\ ~IsWord("[") /\ ~IsWord("]") /\ ~IsWord("\\") /\ IsWord("o")
<1>1. Len(Digits) = 6 /\ DOMAIN Digits = 1..6
  BY DEF Digits
<1>2. Range(Digits) = {"1", "2", "3", "4", "5", "6"}
  <2>1. \A i \in 1..6 : i = 1 \/ i = 2 \/ i = 3 \/ i = 4 \/ i = 5 \/ i = 6
    OBVIOUS
  <2>2. /\ Digits[1] = "1" /\ Digits[2] = "2" /\ Digits[3] = "3"
        /\ Digits[4] = "4" /\ Digits[5] = "5" /\ Digits[6] = "6"
    BY DEF Digits
  <2> QED
    BY <1>1, <2>1, <2>2 DEF Range
<1>3. \A c : IsDigit(c) <=> c \in {"1", "2", "3", "4", "5", "6"}
  BY <1>2 DEF IsDigit
<1> QED
  BY <1>3 DEF IsWord, Classes

\* A core from i to j: a class, digits up to j, and no word goes on there.
IsCore(t, i, j) ==
    /\ i \in 1..Len(t) /\ j \in (i + 1)..Len(t) /\ t[i] \in Classes
    /\ \A k \in (i + 1)..j : IsDigit(t[k])
    /\ j < Len(t) => ~IsWord(t[j + 1])

\* A set of numbers that is not empty and has a bound has a greatest one.
LEMMA GreatestNumber ==
    ASSUME NEW n \in Nat, NEW S \in SUBSET (1..n), S # {}
    PROVE  Greatest(S) \in S /\ \A j \in S : j <= Greatest(S)
<1> DEFINE R == {n - j : j \in S}
<1>1. R \in SUBSET Nat /\ R # {}
  <2>1. \A j \in S : n - j \in Nat
    OBVIOUS
  <2>2. PICK j \in S : TRUE
    OBVIOUS
  <2>3. n - j \in R
    OBVIOUS
  <2> QED
    BY <2>1, <2>3
<1>2. PICK m \in R : \A k \in R : m <= k
  <2> HIDE DEF R
  <2> QED
    BY <1>1, LeastNumber
<1>3. PICK i \in S : m = n - i
  BY <1>2
<1>4. \A j \in S : j <= i
  <2> TAKE j \in S
  <2>1. n - j \in R /\ j \in 1..n /\ i \in 1..n
    OBVIOUS
  <2> QED
    BY <1>2, <1>3, <2>1
<1>5. \A j \in S : i >= j
  BY <1>4
<1>6. Greatest(S) \in S /\ \A j \in S : Greatest(S) >= j
  BY <1>5 DEF Greatest
<1> QED
  BY <1>6

\* CoreEnd finds the end of a core, and nothing else.
LEMMA CoreEndIs ==
    ASSUME NEW W, NEW t \in Seq(W), NEW i \in Nat \ {0}
    PROVE  /\ \A j : IsCore(t, i, j) => CoreEnd(t, i) = j /\ j # 0
           /\ CoreEnd(t, i) # 0 => IsCore(t, i, CoreEnd(t, i))
<1> DEFINE run == {j \in (i + 1)..Len(t) : \A k \in (i + 1)..j : IsDigit(t[k])}
           g == Greatest(run)
<1>1. Len(t) \in Nat /\ run \in SUBSET (1..Len(t))
  OBVIOUS
<1>2. CoreEnd(t, i) = IF i <= Len(t) /\ t[i] \in Classes /\ run # {} /\ (g < Len(t) => ~IsWord(t[g + 1]))
                      THEN g ELSE 0
  BY DEF CoreEnd
<1>3. run # {} => g \in run /\ \A j \in run : j <= g
  <2> HIDE DEF run
  <2> QED
    BY <1>1, GreatestNumber
<1>4. ASSUME NEW j, IsCore(t, i, j) PROVE CoreEnd(t, i) = j /\ j # 0
  <2>1. j \in run /\ j \in Nat /\ j # 0
    BY <1>1, <1>4 DEF IsCore
  <2>2. g \in run /\ j <= g
    BY <1>3, <2>1
  <2>3. ~ j < g
    <3> SUFFICES ASSUME j < g PROVE FALSE
      OBVIOUS
    <3>1. j + 1 \in (i + 1)..g /\ j < Len(t)
      BY <1>1, <2>1, <2>2, <1>4 DEF IsCore
    <3>2. IsDigit(t[j + 1])
      BY <2>2, <3>1
    <3> QED
      BY <1>4, <3>1, <3>2, Units DEF IsCore
  <2>4. g = j
    BY <2>1, <2>2, <2>3, <1>1
  <2> QED
    BY <1>2, <1>4, <2>1, <2>4 DEF IsCore
<1>5. ASSUME CoreEnd(t, i) # 0 PROVE IsCore(t, i, CoreEnd(t, i))
  <2>1. i <= Len(t) /\ t[i] \in Classes /\ run # {} /\ (g < Len(t) => ~IsWord(t[g + 1])) /\ CoreEnd(t, i) = g
    BY <1>2, <1>5
  <2>2. g \in run
    BY <1>3, <2>1
  <2>3. g \in (i + 1)..Len(t) /\ \A k \in (i + 1)..g : IsDigit(t[k])
    BY <2>2
  <2> HIDE DEF g, run
  <2> QED
    BY <1>1, <2>1, <2>3 DEF IsCore
<1> QED
  BY <1>4, <1>5

\* The delimiters: one unit, or two in JSON.
OpenAt(t, i, json, w) ==
    \/ w = 1 /\ i <= Len(t) /\ t[i] = "["
    \/ w = 2 /\ json /\ i + 1 <= Len(t) /\ t[i] = "\\" /\ t[i + 1] = "o"

\* The closing delimiter, the same way.
CloseAt(t, i, json, w) ==
    \/ w = 1 /\ i <= Len(t) /\ t[i] = "]"
    \/ w = 2 /\ json /\ i + 1 <= Len(t) /\ t[i] = "\\" /\ t[i + 1] = "c"

\* How many units close at i, 0 for none.
CloseWidth(t, i, json) == IF CloseAt(t, i, json, 1) THEN 1 ELSE IF CloseAt(t, i, json, 2) THEN 2 ELSE 0

\* A token of a text: it starts at i, its core is from `at` to j.
Starts(t, i, json, at) ==
    \/ \E w \in {1, 2} : OpenAt(t, i, json, w) /\ at = i + w
    \/ at = i /\ WordStarts(t, i, json)

\* A token from i whose core is from at to j.
HasToken(t, i, json, at, j) == Starts(t, i, json, at) /\ IsCore(t, at, j)

\* What TokenAt returns for it.
Token(t, at, j, json) ==
    [core |-> SubSeq(t, at, j), closed |-> CloseWidth(t, j + 1, json) # 0,
     end |-> j + CloseWidth(t, j + 1, json)]

\* What StartsAt says of one unit and of two.
LEMMA StartsAtIs ==
    ASSUME NEW W, NEW t \in Seq(W), NEW i \in Nat \ {0}, NEW x, NEW y
    PROVE  /\ StartsAt(t, i, <<x>>) <=> i <= Len(t) /\ t[i] = x
           /\ StartsAt(t, i, <<x, y>>) <=> i + 1 <= Len(t) /\ t[i] = x /\ t[i + 1] = y
<1> DEFINE V == W \cup {x, y}
<1>1. t \in Seq(V) /\ <<x>> \in Seq(V) /\ <<x, y>> \in Seq(V)
  OBVIOUS
<1>2. Len(<<x>>) = 1 /\ Len(<<x, y>>) = 2 /\ Len(t) \in Nat
  OBVIOUS
<1>3. ASSUME i <= Len(t)
      PROVE  SubSeq(t, i, i) = <<x>> <=> t[i] = x
  <2>1. SubSeq(t, i, i) \in Seq(V) /\ Len(SubSeq(t, i, i)) = 1 /\ SubSeq(t, i, i)[1] = t[i]
    BY <1>1, <1>2, <1>3
  <2>2. <<x>>[1] = x
    OBVIOUS
  <2>3. PICK u \in Seq(V) : u = SubSeq(t, i, i)
    BY <2>1
  <2>4. u[1] = x => \A k \in 1..Len(u) : u[k] = <<x>>[k]
    BY <2>1, <2>2, <2>3
  <2>5. u[1] = x => u = <<x>>
    BY <1>1, <1>2, <2>1, <2>3, <2>4, SameSeq
  <2>6. u = <<x>> => u[1] = x
    BY <2>2
  <2> QED
    BY <2>1, <2>3, <2>5, <2>6
<1>4. ASSUME i + 1 <= Len(t)
      PROVE  SubSeq(t, i, i + 1) = <<x, y>> <=> t[i] = x /\ t[i + 1] = y
  <2>1. /\ SubSeq(t, i, i + 1) \in Seq(V) /\ Len(SubSeq(t, i, i + 1)) = 2
        /\ SubSeq(t, i, i + 1)[1] = t[i] /\ SubSeq(t, i, i + 1)[2] = t[i + 1]
    <3>1. t \in Seq(W) /\ i + 1 \in Nat /\ i + 1 - i + 1 = 2 /\ i + 2 - 1 = i + 1
      OBVIOUS
    <3> HIDE DEF V
    <3> QED
      BY <1>1, <1>2, <1>4, <3>1
  <2>2. <<x, y>>[1] = x /\ <<x, y>>[2] = y
    OBVIOUS
  <2>3. PICK u \in Seq(V) : u = SubSeq(t, i, i + 1)
    BY <2>1
  <2>4. u[1] = x /\ u[2] = y => \A k \in 1..Len(u) : u[k] = <<x, y>>[k]
    BY <2>1, <2>2, <2>3
  <2>5. u[1] = x /\ u[2] = y => u = <<x, y>>
    BY <1>1, <1>2, <2>1, <2>3, <2>4, SameSeq
  <2>6. u = <<x, y>> => u[1] = x /\ u[2] = y
    BY <2>2
  <2> QED
    BY <2>1, <2>3, <2>5, <2>6
<1>5. i + 1 - 1 = i /\ i + 2 - 1 = i + 1
  OBVIOUS
<1>6. StartsAt(t, i, <<x>>) <=> i <= Len(t) /\ SubSeq(t, i, i) = <<x>>
  BY <1>2, <1>5 DEF StartsAt
<1>7. StartsAt(t, i, <<x, y>>) <=> i + 1 <= Len(t) /\ SubSeq(t, i, i + 1) = <<x, y>>
  BY <1>2, <1>5 DEF StartsAt
<1> QED
  BY <1>3, <1>4, <1>6, <1>7

\* The delimiters that start at i, as the widths say.
LEMMA DelimitersAt ==
    ASSUME NEW W, NEW t \in Seq(W), NEW i \in Nat \ {0}, NEW json \in BOOLEAN
    PROVE  /\ \A o \in Opens(json) : StartsAt(t, i, o) <=> OpenAt(t, i, json, Len(o))
           /\ \A w : OpenAt(t, i, json, w) => \E o \in Opens(json) : w = Len(o) /\ StartsAt(t, i, o)
           /\ \A c \in Closes(json) : StartsAt(t, i, c) <=> CloseAt(t, i, json, Len(c))
           /\ \A w : CloseAt(t, i, json, w) => \E c \in Closes(json) : w = Len(c) /\ StartsAt(t, i, c)
<1> DEFINE o1 == <<"[">>
           o2 == <<"\\", "o">>
           c1 == <<"]">>
           c2 == <<"\\", "c">>
<1>1. Len(o1) = 1 /\ Len(o2) = 2 /\ Len(c1) = 1 /\ Len(c2) = 2
  OBVIOUS
<1>2. /\ StartsAt(t, i, o1) <=> i <= Len(t) /\ t[i] = "["
      /\ StartsAt(t, i, o2) <=> i + 1 <= Len(t) /\ t[i] = "\\" /\ t[i + 1] = "o"
      /\ StartsAt(t, i, c1) <=> i <= Len(t) /\ t[i] = "]"
      /\ StartsAt(t, i, c2) <=> i + 1 <= Len(t) /\ t[i] = "\\" /\ t[i + 1] = "c"
  BY StartsAtIs
<1>3. /\ \A o : o \in Opens(json) <=> o = o1 \/ (json /\ o = o2)
      /\ \A c : c \in Closes(json) <=> c = c1 \/ (json /\ c = c2)
  BY DEF Opens, Closes
<1>4. /\ \A o \in Opens(json) : StartsAt(t, i, o) <=> OpenAt(t, i, json, Len(o))
      /\ \A c \in Closes(json) : StartsAt(t, i, c) <=> CloseAt(t, i, json, Len(c))
  <2>1. /\ OpenAt(t, i, json, 1) <=> StartsAt(t, i, o1)
        /\ CloseAt(t, i, json, 1) <=> StartsAt(t, i, c1)
        /\ json => (OpenAt(t, i, json, 2) <=> StartsAt(t, i, o2))
        /\ json => (CloseAt(t, i, json, 2) <=> StartsAt(t, i, c2))
    BY <1>2 DEF OpenAt, CloseAt
  <2> HIDE DEF o1, o2, c1, c2
  <2> QED
    BY <1>1, <1>3, <2>1
<1>5. \A w : OpenAt(t, i, json, w) => \E o \in Opens(json) : w = Len(o) /\ StartsAt(t, i, o)
  <2> HIDE DEF o1, o2, c1, c2
  <2> QED
    BY <1>1, <1>2, <1>3 DEF OpenAt
<1>6. \A w : CloseAt(t, i, json, w) => \E c \in Closes(json) : w = Len(c) /\ StartsAt(t, i, c)
  <2> HIDE DEF o1, o2, c1, c2
  <2> QED
    BY <1>1, <1>2, <1>3 DEF CloseAt
<1> QED
  BY <1>4, <1>5, <1>6

\* One delimiter starts at a position at most.
LEMMA OneDelimiter ==
    ASSUME NEW W, NEW t \in Seq(W), NEW i \in Nat \ {0}, NEW json \in BOOLEAN
    PROVE  /\ \A v, w : OpenAt(t, i, json, v) /\ OpenAt(t, i, json, w) => v = w
           /\ \A v, w : CloseAt(t, i, json, v) /\ CloseAt(t, i, json, w) => v = w
           /\ \A w : OpenAt(t, i, json, w) => w \in {1, 2} /\ i + w - 1 <= Len(t) /\ t[i] \in {"[", "\\"}
           /\ \A w : CloseAt(t, i, json, w) => w \in {1, 2} /\ i + w - 1 <= Len(t) /\ w = CloseWidth(t, i, json)
           /\ CloseWidth(t, i, json) # 0 => CloseAt(t, i, json, CloseWidth(t, i, json))
           /\ CloseWidth(t, i, json) \in {0, 1, 2}
<1>1. Len(t) \in Nat
  OBVIOUS
<1>2. /\ \A v, w : OpenAt(t, i, json, v) /\ OpenAt(t, i, json, w) => v = w
      /\ \A v, w : CloseAt(t, i, json, v) /\ CloseAt(t, i, json, w) => v = w
      /\ \A w : OpenAt(t, i, json, w) => w \in {1, 2} /\ i + w - 1 <= Len(t) /\ t[i] \in {"[", "\\"}
      /\ \A w : CloseAt(t, i, json, w) => w \in {1, 2} /\ i + w - 1 <= Len(t)
  BY <1>1 DEF OpenAt, CloseAt
<1>3. /\ \A w : CloseAt(t, i, json, w) => w = CloseWidth(t, i, json)
      /\ CloseWidth(t, i, json) # 0 => CloseAt(t, i, json, CloseWidth(t, i, json))
      /\ CloseWidth(t, i, json) \in {0, 1, 2}
  BY <1>2 DEF CloseWidth
<1> QED
  BY <1>2, <1>3

\* TokenAt finds the tokens, and nothing else.
LEMMA TokenIs ==
    ASSUME NEW W, NEW t \in Seq(W), NEW i \in Nat \ {0}, NEW json \in BOOLEAN
    PROVE  /\ \A at, j : HasToken(t, i, json, at, j) => TokenAt(t, i, json) = Token(t, at, j, json)
           /\ TokenAt(t, i, json) # NoMatch => \E at, j : HasToken(t, i, json, at, j)
<1> DEFINE opened == {o \in Opens(json) : StartsAt(t, i, o) /\ CoreEnd(t, i + Len(o)) # 0}
           o == CHOOSE x \in opened : TRUE
           at == IF opened # {} THEN i + Len(o) ELSE i
           end == CoreEnd(t, at)
           closing == {c \in Closes(json) : StartsAt(t, end + 1, c)}
           tok == [core |-> SubSeq(t, at, end), closed |-> closing # {},
                   end |-> IF closing = {} THEN end ELSE end + Len(CHOOSE c \in closing : TRUE)]
<1>1. TokenAt(t, i, json) = IF opened = {} /\ (end = 0 \/ ~WordStarts(t, i, json)) THEN NoMatch ELSE tok
  BY DEF TokenAt
<1>2. opened # {} => o \in opened
  OBVIOUS
<1>3. ASSUME opened # {} PROVE OpenAt(t, i, json, Len(o)) /\ Len(o) \in {1, 2} /\ at = i + Len(o) /\ end # 0
  <2>1. o \in Opens(json) /\ StartsAt(t, i, o) /\ CoreEnd(t, i + Len(o)) # 0 /\ at = i + Len(o)
    BY <1>2, <1>3
  <2> HIDE DEF o, at, opened
  <2>2. OpenAt(t, i, json, Len(o))
    BY <2>1, DelimitersAt
  <2>3. Len(o) \in {1, 2}
    BY <2>2 DEF OpenAt
  <2>4. end # 0
    BY <2>1
  <2> QED
    BY <2>1, <2>2, <2>3, <2>4
<1>4. at \in Nat \ {0}
  BY <1>3
<1>5. ASSUME end # 0 PROVE IsCore(t, at, end) /\ end \in Nat /\ end # 0
  <2> HIDE DEF at
  <2>1. IsCore(t, at, end)
    BY <1>4, <1>5, CoreEndIs
  <2> HIDE DEF end
  <2> QED
    BY <1>4, <1>5, <2>1 DEF IsCore
<1>6. ASSUME end # 0 PROVE tok = Token(t, at, end, json)
  <2>1. end + 1 \in Nat \ {0} /\ end \in Nat
    BY <1>5, <1>6
  <2> DEFINE w == CloseWidth(t, end + 1, json)
             c == CHOOSE x \in closing : TRUE
  <2>2. CASE closing = {}
    <3>1. ~ CloseAt(t, end + 1, json, w)
      <4> HIDE DEF end, w
      <4> QED
        BY <2>1, <2>2, DelimitersAt
    <3>2. w = 0
      <4> HIDE DEF end
      <4> QED
        BY <2>1, <3>1, OneDelimiter
    <3>3. tok = [core |-> SubSeq(t, at, end), closed |-> FALSE, end |-> end]
      <4> HIDE DEF closing, end, at
      <4> QED
        BY <2>2
    <3>4. CloseWidth(t, end + 1, json) = 0 /\ end + 0 = end
      BY <2>1, <3>2
    <3> HIDE DEF w, closing, end, at, tok
    <3> QED
      BY <3>3, <3>4 DEF Token
  <2>3. CASE closing # {}
    <3>1. c \in closing
      BY <2>3
    <3>2. CloseAt(t, end + 1, json, Len(c))
      <4> HIDE DEF end, c
      <4> QED
        BY <2>1, <3>1, DelimitersAt
    <3>3. Len(c) = w /\ w # 0
      <4> HIDE DEF end, c
      <4> QED
        BY <2>1, <3>2, OneDelimiter
    <3> HIDE DEF w, closing, end, at
    <3> QED
      BY <2>3, <3>3 DEF Token, w
  <2> QED
    BY <2>2, <2>3
<1>7. ASSUME NEW a, NEW j, HasToken(t, i, json, a, j) PROVE TokenAt(t, i, json) = Token(t, a, j, json)
  <2>1. CASE \E w \in {1, 2} : OpenAt(t, i, json, w) /\ a = i + w
    <3>1. PICK w \in {1, 2} : OpenAt(t, i, json, w) /\ a = i + w
      BY <2>1
    <3>2. PICK x \in Opens(json) : w = Len(x) /\ StartsAt(t, i, x)
      BY <3>1, DelimitersAt
    <3>3. a \in Nat \ {0} /\ IsCore(t, a, j)
      BY <1>7, <3>1 DEF HasToken
    <3>4. CoreEnd(t, a) = j /\ j # 0
      BY <3>3, CoreEndIs
    <3>5. x \in opened
      BY <3>1, <3>2, <3>4
    <3>6. Len(o) = w
      <4>1. OpenAt(t, i, json, Len(o))
        BY <1>3, <3>5
      <4> HIDE DEF o
      <4> QED
        BY <3>1, <4>1, OneDelimiter
    <3>7. at = a /\ end = j
      BY <3>1, <3>4, <3>5, <3>6
    <3> HIDE DEF opened, o, at, end, closing, tok
    <3> QED
      BY <1>1, <1>6, <3>4, <3>5, <3>7
  <2>2. CASE a = i /\ WordStarts(t, i, json)
    <3>1. IsCore(t, i, j) /\ t[i] \in Classes
      BY <1>7, <2>2 DEF HasToken, IsCore
    <3>2. CoreEnd(t, i) = j /\ j # 0
      BY <3>1, CoreEndIs
    <3>3. opened = {}
      <4>1. \A x \in Opens(json) : ~StartsAt(t, i, x)
        BY <3>1, Units, DelimitersAt, OneDelimiter
      <4> QED
        BY <4>1
    <3>4. at = i /\ end = j
      BY <3>2, <3>3
    <3> HIDE DEF opened, o, at, end, closing, tok
    <3> QED
      BY <1>1, <1>6, <2>2, <3>2, <3>4
  <2> QED
    BY <1>7, <2>1, <2>2 DEF HasToken, Starts
<1>8. ASSUME TokenAt(t, i, json) # NoMatch PROVE \E a, j : HasToken(t, i, json, a, j)
  <2>1. opened # {} \/ (end # 0 /\ WordStarts(t, i, json))
    <3> HIDE DEF opened, end, tok
    <3> QED
      BY <1>1, <1>8
  <2>2. CASE opened # {}
    <3>1. HasToken(t, i, json, at, end)
      <4>1. OpenAt(t, i, json, Len(o)) /\ Len(o) \in {1, 2} /\ at = i + Len(o) /\ IsCore(t, at, end)
        BY <1>3, <1>5, <2>2
      <4> HIDE DEF o, at, end
      <4> QED
        BY <4>1 DEF HasToken, Starts
    <3> QED
      BY <3>1
  <2>3. CASE opened = {} /\ end # 0 /\ WordStarts(t, i, json)
    <3>1. at = i /\ IsCore(t, at, end)
      BY <1>5, <2>3
    <3>2. HasToken(t, i, json, at, end)
      <4> HIDE DEF at, end
      <4> QED
        BY <2>3, <3>1 DEF HasToken, Starts
    <3> QED
      BY <3>2
  <2> QED
    BY <2>1, <2>2, <2>3
<1> QED
  BY <1>7, <1>8

\* What a token begins with, and where its core is.
LEMMA TokenLeads ==
    ASSUME NEW W, NEW t \in Seq(W), NEW i \in Nat \ {0}, NEW json \in BOOLEAN,
           NEW at, NEW j, HasToken(t, i, json, at, j)
    PROVE  /\ i <= Len(t) /\ at \in {i, i + 1, i + 2} /\ at \in 1..Len(t) /\ j \in (at + 1)..Len(t)
           /\ at = i => t[i] \in Classes /\ WordStarts(t, i, json)
           /\ at = i + 1 => t[i] = "["
           /\ at = i + 2 => json /\ t[i] = "\\" /\ t[i + 1] = "o"
<1>1. IsCore(t, at, j) /\ at \in 1..Len(t) /\ j \in (at + 1)..Len(t) /\ t[at] \in Classes /\ Len(t) \in Nat
  BY DEF HasToken, IsCore
<1>2. CASE at = i /\ WordStarts(t, i, json)
  BY <1>1, <1>2
<1>3. CASE \E w \in {1, 2} : OpenAt(t, i, json, w) /\ at = i + w
  <2>1. PICK w \in {1, 2} : OpenAt(t, i, json, w) /\ at = i + w
    BY <1>3
  <2>2. CASE w = 1
    <3>1. OpenAt(t, i, json, 1) /\ at = i + 1
      BY <2>1, <2>2
    <3>2. t[i] = "["
      BY <3>1 DEF OpenAt
    <3> QED
      BY <1>1, <3>1, <3>2
  <2>3. CASE w = 2
    <3>1. OpenAt(t, i, json, 2) /\ at = i + 2
      BY <2>1, <2>3
    <3>2. json /\ t[i] = "\\" /\ t[i + 1] = "o"
      BY <3>1 DEF OpenAt
    <3>3. i <= Len(t) /\ at # i /\ at # i + 1
      BY <1>1, <3>1
    <3> QED
      BY <1>1, <3>1, <3>2, <3>3, Zenon
  <2> QED
    BY <2>2, <2>3
<1> QED
  BY <1>2, <1>3 DEF HasToken, Starts

\* A token ends in the text, and another one that begins in it has its core and its end.
LEMMA TokenInside ==
    ASSUME NEW W, NEW t \in Seq(W), NEW i \in Nat \ {0}, NEW json \in BOOLEAN,
           NEW at, NEW j, HasToken(t, i, json, at, j)
    PROVE  /\ Token(t, at, j, json).end \in j..Len(t) /\ Token(t, at, j, json).end > i
           /\ Token(t, at, j, json) # NoMatch
           /\ \A q \in i..Token(t, at, j, json).end : \A a, b :
                HasToken(t, q, json, a, b) => a = at /\ b = j
<1> DEFINE w == CloseWidth(t, j + 1, json)
<1>1. /\ i <= Len(t) /\ at \in {i, i + 1, i + 2} /\ at \in 1..Len(t) /\ j \in (at + 1)..Len(t)
      /\ at = i => t[i] \in Classes
      /\ at = i + 1 => t[i] = "["
      /\ at = i + 2 => t[i] = "\\" /\ t[i + 1] = "o"
  BY TokenLeads
<1>2. t[at] \in Classes /\ \A k \in (at + 1)..j : IsDigit(t[k])
  BY DEF HasToken, IsCore
<1>3. Len(t) \in Nat /\ j + 1 \in Nat \ {0} /\ j \in Nat
  BY <1>1
<1>4. w \in {0, 1, 2} /\ j + w <= Len(t) /\ (w = 1 => t[j + 1] = "]") /\ (w = 2 => t[j + 1] = "\\" /\ t[j + 2] = "c")
  <2>1. w \in {0, 1, 2} /\ (w # 0 => CloseAt(t, j + 1, json, w))
    BY <1>3, OneDelimiter
  <2>2. CASE w = 0
    BY <1>1, <1>3, <2>2
  <2>3. CASE w = 1
    <3> HIDE DEF w
    <3> QED
      BY <1>3, <2>1, <2>3 DEF CloseAt
  <2>4. CASE w = 2
    <3> HIDE DEF w
    <3>1. j + 1 + 1 = j + 2
      BY <1>3
    <3> QED
      BY <1>3, <2>1, <2>4, <3>1 DEF CloseAt
  <2> QED
    BY <2>1, <2>2, <2>3, <2>4
<1>5. Token(t, at, j, json).end = j + w
  BY DEF Token
<1> HIDE DEF w
<1>6. Token(t, at, j, json).end \in j..Len(t) /\ Token(t, at, j, json).end > i
  BY <1>1, <1>3, <1>4, <1>5
<1>7. Token(t, at, j, json) # NoMatch
  BY <1>1, <1>3, <1>6 DEF NoMatch
<1>8. ASSUME NEW q \in i..(j + w), NEW a, NEW b, HasToken(t, q, json, a, b) PROVE a = at /\ b = j
  <2>1. q \in Nat \ {0}
    BY <1>3, <1>4
  <2>2. /\ q <= Len(t) /\ a \in {q, q + 1, q + 2}
        /\ a = q => t[q] \in Classes
        /\ a = q + 1 => t[q] = "["
        /\ a = q + 2 => t[q] = "\\" /\ t[q + 1] = "o"
    BY <1>8, <2>1, TokenLeads
  <2>3. q = i \/ q = at
    <3> SUFFICES ASSUME q # i, q # at PROVE FALSE
      OBVIOUS
    <3>1. CASE q < at
      <4>1. at = i + 2 /\ q = i + 1
        BY <1>1, <2>1, <3>1
      <4>2. t[q] = "o"
        BY <1>1, <4>1
      <4> QED
        BY <2>2, <4>2, Units
    <3>2. CASE q \in (at + 1)..j
      BY <1>2, <2>2, <3>2, Units
    <3>3. CASE q = j + 1
      <4>1. w = 1 \/ w = 2
        BY <1>3, <1>4, <3>3
      <4>2. q + 1 = j + 2
        BY <1>3, <3>3
      <4>3. t[q] \notin Classes
        BY <1>4, <3>3, <4>1, Units
      <4> QED
        BY <1>4, <2>1, <2>2, <3>3, <4>1, <4>2, <4>3
    <3>4. CASE q = j + 2
      <4>1. w = 2 /\ t[q] = "c"
        BY <1>3, <1>4, <3>4
      <4> QED
        BY <2>2, <4>1, Units
    <3> QED
      BY <1>1, <1>3, <1>4, <2>1, <3>1, <3>2, <3>3, <3>4
  <2>4. a = at
    <3>1. CASE q = i
      BY <1>1, <2>2, <3>1, Units
    <3>2. CASE q = at
      BY <1>2, <2>2, <3>2, Units
    <3> QED
      BY <2>3, <3>1, <3>2
  <2>5. IsCore(t, at, b) /\ IsCore(t, at, j) /\ at \in Nat \ {0}
    BY <1>1, <1>8, <2>4 DEF HasToken
  <2>6. b = j
    BY <2>5, CoreEndIs
  <2> QED
    BY <2>4, <2>6
<1> QED
  BY <1>5, <1>6, <1>7, <1>8

-----------------------------------------------------------------------------
(* replaceFrom.                                                             *)

\* The states of a scan of t from a position, f[i] the one after position i.
Begin(from) == [out |-> <<>>, last |-> from - 1, stopped |-> FALSE]

\* f is a scan: it begins before the position, and one Replace follows another.
Scans(f, t, from, map, json, final) ==
    /\ f[from - 1] = Begin(from)
    /\ \A i \in from..Len(t) : f[i] = Replace(f[i - 1], t, i, map, json, final)

\* A text, a position and a mapping to scan; the placeholders and surfaces are sequences too.
Fits(map, json, W) == \A c \in DOMAIN map : c \in Seq(W) /\ surfaceFor(map[c], json) \in Seq(W)

\* What a scan needs of its input.
Ready(t, from, map, json, W) ==
    t \in Seq(W) /\ from \in 1..(Len(t) + 1) /\ json \in BOOLEAN /\ Fits(map, json, W)

\* replaceFrom returns the last state of a scan.
HasScan(t, from, map, json, final) ==
    \E f : Scans(f, t, from, map, json, final) /\ replaceFrom(t, from, map, json, final) = f[Len(t)]

\* replaceFrom is the last state of a scan of the text.
LEMMA Scanned ==
    ASSUME NEW W, NEW t, NEW from, NEW map, NEW json, NEW final, Ready(t, from, map, json, W)
    PROVE  HasScan(t, from, map, json, final)
<1>1. t \in Seq(W) /\ from \in 1..(Len(t) + 1)
  BY DEF Ready
<1> USE <1>1
<1> DEFINE a == from - 1
           D(n) == a..(a + n)
           Body(f, i) == IF i = a THEN Begin(from) ELSE Replace(f[i - 1], t, i, map, json, final)
           E == {n \in Nat : \E f : f = [i \in D(n) |-> Body(f, i)]}
           g == CHOOSE f : f = [i \in a..Len(t) |-> Body(f, i)]
<1>2. a \in Nat /\ Len(t) \in Nat /\ a <= Len(t)
  OBVIOUS
<1>3. 0 \in E
  <2> DEFINE f == [i \in D(0) |-> Begin(from)]
  <2>1. \A i \in D(0) : i = a
    BY <1>2
  <2>2. f = [i \in D(0) |-> Body(f, i)]
    BY <2>1, Zenon
  <2> HIDE DEF D, f, Body
  <2> QED
    BY <2>2
<1>4. ASSUME NEW n \in E PROVE n + 1 \in E
  <2>1. n \in Nat
    OBVIOUS
  <2>2. PICK f : f = [i \in D(n) |-> Body(f, i)]
    OBVIOUS
  <2> DEFINE h == [i \in D(n + 1) |-> IF i = a + n + 1 THEN Body(f, i) ELSE f[i]]
  <2>3. \A i \in D(n) : h[i] = f[i] /\ f[i] = Body(f, i)
    <3>1. \A i \in D(n) : i \in D(n + 1) /\ i # a + n + 1
      BY <1>2, <2>1
    <3> HIDE DEF D, Body
    <3> QED
      BY <2>2, <3>1
  <2>4. \A i \in D(n + 1) : h[i] = Body(h, i)
    <3> TAKE i \in D(n + 1)
    <3>1. CASE i = a + n + 1
      <4>1. i - 1 \in D(n) /\ i # a
        BY <1>2, <2>1, <3>1
      <4>2. h[i - 1] = f[i - 1]
        BY <2>3, <4>1
      <4>3. h[i] = Body(f, i)
        BY <3>1
      <4> QED
        BY <4>1, <4>2, <4>3
    <3>2. CASE i # a + n + 1
      <4>1. i \in D(n)
        BY <1>2, <2>1, <3>2
      <4>2. i # a => i - 1 \in D(n)
        BY <1>2, <2>1, <4>1
      <4>3. i # a => h[i - 1] = f[i - 1]
        BY <2>3, <4>2
      <4>4. h[i] = Body(f, i)
        BY <2>3, <4>1
      <4> QED
        BY <4>3, <4>4
    <3> QED
      BY <3>1, <3>2
  <2>5. h = [i \in D(n + 1) |-> Body(h, i)]
    <3>1. h = [i \in D(n + 1) |-> h[i]]
      OBVIOUS
    <3> QED
      BY <2>4, <3>1, Zenon
  <2>6. n + 1 \in Nat
    BY <2>1
  <2> HIDE DEF h, D, Body
  <2> QED
    BY <2>5, <2>6
<1>5. E = Nat
  <2>1. E \in SUBSET Nat
    OBVIOUS
  <2> HIDE DEF E
  <2> QED
    BY <1>3, <1>4, <2>1, Induction
<1>6. g = [i \in a..Len(t) |-> Body(g, i)]
  <2>1. PICK n \in Nat : n \in E /\ a + n = Len(t)
    <3>1. Len(t) - a \in Nat /\ a + (Len(t) - a) = Len(t)
      BY <1>2
    <3> HIDE DEF E, a
    <3> QED
      BY <1>5, <3>1
  <2>2. \E f : f = [i \in a..Len(t) |-> Body(f, i)]
    <3> HIDE DEF Body
    <3> QED
      BY <2>1
  <2> HIDE DEF Body
  <2> QED
    BY <2>2, Zenon
<1>7. replaceFrom(t, from, map, json, final) = g[Len(t)]
  BY DEF replaceFrom, Begin
<1> HIDE DEF g, E
<1>8. \A i \in a..Len(t) : g[i] = Body(g, i)
  <2> HIDE DEF Body
  <2> QED
    BY <1>6
<1>9. Scans(g, t, from, map, json, final)
  <2>1. g[from - 1] = Begin(from)
    BY <1>2, <1>8
  <2>2. ASSUME NEW i \in from..Len(t) PROVE g[i] = Replace(g[i - 1], t, i, map, json, final)
    <3>1. i \in a..Len(t) /\ i # a
      BY <1>2
    <3> QED
      BY <1>8, <3>1
  <2> QED
    BY <2>1, <2>2 DEF Scans
<1> QED
  BY <1>7, <1>9 DEF HasScan

\* A part of a sequence.
LEMMA Part ==
    ASSUME NEW W, NEW t \in Seq(W), NEW a \in Nat \ {0}, NEW b \in Int, a <= b + 1, b <= Len(t)
    PROVE  /\ SubSeq(t, a, b) \in Seq(W) /\ Len(SubSeq(t, a, b)) = b - a + 1
           /\ \A k \in 1..(b - a + 1) : SubSeq(t, a, b)[k] = t[a + k - 1]
  OBVIOUS

\* The state of a scan, and what it adds at a token.
Progress(t, from, W) == [out : Seq(W), last : (from - 1)..Len(t), stopped : BOOLEAN]

\* A scan before position i.
Stands(r, i, t, from, W) == r \in Progress(t, from, W) /\ i \in from..Len(t)

\* What goes out for the text after `last` up to the token at i and for the token.
Gives(t, last, i, m, map, json) ==
    IF m.core \in DOMAIN map THEN SubSeq(t, last + 1, i - 1) \o surfaceFor(map[m.core], json)
    ELSE SubSeq(t, last + 1, m.end)

\* The state after the token.
Moved(r, t, i, m, map, json) ==
    [out |-> r.out \o Gives(t, r.last, i, m, map, json), last |-> m.end, stopped |-> FALSE]

\* The scan waits for more input at the token.
Waits(final, t, m, json) == ~final /\ StillOpen(t, m, json)

\* One step of a scan: it stays, stops, or moves past a token.
LEMMA Replaces ==
    ASSUME NEW W, NEW t, NEW from, NEW map, NEW json, NEW final, NEW r, NEW i,
           Ready(t, from, map, json, W), Stands(r, i, t, from, W)
    PROVE  /\ r.stopped \/ i <= r.last \/ TokenAt(t, i, json) = NoMatch => Replace(r, t, i, map, json, final) = r
           /\ ~r.stopped /\ r.last < i => \A at, j : HasToken(t, i, json, at, j) =>
                IF Waits(final, t, Token(t, at, j, json), json)
                THEN Replace(r, t, i, map, json, final) = [r EXCEPT !.stopped = TRUE]
                ELSE /\ Replace(r, t, i, map, json, final) = Moved(r, t, i, Token(t, at, j, json), map, json)
                     /\ Gives(t, r.last, i, Token(t, at, j, json), map, json) \in Seq(W)
           /\ Replace(r, t, i, map, json, final) \in Progress(t, from, W)
<1>1. /\ t \in Seq(W) /\ from \in 1..(Len(t) + 1) /\ i \in from..Len(t)
      /\ json \in BOOLEAN /\ Fits(map, json, W) /\ r \in Progress(t, from, W)
  BY DEF Ready, Stands
<1> USE <1>1
<1>2. /\ r.out \in Seq(W) /\ r.last \in (from - 1)..Len(t) /\ r.stopped \in BOOLEAN
      /\ i \in Nat \ {0} /\ from \in Nat \ {0} /\ Len(t) \in Nat /\ r.last \in Nat
      /\ r = [out |-> r.out, last |-> r.last, stopped |-> r.stopped]
  BY DEF Progress
<1> DEFINE m == TokenAt(t, i, json)
           R == Replace(r, t, i, map, json, final)
<1>3. R = IF r.stopped \/ i <= r.last \/ m = NoMatch THEN r
          ELSE IF Waits(final, t, m, json) THEN [r EXCEPT !.stopped = TRUE]
          ELSE Moved(r, t, i, m, map, json)
  BY DEF Replace, Waits, Gives, Moved
<1> HIDE DEF R
<1>4. r.stopped \/ i <= r.last \/ m = NoMatch => R = r
  BY <1>3
<1>5. ASSUME ~r.stopped, r.last < i, NEW at, NEW j, HasToken(t, i, json, at, j)
      PROVE  /\ Waits(final, t, m, json) => R = [r EXCEPT !.stopped = TRUE]
             /\ ~Waits(final, t, m, json) => R = Moved(r, t, i, m, map, json)
             /\ m = Token(t, at, j, json) /\ Gives(t, r.last, i, m, map, json) \in Seq(W) /\ m.end \in i..Len(t)
  <2>1. m = Token(t, at, j, json) /\ m # NoMatch /\ m.end \in i..Len(t)
    <3>1. m = Token(t, at, j, json)
      BY <1>2, <1>5, TokenIs
    <3>2. Token(t, at, j, json) # NoMatch /\ Token(t, at, j, json).end \in j..Len(t) /\ Token(t, at, j, json).end > i
      BY <1>2, <1>5, TokenInside
    <3> HIDE DEF m
    <3>3. j \in Nat
      BY <1>2, <1>5, TokenLeads
    <3> QED
      BY <1>2, <3>1, <3>2, <3>3
  <2>2. ~(r.stopped \/ i <= r.last \/ m = NoMatch)
    <3> HIDE DEF m
    <3> QED
      BY <1>2, <1>5, <2>1
  <2> HIDE DEF m
  <2>3. Gives(t, r.last, i, m, map, json) \in Seq(W)
    <3>1. CASE m.core \in DOMAIN map
      <4>1. SubSeq(t, r.last + 1, i - 1) \in Seq(W)
        <5>1. r.last + 1 \in Nat \ {0} /\ i - 1 \in Int /\ r.last + 1 <= (i - 1) + 1 /\ i - 1 <= Len(t)
          BY <1>2, <1>5
        <5> QED
          BY <5>1, Part
      <4>2. surfaceFor(map[m.core], json) \in Seq(W)
        BY <3>1 DEF Fits
      <4>3. SubSeq(t, r.last + 1, i - 1) \o surfaceFor(map[m.core], json) \in Seq(W)
        BY <4>1, <4>2
      <4> QED
        BY <3>1, <4>3 DEF Gives
    <3>2. CASE m.core \notin DOMAIN map
      <4>1. SubSeq(t, r.last + 1, m.end) \in Seq(W)
        <5>1. r.last + 1 \in Nat \ {0} /\ m.end \in Int /\ r.last + 1 <= m.end + 1 /\ m.end <= Len(t)
          BY <1>2, <1>5, <2>1
        <5> QED
          BY <5>1, Part
      <4> QED
        BY <3>2, <4>1 DEF Gives
    <3> QED
      BY <3>1, <3>2
  <2>4. ~Waits(final, t, m, json) => R = Moved(r, t, i, m, map, json)
    BY <1>3, <2>2
  <2>5. Waits(final, t, m, json) => R = [r EXCEPT !.stopped = TRUE]
    BY <1>3, <2>2
  <2> HIDE DEF R
  <2> QED
    BY <2>1, <2>3, <2>4, <2>5, Zenon
<1>6. R \in Progress(t, from, W)
  <2>1. CASE r.stopped \/ i <= r.last \/ m = NoMatch
    BY <1>4, <2>1
  <2>2. CASE ~(r.stopped \/ i <= r.last \/ m = NoMatch)
    <3>1. PICK at, j : HasToken(t, i, json, at, j)
      BY <1>2, <2>2, TokenIs
    <3>2. ~r.stopped /\ r.last < i
      BY <1>2, <2>2
    <3> HIDE DEF m
    <3>3. /\ Waits(final, t, m, json) => R = [r EXCEPT !.stopped = TRUE]
          /\ ~Waits(final, t, m, json) => R = Moved(r, t, i, m, map, json)
          /\ Gives(t, r.last, i, m, map, json) \in Seq(W) /\ m.end \in i..Len(t)
      BY <1>5, <3>1, <3>2
    <3>4. [r EXCEPT !.stopped = TRUE] \in Progress(t, from, W)
      BY <1>2 DEF Progress
    <3>5. Moved(r, t, i, m, map, json) \in Progress(t, from, W)
      <4>1. r.out \o Gives(t, r.last, i, m, map, json) \in Seq(W) /\ m.end \in (from - 1)..Len(t)
        BY <1>2, <3>3
      <4> QED
        BY <4>1 DEF Moved, Progress
    <3> QED
      BY <3>3, <3>4, <3>5
  <2> QED
    BY <2>1, <2>2
<1> HIDE DEF m
<1>7. ASSUME ~r.stopped, r.last < i, NEW at, NEW j, HasToken(t, i, json, at, j)
      PROVE  IF Waits(final, t, Token(t, at, j, json), json)
             THEN R = [r EXCEPT !.stopped = TRUE]
             ELSE /\ R = Moved(r, t, i, Token(t, at, j, json), map, json)
                  /\ Gives(t, r.last, i, Token(t, at, j, json), map, json) \in Seq(W)
  BY <1>5, <1>7
<1> QED
  BY <1>4, <1>6, <1>7 DEF R, m

\* The elements of a concatenation.
LEMMA Joint ==
    ASSUME NEW W, NEW x \in Seq(W), NEW y \in Seq(W)
    PROVE  /\ x \o y \in Seq(W) /\ Len(x \o y) = Len(x) + Len(y)
           /\ \A k \in 1..Len(x) : (x \o y)[k] = x[k]
           /\ \A k \in (Len(x) + 1)..(Len(x) + Len(y)) : (x \o y)[k] = y[k - Len(x)]
           /\ Len(x) \in Nat /\ Len(y) \in Nat
  OBVIOUS

\* Concatenation.
Three(W, x, y, z) == x \in Seq(W) /\ y \in Seq(W) /\ z \in Seq(W)

\* Three sequences may be put together in either order.
LEMMA Concat ==
    ASSUME NEW W, NEW x, NEW y, NEW z, Three(W, x, y, z)
    PROVE  (x \o y) \o z = x \o (y \o z)
<1> USE DEF Three
<1>1. x \o y \in Seq(W) /\ y \o z \in Seq(W)
  OBVIOUS
<1>2. PICK u \in Seq(W) : u = x \o y
  BY <1>1
<1>3. PICK v \in Seq(W) : v = y \o z
  BY <1>1
<1>4. /\ u \o z \in Seq(W) /\ x \o v \in Seq(W) /\ Len(u \o z) = Len(x \o v)
      /\ Len(u) = Len(x) + Len(y) /\ Len(x) \in Nat /\ Len(y) \in Nat /\ Len(z) \in Nat
      /\ Len(u \o z) = Len(u) + Len(z) /\ Len(v) = Len(y) + Len(z)
  BY <1>2, <1>3
<1>5. ASSUME NEW k \in 1..Len(u \o z) PROVE (u \o z)[k] = (x \o v)[k]
  <2>1. CASE k <= Len(x)
    BY <1>2, <1>3, <2>1
  <2>2. CASE Len(x) < k /\ k <= Len(x) + Len(y)
    BY <1>2, <1>3, <2>2
  <2>3. CASE Len(x) + Len(y) < k
    <3>1. (u \o z)[k] = z[k - Len(u)]
      BY <1>4, <2>3
    <3>2. (x \o v)[k] = v[k - Len(x)] /\ k - Len(x) \in 1..Len(v) /\ Len(y) < k - Len(x)
      BY <1>4, <2>3
    <3>3. v[k - Len(x)] = z[k - Len(x) - Len(y)]
      BY <1>3, <1>4, <3>2
    <3>4. k - Len(x) - Len(y) = k - Len(u)
      BY <1>4
    <3> QED
      BY <3>1, <3>2, <3>3, <3>4
  <2> QED
    BY <1>4, <2>1, <2>2, <2>3
<1>6. u \o z = x \o v
  BY <1>4, <1>5, SameSeq
<1> QED
  BY <1>2, <1>3, <1>6

\* Two parts of a sequence that meet.
Meet(W, t, a, b, c) ==
    t \in Seq(W) /\ a \in Nat \ {0} /\ b \in Nat /\ c \in Nat /\ a <= b + 1 /\ b <= c /\ c <= Len(t)

\* The two parts make one.
Add(t, a, b, c) == SubSeq(t, a, b) \o SubSeq(t, b + 1, c) = SubSeq(t, a, c)

\* Two parts that meet make one part.
LEMMA Parts ==
    ASSUME NEW W, NEW t, NEW a, NEW b, NEW c, Meet(W, t, a, b, c)
    PROVE  Add(t, a, b, c)
<1> USE DEF Meet
<1>1. /\ SubSeq(t, a, b) \in Seq(W) /\ Len(SubSeq(t, a, b)) = b - a + 1
      /\ \A k \in 1..(b - a + 1) : SubSeq(t, a, b)[k] = t[a + k - 1]
  <2>1. b \in Int /\ b <= Len(t) /\ a <= b + 1
    OBVIOUS
  <2> QED
    BY <2>1, Part
<1>2. /\ SubSeq(t, b + 1, c) \in Seq(W) /\ Len(SubSeq(t, b + 1, c)) = c - b
      /\ \A k \in 1..(c - b) : SubSeq(t, b + 1, c)[k] = t[b + k]
  <2>1. PICK d \in Nat \ {0} : d = b + 1
    OBVIOUS
  <2>2. c \in Int /\ d <= c + 1 /\ c - d + 1 = c - b /\ \A k \in Int : d + k - 1 = b + k
    BY <2>1
  <2>3. /\ SubSeq(t, d, c) \in Seq(W) /\ Len(SubSeq(t, d, c)) = c - d + 1
        /\ \A k \in 1..(c - d + 1) : SubSeq(t, d, c)[k] = t[d + k - 1]
    BY <2>2, Part
  <2> QED
    BY <2>1, <2>2, <2>3
<1>3. /\ SubSeq(t, a, c) \in Seq(W) /\ Len(SubSeq(t, a, c)) = c - a + 1
      /\ \A k \in 1..(c - a + 1) : SubSeq(t, a, c)[k] = t[a + k - 1]
  <2>1. c \in Int /\ a <= c + 1
    OBVIOUS
  <2> QED
    BY <2>1, Part
<1> DEFINE x == SubSeq(t, a, b)
           y == SubSeq(t, b + 1, c)
           z == SubSeq(t, a, c)
<1>4. x \in Seq(W) /\ y \in Seq(W) /\ z \in Seq(W)
  BY <1>1, <1>2, <1>3
<1> HIDE DEF x, y, z
<1>5. /\ x \o y \in Seq(W) /\ Len(x \o y) = Len(z) /\ Len(x) = b - a + 1 /\ Len(y) = c - b /\ Len(z) = c - a + 1
      /\ \A k \in 1..(b - a + 1) : x[k] = t[a + k - 1]
      /\ \A k \in 1..(c - b) : y[k] = t[b + k]
      /\ \A k \in 1..(c - a + 1) : z[k] = t[a + k - 1]
  <2>1. /\ Len(x) = b - a + 1 /\ Len(y) = c - b /\ Len(z) = c - a + 1
        /\ \A k \in 1..(b - a + 1) : x[k] = t[a + k - 1]
        /\ \A k \in 1..(c - b) : y[k] = t[b + k]
        /\ \A k \in 1..(c - a + 1) : z[k] = t[a + k - 1]
    BY <1>1, <1>2, <1>3 DEF x, y, z
  <2>2. x \o y \in Seq(W) /\ Len(x \o y) = Len(x) + Len(y)
    BY <1>4
  <2> QED
    BY <2>1, <2>2
<1>6. ASSUME NEW k \in 1..Len(x \o y) PROVE (x \o y)[k] = z[k]
  <2>1. k \in 1..(c - a + 1)
    BY <1>5
  <2>2. CASE k <= Len(x)
    <3>1. k \in 1..(b - a + 1) /\ k \in 1..Len(x)
      BY <1>5, <2>1, <2>2
    <3>2. (x \o y)[k] = x[k]
      BY <1>4, <3>1, Joint
    <3> QED
      BY <1>5, <2>1, <3>1, <3>2
  <2>3. CASE Len(x) < k
    <3>1. k \in (Len(x) + 1)..(Len(x) + Len(y)) /\ k - Len(x) \in 1..(c - b) /\ b + (k - Len(x)) = a + k - 1
      BY <1>5, <2>1, <2>3
    <3>2. (x \o y)[k] = y[k - Len(x)]
      BY <1>4, <3>1, Joint
    <3> QED
      BY <1>5, <2>1, <3>1, <3>2
  <2>4. k <= Len(x) \/ Len(x) < k
    BY <1>5, <2>1
  <2> QED
    BY <2>2, <2>3, <2>4
<1>7. x \o y = z
  BY <1>4, <1>5, <1>6, SameSeq
<1> QED
  BY <1>7 DEF x, y, z, Add

\* A scan keeps its type; one to the end never stops, and finds no token that it does not
\* move past.
LEMMA ScanTypes ==
    ASSUME NEW W, NEW t, NEW from, NEW map, NEW json, NEW final, NEW f,
           Ready(t, from, map, json, W), final \in BOOLEAN, Scans(f, t, from, map, json, final)
    PROVE  \A i \in (from - 1)..Len(t) :
             /\ f[i] \in Progress(t, from, W)
             /\ final => ~f[i].stopped /\ \A q \in (f[i].last + 1)..i : TokenAt(t, q, json) = NoMatch
<1>1. t \in Seq(W) /\ from \in 1..(Len(t) + 1) /\ json \in BOOLEAN /\ Fits(map, json, W)
  BY DEF Ready
<1> USE <1>1
<1> DEFINE a == from - 1
           Good(i) == /\ f[i] \in Progress(t, from, W)
                      /\ final => ~f[i].stopped /\ \A q \in (f[i].last + 1)..i : TokenAt(t, q, json) = NoMatch
           E == {n \in Nat : a + n <= Len(t) => Good(a + n)}
<1>2. a \in Nat /\ from \in Nat \ {0} /\ Len(t) \in Nat /\ a + 1 = from /\ a <= Len(t)
  OBVIOUS
<1>3. 0 \in E
  <2>1. f[a] = Begin(from)
    BY DEF Scans
  <2>2. Begin(from) \in Progress(t, from, W) /\ ~Begin(from).stopped /\ Begin(from).last = a
    <3>1. <<>> \in Seq(W) /\ a \in a..Len(t)
      BY <1>2
    <3> QED
      BY <3>1 DEF Begin, Progress
  <2>3. \A q \in (a + 1)..a : FALSE
    BY <1>2
  <2>4. Good(a)
    <3> HIDE DEF a
    <3> QED
      BY <2>1, <2>2, <2>3
  <2>5. a + 0 = a
    BY <1>2
  <2> HIDE DEF Good, a
  <2> QED
    BY <2>4, <2>5
<1>4. ASSUME NEW n \in E PROVE n + 1 \in E
  <2> SUFFICES ASSUME a + (n + 1) <= Len(t) PROVE Good(a + (n + 1))
    <3> HIDE DEF Good, a
    <3> QED
      OBVIOUS
  <2>1. PICK i \in from..Len(t) : i = a + (n + 1) /\ i - 1 = a + n /\ i \in Nat \ {0}
    BY <1>2
  <2>2. Good(i - 1)
    <3>1. a + n <= Len(t)
      BY <1>2
    <3> HIDE DEF Good, a
    <3> QED
      BY <2>1, <3>1
  <2>3. f[i] = Replace(f[i - 1], t, i, map, json, final)
    BY DEF Scans
  <2>4. PICK r \in Progress(t, from, W) : r = f[i - 1] /\ Stands(r, i, t, from, W)
    BY <2>2 DEF Stands
  <2>5. r.last \in Nat /\ r.stopped \in BOOLEAN
    BY <1>2, <2>4 DEF Progress
  <2>6. f[i] \in Progress(t, from, W)
    BY <2>3, <2>4, Replaces
  <2>7. ASSUME final
        PROVE  ~f[i].stopped /\ \A q \in (f[i].last + 1)..i : TokenAt(t, q, json) = NoMatch
    <3>1. ~r.stopped /\ \A q \in (r.last + 1)..(i - 1) : TokenAt(t, q, json) = NoMatch
      BY <2>2, <2>4, <2>7
    <3>2. CASE i <= r.last
      <4>1. f[i] = r
        BY <2>3, <2>4, <3>2, Replaces
      <4>2. \A q \in (r.last + 1)..i : FALSE
        BY <2>1, <2>5, <3>2
      <4> QED
        BY <3>1, <4>1, <4>2
    <3>3. CASE TokenAt(t, i, json) = NoMatch
      <4>1. f[i] = r
        BY <2>3, <2>4, <3>3, Replaces
      <4>2. \A q \in (r.last + 1)..i : q = i \/ q \in (r.last + 1)..(i - 1)
        BY <2>1, <2>5
      <4> QED
        BY <3>1, <3>3, <4>1, <4>2
    <3>4. CASE r.last < i /\ TokenAt(t, i, json) # NoMatch
      <4>1. PICK at, j : HasToken(t, i, json, at, j)
        BY <2>1, <3>4, TokenIs
      <4>2. ~Waits(final, t, Token(t, at, j, json), json)
        BY <2>7 DEF Waits
      <4>3. f[i] = Moved(r, t, i, Token(t, at, j, json), map, json)
        BY <2>3, <2>4, <3>1, <3>4, <4>1, <4>2, Replaces
      <4>4. Token(t, at, j, json).end \in j..Len(t) /\ Token(t, at, j, json).end > i
        BY <2>1, <4>1, TokenInside
      <4>5. ~f[i].stopped /\ f[i].last = Token(t, at, j, json).end
        BY <4>3 DEF Moved
      <4>6. j \in Nat
        BY <2>1, <4>1, TokenLeads
      <4>7. \A q \in (f[i].last + 1)..i : FALSE
        BY <2>1, <4>4, <4>5, <4>6
      <4> QED
        BY <4>5, <4>7
    <3> QED
      BY <2>1, <2>5, <3>2, <3>3, <3>4
  <2> QED
    BY <2>1, <2>6, <2>7
<1>5. E = Nat
  <2>1. E \in SUBSET Nat
    OBVIOUS
  <2> HIDE DEF E
  <2> QED
    BY <1>3, <1>4, <2>1, Induction
<1>6. ASSUME NEW i \in a..Len(t) PROVE Good(i)
  <2>1. i - a \in Nat /\ a + (i - a) = i /\ i <= Len(t)
    BY <1>2
  <2> HIDE DEF Good, a
  <2> QED
    BY <1>5, <2>1
<1> QED
  BY <1>6

\* What a scan has of the text up to e, and all of it when it goes to the end.
Upto(t, r, e) == r.out \o SubSeq(t, r.last + 1, e)

\* All of what a scan to the end gives.
Whole(t, from, map, json) == Upto(t, replaceFrom(t, from, map, json, TRUE), Len(t))

\* What a token gives from an earlier position on.
Reaches(t, last, k, i, m, map, json, W) ==
    /\ t \in Seq(W) /\ i \in 1..Len(t) /\ last \in Nat /\ k \in Nat /\ last <= k /\ k < i
    /\ m.end \in i..Len(t) /\ Fits(map, json, W)

\* What the token gives from `last` begins with the text up to k.
GivesMore(t, last, k, i, m, map, json, W) ==
    /\ Gives(t, k, i, m, map, json) \in Seq(W) /\ SubSeq(t, last + 1, k) \in Seq(W)
    /\ Gives(t, last, i, m, map, json) = SubSeq(t, last + 1, k) \o Gives(t, k, i, m, map, json)

\* A token gives the text between two positions before it, and what it gives from the second.
LEMMA Given ==
    ASSUME NEW W, NEW t, NEW i, NEW last, NEW k, NEW m, NEW map, NEW json, Reaches(t, last, k, i, m, map, json, W)
    PROVE  GivesMore(t, last, k, i, m, map, json, W)
<1>1. /\ t \in Seq(W) /\ i \in 1..Len(t) /\ last \in Nat /\ k \in Nat /\ last <= k /\ k < i
      /\ m.end \in i..Len(t) /\ Fits(map, json, W)
  BY DEF Reaches
<1>2. PICK p \in Nat : p = i - 1
  BY <1>1
<1>3. PICK e \in Nat : e = m.end
  BY <1>1
<1>4. /\ Len(t) \in Nat /\ last + 1 \in Nat \ {0} /\ k + 1 \in Nat \ {0} /\ k <= p /\ p <= Len(t)
      /\ k <= e /\ e <= Len(t)
  BY <1>1, <1>2, <1>3
<1>5. SubSeq(t, last + 1, k) \in Seq(W) /\ SubSeq(t, k + 1, p) \in Seq(W) /\ SubSeq(t, k + 1, e) \in Seq(W)
  BY <1>1, <1>4, Part
<1>6. /\ SubSeq(t, last + 1, k) \o SubSeq(t, k + 1, p) = SubSeq(t, last + 1, p)
      /\ SubSeq(t, last + 1, k) \o SubSeq(t, k + 1, e) = SubSeq(t, last + 1, e)
  <2>1. Meet(W, t, last + 1, k, p) /\ Meet(W, t, last + 1, k, e)
    BY <1>1, <1>2, <1>3, <1>4 DEF Meet
  <2>2. Add(t, last + 1, k, p) /\ Add(t, last + 1, k, e)
    BY <2>1, Parts
  <2> QED
    BY <2>2 DEF Add
<1>7. CASE m.core \in DOMAIN map
  <2>1. PICK z \in Seq(W) : z = surfaceFor(map[m.core], json)
    BY <1>1, <1>7 DEF Fits
  <2>2. /\ Gives(t, k, i, m, map, json) = SubSeq(t, k + 1, p) \o z
        /\ Gives(t, last, i, m, map, json) = SubSeq(t, last + 1, p) \o z
    BY <1>2, <1>7, <2>1 DEF Gives
  <2>3. PICK x \in Seq(W), y \in Seq(W) : x = SubSeq(t, last + 1, k) /\ y = SubSeq(t, k + 1, p)
    BY <1>5
  <2>4. y \o z \in Seq(W) /\ (x \o y) \o z = x \o (y \o z)
    <3>1. Three(W, x, y, z)
      BY DEF Three
    <3> QED
      BY <3>1, Concat
  <2>5. x \o y = SubSeq(t, last + 1, p)
    BY <1>6, <2>3
  <2> QED
    BY <1>5, <2>2, <2>3, <2>4, <2>5 DEF GivesMore
<1>8. CASE m.core \notin DOMAIN map
  <2>1. /\ Gives(t, k, i, m, map, json) = SubSeq(t, k + 1, e)
        /\ Gives(t, last, i, m, map, json) = SubSeq(t, last + 1, e)
    BY <1>3, <1>8 DEF Gives
  <2> QED
    BY <1>5, <1>6, <2>1 DEF GivesMore
<1> QED
  BY <1>7, <1>8

\* A scan has come to k outside every token.
Comes(b, t, from, k) == k \in from..(Len(t) + 1) /\ b[k - 1].last < k

\* Two scans from there are one: the first has u in front.
Same(rb, rc, s, k, u) == (rb = s /\ rc = Begin(k)) \/ (rb.last = rc.last /\ rb.out = u \o rc.out)

\* One step of a scan to the end, at a token.
LEMMA MovesOn ==
    ASSUME NEW W, NEW t, NEW from, NEW map, NEW json, NEW r, NEW i, NEW at, NEW j,
           Ready(t, from, map, json, W), Stands(r, i, t, from, W), ~r.stopped, r.last < i,
           HasToken(t, i, json, at, j)
    PROVE  /\ Replace(r, t, i, map, json, TRUE) = Moved(r, t, i, Token(t, at, j, json), map, json)
           /\ Gives(t, r.last, i, Token(t, at, j, json), map, json) \in Seq(W)
<1>1. PICK final : final = TRUE
  OBVIOUS
<1>2. ~Waits(final, t, Token(t, at, j, json), json)
  BY <1>1 DEF Waits
<1>3. /\ Replace(r, t, i, map, json, final) = Moved(r, t, i, Token(t, at, j, json), map, json)
      /\ Gives(t, r.last, i, Token(t, at, j, json), map, json) \in Seq(W)
  BY <1>2, Replaces
<1> QED
  BY <1>1, <1>3

\* A scan that has come to k outside every token, and one that begins there, go on alike.
LEMMA SplitStep ==
    ASSUME NEW W, NEW t, NEW from, NEW k, NEW map, NEW json, NEW rb, NEW rc, NEW s, NEW u, NEW i,
           Ready(t, from, map, json, W), Ready(t, k, map, json, W),
           Stands(rb, i, t, from, W), Stands(rc, i, t, k, W), Stands(s, k, t, from, W),
           ~rb.stopped, ~rc.stopped, s.last < k, u = Upto(t, s, k - 1), u \in Seq(W), Same(rb, rc, s, k, u)
    PROVE  Same(Replace(rb, t, i, map, json, TRUE), Replace(rc, t, i, map, json, TRUE), s, k, u)
<1> DEFINE nb == Replace(rb, t, i, map, json, TRUE)
           nc == Replace(rc, t, i, map, json, TRUE)
<1> SUFFICES Same(nb, nc, s, k, u)
  OBVIOUS
<1>1. /\ t \in Seq(W) /\ k \in 1..Len(t) /\ i \in k..Len(t) /\ json \in BOOLEAN /\ Fits(map, json, W)
      /\ i \in Nat \ {0} /\ k - 1 \in Nat /\ i \in 1..Len(t) /\ k - 1 < i /\ Len(t) \in Nat
  BY DEF Ready, Stands
<1>2. /\ rb.last \in Nat /\ rc.last \in Nat /\ rb.out \in Seq(W) /\ rc.out \in Seq(W)
      /\ s.last \in Nat /\ s.out \in Seq(W)
  BY DEF Ready, Stands, Progress
<1>3. i <= rb.last <=> i <= rc.last
  <2>1. CASE rb = s /\ rc = Begin(k)
    <3>1. rc.last = k - 1
      BY <2>1 DEF Begin
    <3> QED
      BY <1>1, <1>2, <2>1, <3>1
  <2>2. CASE rb.last = rc.last
    BY <2>2
  <2> QED
    BY <2>1, <2>2 DEF Same
<1>4. CASE i <= rb.last \/ TokenAt(t, i, json) = NoMatch
  <2>1. nb = rb /\ nc = rc
    BY <1>3, <1>4 DEF Replace
  <2> HIDE DEF nb, nc
  <2> QED
    BY <2>1
<1>5. CASE ~(i <= rb.last) /\ TokenAt(t, i, json) # NoMatch
  <2>1. PICK at, j : HasToken(t, i, json, at, j)
    BY <1>1, <1>5, TokenIs
  <2>2. rb.last < i /\ rc.last < i
    BY <1>1, <1>2, <1>3, <1>5
  <2>3. PICK m : m = Token(t, at, j, json)
    OBVIOUS
  <2>4. /\ nb = Moved(rb, t, i, Token(t, at, j, json), map, json)
        /\ Gives(t, rb.last, i, Token(t, at, j, json), map, json) \in Seq(W)
    BY <2>1, <2>2, MovesOn, Zenon
  <2>5. /\ nc = Moved(rc, t, i, Token(t, at, j, json), map, json)
        /\ Gives(t, rc.last, i, Token(t, at, j, json), map, json) \in Seq(W)
    BY <2>1, <2>2, MovesOn, Zenon
  <2>6. /\ nb = Moved(rb, t, i, m, map, json) /\ Gives(t, rb.last, i, m, map, json) \in Seq(W)
        /\ nc = Moved(rc, t, i, m, map, json) /\ Gives(t, rc.last, i, m, map, json) \in Seq(W)
    BY <2>3, <2>4, <2>5
  <2> HIDE DEF nb, nc
  <2>7. nb.last = nc.last
    BY <2>6 DEF Moved
  <2>8. /\ nb.out = rb.out \o Gives(t, rb.last, i, m, map, json)
        /\ nc.out = rc.out \o Gives(t, rc.last, i, m, map, json)
    BY <2>6 DEF Moved
  <2>9. CASE rb = s /\ rc = Begin(k)
    <3>1. rc.last = k - 1 /\ rc.out = <<>>
      BY <2>9 DEF Begin
    <3>2. m.end \in i..Len(t)
      <4>1. m.end \in j..Len(t) /\ m.end > i
        BY <1>1, <2>1, <2>3, TokenInside
      <4>2. j \in Nat
        BY <1>1, <2>1, TokenLeads
      <4> QED
        BY <1>1, <4>1, <4>2
    <3>3. PICK l \in Nat, e \in Nat : l = s.last /\ e = k - 1 /\ l <= e /\ e < i
      BY <1>1, <1>2
    <3>4. /\ Gives(t, l, i, m, map, json) = SubSeq(t, l + 1, e) \o Gives(t, e, i, m, map, json)
          /\ SubSeq(t, l + 1, e) \in Seq(W) /\ Gives(t, e, i, m, map, json) \in Seq(W)
      <4>1. Reaches(t, l, e, i, m, map, json, W)
        BY <1>1, <3>2, <3>3 DEF Reaches
      <4>2. GivesMore(t, l, e, i, m, map, json, W)
        BY <4>1, Given
      <4> QED
        BY <4>2 DEF GivesMore
    <3>5. PICK x \in Seq(W), y \in Seq(W), g \in Seq(W) :
            x = s.out /\ y = SubSeq(t, l + 1, e) /\ g = Gives(t, e, i, m, map, json)
      BY <1>2, <3>4
    <3>6. nb.out = x \o (y \o g) /\ nc.out = <<>> \o g /\ u = x \o y
      BY <2>8, <2>9, <3>1, <3>3, <3>4, <3>5 DEF Upto
    <3>7. x \o (y \o g) = (x \o y) \o g /\ <<>> \o g = g
      <4>1. Three(W, x, y, g)
        BY DEF Three
      <4> QED
        BY <4>1, Concat
    <3> QED
      BY <2>7, <3>6, <3>7 DEF Same
  <2>10. CASE rb.last = rc.last /\ rb.out = u \o rc.out
    <3>1. PICK g \in Seq(W), x \in Seq(W) : g = Gives(t, rc.last, i, m, map, json) /\ x = rc.out
      BY <1>2, <2>6
    <3>2. nb.out = (u \o x) \o g /\ nc.out = x \o g
      BY <2>8, <2>10, <3>1
    <3>3. (u \o x) \o g = u \o (x \o g)
      <4>1. Three(W, u, x, g)
        BY DEF Three
      <4> QED
        BY <4>1, Concat
    <3> QED
      BY <2>7, <3>2, <3>3 DEF Same
  <2> QED
    BY <2>9, <2>10 DEF Same
<1> QED
  BY <1>4, <1>5

\* A scan to the end, from a place that it comes to outside every token, is a new one.
SplitsAt(b, t, k, map, json, W) ==
    /\ Upto(t, b[k - 1], k - 1) \in Seq(W) /\ Whole(t, k, map, json) \in Seq(W)
    /\ Upto(t, b[Len(t)], Len(t)) = Upto(t, b[k - 1], k - 1) \o Whole(t, k, map, json)

\* Where a scan stands outside every token, the whole is what it has made and what a new scan
\* from there gives.
LEMMA Split ==
    ASSUME NEW W, NEW t, NEW from, NEW map, NEW json, NEW b, NEW k,
           Ready(t, from, map, json, W), Scans(b, t, from, map, json, TRUE), Comes(b, t, from, k)
    PROVE  SplitsAt(b, t, k, map, json, W)
<1>1. /\ t \in Seq(W) /\ from \in 1..(Len(t) + 1) /\ json \in BOOLEAN /\ Fits(map, json, W)
      /\ k \in from..(Len(t) + 1) /\ b[k - 1].last < k
  BY DEF Ready, Comes
<1>2. k \in 1..(Len(t) + 1) /\ Len(t) \in Nat /\ k - 1 \in Nat /\ from \in Nat \ {0} /\ k - 1 \in (from - 1)..Len(t)
  BY <1>1
<1>3. Ready(t, k, map, json, W)
  BY <1>1, <1>2 DEF Ready
<1>4. PICK c : Scans(c, t, k, map, json, TRUE) /\ replaceFrom(t, k, map, json, TRUE) = c[Len(t)]
  <2>1. HasScan(t, k, map, json, TRUE)
    BY <1>3, Scanned, Zenon
  <2> QED
    BY <2>1, Zenon DEF HasScan
<1>5. PICK final : final = TRUE
  OBVIOUS
<1>6. \A i \in (from - 1)..Len(t) : b[i] \in Progress(t, from, W) /\ ~b[i].stopped
  <2>1. Scans(b, t, from, map, json, final)
    BY <1>5
  <2> QED
    BY <1>5, <2>1, ScanTypes
<1>7. \A i \in (k - 1)..Len(t) : c[i] \in Progress(t, k, W) /\ ~c[i].stopped
  <2>1. Scans(c, t, k, map, json, final)
    BY <1>4, <1>5
  <2> QED
    BY <1>3, <1>5, <2>1, ScanTypes
<1>8. PICK s \in Progress(t, from, W) : s = b[k - 1]
  BY <1>2, <1>6
<1>9. s.last < k /\ s.last \in Nat /\ s.out \in Seq(W)
  BY <1>1, <1>2, <1>8 DEF Progress
<1>10. PICK raw \in Seq(W), u \in Seq(W) : raw = SubSeq(t, s.last + 1, k - 1) /\ u = s.out \o raw /\ u = Upto(t, s, k - 1)
  <2>1. s.last + 1 \in Nat \ {0} /\ k - 1 \in Int /\ s.last + 1 <= (k - 1) + 1 /\ k - 1 <= Len(t)
    BY <1>2, <1>9
  <2>2. SubSeq(t, s.last + 1, k - 1) \in Seq(W)
    BY <1>1, <2>1, Part
  <2>3. s.out \o SubSeq(t, s.last + 1, k - 1) \in Seq(W)
    BY <1>9, <2>2
  <2> QED
    BY <2>2, <2>3 DEF Upto
<1> DEFINE E == {n \in Nat : k - 1 + n <= Len(t) => Same(b[k - 1 + n], c[k - 1 + n], s, k, u)}
<1>11. 0 \in E
  <2>1. k - 1 + 0 = k - 1 /\ c[k - 1] = Begin(k)
    BY <1>2, <1>4 DEF Scans
  <2>2. Same(b[k - 1], c[k - 1], s, k, u)
    BY <1>8, <2>1 DEF Same
  <2> QED
    BY <2>1, <2>2
<1>12. ASSUME NEW n \in Nat, n \in E PROVE n + 1 \in E
  <2> SUFFICES ASSUME k - 1 + (n + 1) <= Len(t) PROVE Same(b[k - 1 + (n + 1)], c[k - 1 + (n + 1)], s, k, u)
    OBVIOUS
  <2>1. PICK i \in k..Len(t) : i = k - 1 + (n + 1) /\ i - 1 = k - 1 + n
    BY <1>2
  <2>2. PICK rb, rc : rb = b[i - 1] /\ rc = c[i - 1] /\ Same(rb, rc, s, k, u)
    <3>1. k - 1 + n <= Len(t)
      BY <1>2
    <3> QED
      BY <1>12, <2>1, <3>1
  <2> HIDE DEF E
  <2>3. i - 1 \in (from - 1)..Len(t) /\ i \in from..Len(t) /\ i - 1 \in (k - 1)..Len(t) /\ k \in from..Len(t)
    BY <1>1, <1>2
  <2>4. Stands(rb, i, t, from, W) /\ ~rb.stopped /\ Stands(rc, i, t, k, W) /\ ~rc.stopped /\ Stands(s, k, t, from, W)
    BY <1>6, <1>7, <2>2, <2>3 DEF Stands
  <2>5. b[i] = Replace(rb, t, i, map, json, TRUE) /\ c[i] = Replace(rc, t, i, map, json, TRUE)
    BY <1>4, <2>2, <2>3 DEF Scans
  <2>6. Same(Replace(rb, t, i, map, json, TRUE), Replace(rc, t, i, map, json, TRUE), s, k, u)
    BY <1>3, <1>9, <1>10, <2>2, <2>4, SplitStep, Zenon
  <2> QED
    BY <2>1, <2>5, <2>6
<1>13. E = Nat
  <2>1. E \in SUBSET Nat
    OBVIOUS
  <2> HIDE DEF E
  <2> QED
    BY <1>11, <1>12, <2>1, Induction
<1>14. Same(b[Len(t)], c[Len(t)], s, k, u)
  <2>1. PICK n \in Nat : k - 1 + n = Len(t)
    <3>1. Len(t) - (k - 1) \in Nat /\ k - 1 + (Len(t) - (k - 1)) = Len(t)
      BY <1>2
    <3> QED
      BY <3>1
  <2> HIDE DEF E
  <2>2. n \in E
    BY <1>13
  <2> QED
    BY <1>2, <2>1, <2>2 DEF E
<1> HIDE DEF E
<1>15. PICK rb \in Progress(t, from, W), rc \in Progress(t, k, W) : rb = b[Len(t)] /\ rc = c[Len(t)]
  <2>1. Len(t) \in (from - 1)..Len(t) /\ Len(t) \in (k - 1)..Len(t)
    BY <1>2
  <2> QED
    BY <1>6, <1>7, <2>1
<1>16. /\ rb.last \in Nat /\ rc.last \in Nat /\ rb.out \in Seq(W) /\ rc.out \in Seq(W)
       /\ rb.last <= Len(t) /\ rc.last <= Len(t)
  BY <1>2, <1>15 DEF Progress
<1>17. PICK x \in Seq(W), y \in Seq(W) : x = SubSeq(t, rc.last + 1, Len(t)) /\ y = rc.out
  <2>1. rc.last + 1 \in Nat \ {0} /\ Len(t) \in Int /\ rc.last + 1 <= Len(t) + 1
    BY <1>2, <1>16
  <2>2. SubSeq(t, rc.last + 1, Len(t)) \in Seq(W)
    BY <1>1, <2>1, Part
  <2> QED
    BY <1>16, <2>2
<1>18. Whole(t, k, map, json) = y \o x /\ y \o x \in Seq(W)
  <2>1. PICK r : r = replaceFrom(t, k, map, json, TRUE)
    OBVIOUS
  <2>2. r = rc
    BY <1>4, <1>15, <2>1, Zenon
  <2>3. Whole(t, k, map, json) = Upto(t, r, Len(t))
    BY <2>1, Zenon DEF Whole
  <2>4. Upto(t, r, Len(t)) = y \o x
    BY <1>17, <2>2 DEF Upto
  <2> QED
    BY <2>3, <2>4
<1>19. Upto(t, rb, Len(t)) = u \o (y \o x)
  <2>1. CASE rb = s /\ rc = Begin(k)
    <3>1. rc.last = k - 1 /\ y = <<>>
      BY <1>2, <1>17, <2>1 DEF Begin
    <3>2. raw \o x = SubSeq(t, s.last + 1, Len(t))
      <4>1. PICK a \in Nat \ {0}, e \in Nat : a = s.last + 1 /\ e = k - 1 /\ a <= e + 1 /\ e <= Len(t)
        BY <1>2, <1>9
      <4>2. Meet(W, t, a, e, Len(t))
        BY <1>1, <1>2, <4>1 DEF Meet
      <4>3. Add(t, a, e, Len(t))
        BY <4>2, Parts
      <4> QED
        BY <1>10, <1>17, <3>1, <4>1, <4>3 DEF Add
    <3>3. PICK z \in Seq(W) : z = s.out
      BY <1>9
    <3>4. Upto(t, rb, Len(t)) = z \o (raw \o x) /\ u = z \o raw
      BY <1>10, <2>1, <3>2, <3>3 DEF Upto
    <3>5. z \o (raw \o x) = (z \o raw) \o x /\ <<>> \o x = x
      <4>1. Three(W, z, raw, x)
        BY DEF Three
      <4> QED
        BY <4>1, Concat
    <3> QED
      BY <3>1, <3>4, <3>5
  <2>2. CASE rb.last = rc.last /\ rb.out = u \o rc.out
    <3>1. Upto(t, rb, Len(t)) = (u \o y) \o x
      BY <1>17, <2>2 DEF Upto
    <3>2. (u \o y) \o x = u \o (y \o x)
      <4>1. Three(W, u, y, x)
        BY DEF Three
      <4> QED
        BY <4>1, Concat
    <3> QED
      BY <3>1, <3>2
  <2> QED
    BY <1>14, <1>15, <2>1, <2>2 DEF Same
<1> QED
  BY <1>8, <1>10, <1>15, <1>18, <1>19 DEF SplitsAt

\* From k to e every token is one of a placeholder that was not issued, and ends by e.
Plain(t, k, e, map, json) ==
    \A q \in k..e : \A at, j : HasToken(t, q, json, at, j) =>
        Token(t, at, j, json).core \notin DOMAIN map /\ Token(t, at, j, json).end <= e

\* That part goes out as it is.
Unchanged(t, k, e, map, json, W) ==
    /\ Whole(t, k, map, json) = SubSeq(t, k, e) \o Whole(t, e + 1, map, json)
    /\ SubSeq(t, k, e) \in Seq(W) /\ Whole(t, e + 1, map, json) \in Seq(W) /\ Whole(t, k, map, json) \in Seq(W)

\* A scan to the end leaves such a part of the text as it is.
LEMMA Raw ==
    ASSUME NEW W, NEW t, NEW k, NEW e, NEW map, NEW json,
           Ready(t, k, map, json, W), e \in (k - 1)..Len(t), Plain(t, k, e, map, json)
    PROVE  Unchanged(t, k, e, map, json, W)
<1>1. t \in Seq(W) /\ k \in 1..(Len(t) + 1) /\ json \in BOOLEAN /\ Fits(map, json, W)
  BY DEF Ready
<1>2. Len(t) \in Nat /\ k \in Nat \ {0} /\ k - 1 \in Nat /\ e \in Nat /\ k <= e + 1 /\ e <= Len(t)
  BY <1>1
<1>3. PICK b : Scans(b, t, k, map, json, TRUE) /\ replaceFrom(t, k, map, json, TRUE) = b[Len(t)]
  <2>1. HasScan(t, k, map, json, TRUE)
    BY Scanned, Zenon
  <2> QED
    BY <2>1, Zenon DEF HasScan
<1>4. \A i \in (k - 1)..Len(t) : b[i] \in Progress(t, k, W) /\ ~b[i].stopped
  <2>1. PICK final : final = TRUE
    OBVIOUS
  <2>2. Scans(b, t, k, map, json, final)
    BY <1>3, <2>1
  <2> QED
    BY <2>1, <2>2, ScanTypes
<1>5. PICK raw \in Seq(W) : raw = SubSeq(t, k, e)
  <2>1. SubSeq(t, k, e) \in Seq(W)
    BY <1>1, <1>2, Part
  <2> QED
    BY <2>1
<1> DEFINE Good(i) == b[i].last <= e /\ Upto(t, b[i], e) = raw
           E == {n \in Nat : k - 1 + n <= e => Good(k - 1 + n)}
<1>6. 0 \in E
  <2>1. b[k - 1] = Begin(k) /\ k - 1 + 0 = k - 1
    BY <1>2, <1>3 DEF Scans
  <2>2. Begin(k).last = k - 1 /\ Begin(k).out = <<>> /\ (k - 1) + 1 = k /\ k - 1 <= e
    BY <1>2 DEF Begin
  <2>3. Upto(t, Begin(k), e) = <<>> \o raw
    BY <1>5, <2>2 DEF Upto
  <2>4. <<>> \o raw = raw
    OBVIOUS
  <2> QED
    BY <2>1, <2>2, <2>3, <2>4
<1>7. ASSUME NEW n \in Nat, n \in E PROVE n + 1 \in E
  <2> SUFFICES ASSUME k - 1 + (n + 1) <= e PROVE Good(k - 1 + (n + 1))
    OBVIOUS
  <2>1. PICK i \in k..e : i = k - 1 + (n + 1) /\ i - 1 = k - 1 + n
    BY <1>2
  <2>2. PICK r : r = b[i - 1] /\ r.last <= e /\ Upto(t, r, e) = raw
    <3>1. k - 1 + n <= e
      BY <1>2
    <3> QED
      BY <1>7, <2>1, <3>1
  <2> HIDE DEF E
  <2>3. i \in Nat \ {0} /\ i \in k..Len(t) /\ i - 1 \in (k - 1)..Len(t)
    BY <1>2
  <2>4. Stands(r, i, t, k, W) /\ ~r.stopped
    BY <1>4, <2>2, <2>3 DEF Stands
  <2>5. r.last \in Nat /\ r.out \in Seq(W)
    BY <1>2, <2>4 DEF Stands, Progress
  <2>6. b[i] = Replace(r, t, i, map, json, TRUE)
    BY <1>3, <2>2, <2>3 DEF Scans
  <2>7. CASE i <= r.last \/ TokenAt(t, i, json) = NoMatch
    <3>1. b[i] = r
      BY <2>6, <2>7 DEF Replace
    <3> QED
      BY <2>1, <2>2, <3>1
  <2>8. CASE r.last < i /\ TokenAt(t, i, json) # NoMatch
    <3>1. PICK at, j : HasToken(t, i, json, at, j)
      BY <1>1, <2>3, <2>8, TokenIs
    <3>2. PICK m : m = Token(t, at, j, json)
      OBVIOUS
    <3>3. ~r.stopped /\ r.last < i
      BY <2>4, <2>8
    <3>4. /\ Replace(r, t, i, map, json, TRUE) = Moved(r, t, i, Token(t, at, j, json), map, json)
          /\ Gives(t, r.last, i, Token(t, at, j, json), map, json) \in Seq(W)
      BY <2>4, <3>3, <3>1, MovesOn, Zenon
    <3>5. b[i] = Moved(r, t, i, m, map, json)
      BY <2>6, <3>2, <3>4
    <3>6. m.core \notin DOMAIN map /\ m.end <= e
      BY <3>1, <3>2 DEF Plain
    <3>7. m.end \in Nat /\ m.end > i /\ m.end <= Len(t)
      <4>1. j \in Nat /\ Token(t, at, j, json).end \in j..Len(t) /\ Token(t, at, j, json).end > i
        BY <1>1, <2>3, <3>1, TokenLeads, TokenInside
      <4> QED
        BY <1>2, <3>2, <4>1
    <3>8. PICK a \in Nat \ {0}, d \in Nat : a = r.last + 1 /\ d = m.end /\ a <= d + 1 /\ d <= e
      BY <2>3, <2>5, <2>8, <3>6, <3>7
    <3>9. /\ SubSeq(t, a, d) \in Seq(W) /\ SubSeq(t, d + 1, e) \in Seq(W) /\ Add(t, a, d, e)
      <4>1. Meet(W, t, a, d, e)
        BY <1>1, <1>2, <3>8 DEF Meet
      <4>2. d + 1 \in Nat \ {0} /\ d + 1 <= e + 1 /\ d <= Len(t) /\ d \in Int /\ e \in Int
        BY <1>2, <3>8
      <4>3. SubSeq(t, a, d) \in Seq(W)
        BY <1>1, <3>8, <4>2, Part
      <4>4. SubSeq(t, d + 1, e) \in Seq(W)
        BY <1>1, <1>2, <4>2, Part
      <4> QED
        BY <4>1, <4>3, <4>4, Parts
    <3>10. PICK x \in Seq(W), y \in Seq(W), z \in Seq(W) :
             /\ x = r.out /\ y = SubSeq(t, a, d) /\ z = SubSeq(t, d + 1, e) /\ y \o z = SubSeq(t, a, e)
      BY <2>5, <3>9 DEF Add
    <3>11. b[i].last = d /\ b[i].out = x \o y
      <4>1. Gives(t, r.last, i, m, map, json) = y
        <5>1. Gives(t, r.last, i, m, map, json) = SubSeq(t, r.last + 1, m.end)
          BY <3>6, Zenon DEF Gives
        <5> QED
          BY <3>8, <3>10, <5>1, Zenon
      <4>2. b[i].last = m.end /\ b[i].out = r.out \o Gives(t, r.last, i, m, map, json)
        <5>1. PICK nr, g : nr = b[i] /\ g = Gives(t, r.last, i, m, map, json)
          OBVIOUS
        <5>2. nr = [out |-> r.out \o g, last |-> m.end, stopped |-> FALSE]
          BY <3>5, <5>1 DEF Moved
        <5>3. nr.last = m.end /\ nr.out = r.out \o g
          BY <5>2
        <5> QED
          BY <5>1, <5>3, Zenon
      <4> QED
        BY <3>8, <3>10, <4>1, <4>2, Zenon
    <3>12. Upto(t, b[i], e) = (x \o y) \o z
      BY <3>10, <3>11 DEF Upto
    <3>13. raw = x \o (y \o z)
      BY <2>2, <3>8, <3>10 DEF Upto
    <3>14. (x \o y) \o z = x \o (y \o z)
      <4>1. Three(W, x, y, z)
        BY DEF Three
      <4> QED
        BY <4>1, Concat
    <3> QED
      BY <2>1, <3>8, <3>11, <3>12, <3>13, <3>14
  <2> QED
    BY <2>3, <2>5, <2>7, <2>8
<1>8. E = Nat
  <2>1. E \in SUBSET Nat
    OBVIOUS
  <2> HIDE DEF E
  <2> QED
    BY <1>6, <1>7, <2>1, Induction
<1>9. b[e].last <= e /\ Upto(t, b[e], e) = raw
  <2>1. PICK n \in Nat : k - 1 + n = e
    <3>1. e - (k - 1) \in Nat /\ k - 1 + (e - (k - 1)) = e
      BY <1>2
    <3> QED
      BY <3>1
  <2> HIDE DEF E
  <2>2. n \in E
    BY <1>8
  <2> QED
    BY <1>2, <2>1, <2>2 DEF E
<1> HIDE DEF E
<1>10. PICK d : d = e + 1 /\ d - 1 = e /\ d \in k..(Len(t) + 1)
  BY <1>2
<1>11. Comes(b, t, k, d)
  <2>1. b[e].last \in Nat
    <3>1. e \in (k - 1)..Len(t)
      BY <1>2
    <3> QED
      BY <1>2, <1>4, <3>1 DEF Progress
  <2> QED
    BY <1>2, <1>9, <1>10, <2>1 DEF Comes
<1>12. SplitsAt(b, t, d, map, json, W)
  BY <1>3, <1>11, Split, Zenon
<1>13. Upto(t, b[Len(t)], Len(t)) = raw \o Whole(t, d, map, json) /\ Whole(t, d, map, json) \in Seq(W)
  BY <1>9, <1>10, <1>12 DEF SplitsAt
<1>14. Whole(t, k, map, json) = Upto(t, b[Len(t)], Len(t))
  BY <1>3, Zenon DEF Whole
<1> QED
  BY <1>5, <1>10, <1>13, <1>14 DEF Unchanged

\* A part that is left as it is may be cut anywhere.
PlainTo(t, q, h, e, map, json, W) ==
    /\ Ready(t, q, map, json, W) /\ h \in Nat /\ e \in Nat /\ q - 1 <= h /\ h <= e /\ e <= Len(t)
    /\ Plain(t, q, e, map, json)

\* The front of a part that is left as it is goes out unchanged.
LEMMA Passes ==
    ASSUME NEW W, NEW t, NEW q, NEW h, NEW e, NEW map, NEW json, PlainTo(t, q, h, e, map, json, W)
    PROVE  Unchanged(t, q, h, map, json, W)
<1>1. /\ Ready(t, q, map, json, W) /\ h \in Nat /\ e \in Nat /\ q - 1 <= h /\ h <= e /\ e <= Len(t)
      /\ Plain(t, q, e, map, json)
  BY DEF PlainTo
<1>2. t \in Seq(W) /\ q \in Nat \ {0} /\ Len(t) \in Nat /\ json \in BOOLEAN /\ Fits(map, json, W)
  BY <1>1 DEF Ready
<1>3. Unchanged(t, q, e, map, json, W)
  <2>1. e \in (q - 1)..Len(t)
    BY <1>1, <1>2
  <2> QED
    BY <1>1, <2>1, Raw
<1>4. PICK k : k = h + 1 /\ k \in Nat \ {0} /\ k <= e + 1 /\ q <= k
  BY <1>1, <1>2
<1>5. Unchanged(t, k, e, map, json, W)
  <2>1. Ready(t, k, map, json, W)
    <3>1. k \in 1..(Len(t) + 1)
      BY <1>1, <1>2, <1>4
    <3> QED
      BY <1>2, <3>1 DEF Ready
  <2>2. e \in (k - 1)..Len(t)
    BY <1>1, <1>2, <1>4
  <2>3. Plain(t, k, e, map, json)
    <3>1. \A i \in k..e : i \in q..e
      BY <1>1, <1>2, <1>4
    <3> QED
      BY <1>1, <3>1 DEF Plain
  <2> QED
    BY <2>1, <2>2, <2>3, Raw
<1>6. /\ Whole(t, q, map, json) = SubSeq(t, q, e) \o Whole(t, e + 1, map, json)
      /\ Whole(t, k, map, json) = SubSeq(t, k, e) \o Whole(t, e + 1, map, json)
      /\ Whole(t, e + 1, map, json) \in Seq(W) /\ Whole(t, q, map, json) \in Seq(W) /\ Whole(t, k, map, json) \in Seq(W)
      /\ SubSeq(t, k, e) \in Seq(W)
  BY <1>3, <1>5 DEF Unchanged
<1>7. SubSeq(t, q, h) \in Seq(W)
  <2>1. h \in Int /\ q <= h + 1 /\ h <= Len(t)
    BY <1>1, <1>2
  <2> QED
    BY <1>2, <2>1, Part
<1>8. Add(t, q, h, e)
  <2>1. Meet(W, t, q, h, e)
    BY <1>1, <1>2 DEF Meet
  <2> QED
    BY <2>1, Parts
<1>9. PICK x \in Seq(W), y \in Seq(W), z \in Seq(W) :
        x = SubSeq(t, q, h) /\ y = SubSeq(t, k, e) /\ z = Whole(t, e + 1, map, json)
  BY <1>6, <1>7
<1>10. x \o y = SubSeq(t, q, e)
  BY <1>4, <1>8, <1>9, Zenon DEF Add
<1>11. (x \o y) \o z = x \o (y \o z)
  <2>1. Three(W, x, y, z)
    BY DEF Three
  <2> QED
    BY <2>1, Concat
<1>12. Whole(t, q, map, json) = x \o Whole(t, k, map, json)
  BY <1>6, <1>9, <1>10, <1>11, Zenon
<1> QED
  BY <1>4, <1>6, <1>7, <1>9, <1>12, Zenon DEF Unchanged

\* What a scan has made stays; the rest is scanned from where the scan has come to.
Rests(b, t, from, p, map, json, W) ==
    /\ b[p - 1].out \in Seq(W) /\ b[p - 1].last + 1 \in from..p
    /\ Whole(t, b[p - 1].last + 1, map, json) \in Seq(W)
    /\ Whole(t, from, map, json) = b[p - 1].out \o Whole(t, b[p - 1].last + 1, map, json)
    /\ \A q \in (b[p - 1].last + 1)..(p - 1) : TokenAt(t, q, json) = NoMatch

\* b is the scan of a text that is fit for one.
IsScan(b, t, from, map, json, final, W) ==
    /\ Ready(t, from, map, json, W) /\ Scans(b, t, from, map, json, final)
    /\ replaceFrom(t, from, map, json, final) = b[Len(t)]

\* At every place a scan to the end has come to, the whole is what it has made and what a new
\* scan from the end of its last token gives.
LEMMA Resting ==
    ASSUME NEW W, NEW t, NEW from, NEW map, NEW json, NEW b, NEW p,
           IsScan(b, t, from, map, json, TRUE, W), Comes(b, t, from, p)
    PROVE  Rests(b, t, from, p, map, json, W)
<1>1. /\ Ready(t, from, map, json, W) /\ Scans(b, t, from, map, json, TRUE)
      /\ replaceFrom(t, from, map, json, TRUE) = b[Len(t)]
  BY Zenon DEF IsScan
<1>2. /\ t \in Seq(W) /\ from \in Nat \ {0} /\ Len(t) \in Nat /\ json \in BOOLEAN /\ Fits(map, json, W)
      /\ p \in from..(Len(t) + 1) /\ b[p - 1].last < p /\ p \in Nat \ {0} /\ p - 1 \in (from - 1)..Len(t)
      /\ p - 1 \in Nat
  BY <1>1 DEF Ready, Comes
<1>3. PICK s \in Progress(t, from, W) :
        s = b[p - 1] /\ \A q \in (s.last + 1)..(p - 1) : TokenAt(t, q, json) = NoMatch
  <2>1. PICK final : final = TRUE
    OBVIOUS
  <2>2. Scans(b, t, from, map, json, final)
    BY <1>1, <2>1
  <2>3. /\ b[p - 1] \in Progress(t, from, W)
        /\ \A q \in (b[p - 1].last + 1)..(p - 1) : TokenAt(t, q, json) = NoMatch
    BY <1>1, <1>2, <2>1, <2>2, ScanTypes
  <2> QED
    BY <2>3
<1>4. PICK k : k = s.last + 1 /\ k \in from..p /\ k \in Nat \ {0} /\ k <= (p - 1) + 1 /\ s.out \in Seq(W)
  <2>1. s.last \in (from - 1)..Len(t) /\ s.out \in Seq(W)
    BY DEF Progress
  <2>2. s.last < p
    BY <1>2, <1>3
  <2> QED
    BY <1>2, <2>1, <2>2
<1>5. Unchanged(t, k, p - 1, map, json, W)
  <2>1. Ready(t, k, map, json, W)
    <3>1. k \in 1..(Len(t) + 1)
      BY <1>2, <1>4
    <3> QED
      BY <1>2, <3>1 DEF Ready
  <2>2. p - 1 \in (k - 1)..Len(t)
    BY <1>2, <1>4
  <2>3. Plain(t, k, p - 1, map, json)
    <3> SUFFICES ASSUME NEW q \in k..(p - 1), NEW at, NEW j, HasToken(t, q, json, at, j) PROVE FALSE
      BY DEF Plain
    <3>1. q \in Nat \ {0}
      BY <1>2, <1>4
    <3>2. TokenAt(t, q, json) = Token(t, at, j, json)
      BY <1>2, <3>1, TokenIs
    <3>3. Token(t, at, j, json) # NoMatch
      BY <1>2, <3>1, TokenInside
    <3> QED
      BY <1>3, <1>4, <3>2, <3>3
  <2> QED
    BY <2>1, <2>2, <2>3, Raw
<1>6. SplitsAt(b, t, p, map, json, W)
  BY <1>1, Split, Zenon
<1>7. PICK x \in Seq(W), y \in Seq(W), z \in Seq(W) :
        x = s.out /\ y = SubSeq(t, k, p - 1) /\ z = Whole(t, p, map, json)
  BY <1>4, <1>5, <1>6 DEF Unchanged, SplitsAt
<1>8. Whole(t, k, map, json) = y \o z /\ Whole(t, k, map, json) \in Seq(W)
  <2>1. p - 1 + 1 = p
    BY <1>2
  <2>2. /\ Whole(t, k, map, json) = SubSeq(t, k, p - 1) \o Whole(t, p - 1 + 1, map, json)
        /\ Whole(t, k, map, json) \in Seq(W)
    BY <1>5 DEF Unchanged
  <2> QED
    BY <1>7, <2>1, <2>2
<1>9. Whole(t, from, map, json) = (x \o y) \o z
  <2>1. Upto(t, b[p - 1], p - 1) = x \o y
    BY <1>3, <1>4, <1>7, Zenon DEF Upto
  <2>2. Upto(t, b[Len(t)], Len(t)) = Upto(t, b[p - 1], p - 1) \o Whole(t, p, map, json)
    BY <1>6 DEF SplitsAt
  <2>3. Whole(t, from, map, json) = Upto(t, b[Len(t)], Len(t))
    BY <1>1, Zenon DEF Whole
  <2> QED
    BY <1>7, <2>1, <2>2, <2>3, Zenon
<1>10. (x \o y) \o z = x \o (y \o z)
  <2>1. Three(W, x, y, z)
    BY DEF Three
  <2> QED
    BY <2>1, Concat
<1>11. Whole(t, from, map, json) = x \o Whole(t, k, map, json)
  BY <1>8, <1>9, <1>10, Zenon
<1> QED
  BY <1>3, <1>4, <1>7, <1>8, <1>11, Zenon DEF Rests

-----------------------------------------------------------------------------
(* A text and a longer one that begins with it.                             *)

\* The text t goes on from x.
Longer(x, t, W) ==
    x \in Seq(W) /\ t \in Seq(W) /\ Len(x) <= Len(t) /\ \A i \in 1..Len(x) : t[i] = x[i]

\* Delimiters and word starts are the same in both, as far as the shorter one goes.
LEMMA SameDelimiters ==
    ASSUME NEW W, NEW x, NEW t, Longer(x, t, W), NEW i \in Nat \ {0}, NEW json \in BOOLEAN, NEW w \in {1, 2}
    PROVE  /\ OpenAt(x, i, json, w) <=> OpenAt(t, i, json, w) /\ i + w - 1 <= Len(x)
           /\ CloseAt(x, i, json, w) <=> CloseAt(t, i, json, w) /\ i + w - 1 <= Len(x)
           /\ i <= Len(x) => (WordStarts(x, i, json) <=> WordStarts(t, i, json))
<1>1. Len(x) \in Nat /\ Len(t) \in Nat /\ Len(x) <= Len(t) /\ \A k \in 1..Len(x) : t[k] = x[k]
  BY DEF Longer
<1>2. /\ i <= Len(x) => t[i] = x[i] /\ i <= Len(t)
      /\ i + 1 <= Len(x) => t[i] = x[i] /\ t[i + 1] = x[i + 1] /\ i + 1 <= Len(t)
      /\ i + 1 - 1 = i /\ i + 2 - 1 = i + 1
  BY <1>1
<1>3. /\ OpenAt(x, i, json, 1) <=> OpenAt(t, i, json, 1) /\ i <= Len(x)
      /\ OpenAt(x, i, json, 2) <=> OpenAt(t, i, json, 2) /\ i + 1 <= Len(x)
      /\ CloseAt(x, i, json, 1) <=> CloseAt(t, i, json, 1) /\ i <= Len(x)
      /\ CloseAt(x, i, json, 2) <=> CloseAt(t, i, json, 2) /\ i + 1 <= Len(x)
  BY <1>2 DEF OpenAt, CloseAt
<1>4. ASSUME i <= Len(x) PROVE WordStarts(x, i, json) <=> WordStarts(t, i, json)
  <2>1. i # 1 => t[i - 1] = x[i - 1]
    BY <1>1, <1>4
  <2>2. i > 2 => t[i - 2] = x[i - 2]
    BY <1>1, <1>4
  <2>3. i > 2 => i # 1
    OBVIOUS
  <2> QED
    BY <2>1, <2>2, <2>3, Zenon DEF WordStarts
<1> QED
  BY <1>2, <1>3, <1>4

\* A core of the shorter text that does not end with it is one of the longer; a core of
\* the longer that the shorter has two units of is one of the shorter, as far as it goes.
LEMMA SameCores ==
    ASSUME NEW W, NEW x, NEW t, Longer(x, t, W), NEW at, NEW j
    PROVE  /\ IsCore(x, at, j) /\ j < Len(x) => IsCore(t, at, j)
           /\ IsCore(t, at, j) /\ j <= Len(x) => IsCore(x, at, j)
           /\ IsCore(t, at, j) /\ at < Len(x) /\ Len(x) <= j => IsCore(x, at, Len(x))
<1>1. Len(x) \in Nat /\ Len(t) \in Nat /\ Len(x) <= Len(t) /\ \A k \in 1..Len(x) : t[k] = x[k]
  BY DEF Longer
<1>2. ASSUME IsCore(x, at, j), j < Len(x) PROVE IsCore(t, at, j)
  <2>1. /\ at \in 1..Len(x) /\ j \in (at + 1)..Len(x) /\ x[at] \in Classes
        /\ \A k \in (at + 1)..j : IsDigit(x[k])
        /\ ~IsWord(x[j + 1])
    BY <1>2 DEF IsCore
  <2>2. at \in 1..Len(t) /\ j \in (at + 1)..Len(t) /\ t[at] \in Classes
    BY <1>1, <2>1
  <2>3. \A k \in (at + 1)..j : IsDigit(t[k])
    BY <1>1, <2>1
  <2>4. t[j + 1] = x[j + 1]
    BY <1>1, <1>2, <2>1
  <2> QED
    BY <2>1, <2>2, <2>3, <2>4 DEF IsCore
<1>3. ASSUME IsCore(t, at, j), j <= Len(x) PROVE IsCore(x, at, j)
  <2>1. /\ at \in 1..Len(t) /\ j \in (at + 1)..Len(t) /\ t[at] \in Classes
        /\ \A k \in (at + 1)..j : IsDigit(t[k])
        /\ j < Len(t) => ~IsWord(t[j + 1])
    BY <1>3 DEF IsCore
  <2>2. at \in 1..Len(x) /\ j \in (at + 1)..Len(x) /\ x[at] \in Classes
    BY <1>1, <1>3, <2>1
  <2>3. \A k \in (at + 1)..j : IsDigit(x[k])
    BY <1>1, <1>3, <2>1
  <2>4. j < Len(x) => t[j + 1] = x[j + 1] /\ j < Len(t)
    BY <1>1, <1>3, <2>1
  <2> QED
    BY <2>1, <2>2, <2>3, <2>4 DEF IsCore
<1>4. ASSUME IsCore(t, at, j), at < Len(x), Len(x) <= j PROVE IsCore(x, at, Len(x))
  <2>1. /\ at \in 1..Len(t) /\ j \in (at + 1)..Len(t) /\ t[at] \in Classes
        /\ \A k \in (at + 1)..j : IsDigit(t[k])
    BY <1>4 DEF IsCore
  <2>2. at \in 1..Len(x) /\ Len(x) \in (at + 1)..Len(x) /\ x[at] \in Classes
    BY <1>1, <1>4, <2>1
  <2>3. \A k \in (at + 1)..Len(x) : IsDigit(x[k])
    BY <1>1, <1>4, <2>1
  <2> QED
    BY <1>1, <2>2, <2>3 DEF IsCore
<1> QED
  BY <1>2, <1>3, <1>4

\* So are the tokens.
LEMMA SameTokens ==
    ASSUME NEW W, NEW x, NEW t, Longer(x, t, W), NEW i \in Nat \ {0}, i <= Len(x), NEW json \in BOOLEAN,
           NEW at, NEW j
    PROVE  /\ HasToken(x, i, json, at, j) /\ j < Len(x) => HasToken(t, i, json, at, j)
           /\ HasToken(t, i, json, at, j) /\ j <= Len(x) => HasToken(x, i, json, at, j)
           /\ HasToken(t, i, json, at, j) /\ at < Len(x) /\ Len(x) <= j => HasToken(x, i, json, at, Len(x))
           /\ Starts(x, i, json, at) => Starts(t, i, json, at)
<1>1. Len(x) \in Nat /\ Len(t) \in Nat /\ Len(x) <= Len(t)
  BY DEF Longer
<1>2. Starts(x, i, json, at) => Starts(t, i, json, at)
  BY SameDelimiters DEF Starts
<1>3. ASSUME Starts(t, i, json, at), at \in Nat, at <= Len(x) PROVE Starts(x, i, json, at)
  <2>1. ASSUME NEW w \in {1, 2}, OpenAt(t, i, json, w), at = i + w PROVE OpenAt(x, i, json, w)
    <3>1. i + w - 1 <= Len(x)
      BY <1>1, <1>3, <2>1
    <3> QED
      BY <2>1, <3>1, SameDelimiters
  <2>2. WordStarts(t, i, json) => WordStarts(x, i, json)
    BY SameDelimiters
  <2> QED
    BY <1>3, <2>1, <2>2 DEF Starts
<1>4. ASSUME HasToken(t, i, json, at, j) PROVE at \in Nat /\ j \in Nat /\ at < j
  <2>1. at \in 1..Len(t) /\ j \in (at + 1)..Len(t)
    BY <1>4 DEF HasToken, IsCore
  <2> QED
    BY <1>1, <2>1
<1>5. HasToken(x, i, json, at, j) /\ j < Len(x) => HasToken(t, i, json, at, j)
  BY <1>2, SameCores DEF HasToken
<1>6. ASSUME HasToken(t, i, json, at, j), j <= Len(x) PROVE HasToken(x, i, json, at, j)
  <2>1. at <= Len(x)
    BY <1>1, <1>4, <1>6
  <2> QED
    BY <1>3, <1>4, <1>6, <2>1, SameCores DEF HasToken
<1>7. ASSUME HasToken(t, i, json, at, j), at < Len(x), Len(x) <= j PROVE HasToken(x, i, json, at, Len(x))
  <2>1. at <= Len(x)
    BY <1>1, <1>4, <1>7
  <2> QED
    BY <1>3, <1>4, <1>7, <2>1, SameCores DEF HasToken
<1> QED
  BY <1>2, <1>5, <1>6, <1>7

\* What the units from p to n are when they are the beginning of a token with its core at `at`.
Lead(t, p, at, n) ==
    /\ at \in {p, p + 1, p + 2}
    /\ at = p + 1 => t[p] = "["
    /\ at = p + 2 => t[p] = "\\" /\ (p < n => t[p + 1] = "o")
    /\ at <= n => t[at] \in Classes
    /\ \A k \in (at + 1)..n : IsDigit(t[k])

\* No other core begins among them.
LEMMA OnlyLead ==
    ASSUME NEW W, NEW t \in Seq(W), NEW p \in Nat \ {0}, NEW at, NEW n \in Nat, NEW json \in BOOLEAN,
           Lead(t, p, at, n), NEW q \in p..n, NEW a, NEW b, HasToken(t, q, json, a, b)
    PROVE  a = at
<1>1. /\ at \in {p, p + 1, p + 2}
      /\ at = p + 1 => t[p] = "["
      /\ at = p + 2 => t[p] = "\\" /\ (p < n => t[p + 1] = "o")
      /\ at <= n => t[at] \in Classes
      /\ \A k \in (at + 1)..n : IsDigit(t[k])
  BY DEF Lead
<1>2. q \in Nat \ {0} /\ at \in Nat
  BY <1>1
<1>3. /\ a \in {q, q + 1, q + 2}
      /\ a = q => t[q] \in Classes
      /\ a = q + 1 => t[q] = "["
      /\ a = q + 2 => t[q] = "\\"
  BY <1>2, TokenLeads
<1>4. CASE q = p
  BY <1>1, <1>2, <1>3, <1>4, Units
<1>5. CASE q = at
  BY <1>1, <1>2, <1>3, <1>5, Units
<1>6. CASE q # p /\ q < at
  <2>1. at = p + 2 /\ q = p + 1 /\ p < n
    BY <1>1, <1>2, <1>6
  <2>2. t[q] = "o"
    BY <1>1, <2>1
  <2> QED
    BY <1>3, <2>2, Units
<1>7. CASE at < q
  <2>1. q \in (at + 1)..n
    BY <1>2, <1>7
  <2>2. IsDigit(t[q])
    BY <1>1, <2>1
  <2> QED
    BY <1>3, <2>2, Units
<1> QED
  BY <1>2, <1>4, <1>5, <1>6, <1>7

\* A token that more input could still close: its core ends the text, or the first unit of
\* an escaped delimiter does.
EndsOpen(t, j, json) ==
    /\ CloseWidth(t, j + 1, json) = 0
    /\ j = Len(t) \/ (json /\ j + 1 = Len(t) /\ t[j + 1] = "\\")

\* StillOpen says of a token that it ends open.
LEMMA StillOpenIs ==
    ASSUME NEW W, NEW t \in Seq(W), NEW i \in Nat \ {0}, NEW json \in BOOLEAN,
           NEW at, NEW j, HasToken(t, i, json, at, j)
    PROVE  StillOpen(t, Token(t, at, j, json), json) <=> EndsOpen(t, j, json)
<1>1. j \in Nat /\ j <= Len(t) /\ Len(t) \in Nat /\ j + 1 \in Nat \ {0}
  BY TokenLeads
<1>2. PICK w : w = CloseWidth(t, j + 1, json) /\ w \in {0, 1, 2}
  BY <1>1, OneDelimiter
<1>3. Token(t, at, j, json).closed <=> w # 0
  BY <1>2 DEF Token
<1>4. Token(t, at, j, json).end = j + w
  BY <1>2 DEF Token
<1>5. CASE w # 0
  BY <1>2, <1>3, <1>5 DEF StillOpen, EndsOpen
<1>6. CASE w = 0
  <2>1. PICK u \in Seq(W) : u = SubSeq(t, j + 1, Len(t)) /\ Len(u) = Len(t) - j /\ \A k \in 1..Len(u) : u[k] = t[j + k]
    <3>1. PICK d \in Nat \ {0} : d = j + 1 /\ d <= Len(t) + 1
      BY <1>1
    <3>2. /\ SubSeq(t, d, Len(t)) \in Seq(W) /\ Len(SubSeq(t, d, Len(t))) = Len(t) - d + 1
          /\ \A k \in 1..(Len(t) - d + 1) : SubSeq(t, d, Len(t))[k] = t[d + k - 1]
      BY <1>1, <3>1, Part
    <3>3. Len(t) - d + 1 = Len(t) - j /\ \A k \in Int : d + k - 1 = j + k
      BY <1>1, <3>1
    <3>4. PICK v : v = SubSeq(t, d, Len(t))
      OBVIOUS
    <3>5. v \in Seq(W) /\ Len(v) = Len(t) - d + 1 /\ \A k \in 1..(Len(t) - d + 1) : v[k] = t[d + k - 1]
      BY <3>2, <3>4, Zenon
    <3>6. Len(v) = Len(t) - j /\ \A k \in 1..Len(v) : v[k] = t[j + k]
      BY <1>1, <3>3, <3>5
    <3> QED
      BY <3>1, <3>4, <3>6, <3>5, Zenon
  <2>2. ~CloseAt(t, j + 1, json, 1) /\ ~CloseAt(t, j + 1, json, 2)
    BY <1>1, <1>2, <1>6, OneDelimiter
  <2>3. StillOpen(t, Token(t, at, j, json), json) <=> \E c \in Closes(json) : IsPrefix(u, c)
    <3>1. Token(t, at, j, json).end + 1 = j + 1 /\ ~Token(t, at, j, json).closed
      BY <1>1, <1>3, <1>4, <1>6
    <3>2. SubSeq(t, Token(t, at, j, json).end + 1, Len(t)) = u
      BY <2>1, <3>1, Zenon
    <3> QED
      BY <3>1, <3>2, Zenon DEF StillOpen
  <2>4. \A c : c \in Closes(json) <=> c = <<"]">> \/ (json /\ c = <<"\\", "c">>)
    BY DEF Closes
  <2>5. IsPrefix(u, <<"]">>) <=> j = Len(t)
    <3>1. Len(<<"]">>) = 1 /\ <<"]">>[1] = "]"
      OBVIOUS
    <3>2. ASSUME j = Len(t) PROVE IsPrefix(u, <<"]">>)
      <4>1. u = <<>>
        BY <1>1, <2>1, <3>2
      <4> QED
        BY <4>1 DEF IsPrefix
    <3>3. ASSUME IsPrefix(u, <<"]">>), j # Len(t) PROVE FALSE
      <4>1. Len(u) = 1 /\ u[1] = t[j + 1] /\ j + 1 <= Len(t)
        BY <1>1, <2>1, <3>1, <3>3 DEF IsPrefix
      <4>2. SubSeq(u, 1, 1) = SubSeq(<<"]">>, 1, 1)
        BY <3>3, <4>1 DEF IsPrefix
      <4>3. SubSeq(u, 1, 1)[1] = u[1] /\ SubSeq(<<"]">>, 1, 1)[1] = "]"
        BY <3>1, <4>1
      <4>4. t[j + 1] = "]"
        BY <4>1, <4>2, <4>3
      <4> QED
        BY <2>2, <4>1, <4>4 DEF CloseAt
    <3> QED
      BY <3>2, <3>3
  <2>6. ASSUME json PROVE IsPrefix(u, <<"\\", "c">>) <=> j = Len(t) \/ (j + 1 = Len(t) /\ t[j + 1] = "\\")
    <3>1. Len(<<"\\", "c">>) = 2 /\ <<"\\", "c">>[1] = "\\" /\ <<"\\", "c">>[2] = "c" /\ <<"\\", "c">> \in Seq({"\\", "c"})
      OBVIOUS
    <3>2. ASSUME j = Len(t) PROVE IsPrefix(u, <<"\\", "c">>)
      <4>1. u = <<>>
        BY <1>1, <2>1, <3>2
      <4> QED
        BY <4>1 DEF IsPrefix
    <3>3. ASSUME j + 1 = Len(t), t[j + 1] = "\\" PROVE IsPrefix(u, <<"\\", "c">>)
      <4>1. Len(u) = 1 /\ u[1] = "\\"
        BY <1>1, <2>1, <3>3
      <4>2. PICK c : c = <<"\\", "c">>
        OBVIOUS
      <4>3. Len(c) = 2 /\ c[1] = "\\" /\ c \in Seq({"\\", "c"})
        BY <3>1, <4>2
      <4>4. SubSeq(u, 1, 1) = SubSeq(c, 1, 1)
        BY <4>1, <4>3
      <4>5. IsPrefix(u, c)
        BY <4>1, <4>3, <4>4 DEF IsPrefix
      <4> QED
        BY <4>2, <4>5
    <3>4. ASSUME IsPrefix(u, <<"\\", "c">>), j # Len(t) PROVE j + 1 = Len(t) /\ t[j + 1] = "\\"
      <4>1. PICK c : c = <<"\\", "c">>
        OBVIOUS
      <4>2. Len(c) = 2 /\ c[1] = "\\" /\ c[2] = "c" /\ c \in Seq({"\\", "c"})
        BY <3>1, <4>1
      <4>3. Len(u) <= 2 /\ SubSeq(u, 1, Len(u)) = SubSeq(c, 1, Len(u)) /\ Len(u) # 0 /\ Len(u) \in Nat
        BY <1>1, <2>1, <3>4, <4>1, <4>2 DEF IsPrefix
      <4>4. \A k \in 1..Len(u) : SubSeq(u, 1, Len(u))[k] = u[k] /\ SubSeq(c, 1, Len(u))[k] = c[k]
        BY <4>2, <4>3
      <4>5. \A k \in 1..Len(u) : t[j + k] = c[k]
        BY <2>1, <4>3, <4>4
      <4>6. t[j + 1] = "\\"
        BY <4>2, <4>3, <4>5
      <4>7. ASSUME Len(u) = 2 PROVE FALSE
        <5>1. t[j + 2] = "c" /\ j + 1 + 1 = j + 2 /\ j + 2 <= Len(t)
          BY <1>1, <2>1, <4>2, <4>5, <4>7
        <5> QED
          BY <2>2, <2>6, <4>6, <5>1 DEF CloseAt
      <4> QED
        BY <1>1, <2>1, <4>3, <4>6, <4>7
    <3> QED
      BY <3>2, <3>3, <3>4
  <2>7. (\E c \in Closes(json) : IsPrefix(u, c)) <=> j = Len(t) \/ (json /\ j + 1 = Len(t) /\ t[j + 1] = "\\")
    BY <2>4, <2>5, <2>6, Zenon
  <2> QED
    BY <1>2, <1>6, <2>3, <2>7, Zenon DEF EndsOpen
<1> QED
  BY <1>5, <1>6

\* Parts of the shorter text are parts of the longer.
LEMMA SameParts ==
    ASSUME NEW W, NEW x, NEW t, Longer(x, t, W), NEW a \in Nat \ {0}, NEW b \in Int, a <= b + 1, b <= Len(x)
    PROVE  SubSeq(x, a, b) = SubSeq(t, a, b)
<1>1. x \in Seq(W) /\ t \in Seq(W) /\ Len(x) \in Nat /\ Len(t) \in Nat /\ Len(x) <= Len(t) /\ \A i \in 1..Len(x) : t[i] = x[i]
  BY DEF Longer
<1>2. PICK u, v : u = SubSeq(x, a, b) /\ v = SubSeq(t, a, b)
  OBVIOUS
<1>3. u \in Seq(W) /\ Len(u) = b - a + 1 /\ \A k \in 1..(b - a + 1) : u[k] = x[a + k - 1]
  <2>1. /\ SubSeq(x, a, b) \in Seq(W) /\ Len(SubSeq(x, a, b)) = b - a + 1
        /\ \A k \in 1..(b - a + 1) : SubSeq(x, a, b)[k] = x[a + k - 1]
    BY <1>1, Part
  <2> QED
    BY <1>2, <2>1, Zenon
<1>4. v \in Seq(W) /\ Len(v) = b - a + 1 /\ \A k \in 1..(b - a + 1) : v[k] = t[a + k - 1]
  <2>1. b <= Len(t)
    BY <1>1
  <2>2. /\ SubSeq(t, a, b) \in Seq(W) /\ Len(SubSeq(t, a, b)) = b - a + 1
        /\ \A k \in 1..(b - a + 1) : SubSeq(t, a, b)[k] = t[a + k - 1]
    BY <1>1, <2>1, Part
  <2> QED
    BY <1>2, <2>2, Zenon
<1>5. \A k \in 1..(b - a + 1) : a + k - 1 \in 1..Len(x)
  BY <1>1
<1>6. u = v
  BY <1>1, <1>3, <1>4, <1>5, SameSeq
<1> QED
  BY <1>2, <1>6, Zenon

\* A token that is whole in the shorter text gives the same in both.
Both(x, t, r, i, at, j, map, json, W) ==
    /\ Longer(x, t, W) /\ json \in BOOLEAN /\ i \in 1..Len(x) /\ r.last \in Nat /\ r.last < i
    /\ HasToken(x, i, json, at, j) /\ HasToken(t, i, json, at, j)
    /\ CloseWidth(x, j + 1, json) = CloseWidth(t, j + 1, json)

\* The scans of both move alike over the token.
Alike(x, t, r, i, at, j, map, json) ==
    Moved(r, x, i, Token(x, at, j, json), map, json) = Moved(r, t, i, Token(t, at, j, json), map, json)

\* A token that both texts have, closed alike, moves both scans alike.
LEMMA SameMoves ==
    ASSUME NEW W, NEW x, NEW t, NEW r, NEW i, NEW at, NEW j, NEW map, NEW json, Both(x, t, r, i, at, j, map, json, W)
    PROVE  Alike(x, t, r, i, at, j, map, json)
<1>1. /\ Longer(x, t, W) /\ x \in Seq(W) /\ json \in BOOLEAN /\ i \in Nat \ {0} /\ i <= Len(x)
      /\ r.last \in Nat /\ r.last < i /\ Len(x) \in Nat
      /\ HasToken(x, i, json, at, j) /\ HasToken(t, i, json, at, j)
      /\ CloseWidth(x, j + 1, json) = CloseWidth(t, j + 1, json)
  BY DEF Both, Longer
<1>2. /\ at \in Nat \ {0} /\ j \in Nat /\ at <= j + 1 /\ j <= Len(x)
      /\ Token(x, at, j, json).end \in j..Len(x) /\ Token(x, at, j, json).end > i
  BY <1>1, TokenLeads, TokenInside
<1>3. SubSeq(x, at, j) = SubSeq(t, at, j)
  BY <1>1, <1>2, SameParts
<1>4. PICK m : m = Token(t, at, j, json) /\ m = Token(x, at, j, json)
  <2>1. Token(x, at, j, json) = Token(t, at, j, json)
    BY <1>1, <1>3, Zenon DEF Token
  <2> QED
    BY <2>1
<1>5. PICK a, b, e : a = r.last + 1 /\ b = i - 1 /\ e = m.end /\ a \in Nat \ {0} /\ b \in Int /\ e \in Int
                     /\ a <= b + 1 /\ b <= Len(x) /\ a <= e + 1 /\ e <= Len(x)
  BY <1>1, <1>2, <1>4
<1>6. SubSeq(x, a, b) = SubSeq(t, a, b) /\ SubSeq(x, a, e) = SubSeq(t, a, e)
  <2>1. /\ Longer(x, t, W) /\ a \in Nat \ {0} /\ b \in Int /\ e \in Int
        /\ a <= b + 1 /\ b <= Len(x) /\ a <= e + 1 /\ e <= Len(x)
    BY <1>1, <1>5
  <2>2. SubSeq(x, a, b) = SubSeq(t, a, b)
    BY <2>1, SameParts
  <2>3. SubSeq(x, a, e) = SubSeq(t, a, e)
    BY <2>1, SameParts
  <2> QED
    BY <2>2, <2>3, Zenon
<1>7. Gives(x, r.last, i, m, map, json) = Gives(t, r.last, i, m, map, json)
  <2>1. /\ SubSeq(x, r.last + 1, i - 1) = SubSeq(t, r.last + 1, i - 1)
        /\ SubSeq(x, r.last + 1, m.end) = SubSeq(t, r.last + 1, m.end)
    BY <1>5, <1>6, Zenon
  <2> QED
    BY <2>1, Zenon DEF Gives
<1>8. Moved(r, x, i, m, map, json) = Moved(r, t, i, m, map, json)
  BY <1>7, Zenon DEF Moved
<1> QED
  BY <1>4, <1>8, Zenon DEF Alike

\* A token of the longer text that the shorter one of n units does not have whole, or
\* could have more of.
Pending(t, j, n, json) ==
    \/ CloseWidth(t, j + 1, json) # 0 /\ n < j + CloseWidth(t, j + 1, json)
    \/ CloseWidth(t, j + 1, json) = 0 /\ n <= j
    \/ CloseWidth(t, j + 1, json) = 0 /\ json /\ j + 1 = n /\ t[n] = "\\"

\* No token begins from p to n.
NoTokens(t, p, n, json) == \A q \in p..n : \A at, j : ~HasToken(t, q, json, at, j)

\* The closing delimiter in both texts, of a core that ends before the shorter does.
LEMMA SameCloses ==
    ASSUME NEW W, NEW x, NEW t, Longer(x, t, W), NEW j \in Nat, j < Len(x), NEW json \in BOOLEAN
    PROVE  \/ CloseWidth(x, j + 1, json) = CloseWidth(t, j + 1, json) /\ j + CloseWidth(t, j + 1, json) <= Len(x)
           \/ /\ CloseWidth(x, j + 1, json) = 0 /\ CloseWidth(t, j + 1, json) = 2
              /\ json /\ j + 1 = Len(x) /\ x[j + 1] = "\\"
<1>1. x \in Seq(W) /\ t \in Seq(W) /\ Len(x) \in Nat /\ Len(t) \in Nat /\ j + 1 \in Nat \ {0} /\ t[j + 1] = x[j + 1]
  BY DEF Longer
<1>2. /\ CloseAt(x, j + 1, json, 1) <=> CloseAt(t, j + 1, json, 1) /\ j + 1 <= Len(x)
      /\ CloseAt(x, j + 1, json, 2) <=> CloseAt(t, j + 1, json, 2) /\ j + 2 <= Len(x)
  <2>1. j + 1 + 1 - 1 = j + 1 /\ j + 1 + 2 - 1 = j + 2
    OBVIOUS
  <2> QED
    BY <1>1, <2>1, SameDelimiters
<1>3. CASE CloseAt(t, j + 1, json, 1)
  BY <1>1, <1>2, <1>3 DEF CloseWidth
<1>4. CASE ~CloseAt(t, j + 1, json, 1) /\ CloseAt(t, j + 1, json, 2) /\ j + 2 <= Len(x)
  BY <1>1, <1>2, <1>4 DEF CloseWidth
<1>5. CASE ~CloseAt(t, j + 1, json, 1) /\ CloseAt(t, j + 1, json, 2) /\ ~(j + 2 <= Len(x))
  <2>1. CloseWidth(x, j + 1, json) = 0 /\ CloseWidth(t, j + 1, json) = 2
    BY <1>2, <1>5 DEF CloseWidth
  <2>2. json /\ t[j + 1] = "\\"
    BY <1>5 DEF CloseAt
  <2>3. j + 1 = Len(x)
    BY <1>1, <1>5
  <2> QED
    BY <1>1, <2>1, <2>2, <2>3
<1>6. CASE ~CloseAt(t, j + 1, json, 1) /\ ~CloseAt(t, j + 1, json, 2)
  BY <1>1, <1>2, <1>6 DEF CloseWidth
<1> QED
  BY <1>3, <1>4, <1>5, <1>6

\* One step of a scan that more input follows, at a token.
Steps(r, t, i, at, j, map, json) ==
    /\ EndsOpen(t, j, json) => Replace(r, t, i, map, json, FALSE) = [r EXCEPT !.stopped = TRUE]
    /\ ~EndsOpen(t, j, json) =>
         Replace(r, t, i, map, json, FALSE) = Moved(r, t, i, Token(t, at, j, json), map, json)

\* At a token a scan that more input follows stops when the token ends open, and goes over it
\* otherwise.
LEMMA StopsOrMoves ==
    ASSUME NEW W, NEW t, NEW from, NEW map, NEW json, NEW r, NEW i, NEW at, NEW j,
           Ready(t, from, map, json, W), Stands(r, i, t, from, W), ~r.stopped, r.last < i,
           HasToken(t, i, json, at, j)
    PROVE  Steps(r, t, i, at, j, map, json)
<1>1. PICK final : final = FALSE
  OBVIOUS
<1>2. t \in Seq(W) /\ json \in BOOLEAN /\ i \in Nat \ {0}
  BY DEF Ready, Stands
<1>3. Waits(final, t, Token(t, at, j, json), json) <=> EndsOpen(t, j, json)
  BY <1>1, <1>2, StillOpenIs DEF Waits
<1>4. IF Waits(final, t, Token(t, at, j, json), json)
      THEN Replace(r, t, i, map, json, final) = [r EXCEPT !.stopped = TRUE]
      ELSE /\ Replace(r, t, i, map, json, final) = Moved(r, t, i, Token(t, at, j, json), map, json)
           /\ Gives(t, r.last, i, Token(t, at, j, json), map, json) \in Seq(W)
  BY Replaces
<1> QED
  BY <1>1, <1>3, <1>4, Zenon DEF Steps

\* Where a scan of a text and one of a longer text to its end part.
Ahead(x, t, s, p, from, map, json, W) ==
    /\ Longer(x, t, W) /\ Ready(x, from, map, json, W) /\ Ready(t, from, map, json, W)
    /\ Stands(s, p, x, from, W) /\ Stands(s, p, t, from, W) /\ ~s.stopped
    /\ Replace(s, x, p, map, json, FALSE) # Replace(s, t, p, map, json, TRUE)

\* The scan of x makes nothing more of it.
Stays(x, s, p, map, json) ==
    \/ Replace(s, x, p, map, json, FALSE) = [s EXCEPT !.stopped = TRUE]
    \/ Replace(s, x, p, map, json, FALSE) = s /\ NoTokens(x, p, Len(x), json)

\* The n units of t do not decide what follows p.
Undecided(t, p, n, json) ==
    NoTokens(t, p, n, json) \/ \E at, j : HasToken(t, p, json, at, j) /\ Pending(t, j, n, json)

\* When the two scans part at p, the one of the shorter text makes nothing more of it, and what
\* the longer text has there is not decided by the shorter one.
LEMMA Differ ==
    ASSUME NEW W, NEW x, NEW t, NEW s, NEW p, NEW from, NEW map, NEW json, Ahead(x, t, s, p, from, map, json, W)
    PROVE  s.last < p /\ Stays(x, s, p, map, json) /\ Undecided(t, p, Len(x), json)
<1>1. /\ Longer(x, t, W) /\ Ready(x, from, map, json, W) /\ Ready(t, from, map, json, W)
      /\ Stands(s, p, x, from, W) /\ Stands(s, p, t, from, W) /\ ~s.stopped
      /\ Replace(s, x, p, map, json, FALSE) # Replace(s, t, p, map, json, TRUE)
  BY Zenon DEF Ahead
<1>2. x \in Seq(W) /\ t \in Seq(W) /\ Len(x) \in Nat /\ Len(t) \in Nat /\ Len(x) <= Len(t)
      /\ \A k \in 1..Len(x) : t[k] = x[k]
  BY <1>1 DEF Longer
<1>3. json \in BOOLEAN /\ from \in Nat \ {0} /\ p \in Nat \ {0} /\ p <= Len(x) /\ s.last \in Nat /\ p \in 1..Len(x)
  BY <1>1, <1>2 DEF Ready, Stands, Progress
<1>4. s.last < p
  <2>1. CASE p <= s.last
    <3>1. Replace(s, x, p, map, json, FALSE) = s /\ Replace(s, t, p, map, json, TRUE) = s
      BY <2>1, Zenon DEF Replace
    <3> QED
      BY <1>1, <3>1, Zenon
  <2> QED
    BY <1>3, <2>1
<1>5. CASE TokenAt(t, p, json) = NoMatch
  <2>1. Replace(s, t, p, map, json, TRUE) = s
    BY <1>5, Zenon DEF Replace
  <2>2. TokenAt(x, p, json) # NoMatch
    <3>1. CASE TokenAt(x, p, json) = NoMatch
      <4>1. Replace(s, x, p, map, json, FALSE) = s
        BY <3>1, Zenon DEF Replace
      <4> QED
        BY <1>1, <2>1, <4>1, Zenon
    <3> QED
      BY <3>1
  <2>3. PICK at, j : HasToken(x, p, json, at, j)
    BY <1>2, <1>3, <2>2, TokenIs
  <2>4. \A a, b : ~HasToken(t, p, json, a, b)
    <3> SUFFICES ASSUME NEW a, NEW b, HasToken(t, p, json, a, b) PROVE FALSE
      OBVIOUS
    <3>1. TokenAt(t, p, json) = Token(t, a, b, json) /\ Token(t, a, b, json) # NoMatch
      BY <1>2, <1>3, TokenIs, TokenInside
    <3> QED
      BY <1>5, <3>1
  <2>5. /\ at \in Nat \ {0} /\ j \in Nat /\ at < j /\ j <= Len(x) /\ at \in {p, p + 1, p + 2}
        /\ at = p + 1 => x[p] = "["
        /\ at = p + 2 => x[p] = "\\" /\ x[p + 1] = "o"
    BY <1>2, <1>3, <2>3, TokenLeads
  <2>6. j = Len(x)
    <3>1. ~(j < Len(x))
      BY <1>1, <1>3, <2>3, <2>4, SameTokens
    <3> QED
      BY <1>2, <2>5, <3>1
  <2>7. EndsOpen(x, j, json)
    <3>1. ~CloseAt(x, j + 1, json, 1) /\ ~CloseAt(x, j + 1, json, 2)
      BY <1>2, <2>5, <2>6 DEF CloseAt
    <3>2. CloseWidth(x, j + 1, json) = 0
      BY <3>1 DEF CloseWidth
    <3> QED
      BY <2>6, <3>2 DEF EndsOpen
  <2>8. Replace(s, x, p, map, json, FALSE) = [s EXCEPT !.stopped = TRUE]
    <3>1. Steps(s, x, p, at, j, map, json)
      BY <1>1, <1>4, <2>3, StopsOrMoves, Zenon
    <3> QED
      BY <2>7, <3>1, Zenon DEF Steps
  <2>9. Lead(t, p, at, Len(x))
    <3>1. /\ x[at] \in Classes /\ \A k \in (at + 1)..Len(x) : IsDigit(x[k])
      BY <2>3, <2>6 DEF HasToken, IsCore
    <3>2. t[at] = x[at] /\ t[p] = x[p]
      BY <1>2, <1>3, <2>5
    <3>3. \A k \in (at + 1)..Len(x) : IsDigit(t[k])
      BY <1>2, <2>5, <3>1
    <3>4. at = p + 2 => t[p + 1] = x[p + 1]
      BY <1>2, <1>3, <2>5
    <3> QED
      BY <2>5, <3>1, <3>2, <3>3, <3>4, Zenon DEF Lead
  <2>10. NoTokens(t, p, Len(x), json)
    <3> SUFFICES ASSUME NEW q \in p..Len(x), NEW a, NEW b, HasToken(t, q, json, a, b) PROVE FALSE
      BY DEF NoTokens
    <3>1. a = at
      BY <1>2, <1>3, <2>9, OnlyLead
    <3>2. Starts(x, p, json, at) /\ IsCore(t, at, b)
      BY <2>3, <3>1 DEF HasToken
    <3>3. Starts(t, p, json, at)
      BY <1>1, <1>3, <3>2, SameTokens
    <3> QED
      BY <2>4, <3>2, <3>3 DEF HasToken
  <2> QED
    BY <1>4, <2>8, <2>10, Zenon DEF Stays, Undecided
<1>6. CASE TokenAt(t, p, json) # NoMatch
  <2>1. PICK at, j : HasToken(t, p, json, at, j)
    BY <1>2, <1>3, <1>6, TokenIs
  <2>2. /\ at \in Nat \ {0} /\ j \in Nat /\ at < j /\ j <= Len(t) /\ at \in {p, p + 1, p + 2}
        /\ at = p + 1 => t[p] = "["
        /\ at = p + 2 => t[p] = "\\" /\ t[p + 1] = "o"
    BY <1>2, <1>3, <2>1, TokenLeads
  <2>3. Replace(s, t, p, map, json, TRUE) = Moved(s, t, p, Token(t, at, j, json), map, json)
    <3>1. /\ Replace(s, t, p, map, json, TRUE) = Moved(s, t, p, Token(t, at, j, json), map, json)
          /\ Gives(t, s.last, p, Token(t, at, j, json), map, json) \in Seq(W)
      BY <1>1, <1>4, <2>1, MovesOn, Zenon
    <3> QED
      BY <3>1, Zenon
  <2>4. PICK w \in {0, 1, 2} : w = CloseWidth(t, j + 1, json)
    <3>1. j + 1 \in Nat \ {0}
      BY <2>2
    <3>2. CloseWidth(t, j + 1, json) \in {0, 1, 2}
      BY <1>2, <1>3, <3>1, OneDelimiter
    <3> QED
      BY <3>2
  <2>5. CASE Len(x) <= at
    <3>1. Pending(t, j, Len(x), json)
      <4>1. (Len(x) <= j /\ Len(x) < j + w) \/ (w = 0 /\ Len(x) <= j)
        BY <1>2, <2>2, <2>4, <2>5
      <4> QED
        BY <1>2, <2>2, <2>4, <2>5, <4>1 DEF Pending
    <3>2. Lead(x, p, at, Len(x))
      <4>1. t[at] \in Classes
        BY <2>1 DEF HasToken, IsCore
      <4>2. at <= Len(x) => x[at] \in Classes
        BY <1>2, <2>2, <4>1
      <4>3. t[p] = x[p] /\ (p < Len(x) => t[p + 1] = x[p + 1])
        BY <1>2, <1>3
      <4>4. \A k \in (at + 1)..Len(x) : FALSE
        BY <1>2, <2>2, <2>5
      <4> QED
        BY <2>2, <4>2, <4>3, <4>4, Zenon DEF Lead
    <3>3. NoTokens(x, p, Len(x), json)
      <4> SUFFICES ASSUME NEW q \in p..Len(x), NEW a, NEW b, HasToken(x, q, json, a, b) PROVE FALSE
        BY DEF NoTokens
      <4>1. a = at
        BY <1>2, <1>3, <3>2, OnlyLead
      <4>2. q \in Nat \ {0}
        BY <1>3
      <4>3. a < b /\ b <= Len(x) /\ b \in Nat
        BY <1>2, <1>3, <4>2, TokenLeads
      <4> QED
        BY <1>2, <2>2, <2>5, <4>1, <4>3
    <3>4. Replace(s, x, p, map, json, FALSE) = s
      <4>1. \A a, b : ~HasToken(x, p, json, a, b)
        BY <1>2, <1>3, <3>3 DEF NoTokens
      <4>2. TokenAt(x, p, json) = NoMatch
        BY <1>2, <1>3, <4>1, TokenIs
      <4> QED
        BY <4>2, Zenon DEF Replace
    <3> QED
      BY <1>4, <2>1, <3>1, <3>3, <3>4, Zenon DEF Stays, Undecided
  <2>6. CASE at < Len(x) /\ Len(x) <= j
    <3>1. HasToken(x, p, json, at, Len(x))
      BY <1>1, <1>3, <2>1, <2>6, SameTokens
    <3>2. EndsOpen(x, Len(x), json)
      <4>1. ~CloseAt(x, Len(x) + 1, json, 1) /\ ~CloseAt(x, Len(x) + 1, json, 2)
        BY <1>2 DEF CloseAt
      <4>2. CloseWidth(x, Len(x) + 1, json) = 0
        BY <4>1 DEF CloseWidth
      <4> QED
        BY <4>2 DEF EndsOpen
    <3>3. Replace(s, x, p, map, json, FALSE) = [s EXCEPT !.stopped = TRUE]
      <4>1. Steps(s, x, p, at, Len(x), map, json)
        BY <1>1, <1>4, <3>1, StopsOrMoves, Zenon
      <4> QED
        BY <3>2, <4>1, Zenon DEF Steps
    <3>4. Pending(t, j, Len(x), json)
      BY <1>2, <2>2, <2>4, <2>6 DEF Pending
    <3> QED
      BY <1>4, <2>1, <3>3, <3>4, Zenon DEF Stays, Undecided
  <2>7. CASE j < Len(x)
    <3>1. HasToken(x, p, json, at, j)
      <4>1. j <= Len(x)
        BY <1>2, <2>2, <2>7
      <4> QED
        BY <1>1, <1>3, <2>1, <4>1, SameTokens
    <3>2. \/ CloseWidth(x, j + 1, json) = w /\ j + w <= Len(x)
          \/ CloseWidth(x, j + 1, json) = 0 /\ w = 2 /\ json /\ j + 1 = Len(x) /\ x[j + 1] = "\\"
      BY <1>1, <1>3, <2>2, <2>4, <2>7, SameCloses
    <3>3. Steps(s, x, p, at, j, map, json)
      BY <1>1, <1>4, <3>1, StopsOrMoves, Zenon
    <3>4. CASE CloseWidth(x, j + 1, json) = 0 /\ w = 2 /\ json /\ j + 1 = Len(x) /\ x[j + 1] = "\\"
      <4>1. EndsOpen(x, j, json)
        BY <3>4 DEF EndsOpen
      <4>2. Pending(t, j, Len(x), json)
        <5>1. w # 0 /\ Len(x) < j + w
          BY <1>2, <2>2, <3>4
        <5> QED
          BY <2>4, <5>1 DEF Pending
      <4> QED
        BY <1>4, <2>1, <3>3, <4>1, <4>2, Zenon DEF Stays, Undecided, Steps
    <3>5. CASE CloseWidth(x, j + 1, json) = w /\ j + w <= Len(x)
      <4>1. EndsOpen(x, j, json)
        <5> SUFFICES ASSUME ~EndsOpen(x, j, json) PROVE FALSE
          OBVIOUS
        <5>1. Both(x, t, s, p, at, j, map, json, W)
          BY <1>1, <1>3, <1>4, <2>1, <2>4, <3>1, <3>5 DEF Both
        <5>2. Alike(x, t, s, p, at, j, map, json)
          BY <5>1, SameMoves
        <5> QED
          BY <1>1, <2>3, <3>3, <5>2, Zenon DEF Alike, Steps
      <4>2. w = 0 /\ json /\ j + 1 = Len(x) /\ x[j + 1] = "\\"
        BY <2>2, <2>7, <3>5, <4>1 DEF EndsOpen
      <4>3. t[Len(x)] = "\\"
        BY <1>2, <1>3, <4>2
      <4>4. Pending(t, j, Len(x), json)
        BY <2>4, <4>2, <4>3 DEF Pending
      <4> QED
        BY <1>4, <2>1, <3>3, <4>1, <4>4, Zenon DEF Stays, Undecided, Steps
    <3> QED
      BY <3>2, <3>4, <3>5
  <2> QED
    BY <1>2, <2>2, <2>5, <2>6, <2>7
<1> QED
  BY <1>5, <1>6

\* A scan that has stopped, or that has no more tokens, stays as it is.
Halts(a, x, from, p, map, json, W) ==
    /\ x \in Seq(W) /\ from \in Nat \ {0} /\ json \in BOOLEAN /\ p \in from..Len(x)
    /\ Scans(a, x, from, map, json, FALSE) /\ (a[p].stopped \/ NoTokens(x, p, Len(x), json))

\* The state of a scan that halts at p is its last state.
LEMMA StaysOn ==
    ASSUME NEW W, NEW x, NEW from, NEW map, NEW json, NEW a, NEW p, Halts(a, x, from, p, map, json, W)
    PROVE  a[Len(x)] = a[p]
<1>1. /\ x \in Seq(W) /\ from \in Nat \ {0} /\ json \in BOOLEAN /\ p \in from..Len(x)
      /\ Scans(a, x, from, map, json, FALSE) /\ (a[p].stopped \/ NoTokens(x, p, Len(x), json))
  BY Zenon DEF Halts
<1> USE <1>1
<1>2. Len(x) \in Nat /\ p \in Nat \ {0} /\ p <= Len(x)
  OBVIOUS
<1> DEFINE E == {n \in Nat : p + n <= Len(x) => a[p + n] = a[p]}
<1>3. 0 \in E
  BY <1>2
<1>4. ASSUME NEW n \in Nat, n \in E PROVE n + 1 \in E
  <2> SUFFICES ASSUME p + (n + 1) <= Len(x) PROVE a[p + (n + 1)] = a[p]
    OBVIOUS
  <2>1. PICK i \in from..Len(x) : i = p + (n + 1) /\ i - 1 = p + n /\ i \in p..Len(x) /\ i \in Nat \ {0}
    BY <1>2
  <2>2. a[i - 1] = a[p]
    <3>1. p + n <= Len(x)
      BY <1>2
    <3> QED
      BY <1>4, <2>1, <3>1
  <2> HIDE DEF E
  <2>3. a[i] = Replace(a[p], x, i, map, json, FALSE)
    <3>1. \A k \in from..Len(x) : a[k] = Replace(a[k - 1], x, k, map, json, FALSE)
      BY Zenon DEF Scans
    <3> QED
      BY <2>2, <3>1, Zenon
  <2>4. a[p].stopped \/ TokenAt(x, i, json) = NoMatch
    <3>1. CASE NoTokens(x, p, Len(x), json)
      <4>1. \A at, j : ~HasToken(x, i, json, at, j)
        BY <2>1, <3>1 DEF NoTokens
      <4> QED
        BY <2>1, <4>1, TokenIs
    <3> QED
      BY <3>1
  <2>5. a[i] = a[p]
    BY <2>3, <2>4, Zenon DEF Replace
  <2> QED
    BY <2>1, <2>5
<1>5. E = Nat
  <2>1. E \in SUBSET Nat
    OBVIOUS
  <2> HIDE DEF E
  <2> QED
    BY <1>3, <1>4, <2>1, Induction
<1>6. PICK n \in Nat : p + n = Len(x)
  <2>1. Len(x) - p \in Nat /\ p + (Len(x) - p) = Len(x)
    BY <1>2
  <2> QED
    BY <2>1
<1> HIDE DEF E
<1>7. n \in E
  BY <1>5
<1> QED
  BY <1>2, <1>6, <1>7 DEF E

\* The scan of a text, with more to come, has what the scan of the longer text to its end
\* has at some place, from where on nothing is decided yet.
PartsAt(a, b, x, t, from, p, json) ==
    /\ p \in from..(Len(x) + 1) /\ b[p - 1].last < p
    /\ a[Len(x)].out = b[p - 1].out /\ a[Len(x)].last = b[p - 1].last
    /\ p <= Len(x) => Undecided(t, p, Len(x), json)

\* The scan of the shorter text ends where the two scans part, or at its end.
LEMMA Parting ==
    ASSUME NEW W, NEW x, NEW t, NEW from, NEW map, NEW json, NEW a, NEW b, Longer(x, t, W),
           IsScan(a, x, from, map, json, FALSE, W), IsScan(b, t, from, map, json, TRUE, W)
    PROVE  \E p : PartsAt(a, b, x, t, from, p, json)
<1>1. /\ Ready(x, from, map, json, W) /\ Scans(a, x, from, map, json, FALSE)
      /\ Ready(t, from, map, json, W) /\ Scans(b, t, from, map, json, TRUE)
  BY Zenon DEF IsScan
<1>2. /\ x \in Seq(W) /\ t \in Seq(W) /\ Len(x) \in Nat /\ Len(t) \in Nat /\ Len(x) <= Len(t)
      /\ json \in BOOLEAN /\ from \in Nat \ {0} /\ from <= Len(x) + 1
  BY <1>1 DEF Longer, Ready
<1>3. \A i \in (from - 1)..Len(x) : a[i] \in Progress(x, from, W)
  <2>1. PICK final : final = FALSE
    OBVIOUS
  <2>2. Scans(a, x, from, map, json, final) /\ final \in BOOLEAN
    BY <1>1, <2>1
  <2> QED
    BY <1>1, <2>2, ScanTypes
<1>4. \A i \in (from - 1)..Len(t) : b[i] \in Progress(t, from, W) /\ ~b[i].stopped
  <2>1. PICK final : final = TRUE
    OBVIOUS
  <2>2. Scans(b, t, from, map, json, final)
    BY <1>1, <2>1
  <2> QED
    BY <1>1, <2>1, <2>2, ScanTypes
<1> DEFINE D == {i \in from..Len(x) : a[i] # b[i]}
<1>5. a[from - 1] = b[from - 1]
  BY <1>1, Zenon DEF Scans
<1>6. CASE D = {}
  <2>1. a[Len(x)] = b[Len(x)]
    <3>1. CASE from <= Len(x)
      BY <1>2, <1>6, <3>1
    <3>2. CASE from - 1 = Len(x)
      BY <1>5, <3>2
    <3> QED
      BY <1>2, <3>1, <3>2
  <2>2. a[Len(x)].last <= Len(x) /\ a[Len(x)].last \in Nat
    <3>1. Len(x) \in (from - 1)..Len(x)
      BY <1>2
    <3> QED
      BY <1>2, <1>3, <3>1 DEF Progress
  <2>3. PICK p : p = Len(x) + 1 /\ p - 1 = Len(x) /\ p \in from..(Len(x) + 1) /\ ~(p <= Len(x))
    BY <1>2
  <2>4. b[p - 1].last < p
    BY <1>2, <2>1, <2>2, <2>3
  <2>5. PartsAt(a, b, x, t, from, p, json)
    BY <2>1, <2>3, <2>4, Zenon DEF PartsAt
  <2> QED
    BY <2>5
<1>7. CASE D # {}
  <2>1. D \in SUBSET Nat
    BY <1>2
  <2>2. PICK p \in D : \A i \in D : p <= i
    <3> HIDE DEF D
    <3> QED
      BY <1>7, <2>1, LeastNumber
  <2>3. p \in from..Len(x) /\ a[p] # b[p] /\ p \in Nat \ {0} /\ p - 1 \in (from - 1)..Len(x) /\ p - 1 \in (from - 1)..Len(t)
        /\ p \in from..Len(t)
    BY <1>2, <2>2
  <2>4. a[p - 1] = b[p - 1]
    <3>1. CASE p = from
      BY <1>5, <3>1
    <3>2. CASE p # from
      <4>1. p - 1 \in from..Len(x) /\ ~(p <= p - 1)
        BY <1>2, <2>3, <3>2
      <4>2. p - 1 \notin D
        <5> HIDE DEF D
        <5> QED
          BY <2>2, <4>1
      <4> QED
        BY <4>1, <4>2
    <3> QED
      BY <3>1, <3>2
  <2> HIDE DEF D
  <2>5. PICK s : s = a[p - 1] /\ s = b[p - 1]
    BY <2>4
  <2>6. Stands(s, p, x, from, W) /\ Stands(s, p, t, from, W) /\ ~s.stopped
    BY <1>3, <1>4, <2>3, <2>5 DEF Stands
  <2>7. a[p] = Replace(s, x, p, map, json, FALSE) /\ b[p] = Replace(s, t, p, map, json, TRUE)
    BY <1>1, <2>3, <2>5, Zenon DEF Scans
  <2>8. Ahead(x, t, s, p, from, map, json, W)
    <3>1. Replace(s, x, p, map, json, FALSE) # Replace(s, t, p, map, json, TRUE)
      BY <2>3, <2>7, Zenon
    <3> QED
      BY <1>1, <2>6, <3>1, Zenon DEF Ahead
  <2>9. s.last < p /\ Stays(x, s, p, map, json) /\ Undecided(t, p, Len(x), json)
    BY <2>8, Differ
  <2>10. a[p] = [s EXCEPT !.stopped = TRUE] \/ (a[p] = s /\ NoTokens(x, p, Len(x), json))
    BY <2>7, <2>9, Zenon DEF Stays
  <2>11. s \in [out : Seq(W), last : (from - 1)..Len(x), stopped : BOOLEAN]
    BY <2>6 DEF Stands, Progress
  <2>12. /\ a[p].out = s.out /\ a[p].last = s.last
         /\ a[p].stopped \/ NoTokens(x, p, Len(x), json)
    <3>1. PICK r : r = [s EXCEPT !.stopped = TRUE]
      OBVIOUS
    <3>2. r.out = s.out /\ r.last = s.last /\ r.stopped
      BY <2>11, <3>1
    <3> QED
      BY <2>10, <3>1, <3>2, Zenon
  <2>13. a[Len(x)] = a[p]
    <3>1. Halts(a, x, from, p, map, json, W)
      BY <1>1, <1>2, <2>3, <2>12, Zenon DEF Halts
    <3> QED
      BY <3>1, StaysOn
  <2>14. p \in from..(Len(x) + 1)
    BY <1>2, <2>3
  <2>15. PartsAt(a, b, x, t, from, p, json)
    BY <2>5, <2>9, <2>12, <2>13, <2>14, Zenon DEF PartsAt
  <2> QED
    BY <2>15
<1> QED
  BY <1>6, <1>7

-----------------------------------------------------------------------------
(* What is held back.                                                       *)

\* A part of a part.
Within(W, x, q, n, u, v) ==
    /\ x \in Seq(W) /\ q \in Nat \ {0} /\ n \in Nat /\ q <= n + 1 /\ n <= Len(x)
    /\ u \in Nat \ {0} /\ v \in Nat /\ u <= v + 1 /\ v <= n - q + 1

\* The part from u to v of the part from q to n.
Inner(x, q, n, u, v) == SubSeq(SubSeq(x, q, n), u, v) = SubSeq(x, q + u - 1, q + v - 1)

\* A part of a part is a part.
LEMMA PartOfPart ==
    ASSUME NEW W, NEW x, NEW q, NEW n, NEW u, NEW v, Within(W, x, q, n, u, v) PROVE Inner(x, q, n, u, v)
<1>1. /\ x \in Seq(W) /\ q \in Nat \ {0} /\ n \in Nat /\ q <= n + 1 /\ n <= Len(x) /\ Len(x) \in Nat
      /\ u \in Nat \ {0} /\ v \in Nat /\ u <= v + 1 /\ v <= n - q + 1
  BY DEF Within
<1>2. PICK y : y = SubSeq(x, q, n)
  OBVIOUS
<1>3. y \in Seq(W) /\ Len(y) = n - q + 1 /\ \A k \in 1..(n - q + 1) : y[k] = x[q + k - 1]
  <2>1. /\ SubSeq(x, q, n) \in Seq(W) /\ Len(SubSeq(x, q, n)) = n - q + 1
        /\ \A k \in 1..(n - q + 1) : SubSeq(x, q, n)[k] = x[q + k - 1]
    BY <1>1, Part
  <2> QED
    BY <1>2, <2>1, Zenon
<1>4. PICK z : z = SubSeq(y, u, v)
  OBVIOUS
<1>5. z \in Seq(W) /\ Len(z) = v - u + 1 /\ \A k \in 1..(v - u + 1) : z[k] = y[u + k - 1]
  <2>1. v \in Int /\ v <= Len(y)
    BY <1>1, <1>3
  <2>2. /\ SubSeq(y, u, v) \in Seq(W) /\ Len(SubSeq(y, u, v)) = v - u + 1
        /\ \A k \in 1..(v - u + 1) : SubSeq(y, u, v)[k] = y[u + k - 1]
    BY <1>1, <1>3, <2>1, Part
  <2> QED
    BY <1>4, <2>2, Zenon
<1>6. PICK c, d : c = q + u - 1 /\ d = q + v - 1 /\ c \in Nat \ {0} /\ d \in Int /\ c <= d + 1 /\ d <= Len(x)
                  /\ d - c + 1 = v - u + 1
  BY <1>1
<1>7. PICK w : w = SubSeq(x, c, d)
  OBVIOUS
<1>8. w \in Seq(W) /\ Len(w) = d - c + 1 /\ \A k \in 1..(d - c + 1) : w[k] = x[c + k - 1]
  <2>1. /\ SubSeq(x, c, d) \in Seq(W) /\ Len(SubSeq(x, c, d)) = d - c + 1
        /\ \A k \in 1..(d - c + 1) : SubSeq(x, c, d)[k] = x[c + k - 1]
    BY <1>1, <1>6, Part
  <2> QED
    BY <1>7, <2>1, Zenon
<1>9. ASSUME NEW k \in 1..(v - u + 1) PROVE z[k] = w[k]
  <2>1. u + k - 1 \in 1..(n - q + 1) /\ q + (u + k - 1) - 1 = c + k - 1
    BY <1>1, <1>6
  <2>2. z[k] = x[q + (u + k - 1) - 1]
    BY <1>3, <1>5, <2>1
  <2>3. w[k] = x[c + k - 1]
    BY <1>6, <1>8
  <2> QED
    BY <2>1, <2>2, <2>3
<1>10. z = w
  <2>1. Len(z) = Len(w) /\ Len(z) = v - u + 1
    BY <1>5, <1>6, <1>8
  <2>2. \A k \in 1..Len(z) : z[k] = w[k]
    BY <1>9, <2>1
  <2> QED
    BY <1>5, <1>8, <2>1, <2>2, SameSeq
<1> QED
  BY <1>2, <1>4, <1>6, <1>7, <1>10, Zenon DEF Inner

\* HeldBack keeps an end of the text that takes in every end which could begin a placeholder.
HoldsFrom(rest, g, map, json) ==
    /\ g \in 1..(Len(rest) + 1)
    /\ HeldBack(rest, map, json) = SubSeq(rest, g, Len(rest))
    /\ \A k \in 1..Len(rest) : SubSeq(rest, k, Len(rest)) \in ProperPrefixes(map, json) => g <= k

\* HeldBack cuts the rest at one place, before every end that could begin a placeholder.
LEMMA HeldIs ==
    ASSUME NEW W, NEW rest \in Seq(W), NEW map, NEW json PROVE \E g : HoldsFrom(rest, g, map, json)
<1> DEFINE S == {k \in DOMAIN rest : SubSeq(rest, k, Len(rest)) \in ProperPrefixes(map, json)}
<1>1. Len(rest) \in Nat /\ DOMAIN rest = 1..Len(rest)
  OBVIOUS
<1>2. HeldBack(rest, map, json) = IF S = {} THEN <<>> ELSE SubSeq(rest, Least(S), Len(rest))
  BY Zenon DEF HeldBack
<1>3. CASE S = {}
  <2>1. PICK g : g = Len(rest) + 1 /\ g \in 1..(Len(rest) + 1)
    BY <1>1
  <2>2. SubSeq(rest, g, Len(rest)) = <<>>
    BY <1>1, <2>1
  <2>3. \A k \in 1..Len(rest) : SubSeq(rest, k, Len(rest)) \notin ProperPrefixes(map, json)
    BY <1>1, <1>3, Zenon
  <2>4. HeldBack(rest, map, json) = <<>>
    BY <1>2, <1>3, Zenon
  <2>5. HoldsFrom(rest, g, map, json)
    BY <2>1, <2>2, <2>3, <2>4, Zenon DEF HoldsFrom
  <2> QED
    BY <2>5
<1>4. CASE S # {}
  <2>1. S \in SUBSET Nat /\ S \in SUBSET (1..Len(rest))
    BY <1>1
  <2> HIDE DEF S
  <2>2. \E g \in S : \A k \in S : g <= k
    BY <1>4, <2>1, LeastNumber
  <2>3. PICK g : g = Least(S) /\ g \in S /\ \A k \in S : g <= k
    BY <2>2 DEF Least
  <2>4. g \in 1..(Len(rest) + 1)
    BY <1>1, <2>1, <2>3
  <2>5. \A k \in 1..Len(rest) : SubSeq(rest, k, Len(rest)) \in ProperPrefixes(map, json) => g <= k
    BY <1>1, <2>3, Zenon DEF S
  <2>6. HoldsFrom(rest, g, map, json)
    BY <1>2, <1>4, <2>3, <2>4, <2>5, Zenon DEF HoldsFrom
  <2> QED
    BY <2>6
<1> QED
  BY <1>3, <1>4

\* What Emit gives before the end: the text up to h, and the rest is held.
EmitsTo(x, done, h, map, json) ==
    /\ h \in done.last..Len(x)
    /\ Emit(x, done, map, json, FALSE)
         = [emitted |-> done.out \o SubSeq(x, done.last + 1, h),
            to |-> [ctx |-> Context(SubSeq(x, 1, h)), carry |-> SubSeq(x, h + 1, Len(x))]]
    /\ \A k \in (done.last + 1)..Len(x) : SubSeq(x, k, Len(x)) \in ProperPrefixes(map, json) => h < k

\* Emit before the end cuts the text at one place and holds what follows.
LEMMA Emits ==
    ASSUME NEW W, NEW x \in Seq(W), NEW done, NEW map, NEW json, done.last \in 0..Len(x)
    PROVE  \E h : EmitsTo(x, done, h, map, json)
<1>1. PICK n : n = Len(x) /\ n \in Nat
  OBVIOUS
<1>2. PICK q : q = done.last + 1 /\ q \in Nat \ {0} /\ q <= n + 1 /\ done.last \in Nat
  <2>1. PICK l : l = done.last
    OBVIOUS
  <2>2. l \in Nat /\ l <= n
    BY <1>1, <2>1
  <2>3. l + 1 \in Nat \ {0} /\ l + 1 <= n + 1
    BY <1>1, <2>2
  <2> QED
    BY <2>1, <2>2, <2>3, Zenon
<1>3. PICK rest : rest = SubSeq(x, q, n)
  OBVIOUS
<1>4. rest \in Seq(W) /\ Len(rest) = n - q + 1
  <2>1. SubSeq(x, q, n) \in Seq(W) /\ Len(SubSeq(x, q, n)) = n - q + 1
    BY <1>1, <1>2, Part
  <2> QED
    BY <1>3, <2>1, Zenon
<1>5. PICK g : HoldsFrom(rest, g, map, json)
  BY <1>4, HeldIs
<1>6. /\ g \in 1..(Len(rest) + 1)
      /\ HeldBack(rest, map, json) = SubSeq(rest, g, Len(rest))
      /\ \A k \in 1..Len(rest) : SubSeq(rest, k, Len(rest)) \in ProperPrefixes(map, json) => g <= k
  BY <1>5, Zenon DEF HoldsFrom
<1>7. PICK h \in Nat : h = q + g - 2 /\ h \in done.last..n /\ g \in Nat \ {0} /\ h + 1 = q + g - 1
  <2>1. n \in Nat /\ q \in Nat \ {0} /\ q <= n + 1 /\ done.last = q - 1
    BY <1>1, <1>2
  <2>2. g \in Nat \ {0} /\ g <= n - q + 2
    BY <1>4, <1>6, <2>1
  <2>3. q + g - 2 \in Nat /\ q + g - 2 \in (q - 1)..n /\ (q + g - 2) + 1 = q + g - 1
    BY <2>1, <2>2
  <2> QED
    BY <2>1, <2>2, <2>3, Zenon
<1>8. n \in Nat /\ q \in Nat \ {0} /\ h \in Nat /\ q <= h + 1 /\ h <= n /\ q <= n + 1 /\ g \in Nat /\ h = q + g - 2
  <2>1. n \in Nat /\ q \in Nat \ {0} /\ q <= n + 1 /\ done.last = q - 1
    BY <1>1, <1>2
  <2> QED
    BY <1>7, <2>1
<1>9. SubSeq(rest, g, Len(rest)) = SubSeq(x, h + 1, n)
  <2>1. PICK v : v = Len(rest) /\ v \in Nat /\ v = n - q + 1 /\ q + v - 1 = n
    BY <1>1, <1>2, <1>4
  <2>2. Within(W, x, q, n, g, v)
    BY <1>1, <1>2, <1>6, <1>7, <2>1 DEF Within
  <2>3. Inner(x, q, n, g, v)
    BY <2>2, PartOfPart
  <2> QED
    BY <1>3, <1>7, <2>1, <2>3, Zenon DEF Inner
<1>10. PICK hold : hold = SubSeq(x, h + 1, n)
  OBVIOUS
<1>11. Len(hold) = n - h
  <2>1. PICK a : a = h + 1 /\ a \in Nat \ {0} /\ a <= n + 1 /\ n - a + 1 = n - h
    <3>1. h \in Nat /\ n \in Nat /\ h <= n
      BY <1>1, <1>2, <1>7
    <3> QED
      BY <3>1
  <2>2. SubSeq(x, a, n) \in Seq(W) /\ Len(SubSeq(x, a, n)) = n - a + 1
    BY <1>1, <2>1, Part
  <2> QED
    BY <1>10, <2>1, <2>2, Zenon
<1>12. n - Len(hold) = h /\ Len(rest) - Len(hold) = h - q + 1
  BY <1>4, <1>11, <1>8
<1>13. SubSeq(rest, 1, h - q + 1) = SubSeq(x, q, h)
  <2>1. PICK v : v = h - q + 1 /\ v \in Nat /\ v <= n - q + 1 /\ q + v - 1 = h
    BY <1>8
  <2>2. PICK u : u = 1
    OBVIOUS
  <2>3. Within(W, x, q, n, u, v) /\ q + u - 1 = q
    BY <1>1, <1>8, <2>1, <2>2 DEF Within
  <2>4. Inner(x, q, n, u, v)
    BY <2>3, PartOfPart
  <2> QED
    BY <1>3, <2>1, <2>2, <2>3, <2>4, Zenon DEF Inner
<1>14. Emit(x, done, map, json, FALSE)
         = [emitted |-> done.out \o SubSeq(rest, 1, Len(rest) - Len(hold)),
            to |-> [ctx |-> Context(SubSeq(x, 1, n - Len(hold))), carry |-> hold]]
  <2>1. SubSeq(x, done.last + 1, Len(x)) = rest
    BY <1>1, <1>2, <1>3, Zenon
  <2>2. HeldBack(rest, map, json) = hold
    BY <1>6, <1>9, <1>10, Zenon
  <2> QED
    BY <1>1, <2>1, <2>2, Zenon DEF Emit
<1>15. Emit(x, done, map, json, FALSE)
         = [emitted |-> done.out \o SubSeq(x, done.last + 1, h),
            to |-> [ctx |-> Context(SubSeq(x, 1, h)), carry |-> SubSeq(x, h + 1, Len(x))]]
  BY <1>1, <1>2, <1>10, <1>12, <1>13, <1>14, Zenon
<1>16. ASSUME NEW k \in (done.last + 1)..Len(x), SubSeq(x, k, Len(x)) \in ProperPrefixes(map, json)
       PROVE  h < k
  <2>1. k \in Nat /\ q <= k /\ k <= n
    BY <1>1, <1>2, <1>16, <1>8
  <2>2. PICK u : u = k - q + 1 /\ u \in Nat \ {0} /\ u \in 1..Len(rest) /\ q + u - 1 = k
    BY <1>4, <1>8, <2>1
  <2>3. PICK v : v = Len(rest) /\ v \in Nat /\ v = n - q + 1 /\ q + v - 1 = n /\ u <= v + 1
    BY <1>4, <1>8, <2>1, <2>2
  <2>4. Within(W, x, q, n, u, v)
    BY <1>1, <1>2, <1>6, <2>2, <2>3 DEF Within
  <2>5. Inner(x, q, n, u, v)
    BY <2>4, PartOfPart
  <2>6. SubSeq(rest, u, Len(rest)) = SubSeq(x, k, Len(x))
    BY <1>1, <1>3, <2>2, <2>3, <2>5, Zenon DEF Inner
  <2>7. g <= u
    BY <1>6, <1>16, <2>2, <2>6, Zenon
  <2> QED
    BY <1>8, <2>1, <2>2, <2>7
<1>17. EmitsTo(x, done, h, map, json)
  BY <1>1, <1>7, <1>15, <1>16, Zenon DEF EmitsTo
<1> QED
  BY <1>17

\* A beginning of a spelling is one of the proper prefixes.
Spelled(z, o, core, c, u, k, map, json, W) ==
    /\ o \in {<<>>} \cup Opens(json) /\ core \in DOMAIN map /\ c \in Closes(json)
    /\ u \in Seq(W) /\ u = o \o core /\ c \in Seq(W) /\ k \in Nat /\ k # 0 /\ k < Len(u) + Len(c)
    /\ z \in Seq(W) /\ Len(z) = k /\ \A i \in 1..k : z[i] = IF i <= Len(u) THEN u[i] ELSE c[i - Len(u)]

\* A text that spells a delimiter, an issued core and a delimiter but for its end is held back.
LEMMA Begins ==
    ASSUME NEW W, NEW map, NEW json, NEW o, NEW core, NEW c, NEW u, NEW k, NEW z,
           Spelled(z, o, core, c, u, k, map, json, W)
    PROVE  z \in ProperPrefixes(map, json)
<1>1. /\ o \in {<<>>} \cup Opens(json) /\ core \in DOMAIN map /\ c \in Closes(json)
      /\ u \in Seq(W) /\ u = o \o core /\ c \in Seq(W) /\ k \in Nat /\ k # 0 /\ k < Len(u) + Len(c)
      /\ z \in Seq(W) /\ Len(z) = k /\ \A i \in 1..k : z[i] = IF i <= Len(u) THEN u[i] ELSE c[i - Len(u)]
  BY Zenon DEF Spelled
<1>2. PICK s : s = o \o core \o c
  OBVIOUS
<1>3. s \in Spellings(map, json)
  <2>1. o \in {<<>>} \cup Opens(json) /\ core \in DOMAIN map /\ c \in Closes(json)
    BY <1>1, Zenon
  <2> QED
    BY <1>2, <2>1 DEF Spellings
<1>4. s = u \o c
  BY <1>1, <1>2, Zenon
<1>5. /\ s \in Seq(W) /\ Len(s) = Len(u) + Len(c) /\ Len(u) \in Nat /\ Len(c) \in Nat
      /\ \A i \in 1..Len(u) : s[i] = u[i]
      /\ \A i \in (Len(u) + 1)..(Len(u) + Len(c)) : s[i] = c[i - Len(u)]
  <2>1. /\ u \o c \in Seq(W) /\ Len(u \o c) = Len(u) + Len(c) /\ Len(u) \in Nat /\ Len(c) \in Nat
        /\ \A i \in 1..Len(u) : (u \o c)[i] = u[i]
        /\ \A i \in (Len(u) + 1)..(Len(u) + Len(c)) : (u \o c)[i] = c[i - Len(u)]
    BY <1>1, Joint
  <2> QED
    BY <1>4, <2>1, Zenon
<1>6. PICK y : y = SubSeq(s, 1, k)
  OBVIOUS
<1>7. y \in Seq(W) /\ Len(y) = k /\ \A i \in 1..k : y[i] = s[i]
  <2>1. PICK one : one = 1
    OBVIOUS
  <2>2. one \in Nat \ {0} /\ k \in Int /\ one <= k + 1 /\ k <= Len(s) /\ k - one + 1 = k /\ \A i \in Int : one + i - 1 = i
    BY <1>1, <1>5, <2>1
  <2>3. /\ SubSeq(s, one, k) \in Seq(W) /\ Len(SubSeq(s, one, k)) = k - one + 1
        /\ \A i \in 1..(k - one + 1) : SubSeq(s, one, k)[i] = s[one + i - 1]
    BY <1>5, <2>2, Part
  <2>4. y \in Seq(W) /\ Len(y) = k - one + 1 /\ \A i \in 1..(k - one + 1) : y[i] = s[one + i - 1]
    BY <1>6, <2>1, <2>3, Zenon
  <2> QED
    BY <2>2, <2>4
<1>8. ASSUME NEW i \in 1..k PROVE z[i] = s[i]
  <2>1. CASE i <= Len(u)
    <3>1. i \in 1..Len(u)
      BY <1>5, <2>1
    <3> QED
      BY <1>1, <1>5, <2>1, <3>1
  <2>2. CASE ~(i <= Len(u))
    <3>1. i \in (Len(u) + 1)..(Len(u) + Len(c))
      BY <1>1, <1>5, <2>2
    <3>2. s[i] = c[i - Len(u)]
      BY <1>5, <3>1
    <3>3. z[i] = c[i - Len(u)]
      BY <1>1, <2>2, Zenon
    <3> QED
      BY <3>2, <3>3
  <2> QED
    BY <2>1, <2>2
<1>9. z = y
  BY <1>1, <1>7, <1>8, SameSeq
<1>10. k \in 1..(Len(s) - 1)
  BY <1>1, <1>5
<1>11. y \in {SubSeq(s, 1, i) : i \in 1..(Len(s) - 1)}
  BY <1>6, <1>10, Zenon
<1> QED
  BY <1>3, <1>9, <1>11, Zenon DEF ProperPrefixes

\* The end of the shorter text, from where a pending token begins, is held back.
Holds(x, t, p, at, j, map, json, W) ==
    /\ Longer(x, t, W) /\ json \in BOOLEAN /\ p \in 1..Len(x) /\ HasToken(t, p, json, at, j)
    /\ Pending(t, j, Len(x), json) /\ SubSeq(t, at, j) \in DOMAIN map

\* What a pending token of an issued placeholder has of the shorter text is held back.
LEMMA HeldToken ==
    ASSUME NEW W, NEW x, NEW t, NEW p, NEW at, NEW j, NEW map, NEW json, Holds(x, t, p, at, j, map, json, W)
    PROVE  SubSeq(x, p, Len(x)) \in ProperPrefixes(map, json)
<1>1. /\ Longer(x, t, W) /\ json \in BOOLEAN /\ p \in Nat \ {0} /\ p <= Len(x) /\ HasToken(t, p, json, at, j)
      /\ Pending(t, j, Len(x), json) /\ SubSeq(t, at, j) \in DOMAIN map
      /\ x \in Seq(W) /\ t \in Seq(W) /\ Len(x) \in Nat /\ Len(t) \in Nat /\ Len(x) <= Len(t)
      /\ \A i \in 1..Len(x) : t[i] = x[i]
  BY DEF Holds, Longer
<1>2. /\ at \in Nat \ {0} /\ j \in Nat /\ at < j /\ j <= Len(t) /\ at \in {p, p + 1, p + 2}
      /\ at = p + 1 => t[p] = "["
      /\ at = p + 2 => json /\ t[p] = "\\" /\ t[p + 1] = "o"
  BY <1>1, TokenLeads
<1>3. PICK V : V = W \cup {"[", "]", "\\", "o", "c"}
  OBVIOUS
<1>4. t \in Seq(V) /\ x \in Seq(V) /\ Longer(x, t, V)
  <2>1. t \in Seq(V) /\ x \in Seq(V)
    BY <1>1, <1>3
  <2> QED
    BY <1>1, <2>1 DEF Longer
<1>5. PICK o : o = SubSeq(t, p, at - 1)
  OBVIOUS
<1>6. o \in {<<>>} \cup Opens(json)
  <2>1. CASE at = p
    <3>1. SubSeq(t, p, at - 1) = <<>>
      BY <1>1, <1>2, <2>1
    <3> QED
      BY <1>5, <3>1, Zenon
  <2>2. CASE at = p + 1
    <3>1. StartsAt(t, p, <<"[">>)
      <4>1. /\ StartsAt(t, p, <<"[">>) <=> p <= Len(t) /\ t[p] = "["
            /\ StartsAt(t, p, <<"[", "[">>) <=> p + 1 <= Len(t) /\ t[p] = "[" /\ t[p + 1] = "["
        BY <1>1, StartsAtIs
      <4> QED
        BY <1>1, <1>2, <2>2, <4>1
    <3>2. Len(<<"[">>) = 1 /\ p + 1 - 1 = at - 1
      BY <1>1, <2>2
    <3>3. SubSeq(t, p, at - 1) = <<"[">>
      BY <3>1, <3>2, Zenon DEF StartsAt
    <3> QED
      BY <1>5, <3>3, Zenon DEF Opens
  <2>3. CASE at = p + 2
    <3>1. StartsAt(t, p, <<"\\", "o">>)
      <4>1. /\ StartsAt(t, p, <<"\\">>) <=> p <= Len(t) /\ t[p] = "\\"
            /\ StartsAt(t, p, <<"\\", "o">>) <=> p + 1 <= Len(t) /\ t[p] = "\\" /\ t[p + 1] = "o"
        BY <1>1, StartsAtIs
      <4>2. p + 1 <= Len(t)
        BY <1>1, <1>2, <2>3
      <4>3. t[p] = "\\" /\ t[p + 1] = "o"
        BY <1>2, <2>3, Zenon
      <4> QED
        BY <4>1, <4>2, <4>3
    <3>2. Len(<<"\\", "o">>) = 2 /\ p + 2 - 1 = at - 1
      BY <1>1, <2>3
    <3>3. SubSeq(t, p, at - 1) = <<"\\", "o">>
      BY <3>1, <3>2, Zenon DEF StartsAt
    <3>4. json
      BY <1>1, <1>2, <2>3
    <3>5. Opens(json) = {<<"[">>} \cup {<<"\\", "o">>}
      BY <3>4, Zenon DEF Opens
    <3> QED
      BY <1>5, <3>3, <3>5, Zenon
  <2> QED
    BY <1>2, <2>1, <2>2, <2>3
<1>7. PICK core : core = SubSeq(t, at, j)
  OBVIOUS
<1>8. PICK u : u = SubSeq(t, p, j)
  OBVIOUS
<1>9. u \in Seq(V) /\ Len(u) = j - p + 1 /\ \A i \in 1..(j - p + 1) : u[i] = t[p + i - 1]
  <2>1. p <= j + 1 /\ j \in Int
    BY <1>1, <1>2
  <2>2. /\ SubSeq(t, p, j) \in Seq(V) /\ Len(SubSeq(t, p, j)) = j - p + 1
        /\ \A i \in 1..(j - p + 1) : SubSeq(t, p, j)[i] = t[p + i - 1]
    BY <1>1, <1>2, <1>4, <2>1, Part
  <2> QED
    BY <1>8, <2>2, Zenon
<1>10. u = o \o core
  <2>1. PICK b : b = at - 1 /\ b \in Nat /\ b + 1 = at /\ p <= b + 1 /\ b <= j
    BY <1>1, <1>2
  <2>2. Meet(V, t, p, b, j)
    BY <1>1, <1>2, <1>4, <2>1 DEF Meet
  <2>3. Add(t, p, b, j)
    BY <2>2, Parts
  <2> QED
    BY <1>5, <1>7, <1>8, <2>1, <2>3, Zenon DEF Add
<1>11. PICK z : z = SubSeq(x, p, Len(x))
  OBVIOUS
<1>12. PICK k : k = Len(x) - p + 1 /\ k \in Nat /\ k # 0
  BY <1>1
<1>13. z \in Seq(V) /\ Len(z) = k /\ \A i \in 1..k : z[i] = t[p + i - 1]
  <2>1. p <= Len(x) + 1 /\ Len(x) \in Int
    BY <1>1
  <2>2. /\ SubSeq(x, p, Len(x)) \in Seq(V) /\ Len(SubSeq(x, p, Len(x))) = Len(x) - p + 1
        /\ \A i \in 1..(Len(x) - p + 1) : SubSeq(x, p, Len(x))[i] = x[p + i - 1]
    BY <1>1, <1>4, <2>1, Part
  <2>3. z \in Seq(V) /\ Len(z) = k /\ \A i \in 1..k : z[i] = x[p + i - 1]
    BY <1>11, <1>12, <2>2, Zenon
  <2>4. \A i \in 1..k : p + i - 1 \in 1..Len(x)
    BY <1>1, <1>12
  <2>5. \A i \in 1..k : t[p + i - 1] = x[p + i - 1]
    BY <1>1, <2>4
  <2> QED
    BY <2>3, <2>5
<1>14. \E c \in Closes(json) : c \in Seq(V) /\ k < Len(u) + Len(c) /\ \A i \in (Len(u) + 1)..k : t[p + i - 1] = c[i - Len(u)]
  <2>1. PICK w : w = CloseWidth(t, j + 1, json) /\ w \in {0, 1, 2} /\ (w # 0 => CloseAt(t, j + 1, json, w))
    <3>1. j + 1 \in Nat \ {0}
      BY <1>2
    <3> QED
      BY <1>1, <3>1, OneDelimiter
  <2>2. PICK c1, c2 : c1 = <<"]">> /\ c2 = <<"\\", "c">>
    OBVIOUS
  <2>3. c1 \in Closes(json) /\ c1 \in Seq(V) /\ Len(c1) = 1
    BY <1>3, <2>2 DEF Closes
  <2>4. c2 \in Seq(V) /\ Len(c2) = 2 /\ c2[1] = "\\"
    BY <1>3, <2>2
  <2>5. json => c2 \in Closes(json)
    BY <2>2, Zenon DEF Closes
  <2>6. CASE (w = 1 /\ Len(x) < j + w) \/ (w = 0 /\ Len(x) <= j)
    <3>1. k < Len(u) + Len(c1)
      BY <1>1, <1>2, <1>9, <1>12, <2>3, <2>6
    <3>2. \A i \in (Len(u) + 1)..k : FALSE
      BY <1>1, <1>2, <1>9, <1>12, <2>6
    <3> QED
      BY <2>3, <3>1, <3>2
  <2>7. CASE (w = 2 /\ Len(x) < j + w) \/ (w = 0 /\ json /\ j + 1 = Len(x) /\ t[j + 1] = "\\")
    <3>1. json /\ t[j + 1] = "\\"
      <4>1. CASE w = 2
        BY <2>1, <4>1 DEF CloseAt
      <4> QED
        BY <2>7, <4>1
    <3>2. k < Len(u) + Len(c2) /\ k <= Len(u) + 1
      BY <1>1, <1>2, <1>9, <1>12, <2>4, <2>7
    <3>3. ASSUME NEW i \in (Len(u) + 1)..k PROVE t[p + i - 1] = c2[i - Len(u)]
      <4>1. i = Len(u) + 1 /\ p + i - 1 = j + 1 /\ i - Len(u) = 1
        BY <1>1, <1>2, <1>9, <1>12, <3>2
      <4> QED
        BY <2>4, <3>1, <4>1
    <3> QED
      BY <2>4, <2>5, <3>1, <3>2, <3>3, Zenon
  <2>8. \/ (w = 1 /\ Len(x) < j + w) \/ (w = 0 /\ Len(x) <= j)
        \/ (w = 2 /\ Len(x) < j + w) \/ (w = 0 /\ json /\ j + 1 = Len(x) /\ t[j + 1] = "\\")
    BY <1>1, <2>1 DEF Pending
  <2> QED
    BY <2>6, <2>7, <2>8
<1>15. PICK c \in Closes(json) : c \in Seq(V) /\ k < Len(u) + Len(c) /\ \A i \in (Len(u) + 1)..k : t[p + i - 1] = c[i - Len(u)]
  BY <1>14, Zenon
<1>16. \A i \in 1..k : z[i] = IF i <= Len(u) THEN u[i] ELSE c[i - Len(u)]
  <2> TAKE i \in 1..k
  <2>1. CASE i <= Len(u)
    <3>1. i \in 1..(j - p + 1)
      BY <1>9, <1>12, <2>1
    <3> QED
      BY <1>9, <1>13, <2>1, <3>1
  <2>2. CASE ~(i <= Len(u))
    <3>1. i \in (Len(u) + 1)..k
      BY <1>1, <1>2, <1>9, <1>12, <2>2
    <3> QED
      BY <1>13, <1>15, <2>2, <3>1
  <2> QED
    BY <2>1, <2>2
<1>17. z \in ProperPrefixes(map, json)
  <2>1. Spelled(z, o, core, c, u, k, map, json, V)
    BY <1>1, <1>6, <1>7, <1>9, <1>10, <1>12, <1>13, <1>15, <1>16, Zenon DEF Spelled
  <2> QED
    BY <2>1, Begins
<1> QED
  BY <1>11, <1>17, Zenon

\* In JSON a last unit that could begin an escaped delimiter is held back.
Slash(x, map, json, W) ==
    /\ x \in Seq(W) /\ json /\ json \in BOOLEAN /\ Len(x) # 0 /\ x[Len(x)] = "\\" /\ DOMAIN map # {} /\ Fits(map, json, W)

\* A last backslash of a JSON text is held back.
LEMMA HeldSlash ==
    ASSUME NEW W, NEW x, NEW map, NEW json, Slash(x, map, json, W)
    PROVE  SubSeq(x, Len(x), Len(x)) \in ProperPrefixes(map, json)
<1>1. /\ x \in Seq(W) /\ json /\ json \in BOOLEAN /\ Len(x) # 0 /\ x[Len(x)] = "\\" /\ DOMAIN map # {}
      /\ Fits(map, json, W)
  BY Zenon DEF Slash
<1>2. x \in Seq(W) /\ Len(x) \in Nat \ {0} /\ x[Len(x)] = "\\"
  <2>1. x \in Seq(W) /\ Len(x) # 0 /\ x[Len(x)] = "\\"
    BY <1>1, Zenon
  <2> QED
    BY <2>1
<1>3. PICK core \in DOMAIN map : core \in Seq(W)
  BY <1>1 DEF Fits
<1>4. PICK V : V = W \cup {"]", "\\", "o"}
  OBVIOUS
<1>5. PICK o, c : o = <<"\\", "o">> /\ c = <<"]">>
  OBVIOUS
<1>6. o \in Seq(V) /\ c \in Seq(V) /\ core \in Seq(V) /\ Len(o) = 2 /\ o[1] = "\\" /\ Len(c) = 1 /\ x \in Seq(V)
  BY <1>1, <1>3, <1>4, <1>5
<1>7. o \in {<<>>} \cup Opens(json) /\ c \in Closes(json)
  BY <1>1, <1>5, Zenon DEF Opens, Closes
<1>8. PICK u : u = o \o core
  OBVIOUS
<1>9. u \in Seq(V) /\ Len(u) \in Nat /\ 2 <= Len(u) /\ u[1] = "\\"
  <2>1. /\ o \o core \in Seq(V) /\ Len(o \o core) = Len(o) + Len(core) /\ Len(core) \in Nat
        /\ \A i \in 1..Len(o) : (o \o core)[i] = o[i]
    BY <1>6, Joint
  <2>2. u \in Seq(V) /\ Len(u) = Len(o) + Len(core) /\ Len(core) \in Nat /\ \A i \in 1..Len(o) : u[i] = o[i]
    BY <1>8, <2>1, Zenon
  <2>3. Len(o) = 2 /\ o[1] = "\\"
    BY <1>6
  <2> QED
    BY <2>2, <2>3
<1>10. PICK z : z = SubSeq(x, Len(x), Len(x))
  OBVIOUS
<1>11. z \in Seq(V) /\ Len(z) = 1 /\ z[1] = "\\"
  <2>1. PICK a \in Nat \ {0} : a = Len(x)
    BY <1>2
  <2>2. a = Len(x) /\ a \in Nat \ {0} /\ a \in Int /\ a <= a + 1 /\ a - a + 1 = 1 /\ a + 1 - 1 = a
    BY <2>1
  <2>3. /\ SubSeq(x, a, a) \in Seq(V) /\ Len(SubSeq(x, a, a)) = a - a + 1
        /\ \A i \in 1..(a - a + 1) : SubSeq(x, a, a)[i] = x[a + i - 1]
    BY <1>6, <2>2, Part
  <2>4. /\ z \in Seq(V) /\ Len(z) = a - a + 1
        /\ \A i \in 1..(a - a + 1) : z[i] = x[a + i - 1]
    BY <1>10, <2>2, <2>3, Zenon
  <2> QED
    BY <1>2, <2>2, <2>4
<1>12. PICK k : k = 1 /\ k \in Nat /\ k # 0 /\ k < Len(u) + Len(c) /\ Len(z) = k
  BY <1>6, <1>9, <1>11
<1>13. \A i \in 1..k : z[i] = IF i <= Len(u) THEN u[i] ELSE c[i - Len(u)]
  BY <1>9, <1>11, <1>12
<1>14. z \in ProperPrefixes(map, json)
  <2>1. Spelled(z, o, core, c, u, k, map, json, V)
    BY <1>1, <1>6, <1>7, <1>8, <1>9, <1>11, <1>12, <1>13, Zenon DEF Spelled
  <2> QED
    BY <2>1, Begins
<1> QED
  BY <1>10, <1>14, Zenon

\* Where TokenAt finds nothing there is no token.
LEMMA Quiet ==
    ASSUME NEW W, NEW t \in Seq(W), NEW i \in Nat \ {0}, NEW json \in BOOLEAN,
           TokenAt(t, i, json) = NoMatch, NEW at, NEW j
    PROVE  ~HasToken(t, i, json, at, j)
<1> SUFFICES ASSUME HasToken(t, i, json, at, j) PROVE FALSE
  OBVIOUS
<1>1. TokenAt(t, i, json) = Token(t, at, j, json)
  BY TokenIs
<1>2. Token(t, at, j, json) # NoMatch
  BY TokenInside
<1> QED
  BY <1>1, <1>2

\* What is emitted of a text stands at the front of what any longer text gives, and the
\* rest of that is given by a scan from where the held text begins.
Goes(x, t, from, out, h, map, json, W) ==
    /\ h \in (from - 1)..Len(x) /\ out \in Seq(W) /\ Whole(t, h + 1, map, json) \in Seq(W)
    /\ Whole(t, from, map, json) = out \o Whole(t, h + 1, map, json)

\* A run over x before its end, which t goes on from.
Runs(x, t, from, done, h, map, json, W) ==
    /\ Longer(x, t, W) /\ Ready(x, from, map, json, W) /\ Ready(t, from, map, json, W) /\ DOMAIN map # {}
    /\ done = replaceFrom(x, from, map, json, FALSE) /\ EmitsTo(x, done, h, map, json)

\* What a run emits of a text stands at the front of what any longer text gives.
LEMMA Emitted ==
    ASSUME NEW W, NEW x, NEW t, NEW from, NEW done, NEW h, NEW map, NEW json,
           Runs(x, t, from, done, h, map, json, W)
    PROVE  Goes(x, t, from, done.out \o SubSeq(x, done.last + 1, h), h, map, json, W)
<1>1. /\ Longer(x, t, W) /\ Ready(x, from, map, json, W) /\ Ready(t, from, map, json, W) /\ DOMAIN map # {}
      /\ done = replaceFrom(x, from, map, json, FALSE) /\ EmitsTo(x, done, h, map, json)
  BY Zenon DEF Runs
<1>2. /\ x \in Seq(W) /\ t \in Seq(W) /\ Len(x) \in Nat /\ Len(t) \in Nat /\ Len(x) <= Len(t)
      /\ from \in Nat \ {0} /\ from <= Len(x) + 1 /\ \A i \in 1..Len(x) : t[i] = x[i]
  BY <1>1 DEF Longer, Ready
<1>3. json \in BOOLEAN /\ Fits(map, json, W)
  BY <1>1, Zenon DEF Ready
<1>4. PICK a : IsScan(a, x, from, map, json, FALSE, W)
  <2>1. HasScan(x, from, map, json, FALSE)
    BY <1>1, Scanned, Zenon
  <2> QED
    BY <1>1, <2>1, Zenon DEF HasScan, IsScan
<1>5. PICK b : IsScan(b, t, from, map, json, TRUE, W)
  <2>1. HasScan(t, from, map, json, TRUE)
    BY <1>1, Scanned, Zenon
  <2> QED
    BY <1>1, <2>1, Zenon DEF HasScan, IsScan
<1>6. PICK p : PartsAt(a, b, x, t, from, p, json)
  BY <1>1, <1>4, <1>5, Parting, Zenon
<1>7. /\ p \in from..(Len(x) + 1) /\ b[p - 1].last < p
      /\ done.out = b[p - 1].out /\ done.last = b[p - 1].last
      /\ p <= Len(x) => Undecided(t, p, Len(x), json)
  BY <1>1, <1>4, <1>6, Zenon DEF PartsAt, IsScan
<1>8. Rests(b, t, from, p, map, json, W)
  <2>1. p \in from..(Len(t) + 1)
    BY <1>2, <1>7
  <2>2. Comes(b, t, from, p)
    BY <1>7, <2>1, Zenon DEF Comes
  <2> QED
    BY <1>5, <2>2, Resting, Zenon
<1>9. /\ done.out \in Seq(W) /\ done.last + 1 \in from..p
      /\ Whole(t, done.last + 1, map, json) \in Seq(W)
      /\ Whole(t, from, map, json) = done.out \o Whole(t, done.last + 1, map, json)
      /\ \A k \in (done.last + 1)..(p - 1) : TokenAt(t, k, json) = NoMatch
  BY <1>7, <1>8, Zenon DEF Rests
<1>10. PICK q : q = done.last + 1
  OBVIOUS
<1>11. /\ q \in Nat \ {0} /\ p \in Nat \ {0} /\ from <= q /\ q <= p /\ p <= Len(x) + 1
       /\ \A k \in q..(p - 1) : TokenAt(t, k, json) = NoMatch
  BY <1>2, <1>7, <1>9, <1>10
<1>12. /\ h \in (q - 1)..Len(x)
       /\ \A k \in q..Len(x) : SubSeq(x, k, Len(x)) \in ProperPrefixes(map, json) => h < k
  <2>1. /\ h \in done.last..Len(x)
        /\ \A k \in (done.last + 1)..Len(x) : SubSeq(x, k, Len(x)) \in ProperPrefixes(map, json) => h < k
    BY <1>1, Zenon DEF EmitsTo
  <2>2. done.last = q - 1
    <3>1. PICK l : l = done.last
      OBVIOUS
    <3>2. l + 1 \in from..p /\ q = l + 1 /\ l < p
      BY <1>7, <1>9, <1>10, <3>1, Zenon
    <3>3. l \in Nat
      <4>1. b[p - 1].last \in Nat
        <5>1. p - 1 \in (from - 1)..Len(t)
          BY <1>2, <1>7
        <5>2. PICK final : final = TRUE
          OBVIOUS
        <5>3. Ready(t, from, map, json, W) /\ Scans(b, t, from, map, json, final)
          BY <1>5, <5>2, Zenon DEF IsScan
        <5>4. b[p - 1] \in Progress(t, from, W)
          BY <5>1, <5>2, <5>3, ScanTypes
        <5> QED
          BY <1>2, <5>4 DEF Progress
      <4> QED
        BY <1>7, <3>1, <4>1
    <3> QED
      BY <3>1, <3>2, <3>3
  <2> QED
    BY <1>10, <2>1, <2>2, Zenon
<1>13. h \in Nat /\ h <= Len(x) /\ q - 1 <= h
  BY <1>2, <1>11, <1>12
<1>14. ASSUME NEW k \in q..(p - 1), NEW at, NEW j PROVE ~HasToken(t, k, json, at, j)
  <2>1. k \in Nat \ {0}
    BY <1>11
  <2>2. TokenAt(t, k, json) = NoMatch
    BY <1>11
  <2> QED
    BY <1>2, <1>3, <2>1, <2>2, Quiet
<1>15. \E e \in Nat : h <= e /\ e <= Len(t) /\ Plain(t, q, e, map, json)
  <2>1. CASE p = Len(x) + 1 \/ NoTokens(t, p, Len(x), json)
    <3>1. Plain(t, q, Len(x), map, json)
      <4> SUFFICES ASSUME NEW k \in q..Len(x), NEW at, NEW j, HasToken(t, k, json, at, j) PROVE FALSE
        BY DEF Plain
      <4>1. k \in q..(p - 1) \/ (k \in p..Len(x) /\ p # Len(x) + 1)
        BY <1>2, <1>11
      <4> QED
        BY <1>14, <2>1, <4>1, Zenon DEF NoTokens
    <3> QED
      BY <1>2, <1>13, <3>1
  <2>2. CASE p <= Len(x) /\ \E at, j : HasToken(t, p, json, at, j) /\ Pending(t, j, Len(x), json)
    <3>1. PICK at, j : HasToken(t, p, json, at, j) /\ Pending(t, j, Len(x), json)
      BY <2>2
    <3>2. p \in 1..Len(x) /\ p \in q..Len(x)
      BY <1>2, <1>11, <2>2
    <3>3. CASE SubSeq(t, at, j) \in DOMAIN map
      <4>1. Holds(x, t, p, at, j, map, json, W)
        BY <1>1, <1>3, <3>1, <3>2, <3>3, Zenon DEF Holds
      <4>2. SubSeq(x, p, Len(x)) \in ProperPrefixes(map, json)
        BY <4>1, HeldToken, Zenon
      <4>3. h < p
        BY <1>12, <3>2, <4>2, Zenon
      <4>4. PICK e : e = p - 1
        OBVIOUS
      <4>5. e \in Nat /\ h <= e /\ e <= Len(t)
        BY <1>2, <1>11, <1>13, <4>3, <4>4
      <4>6. Plain(t, q, e, map, json)
        BY <1>14, <4>4, Zenon DEF Plain
      <4> QED
        BY <4>5, <4>6
    <3>4. CASE SubSeq(t, at, j) \notin DOMAIN map
      <4>1. PICK m : m = Token(t, at, j, json)
        OBVIOUS
      <4>2. PICK w \in {0, 1, 2} : w = CloseWidth(t, j + 1, json) /\ m.end = j + w
        <5>1. j + 1 \in Nat \ {0}
          BY <1>2, <1>3, <1>11, <3>1, TokenLeads
        <5>2. CloseWidth(t, j + 1, json) \in {0, 1, 2}
          BY <1>2, <1>3, <5>1, OneDelimiter
        <5>3. m.end = j + CloseWidth(t, j + 1, json)
          BY <4>1 DEF Token
        <5> QED
          BY <5>2, <5>3
      <4>3. m.core = SubSeq(t, at, j)
        BY <4>1, Zenon DEF Token
      <4>4. j \in Nat /\ m.end \in j..Len(t) /\ m.end > p
        BY <1>2, <1>3, <1>11, <3>1, <4>1, TokenLeads, TokenInside
      <4>5. h <= m.end
        <5>1. CASE json /\ j + 1 = Len(x) /\ t[Len(x)] = "\\"
          <6>1. t[Len(x)] = "\\"
            BY <5>1, Zenon
          <6>2. x[Len(x)] = "\\" /\ Len(x) # 0 /\ Len(x) \in q..Len(x)
            <7>1. Len(x) # 0 /\ Len(x) \in 1..Len(x) /\ Len(x) \in q..Len(x)
              BY <1>2, <1>11, <3>2
            <7>2. t[Len(x)] = x[Len(x)]
              BY <1>2, <7>1
            <7> QED
              BY <6>1, <7>1, <7>2, Zenon
          <6>3. Slash(x, map, json, W)
            BY <1>1, <1>2, <1>3, <5>1, <6>2, Zenon DEF Slash
          <6>4. SubSeq(x, Len(x), Len(x)) \in ProperPrefixes(map, json)
            BY <6>3, HeldSlash, Zenon
          <6>5. h < Len(x)
            BY <1>12, <6>2, <6>4, Zenon
          <6>6. j + 1 = Len(x)
            BY <5>1
          <6> QED
            BY <1>2, <1>13, <4>4, <6>5, <6>6
        <5>2. CASE Len(x) < j + w \/ Len(x) <= j
          BY <1>2, <1>13, <4>2, <4>4, <5>2
        <5>3. (json /\ j + 1 = Len(x) /\ t[Len(x)] = "\\") \/ Len(x) < j + w \/ Len(x) <= j
          BY <3>1, <4>2, Zenon DEF Pending
        <5> QED
          BY <5>1, <5>2, <5>3
      <4>6. PICK e \in Nat : e = m.end /\ e <= Len(t) /\ e >= p
        BY <1>2, <1>11, <4>4
      <4>7. Plain(t, q, e, map, json)
        <5> SUFFICES ASSUME NEW k \in q..e, NEW c, NEW d, HasToken(t, k, json, c, d)
                     PROVE  Token(t, c, d, json).core \notin DOMAIN map /\ Token(t, c, d, json).end <= e
          BY DEF Plain
        <5>1. k \in q..(p - 1) \/ k \in p..e
          BY <1>11, <4>6
        <5>2. k \notin q..(p - 1)
          BY <1>14
        <5>3. k \in p..Token(t, at, j, json).end
          BY <4>1, <4>6, <5>1, <5>2, Zenon
        <5>4. c = at /\ d = j
          BY <1>2, <1>3, <1>11, <3>1, <5>3, TokenInside
        <5>5. Token(t, c, d, json) = m
          BY <4>1, <5>4
        <5>6. e <= e
          OBVIOUS
        <5> QED
          BY <3>4, <4>3, <4>6, <5>5, <5>6, Zenon
      <4>8. h <= e
        BY <4>5, <4>6, Zenon
      <4> QED
        BY <4>6, <4>7, <4>8
    <3> QED
      BY <3>3, <3>4
  <2>3. p <= Len(x) => NoTokens(t, p, Len(x), json)
                       \/ \E at, j : HasToken(t, p, json, at, j) /\ Pending(t, j, Len(x), json)
    BY <1>7, Zenon DEF Undecided
  <2>4. p = Len(x) + 1 \/ p <= Len(x)
    BY <1>2, <1>11
  <2> QED
    BY <2>1, <2>2, <2>3, <2>4, Zenon
<1>16. PICK e \in Nat : h <= e /\ e <= Len(t) /\ Plain(t, q, e, map, json)
  BY <1>15, Zenon
<1>17. Unchanged(t, q, h, map, json, W)
  <2>1. q \in 1..(Len(t) + 1)
    BY <1>2, <1>11
  <2>2. Ready(t, q, map, json, W)
    BY <1>2, <1>3, <2>1, Zenon DEF Ready
  <2>3. PlainTo(t, q, h, e, map, json, W)
    BY <1>13, <1>16, <2>2, Zenon DEF PlainTo
  <2> QED
    BY <2>3, Passes
<1>18. SubSeq(x, q, h) = SubSeq(t, q, h)
  <2>1. h \in Int /\ q <= h + 1
    BY <1>11, <1>13
  <2> QED
    BY <1>1, <1>11, <1>13, <2>1, SameParts
<1>19. PICK y, z, o : y = SubSeq(x, q, h) /\ z = Whole(t, h + 1, map, json) /\ o = done.out
  OBVIOUS
<1>20. y \in Seq(W) /\ z \in Seq(W) /\ o \in Seq(W) /\ Whole(t, q, map, json) = y \o z
  BY <1>9, <1>17, <1>18, <1>19, Zenon DEF Unchanged
<1>21. o \o (y \o z) = (o \o y) \o z /\ o \o y \in Seq(W)
  <2>1. Three(W, o, y, z)
    BY <1>20, Zenon DEF Three
  <2>2. (o \o y) \o z = o \o (y \o z)
    BY <2>1, Concat
  <2> QED
    BY <1>20, <2>2
<1>22. h \in (from - 1)..Len(x)
  BY <1>2, <1>11, <1>13
<1> QED
  BY <1>9, <1>10, <1>19, <1>20, <1>21, <1>22, Zenon DEF Goes

-----------------------------------------------------------------------------
(* Two texts that end alike, from two units before position k of the second. *)

\* From two units before k on, u is t without its first d units.
Shifted(t, u, d, k, W) ==
    /\ t \in Seq(W) /\ u \in Seq(W) /\ d \in Nat /\ Len(t) = Len(u) + d
    /\ k \in 1..(Len(u) + 1) /\ (d = 0 \/ 3 <= k)
    /\ \A i \in 1..Len(u) : k <= i + 2 => t[i + d] = u[i]

\* Their parts are the same.
From(t, u, d, k, a, b, W) ==
    Shifted(t, u, d, k, W) /\ a \in Nat \ {0} /\ b \in Int /\ k <= a /\ a <= b + 1 /\ b <= Len(u)

\* The part of the one is the part of the other.
Slid(t, u, d, a, b) == SubSeq(u, a, b) = SubSeq(t, a + d, b + d)

\* A part of the one text is that part of the other.
LEMMA ShiftedParts ==
    ASSUME NEW W, NEW t, NEW u, NEW d, NEW k, NEW a, NEW b, From(t, u, d, k, a, b, W)
    PROVE  Slid(t, u, d, a, b)
<1>1. /\ t \in Seq(W) /\ u \in Seq(W) /\ d \in Nat /\ Len(t) = Len(u) + d /\ Len(u) \in Nat /\ k \in Nat \ {0}
      /\ a \in Nat \ {0} /\ b \in Int /\ k <= a /\ a <= b + 1 /\ b <= Len(u)
      /\ \A i \in 1..Len(u) : k <= i + 2 => t[i + d] = u[i]
  BY DEF From, Shifted
<1>2. PICK y, z, e, f : y = SubSeq(u, a, b) /\ z = SubSeq(t, e, f) /\ e = a + d /\ f = b + d
  OBVIOUS
<1>3. y \in Seq(W) /\ Len(y) = b - a + 1 /\ \A i \in 1..(b - a + 1) : y[i] = u[a + i - 1]
  <2>1. /\ SubSeq(u, a, b) \in Seq(W) /\ Len(SubSeq(u, a, b)) = b - a + 1
        /\ \A i \in 1..(b - a + 1) : SubSeq(u, a, b)[i] = u[a + i - 1]
    BY <1>1, Part
  <2> QED
    BY <1>2, <2>1, Zenon
<1>4. e \in Nat \ {0} /\ f \in Int /\ e <= f + 1 /\ f <= Len(t) /\ f - e + 1 = b - a + 1
  BY <1>1, <1>2
<1>5. z \in Seq(W) /\ Len(z) = f - e + 1 /\ \A i \in 1..(f - e + 1) : z[i] = t[e + i - 1]
  <2>1. /\ SubSeq(t, e, f) \in Seq(W) /\ Len(SubSeq(t, e, f)) = f - e + 1
        /\ \A i \in 1..(f - e + 1) : SubSeq(t, e, f)[i] = t[e + i - 1]
    BY <1>1, <1>4, Part
  <2> QED
    BY <1>2, <2>1, Zenon
<1>6. ASSUME NEW i \in 1..(b - a + 1) PROVE y[i] = z[i]
  <2>1. i \in Nat \ {0} /\ i <= b - a + 1
    BY <1>1, <1>6
  <2>2. PICK g \in 1..Len(u) : g = a + i - 1 /\ k <= g + 2 /\ g + d = e + i - 1
    <3>1. PICK n : n = Len(u) /\ n \in Nat /\ b <= n
      BY <1>1
    <3>2. a + i - 1 \in 1..n /\ k <= (a + i - 1) + 2 /\ (a + i - 1) + d = e + i - 1
      BY <1>1, <1>2, <2>1, <3>1
    <3> QED
      BY <3>1, <3>2, Zenon
  <2>3. t[g + d] = u[g]
    BY <1>1, <2>2
  <2>4. y[i] = u[g] /\ z[i] = t[g + d]
    BY <1>3, <1>4, <1>5, <2>2
  <2> QED
    BY <2>3, <2>4
<1>7. y = z
  <2>1. Len(y) = Len(z) /\ \A i \in 1..Len(y) : y[i] = z[i]
    BY <1>3, <1>4, <1>5, <1>6
  <2> QED
    BY <1>3, <1>5, <2>1, SameSeq
<1> QED
  BY <1>2, <1>7, Zenon DEF Slid

\* So are their delimiters, cores and tokens.
LEMMA ShiftedDelimiters ==
    ASSUME NEW W, NEW t, NEW u, NEW d, NEW k, NEW json \in BOOLEAN, Shifted(t, u, d, k, W),
           NEW i \in Nat \ {0}, k <= i
    PROVE  /\ \A w \in {1, 2} : OpenAt(u, i, json, w) <=> OpenAt(t, i + d, json, w)
           /\ CloseWidth(u, i, json) = CloseWidth(t, i + d, json)
           /\ i <= Len(u) => (WordStarts(u, i, json) <=> WordStarts(t, i + d, json))
<1>1. /\ d \in Nat /\ Len(t) = Len(u) + d /\ Len(u) \in Nat /\ k \in Nat \ {0} /\ (d = 0 \/ 3 <= k)
      /\ \A g \in 1..Len(u) : k <= g + 2 => t[g + d] = u[g]
  BY DEF Shifted
<1>2. /\ i <= Len(u) <=> i + d <= Len(t)
      /\ i <= Len(u) => t[i + d] = u[i]
      /\ i + 1 <= Len(u) <=> i + d + 1 <= Len(t)
      /\ i + 1 <= Len(u) => t[i + d] = u[i] /\ t[i + d + 1] = u[i + 1]
  <2>1. /\ i <= Len(u) <=> i + d <= Len(t)
        /\ i + 1 <= Len(u) <=> i + d + 1 <= Len(t)
    BY <1>1
  <2>2. i <= Len(u) => i \in 1..Len(u) /\ k <= i + 2
    BY <1>1
  <2>3. i + 1 <= Len(u) => i + 1 \in 1..Len(u) /\ k <= (i + 1) + 2 /\ (i + 1) + d = i + d + 1 /\ i <= Len(u)
    BY <1>1
  <2>4. i <= Len(u) => t[i + d] = u[i]
    BY <1>1, <2>2, Zenon
  <2>5. i + 1 <= Len(u) => t[(i + 1) + d] = u[i + 1]
    BY <1>1, <2>3, Zenon
  <2> QED
    BY <2>1, <2>3, <2>4, <2>5, Zenon
<1>3. /\ OpenAt(u, i, json, 1) <=> OpenAt(t, i + d, json, 1)
      /\ OpenAt(u, i, json, 2) <=> OpenAt(t, i + d, json, 2)
      /\ CloseAt(u, i, json, 1) <=> CloseAt(t, i + d, json, 1)
      /\ CloseAt(u, i, json, 2) <=> CloseAt(t, i + d, json, 2)
  BY <1>2 DEF OpenAt, CloseAt
<1>4. CloseWidth(u, i, json) = CloseWidth(t, i + d, json)
  BY <1>3 DEF CloseWidth
<1>5. ASSUME i <= Len(u) PROVE WordStarts(u, i, json) <=> WordStarts(t, i + d, json)
  <2>1. i = 1 <=> i + d = 1
    BY <1>1
  <2>2. i > 2 <=> i + d > 2
    BY <1>1
  <2>3. i # 1 => t[(i + d) - 1] = u[i - 1]
    <3> SUFFICES ASSUME i # 1 PROVE t[(i + d) - 1] = u[i - 1]
      OBVIOUS
    <3>1. PICK g \in 1..Len(u) : g = i - 1 /\ k <= g + 2 /\ g + d = (i + d) - 1
      BY <1>1, <1>5
    <3> QED
      BY <1>1, <3>1
  <2>4. i > 2 => t[(i + d) - 2] = u[i - 2]
    <3> SUFFICES ASSUME i > 2 PROVE t[(i + d) - 2] = u[i - 2]
      OBVIOUS
    <3>1. PICK g \in 1..Len(u) : g = i - 2 /\ k <= g + 2 /\ g + d = (i + d) - 2
      BY <1>1, <1>5
    <3> QED
      BY <1>1, <3>1
  <2>5. i > 2 => i # 1
    OBVIOUS
  <2> QED
    <3>1. PICK a, b, c, e : a = u[i - 1] /\ b = t[(i + d) - 1] /\ c = u[i - 2] /\ e = t[(i + d) - 2]
      OBVIOUS
    <3>2. WordStarts(u, i, json) <=> (i = 1 \/ ~IsWord(a) \/ (json /\ i > 2 /\ c = "\\" /\ a = "n"))
      BY <3>1, Zenon DEF WordStarts
    <3>3. WordStarts(t, i + d, json) <=> (i + d = 1 \/ ~IsWord(b) \/ (json /\ i + d > 2 /\ e = "\\" /\ b = "n"))
      BY <3>1, Zenon DEF WordStarts
    <3>4. (i # 1 => a = b) /\ (i > 2 => c = e)
      BY <2>3, <2>4, <3>1
    <3> HIDE DEF IsWord
    <3> QED
      BY <2>1, <2>2, <2>5, <3>2, <3>3, <3>4, Zenon
<1> QED
  BY <1>3, <1>4, <1>5

\* A core of the one text is a core of the other.
LEMMA ShiftedCores ==
    ASSUME NEW W, NEW t, NEW u, NEW d, NEW k, Shifted(t, u, d, k, W), NEW at \in Nat \ {0}, k <= at, NEW j \in Nat
    PROVE  IsCore(u, at, j) <=> IsCore(t, at + d, j + d)
<1>1. /\ d \in Nat /\ Len(t) = Len(u) + d /\ Len(u) \in Nat /\ k \in Nat \ {0}
      /\ \A g \in 1..Len(u) : k <= g + 2 => t[g + d] = u[g]
  BY DEF Shifted
<1>2. /\ at \in 1..Len(u) <=> at + d \in 1..Len(t)
      /\ j \in (at + 1)..Len(u) <=> j + d \in (at + d + 1)..Len(t)
      /\ j < Len(u) <=> j + d < Len(t)
  BY <1>1
<1>3. /\ at \in 1..Len(u) => t[at + d] = u[at]
      /\ j \in (at + 1)..Len(u) /\ j < Len(u) => t[j + d + 1] = u[j + 1]
  <2>1. ASSUME j \in (at + 1)..Len(u), j < Len(u) PROVE t[j + d + 1] = u[j + 1]
    <3>1. PICK g \in 1..Len(u) : g = j + 1 /\ k <= g + 2 /\ g + d = j + d + 1
      BY <1>1, <2>1
    <3> QED
      BY <1>1, <3>1
  <2>2. at \in 1..Len(u) => t[at + d] = u[at]
    BY <1>1
  <2> QED
    BY <2>1, <2>2
<1>4. ASSUME j \in (at + 1)..Len(u)
      PROVE  (\A g \in (at + 1)..j : IsDigit(u[g])) <=> (\A g \in (at + d + 1)..(j + d) : IsDigit(t[g]))
  <2>1. ASSUME NEW g \in (at + 1)..j PROVE g + d \in (at + d + 1)..(j + d) /\ t[g + d] = u[g]
    BY <1>1, <1>4
  <2>2. ASSUME NEW g \in (at + d + 1)..(j + d)
        PROVE  \E f \in (at + 1)..j : t[g] = u[f]
    <3>1. PICK f \in (at + 1)..j : f = g - d /\ f + d = g
      BY <1>1, <1>4
    <3>2. t[f + d] = u[f]
      BY <2>1
    <3> QED
      BY <3>1, <3>2
  <2>3. ASSUME \A g \in (at + 1)..j : IsDigit(u[g]), NEW g \in (at + d + 1)..(j + d) PROVE IsDigit(t[g])
    BY <2>2, <2>3
  <2>4. ASSUME \A g \in (at + d + 1)..(j + d) : IsDigit(t[g]), NEW g \in (at + 1)..j PROVE IsDigit(u[g])
    BY <2>1, <2>4
  <2> QED
    BY <2>3, <2>4
<1>5. CASE j \in (at + 1)..Len(u) /\ at \in 1..Len(u)
  <2>1. /\ IsCore(u, at, j) <=> /\ u[at] \in Classes /\ (\A g \in (at + 1)..j : IsDigit(u[g]))
                                /\ (j < Len(u) => ~IsWord(u[j + 1]))
    BY <1>5, Zenon DEF IsCore
  <2>2. /\ IsCore(t, at + d, j + d) <=> /\ t[at + d] \in Classes /\ (\A g \in (at + d + 1)..(j + d) : IsDigit(t[g]))
                                        /\ (j + d < Len(t) => ~IsWord(t[j + d + 1]))
    BY <1>2, <1>5, Zenon DEF IsCore
  <2> QED
    BY <1>2, <1>3, <1>4, <1>5, <2>1, <2>2, Zenon
<1>6. CASE ~(j \in (at + 1)..Len(u) /\ at \in 1..Len(u))
  BY <1>2, <1>6, Zenon DEF IsCore
<1> QED
  BY <1>5, <1>6

\* A token of the one text is a token of the other.
LEMMA ShiftedTokens ==
    ASSUME NEW W, NEW t, NEW u, NEW d, NEW k, NEW json \in BOOLEAN, Shifted(t, u, d, k, W),
           NEW i \in Nat \ {0}, k <= i, i <= Len(u)
    PROVE  /\ \A at, j : HasToken(u, i, json, at, j) => HasToken(t, i + d, json, at + d, j + d)
           /\ TokenAt(u, i, json) = NoMatch <=> TokenAt(t, i + d, json) = NoMatch
<1>1. /\ d \in Nat /\ Len(t) = Len(u) + d /\ Len(u) \in Nat /\ k \in Nat \ {0} /\ t \in Seq(W) /\ u \in Seq(W)
      /\ i + d \in Nat \ {0} /\ Len(t) \in Nat
  BY DEF Shifted
<1>2. ASSUME NEW at \in Nat \ {0}, NEW j \in Nat, k <= at
      PROVE  HasToken(u, i, json, at, j) <=> HasToken(t, i + d, json, at + d, j + d)
  <2>1. IsCore(u, at, j) <=> IsCore(t, at + d, j + d)
    BY <1>2, ShiftedCores
  <2>2. /\ \A w \in {1, 2} : OpenAt(u, i, json, w) <=> OpenAt(t, i + d, json, w)
        /\ WordStarts(u, i, json) <=> WordStarts(t, i + d, json)
    BY ShiftedDelimiters
  <2>3. /\ \A w \in {1, 2} : at = i + w <=> at + d = i + d + w
        /\ at = i <=> at + d = i + d
    BY <1>1
  <2>4. Starts(u, i, json, at) <=> Starts(t, i + d, json, at + d)
    BY <2>2, <2>3, Zenon DEF Starts
  <2> QED
    BY <2>1, <2>4, Zenon DEF HasToken
<1>3. ASSUME NEW at, NEW j, HasToken(u, i, json, at, j) PROVE HasToken(t, i + d, json, at + d, j + d)
  <2>1. at \in Nat \ {0} /\ j \in Nat /\ k <= at
    BY <1>1, <1>3, TokenLeads
  <2> QED
    BY <1>2, <1>3, <2>1
<1>4. ASSUME NEW a, NEW b, HasToken(t, i + d, json, a, b) PROVE \E at, j : HasToken(u, i, json, at, j)
  <2>1. a \in {i + d, i + d + 1, i + d + 2} /\ a \in 1..Len(t) /\ b \in (a + 1)..Len(t)
    BY <1>1, <1>4, TokenLeads
  <2>2. PICK at \in Nat \ {0}, j \in Nat : k <= at /\ at + d = a /\ j + d = b
    <3>1. a - d \in Nat \ {0} /\ b - d \in Nat /\ k <= a - d /\ (a - d) + d = a /\ (b - d) + d = b
      BY <1>1, <2>1
    <3> QED
      BY <3>1
  <2>3. HasToken(u, i, json, at, j)
    BY <1>2, <1>4, <2>2
  <2> QED
    BY <2>3
<1>5. TokenAt(u, i, json) = NoMatch <=> \A at, j : ~HasToken(u, i, json, at, j)
  BY <1>1, TokenIs, Quiet
<1>6. TokenAt(t, i + d, json) = NoMatch <=> \A at, j : ~HasToken(t, i + d, json, at, j)
  BY <1>1, TokenIs, Quiet
<1> QED
  BY <1>3, <1>4, <1>5, <1>6, Zenon

\* What one step gives at a token of the one, it gives at that of the other.
OneShift(t, u, d, k, l, i, at, j, json, W) ==
    /\ Shifted(t, u, d, k, W) /\ json \in BOOLEAN /\ i \in k..Len(u) /\ l \in (k - 1)..Len(u) /\ l < i
    /\ HasToken(u, i, json, at, j)

\* The token of both texts ends at the same place and gives the same.
ShiftedToken(t, u, d, l, i, at, j, map, json) ==
    /\ Token(t, at + d, j + d, json).end = Token(u, at, j, json).end + d
    /\ Gives(t, l + d, i + d, Token(t, at + d, j + d, json), map, json)
         = Gives(u, l, i, Token(u, at, j, json), map, json)

\* A token gives the same in both texts.
LEMMA ShiftedGives ==
    ASSUME NEW W, NEW t, NEW u, NEW d, NEW k, NEW l, NEW i, NEW at, NEW j, NEW map, NEW json,
           OneShift(t, u, d, k, l, i, at, j, json, W)
    PROVE  ShiftedToken(t, u, d, l, i, at, j, map, json)
<1>1. /\ Shifted(t, u, d, k, W) /\ json \in BOOLEAN /\ i \in k..Len(u) /\ l \in (k - 1)..Len(u) /\ l < i
      /\ HasToken(u, i, json, at, j)
  BY Zenon DEF OneShift
<1>2. t \in Seq(W) /\ u \in Seq(W) /\ d \in Nat /\ Len(t) = Len(u) + d /\ Len(u) \in Nat /\ k \in Nat \ {0}
  BY <1>1 DEF Shifted
<1>3. i \in Nat \ {0} /\ k <= i /\ i <= Len(u) /\ l \in Nat /\ k <= l + 1 /\ l <= Len(u)
  BY <1>1, <1>2
<1>4. at \in Nat \ {0} /\ k <= at /\ j \in Nat /\ at <= j /\ j <= Len(u)
  <2>1. at \in {i, i + 1, i + 2} /\ at \in 1..Len(u) /\ j \in (at + 1)..Len(u)
    BY <1>1, <1>2, <1>3, TokenLeads
  <2>2. at \in Nat \ {0} /\ i <= at
    BY <1>3, <2>1
  <2> QED
    BY <1>2, <1>3, <2>1, <2>2
<1>5. PICK w : w = CloseWidth(u, j + 1, json) /\ w = CloseWidth(t, (j + d) + 1, json)
  <2>1. PICK g : g = j + 1 /\ g \in Nat \ {0} /\ k <= g /\ g + d = (j + d) + 1
    BY <1>2, <1>4
  <2>2. CloseWidth(u, g, json) = CloseWidth(t, g + d, json)
    BY <1>1, <2>1, ShiftedDelimiters
  <2> QED
    BY <2>1, <2>2, Zenon
<1>6. w \in {0, 1, 2}
  BY <1>5, Zenon DEF CloseWidth
<1>7. PICK e : e = Token(u, at, j, json).end /\ e = j + w /\ e \in Nat
  BY <1>4, <1>5, <1>6 DEF Token
<1>8. Token(t, at + d, j + d, json).end = e + d
  <2>1. Token(t, at + d, j + d, json).end = (j + d) + w
    BY <1>5, Zenon DEF Token
  <2> QED
    BY <1>2, <1>4, <1>6, <1>7, <2>1
<1>9. i <= e /\ e <= Len(u) /\ l < e
  <2>1. Token(u, at, j, json).end \in j..Len(u) /\ Token(u, at, j, json).end > i
    BY <1>1, <1>2, <1>3, TokenInside
  <2>2. e \in j..Len(u) /\ e > i
    BY <1>7, <2>1, Zenon
  <2> QED
    BY <1>1, <1>2, <1>3, <1>4, <1>7, <2>2
<1>10. PICK core : core = SubSeq(u, at, j) /\ core = SubSeq(t, at + d, j + d)
  <2>1. From(t, u, d, k, at, j, W)
    BY <1>1, <1>4 DEF From
  <2>2. Slid(t, u, d, at, j)
    BY <2>1, ShiftedParts
  <2> QED
    BY <2>2, Zenon DEF Slid
<1>11. SubSeq(u, l + 1, e) = SubSeq(t, (l + d) + 1, e + d)
  <2>1. PICK a : a = l + 1 /\ a \in Nat \ {0} /\ k <= a /\ a <= e + 1 /\ a + d = (l + d) + 1 /\ e \in Int
    BY <1>2, <1>3, <1>7, <1>9
  <2>2. From(t, u, d, k, a, e, W)
    BY <1>1, <1>9, <2>1 DEF From
  <2>3. Slid(t, u, d, a, e)
    BY <2>2, ShiftedParts
  <2> QED
    BY <2>1, <2>3, Zenon DEF Slid
<1>12. SubSeq(u, l + 1, i - 1) = SubSeq(t, (l + d) + 1, (i + d) - 1)
  <2>1. PICK a, b : /\ a = l + 1 /\ b = i - 1 /\ a \in Nat \ {0} /\ k <= a /\ a <= b + 1
                    /\ a + d = (l + d) + 1 /\ b + d = (i + d) - 1 /\ b \in Int /\ b <= Len(u)
    BY <1>1, <1>2, <1>3
  <2>2. From(t, u, d, k, a, b, W)
    BY <1>1, <2>1 DEF From
  <2>3. Slid(t, u, d, a, b)
    BY <2>2, ShiftedParts
  <2> QED
    BY <2>1, <2>3, Zenon DEF Slid
<1>13. PICK mu, mt : mu = Token(u, at, j, json) /\ mt = Token(t, at + d, j + d, json)
  OBVIOUS
<1>14. mu.core = core /\ mt.core = core /\ mu.end = e /\ mt.end = e + d
  <2>1. Token(u, at, j, json).core = SubSeq(u, at, j) /\ Token(t, at + d, j + d, json).core = SubSeq(t, at + d, j + d)
    BY Zenon DEF Token
  <2> QED
    BY <1>7, <1>8, <1>10, <1>13, <2>1, Zenon
<1>15. Gives(t, l + d, i + d, mt, map, json) = Gives(u, l, i, mu, map, json)
  BY <1>11, <1>12, <1>14, Zenon DEF Gives
<1> QED
  BY <1>7, <1>8, <1>13, <1>15, Zenon DEF ShiftedToken

\* Scans of the two give the same.
Off(rb, rc, d) == rb.out = rc.out /\ rb.last = rc.last + d

\* Two scans at the same place of the two texts.
ShiftAt(t, u, d, k, rb, rc, i, map, json, W) ==
    /\ Shifted(t, u, d, k, W) /\ Ready(u, k, map, json, W) /\ Ready(t, k + d, map, json, W)
    /\ Stands(rc, i, u, k, W) /\ Stands(rb, i + d, t, k + d, W) /\ ~rb.stopped /\ ~rc.stopped /\ Off(rb, rc, d)

\* A step of the one scan is the step of the other.
LEMMA ShiftStep ==
    ASSUME NEW W, NEW t, NEW u, NEW d, NEW k, NEW rb, NEW rc, NEW i, NEW map, NEW json,
           ShiftAt(t, u, d, k, rb, rc, i, map, json, W)
    PROVE  Off(Replace(rb, t, i + d, map, json, TRUE), Replace(rc, u, i, map, json, TRUE), d)
<1>1. /\ Shifted(t, u, d, k, W) /\ Ready(u, k, map, json, W) /\ Ready(t, k + d, map, json, W)
      /\ Stands(rc, i, u, k, W) /\ Stands(rb, i + d, t, k + d, W) /\ ~rb.stopped /\ ~rc.stopped /\ Off(rb, rc, d)
  BY Zenon DEF ShiftAt
<1>2. json \in BOOLEAN /\ i \in k..Len(u) /\ rc \in Progress(u, k, W)
  BY <1>1, Zenon DEF Ready, Stands
<1>3. t \in Seq(W) /\ u \in Seq(W) /\ d \in Nat /\ Len(t) = Len(u) + d /\ Len(u) \in Nat /\ k \in Nat \ {0}
  BY <1>1 DEF Shifted
<1>4. PICK l : l = rc.last /\ l \in (k - 1)..Len(u) /\ rb.last = l + d
  BY <1>1, <1>2 DEF Progress, Off
<1>5. i \in Nat \ {0} /\ k <= i /\ i <= Len(u) /\ l \in Nat /\ k <= l + 1 /\ l <= Len(u) /\ i + d \in Nat \ {0}
  BY <1>2, <1>3, <1>4
<1>6. i <= l <=> i + d <= l + d
  BY <1>3, <1>5
<1>7. /\ \A at, j : HasToken(u, i, json, at, j) => HasToken(t, i + d, json, at + d, j + d)
      /\ TokenAt(u, i, json) = NoMatch <=> TokenAt(t, i + d, json) = NoMatch
  BY <1>1, <1>2, <1>5, ShiftedTokens
<1>8. PICK nb, nc : nb = Replace(rb, t, i + d, map, json, TRUE) /\ nc = Replace(rc, u, i, map, json, TRUE)
  OBVIOUS
<1>9. CASE i <= l \/ TokenAt(u, i, json) = NoMatch
  <2>1. nb = rb /\ nc = rc
    BY <1>4, <1>6, <1>7, <1>8, <1>9, Zenon DEF Replace
  <2> QED
    BY <1>1, <1>8, <2>1, Zenon
<1>10. CASE ~(i <= l) /\ TokenAt(u, i, json) # NoMatch
  <2>1. PICK at, j : HasToken(u, i, json, at, j)
    BY <1>2, <1>3, <1>5, <1>10, TokenIs
  <2>2. l < i /\ l + d < i + d
    BY <1>3, <1>5, <1>10
  <2>3. OneShift(t, u, d, k, l, i, at, j, json, W)
    BY <1>1, <1>2, <1>4, <2>1, <2>2, Zenon DEF OneShift
  <2>4. ShiftedToken(t, u, d, l, i, at, j, map, json)
    BY <2>3, ShiftedGives
  <2>5. HasToken(t, i + d, json, at + d, j + d)
    BY <1>7, <2>1, Zenon
  <2>6. rc.last < i /\ rb.last < i + d
    BY <1>4, <2>2, Zenon
  <2>7. /\ Replace(rc, u, i, map, json, TRUE) = Moved(rc, u, i, Token(u, at, j, json), map, json)
        /\ Gives(u, rc.last, i, Token(u, at, j, json), map, json) \in Seq(W)
    BY <1>1, <2>1, <2>6, MovesOn, Zenon
  <2>8. /\ Replace(rb, t, i + d, map, json, TRUE) = Moved(rb, t, i + d, Token(t, at + d, j + d, json), map, json)
        /\ Gives(t, rb.last, i + d, Token(t, at + d, j + d, json), map, json) \in Seq(W)
    BY <1>1, <2>5, <2>6, MovesOn, Zenon
  <2>9. PICK mu, mt : mu = Token(u, at, j, json) /\ mt = Token(t, at + d, j + d, json)
    OBVIOUS
  <2>10. mt.end = mu.end + d /\ Gives(t, l + d, i + d, mt, map, json) = Gives(u, l, i, mu, map, json)
    BY <2>4, <2>9, Zenon DEF ShiftedToken
  <2>11. /\ nc.out = rc.out \o Gives(u, l, i, mu, map, json) /\ nc.last = mu.end
         /\ nb.out = rb.out \o Gives(t, l + d, i + d, mt, map, json) /\ nb.last = mt.end
    <3>1. nc = Moved(rc, u, i, mu, map, json) /\ nb = Moved(rb, t, i + d, mt, map, json)
      BY <1>8, <2>7, <2>8, <2>9, Zenon
    <3>2. nc.out = rc.out \o Gives(u, rc.last, i, mu, map, json) /\ nc.last = mu.end
      BY <3>1 DEF Moved
    <3>3. nb.out = rb.out \o Gives(t, rb.last, i + d, mt, map, json) /\ nb.last = mt.end
      BY <3>1 DEF Moved
    <3> QED
      BY <1>4, <3>2, <3>3, Zenon
  <2>12. rb.out = rc.out
    BY <1>1, Zenon DEF Off
  <2> QED
    BY <1>8, <2>10, <2>11, <2>12, Zenon DEF Off
<1> QED
  BY <1>9, <1>10

\* Both texts are fit for a scan.
Slides(t, u, d, k, map, json, W) ==
    Shifted(t, u, d, k, W) /\ Ready(u, k, map, json, W) /\ Ready(t, k + d, map, json, W)

\* The whole of what follows depends on no more than the two units before it.
LEMMA Slide ==
    ASSUME NEW W, NEW t, NEW u, NEW d, NEW k, NEW map, NEW json, Slides(t, u, d, k, map, json, W)
    PROVE  Whole(u, k, map, json) = Whole(t, k + d, map, json)
<1>1. Shifted(t, u, d, k, W) /\ Ready(u, k, map, json, W) /\ Ready(t, k + d, map, json, W)
  BY Zenon DEF Slides
<1>2. /\ t \in Seq(W) /\ u \in Seq(W) /\ d \in Nat /\ Len(t) = Len(u) + d /\ Len(u) \in Nat
      /\ k \in Nat \ {0} /\ k <= Len(u) + 1
  BY <1>1 DEF Shifted
<1>3. PICK from : from = k + d /\ from - 1 = (k - 1) + d /\ from \in Nat \ {0} /\ Ready(t, from, map, json, W)
  BY <1>1, <1>2
<1>4. PICK c : Scans(c, u, k, map, json, TRUE) /\ replaceFrom(u, k, map, json, TRUE) = c[Len(u)]
  <2>1. HasScan(u, k, map, json, TRUE)
    BY <1>1, Scanned, Zenon
  <2> QED
    BY <2>1, Zenon DEF HasScan
<1>5. PICK b : Scans(b, t, from, map, json, TRUE) /\ replaceFrom(t, from, map, json, TRUE) = b[Len(t)]
  <2>1. HasScan(t, from, map, json, TRUE)
    BY <1>3, Scanned, Zenon
  <2> QED
    BY <2>1, Zenon DEF HasScan
<1>6. PICK final : final = TRUE
  OBVIOUS
<1>7. \A i \in (from - 1)..Len(t) : b[i] \in Progress(t, from, W) /\ ~b[i].stopped
  <2>1. Scans(b, t, from, map, json, final)
    BY <1>5, <1>6
  <2> QED
    BY <1>3, <1>6, <2>1, ScanTypes
<1>8. \A i \in (k - 1)..Len(u) : c[i] \in Progress(u, k, W) /\ ~c[i].stopped
  <2>1. Scans(c, u, k, map, json, final)
    BY <1>4, <1>6
  <2> QED
    BY <1>1, <1>6, <2>1, ScanTypes
<1> DEFINE E == {n \in Nat : k - 1 + n <= Len(u) => Off(b[(k - 1 + n) + d], c[k - 1 + n], d)}
<1>9. 0 \in E
  <2>1. k - 1 + 0 = k - 1 /\ c[k - 1] = Begin(k) /\ b[(k - 1) + d] = Begin(from)
    BY <1>2, <1>3, <1>4, <1>5 DEF Scans
  <2>2. Off(Begin(from), Begin(k), d)
    BY <1>3 DEF Off, Begin
  <2> QED
    BY <2>1, <2>2
<1>10. ASSUME NEW n \in Nat, n \in E PROVE n + 1 \in E
  <2> SUFFICES ASSUME k - 1 + (n + 1) <= Len(u) PROVE Off(b[(k - 1 + (n + 1)) + d], c[k - 1 + (n + 1)], d)
    OBVIOUS
  <2>1. PICK i \in k..Len(u) : i = k - 1 + (n + 1) /\ i - 1 = k - 1 + n
    BY <1>2
  <2>2. PICK rb, rc : rb = b[(i - 1) + d] /\ rc = c[i - 1] /\ Off(rb, rc, d)
    <3>1. k - 1 + n <= Len(u)
      BY <1>2
    <3> QED
      BY <1>10, <2>1, <3>1
  <2> HIDE DEF E
  <2>3. /\ (i + d) - 1 = (i - 1) + d /\ (i - 1) + d \in (from - 1)..Len(t) /\ i + d \in from..Len(t)
        /\ i - 1 \in (k - 1)..Len(u)
    BY <1>2, <1>3
  <2>4. Stands(rb, i + d, t, from, W) /\ ~rb.stopped /\ Stands(rc, i, u, k, W) /\ ~rc.stopped
    BY <1>7, <1>8, <2>2, <2>3 DEF Stands
  <2>5. b[i + d] = Replace(rb, t, i + d, map, json, TRUE) /\ c[i] = Replace(rc, u, i, map, json, TRUE)
    BY <1>4, <1>5, <2>2, <2>3 DEF Scans
  <2>6. ShiftAt(t, u, d, k, rb, rc, i, map, json, W)
    BY <1>1, <1>3, <2>2, <2>4, Zenon DEF ShiftAt
  <2>7. Off(Replace(rb, t, i + d, map, json, TRUE), Replace(rc, u, i, map, json, TRUE), d)
    BY <2>6, ShiftStep, Zenon
  <2> QED
    BY <2>1, <2>5, <2>7, Zenon
<1>11. E = Nat
  <2>1. E \in SUBSET Nat
    OBVIOUS
  <2> HIDE DEF E
  <2> QED
    BY <1>9, <1>10, <2>1, Induction
<1>12. Off(b[Len(t)], c[Len(u)], d)
  <2>1. PICK n \in Nat : k - 1 + n = Len(u)
    <3>1. Len(u) - (k - 1) \in Nat /\ k - 1 + (Len(u) - (k - 1)) = Len(u)
      BY <1>2
    <3> QED
      BY <3>1
  <2> HIDE DEF E
  <2>2. n \in E
    BY <1>11
  <2> QED
    BY <1>2, <2>1, <2>2 DEF E
<1> HIDE DEF E
<1>13. PICK rb, rc : rb = b[Len(t)] /\ rc = c[Len(u)]
  OBVIOUS
<1>14. rb.out = rc.out /\ rb.last = rc.last + d
  BY <1>12, <1>13, Zenon DEF Off
<1>15. PICK l : l = rc.last /\ l \in Nat /\ k <= l + 1 /\ l <= Len(u)
  <2>1. rc \in Progress(u, k, W)
    BY <1>2, <1>8, <1>13
  <2>2. rc.last \in (k - 1)..Len(u)
    BY <2>1 DEF Progress
  <2> QED
    BY <1>2, <2>2
<1>16. SubSeq(u, l + 1, Len(u)) = SubSeq(t, (l + d) + 1, Len(t))
  <2>1. PICK a, n : /\ a = l + 1 /\ n = Len(u) /\ a \in Nat \ {0} /\ k <= a /\ a <= n + 1 /\ n \in Int
                    /\ a + d = (l + d) + 1 /\ n + d = Len(t) /\ n <= Len(u)
    BY <1>2, <1>15
  <2>2. From(t, u, d, k, a, n, W)
    BY <1>1, <2>1 DEF From
  <2>3. Slid(t, u, d, a, n)
    BY <2>2, ShiftedParts
  <2> QED
    BY <2>1, <2>3, Zenon DEF Slid
<1>17. Upto(u, rc, Len(u)) = Upto(t, rb, Len(t))
  BY <1>14, <1>15, <1>16, Zenon DEF Upto
<1>18. Whole(u, k, map, json) = Upto(u, rc, Len(u))
  BY <1>4, <1>13, Zenon DEF Whole
<1>19. Whole(t, from, map, json) = Upto(t, rb, Len(t))
  BY <1>5, <1>13, Zenon DEF Whole
<1> QED
  BY <1>3, <1>17, <1>18, <1>19, Zenon

-----------------------------------------------------------------------------
(* The restorer.                                                            *)

\* What a scan to the end gives is a sequence, nothing at the end of the text, and the text
\* itself when no placeholder was issued.
LEMMA WholeType ==
    ASSUME NEW W, NEW t, NEW k, NEW map, NEW json, Ready(t, k, map, json, W)
    PROVE  Whole(t, k, map, json) \in Seq(W)
<1>1. k \in 1..(Len(t) + 1) /\ Len(t) \in Nat
  BY DEF Ready
<1>2. PICK e : e = k - 1 /\ e \in (k - 1)..Len(t) /\ \A q \in k..e : FALSE
  BY <1>1
<1>3. Plain(t, k, e, map, json)
  BY <1>2, Zenon DEF Plain
<1>4. Unchanged(t, k, e, map, json, W)
  BY <1>2, <1>3, Raw
<1> QED
  BY <1>4, Zenon DEF Unchanged

\* Nothing follows the end of a text.
LEMMA WholeEnd ==
    ASSUME NEW W, NEW t, NEW k, NEW map, NEW json, Ready(t, k, map, json, W), k = Len(t) + 1
    PROVE  Whole(t, k, map, json) = <<>>
<1>1. t \in Seq(W) /\ Len(t) \in Nat /\ k - 1 = Len(t)
  BY DEF Ready
<1>2. PICK b : Scans(b, t, k, map, json, TRUE) /\ replaceFrom(t, k, map, json, TRUE) = b[Len(t)]
  <2>1. HasScan(t, k, map, json, TRUE)
    BY Scanned, Zenon
  <2> QED
    BY <2>1, Zenon DEF HasScan
<1>3. PICK r : r = replaceFrom(t, k, map, json, TRUE)
  OBVIOUS
<1>4. r = Begin(k)
  BY <1>1, <1>2, <1>3, Zenon DEF Scans
<1>5. r.out = <<>> /\ r.last + 1 = k
  BY <1>1, <1>4 DEF Begin
<1>6. SubSeq(t, k, Len(t)) = <<>>
  BY <1>1
<1>7. Upto(t, r, Len(t)) = <<>> \o <<>>
  BY <1>5, <1>6, Zenon DEF Upto
<1>8. <<>> \o <<>> = <<>>
  OBVIOUS
<1> QED
  BY <1>3, <1>7, <1>8, Zenon DEF Whole

\* Without a mapping a text is left as it is.
LEMMA WholePlain ==
    ASSUME NEW W, NEW t, NEW map, NEW json, Ready(t, 1, map, json, W), DOMAIN map = {}
    PROVE  Whole(t, 1, map, json) = t
<1>1. t \in Seq(W) /\ Len(t) \in Nat /\ json \in BOOLEAN /\ Fits(map, json, W)
  BY DEF Ready
<1>2. PICK k, e : k = 1 /\ e = Len(t) /\ e \in (k - 1)..Len(t) /\ \A q \in k..e : q \in Nat \ {0}
  BY <1>1
<1>3. ASSUME NEW q \in k..e, NEW at, NEW j, HasToken(t, q, json, at, j)
      PROVE  Token(t, at, j, json).core \notin DOMAIN map /\ Token(t, at, j, json).end <= e
  <2>1. q \in Nat \ {0}
    BY <1>2
  <2>2. Token(t, at, j, json).end \in j..Len(t) /\ j \in Nat
    <3>1. Token(t, at, j, json).end \in j..Len(t)
      BY <1>1, <1>3, <2>1, TokenInside
    <3>2. at \in 1..Len(t) /\ j \in (at + 1)..Len(t)
      BY <1>1, <1>3, <2>1, TokenLeads
    <3> QED
      BY <1>1, <3>1, <3>2
  <2> QED
    BY <1>1, <1>2, <2>2
<1>4. Plain(t, k, e, map, json)
  BY <1>3, Zenon DEF Plain
<1>5. Unchanged(t, k, e, map, json, W)
  <2>1. Ready(t, k, map, json, W)
    BY <1>2
  <2> QED
    BY <1>2, <1>4, <2>1, Raw
<1>6. PICK g : g = e + 1 /\ g = Len(t) + 1 /\ g \in 1..(Len(t) + 1)
  BY <1>1, <1>2
<1>7. Whole(t, g, map, json) = <<>>
  <2>1. Ready(t, g, map, json, W)
    BY <1>1, <1>6, Zenon DEF Ready
  <2> QED
    BY <1>6, <2>1, WholeEnd
<1>8. Whole(t, k, map, json) = SubSeq(t, k, e) \o <<>>
  BY <1>5, <1>6, <1>7, Zenon DEF Unchanged
<1>9. SubSeq(t, k, e) = t /\ t \o <<>> = t
  BY <1>1, <1>2
<1> QED
  BY <1>2, <1>8, <1>9, Zenon

\* What the restorer keeps: g went out for the text D, and whatever X comes, the whole of it
\* gives g and what the held text and X give.
Asks(map, json, W) == json \in BOOLEAN /\ Fits(map, json, W)

\* With X after it, D gives g and what X gives after the context and the held text.
GoesOn(D, r, g, X, map, json) ==
    Whole(D \o X, 1, map, json) = g \o Whole((r.ctx \o r.carry) \o X, Len(r.ctx) + 1, map, json)

\* A restorer over the alphabet W that has g for D.
RestoresIn(D, r, g, map, json, W) ==
    /\ r.ctx \in Seq(W) /\ r.carry \in Seq(W) /\ g \in Seq(W) /\ (DOMAIN map = {} => r = NewRestorer)
    /\ \A X \in Seq(W) : GoesOn(D, r, g, X, map, json)

\* A new restorer has nothing behind it.
LEMMA NewRestores ==
    ASSUME NEW W, NEW map, NEW json, Asks(map, json, W)
    PROVE  RestoresIn(<<>>, NewRestorer, <<>>, map, json, W)
<1>1. PICK r : r = NewRestorer /\ r.ctx = <<>> /\ r.carry = <<>>
  <2>1. NewRestorer.ctx = <<>> /\ NewRestorer.carry = <<>>
    BY DEF NewRestorer
  <2> QED
    BY <2>1, Zenon
<1>2. ASSUME NEW X \in Seq(W) PROVE GoesOn(<<>>, r, <<>>, X, map, json)
  <2>1. <<>> \o X = X /\ (<<>> \o <<>>) \o X = X
    OBVIOUS
  <2>2. PICK k : k = 1 /\ k = Len(r.ctx) + 1 /\ k \in 1..(Len(X) + 1)
    BY <1>1
  <2>3. PICK y \in Seq(W) : y = Whole(X, k, map, json)
    <3>1. Ready(X, k, map, json, W)
      BY <2>2, Zenon DEF Asks, Ready
    <3> QED
      BY <3>1, WholeType
  <2>4. <<>> \o y = y
    OBVIOUS
  <2> QED
    BY <1>1, <2>1, <2>2, <2>3, <2>4, Zenon DEF GoesOn
<1>3. <<>> \in Seq(W)
  OBVIOUS
<1> QED
  BY <1>1, <1>2, <1>3, Zenon DEF RestoresIn

\* The context kept before position h is the last two units before it, or all.
Before(x, h, d) ==
    /\ d \in Nat /\ d <= h /\ (d = 0 \/ h - d = 2)
    /\ Context(SubSeq(x, 1, h)) = SubSeq(x, d + 1, h)

\* Context keeps the last two units, or all there are.
LEMMA ContextIs ==
    ASSUME NEW W, NEW x \in Seq(W), NEW h \in Nat, h <= Len(x) PROVE \E d : Before(x, h, d)
<1>1. PICK y : y = SubSeq(x, 1, h)
  OBVIOUS
<1>2. y \in Seq(W) /\ Len(y) = h
  <2>1. PICK a : a = 1 /\ a \in Nat \ {0} /\ h \in Int /\ a <= h + 1 /\ h - a + 1 = h
    OBVIOUS
  <2>2. SubSeq(x, a, h) \in Seq(W) /\ Len(SubSeq(x, a, h)) = h - a + 1
    BY <2>1, Part
  <2> QED
    BY <1>1, <2>1, <2>2, Zenon
<1>3. PICK u, d : /\ u = Larger(1, h - 1) /\ d = u - 1 /\ u \in Nat \ {0} /\ u <= h + 1 /\ d \in Nat
                  /\ d <= h /\ (d = 0 \/ h - d = 2)
  BY DEF Larger
<1>4. Context(y) = SubSeq(y, u, h)
  BY <1>2, <1>3, Zenon DEF Context
<1>5. SubSeq(y, u, h) = SubSeq(x, d + 1, h)
  <2>1. PICK q : q = 1
    OBVIOUS
  <2>2. Within(W, x, q, h, u, h)
    BY <1>3, <2>1 DEF Within
  <2>3. Inner(x, q, h, u, h)
    BY <2>2, PartOfPart
  <2>4. q + u - 1 = d + 1 /\ q + h - 1 = h
    BY <1>3, <2>1
  <2> QED
    BY <1>1, <2>1, <2>3, <2>4, Zenon DEF Inner
<1>6. Before(x, h, d)
  BY <1>1, <1>3, <1>4, <1>5, Zenon DEF Before
<1> QED
  BY <1>6

\* The restorer keeps enough of the text to go on from: the context and the held text.
Keeps(x, h, X, map, json, W) ==
    x \in Seq(W) /\ h \in Nat /\ h <= Len(x) /\ X \in Seq(W) /\ Asks(map, json, W)

\* A scan from h + 1 of the text and one behind the context give the same.
GoesOnAt(x, h, c, y, X, map, json, W) ==
    /\ c \in Seq(W) /\ y \in Seq(W)
    /\ Whole(x \o X, h + 1, map, json) = Whole((c \o y) \o X, Len(c) + 1, map, json)

\* A scan of the whole text goes on from the context as it would from all of the text.
LEMMA Remembered ==
    ASSUME NEW W, NEW x, NEW h, NEW X, NEW map, NEW json, Keeps(x, h, X, map, json, W)
    PROVE  GoesOnAt(x, h, Context(SubSeq(x, 1, h)), SubSeq(x, h + 1, Len(x)), X, map, json, W)
<1>1. /\ x \in Seq(W) /\ h \in Nat /\ h <= Len(x) /\ X \in Seq(W) /\ json \in BOOLEAN /\ Fits(map, json, W)
  BY Zenon DEF Keeps, Asks
<1>2. PICK n, m : n = Len(x) /\ n \in Nat /\ m = Len(X) /\ m \in Nat /\ h <= n
  BY <1>1
<1>3. PICK d : Before(x, h, d)
  BY <1>1, ContextIs
<1>4. d \in Nat /\ d <= h /\ (d = 0 \/ h - d = 2)
  BY <1>3, Zenon DEF Before
<1>5. PICK c, y, v : c = SubSeq(x, d + 1, h) /\ y = SubSeq(x, h + 1, n) /\ v = SubSeq(x, d + 1, n)
  OBVIOUS
<1>6. PICK a, e : a = d + 1 /\ e = h + 1 /\ a \in Nat \ {0} /\ e \in Nat \ {0} /\ a <= h + 1 /\ a <= n + 1 /\ e <= n + 1
                  /\ h \in Int /\ n \in Int
  BY <1>1, <1>2, <1>4
<1>7. c \in Seq(W) /\ Len(c) = h - d
  <2>1. SubSeq(x, a, h) \in Seq(W) /\ Len(SubSeq(x, a, h)) = h - a + 1
    BY <1>1, <1>6, Part
  <2>2. h - a + 1 = h - d
    BY <1>1, <1>4, <1>6
  <2> QED
    BY <1>5, <1>6, <2>1, <2>2, Zenon
<1>8. y \in Seq(W)
  <2>1. SubSeq(x, e, n) \in Seq(W)
    BY <1>1, <1>2, <1>6, Part
  <2> QED
    BY <1>5, <1>6, <2>1, Zenon
<1>9. v \in Seq(W) /\ Len(v) = n - d /\ \A i \in 1..(n - d) : v[i] = x[i + d]
  <2>1. /\ SubSeq(x, a, n) \in Seq(W) /\ Len(SubSeq(x, a, n)) = n - a + 1
        /\ \A i \in 1..(n - a + 1) : SubSeq(x, a, n)[i] = x[a + i - 1]
    BY <1>1, <1>2, <1>6, Part
  <2>2. v \in Seq(W) /\ Len(v) = n - a + 1 /\ \A i \in 1..(n - a + 1) : v[i] = x[a + i - 1]
    BY <1>5, <1>6, <2>1, Zenon
  <2>3. n - a + 1 = n - d /\ \A i \in 1..(n - d) : a + i - 1 = i + d
    BY <1>2, <1>4, <1>6
  <2> QED
    BY <2>2, <2>3
<1>10. c \o y = v
  <2>1. Meet(W, x, a, h, n)
    BY <1>1, <1>2, <1>6 DEF Meet
  <2>2. Add(x, a, h, n)
    BY <2>1, Parts
  <2> QED
    BY <1>5, <1>6, <2>2, Zenon DEF Add
<1>11. PICK t, u : t = x \o X /\ u = v \o X
  OBVIOUS
<1>12. /\ t \in Seq(W) /\ Len(t) = n + m
       /\ \A i \in 1..n : t[i] = x[i]
       /\ \A i \in (n + 1)..(n + m) : t[i] = X[i - n]
  BY <1>1, <1>2, <1>11, Joint
<1>13. /\ u \in Seq(W) /\ Len(u) = (n - d) + m
       /\ \A i \in 1..(n - d) : u[i] = v[i]
       /\ \A i \in ((n - d) + 1)..((n - d) + m) : u[i] = X[i - (n - d)]
  <2>1. /\ v \o X \in Seq(W) /\ Len(v \o X) = Len(v) + Len(X)
        /\ \A i \in 1..Len(v) : (v \o X)[i] = v[i]
        /\ \A i \in (Len(v) + 1)..(Len(v) + Len(X)) : (v \o X)[i] = X[i - Len(v)]
    BY <1>1, <1>9, Joint
  <2>2. Len(v) = n - d /\ Len(X) = m
    BY <1>2, <1>9
  <2> QED
    BY <1>11, <2>1, <2>2, Zenon
<1>14. PICK k : k = (h - d) + 1 /\ k \in Nat \ {0} /\ k <= Len(u) + 1 /\ k + d = h + 1 /\ (d = 0 \/ 3 <= k)
  <2>1. n - d \in Nat /\ h - d \in Nat /\ h - d <= n - d
    BY <1>1, <1>2, <1>4
  <2> QED
    BY <1>1, <1>2, <1>4, <1>13, <2>1
<1>15. Shifted(t, u, d, k, W)
  <2>1. ASSUME NEW i \in 1..Len(u) PROVE t[i + d] = u[i]
    <3>1. i \in Nat \ {0} /\ i <= (n - d) + m
      BY <1>2, <1>4, <1>13
    <3>2. CASE i <= n - d
      <4>1. i \in 1..(n - d) /\ i + d \in 1..n
        BY <1>2, <1>4, <3>1, <3>2
      <4> QED
        BY <1>9, <1>12, <1>13, <4>1
    <3>3. CASE ~(i <= n - d)
      <4>1. i \in ((n - d) + 1)..((n - d) + m) /\ i + d \in (n + 1)..(n + m) /\ (i + d) - n = i - (n - d)
        BY <1>2, <1>4, <3>1, <3>3
      <4> QED
        BY <1>12, <1>13, <4>1
    <3> QED
      BY <3>2, <3>3
  <2>2. Len(t) = Len(u) + d
    BY <1>2, <1>4, <1>12, <1>13
  <2>3. k \in 1..(Len(u) + 1)
    BY <1>2, <1>4, <1>13, <1>14
  <2> QED
    BY <1>4, <1>12, <1>13, <1>14, <2>1, <2>2, <2>3, Zenon DEF Shifted
<1>16. Ready(u, k, map, json, W) /\ Ready(t, k + d, map, json, W)
  <2>1. k \in 1..(Len(u) + 1) /\ k + d \in 1..(Len(t) + 1)
    BY <1>1, <1>2, <1>4, <1>12, <1>13, <1>14
  <2> QED
    BY <1>1, <1>12, <1>13, <2>1, Zenon DEF Ready
<1>17. Whole(u, k, map, json) = Whole(t, k + d, map, json)
  <2>1. Slides(t, u, d, k, map, json, W)
    BY <1>15, <1>16, Zenon DEF Slides
  <2> QED
    BY <2>1, Slide
<1>18. Context(SubSeq(x, 1, h)) = c /\ SubSeq(x, h + 1, Len(x)) = y /\ Len(c) + 1 = k
  BY <1>2, <1>3, <1>5, <1>7, <1>14, Zenon DEF Before
<1>19. GoesOnAt(x, h, c, y, X, map, json, W)
  BY <1>7, <1>8, <1>10, <1>11, <1>14, <1>17, <1>18, Zenon DEF GoesOnAt
<1> QED
  BY <1>18, <1>19, Zenon

\* One run before the end: what goes out, and what is held.
Chunk(D, r, g, x, chunk, map, json, W) ==
    /\ RestoresIn(D, r, g, map, json, W) /\ D \in Seq(W) /\ chunk \in Seq(W) /\ Asks(map, json, W)
    /\ x = (r.ctx \o r.carry) \o chunk

\* The run emits out and holds the text from h + 1 on.
RunsTo(r, x, chunk, out, h, map, json, W) ==
    /\ h \in Nat /\ h <= Len(x) /\ out \in Seq(W)
    /\ Run(r, chunk, map, json, FALSE)
         = [emitted |-> out, to |-> [ctx |-> Context(SubSeq(x, 1, h)), carry |-> SubSeq(x, h + 1, Len(x))]]
    /\ \A X \in Seq(W) : Whole(x \o X, Len(r.ctx) + 1, map, json) = out \o Whole(x \o X, h + 1, map, json)

\* One run before the end emits what stands at the front of every longer text.
LEMMA RunIs ==
    ASSUME NEW W, NEW D, NEW r, NEW g, NEW x, NEW chunk, NEW map, NEW json,
           Chunk(D, r, g, x, chunk, map, json, W), DOMAIN map # {}
    PROVE  \E out, h : RunsTo(r, x, chunk, out, h, map, json, W)
<1>1. /\ r.ctx \in Seq(W) /\ r.carry \in Seq(W) /\ chunk \in Seq(W) /\ json \in BOOLEAN /\ Fits(map, json, W)
      /\ x = (r.ctx \o r.carry) \o chunk
  BY Zenon DEF Chunk, RestoresIn, Asks
<1>2. PICK c, y : c = r.ctx /\ y = r.carry /\ c \in Seq(W) /\ y \in Seq(W)
  BY <1>1, Zenon
<1>3. x \in Seq(W) /\ Len(c) \in Nat /\ Len(x) \in Nat /\ Len(c) <= Len(x)
  <2>1. PICK z : z = c \o y
    OBVIOUS
  <2>2. z \in Seq(W) /\ Len(z) = Len(c) + Len(y) /\ Len(c) \in Nat /\ Len(y) \in Nat
    BY <1>2, <2>1
  <2>3. x = z \o chunk
    BY <1>1, <1>2, <2>1, Zenon
  <2>4. x \in Seq(W) /\ Len(x) = Len(z) + Len(chunk) /\ Len(chunk) \in Nat
    <3>1. z \o chunk \in Seq(W) /\ Len(z \o chunk) = Len(z) + Len(chunk) /\ Len(chunk) \in Nat
      BY <1>1, <2>2, Joint
    <3> QED
      BY <2>3, <3>1, Zenon
  <2> QED
    BY <2>2, <2>4
<1>4. PICK from : from = Len(c) + 1 /\ from \in 1..(Len(x) + 1) /\ Ready(x, from, map, json, W)
  <2>1. Len(c) + 1 \in 1..(Len(x) + 1)
    BY <1>3
  <2> QED
    BY <1>1, <1>3, <2>1, Zenon DEF Ready
<1>5. PICK done : done = replaceFrom(x, from, map, json, FALSE)
  OBVIOUS
<1>6. done.last \in 0..Len(x)
  <2>1. PICK f : Scans(f, x, from, map, json, FALSE) /\ replaceFrom(x, from, map, json, FALSE) = f[Len(x)]
    <3>1. HasScan(x, from, map, json, FALSE)
      BY <1>4, Scanned, Zenon
    <3> QED
      BY <3>1, Zenon DEF HasScan
  <2>2. PICK final : final = FALSE /\ final \in BOOLEAN /\ Scans(f, x, from, map, json, final)
    BY <2>1
  <2>3. Len(x) \in (from - 1)..Len(x)
    BY <1>3, <1>4
  <2>4. f[Len(x)] \in Progress(x, from, W)
    BY <1>4, <2>2, <2>3, ScanTypes
  <2>5. done \in Progress(x, from, W)
    BY <1>5, <2>1, <2>4, Zenon
  <2>6. done.last \in (from - 1)..Len(x)
    BY <2>5 DEF Progress
  <2> QED
    BY <1>3, <1>4, <2>6
<1>7. PICK h : EmitsTo(x, done, h, map, json)
  BY <1>3, <1>6, Emits
<1>8. PICK out : out = done.out \o SubSeq(x, done.last + 1, h)
  OBVIOUS
<1>9. ASSUME NEW X \in Seq(W) PROVE Goes(x, x \o X, from, out, h, map, json, W)
  <2>1. PICK t : t = x \o X
    OBVIOUS
  <2>2. /\ t \in Seq(W) /\ Len(t) = Len(x) + Len(X) /\ Len(X) \in Nat
        /\ \A i \in 1..Len(x) : t[i] = x[i]
    BY <1>3, <2>1, Joint
  <2>3. Len(x) <= Len(t) /\ from \in 1..(Len(t) + 1)
    BY <1>3, <1>4, <2>2
  <2>4. Longer(x, t, W) /\ Ready(t, from, map, json, W)
    BY <1>1, <1>3, <2>2, <2>3, Zenon DEF Longer, Ready
  <2>5. Runs(x, t, from, done, h, map, json, W)
    BY <1>4, <1>5, <1>7, <2>4, Zenon DEF Runs
  <2>6. Goes(x, t, from, done.out \o SubSeq(x, done.last + 1, h), h, map, json, W)
    BY <2>5, Emitted, Zenon
  <2> QED
    BY <1>8, <2>1, <2>6, Zenon
<1>10. h \in Nat /\ h <= Len(x) /\ out \in Seq(W)
  <2>1. PICK X \in Seq(W) : X = <<>>
    <3>1. <<>> \in Seq(W)
      OBVIOUS
    <3> QED
      BY <3>1, Zenon
  <2>2. h \in (from - 1)..Len(x) /\ out \in Seq(W)
    BY <1>9, <2>1, Zenon DEF Goes
  <2> QED
    BY <1>3, <1>4, <2>2
<1>11. Run(r, chunk, map, json, FALSE)
         = [emitted |-> out, to |-> [ctx |-> Context(SubSeq(x, 1, h)), carry |-> SubSeq(x, h + 1, Len(x))]]
  <2>1. Run(r, chunk, map, json, FALSE) = Emit(x, done, map, json, FALSE)
    BY <1>1, <1>2, <1>4, <1>5, Zenon DEF Run
  <2> QED
    BY <1>7, <1>8, <2>1, Zenon DEF EmitsTo
<1>12. \A X \in Seq(W) : Whole(x \o X, Len(r.ctx) + 1, map, json) = out \o Whole(x \o X, h + 1, map, json)
  BY <1>2, <1>4, <1>9, Zenon DEF Goes
<1>13. RunsTo(r, x, chunk, out, h, map, json, W)
  BY <1>10, <1>11, <1>12, Zenon DEF RunsTo
<1> QED
  BY <1>13

\* A chunk that is pushed keeps what the restorer keeps.
Pushed(D, r, g, chunk, map, json, W) ==
    /\ Push(r, chunk, map, json).emitted \in Seq(W)
    /\ RestoresIn(D \o chunk, Push(r, chunk, map, json).to, g \o Push(r, chunk, map, json).emitted, map, json, W)

\* Push keeps what the restorer promises, for the text with the chunk.
LEMMA PushKeeps ==
    ASSUME NEW W, NEW D, NEW r, NEW g, NEW x, NEW chunk, NEW map, NEW json,
           Chunk(D, r, g, x, chunk, map, json, W)
    PROVE  Pushed(D, r, g, chunk, map, json, W)
<1>1. /\ RestoresIn(D, r, g, map, json, W) /\ D \in Seq(W) /\ chunk \in Seq(W) /\ Asks(map, json, W)
      /\ x = (r.ctx \o r.carry) \o chunk
  BY Zenon DEF Chunk
<1>2. PICK c, y : c = r.ctx /\ y = r.carry /\ c \in Seq(W) /\ y \in Seq(W) /\ g \in Seq(W)
  BY <1>1, Zenon DEF RestoresIn
<1>3. PICK p : p = Push(r, chunk, map, json)
  OBVIOUS
<1>4. ASSUME NEW X \in Seq(W)
      PROVE  /\ chunk \o X \in Seq(W) /\ (D \o chunk) \o X = D \o (chunk \o X)
             /\ Whole((D \o chunk) \o X, 1, map, json)
                  = g \o Whole((c \o y) \o (chunk \o X), Len(c) + 1, map, json)
  <2>1. PICK z \in Seq(W) : z = chunk \o X
    <3>1. chunk \o X \in Seq(W)
      BY <1>1
    <3> QED
      BY <3>1, Zenon
  <2>2. (D \o chunk) \o X = D \o (chunk \o X)
    <3>1. Three(W, D, chunk, X)
      BY <1>1, Zenon DEF Three
    <3> QED
      BY <3>1, Concat
  <2>3. GoesOn(D, r, g, z, map, json)
    BY <1>1, Zenon DEF RestoresIn
  <2> QED
    BY <1>2, <2>1, <2>2, <2>3, Zenon DEF GoesOn
<1>5. CASE DOMAIN map = {}
  <2>1. p.emitted = chunk /\ p.to = r
    <3>1. p = [emitted |-> chunk, to |-> r]
      BY <1>3, <1>5, Zenon DEF Push
    <3> QED
      BY <3>1
  <2>2. r = NewRestorer /\ c = <<>> /\ y = <<>>
    <3>1. r = NewRestorer
      BY <1>1, <1>5, Zenon DEF RestoresIn
    <3>2. NewRestorer.ctx = <<>> /\ NewRestorer.carry = <<>>
      BY DEF NewRestorer
    <3> QED
      BY <1>2, <3>1, <3>2, Zenon
  <2>3. ASSUME NEW Y \in Seq(W) PROVE Whole((c \o y) \o Y, Len(c) + 1, map, json) = Y
    <3>1. (c \o y) \o Y = Y /\ Len(c) + 1 = 1
      BY <2>2
    <3>2. PICK k : k = 1 /\ k \in 1..(Len(Y) + 1)
      OBVIOUS
    <3>3. Ready(Y, k, map, json, W)
      BY <1>1, <3>2, Zenon DEF Ready, Asks
    <3>4. Ready(Y, 1, map, json, W)
      BY <3>2, <3>3, Zenon
    <3>5. Whole(Y, 1, map, json) = Y
      BY <1>5, <3>4, WholePlain, Zenon
    <3> QED
      BY <3>1, <3>5, Zenon
  <2>4. ASSUME NEW X \in Seq(W) PROVE GoesOn(D \o chunk, r, g \o chunk, X, map, json)
    <3>1. Whole((D \o chunk) \o X, 1, map, json) = g \o (chunk \o X)
      BY <1>4, <2>3, Zenon
    <3>2. (g \o chunk) \o X = g \o (chunk \o X)
      <4>1. Three(W, g, chunk, X)
        BY <1>1, <1>2, Zenon DEF Three
      <4> QED
        BY <4>1, Concat
    <3>3. Whole((c \o y) \o X, Len(c) + 1, map, json) = X
      BY <2>3, Zenon
    <3> QED
      BY <1>2, <3>1, <3>2, <3>3, Zenon DEF GoesOn
  <2>5. g \o chunk \in Seq(W)
    BY <1>1, <1>2
  <2>6. RestoresIn(D \o chunk, r, g \o chunk, map, json, W)
    BY <1>2, <2>2, <2>4, <2>5, Zenon DEF RestoresIn
  <2> QED
    BY <1>1, <1>3, <2>1, <2>6, Zenon DEF Pushed
<1>6. CASE DOMAIN map # {}
  <2>1. PICK out, h : RunsTo(r, x, chunk, out, h, map, json, W)
    BY <1>6, RunIs
  <2>2. PICK cc, yy : cc = Context(SubSeq(x, 1, h)) /\ yy = SubSeq(x, h + 1, Len(x))
    OBVIOUS
  <2>3. PICK to : to = [ctx |-> cc, carry |-> yy] /\ to.ctx = cc /\ to.carry = yy
    <3>1. PICK to : to = [ctx |-> cc, carry |-> yy]
      OBVIOUS
    <3>2. to.ctx = cc /\ to.carry = yy
      BY <3>1
    <3> QED
      BY <3>1, <3>2, Zenon
  <2>4. p.emitted = out /\ p.to = to
    <3>1. p = [emitted |-> out, to |-> to]
      BY <1>3, <1>6, <2>1, <2>2, <2>3, Zenon DEF Push, RunsTo
    <3> QED
      BY <3>1
  <2>5. h \in Nat /\ h <= Len(x) /\ out \in Seq(W) /\ x \in Seq(W)
    <3>1. x \in Seq(W)
      BY <1>1, <1>2
    <3> QED
      BY <2>1, <3>1, Zenon DEF RunsTo
  <2>6. ASSUME NEW X \in Seq(W)
        PROVE  /\ GoesOn(D \o chunk, to, g \o out, X, map, json) /\ cc \in Seq(W) /\ yy \in Seq(W)
    <3>1. Keeps(x, h, X, map, json, W)
      BY <1>1, <2>5, Zenon DEF Keeps
    <3>2. GoesOnAt(x, h, Context(SubSeq(x, 1, h)), SubSeq(x, h + 1, Len(x)), X, map, json, W)
      BY <3>1, Remembered, Zenon
    <3>3. GoesOnAt(x, h, cc, yy, X, map, json, W)
      BY <2>2, <3>2, Zenon
    <3>4. cc \in Seq(W) /\ yy \in Seq(W)
      BY <3>3, Zenon DEF GoesOnAt
    <3>5. PICK z, w : z = Whole((cc \o yy) \o X, Len(cc) + 1, map, json) /\ w = Whole(x \o X, Len(c) + 1, map, json)
      OBVIOUS
    <3>6. z \in Seq(W)
      <4>1. PICK v, k : v = (cc \o yy) \o X /\ k = Len(cc) + 1 /\ v \in Seq(W) /\ k \in 1..(Len(v) + 1)
        <5>1. PICK u : u = cc \o yy
          OBVIOUS
        <5>2. u \in Seq(W) /\ Len(u) = Len(cc) + Len(yy) /\ Len(cc) \in Nat /\ Len(yy) \in Nat
          BY <3>4, <5>1
        <5>3. u \o X \in Seq(W) /\ Len(u \o X) = Len(u) + Len(X) /\ Len(X) \in Nat
          BY <5>2, Joint
        <5>4. Len(cc) + 1 \in 1..(Len(u \o X) + 1)
          BY <5>2, <5>3
        <5> QED
          BY <5>1, <5>3, <5>4, Zenon
      <4>2. Ready(v, k, map, json, W)
        BY <1>1, <4>1, Zenon DEF Ready, Asks
      <4>3. Whole(v, k, map, json) \in Seq(W)
        BY <4>2, WholeType
      <4> QED
        BY <3>5, <4>1, <4>3, Zenon
    <3>7. w = out \o z
      BY <1>2, <2>1, <3>3, <3>5, Zenon DEF RunsTo, GoesOnAt
    <3>8. (c \o y) \o (chunk \o X) = x \o X
      <4>1. PICK v \in Seq(W) : v = c \o y
        <5>1. c \o y \in Seq(W)
          BY <1>2
        <5> QED
          BY <5>1, Zenon
      <4>2. Three(W, v, chunk, X)
        BY <1>1, Zenon DEF Three
      <4>3. (v \o chunk) \o X = v \o (chunk \o X)
        BY <4>2, Concat
      <4> QED
        BY <1>1, <1>2, <4>1, <4>3, Zenon
    <3>9. Whole((D \o chunk) \o X, 1, map, json) = g \o w
      BY <1>4, <3>5, <3>8, Zenon
    <3>10. (g \o out) \o z = g \o (out \o z)
      <4>1. Three(W, g, out, z)
        BY <1>2, <2>5, <3>6, Zenon DEF Three
      <4> QED
        BY <4>1, Concat
    <3>11. Whole((D \o chunk) \o X, 1, map, json) = (g \o out) \o z
      BY <3>7, <3>9, <3>10, Zenon
    <3> QED
      BY <2>3, <3>4, <3>5, <3>11, Zenon DEF GoesOn
  <2>7. cc \in Seq(W) /\ yy \in Seq(W)
    <3>1. PICK X \in Seq(W) : X = <<>>
      <4>1. <<>> \in Seq(W)
        OBVIOUS
      <4> QED
        BY <4>1, Zenon
    <3> QED
      BY <2>6, Zenon
  <2>8. g \o out \in Seq(W)
    BY <1>2, <2>5
  <2>9. RestoresIn(D \o chunk, to, g \o out, map, json, W)
    BY <1>6, <2>3, <2>6, <2>7, <2>8, Zenon DEF RestoresIn
  <2> QED
    BY <1>3, <2>4, <2>5, <2>9, Zenon DEF Pushed
<1> QED
  BY <1>5, <1>6

\* The end: what is flushed makes up the whole.
Flushed(D, r, g, map, json) == g \o Flush(r, map, json) = Whole(D, 1, map, json)

\* After Flush all that went out is the whole of the text, restored at once.
LEMMA FlushEnds ==
    ASSUME NEW W, NEW D, NEW r, NEW g, NEW map, NEW json,
           RestoresIn(D, r, g, map, json, W), D \in Seq(W), Asks(map, json, W)
    PROVE  Flushed(D, r, g, map, json)
<1>1. PICK c, y : c = r.ctx /\ y = r.carry /\ c \in Seq(W) /\ y \in Seq(W) /\ g \in Seq(W)
  BY Zenon DEF RestoresIn
<1>2. PICK x, k : x = (c \o y) \o <<>> /\ k = Len(c) + 1
  OBVIOUS
<1>3. Whole(D, 1, map, json) = g \o Whole(x, k, map, json)
  <2>1. D \o <<>> = D /\ <<>> \in Seq(W)
    OBVIOUS
  <2>2. GoesOn(D, r, g, <<>>, map, json)
    BY <2>1, Zenon DEF RestoresIn
  <2> QED
    BY <1>1, <1>2, <2>1, <2>2, Zenon DEF GoesOn
<1>4. x = c \o y /\ x \in Seq(W) /\ Len(x) = Len(c) + Len(y) /\ Len(c) \in Nat /\ Len(y) \in Nat
  <2>1. PICK z : z = c \o y
    OBVIOUS
  <2>2. z \in Seq(W) /\ Len(z) = Len(c) + Len(y) /\ Len(c) \in Nat /\ Len(y) \in Nat
    BY <1>1, <2>1
  <2>3. z \o <<>> = z
    BY <2>2
  <2> QED
    BY <1>2, <2>1, <2>2, <2>3, Zenon
<1>5. Ready(x, k, map, json, W)
  <2>1. k \in 1..(Len(x) + 1)
    BY <1>2, <1>4
  <2> QED
    BY <1>4, <2>1, Zenon DEF Ready, Asks
<1>6. CASE y = <<>>
  <2>1. k = Len(x) + 1
    BY <1>2, <1>4, <1>6
  <2>2. Whole(x, k, map, json) = <<>>
    BY <1>5, <2>1, WholeEnd
  <2>3. Flush(r, map, json) = <<>>
    BY <1>1, <1>6, Zenon DEF Flush
  <2> QED
    BY <1>3, <2>2, <2>3, Zenon DEF Flushed
<1>7. CASE y # <<>>
  <2>1. PICK done : done = replaceFrom(x, k, map, json, TRUE)
    OBVIOUS
  <2>2. Flush(r, map, json) = Emit(x, done, map, json, TRUE).emitted
    BY <1>1, <1>2, <1>7, <2>1, Zenon DEF Flush, Run
  <2>3. PICK rest : rest = SubSeq(x, done.last + 1, Len(x))
    OBVIOUS
  <2>4. rest \in Seq(W)
    <3>1. done.last \in Nat /\ done.last <= Len(x)
      <4>1. PICK f : Scans(f, x, k, map, json, TRUE) /\ replaceFrom(x, k, map, json, TRUE) = f[Len(x)]
        <5>1. HasScan(x, k, map, json, TRUE)
          BY <1>5, Scanned, Zenon
        <5> QED
          BY <5>1, Zenon DEF HasScan
      <4>2. PICK final : final = TRUE /\ final \in BOOLEAN /\ Scans(f, x, k, map, json, final)
        BY <4>1
      <4>3. Len(x) \in (k - 1)..Len(x)
        BY <1>2, <1>4
      <4>4. f[Len(x)] \in Progress(x, k, W)
        BY <1>5, <4>2, <4>3, ScanTypes
      <4>5. done \in Progress(x, k, W)
        BY <2>1, <4>1, <4>4, Zenon
      <4>6. done.last \in (k - 1)..Len(x)
        BY <4>5 DEF Progress
      <4> QED
        BY <1>2, <1>4, <4>6
    <3>2. PICK a, n : a = done.last + 1 /\ n = Len(x)
      OBVIOUS
    <3>3. a \in Nat \ {0} /\ n \in Int /\ a <= n + 1 /\ n <= Len(x)
      BY <1>4, <3>1, <3>2
    <3>4. SubSeq(x, a, n) \in Seq(W)
      BY <1>4, <3>3, Part
    <3> QED
      BY <2>3, <3>2, <3>4, Zenon
  <2>5. Len(<<>>) = 0 /\ Len(rest) - 0 = Len(rest) /\ SubSeq(rest, 1, Len(rest)) = rest
    BY <2>4
  <2>6. PICK z : z = done.out \o rest
    OBVIOUS
  <2>7. PICK b : b = Context(SubSeq(x, 1, Len(x) - Len(<<>>)))
    OBVIOUS
  <2>8. Emit(x, done, map, json, TRUE) = [emitted |-> z, to |-> [ctx |-> b, carry |-> <<>>]]
    BY <2>3, <2>5, <2>6, <2>7, Zenon DEF Emit
  <2>9. Flush(r, map, json) = z
    <3>1. [emitted |-> z, to |-> [ctx |-> b, carry |-> <<>>]].emitted = z
      OBVIOUS
    <3> QED
      BY <2>2, <2>8, <3>1, Zenon
  <2>10. Whole(x, k, map, json) = z
    BY <2>1, <2>3, <2>6, Zenon DEF Whole, Upto
  <2> QED
    BY <1>3, <2>9, <2>10, Zenon DEF Flushed
<1> QED
  BY <1>6, <1>7

\* So a whole text is restored at once.
LEMMA RestoredAtOnce ==
    ASSUME NEW W, NEW t, NEW map, NEW json, t \in Seq(W), Asks(map, json, W)
    PROVE  restoreText(t, map, json) = Whole(t, 1, map, json)
<1>1. PICK r, D : r = NewRestorer /\ D = <<>>
  OBVIOUS
<1>2. PICK x : x = (r.ctx \o r.carry) \o t
  OBVIOUS
<1>3. RestoresIn(D, r, D, map, json, W)
  BY <1>1, NewRestores, Zenon
<1>4. D \in Seq(W)
  BY <1>1
<1>5. Chunk(D, r, D, x, t, map, json, W)
  BY <1>2, <1>3, <1>4, Zenon DEF Chunk
<1>6. Pushed(D, r, D, t, map, json, W)
  BY <1>5, PushKeeps
<1>7. PICK p, g, e : p = Push(r, t, map, json) /\ g = D \o e /\ e = p.emitted
  OBVIOUS
<1>8. D \o t = t
  BY <1>1
<1>9. RestoresIn(t, p.to, g, map, json, W)
  BY <1>6, <1>7, <1>8, Zenon DEF Pushed
<1>10. PICK to : to = p.to
  OBVIOUS
<1>11. g \o Flush(to, map, json) = Whole(t, 1, map, json)
  <2>1. RestoresIn(t, to, g, map, json, W)
    BY <1>9, <1>10, Zenon
  <2>2. Flushed(t, to, g, map, json)
    BY <2>1, FlushEnds, Zenon
  <2> QED
    BY <2>2, Zenon DEF Flushed
<1>12. p = Push(NewRestorer, t, map, json)
  BY <1>1, <1>7, Zenon
<1>13. restoreText(t, map, json) = e \o Flush(to, map, json)
  BY <1>7, <1>10, <1>12, Zenon DEF restoreText
<1>14. e \in Seq(W)
  BY <1>6, <1>7, Zenon DEF Pushed
<1>15. <<>> \o e = e
  BY <1>14
<1> QED
  BY <1>1, <1>7, <1>11, <1>13, <1>15, Zenon

-----------------------------------------------------------------------------
(* The mapping: its cores and surfaces are sequences.                       *)

\* A sequence over some alphabet.
IsSeq(x) == \E V : x \in Seq(V)

\* A function on 1..n is a sequence.
LEMMA AnySeq ==
    ASSUME NEW n \in Nat, NEW f, f = [j \in 1..n |-> f[j]] PROVE IsSeq(f) /\ Len(f) = n
<1>1. PICK V : V = {f[j] : j \in 1..n}
  OBVIOUS
<1>2. \A j \in 1..n : f[j] \in V
  BY <1>1
<1>3. f \in [1..n -> V]
  BY <1>2
<1>4. f \in Seq(V) /\ Len(f) = n
  BY <1>3
<1> QED
  BY <1>4 DEF IsSeq

\* A sequence is one of any larger alphabet.
LEMMA Wider ==
    ASSUME NEW U, NEW V, NEW x \in Seq(U), U \subseteq V PROVE x \in Seq(V)
<1>1. Len(x) \in Nat /\ x \in [1..Len(x) -> U]
  OBVIOUS
<1>2. x \in [1..Len(x) -> V]
  BY <1>1
<1> QED
  BY <1>1, <1>2

\* mergeSpans joins the spans one by one.
JoinsAll(f, s) == f[0] = <<>> /\ \A k \in 1..Len(s) : f[k] = Joins(f[k - 1], s[k])

\* mergeSpans is the last of the joins.
LEMMA MergedBy ==
    ASSUME NEW spans, NEW s, s = Sorted(spans), Len(s) \in Nat
    PROVE  \E f : JoinsAll(f, s) /\ mergeSpans(spans) = f[Len(s)]
<1> DEFINE D(n) == 0..n
           Body(f, i) == IF i = 0 THEN <<>> ELSE Joins(f[i - 1], s[i])
           E == {n \in Nat : \E f : f = [i \in D(n) |-> Body(f, i)]}
           g == CHOOSE f : f = [i \in 0..Len(s) |-> Body(f, i)]
<1>1. 0 \in E
  <2> DEFINE f == [i \in D(0) |-> <<>>]
  <2>1. \A i \in D(0) : i = 0
    OBVIOUS
  <2>2. f = [i \in D(0) |-> Body(f, i)]
    BY <2>1, Zenon
  <2> HIDE DEF D, f, Body
  <2> QED
    BY <2>2
<1>2. ASSUME NEW n \in E PROVE n + 1 \in E
  <2>1. n \in Nat
    OBVIOUS
  <2>2. PICK f : f = [i \in D(n) |-> Body(f, i)]
    OBVIOUS
  <2> DEFINE h == [i \in D(n + 1) |-> IF i = n + 1 THEN Body(f, i) ELSE f[i]]
  <2>3. \A i \in D(n) : h[i] = f[i] /\ f[i] = Body(f, i)
    <3>1. \A i \in D(n) : i \in D(n + 1) /\ i # n + 1
      BY <2>1
    <3> HIDE DEF D, Body
    <3> QED
      BY <2>2, <3>1
  <2>4. \A i \in D(n + 1) : h[i] = Body(h, i)
    <3> TAKE i \in D(n + 1)
    <3>1. i # 0 => i - 1 \in D(n)
      BY <2>1
    <3>2. i # 0 => h[i - 1] = f[i - 1]
      BY <2>3, <3>1
    <3>3. h[i] = Body(f, i)
      <4>1. CASE i = n + 1
        BY <4>1
      <4>2. CASE i # n + 1
        <5>1. i \in D(n)
          BY <2>1, <4>2
        <5> QED
          BY <2>3, <5>1
      <4> QED
        BY <4>1, <4>2
    <3> QED
      BY <3>2, <3>3, Zenon
  <2>5. h = [i \in D(n + 1) |-> Body(h, i)]
    <3>1. h = [i \in D(n + 1) |-> h[i]]
      OBVIOUS
    <3> QED
      BY <2>4, <3>1, Zenon
  <2>6. n + 1 \in Nat
    BY <2>1
  <2> HIDE DEF h, D, Body
  <2> QED
    BY <2>5, <2>6
<1>3. E = Nat
  <2>1. E \in SUBSET Nat
    OBVIOUS
  <2> HIDE DEF E
  <2> QED
    BY <1>1, <1>2, <2>1, Induction
<1>4. g = [i \in 0..Len(s) |-> Body(g, i)]
  <2>1. \E f : f = [i \in 0..Len(s) |-> Body(f, i)]
    <3>1. Len(s) \in E
      BY <1>3
    <3> HIDE DEF Body
    <3> QED
      BY <3>1
  <2> HIDE DEF Body
  <2> QED
    BY <2>1, Zenon
<1>5. mergeSpans(spans) = g[Len(s)]
  BY Zenon DEF mergeSpans
<1> HIDE DEF g, E
<1>6. \A i \in 0..Len(s) : g[i] = Body(g, i)
  <2> HIDE DEF Body
  <2> QED
    BY <1>4
<1>7. JoinsAll(g, s)
  <2>1. g[0] = <<>>
    BY <1>6
  <2>2. ASSUME NEW i \in 1..Len(s) PROVE g[i] = Joins(g[i - 1], s[i])
    <3>1. i \in 0..Len(s) /\ i # 0
      OBVIOUS
    <3> QED
      BY <1>6, <3>1
  <2> QED
    BY <2>1, <2>2 DEF JoinsAll
<1> QED
  BY <1>5, <1>7

\* Joining a span leaves a sequence.
LEMMA JoinsSeq ==
    ASSUME NEW out, NEW s, IsSeq(out) PROVE IsSeq(Joins(out, s))
<1>1. PICK V : out \in Seq(V)
  BY DEF IsSeq
<1>2. ASSUME NEW x, NEW y \in Seq(V) PROVE IsSeq(Append(y, x))
  <2>1. V \subseteq V \cup {x} /\ x \in V \cup {x}
    OBVIOUS
  <2>2. y \in Seq(V \cup {x})
    BY <2>1, Wider
  <2>3. Append(y, x) \in Seq(V \cup {x})
    BY <2>1, <2>2
  <2> QED
    BY <2>3 DEF IsSeq
<1>3. out # <<>> => Front(out) \in Seq(V)
  <2>1. out # <<>> => SubSeq(out, 1, Len(out) - 1) \in Seq(V)
    BY <1>1
  <2> QED
    BY <2>1 DEF Front
<1>4. PICK m, e : m = Merged(Last(out), s) /\ e = [start |-> s.start, end |-> s.end, cls |-> s.cls, best |-> s.end - s.start]
  OBVIOUS
<1>5. Joins(out, s) = IF out # <<>> /\ s.start < Last(out).end THEN Append(Front(out), m) ELSE Append(out, e)
  BY <1>4, Zenon DEF Joins
<1>6. IsSeq(Append(out, e))
  BY <1>1, <1>2
<1>7. out # <<>> => IsSeq(Append(Front(out), m))
  BY <1>2, <1>3, Zenon
<1> QED
  BY <1>5, <1>6, <1>7, Zenon

\* The merged spans are a sequence.
LEMMA MergesSeq ==
    ASSUME NEW n \in Nat, NEW spans, DOMAIN spans = 1..n PROVE IsSeq(mergeSpans(spans))
<1>1. PICK s : s = Sorted(spans)
  OBVIOUS
<1>2. Len(s) \in Nat
  <2>1. s = [j \in 1..n |-> s[j]]
    BY <1>1 DEF Sorted
  <2> QED
    BY <2>1, AnySeq
<1>3. PICK f : JoinsAll(f, s) /\ mergeSpans(spans) = f[Len(s)]
  BY <1>1, <1>2, MergedBy
<1> DEFINE E == {k \in Nat : k <= Len(s) => IsSeq(f[k])}
<1>4. 0 \in E
  <2>1. f[0] = <<>>
    BY <1>3 DEF JoinsAll
  <2>2. <<>> \in Seq({})
    OBVIOUS
  <2>3. IsSeq(<<>>)
    BY <2>2, Zenon DEF IsSeq
  <2> QED
    BY <2>1, <2>3
<1>5. ASSUME NEW k \in Nat, k \in E PROVE k + 1 \in E
  <2> SUFFICES ASSUME k + 1 <= Len(s) PROVE IsSeq(f[k + 1])
    OBVIOUS
  <2>1. k + 1 \in 1..Len(s) /\ (k + 1) - 1 = k /\ k <= Len(s)
    BY <1>2
  <2>2. f[k + 1] = Joins(f[k], s[k + 1])
    BY <1>3, <2>1 DEF JoinsAll
  <2>3. IsSeq(f[k])
    BY <1>5, <2>1
  <2> QED
    BY <2>2, <2>3, JoinsSeq
<1>6. E = Nat
  <2>1. E \in SUBSET Nat
    OBVIOUS
  <2> HIDE DEF E
  <2> QED
    BY <1>4, <1>5, <2>1, Induction
<1>7. IsSeq(f[Len(s)])
  BY <1>2, <1>6
<1> QED
  BY <1>3, <1>7

\* The cores and surfaces of a mapping are sequences over one alphabet.
Typed(m) == \E V : \A c \in DOMAIN m : c \in Seq(V) /\ m[c] \in Seq(V)

\* A mapping with one more pair of sequences is still typed.
LEMMA WithTyped ==
    ASSUME NEW m, NEW core, NEW surface, Typed(m), IsSeq(core), IsSeq(surface) PROVE Typed(With(m, core, surface))
<1>1. PICK V : \A c \in DOMAIN m : c \in Seq(V) /\ m[c] \in Seq(V)
  BY DEF Typed
<1>2. PICK A, B : core \in Seq(A) /\ surface \in Seq(B)
  BY DEF IsSeq
<1>3. PICK U : V \subseteq U /\ A \subseteq U /\ B \subseteq U
  <2>1. V \subseteq V \cup A \cup B /\ A \subseteq V \cup A \cup B /\ B \subseteq V \cup A \cup B
    OBVIOUS
  <2> QED
    BY <2>1, Zenon
<1>4. core \in Seq(U) /\ surface \in Seq(U)
  BY <1>2, <1>3, Wider
<1>5. \A c \in DOMAIN m : c \in Seq(U) /\ m[c] \in Seq(U)
  BY <1>1, <1>3, Wider
<1>6. PICK w : w = With(m, core, surface)
  OBVIOUS
<1>7. DOMAIN w = DOMAIN m \cup {core} /\ \A x \in DOMAIN w : w[x] = IF x = core THEN surface ELSE m[x]
  BY <1>6 DEF With
<1>8. \A c \in DOMAIN w : c \in Seq(U) /\ w[c] \in Seq(U)
  BY <1>4, <1>5, <1>7
<1> QED
  BY <1>6, <1>8 DEF Typed

\* placeholderFor keeps the mapping typed.
LEMMA PlaceholderTyped ==
    ASSUME NEW taken, NEW issued, NEW cls, NEW surface, Typed(issued.surfaces), IsSeq(surface)
    PROVE  Typed(placeholderFor(taken, issued, cls, surface).surfaces)
<1>1. PICK n, core : core = Core(cls, n) /\
        (\/ placeholderFor(taken, issued, cls, surface) = issued
         \/ \E b : placeholderFor(taken, issued, cls, surface)
                     = [byKey |-> b, surfaces |-> With(issued.surfaces, core, surface)])
  BY Zenon DEF placeholderFor
<1>2. IsSeq(core)
  <2>1. PICK d : core = <<cls, d>>
    BY <1>1, Zenon DEF Core
  <2>2. <<cls, d>> \in Seq({cls, d})
    OBVIOUS
  <2> QED
    BY <2>1, <2>2, Zenon DEF IsSeq
<1>3. Typed(With(issued.surfaces, core, surface))
  BY <1>2, WithTyped
<1>4. CASE placeholderFor(taken, issued, cls, surface) = issued
  BY <1>4
<1>5. CASE \E b : placeholderFor(taken, issued, cls, surface)
                     = [byKey |-> b, surfaces |-> With(issued.surfaces, core, surface)]
  <2>1. placeholderFor(taken, issued, cls, surface).surfaces = With(issued.surfaces, core, surface)
    BY <1>5
  <2> QED
    BY <1>3, <2>1, Zenon
<1> QED
  BY <1>1, <1>4, <1>5

\* A surface is a part of its text.
LEMMA SurfaceSeq ==
    ASSUME NEW V, NEW text \in Seq(V), NEW s PROVE IsSeq(Surface(text, s))
<1>1. PICK K : K = {i \in DOMAIN text : s.start < i /\ i <= s.end}
  OBVIOUS
<1>2. K \in SUBSET DOMAIN text
  BY <1>1
<1>3. Kept(text, K) \in Seq(V)
  BY <1>2, KeptElements
<1>4. Surface(text, s) = Kept(text, K)
  BY <1>1, Zenon DEF Surface
<1> QED
  BY <1>3, <1>4, Zenon DEF IsSeq

\* IssuedIn and Issued go from span to span and from text to text.
IssuesIn(f, taken, issued, text, spans) ==
    /\ f[0] = issued
    /\ \A k \in 1..Len(spans) : f[k] = placeholderFor(taken, f[k - 1], spans[k].cls, Surface(text, spans[k]))

\* IssuedIn is the last state of the loop over the spans.
LEMMA IssuedInBy ==
    ASSUME NEW taken, NEW issued, NEW text, NEW spans, Len(spans) \in Nat
    PROVE  \E f : IssuesIn(f, taken, issued, text, spans) /\ IssuedIn(taken, issued, text, spans) = f[Len(spans)]
<1> DEFINE D(n) == 0..n
           Body(f, i) == IF i = 0 THEN issued ELSE placeholderFor(taken, f[i - 1], spans[i].cls, Surface(text, spans[i]))
           E == {n \in Nat : \E f : f = [i \in D(n) |-> Body(f, i)]}
           g == CHOOSE f : f = [i \in 0..Len(spans) |-> Body(f, i)]
<1>1. 0 \in E
  <2> DEFINE f == [i \in D(0) |-> issued]
  <2>1. \A i \in D(0) : i = 0
    OBVIOUS
  <2>2. f = [i \in D(0) |-> Body(f, i)]
    BY <2>1, Zenon
  <2> HIDE DEF D, f, Body
  <2> QED
    BY <2>2
<1>2. ASSUME NEW n \in E PROVE n + 1 \in E
  <2>1. n \in Nat
    OBVIOUS
  <2>2. PICK f : f = [i \in D(n) |-> Body(f, i)]
    OBVIOUS
  <2> DEFINE h == [i \in D(n + 1) |-> IF i = n + 1 THEN Body(f, i) ELSE f[i]]
  <2>3. \A i \in D(n) : h[i] = f[i] /\ f[i] = Body(f, i)
    <3>1. \A i \in D(n) : i \in D(n + 1) /\ i # n + 1
      BY <2>1
    <3> HIDE DEF D, Body
    <3> QED
      BY <2>2, <3>1
  <2>4. \A i \in D(n + 1) : h[i] = Body(h, i)
    <3> TAKE i \in D(n + 1)
    <3>1. i # 0 => i - 1 \in D(n)
      BY <2>1
    <3>2. i # 0 => h[i - 1] = f[i - 1]
      BY <2>3, <3>1
    <3>3. h[i] = Body(f, i)
      <4>1. CASE i = n + 1
        BY <4>1
      <4>2. CASE i # n + 1
        <5>1. i \in D(n)
          BY <2>1, <4>2
        <5> QED
          BY <2>3, <5>1
      <4> QED
        BY <4>1, <4>2
    <3> QED
      BY <3>2, <3>3, Zenon
  <2>5. h = [i \in D(n + 1) |-> Body(h, i)]
    <3>1. h = [i \in D(n + 1) |-> h[i]]
      OBVIOUS
    <3> QED
      BY <2>4, <3>1, Zenon
  <2>6. n + 1 \in Nat
    BY <2>1
  <2> HIDE DEF h, D, Body
  <2> QED
    BY <2>5, <2>6
<1>3. E = Nat
  <2>1. E \in SUBSET Nat
    OBVIOUS
  <2> HIDE DEF E
  <2> QED
    BY <1>1, <1>2, <2>1, Induction
<1>4. g = [i \in 0..Len(spans) |-> Body(g, i)]
  <2>1. \E f : f = [i \in 0..Len(spans) |-> Body(f, i)]
    <3>1. Len(spans) \in E
      BY <1>3
    <3> HIDE DEF Body
    <3> QED
      BY <3>1
  <2> HIDE DEF Body
  <2> QED
    BY <2>1, Zenon
<1>5. IssuedIn(taken, issued, text, spans) = g[Len(spans)]
  BY Zenon DEF IssuedIn
<1> HIDE DEF g, E
<1>6. \A i \in 0..Len(spans) : g[i] = Body(g, i)
  <2> HIDE DEF Body
  <2> QED
    BY <1>4
<1>7. IssuesIn(g, taken, issued, text, spans)
  <2>1. g[0] = issued
    BY <1>6
  <2>2. ASSUME NEW i \in 1..Len(spans)
        PROVE  g[i] = placeholderFor(taken, g[i - 1], spans[i].cls, Surface(text, spans[i]))
    <3>1. i \in 0..Len(spans) /\ i # 0
      OBVIOUS
    <3> QED
      BY <1>6, <3>1
  <2> QED
    BY <2>1, <2>2 DEF IssuesIn
<1> QED
  BY <1>5, <1>7

\* The states of the loop over the texts of a request.
Issues(f, ts, merged) ==
    /\ f[0] = [byKey |-> <<>>, surfaces |-> <<>>]
    /\ \A j \in 1..Len(ts) : f[j] = IssuedIn(Taken(ts), f[j - 1], ts[j], merged[j])

\* Issued is the last state of the loop over the texts.
LEMMA IssuedBy ==
    ASSUME NEW ts, NEW merged, Len(ts) \in Nat
    PROVE  \E f : Issues(f, ts, merged) /\ Issued(ts, merged) = f[Len(ts)]
<1> DEFINE D(n) == 0..n
           Body(f, i) == IF i = 0 THEN [byKey |-> <<>>, surfaces |-> <<>>] ELSE IssuedIn(Taken(ts), f[i - 1], ts[i], merged[i])
           E == {n \in Nat : \E f : f = [i \in D(n) |-> Body(f, i)]}
           g == CHOOSE f : f = [i \in 0..Len(ts) |-> Body(f, i)]
<1>1. 0 \in E
  <2> DEFINE f == [i \in D(0) |-> [byKey |-> <<>>, surfaces |-> <<>>]]
  <2>1. \A i \in D(0) : i = 0
    OBVIOUS
  <2>2. f = [i \in D(0) |-> Body(f, i)]
    BY <2>1, Zenon
  <2> HIDE DEF D, f, Body
  <2> QED
    BY <2>2
<1>2. ASSUME NEW n \in E PROVE n + 1 \in E
  <2>1. n \in Nat
    OBVIOUS
  <2>2. PICK f : f = [i \in D(n) |-> Body(f, i)]
    OBVIOUS
  <2> DEFINE h == [i \in D(n + 1) |-> IF i = n + 1 THEN Body(f, i) ELSE f[i]]
  <2>3. \A i \in D(n) : h[i] = f[i] /\ f[i] = Body(f, i)
    <3>1. \A i \in D(n) : i \in D(n + 1) /\ i # n + 1
      BY <2>1
    <3> HIDE DEF D, Body
    <3> QED
      BY <2>2, <3>1
  <2>4. \A i \in D(n + 1) : h[i] = Body(h, i)
    <3> TAKE i \in D(n + 1)
    <3>1. i # 0 => i - 1 \in D(n)
      BY <2>1
    <3>2. i # 0 => h[i - 1] = f[i - 1]
      BY <2>3, <3>1
    <3>3. h[i] = Body(f, i)
      <4>1. CASE i = n + 1
        BY <4>1
      <4>2. CASE i # n + 1
        <5>1. i \in D(n)
          BY <2>1, <4>2
        <5> QED
          BY <2>3, <5>1
      <4> QED
        BY <4>1, <4>2
    <3> QED
      BY <3>2, <3>3, Zenon
  <2>5. h = [i \in D(n + 1) |-> Body(h, i)]
    <3>1. h = [i \in D(n + 1) |-> h[i]]
      OBVIOUS
    <3> QED
      BY <2>4, <3>1, Zenon
  <2>6. n + 1 \in Nat
    BY <2>1
  <2> HIDE DEF h, D, Body
  <2> QED
    BY <2>5, <2>6
<1>3. E = Nat
  <2>1. E \in SUBSET Nat
    OBVIOUS
  <2> HIDE DEF E
  <2> QED
    BY <1>1, <1>2, <2>1, Induction
<1>4. g = [i \in 0..Len(ts) |-> Body(g, i)]
  <2>1. \E f : f = [i \in 0..Len(ts) |-> Body(f, i)]
    <3>1. Len(ts) \in E
      BY <1>3
    <3> HIDE DEF Body
    <3> QED
      BY <3>1
  <2> HIDE DEF Body
  <2> QED
    BY <2>1, Zenon
<1>5. Issued(ts, merged) = g[Len(ts)]
  BY Zenon DEF Issued
<1> HIDE DEF g, E
<1>6. \A i \in 0..Len(ts) : g[i] = Body(g, i)
  <2> HIDE DEF Body
  <2> QED
    BY <1>4
<1>7. Issues(g, ts, merged)
  <2>1. g[0] = [byKey |-> <<>>, surfaces |-> <<>>]
    BY <1>6
  <2>2. ASSUME NEW i \in 1..Len(ts) PROVE g[i] = IssuedIn(Taken(ts), g[i - 1], ts[i], merged[i])
    <3>1. i \in 0..Len(ts) /\ i # 0
      OBVIOUS
    <3> QED
      BY <1>6, <3>1
  <2> QED
    BY <2>1, <2>2 DEF Issues
<1> QED
  BY <1>5, <1>7

\* The placeholders of one text keep the mapping typed.
LEMMA IssuedInTyped ==
    ASSUME NEW taken, NEW issued, NEW text, NEW spans, Typed(issued.surfaces), IsSeq(text), IsSeq(spans)
    PROVE  Typed(IssuedIn(taken, issued, text, spans).surfaces)
<1>1. Len(spans) \in Nat
  BY DEF IsSeq
<1>2. PICK V : text \in Seq(V)
  BY DEF IsSeq
<1>3. PICK f : IssuesIn(f, taken, issued, text, spans) /\ IssuedIn(taken, issued, text, spans) = f[Len(spans)]
  BY <1>1, IssuedInBy
<1> DEFINE E == {k \in Nat : k <= Len(spans) => Typed(f[k].surfaces)}
<1>4. 0 \in E
  <2>1. f[0] = issued
    BY <1>3 DEF IssuesIn
  <2> QED
    BY <2>1
<1>5. ASSUME NEW k \in Nat, k \in E PROVE k + 1 \in E
  <2> SUFFICES ASSUME k + 1 <= Len(spans) PROVE Typed(f[k + 1].surfaces)
    OBVIOUS
  <2>1. k + 1 \in 1..Len(spans) /\ (k + 1) - 1 = k /\ k <= Len(spans)
    BY <1>1
  <2>2. PICK s, b : s = spans[k + 1] /\ b = f[k]
    OBVIOUS
  <2>3. f[k + 1] = placeholderFor(taken, b, s.cls, Surface(text, s))
    BY <1>3, <2>1, <2>2 DEF IssuesIn
  <2>4. Typed(b.surfaces)
    BY <1>5, <2>1, <2>2
  <2>5. IsSeq(Surface(text, s))
    BY <1>2, SurfaceSeq
  <2>6. Typed(placeholderFor(taken, b, s.cls, Surface(text, s)).surfaces)
    BY <2>4, <2>5, PlaceholderTyped, Zenon
  <2> QED
    BY <2>3, <2>6, Zenon
<1>6. E = Nat
  <2>1. E \in SUBSET Nat
    OBVIOUS
  <2> HIDE DEF E
  <2> QED
    BY <1>4, <1>5, <2>1, Induction
<1>7. Typed(f[Len(spans)].surfaces)
  BY <1>1, <1>6
<1> QED
  BY <1>3, <1>7, Zenon

\* The mapping of a request is typed.
LEMMA IssuedTyped ==
    ASSUME NEW ts, NEW merged, Len(ts) \in Nat, \A j \in 1..Len(ts) : IsSeq(ts[j]) /\ IsSeq(merged[j])
    PROVE  Typed(Issued(ts, merged).surfaces)
<1>1. PICK f : Issues(f, ts, merged) /\ Issued(ts, merged) = f[Len(ts)]
  BY IssuedBy
<1> DEFINE E == {j \in Nat : j <= Len(ts) => Typed(f[j].surfaces)}
<1>2. 0 \in E
  <2>1. f[0].surfaces = <<>>
    BY <1>1 DEF Issues
  <2>2. DOMAIN <<>> = {}
    OBVIOUS
  <2>3. Typed(<<>>)
    BY <2>2, Zenon DEF Typed
  <2> QED
    BY <2>1, <2>3
<1>3. ASSUME NEW j \in Nat, j \in E PROVE j + 1 \in E
  <2> SUFFICES ASSUME j + 1 <= Len(ts) PROVE Typed(f[j + 1].surfaces)
    OBVIOUS
  <2>1. j + 1 \in 1..Len(ts) /\ (j + 1) - 1 = j /\ j <= Len(ts)
    OBVIOUS
  <2>2. PICK t, s, b : t = ts[j + 1] /\ s = merged[j + 1] /\ b = f[j]
    OBVIOUS
  <2>3. f[j + 1] = IssuedIn(Taken(ts), b, t, s)
    BY <1>1, <2>1, <2>2 DEF Issues
  <2>4. Typed(b.surfaces)
    BY <1>3, <2>1, <2>2
  <2>5. IsSeq(t) /\ IsSeq(s)
    BY <2>1, <2>2
  <2>6. Typed(IssuedIn(Taken(ts), b, t, s).surfaces)
    BY <2>4, <2>5, IssuedInTyped, Zenon
  <2> QED
    BY <2>3, <2>6, Zenon
<1>4. E = Nat
  <2>1. E \in SUBSET Nat
    OBVIOUS
  <2> HIDE DEF E
  <2> QED
    BY <1>2, <1>3, <2>1, Induction
<1>5. Typed(f[Len(ts)].surfaces)
  BY <1>4
<1> QED
  BY <1>1, <1>5, Zenon

\* The spans of a text are numbered from 1.
LEMMA SpansNumbered ==
    ASSUME NEW ts, NEW n \in Nat, NEW list, DOMAIN list = 1..n, NEW j
    PROVE  \E m \in Nat : DOMAIN SpansOf(ts, list, j) = 1..m
<1> DEFINE table == codePointTable(Joined(ts))
           off == OffsetOf(ts, j)
           cut == [k \in DOMAIN list |->
                     [start |-> Larger(table[list[k].start + 1], off) - off,
                      end |-> Smaller(table[list[k].end + 1], off + Len(ts[j])) - off,
                      cls |-> HostedLabels[list[k].label]]]
           K == {k \in DOMAIN cut : cut[k].cls # "none" /\ cut[k].start < cut[k].end}
           found == Kept(cut, K)
           trimmed == [k \in DOMAIN found |-> trimEdges(ts[j], found[k])]
           L == {k \in DOMAIN trimmed : trimmed[k].start < trimmed[k].end}
<1>1. SpansOf(ts, list, j) = IF Blank(ts[j]) THEN <<>> ELSE Kept(trimmed, L)
  BY DEF SpansOf
<1> HIDE DEF table, off
<1>2. DOMAIN cut = 1..n
  OBVIOUS
<1> HIDE DEF cut
<1>3. K \in SUBSET (1..n)
  BY <1>2
<1> HIDE DEF K
<1>4. Cardinality(K) \in Nat
  BY <1>3, Places
<1>5. DOMAIN found = 1..Cardinality(K)
  BY DEF Kept
<1> HIDE DEF found
<1>6. L \in SUBSET (1..Cardinality(K))
  BY <1>5
<1> HIDE DEF trimmed, L
<1>7. Cardinality(L) \in Nat
  BY <1>4, <1>6, Places
<1>8. DOMAIN Kept(trimmed, L) = 1..Cardinality(L)
  BY DEF Kept
<1>9. DOMAIN <<>> = 1..0 /\ 0 \in Nat
  OBVIOUS
<1>10. CASE Blank(ts[j])
  BY <1>1, <1>9, <1>10, Zenon
<1>11. CASE ~Blank(ts[j])
  BY <1>1, <1>7, <1>8, <1>11, Zenon
<1> QED
  BY <1>10, <1>11

\* What redactBody keeps of a request.
LEMMA MappingTyped ==
    ASSUME NEW ts, NEW n \in Nat, NEW list, DOMAIN list = 1..n, Len(ts) = 2, DOMAIN ts = Fields, \A j \in Fields : IsSeq(ts[j])
    PROVE  Typed(pseudonymize(ts, [j \in Fields |-> SpansOf(ts, list, j)]).mapping)
<1>1. PICK spans : spans = [j \in Fields |-> SpansOf(ts, list, j)]
  OBVIOUS
<1>2. PICK merged : merged = [j \in DOMAIN ts |-> mergeSpans(spans[j])]
  OBVIOUS
<1>3. ASSUME NEW j \in Fields PROVE IsSeq(merged[j])
  <2>1. merged[j] = mergeSpans(spans[j]) /\ spans[j] = SpansOf(ts, list, j)
    BY <1>1, <1>2
  <2>2. PICK m \in Nat : DOMAIN SpansOf(ts, list, j) = 1..m
    BY SpansNumbered
  <2>3. IsSeq(mergeSpans(spans[j]))
    BY <2>1, <2>2, MergesSeq
  <2> QED
    BY <2>1, <2>3
<1>4. 1..2 = Fields
  BY DEF Fields
<1>5. \A j \in 1..Len(ts) : IsSeq(ts[j]) /\ IsSeq(merged[j])
  BY <1>3, <1>4
<1>6. Typed(Issued(ts, merged).surfaces)
  <2>1. Len(ts) \in Nat
    OBVIOUS
  <2> QED
    BY <1>5, <2>1, IssuedTyped, Zenon
<1>7. pseudonymize(ts, spans).mapping = Issued(ts, merged).surfaces
  <2>1. PICK issued : issued = Issued(ts, merged)
    OBVIOUS
  <2>2. pseudonymize(ts, spans) = [texts |-> [j \in DOMAIN ts |-> Replaced(ts[j], merged[j], issued.byKey)],
                                   mapping |-> issued.surfaces]
    BY <1>2, <2>1, Zenon DEF pseudonymize
  <2>3. pseudonymize(ts, spans).mapping = issued.surfaces
    BY <2>2
  <2> QED
    BY <2>1, <2>3, Zenon
<1> QED
  BY <1>1, <1>6, <1>7, Zenon

\* FlattenSeq, and a text as JSON.
LEMMA Flattened ==
    ASSUME NEW V, NEW s \in Seq(Seq(V)) PROVE FlattenSeq(s) \in Seq(V)
<1>1. PICK n : n = Len(s) /\ n \in Nat
  OBVIOUS
<1>2. CASE n = 0
  <2>1. FlattenSeq(s) = s
    BY <1>1, <1>2 DEF FlattenSeq
  <2>2. s = <<>>
    <3>1. PICK T : T = Seq(V)
      OBVIOUS
    <3>2. s \in Seq(T)
      BY <3>1, Zenon
    <3>3. <<>> \in Seq(T) /\ Len(<<>>) = 0
      OBVIOUS
    <3>4. \A i \in 1..Len(s) : FALSE
      BY <1>1, <1>2
    <3>5. Len(s) = Len(<<>>) /\ \A i \in 1..Len(s) : s[i] = <<>>[i]
      BY <1>1, <1>2, <3>3, <3>4, Zenon
    <3> QED
      BY <3>2, <3>3, <3>5, SameSeq, Zenon
  <2>3. <<>> \in Seq(V)
    OBVIOUS
  <2> QED
    BY <2>1, <2>2, <2>3, Zenon
<1>3. CASE n # 0
  <2> DEFINE S == Seq(V)
             F == [i \in 1..n |-> [x \in S |-> x \o s[i]]]
             Body(f, i) == IF i = 1 THEN s[i] ELSE f[i - 1] \o s[i]
             g == CHOOSE f : f = [i \in 1..n |-> Body(f, i)]
  <2>1. \A i \in 1..n : s[i] \in S
    BY <1>1
  <2>2. F \in Rounds(n, S)
    BY <2>1 DEF Rounds
  <2>3. <<>> \in S
    OBVIOUS
  <2> HIDE DEF S, F
  <2>4. PICK f : Makes(f, n, S, F, <<>>)
    BY <1>1, <2>2, <2>3, Loop
  <2>5. f[0] = <<>> /\ \A i \in 1..n : f[i] = F[i][f[i - 1]]
    BY <2>4 DEF Makes
  <2>6. ASSUME NEW i \in 0..n PROVE f[i] \in S
    BY <2>4, <2>6 DEF Makes
  <2>7. ASSUME NEW i \in 1..n PROVE f[i] = IF i = 1 THEN s[i] ELSE f[i - 1] \o s[i]
    <3>1. i - 1 \in 0..n
      BY <1>1
    <3>2. f[i] = f[i - 1] \o s[i]
      BY <2>5, <2>6, <3>1 DEF F
    <3>3. i = 1 => f[i] = s[i]
      <4>1. <<>> \o s[i] = s[i]
        BY <2>1 DEF S
      <4>2. i = 1 => i - 1 = 0
        OBVIOUS
      <4> QED
        BY <2>5, <3>2, <4>1, <4>2, Zenon
    <3> QED
      BY <3>2, <3>3
  <2>8. PICK h : h = [i \in 1..n |-> f[i]]
    OBVIOUS
  <2>9. \A i \in 1..n : h[i] = Body(h, i)
    <3> TAKE i \in 1..n
    <3>1. i # 1 => i - 1 \in 1..n
      BY <1>1
    <3>2. h[i] = f[i] /\ (i # 1 => h[i - 1] = f[i - 1])
      BY <2>8, <3>1
    <3> QED
      BY <2>7, <3>2, Zenon
  <2>10. h = [i \in 1..n |-> Body(h, i)]
    <3>1. h = [i \in 1..n |-> h[i]]
      BY <2>8
    <3> QED
      BY <2>9, <3>1, Zenon
  <2>11. g = [i \in 1..n |-> Body(g, i)]
    <3> HIDE DEF Body
    <3> QED
      BY <2>10, Zenon
  <2>12. FlattenSeq(s) = g[n]
    BY <1>1, <1>3, Zenon DEF FlattenSeq
  <2> HIDE DEF g
  <2>13. \A i \in 1..n : g[i] = Body(g, i)
    <3> HIDE DEF Body
    <3> QED
      BY <2>11
  <2> DEFINE E == {k \in Nat : k + 1 <= n => g[k + 1] \in S}
  <2>14. 0 \in E
    <3>1. 1 \in 1..n
      BY <1>1, <1>3
    <3>2. g[1] = s[1] /\ s[1] \in S
      BY <2>1, <2>13, <3>1
    <3> QED
      BY <3>2
  <2>15. ASSUME NEW k \in Nat, k \in E PROVE k + 1 \in E
    <3> SUFFICES ASSUME (k + 1) + 1 <= n PROVE g[(k + 1) + 1] \in S
      OBVIOUS
    <3>1. PICK i \in 1..n : i = (k + 1) + 1 /\ i # 1 /\ i - 1 = k + 1 /\ k + 1 <= n
      BY <1>1
    <3>2. g[i] = g[i - 1] \o s[i]
      BY <2>13, <3>1
    <3>3. g[i - 1] \in S /\ s[i] \in S
      BY <2>1, <2>15, <3>1
    <3>4. g[i - 1] \o s[i] \in S
      BY <3>3 DEF S
    <3> QED
      BY <3>1, <3>2, <3>4, Zenon
  <2>16. E = Nat
    <3>1. E \in SUBSET Nat
      OBVIOUS
    <3> HIDE DEF E
    <3> QED
      BY <2>14, <2>15, <3>1, Induction
  <2>17. g[n] \in S
    <3>1. n - 1 \in Nat /\ (n - 1) + 1 = n
      BY <1>1, <1>3
    <3> QED
      BY <2>16, <3>1
  <2> QED
    BY <2>12, <2>17, Zenon DEF S
<1> QED
  BY <1>2, <1>3

\* An escaped text is a sequence over the same alphabet.
LEMMA Escaped ==
    ASSUME NEW V, NEW t \in Seq(V), "\\" \in V, "n" \in V PROVE JsonEscaped(t) \in Seq(V)
<1>1. PICK u : u = [k \in DOMAIN t |-> CASE t[k] \in {"\"", "\\"} -> <<"\\", t[k]>>
                                         [] t[k] = "nl" -> <<"\\", "n">>
                                         [] OTHER -> <<t[k]>>]
  OBVIOUS
<1>2. Len(t) \in Nat /\ DOMAIN t = 1..Len(t)
  OBVIOUS
<1>3. ASSUME NEW k \in DOMAIN t PROVE u[k] \in Seq(V)
  <2>1. t[k] \in V
    OBVIOUS
  <2>2. <<"\\", t[k]>> \in Seq(V) /\ <<"\\", "n">> \in Seq(V) /\ <<t[k]>> \in Seq(V)
    BY <2>1
  <2>3. u[k] = <<"\\", t[k]>> \/ u[k] = <<"\\", "n">> \/ u[k] = <<t[k]>>
    BY <1>1
  <2> QED
    BY <2>2, <2>3, Zenon
<1>4. u \in [1..Len(t) -> Seq(V)]
  BY <1>1, <1>2, <1>3
<1>5. u \in Seq(Seq(V))
  BY <1>2, <1>4
<1>6. FlattenSeq(u) \in Seq(V)
  BY <1>5, Flattened
<1> QED
  BY <1>1, <1>6, Zenon DEF JsonEscaped

\* So the mapping fits some alphabet.
LEMMA TypedFits ==
    ASSUME NEW m, NEW t, NEW json \in BOOLEAN, Typed(m), IsSeq(t) PROVE \E W : t \in Seq(W) /\ Asks(m, json, W)
<1>1. PICK V : \A c \in DOMAIN m : c \in Seq(V) /\ m[c] \in Seq(V)
  BY DEF Typed
<1>2. PICK U : t \in Seq(U)
  BY DEF IsSeq
<1>3. PICK W : V \subseteq W /\ U \subseteq W /\ "\\" \in W /\ "n" \in W
  <2> DEFINE W == V \cup U \cup {"\\", "n"}
  <2>1. V \subseteq W /\ U \subseteq W /\ "\\" \in W /\ "n" \in W
    OBVIOUS
  <2> QED
    BY <2>1, Zenon
<1>4. t \in Seq(W)
  BY <1>2, <1>3, Wider
<1>5. ASSUME NEW c \in DOMAIN m PROVE c \in Seq(W) /\ surfaceFor(m[c], json) \in Seq(W)
  <2>1. c \in Seq(W) /\ m[c] \in Seq(W)
    BY <1>1, <1>3, Wider
  <2>2. JsonEscaped(m[c]) \in Seq(W)
    BY <1>3, <2>1, Escaped
  <2> QED
    BY <2>1, <2>2, Zenon DEF surfaceFor
<1>6. Asks(m, json, W)
  BY <1>5, Zenon DEF Asks, Fits
<1> QED
  BY <1>4, <1>6, Zenon

-----------------------------------------------------------------------------
(* One field of an answer.                                                  *)

\* What is said of a field that is open: d went through the restorer and u has not yet.
Restores(d, r, g, map, json) == \A W : d \in Seq(W) /\ Asks(map, json, W) => RestoresIn(d, r, g, map, json, W)

\* s is d and then u.
Splits(s, d, u) == IsSeq(d) /\ IsSeq(u) /\ s = d \o u

\* A field of which s was said, u of it not yet restored, and g was given to the client.
Reads(s, u, r, g, map, json) == \E d : Splits(s, d, u) /\ Restores(d, r, g, map, json)

\* A field that is closed was restored as a whole.
ReadWhole(s, g, map, json) == IsSeq(s) /\ g = Whole(s, 1, map, json)

\* The empty text is a sequence.
LEMMA NothingIsSeq == IsSeq(<<>>)
<1>1. <<>> \in Seq({})
  OBVIOUS
<1> QED
  BY <1>1, Zenon DEF IsSeq

\* A field nobody has spoken in.
LEMMA ReadsNothing ==
    ASSUME NEW map, NEW json PROVE Reads(<<>>, <<>>, NewRestorer, <<>>, map, json)
<1>1. Splits(<<>>, <<>>, <<>>)
  <2>1. <<>> = <<>> \o <<>>
    OBVIOUS
  <2> QED
    BY <2>1, NothingIsSeq, Zenon DEF Splits
<1>2. Restores(<<>>, NewRestorer, <<>>, map, json)
  BY NewRestores, Zenon DEF Restores
<1> QED
  BY <1>1, <1>2, Zenon DEF Reads

\* More of a delta.
LEMMA ReadsMore ==
    ASSUME NEW s, NEW u, NEW r, NEW g, NEW map, NEW json, NEW c, Reads(s, u, r, g, map, json)
    PROVE  Reads(Append(s, c), Append(u, c), r, g, map, json)
<1>1. PICK d : Splits(s, d, u) /\ Restores(d, r, g, map, json)
  BY Zenon DEF Reads
<1>2. PICK A, B : d \in Seq(A) /\ u \in Seq(B) /\ s = d \o u
  BY <1>1, Zenon DEF Splits, IsSeq
<1>3. PICK V : A \subseteq V /\ B \subseteq V /\ c \in V
  <2> DEFINE V == A \cup B \cup {c}
  <2>1. A \subseteq V /\ B \subseteq V /\ c \in V
    OBVIOUS
  <2> QED
    BY <2>1, Zenon
<1>4. d \in Seq(V) /\ u \in Seq(V)
  BY <1>2, <1>3, Wider
<1>5. PICK e : e = <<c>>
  OBVIOUS
<1>6. e \in Seq(V) /\ Append(u, c) = u \o e /\ u \o e \in Seq(V)
  BY <1>3, <1>4, <1>5
<1>7. s \in Seq(V)
  BY <1>2, <1>4
<1>8. Append(s, c) = s \o e
  BY <1>3, <1>5, <1>7
<1>9. (d \o u) \o e = d \o (u \o e)
  <2>1. Three(V, d, u, e)
    BY <1>4, <1>6, Zenon DEF Three
  <2> QED
    BY <2>1, Concat
<1>10. Splits(Append(s, c), d, Append(u, c))
  BY <1>2, <1>4, <1>6, <1>8, <1>9, Zenon DEF Splits, IsSeq
<1> QED
  BY <1>1, <1>10, Zenon DEF Reads

\* The parts of a text have its alphabet.
LEMMA Halves ==
    ASSUME NEW s, NEW d, NEW u, NEW W, Splits(s, d, u), s \in Seq(W) PROVE d \in Seq(W) /\ u \in Seq(W)
<1>1. PICK A, B : d \in Seq(A) /\ u \in Seq(B) /\ s = d \o u
  BY Zenon DEF Splits, IsSeq
<1>2. PICK V : A \subseteq V /\ B \subseteq V
  <2>1. A \subseteq A \cup B /\ B \subseteq A \cup B
    OBVIOUS
  <2> QED
    BY <2>1, Zenon
<1>3. d \in Seq(V) /\ u \in Seq(V)
  BY <1>1, <1>2, Wider
<1>4. /\ Len(s) = Len(d) + Len(u) /\ Len(d) \in Nat /\ Len(u) \in Nat
      /\ \A k \in 1..Len(d) : s[k] = d[k]
      /\ \A k \in (Len(d) + 1)..(Len(d) + Len(u)) : s[k] = u[k - Len(d)]
  BY <1>1, <1>3, Joint
<1>5. \A k \in 1..Len(s) : s[k] \in W
  OBVIOUS
<1>6. ASSUME NEW k \in 1..Len(d) PROVE d[k] \in W
  <2>1. k \in 1..Len(s)
    BY <1>4
  <2> QED
    BY <1>4, <1>5, <2>1
<1>7. ASSUME NEW k \in 1..Len(u) PROVE u[k] \in W
  <2>1. PICK i : i = Len(d) + k /\ i \in 1..Len(s) /\ i \in (Len(d) + 1)..(Len(d) + Len(u)) /\ i - Len(d) = k
    BY <1>4
  <2> QED
    BY <1>4, <1>5, <2>1
<1>8. ASSUME NEW x \in Seq(V), \A k \in 1..Len(x) : x[k] \in W PROVE x \in Seq(W)
  <2>1. Len(x) \in Nat /\ x \in [1..Len(x) -> W]
    BY <1>8
  <2> QED
    BY <2>1
<1> QED
  BY <1>3, <1>6, <1>7, <1>8

\* A delta that is pushed.
LEMMA ReadsOn ==
    ASSUME NEW s, NEW u, NEW r, NEW g, NEW map, NEW json, Reads(s, u, r, g, map, json)
    PROVE  Reads(s, <<>>, Push(r, u, map, json).to, g \o Push(r, u, map, json).emitted, map, json)
<1>1. PICK d : Splits(s, d, u) /\ Restores(d, r, g, map, json)
  BY Zenon DEF Reads
<1>2. PICK p : p = Push(r, u, map, json)
  OBVIOUS
<1>3. ASSUME NEW W, s \in Seq(W), Asks(map, json, W) PROVE RestoresIn(s, p.to, g \o p.emitted, map, json, W)
  <2>1. d \in Seq(W) /\ u \in Seq(W)
    BY <1>1, <1>3, Halves, Zenon
  <2>2. RestoresIn(d, r, g, map, json, W)
    BY <1>1, <1>3, <2>1, Zenon DEF Restores
  <2>3. PICK x : x = (r.ctx \o r.carry) \o u
    OBVIOUS
  <2>4. Chunk(d, r, g, x, u, map, json, W)
    BY <1>3, <2>1, <2>2, <2>3, Zenon DEF Chunk
  <2>5. Pushed(d, r, g, u, map, json, W)
    BY <2>4, PushKeeps
  <2>6. s = d \o u
    BY <1>1, Zenon DEF Splits
  <2> QED
    BY <1>2, <2>5, <2>6, Zenon DEF Pushed
<1>4. Splits(s, s, <<>>)
  <2>1. PICK A, B : d \in Seq(A) /\ u \in Seq(B) /\ s = d \o u
    BY <1>1, Zenon DEF Splits, IsSeq
  <2>2. PICK V : A \subseteq V /\ B \subseteq V
    <3>1. A \subseteq A \cup B /\ B \subseteq A \cup B
      OBVIOUS
    <3> QED
      BY <3>1, Zenon
  <2>3. d \in Seq(V) /\ u \in Seq(V)
    BY <2>1, <2>2, Wider
  <2>4. s \in Seq(V)
    BY <2>1, <2>3
  <2>5. s = s \o <<>>
    BY <2>4
  <2> QED
    BY <2>4, <2>5, NothingIsSeq, Zenon DEF Splits, IsSeq
<1>5. Restores(s, p.to, g \o p.emitted, map, json)
  BY <1>3, Zenon DEF Restores
<1> QED
  BY <1>2, <1>4, <1>5, Zenon DEF Reads

\* A field that is closed.
LEMMA ReadsWhole ==
    ASSUME NEW s, NEW r, NEW g, NEW map, NEW json \in BOOLEAN, Reads(s, <<>>, r, g, map, json), Typed(map)
    PROVE  ReadWhole(s, g \o Flush(r, map, json), map, json)
<1>1. PICK d : Splits(s, d, <<>>) /\ Restores(d, r, g, map, json)
  BY Zenon DEF Reads
<1>2. s = d /\ IsSeq(s)
  <2>1. PICK A : d \in Seq(A) /\ s = d \o <<>>
    BY <1>1, Zenon DEF Splits, IsSeq
  <2>2. d \o <<>> = d
    BY <2>1
  <2> QED
    BY <2>1, <2>2, Zenon DEF IsSeq
<1>3. PICK W : s \in Seq(W) /\ Asks(map, json, W)
  BY <1>2, TypedFits
<1>4. RestoresIn(s, r, g, map, json, W)
  BY <1>1, <1>2, <1>3, Zenon DEF Restores
<1>5. Flushed(s, r, g, map, json)
  BY <1>3, <1>4, FlushEnds, Zenon
<1> QED
  BY <1>2, <1>5, Zenon DEF Flushed, ReadWhole

-----------------------------------------------------------------------------
(* The request.                                                             *)

\* What the open delta event still has to give to field f.
Unsaid(f) == IF delta.field = f THEN delta.text ELSE <<>>

\* The answer has not begun.
Fresh ==
    /\ said = [f \in Fields |-> <<>>] /\ got = [f \in Fields |-> <<>>] /\ held = [f \in Fields |-> NewRestorer]
    /\ delta = NoDelta /\ closed = {}

\* A closed field: all of it was restored as if at once.
WasWhole(f) == ReadWhole(said[f], got[f], mapping, Json(f))

\* A field that is open.
Open(f) == Reads(said[f], Unsaid(f), held[f], got[f], mapping, Json(f))

\* The inductive invariant.
RedactionInv ==
    /\ texts \in Inputs /\ Typed(mapping) /\ closed \subseteq Fields
    /\ DOMAIN said = Fields /\ DOMAIN got = Fields /\ DOMAIN held = Fields
    /\ delta.field = 0 => delta.text = <<>>
    /\ delta.field \notin closed
    /\ stage = "new" => Fresh
    /\ \A f \in Fields : IF f \in closed THEN WasWhole(f) ELSE Open(f)

\* The fields of an answer, and which of them is JSON.
LEMMA FieldFacts == 0 \notin Fields /\ 1 \in Fields /\ 2 \in Fields /\ \A f : Json(f) \in BOOLEAN
  BY DEF Fields, Json

\* No delta carries nothing for no field.
LEMMA NoDeltaFacts == NoDelta.field = 0 /\ NoDelta.text = <<>>
  BY DEF NoDelta

\* The invariant holds before anything is redacted.
LEMMA InitInv == Init => RedactionInv
<1> SUFFICES ASSUME Init PROVE RedactionInv
  OBVIOUS
<1>1. /\ texts \in Inputs /\ mapping = <<>> /\ stage = "new" /\ said = [f \in Fields |-> <<>>]
      /\ got = [f \in Fields |-> <<>>] /\ delta = NoDelta /\ held = [f \in Fields |-> NewRestorer] /\ closed = {}
  BY Zenon DEF Init
<1>2. Typed(mapping)
  <2>1. DOMAIN <<>> = {}
    OBVIOUS
  <2> QED
    BY <1>1, <2>1, Zenon DEF Typed
<1>3. delta.field = 0 /\ delta.text = <<>>
  BY <1>1, NoDeltaFacts, Zenon
<1>4. ASSUME NEW f \in Fields PROVE Open(f)
  <2>1. delta.field # f
    BY <1>3, FieldFacts
  <2>2. said[f] = <<>> /\ got[f] = <<>> /\ held[f] = NewRestorer
    BY <1>1
  <2>3. Unsaid(f) = <<>>
    BY <2>1, Zenon DEF Unsaid
  <2> QED
    BY <2>2, <2>3, ReadsNothing, Zenon DEF Open
<1>5. DOMAIN said = Fields /\ DOMAIN got = Fields /\ DOMAIN held = Fields
  BY <1>1
<1>6. closed \subseteq Fields /\ delta.field \notin closed /\ \A f \in Fields : f \notin closed
  BY <1>1
<1> QED
  BY <1>1, <1>2, <1>3, <1>4, <1>5, <1>6, Zenon DEF RedactionInv, Fresh

\* redactBody: a new mapping, before anything is said.
LEMMA RedactInv ==
    ASSUME RedactionInv, NEW n \in Nat, NEW list, DOMAIN list = 1..n, Redact(list) PROVE RedactionInv'
<1>1. /\ stage = "new" /\ stage' # "new"
      /\ UNCHANGED <<texts, said, delta, held, got, closed>>
      /\ \/ mapping' = mapping
         \/ mapping' = pseudonymize(texts, [j \in Fields |-> SpansOf(texts, list, j)]).mapping
  <2>1. /\ stage = "new" /\ (stage' = "refused" \/ stage' = "redacted")
        /\ UNCHANGED <<texts, said, delta, held, got, closed>>
        /\ \/ mapping' = mapping
           \/ mapping' = pseudonymize(texts, [j \in Fields |-> SpansOf(texts, list, j)]).mapping
    BY Zenon DEF Redact
  <2> QED
    BY <2>1
<1>2. /\ texts \in Inputs /\ Typed(mapping) /\ Fresh
  BY <1>1, Zenon DEF RedactionInv
<1>3. Typed(mapping)'
  <2>1. texts \in Seq(Seq(Characters)) /\ Len(texts) = 2
    BY <1>2, RedactionAssumption
  <2>2. DOMAIN texts = 1..2 /\ \A j \in 1..2 : texts[j] \in Seq(Characters)
    BY <2>1
  <2>3. 1..2 = Fields
    BY DEF Fields
  <2>4. DOMAIN texts = Fields /\ \A j \in Fields : IsSeq(texts[j])
    BY <2>2, <2>3, Zenon DEF IsSeq
  <2>5. Typed(pseudonymize(texts, [j \in Fields |-> SpansOf(texts, list, j)]).mapping)
    BY <2>1, <2>4, MappingTyped, Zenon
  <2> QED
    BY <1>1, <1>2, <2>5, Zenon
<1>4. /\ said' = [f \in Fields |-> <<>>] /\ got' = [f \in Fields |-> <<>>] /\ held' = [f \in Fields |-> NewRestorer]
      /\ delta' = NoDelta /\ closed' = {}
  BY <1>1, <1>2, Zenon DEF Fresh
<1>5. delta'.field = 0 /\ delta'.text = <<>>
  BY <1>4, NoDeltaFacts, Zenon
<1>6. ASSUME NEW f \in Fields PROVE Open(f)'
  <2>1. delta'.field # f
    BY <1>5, FieldFacts
  <2>2. said'[f] = <<>> /\ got'[f] = <<>> /\ held'[f] = NewRestorer
    BY <1>4
  <2>3. Unsaid(f)' = <<>>
    BY <2>1, Zenon DEF Unsaid
  <2>4. Json(f)' = Json(f)
    BY DEF Json
  <2> QED
    BY <2>2, <2>3, <2>4, ReadsNothing, Zenon DEF Open
<1>7. DOMAIN said' = Fields /\ DOMAIN got' = Fields /\ DOMAIN held' = Fields
  BY <1>4
<1>8. closed' \subseteq Fields /\ delta'.field \notin closed' /\ \A f \in Fields : f \notin closed'
  BY <1>4
<1>9. texts' \in Inputs
  BY <1>1, <1>2, Zenon
<1> QED
  BY <1>1, <1>3, <1>5, <1>6, <1>7, <1>8, <1>9, Zenon DEF RedactionInv

\* The request goes out.
LEMMA SendInv ==
    ASSUME RedactionInv, NEW d, Send(d) PROVE RedactionInv'
<1>1. stage' = "answering" /\ UNCHANGED <<texts, mapping, said, delta, held, got, closed>>
  BY Zenon DEF Send
<1>2. stage' # "new"
  BY <1>1
<1> QED
  BY <1>1, <1>2, Zenon DEF RedactionInv, WasWhole, Open, Unsaid, Json

\* The model says more of a field: the event waits to be restored.
LEMMA SaysInv ==
    ASSUME RedactionInv, NEW f \in Fields, NEW c, Says(f, c) PROVE RedactionInv'
<1>1. /\ stage = "answering" /\ f \notin closed /\ (delta.field = 0 \/ delta.field = f)
      /\ said' = [said EXCEPT ![f] = Append(@, c)] /\ delta' = [field |-> f, text |-> Append(delta.text, c)]
      /\ UNCHANGED <<texts, mapping, stage, held, got, closed>>
  BY DEF Says
<1>2. /\ texts \in Inputs /\ Typed(mapping) /\ closed \subseteq Fields
      /\ DOMAIN said = Fields /\ DOMAIN got = Fields /\ DOMAIN held = Fields
      /\ delta.field = 0 => delta.text = <<>>
      /\ \A i \in Fields : IF i \in closed THEN WasWhole(i) ELSE Open(i)
  BY Zenon DEF RedactionInv
<1>3. delta'.field = f /\ delta'.text = Append(delta.text, c)
  BY <1>1
<1>4. Unsaid(f) = delta.text
  BY <1>1, <1>2, Zenon DEF Unsaid
<1>5. said'[f] = Append(said[f], c) /\ DOMAIN said' = Fields
  BY <1>1, <1>2
<1>6. ASSUME NEW i \in Fields, i # f PROVE said'[i] = said[i]
  BY <1>1, <1>2, <1>6
<1>7. Open(f)'
  <2>1. Reads(said[f], delta.text, held[f], got[f], mapping, Json(f))
    BY <1>1, <1>2, <1>4, Zenon DEF Open
  <2>2. Reads(Append(said[f], c), Append(delta.text, c), held[f], got[f], mapping, Json(f))
    BY <2>1, ReadsMore, Zenon
  <2>3. Unsaid(f)' = Append(delta.text, c)
    BY <1>3, Zenon DEF Unsaid
  <2> QED
    BY <1>1, <1>5, <2>2, <2>3, Zenon DEF Open, Json
<1>8. ASSUME NEW i \in Fields, i # f PROVE IF i \in closed' THEN WasWhole(i)' ELSE Open(i)'
  <2>1. CASE i \in closed
    <3>1. WasWhole(i)
      BY <1>2, <2>1, Zenon
    <3>2. WasWhole(i)'
      BY <1>1, <1>6, <1>8, <3>1, Zenon DEF WasWhole, Json
    <3> QED
      BY <1>1, <2>1, <3>2, Zenon
  <2>2. CASE i \notin closed
    <3>1. Open(i)
      BY <1>2, <2>2, Zenon
    <3>2. delta.field # i
      <4>1. i # 0
        BY <1>8, FieldFacts
      <4> QED
        BY <1>1, <1>8, <4>1, Zenon
    <3>3. Unsaid(i) = <<>> /\ Unsaid(i)' = <<>>
      BY <1>3, <1>8, <3>2, Zenon DEF Unsaid
    <3>4. Open(i)'
      BY <1>1, <1>6, <1>8, <3>1, <3>3, Zenon DEF Open, Json
    <3> QED
      BY <1>1, <2>2, <3>4, Zenon
  <2> QED
    BY <2>1, <2>2
<1>9. delta'.field # 0 /\ delta'.field \notin closed' /\ stage' # "new"
  BY <1>1, <1>3, FieldFacts
<1>10. \A i \in Fields : IF i \in closed' THEN WasWhole(i)' ELSE Open(i)'
  BY <1>1, <1>7, <1>8, Zenon
<1> QED
  BY <1>1, <1>2, <1>5, <1>9, <1>10, Zenon DEF RedactionInv

\* A delta event goes through the restorer of its field.
LEMMA DeltaInv ==
    ASSUME RedactionInv, Delta PROVE RedactionInv'
<1>1. PICK f, p : /\ f = delta.field /\ p = Push(held[f], delta.text, mapping, Json(f))
                  /\ stage = "answering" /\ f # 0
                  /\ held' = [held EXCEPT ![f] = p.to] /\ got' = [got EXCEPT ![f] = @ \o p.emitted]
                  /\ delta' = NoDelta /\ UNCHANGED <<texts, mapping, stage, said, closed>>
  <2>1. PICK f : f = delta.field
    OBVIOUS
  <2>2. PICK p : p = Push(held[f], delta.text, mapping, Json(f))
    OBVIOUS
  <2>3. /\ stage = "answering" /\ f # 0
        /\ held' = [held EXCEPT ![f] = p.to] /\ got' = [got EXCEPT ![f] = @ \o p.emitted]
        /\ delta' = NoDelta /\ UNCHANGED <<texts, mapping, stage, said, closed>>
    BY <2>1, <2>2 DEF Delta, KeyOf
  <2> QED
    BY <2>1, <2>2, <2>3, Zenon
<1>2. /\ texts \in Inputs /\ Typed(mapping) /\ closed \subseteq Fields
      /\ DOMAIN said = Fields /\ DOMAIN got = Fields /\ DOMAIN held = Fields
      /\ delta.field \notin closed
      /\ \A i \in Fields : IF i \in closed THEN WasWhole(i) ELSE Open(i)
  BY Zenon DEF RedactionInv
<1>3. delta'.field = 0 /\ delta'.text = <<>>
  BY <1>1, NoDeltaFacts, Zenon
<1>4. DOMAIN got' = Fields /\ DOMAIN held' = Fields
  BY <1>1, <1>2
<1>5. ASSUME NEW i \in Fields, i # f PROVE got'[i] = got[i] /\ held'[i] = held[i]
  BY <1>1, <1>2, <1>5
<1>6. ASSUME f \in Fields PROVE Open(f)'
  <2>1. held'[f] = p.to /\ got'[f] = got[f] \o p.emitted
    BY <1>1, <1>2, <1>6
  <2>2. Unsaid(f) = delta.text /\ Unsaid(f)' = <<>>
    BY <1>1, <1>3, Zenon DEF Unsaid
  <2>3. Reads(said[f], delta.text, held[f], got[f], mapping, Json(f))
    BY <1>1, <1>2, <1>6, <2>2, Zenon DEF Open
  <2>4. Reads(said[f], <<>>, Push(held[f], delta.text, mapping, Json(f)).to,
              got[f] \o Push(held[f], delta.text, mapping, Json(f)).emitted, mapping, Json(f))
    BY <2>3, ReadsOn, Zenon
  <2>5. Reads(said[f], <<>>, p.to, got[f] \o p.emitted, mapping, Json(f))
    BY <1>1, <2>4, Zenon
  <2> QED
    BY <1>1, <2>1, <2>2, <2>5, Zenon DEF Open, Json
<1>7. ASSUME NEW i \in Fields, i # f PROVE IF i \in closed' THEN WasWhole(i)' ELSE Open(i)'
  <2>1. CASE i \in closed
    <3>1. WasWhole(i)
      BY <1>2, <2>1, Zenon
    <3>2. WasWhole(i)'
      BY <1>1, <1>5, <1>7, <3>1, Zenon DEF WasWhole, Json
    <3> QED
      BY <1>1, <2>1, <3>2, Zenon
  <2>2. CASE i \notin closed
    <3>1. Open(i)
      BY <1>2, <2>2, Zenon
    <3>2. i # 0
      BY <1>7, FieldFacts
    <3>3. Unsaid(i) = <<>> /\ Unsaid(i)' = <<>>
      BY <1>1, <1>3, <1>7, <3>2, Zenon DEF Unsaid
    <3>4. Open(i)'
      BY <1>1, <1>5, <1>7, <3>1, <3>3, Zenon DEF Open, Json
    <3> QED
      BY <1>1, <2>2, <3>4, Zenon
  <2> QED
    BY <2>1, <2>2
<1>8. delta'.field \notin closed' /\ stage' # "new"
  BY <1>1, <1>2, <1>3, FieldFacts
<1>9. ASSUME NEW i \in Fields PROVE IF i \in closed' THEN WasWhole(i)' ELSE Open(i)'
  <2>1. CASE i = f
    <3>1. Open(i)' /\ i \notin closed'
      BY <1>1, <1>2, <1>6, <2>1, Zenon
    <3> QED
      BY <3>1, Zenon
  <2>2. CASE i # f
    BY <1>7, <2>2, Zenon
  <2> QED
    BY <2>1, <2>2
<1> QED
  BY <1>1, <1>2, <1>3, <1>4, <1>8, <1>9, Zenon DEF RedactionInv

\* The tails of some fields, when no delta is in the making.
LEMMA TailsInv ==
    ASSUME RedactionInv, delta = NoDelta, NEW S \in SUBSET Fields, TailsOf(S), stage = "answering", stage' # "new",
           UNCHANGED <<texts, mapping, said, delta>>
    PROVE  RedactionInv'
<1>1. /\ got' = [f \in Fields |-> IF f \in S \ closed THEN got[f] \o Flush(held[f], mapping, Json(f)) ELSE got[f]]
      /\ held' = [f \in Fields |-> IF f \in S THEN NewRestorer ELSE held[f]]
      /\ closed' = closed \cup S
  BY DEF TailsOf, KeyOf
<1>2. /\ texts \in Inputs /\ Typed(mapping) /\ closed \subseteq Fields /\ DOMAIN said = Fields
      /\ \A i \in Fields : IF i \in closed THEN WasWhole(i) ELSE Open(i)
  BY Zenon DEF RedactionInv
<1>3. delta.field = 0 /\ delta.text = <<>> /\ delta'.field = 0 /\ delta'.text = <<>>
  BY NoDeltaFacts, Zenon
<1>4. DOMAIN got' = Fields /\ DOMAIN held' = Fields /\ closed' \subseteq Fields
  BY <1>1, <1>2
<1>5. ASSUME NEW i \in Fields PROVE IF i \in closed' THEN WasWhole(i)' ELSE Open(i)'
  <2>1. Unsaid(i) = <<>> /\ Unsaid(i)' = <<>>
    <3>1. i # 0
      BY FieldFacts
    <3> QED
      BY <1>3, <3>1, Zenon DEF Unsaid
  <2>2. CASE i \in closed
    <3>1. WasWhole(i) /\ i \in closed'
      BY <1>1, <1>2, <2>2, Zenon
    <3>2. got'[i] = got[i]
      BY <1>1, <2>2
    <3>3. WasWhole(i)'
      BY <3>1, <3>2, Zenon DEF WasWhole, Json
    <3> QED
      BY <3>1, <3>3, Zenon
  <2>3. CASE i \notin closed /\ i \in S
    <3>1. Open(i) /\ i \in closed'
      BY <1>1, <1>2, <2>3, Zenon
    <3>2. got'[i] = got[i] \o Flush(held[i], mapping, Json(i))
      BY <1>1, <2>3
    <3>3. Reads(said[i], <<>>, held[i], got[i], mapping, Json(i)) /\ Json(i) \in BOOLEAN
      BY <2>1, <3>1, FieldFacts, Zenon DEF Open
    <3>4. ReadWhole(said[i], got[i] \o Flush(held[i], mapping, Json(i)), mapping, Json(i))
      BY <1>2, <3>3, ReadsWhole, Zenon
    <3>5. WasWhole(i)'
      BY <3>2, <3>4, Zenon DEF WasWhole, Json
    <3> QED
      BY <3>1, <3>5, Zenon
  <2>4. CASE i \notin closed /\ i \notin S
    <3>1. Open(i) /\ i \notin closed'
      BY <1>1, <1>2, <2>4, Zenon
    <3>2. got'[i] = got[i] /\ held'[i] = held[i]
      BY <1>1, <2>4
    <3>3. Open(i)'
      BY <2>1, <3>1, <3>2, Zenon DEF Open, Json
    <3> QED
      BY <3>1, <3>3, Zenon
  <2> QED
    BY <2>2, <2>3, <2>4
<1>6. delta'.field \notin closed'
  BY <1>3, <1>4, FieldFacts
<1> QED
  BY <1>2, <1>3, <1>4, <1>5, <1>6, Zenon DEF RedactionInv

\* Every step keeps the invariant.
LEMMA StepInv == RedactionInv /\ [Next]_vars => RedactionInv'
<1> SUFFICES ASSUME RedactionInv, [Next]_vars PROVE RedactionInv'
  OBVIOUS
<1>1. ASSUME NEW n \in 0..MaxSpans, NEW list \in [1..n -> Spans], Redact(list) PROVE RedactionInv'
  <2>1. n \in Nat /\ DOMAIN list = 1..n
    BY RedactionAssumption
  <2> QED
    BY <1>1, <2>1, RedactInv
<1>2. ASSUME NEW d \in Dialects, Send(d) PROVE RedactionInv'
  BY <1>2, SendInv
<1>3. ASSUME NEW f \in Fields, CloseField(f) PROVE RedactionInv'
  <2>1. PICK S : S = IF dialect = "chat" THEN Fields ELSE {f}
    OBVIOUS
  <2>2. S \in SUBSET Fields
    BY <2>1
  <2>3. /\ delta = NoDelta /\ TailsOf(S) /\ stage = "answering" /\ stage' = stage
        /\ UNCHANGED <<texts, mapping, said, delta>>
    BY <1>3, <2>1, Zenon DEF CloseField
  <2>4. stage' # "new"
    BY <2>3
  <2> QED
    BY <2>2, <2>3, <2>4, TailsInv
<1>4. ASSUME NEW f \in Fields, NEW c, Says(f, c) PROVE RedactionInv'
  BY <1>4, SaysInv
<1>5. CASE Delta
  BY <1>5, DeltaInv
<1>6. CASE Finish
  <2>1. Fields \in SUBSET Fields
    OBVIOUS
  <2>2. /\ delta = NoDelta /\ TailsOf(Fields) /\ stage = "answering" /\ stage' = "over"
        /\ UNCHANGED <<texts, mapping, said, delta>>
    BY <1>6, Zenon DEF Finish
  <2>3. stage' # "new"
    BY <2>2
  <2> QED
    BY <2>1, <2>2, <2>3, TailsInv
<1>7. CASE UNCHANGED vars
  <2>1. UNCHANGED <<texts, mapping, stage, said, delta, held, got, closed>>
    BY <1>7 DEF vars
  <2> QED
    BY <2>1, Zenon DEF RedactionInv, Fresh, WasWhole, Open, Unsaid, Json
<1> QED
  BY <1>1, <1>2, <1>3, <1>4, <1>5, <1>6, <1>7, Zenon DEF Next

\* A closed field has what restoring all of it at once gives.
LEMMA InvCuts == RedactionInv => CutsDoNotShow
<1> SUFFICES ASSUME RedactionInv, NEW f \in closed
             PROVE  /\ got[f] = AtOnce(f)
                    /\ dialect = "responses" => restoreText(said[f], mapping, Json(f)) = got[f]
  BY Zenon DEF CutsDoNotShow
<1>1. f \in Fields
  BY DEF RedactionInv
<1>2. ReadWhole(said[f], got[f], mapping, Json(f)) /\ Typed(mapping)
  BY <1>1, Zenon DEF RedactionInv, WasWhole
<1>3. IsSeq(said[f]) /\ got[f] = Whole(said[f], 1, mapping, Json(f))
  BY <1>2, Zenon DEF ReadWhole
<1>4. AtOnce(f) = Whole(said[f], 1, mapping, Json(f))
  BY Zenon DEF AtOnce, Whole, Upto
<1>5. restoreText(said[f], mapping, Json(f)) = Whole(said[f], 1, mapping, Json(f))
  <2>1. PICK t, json : t = said[f] /\ json = Json(f) /\ json \in BOOLEAN
    BY FieldFacts, Zenon
  <2>2. PICK W : t \in Seq(W) /\ Asks(mapping, json, W)
    BY <1>2, <1>3, <2>1, TypedFits
  <2>3. restoreText(t, mapping, json) = Whole(t, 1, mapping, json)
    BY <2>2, RestoredAtOnce, Zenon
  <2> QED
    BY <2>1, <2>3, Zenon
<1> QED
  BY <1>3, <1>4, <1>5, Zenon

\* dialects/ and restore.mjs: however an answer is cut into deltas, whatever it says and
\* whatever the other field says in between, each field that is closed reads as if it had
\* been restored whole, and so does the text a .done event repeats.
THEOREM CutsDoNotShowTheorem == Spec => []CutsDoNotShow
<1>1. Spec => []RedactionInv
  BY InitInv, StepInv, PTL DEF Spec
<1> QED
  BY <1>1, InvCuts, PTL
=============================================================================
