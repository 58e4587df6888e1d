---------------------------- MODULE ExportProofs ----------------------------
(***************************************************************************)
(* Proofs about the exports, for every timeline.  strip_ansi is a          *)
(* recursion over the places of a text that jumps behind an escape         *)
(* sequence; the reference is a terminal that reads character by           *)
(* character.  Between them stands a reader of strip_ansi's own dialect:   *)
(* what it prints from each place on satisfies the recursion of            *)
(* strip_ansi, and there is one function that does, so the two are the     *)
(* same for every text; and it takes the terminal's steps wherever the     *)
(* terminal does not give up.  A reader that has ended on the ground reads *)
(* on as if it began there, which is why chunks can be stripped one by     *)
(* one.  The Markdown is the CSV selected from, stripped and flattened,    *)
(* which the lemmas about these operators give.                            *)
(***************************************************************************)
EXTENDS ScreensProofs

----------------------------------------------------------------------------
(* Readers *)

\* A reader that has read and printed nothing.
Fresh == [state |-> "ground", out |-> <<>>]

\* What a reader that takes these steps goes through over s.
IsReading(f, s, step) ==
    f[0] = Fresh /\ \A i \in 1 .. Len(s) : f[i] = step[<<f[i - 1], s[i]>>]

\* It can read any text.
LEMMA ReadingExists ==
    ASSUME NEW R, Fresh \in R, NEW step \in [R \X Chars -> R], NEW s \in Seq(Chars)
    PROVE  \E f \in [0 .. Len(s) -> R] : IsReading(f, s, step)
<1> DEFINE n == Len(s)
           reads == [p \in R \X (1 .. n) |-> step[<<p[1], s[p[2]]>>]]
<1>1. n \in Nat /\ \A i \in 1 .. n : s[i] \in Chars
  OBVIOUS
<1>2. reads \in [R \X (1 .. n) -> R]
  <2>1. \A p \in R \X (1 .. n) : step[<<p[1], s[p[2]]>>] \in R
    BY <1>1
  <2> QED
    BY <2>1
<1>3. PICK f \in [0 .. n -> R] : IsRecursive(f, n, Fresh, reads)
  <2> HIDE DEF n, reads
  <2> QED
    BY <1>1, <1>2, RecursionExists
<1>4. \A i \in 1 .. n : f[i] = step[<<f[i - 1], s[i]>>]
  <2>1. SUFFICES ASSUME NEW i \in 1 .. n PROVE f[i] = step[<<f[i - 1], s[i]>>]
    OBVIOUS
  <2>2. <<f[i - 1], i>> \in R \X (1 .. n)
    BY <1>1
  <2>3. f[i] = reads[<<f[i - 1], i>>]
    BY <1>3 DEF IsRecursive
  <2> QED
    BY <2>2, <2>3
<1>5. IsReading(f, s, step)
  BY <1>3, <1>4 DEF IsReading, IsRecursive
<1> QED
  BY <1>5

\* It reads on after s as after what it has come to.
LEMMA ReadingPut ==
    ASSUME NEW R, NEW step \in [R \X Chars -> R], NEW s \in Seq(Chars), NEW x \in Chars,
           NEW f \in [0 .. Len(s) -> R], IsReading(f, s, step),
           NEW g \in [0 .. Len(Put(s, x)) -> R], IsReading(g, Put(s, x), step)
    PROVE  g[Len(Put(s, x))] = step[<<f[Len(s)], x>>]
<1> DEFINE r == Put(s, x)
           n == Len(s)
<1>1. /\ r \in Seq(Chars) /\ Len(r) = n + 1 /\ r[n + 1] = x
      /\ \A i \in 1 .. n : r[i] = s[i]
  BY DEF Put
<1>2. n \in Nat
  OBVIOUS
<1> HIDE DEF r
<1>5. /\ f[0] = Fresh /\ \A i \in 1 .. n : f[i] = step[<<f[i - 1], s[i]>>]
      /\ g[0] = Fresh /\ \A i \in 1 .. n + 1 : g[i] = step[<<g[i - 1], r[i]>>]
  BY <1>1 DEF IsReading, r
<1> DEFINE S == {i \in Nat : i <= n => f[i] = g[i]}
<1>6. 0 \in S
  BY <1>5
<1>7. ASSUME NEW i \in Nat, i \in S PROVE i + 1 \in S
  <2>1. CASE i + 1 <= n
    <3>1. f[i] = g[i] /\ i + 1 \in 1 .. n /\ i + 1 \in 1 .. n + 1 /\ i + 1 - 1 = i
      BY <1>2, <1>7, <2>1
    <3>2. f[i + 1] = step[<<f[i], s[i + 1]>>] /\ g[i + 1] = step[<<g[i], r[i + 1]>>]
          /\ r[i + 1] = s[i + 1]
      BY <1>1, <1>5, <3>1
    <3>3. f[i + 1] = g[i + 1]
      BY <3>1, <3>2
    <3> QED
      BY <3>3
  <2> QED
    BY <2>1
<1>8. Nat \subseteq S
  <2> HIDE DEF S
  <2> QED
    BY <1>6, <1>7, NaturalInduction
<1>9. f[n] = g[n]
  BY <1>2, <1>8
<1>10. n + 1 \in 1 .. n + 1 /\ n + 1 - 1 = n
  BY <1>2
<1>11. g[n + 1] = step[<<g[n], x>>]
  BY <1>1, <1>5, <1>10
<1> QED
  BY <1>1, <1>9, <1>11 DEF r

----------------------------------------------------------------------------
(* The reference *)

\* The states of the terminal of Export,
TerminalStates == {"ground", "escape", "csi", "osc", "osc escape", "other"}

\* the terminal with what it has printed,
Terminals == [state : TerminalStates, out : Seq(Chars)]

\* and its steps.
StreamSteps == [p \in Terminals \X Chars |-> StreamStep(p[1], p[2])]

\* A character keeps a terminal a terminal.
LEMMA StreamStepType ==
    ASSUME NEW acc \in Terminals, NEW c \in Chars
    PROVE  StreamStep(acc, c) \in Terminals
<1>1. /\ acc.state \in TerminalStates /\ acc.out \in Seq(Chars)
      /\ Append(acc.out, c) \in Seq(Chars)
  BY DEF Terminals
<1>2. \A q \in TerminalStates : [acc EXCEPT !.state = q] \in Terminals
  BY DEF Terminals
<1>3. [acc EXCEPT !.out = Append(@, c)] \in Terminals
  BY <1>1 DEF Terminals
<1>4. CASE acc.state = "ground"
  BY <1>2, <1>3, <1>4 DEF StreamStep, TerminalStates
<1>5. CASE acc.state = "escape"
  BY <1>2, <1>5 DEF StreamStep, TerminalStates
<1>6. CASE acc.state \in {"csi", "osc"}
  BY <1>2, <1>6 DEF StreamStep, TerminalStates
<1>7. CASE acc.state \in {"osc escape", "other"}
  BY <1>2, <1>7 DEF StreamStep, TerminalStates
<1> QED
  BY <1>1, <1>4, <1>5, <1>6, <1>7 DEF TerminalStates

\* Stream is what its recursion comes to.
LEMMA StreamReads ==
    ASSUME NEW s \in Seq(Chars)
    PROVE  \E f \in [0 .. Len(s) -> Terminals] :
              IsReading(f, s, StreamSteps) /\ Stream(s) = f[Len(s)]
<1> DEFINE n == Len(s)
           Eq(f) == f = [i \in 0 .. Len(s) |->
                           IF i = 0 THEN [state |-> "ground", out |-> <<>>]
                           ELSE StreamStep(f[i - 1], s[i])]
           read == CHOOSE f : Eq(f)
<1>1. /\ n \in Nat /\ Fresh \in Terminals /\ StreamSteps \in [Terminals \X Chars -> Terminals]
      /\ \A i \in 1 .. n : s[i] \in Chars
  <2>1. Fresh \in Terminals
    BY DEF Fresh, Terminals, TerminalStates
  <2>2. \A p \in Terminals \X Chars : StreamStep(p[1], p[2]) \in Terminals
    BY StreamStepType
  <2> QED
    BY <2>1, <2>2 DEF StreamSteps
<1>2. PICK f \in [0 .. n -> Terminals] : IsReading(f, s, StreamSteps)
  BY <1>1, ReadingExists, Zenon
<1>3. \A i \in 1 .. n : f[i] = StreamStep(f[i - 1], s[i])
  <2>1. SUFFICES ASSUME NEW i \in 1 .. n PROVE f[i] = StreamStep(f[i - 1], s[i])
    OBVIOUS
  <2>2. f[i - 1] \in Terminals /\ s[i] \in Chars
    <3>1. i - 1 \in 0 .. n
      BY <1>1
    <3> QED
      BY <1>1, <1>2, <3>1, Zenon
  <2>3. f[i] = StreamSteps[<<f[i - 1], s[i]>>]
    BY <1>2 DEF IsReading
  <2> QED
    BY <2>2, <2>3 DEF StreamSteps
<1>4. Eq(f)
  <2>1. f = [i \in 0 .. n |-> f[i]]
    <3> HIDE DEF n
    <3> QED
      BY <1>2
  <2>2. \A i \in 0 .. n : i = 0 \/ i \in 1 .. n
    BY <1>1
  <2>3. f[0] = [state |-> "ground", out |-> <<>>]
    BY <1>2 DEF IsReading, Fresh
  <2>4. \A i \in 0 .. n : f[i] = IF i = 0 THEN [state |-> "ground", out |-> <<>>]
                                 ELSE StreamStep(f[i - 1], s[i])
    <3> HIDE DEF n
    <3> QED
      BY <1>3, <2>2, <2>3, Zenon
  <2> QED
    BY <2>1, <2>4
<1>5. PICK g : g = read /\ Eq(g)
  <2>1. Eq(read)
    <3> HIDE DEF Eq
    <3> QED
      BY <1>4
  <2> HIDE DEF Eq, read
  <2> QED
    BY <2>1
<1>6. Stream(s) = g[n]
  BY <1>5 DEF Stream
<1> HIDE DEF read
<1>7. g[0] = Fresh /\ \A i \in 1 .. n : g[i] = StreamStep(g[i - 1], s[i])
  <2>1. \A i \in 1 .. n : i # 0 /\ i \in 0 .. n
    BY <1>1
  <2>2. 0 \in 0 .. n
    BY <1>1
  <2> QED
    BY <1>5, <2>1, <2>2, Zenon DEF Fresh
<1> DEFINE S == {i \in Nat : i <= n => g[i] \in Terminals}
<1>8. Nat \subseteq S
  <2>1. 0 \in S
    BY <1>1, <1>7
  <2>2. ASSUME NEW i \in Nat, i \in S PROVE i + 1 \in S
    <3>1. CASE i + 1 <= n
      <4>1. g[i] \in Terminals /\ s[i + 1] \in Chars /\ i + 1 \in 1 .. n
        BY <1>1, <2>2, <3>1
      <4>2. g[i + 1] = StreamStep(g[i], s[i + 1])
        BY <1>7, <4>1
      <4> QED
        BY <4>1, <4>2, StreamStepType
    <3> QED
      BY <3>1
  <2> HIDE DEF S
  <2> QED
    BY <2>1, <2>2, NaturalInduction
<1>9. g \in [0 .. n -> Terminals]
  <2>1. \A i \in 0 .. n : g[i] \in Terminals
    BY <1>1, <1>8
  <2> QED
    BY <1>5, <2>1
<1>10. IsReading(g, s, StreamSteps)
  <2>1. SUFFICES ASSUME NEW i \in 1 .. n PROVE g[i] = StreamSteps[<<g[i - 1], s[i]>>]
    BY <1>7 DEF IsReading
  <2>2. g[i - 1] \in Terminals /\ s[i] \in Chars
    BY <1>1, <1>9
  <2> QED
    BY <1>7, <2>2 DEF StreamSteps
<1> HIDE DEF Eq
<1> QED
  BY <1>6, <1>9, <1>10

\* Nothing has been read of nothing.
LEMMA StreamEmpty == Stream(<<>>) = Fresh
<1> DEFINE s == <<>>
<1>1. s \in Seq(Chars) /\ Len(s) = 0
  OBVIOUS
<1> HIDE DEF s
<1>2. Stream(s) = Fresh
  BY <1>1, StreamReads DEF IsReading
<1> QED
  BY <1>2 DEF s

\* What has read a text is a terminal.
LEMMA StreamType ==
    ASSUME NEW s \in Seq(Chars)
    PROVE  Stream(s) \in Terminals
<1>1. Len(s) \in 0 .. Len(s)
  OBVIOUS
<1> QED
  BY <1>1, StreamReads

\* A terminal reads on.
LEMMA StreamPut ==
    ASSUME NEW s \in Seq(Chars), NEW x \in Chars
    PROVE  Stream(Put(s, x)) = StreamStep(Stream(s), x)
<1>1. Put(s, x) \in Seq(Chars)
  BY PutType
<1>2. PICK f \in [0 .. Len(s) -> Terminals] :
         IsReading(f, s, StreamSteps) /\ Stream(s) = f[Len(s)]
  BY StreamReads
<1>3. PICK g \in [0 .. Len(Put(s, x)) -> Terminals] :
         IsReading(g, Put(s, x), StreamSteps) /\ Stream(Put(s, x)) = g[Len(Put(s, x))]
  BY <1>1, StreamReads
<1>4. StreamSteps \in [Terminals \X Chars -> Terminals]
  BY StreamStepType DEF StreamSteps
<1>5. Stream(Put(s, x)) = StreamSteps[<<Stream(s), x>>]
  BY <1>2, <1>3, <1>4, ReadingPut
<1>6. <<Stream(s), x>> \in Terminals \X Chars
  BY StreamType
<1> QED
  BY <1>5, <1>6 DEF StreamSteps

----------------------------------------------------------------------------
(* The dialect of strip_ansi *)

\* strip_ansi as a reader: it knows other sequences as well, in its own way.
DialectStep(acc, c) ==
    LET goes(to) == [acc EXCEPT !.state = to]
    IN CASE acc.state = "ground" ->
              (CASE c = "ESC" -> goes("escape")
                 [] c = "CR" -> acc
                 [] OTHER -> [acc EXCEPT !.out = Append(@, c)])
         [] acc.state = "escape" ->
              goes(CASE c = "[" -> "csi" [] c = "]" -> "osc" [] OTHER -> "ground")
         [] acc.state = "csi" -> goes(IF c \in Final THEN "ground" ELSE "csi")
         [] OTHER ->
              goes(CASE c = "BEL" -> "ground"
                     [] c = "ESC" -> "osc escape"
                     [] c = "\\" /\ acc.state = "osc escape" -> "ground"
                     [] OTHER -> "osc")

\* Its states,
States == {"ground", "escape", "csi", "osc", "osc escape"}

\* the reader with what it has printed,
Readers == [state : States, out : Seq(Chars)]

\* its steps,
DialectSteps == [p \in Readers \X Chars |-> DialectStep(p[1], p[2])]

\* and what it has come to when it has read s.
Dialect(s) ==
    (CHOOSE f \in [0 .. Len(s) -> Readers] : IsReading(f, s, DialectSteps))[Len(s)]

\* A character keeps a reader a reader.
LEMMA StepType ==
    ASSUME NEW acc \in Readers, NEW c \in Chars
    PROVE  DialectStep(acc, c) \in Readers
<1>1. acc.state \in States /\ acc.out \in Seq(Chars) /\ Append(acc.out, c) \in Seq(Chars)
  BY DEF Readers
<1>2. \A q \in States : [acc EXCEPT !.state = q] \in Readers
  BY DEF Readers
<1>3. [acc EXCEPT !.out = Append(@, c)] \in Readers
  BY <1>1 DEF Readers
<1> QED
  BY <1>1, <1>2, <1>3 DEF DialectStep, States

\* Its steps lead from readers to readers, and it starts as one.
LEMMA DialectStepsType ==
    Fresh \in Readers /\ DialectSteps \in [Readers \X Chars -> Readers]
<1>1. Fresh \in Readers
  BY DEF Fresh, Readers, States
<1>2. \A p \in Readers \X Chars : DialectStep(p[1], p[2]) \in Readers
  BY StepType
<1> QED
  BY <1>1, <1>2 DEF DialectSteps

\* Dialect is what its steps come to.
LEMMA DialectReads ==
    ASSUME NEW s \in Seq(Chars)
    PROVE  \E f \in [0 .. Len(s) -> Readers] :
              IsReading(f, s, DialectSteps) /\ Dialect(s) = f[Len(s)]
<1>1. \E f \in [0 .. Len(s) -> Readers] : IsReading(f, s, DialectSteps)
  BY DialectStepsType, ReadingExists
<1> QED
  BY <1>1, Zenon DEF Dialect

\* Nothing has been read of nothing.
LEMMA DialectEmpty == Dialect(<<>>) = Fresh
<1> DEFINE s == <<>>
<1>1. s \in Seq(Chars) /\ Len(s) = 0
  OBVIOUS
<1> HIDE DEF s
<1>2. Dialect(s) = Fresh
  BY <1>1, DialectReads DEF IsReading
<1> QED
  BY <1>2 DEF s

\* What has read a text is a reader.
LEMMA DialectType ==
    ASSUME NEW s \in Seq(Chars)
    PROVE  Dialect(s) \in Readers
<1>1. Len(s) \in 0 .. Len(s)
  OBVIOUS
<1> QED
  BY <1>1, DialectReads

\* It reads on.
LEMMA DialectPut ==
    ASSUME NEW s \in Seq(Chars), NEW x \in Chars
    PROVE  Dialect(Put(s, x)) = DialectStep(Dialect(s), x)
<1>1. Put(s, x) \in Seq(Chars)
  BY PutType
<1>2. PICK f \in [0 .. Len(s) -> Readers] :
         IsReading(f, s, DialectSteps) /\ Dialect(s) = f[Len(s)]
  BY DialectReads
<1>3. PICK g \in [0 .. Len(Put(s, x)) -> Readers] :
         IsReading(g, Put(s, x), DialectSteps) /\ Dialect(Put(s, x)) = g[Len(Put(s, x))]
  BY <1>1, DialectReads
<1>5. Dialect(Put(s, x)) = DialectSteps[<<Dialect(s), x>>]
  BY <1>2, <1>3, DialectStepsType, ReadingPut
<1>6. <<Dialect(s), x>> \in Readers \X Chars
  BY DialectType
<1> QED
  BY <1>5, <1>6 DEF DialectSteps

\* Where the terminal does not give up, strip_ansi takes the same step.
LEMMA StepsAgree ==
    ASSUME NEW w \in Terminals, NEW x \in Chars, StreamStep(w, x).state # "other"
    PROVE  w.state # "other" /\ StreamStep(w, x) = DialectStep(w, x)
<1>1. w.state \in TerminalStates
  BY DEF Terminals
<1>2. \A q : [w EXCEPT !.state = q].state = q
  BY DEF Terminals
<1>3. CASE w.state = "ground"
  BY <1>3 DEF StreamStep, DialectStep
<1>4. CASE w.state = "escape"
  <2>1. CASE x \in {"[", "]", "\\", "B", "0"}
    BY <1>4, <2>1 DEF StreamStep, DialectStep, Final
  <2>2. CASE x \notin {"[", "]", "\\", "B", "0"}
    <3>1. StreamStep(w, x) = [w EXCEPT !.state = "other"]
      BY <1>4, <2>2 DEF StreamStep
    <3> QED
      BY <1>2, <3>1
  <2> QED
    BY <2>1, <2>2
<1>5. CASE w.state = "csi"
  <2>1. CASE x \in Final
    <3>1. /\ StreamStep(w, x) = [w EXCEPT !.state = "ground"]
          /\ DialectStep(w, x) = [w EXCEPT !.state = "ground"]
      BY <1>5, <2>1 DEF StreamStep, DialectStep, Final
    <3> QED
      BY <1>5, <3>1
  <2>2. CASE x \notin Final /\ x \in {"0", "(", " "}
    <3>1. /\ StreamStep(w, x) = [w EXCEPT !.state = "csi"]
          /\ DialectStep(w, x) = [w EXCEPT !.state = "csi"]
      BY <1>5, <2>2 DEF StreamStep, DialectStep
    <3> QED
      BY <1>5, <3>1
  <2>3. CASE x \notin Final /\ x \notin {"0", "(", " "}
    <3>1. StreamStep(w, x) = [w EXCEPT !.state = "other"]
      BY <1>5, <2>3 DEF StreamStep
    <3> QED
      BY <1>2, <3>1
  <2> QED
    BY <2>1, <2>2, <2>3
<1>6. CASE w.state = "osc"
  BY <1>6 DEF StreamStep, DialectStep
<1>7. CASE w.state = "osc escape"
  <2>1. CASE x = "\\"
    BY <1>7, <2>1 DEF StreamStep, DialectStep
  <2>2. CASE x # "\\"
    <3>1. StreamStep(w, x) = [w EXCEPT !.state = "other"]
      BY <1>7, <2>2 DEF StreamStep
    <3> QED
      BY <1>2, <3>1
  <2> QED
    BY <2>1, <2>2
<1>8. CASE w.state = "other"
  BY <1>8 DEF StreamStep
<1> QED
  BY <1>1, <1>3, <1>4, <1>5, <1>6, <1>7, <1>8 DEF TerminalStates

\* So what the terminal reads to the end, strip_ansi reads alike.
LEMMA DialectAgrees ==
    ASSUME NEW s \in Seq(Chars), Stream(s).state # "other"
    PROVE  Dialect(s) = Stream(s)
<1> DEFINE Good(b) == Stream(b).state # "other" => Dialect(b) = Stream(b)
           P == {b \in Seq(Chars) : Good(b)}
<1>1. <<>> \in P
  BY StreamEmpty, DialectEmpty
<1>2. ASSUME NEW b \in Seq(Chars), NEW x \in Chars, b \in P PROVE Put(b, x) \in P
  <2>1. Put(b, x) \in Seq(Chars)
    BY PutType
  <2>2. Stream(Put(b, x)) = StreamStep(Stream(b), x)
    BY StreamPut
  <2>3. Dialect(Put(b, x)) = DialectStep(Dialect(b), x)
    BY DialectPut
  <2>4. Stream(b) \in Terminals
    BY StreamType
  <2>5. ASSUME StreamStep(Stream(b), x).state # "other"
        PROVE  Stream(b).state # "other"
               /\ StreamStep(Stream(b), x) = DialectStep(Stream(b), x)
    BY <2>4, <2>5, StepsAgree
  <2>6. Good(Put(b, x))
    BY <1>2, <2>2, <2>3, <2>5
  <2> QED
    BY <2>1, <2>6
<1>3. Seq(Chars) \subseteq P
  <2> HIDE DEF P
  <2> QED
    BY <1>1, <1>2, PutInduction
<1> QED
  BY <1>3

\* A step as a change of state and what it prints.
StateAfter(q, x) ==
    CASE q = "ground" -> IF x = "ESC" THEN "escape" ELSE "ground"
      [] q = "escape" -> (CASE x = "[" -> "csi" [] x = "]" -> "osc" [] OTHER -> "ground")
      [] q = "csi" -> IF x \in Final THEN "ground" ELSE "csi"
      [] OTHER -> (CASE x = "BEL" -> "ground"
                     [] x = "ESC" -> "osc escape"
                     [] x = "\\" /\ q = "osc escape" -> "ground"
                     [] OTHER -> "osc")

\* Whether a reader in state q prints the character x.
Prints(q, x) == q = "ground" /\ x \notin {"ESC", "CR"}

\* A step goes to the next state, and prints the character or does not.
LEMMA StepSplits ==
    ASSUME NEW w \in Readers, NEW x \in Chars
    PROVE  /\ DialectStep(w, x).state = StateAfter(w.state, x)
           /\ DialectStep(w, x).out = IF Prints(w.state, x) THEN Put(w.out, x) ELSE w.out
<1>1. w = [state |-> w.state, out |-> w.out] /\ w.state \in States
  BY DEF Readers
<1>2. \A q : /\ [w EXCEPT !.state = q].state = q
             /\ [w EXCEPT !.state = q].out = w.out
  BY <1>1
<1>3. /\ [w EXCEPT !.out = Append(@, x)].state = w.state
      /\ [w EXCEPT !.out = Append(@, x)].out = Put(w.out, x)
  BY <1>1 DEF Put
<1>4. CASE w.state = "ground"
  <2>1. CASE x = "ESC"
    <3>1. DialectStep(w, x) = [w EXCEPT !.state = "escape"]
      BY <1>4, <2>1 DEF DialectStep
    <3> QED
      BY <1>2, <1>4, <2>1, <3>1 DEF StateAfter, Prints
  <2>2. CASE x = "CR"
    <3>1. DialectStep(w, x) = w
      BY <1>4, <2>2 DEF DialectStep
    <3> QED
      BY <1>4, <2>2, <3>1 DEF StateAfter, Prints
  <2>3. CASE x \notin {"ESC", "CR"}
    <3>1. DialectStep(w, x) = [w EXCEPT !.out = Append(@, x)]
      BY <1>4, <2>3 DEF DialectStep
    <3> QED
      BY <1>3, <1>4, <2>3, <3>1 DEF StateAfter, Prints
  <2> QED
    BY <2>1, <2>2, <2>3
<1>5. CASE w.state # "ground"
  <2>1. ~Prints(w.state, x)
    BY <1>5 DEF Prints
  <2>2. DialectStep(w, x) = [w EXCEPT !.state = StateAfter(w.state, x)]
    <3>1. CASE w.state = "escape"
      BY <3>1 DEF DialectStep, StateAfter
    <3>2. CASE w.state = "csi"
      BY <3>2 DEF DialectStep, StateAfter
    <3>3. CASE w.state \in {"osc", "osc escape"}
      BY <3>3 DEF DialectStep, StateAfter
    <3> QED
      BY <1>1, <1>5, <3>1, <3>2, <3>3 DEF States
  <2> QED
    BY <1>2, <2>1, <2>2
<1> QED
  BY <1>4, <1>5

\* What comes before a stretch of text that starts on the ground is printed
\* before it, and makes no difference to it.
LEMMA DialectCat ==
    ASSUME NEW a \in Seq(Chars), Dialect(a).state = "ground"
    PROVE  \A b \in Seq(Chars) :
              /\ Dialect(Cat(a, b)).state = Dialect(b).state
              /\ Dialect(Cat(a, b)).out = Cat(Dialect(a).out, Dialect(b).out)
<1> DEFINE Good(b) == /\ Dialect(Cat(a, b)).state = Dialect(b).state
                      /\ Dialect(Cat(a, b)).out = Cat(Dialect(a).out, Dialect(b).out)
           P == {b \in Seq(Chars) : Good(b)}
<1>1. <<>> \in P
  <2>1. Dialect(a).out \in Seq(Chars)
    BY DialectType DEF Readers
  <2>2. Cat(a, <<>>) = a /\ Cat(Dialect(a).out, <<>>) = Dialect(a).out
    BY <2>1, CatEmpty
  <2>3. Dialect(<<>>).state = "ground" /\ Dialect(<<>>).out = <<>>
    BY DialectEmpty DEF Fresh
  <2>4. Good(<<>>)
    BY <2>2, <2>3
  <2>5. <<>> \in Seq(Chars)
    OBVIOUS
  <2> QED
    BY <2>4, <2>5, Zenon
<1>2. ASSUME NEW b \in Seq(Chars), NEW x \in Chars, b \in P PROVE Put(b, x) \in P
  <2> DEFINE ab == Cat(a, b)
             u == Dialect(ab)
             v == Dialect(b)
             o == Dialect(a).out
  <2>1. u.state = v.state /\ u.out = Cat(o, v.out)
    BY <1>2
  <2>2. ab \in Seq(Chars) /\ u \in Readers /\ v \in Readers /\ o \in Seq(Chars)
    <3>1. ab \in Seq(Chars)
      BY CatType
    <3>2. Dialect(a) \in Readers
      BY DialectType
    <3> HIDE DEF ab
    <3> QED
      BY <3>1, <3>2, DialectType DEF Readers
  <2>3. Dialect(Put(ab, x)) = DialectStep(u, x) /\ Dialect(Put(b, x)) = DialectStep(v, x)
    <3> HIDE DEF ab
    <3> QED
      BY <2>2, DialectPut
  <2>4. Put(ab, x) = Cat(a, Put(b, x))
    BY CatPut
  <2> HIDE DEF ab, u, v, o
  <2>5. /\ u = [state |-> u.state, out |-> u.out] /\ v = [state |-> v.state, out |-> v.out]
        /\ v.out \in Seq(Chars)
    BY <2>2 DEF Readers
  <2>6. Put(u.out, x) = Cat(o, Put(v.out, x))
    BY <2>1, <2>2, <2>5, CatPut
  <2>7. /\ DialectStep(u, x).state = DialectStep(v, x).state
        /\ DialectStep(u, x).out = Cat(o, DialectStep(v, x).out)
    <3>1. /\ DialectStep(u, x).state = StateAfter(u.state, x)
          /\ DialectStep(v, x).state = StateAfter(v.state, x)
          /\ DialectStep(u, x).out = IF Prints(u.state, x) THEN Put(u.out, x) ELSE u.out
          /\ DialectStep(v, x).out = IF Prints(v.state, x) THEN Put(v.out, x) ELSE v.out
      BY <2>2, StepSplits
    <3> QED
      BY <2>1, <2>2, <2>6, <3>1
  <2>8. Good(Put(b, x))
    BY <2>3, <2>4, <2>7 DEF o
  <2>9. Put(b, x) \in Seq(Chars)
    BY PutType
  <2> QED
    BY <2>8, <2>9, Zenon
<1>3. Seq(Chars) \subseteq P
  <2> HIDE DEF P
  <2> QED
    BY <1>1, <1>2, PutInduction
<1> QED
  BY <1>3

\* What a reader has read of s from i to j, and what it prints from i on.
Read(s, i, j) == Dialect(Part(s, i, j))

\* What it prints from i on, if it begins there.
PrintedFrom(s, i) == Dialect(Part(s, i, Len(s))).out

\* The first character that is read.
LEMMA ReadFirst ==
    ASSUME NEW s \in Seq(Chars), NEW i \in Nat, 1 <= i, i <= Len(s)
    PROVE  /\ Read(s, i, i).state = StateAfter("ground", s[i])
           /\ Read(s, i, i).out = IF Prints("ground", s[i]) THEN Put(<<>>, s[i]) ELSE <<>>
<1>1. i - 1 \in Nat /\ i - 1 + 1 = i /\ s[i] \in Chars /\ Len(s) \in Nat
  OBVIOUS
<1>2. Part(s, i, i - 1) = <<>>
  BY <1>1, PartEmpty
<1> DEFINE k == i - 1
<1>3. Part(s, i, k + 1) = Put(Part(s, i, k), s[k + 1])
  <2>1. k \in Nat /\ i <= k + 1 /\ k + 1 <= Len(s)
    BY <1>1
  <2> HIDE DEF k
  <2> QED
    BY <2>1, PartPut
<1>4. Part(s, i, i) = Put(<<>>, s[i])
  BY <1>1, <1>2, <1>3
<1> DEFINE e == <<>>
<1>5. e \in Seq(Chars) /\ Dialect(e) = Fresh
  BY DialectEmpty
<1> HIDE DEF e
<1>6. Dialect(Put(e, s[i])) = DialectStep(Fresh, s[i]) /\ Fresh \in Readers
  BY <1>1, <1>5, DialectPut, DialectType
<1>7. Fresh.state = "ground" /\ Fresh.out = <<>>
  BY DEF Fresh
<1>8. /\ DialectStep(Fresh, s[i]).state = StateAfter(Fresh.state, s[i])
      /\ DialectStep(Fresh, s[i]).out
            = IF Prints(Fresh.state, s[i]) THEN Put(Fresh.out, s[i]) ELSE Fresh.out
  BY <1>1, <1>6, StepSplits
<1>9. Read(s, i, i) = DialectStep(Fresh, s[i])
  BY <1>4, <1>6 DEF Read, e
<1> HIDE DEF Fresh
<1> QED
  BY <1>7, <1>8, <1>9

\* One character more.
LEMMA ReadNext ==
    ASSUME NEW s \in Seq(Chars), NEW i \in Nat, NEW j \in Nat,
           1 <= i, i <= j + 1, j + 1 <= Len(s)
    PROVE  /\ Read(s, i, j + 1).state = StateAfter(Read(s, i, j).state, s[j + 1])
           /\ Read(s, i, j + 1).out = IF Prints(Read(s, i, j).state, s[j + 1])
                                      THEN Put(Read(s, i, j).out, s[j + 1])
                                      ELSE Read(s, i, j).out
<1> DEFINE a == Part(s, i, j)
<1>1. a \in Seq(Chars) /\ s[j + 1] \in Chars
  <2>1. j <= Len(s)
    OBVIOUS
  <2> QED
    BY <2>1, PartType
<1>2. Part(s, i, j + 1) = Put(a, s[j + 1])
  BY PartPut
<1> HIDE DEF a
<1>3. Dialect(Put(a, s[j + 1])) = DialectStep(Dialect(a), s[j + 1]) /\ Dialect(a) \in Readers
  BY <1>1, DialectPut, DialectType
<1>4. Read(s, i, j) = Dialect(a) /\ Read(s, i, j + 1) = DialectStep(Dialect(a), s[j + 1])
  BY <1>2, <1>3 DEF Read, a
<1> QED
  BY <1>1, <1>3, <1>4, StepSplits

\* From the ground a reader goes on as if it began there.
LEMMA GoesOn ==
    ASSUME NEW s \in Seq(Chars), NEW i \in Nat, NEW k \in Nat,
           1 <= i, i <= k + 1, k <= Len(s), Read(s, i, k).state = "ground"
    PROVE  PrintedFrom(s, i) = Cat(Read(s, i, k).out, PrintedFrom(s, k + 1))
<1> DEFINE a == Part(s, i, k)
           b == Part(s, k + 1, Len(s))
<1>1. a \in Seq(Chars) /\ b \in Seq(Chars)
  <2>1. Len(s) \in Nat /\ k + 1 \in Nat /\ 1 <= k + 1
    OBVIOUS
  <2> QED
    BY <2>1, PartType
<1>2. Cat(a, b) = Part(s, i, Len(s))
  BY PartCat
<1> HIDE DEF a, b
<1>3. Dialect(a).state = "ground"
  BY DEF Read, a
<1>4. Dialect(Cat(a, b)).out = Cat(Dialect(a).out, Dialect(b).out)
  BY <1>1, <1>3, DialectCat
<1> QED
  BY <1>2, <1>4 DEF Read, PrintedFrom, a, b

\* Nothing is printed behind the end.
LEMMA NothingAtTheEnd ==
    ASSUME NEW s \in Seq(Chars), NEW i \in Nat, Len(s) < i
    PROVE  PrintedFrom(s, i) = <<>>
<1>1. Part(s, i, Len(s)) = <<>>
  BY PartEmpty
<1> QED
  BY <1>1, DialectEmpty DEF PrintedFrom, Fresh

\* What is printed is text.
LEMMA PrintedType ==
    ASSUME NEW s \in Seq(Chars), NEW i \in Nat, 1 <= i
    PROVE  PrintedFrom(s, i) \in Seq(Chars)
<1>1. Part(s, i, Len(s)) \in Seq(Chars)
  BY PartType
<1> QED
  BY <1>1, DialectType DEF PrintedFrom, Readers

\* A stretch that prints nothing and ends on the ground, or at the end.
LEMMA Skips ==
    ASSUME NEW s \in Seq(Chars), NEW i \in Nat, NEW k \in Nat,
           1 <= i, i <= k + 1, k <= Len(s), Read(s, i, k).out = <<>>,
           Read(s, i, k).state = "ground" \/ k = Len(s)
    PROVE  PrintedFrom(s, i) = PrintedFrom(s, k + 1)
<1>1. CASE Read(s, i, k).state = "ground"
  <2>1. PrintedFrom(s, i) = Cat(<<>>, PrintedFrom(s, k + 1))
    BY <1>1, GoesOn
  <2>2. PrintedFrom(s, k + 1) \in Seq(Chars)
    BY PrintedType
  <2> QED
    BY <2>1, <2>2, CatEmpty
<1>2. CASE k = Len(s)
  <2>1. PrintedFrom(s, i) = <<>>
    BY <1>2 DEF PrintedFrom, Read
  <2>2. PrintedFrom(s, k + 1) = <<>>
    BY <1>2, NothingAtTheEnd
  <2> QED
    BY <2>1, <2>2
<1> QED
  BY <1>1, <1>2

----------------------------------------------------------------------------
(* Escape sequences *)

\* What FirstPlace returns.
LEMMA FirstPlaceIs ==
    ASSUME NEW n \in Nat, NEW T, T \subseteq 1 .. n
    PROVE  /\ T = {} => FirstPlace(T, n) = n
           /\ T # {} => FirstPlace(T, n) \in T /\ \A k \in T : FirstPlace(T, n) <= k
<1>1. T # {} => \E j \in T : \A k \in T : j <= k
  <2>1. T \subseteq Nat
    OBVIOUS
  <2> QED
    BY <2>1, NaturalLeast
<1> DEFINE c == CHOOSE j \in T : \A k \in T : j <= k
<1>2. T # {} => c \in T /\ \A k \in T : c <= k
  <2> SUFFICES ASSUME T # {} PROVE c \in T /\ \A k \in T : c <= k
    OBVIOUS
  <2> QED
    BY <1>1
<1>3. T # {} => FirstPlace(T, n) = c
  BY DEF FirstPlace
<1>4. T = {} => FirstPlace(T, n) = n
  BY DEF FirstPlace
<1> HIDE DEF c
<1> QED
  BY <1>2, <1>3, <1>4

\* What has been read from i to j is printed as nothing and leaves state q.
Holds(s, i, j, q) == Read(s, i, j).state = q /\ Read(s, i, j).out = <<>>

\* An ESC is not printed.
LEMMA HoldsFirst ==
    ASSUME NEW s \in Seq(Chars), NEW i \in Nat, 1 <= i, i <= Len(s), s[i] = "ESC"
    PROVE  Holds(s, i, i, "escape")
  BY ReadFirst DEF StateAfter, Prints, Holds

\* Nor is one more character that the state does not print.
LEMMA HoldsNext ==
    ASSUME NEW s \in Seq(Chars), NEW i \in Nat, NEW j \in Nat,
           1 <= i, i <= j + 1, j + 1 <= Len(s), NEW q, Holds(s, i, j, q),
           ~Prints(q, s[j + 1])
    PROVE  Holds(s, i, j + 1, StateAfter(q, s[j + 1]))
  BY ReadNext DEF Holds

\* What is not printed up to the ground can be skipped.
LEMMA HoldsSkips ==
    ASSUME NEW s \in Seq(Chars), NEW i \in Nat, NEW k \in Nat,
           1 <= i, i <= k + 1, k <= Len(s), NEW q, Holds(s, i, k, q),
           q = "ground" \/ k = Len(s)
    PROVE  PrintedFrom(s, i) = PrintedFrom(s, k + 1)
  BY Skips DEF Holds

\* Within a CSI sequence nothing is printed up to its first final byte.
LEMMA InCsi ==
    ASSUME NEW s \in Seq(Chars), NEW i \in Nat, 1 <= i, i + 1 <= Len(s),
           s[i] = "ESC", s[i + 1] = "[", NEW m \in Nat, m <= Len(s),
           \A k \in CsiEnds(s, i + 2) : m < k
    PROVE  \A j \in Nat : i + 1 <= j /\ j <= m => Holds(s, i, j, "csi")
<1> DEFINE S == {j \in Nat : i + 1 <= j /\ j <= m => Holds(s, i, j, "csi")}
<1>1. Len(s) \in Nat /\ i <= Len(s)
  OBVIOUS
<1>2. Holds(s, i, i, "escape")
  BY <1>1, HoldsFirst
<1>3. Holds(s, i, i + 1, "csi")
  <2>1. ~Prints("escape", s[i + 1]) /\ StateAfter("escape", s[i + 1]) = "csi"
    BY DEF Prints, StateAfter
  <2> QED
    BY <1>1, <1>2, <2>1, HoldsNext
<1>4. 0 \in S
  OBVIOUS
<1>5. ASSUME NEW j \in Nat, j \in S PROVE j + 1 \in S
  <2>1. CASE i + 1 <= j /\ j + 1 <= m
    <3>1. Holds(s, i, j, "csi")
      BY <1>5, <2>1
    <3>2. j + 1 \in i + 2 .. Len(s) /\ j + 1 \notin CsiEnds(s, i + 2) /\ i <= j + 1
          /\ j + 1 <= Len(s)
      BY <1>1, <2>1
    <3>3. s[j + 1] \notin Final
      BY <3>2 DEF CsiEnds
    <3>4. StateAfter("csi", s[j + 1]) = "csi" /\ ~Prints("csi", s[j + 1])
      BY <3>3 DEF StateAfter, Prints
    <3>5. Holds(s, i, j + 1, "csi")
      BY <3>1, <3>2, <3>4, HoldsNext
    <3> QED
      BY <3>5
  <2>2. CASE j = i
    BY <1>3, <2>2
  <2> QED
    BY <2>1, <2>2
<1>6. Nat \subseteq S
  <2> HIDE DEF S
  <2> QED
    BY <1>4, <1>5, NaturalInduction
<1> QED
  BY <1>6

\* The state of a reader within an OSC sequence after the character c.
InOscAfter(c) == IF c = "ESC" THEN "osc escape" ELSE "osc"

\* Within an OSC sequence, likewise; an ESC in it may be the beginning of its end.
LEMMA InOsc ==
    ASSUME NEW s \in Seq(Chars), NEW i \in Nat, 1 <= i, i + 1 <= Len(s),
           s[i] = "ESC", s[i + 1] = "]", NEW m \in Nat, m <= Len(s),
           \A k \in OscEnds(s, i + 2) : m < k
    PROVE  \A j \in Nat : i + 1 <= j /\ j <= m => Holds(s, i, j, InOscAfter(s[j]))
<1> DEFINE S == {j \in Nat : i + 1 <= j /\ j <= m => Holds(s, i, j, InOscAfter(s[j]))}
<1>1. Len(s) \in Nat /\ i <= Len(s)
  OBVIOUS
<1>2. Holds(s, i, i, "escape")
  BY <1>1, HoldsFirst
<1>3. Holds(s, i, i + 1, InOscAfter(s[i + 1]))
  <2>1. ~Prints("escape", s[i + 1]) /\ StateAfter("escape", s[i + 1]) = InOscAfter(s[i + 1])
    BY DEF Prints, StateAfter, InOscAfter
  <2> QED
    BY <1>1, <1>2, <2>1, HoldsNext
<1>4. 0 \in S
  OBVIOUS
<1>5. ASSUME NEW j \in Nat, j \in S PROVE j + 1 \in S
  <2>1. CASE i + 1 <= j /\ j + 1 <= m
    <3>1. Holds(s, i, j, InOscAfter(s[j]))
      BY <1>5, <2>1
    <3>2. j + 1 \in i + 2 .. Len(s) /\ j + 1 \notin OscEnds(s, i + 2) /\ i <= j + 1
          /\ j + 1 <= Len(s) /\ j \notin OscEnds(s, i + 2)
      BY <1>1, <2>1
    <3>3. s[j + 1] # "BEL"
      BY <3>2 DEF OscEnds
    <3>4. s[j] = "ESC" => s[j + 1] # "\\"
      <4>1. SUFFICES ASSUME s[j] = "ESC", s[j + 1] = "\\" PROVE FALSE
        OBVIOUS
      <4>2. j # i + 1
        BY <4>1
      <4>3. j \in i + 2 .. Len(s) /\ j + 1 \in DOMAIN s
        BY <1>1, <2>1, <3>2, <4>2
      <4>4. At(s, j + 1) = "\\"
        BY <4>1, <4>3 DEF At
      <4> QED
        BY <3>2, <4>1, <4>3, <4>4 DEF OscEnds
    <3>5. /\ StateAfter(InOscAfter(s[j]), s[j + 1]) = InOscAfter(s[j + 1])
          /\ ~Prints(InOscAfter(s[j]), s[j + 1])
      BY <3>3, <3>4 DEF StateAfter, Prints, InOscAfter
    <3>6. Holds(s, i, j + 1, InOscAfter(s[j + 1]))
      BY <3>1, <3>2, <3>5, HoldsNext
    <3> QED
      BY <3>6
  <2>2. CASE j = i
    BY <1>3, <2>2
  <2>3. CASE ~(i + 1 <= j + 1 /\ j + 1 <= m)
    BY <2>3
  <2> QED
    BY <2>1, <2>2, <2>3
<1>6. Nat \subseteq S
  <2> HIDE DEF S
  <2> QED
    BY <1>4, <1>5, NaturalInduction
<1> QED
  BY <1>6

\* The end that FirstPlace finds is the first one.
IsEnd(e, T, i, n) ==
    /\ e \in i + 2 .. n /\ e \in T /\ \A k \in T : e - 1 < k
    /\ e \in Nat /\ e - 1 \in Nat /\ e - 1 + 1 = e /\ i + 1 <= e - 1 /\ e - 1 <= n /\ e <= n

\* The end that strip_ansi looks for is the first, or the chunk's last place.
LEMMA FirstEnd ==
    ASSUME NEW n \in Nat, NEW i \in Nat, NEW T, T \subseteq i + 2 .. n
    PROVE  /\ T = {} => FirstPlace(T, n) = n
           /\ T # {} => IsEnd(FirstPlace(T, n), T, i, n)
<1>1. T \subseteq 1 .. n
  OBVIOUS
<1> DEFINE e == FirstPlace(T, n)
<1>2. (T = {} => e = n) /\ (T # {} => e \in T /\ \A k \in T : e <= k)
  BY <1>1, FirstPlaceIs
<1> HIDE DEF e
<1>3. ASSUME T # {} PROVE IsEnd(e, T, i, n)
  <2>1. e \in T /\ e \in i + 2 .. n /\ \A k \in T : e <= k /\ k \in Nat
    <3>1. \A k \in T : k \in Nat
      OBVIOUS
    <3> QED
      BY <1>2, <1>3, <3>1
  <2>2. e \in Nat /\ e - 1 \in Nat /\ e - 1 + 1 = e /\ i + 1 <= e - 1 /\ e - 1 <= n /\ e <= n
    BY <2>1
  <2>3. \A k \in T : e - 1 < k
    BY <2>1, <2>2
  <2> QED
    BY <2>1, <2>2, <2>3 DEF IsEnd
<1> QED
  BY <1>2, <1>3 DEF e

\* strip_ansi goes on where the reader is on the ground again: behind a CSI
\* sequence,
LEMMA SkipsCsi ==
    ASSUME NEW s \in Seq(Chars), NEW i \in Nat, 1 <= i, i + 1 <= Len(s),
           s[i] = "ESC", s[i + 1] = "["
    PROVE  /\ AfterEscape(s, i) \in i + 1 .. Len(s) + 2
           /\ PrintedFrom(s, i) = PrintedFrom(s, AfterEscape(s, i))
<1> DEFINE n == Len(s)
           T == CsiEnds(s, i + 2)
           e == FirstPlace(T, n)
<1>1. n \in Nat /\ i + 1 \in DOMAIN s /\ i <= n + 1
  OBVIOUS
<1>2. AfterEscape(s, i) = e + 1
  BY <1>1 DEF AfterEscape, At
<1>3. T \subseteq i + 2 .. n /\ \A j \in T : s[j] \in Final
  BY DEF CsiEnds
<1> HIDE DEF T
<1>4. (T = {} => e = n) /\ (T # {} => IsEnd(e, T, i, n))
  BY <1>1, <1>3, FirstEnd
<1> HIDE DEF e
<1>5. CASE T = {}
  <2>1. \A k \in CsiEnds(s, i + 2) : n < k
    BY <1>5 DEF T
  <2>2. Holds(s, i, n, "csi")
    BY <1>1, <2>1, InCsi
  <2>3. PrintedFrom(s, i) = PrintedFrom(s, n + 1)
    BY <1>1, <2>2, HoldsSkips
  <2> QED
    BY <1>1, <1>2, <1>4, <1>5, <2>3
<1>6. CASE T # {}
  <2> DEFINE m == e - 1
  <2>1. /\ e \in i + 2 .. n /\ e \in T /\ \A k \in T : m < k
        /\ e \in Nat /\ m \in Nat /\ m + 1 = e /\ i + 1 <= m /\ m <= n /\ e <= n
    BY <1>4, <1>6 DEF IsEnd
  <2>2. \A k \in CsiEnds(s, i + 2) : m < k
    BY <2>1 DEF T
  <2>3. s[e] \in Final
    BY <1>3, <2>1
  <2>4. i <= m + 1 /\ i <= e + 1 /\ e + 1 \in i + 1 .. n + 2
    BY <1>1, <2>1
  <2> HIDE DEF m
  <2>5. Holds(s, i, m, "csi")
    BY <2>1, <2>2, InCsi
  <2>6. StateAfter("csi", s[m + 1]) = "ground" /\ ~Prints("csi", s[m + 1])
    BY <2>1, <2>3 DEF StateAfter, Prints
  <2>7. Holds(s, i, e, "ground")
    BY <2>1, <2>4, <2>5, <2>6, HoldsNext
  <2>8. PrintedFrom(s, i) = PrintedFrom(s, e + 1)
    BY <2>1, <2>4, <2>7, HoldsSkips
  <2> QED
    BY <1>2, <2>4, <2>8
<1> QED
  BY <1>5, <1>6

\* behind an OSC sequence, ended by BEL or by ESC and a backslash,
LEMMA SkipsOsc ==
    ASSUME NEW s \in Seq(Chars), NEW i \in Nat, 1 <= i, i + 1 <= Len(s),
           s[i] = "ESC", s[i + 1] = "]"
    PROVE  /\ AfterEscape(s, i) \in i + 1 .. Len(s) + 2
           /\ PrintedFrom(s, i) = PrintedFrom(s, AfterEscape(s, i))
<1> DEFINE n == Len(s)
           T == OscEnds(s, i + 2)
           e == FirstPlace(T, n)
           k == IF At(s, e) = "ESC" /\ At(s, e + 1) = "\\" THEN e + 2 ELSE e + 1
<1>1. n \in Nat /\ i + 1 \in DOMAIN s /\ DOMAIN s = 1 .. n /\ i <= n + 1
  OBVIOUS
<1>2. AfterEscape(s, i) = k
  BY <1>1 DEF AfterEscape, At
<1>3. T \subseteq i + 2 .. n
      /\ \A j \in T : s[j] = "BEL" \/ (s[j] = "ESC" /\ At(s, j + 1) = "\\")
  BY DEF OscEnds
<1> HIDE DEF T
<1>4. (T = {} => e = n) /\ (T # {} => IsEnd(e, T, i, n))
  BY <1>1, <1>3, FirstEnd
<1> HIDE DEF e
<1>5. CASE T = {}
  <2>1. \A j \in OscEnds(s, i + 2) : n < j
    BY <1>5 DEF T
  <2>2. Holds(s, i, n, InOscAfter(s[n]))
    BY <1>1, <2>1, InOsc
  <2>3. PrintedFrom(s, i) = PrintedFrom(s, n + 1)
    BY <1>1, <2>2, HoldsSkips
  <2>4. At(s, n + 1) = "none"
    BY <1>1 DEF At
  <2>5. k = n + 1
    BY <1>4, <1>5, <2>4
  <2> HIDE DEF k
  <2> QED
    BY <1>1, <1>2, <2>3, <2>5
<1>6. CASE T # {}
  <2> DEFINE m == e - 1
  <2>1. /\ e \in i + 2 .. n /\ e \in T /\ \A j \in T : m < j
        /\ e \in Nat /\ m \in Nat /\ m + 1 = e /\ i + 1 <= m /\ m <= n /\ e <= n
    BY <1>4, <1>6 DEF IsEnd
  <2>2. \A j \in OscEnds(s, i + 2) : m < j
    BY <2>1 DEF T
  <2>3. s[e] = "BEL" \/ (s[e] = "ESC" /\ At(s, e + 1) = "\\")
    BY <1>3, <2>1
  <2>4. i <= m + 1 /\ i <= e + 1 /\ e + 1 \in i + 1 .. n + 2 /\ e + 2 \in i + 1 .. n + 2
        /\ e \in DOMAIN s
    BY <1>1, <2>1
  <2> HIDE DEF m
  <2>5. Holds(s, i, m, InOscAfter(s[m]))
    BY <2>1, <2>2, InOsc
  <2>6. ~Prints(InOscAfter(s[m]), s[m + 1])
    BY DEF Prints, InOscAfter
  <2>7. Holds(s, i, e, StateAfter(InOscAfter(s[m]), s[e]))
    BY <2>1, <2>4, <2>5, <2>6, HoldsNext
  <2>8. CASE s[e] = "BEL"
    <3>1. Holds(s, i, e, "ground")
      <4>1. StateAfter(InOscAfter(s[m]), s[e]) = "ground"
        BY <2>8 DEF StateAfter, InOscAfter
      <4> QED
        BY <2>7, <4>1
    <3>2. PrintedFrom(s, i) = PrintedFrom(s, e + 1)
      BY <2>1, <2>4, <3>1, HoldsSkips
    <3>3. k = e + 1
      BY <2>4, <2>8 DEF At
    <3> HIDE DEF k
    <3> QED
      BY <1>2, <2>4, <3>2, <3>3
  <2>9. CASE s[e] = "ESC" /\ At(s, e + 1) = "\\"
    <3> DEFINE d == e + 1
    <3>1. d \in 1 .. n /\ s[d] = "\\" /\ d <= n /\ d \in Nat /\ i <= d /\ i <= d + 1
          /\ d + 1 = e + 2
      <4>1. e + 1 \in DOMAIN s /\ s[e + 1] = "\\"
        BY <2>9 DEF At
      <4> QED
        BY <1>1, <2>1, <4>1
    <3> HIDE DEF d
    <3>2. Holds(s, i, e, "osc escape")
      <4>1. StateAfter(InOscAfter(s[m]), s[e]) = "osc escape"
        BY <2>9 DEF StateAfter, InOscAfter
      <4> QED
        BY <2>7, <4>1
    <3>3. ~Prints("osc escape", s[d]) /\ StateAfter("osc escape", s[d]) = "ground"
      BY <3>1 DEF StateAfter, Prints
    <3>4. Holds(s, i, d, "ground")
      BY <2>1, <2>4, <3>1, <3>2, <3>3, HoldsNext DEF d
    <3>5. PrintedFrom(s, i) = PrintedFrom(s, d + 1)
      BY <3>1, <3>4, HoldsSkips
    <3>6. k = e + 2
      BY <2>4, <2>9 DEF At
    <3> HIDE DEF k
    <3> QED
      BY <1>2, <2>4, <3>1, <3>5, <3>6
  <2> QED
    BY <2>3, <2>8, <2>9
<1> QED
  BY <1>5, <1>6

\* and behind any other character after an ESC.
LEMMA SkipsShort ==
    ASSUME NEW s \in Seq(Chars), NEW i \in Nat, 1 <= i, i <= Len(s),
           s[i] = "ESC", At(s, i + 1) \notin {"[", "]"}
    PROVE  /\ AfterEscape(s, i) \in i + 1 .. Len(s) + 2
           /\ PrintedFrom(s, i) = PrintedFrom(s, AfterEscape(s, i))
<1>1. Len(s) \in Nat /\ DOMAIN s = 1 .. Len(s) /\ i + 1 \in Nat
      /\ i + 2 \in i + 1 .. Len(s) + 2 /\ i <= i + 1 /\ i + 2 \in Nat
  OBVIOUS
<1>2. AfterEscape(s, i) = i + 2
  BY DEF AfterEscape
<1>3. Holds(s, i, i, "escape")
  BY <1>1, HoldsFirst
<1>4. CASE i = Len(s)
  <2>1. PrintedFrom(s, i) = PrintedFrom(s, i + 1)
    BY <1>1, <1>3, <1>4, HoldsSkips
  <2>2. PrintedFrom(s, i + 1) = <<>> /\ PrintedFrom(s, i + 2) = <<>>
    <3>1. Len(s) < i + 1 /\ Len(s) < i + 2
      BY <1>1, <1>4
    <3> QED
      BY <1>1, <3>1, NothingAtTheEnd
  <2> QED
    BY <1>1, <1>2, <2>1, <2>2
<1>5. CASE i < Len(s)
  <2> DEFINE d == i + 1
  <2>1. s[d] \notin {"[", "]"} /\ d <= Len(s) /\ d \in Nat /\ i <= d /\ i <= d + 1
        /\ d + 1 = i + 2
    BY <1>1, <1>5 DEF At
  <2>2. ~Prints("escape", s[d]) /\ StateAfter("escape", s[d]) = "ground"
    BY <2>1 DEF StateAfter, Prints
  <2> HIDE DEF d
  <2>3. Holds(s, i, d, "ground")
    BY <1>1, <1>3, <2>1, <2>2, HoldsNext DEF d
  <2>4. PrintedFrom(s, i) = PrintedFrom(s, d + 1)
    BY <2>1, <2>3, HoldsSkips
  <2> QED
    BY <1>1, <1>2, <2>1, <2>4
<1>6. i = Len(s) \/ i < Len(s)
  <2> DEFINE n == Len(s)
  <2>1. n \in Nat /\ i <= n
    BY <1>1
  <2> HIDE DEF n
  <2>2. i = n \/ i < n
    BY <2>1
  <2> QED
    BY <2>2 DEF n
<1> QED
  <2>1. PrintedFrom(s, i) = PrintedFrom(s, AfterEscape(s, i))
    BY <1>4, <1>5, <1>6, Zenon
  <2> QED
    BY <1>1, <1>2, <2>1

----------------------------------------------------------------------------
(* strip_ansi *)

\* What strip_ansi returns from each place on, by cases.
Strips(f, s, i) ==
    /\ i > Len(s) => f[i] = <<>>
    /\ i <= Len(s) /\ s[i] = "ESC" => f[i] = f[AfterEscape(s, i)]
    /\ i <= Len(s) /\ s[i] = "CR" => f[i] = f[i + 1]
    /\ i <= Len(s) /\ s[i] \notin {"ESC", "CR"} => f[i] = Cat(<<s[i]>>, f[i + 1])

\* So what the reader prints from an ESC on is what it prints from the place
\* where strip_ansi goes on; and that place is further on.
LEMMA AfterEscapeGoesOn ==
    ASSUME NEW s \in Seq(Chars), NEW i \in 1 .. Len(s), s[i] = "ESC"
    PROVE  /\ AfterEscape(s, i) \in i + 1 .. Len(s) + 2
           /\ PrintedFrom(s, i) = PrintedFrom(s, AfterEscape(s, i))
<1>1. Len(s) \in Nat /\ i \in Nat /\ 1 <= i /\ i <= Len(s) /\ DOMAIN s = 1 .. Len(s)
  OBVIOUS
<1>2. At(s, i + 1) \in {"[", "]"} => i + 1 <= Len(s) /\ At(s, i + 1) = s[i + 1]
  BY <1>1 DEF At
<1>3. CASE At(s, i + 1) = "["
  BY <1>1, <1>2, <1>3, SkipsCsi
<1>4. CASE At(s, i + 1) = "]"
  BY <1>1, <1>2, <1>4, SkipsOsc
<1>5. CASE At(s, i + 1) \notin {"[", "]"}
  BY <1>1, <1>5, SkipsShort
<1> QED
  BY <1>3, <1>4, <1>5

\* What the reader prints from each place on satisfies the cases of strip_ansi.
LEMMA TerminalStrips ==
    ASSUME NEW s \in Seq(Chars), NEW g, g = [i \in 1 .. Len(s) + 2 |-> PrintedFrom(s, i)],
           NEW i \in 1 .. Len(s) + 2
    PROVE  Strips(g, s, i)
<1>1. Len(s) \in Nat /\ i \in Nat /\ 1 <= i /\ i - 1 \in Nat /\ i - 1 + 1 = i
  OBVIOUS
<1>2. \A j \in 1 .. Len(s) + 2 : g[j] = PrintedFrom(s, j)
  OBVIOUS
<1>3. ASSUME i > Len(s) PROVE g[i] = <<>>
  BY <1>1, <1>2, <1>3, NothingAtTheEnd
<1>4. ASSUME i <= Len(s), s[i] = "ESC" PROVE g[i] = g[AfterEscape(s, i)]
  <2>1. /\ AfterEscape(s, i) \in 1 .. Len(s) + 2
        /\ PrintedFrom(s, i) = PrintedFrom(s, AfterEscape(s, i))
    <3>1. i \in 1 .. Len(s)
      BY <1>1, <1>4
    <3>2. /\ AfterEscape(s, i) \in i + 1 .. Len(s) + 2
          /\ PrintedFrom(s, i) = PrintedFrom(s, AfterEscape(s, i))
      BY <1>4, <3>1, AfterEscapeGoesOn
    <3> QED
      BY <1>1, <3>2
  <2> QED
    BY <1>2, <2>1
<1>5. ASSUME i <= Len(s) PROVE i + 1 \in 1 .. Len(s) + 2 /\ i <= i + 1 /\ s[i] \in Chars
  BY <1>1, <1>5
<1>6. ASSUME i <= Len(s), s[i] = "CR" PROVE g[i] = g[i + 1]
  <2>1. Holds(s, i, i, "ground")
    BY <1>1, <1>6, ReadFirst DEF StateAfter, Prints, Holds
  <2>2. PrintedFrom(s, i) = PrintedFrom(s, i + 1)
    BY <1>1, <1>5, <1>6, <2>1, HoldsSkips
  <2> QED
    BY <1>2, <1>5, <1>6, <2>2
<1>7. ASSUME i <= Len(s), s[i] \notin {"ESC", "CR"}
      PROVE  g[i] = Cat(<<s[i]>>, g[i + 1])
  <2>1. Read(s, i, i).state = "ground" /\ Read(s, i, i).out = Put(<<>>, s[i])
    BY <1>1, <1>7, ReadFirst DEF StateAfter, Prints
  <2>2. PrintedFrom(s, i) = Cat(Read(s, i, i).out, PrintedFrom(s, i + 1))
    BY <1>1, <1>5, <1>7, <2>1, GoesOn
  <2>3. Put(<<>>, s[i]) = <<s[i]>>
    BY DEF Put
  <2> QED
    BY <1>2, <1>5, <1>7, <2>1, <2>2, <2>3
<1> QED
  BY <1>3, <1>4, <1>6, <1>7 DEF Strips

\* There is one function that does: from the end on, each place is determined by
\* places behind it.
LEMMA StripsAlike ==
    ASSUME NEW s \in Seq(Chars), NEW f, NEW g,
           \A i \in 1 .. Len(s) + 2 : Strips(f, s, i) /\ Strips(g, s, i)
    PROVE  \A i \in 1 .. Len(s) + 2 : f[i] = g[i]
<1> DEFINE n == Len(s)
           S == {d \in Nat : \A i \in 1 .. n + 2 : n + 2 <= d + i => f[i] = g[i]}
<1>1. n \in Nat
  OBVIOUS
<1>2. 0 \in S
  <2>1. SUFFICES ASSUME NEW i \in 1 .. n + 2, n + 2 <= 0 + i PROVE f[i] = g[i]
    OBVIOUS
  <2>2. i > n
    BY <1>1, <2>1
  <2> QED
    BY <2>2 DEF Strips
<1>3. ASSUME NEW d \in Nat, d \in S PROVE d + 1 \in S
  <2>1. ASSUME NEW i \in 1 .. n + 2, n + 2 <= d + 1 + i PROVE f[i] = g[i]
    <3>1. \A j \in i + 1 .. n + 2 : f[j] = g[j]
      BY <1>1, <1>3, <2>1
    <3> HIDE DEF S
    <3>2. Strips(f, s, i) /\ Strips(g, s, i)
      OBVIOUS
    <3>3. CASE i > n
      BY <3>2, <3>3 DEF Strips
    <3>4. CASE i <= n /\ s[i] = "ESC"
      <4>1. AfterEscape(s, i) \in i + 1 .. n + 2
        BY <1>1, <3>4, AfterEscapeGoesOn
      <4> QED
        BY <3>1, <3>2, <3>4, <4>1 DEF Strips
    <3>5. CASE i <= n /\ s[i] # "ESC"
      <4>1. i + 1 \in i + 1 .. n + 2
        BY <1>1, <3>5
      <4>2. f[i + 1] = g[i + 1]
        BY <3>1, <4>1
      <4> QED
        BY <3>2, <3>5, <4>2 DEF Strips
    <3> QED
      BY <1>1, <3>3, <3>4, <3>5
  <2> QED
    BY <2>1
<1>4. Nat \subseteq S
  <2> HIDE DEF S
  <2> QED
    BY <1>2, <1>3, NaturalInduction
<1>5. ASSUME NEW i \in 1 .. n + 2 PROVE f[i] = g[i]
  <2>1. n + 2 \in Nat /\ n + 2 <= n + 2 + i
    BY <1>1
  <2>2. n + 2 \in S
    <3> HIDE DEF S
    <3> QED
      BY <1>4, <2>1
  <2> QED
    BY <2>1, <2>2
<1> QED
  BY <1>5

\* strip_ansi returns what the reader of its dialect prints, for every text.
LEMMA StripIsDialect ==
    ASSUME NEW s \in Seq(Chars)
    PROVE  Strip(s) = Dialect(s).out
<1> DEFINE Eq(f) == f = [i \in 1 .. Len(s) + 2 |->
            IF i > Len(s) THEN <<>>
            ELSE IF s[i] = "ESC" THEN f[AfterEscape(s, i)]
            ELSE IF s[i] = "CR" THEN f[i + 1]
            ELSE <<s[i]>> \o f[i + 1]]
           from == CHOOSE f : Eq(f)
           g == [i \in 1 .. Len(s) + 2 |-> PrintedFrom(s, i)]
<1>1. \A i \in 1 .. Len(s) + 2 : Strips(g, s, i)
  <2> HIDE DEF g
  <2>1. g = [i \in 1 .. Len(s) + 2 |-> PrintedFrom(s, i)]
    BY DEF g
  <2> QED
    BY <2>1, TerminalStrips
<1>2. Eq(g)
  <2>1. g = [i \in 1 .. Len(s) + 2 |-> g[i]]
    OBVIOUS
  <2> HIDE DEF g
  <2>2. ASSUME NEW i \in 1 .. Len(s) + 2
        PROVE  g[i] = IF i > Len(s) THEN <<>>
                      ELSE IF s[i] = "ESC" THEN g[AfterEscape(s, i)]
                      ELSE IF s[i] = "CR" THEN g[i + 1]
                      ELSE Cat(<<s[i]>>, g[i + 1])
    <3>1. i > Len(s) \/ i <= Len(s)
      OBVIOUS
    <3> QED
      BY <1>1, <3>1, Zenon DEF Strips
  <2> DEFINE h == [i \in 1 .. Len(s) + 2 |->
                      IF i > Len(s) THEN <<>>
                      ELSE IF s[i] = "ESC" THEN g[AfterEscape(s, i)]
                      ELSE IF s[i] = "CR" THEN g[i + 1]
                      ELSE Cat(<<s[i]>>, g[i + 1])]
  <2>3. \A i \in 1 .. Len(s) + 2 : h[i] = g[i]
    BY <2>2, Zenon
  <2>4. h = [i \in 1 .. Len(s) + 2 |-> h[i]]
    OBVIOUS
  <2> HIDE DEF h
  <2>5. g = h
    BY <2>1, <2>3, <2>4, Zenon
  <2> QED
    BY <2>5, Zenon DEF h, Cat
<1>3. PICK f : f = from /\ Eq(f)
  <2>1. Eq(from)
    <3> HIDE DEF Eq, g
    <3> QED
      BY <1>2
  <2> HIDE DEF Eq, from, g
  <2> QED
    BY <2>1
<1>4. Strip(s) = f[1]
  BY <1>3 DEF Strip
<1> HIDE DEF from, g
<1>5. \A i \in 1 .. Len(s) + 2 : Strips(f, s, i)
  <2>1. SUFFICES ASSUME NEW i \in 1 .. Len(s) + 2 PROVE Strips(f, s, i)
    OBVIOUS
  <2>2. f[i] = IF i > Len(s) THEN <<>>
               ELSE IF s[i] = "ESC" THEN f[AfterEscape(s, i)]
               ELSE IF s[i] = "CR" THEN f[i + 1]
               ELSE Cat(<<s[i]>>, f[i + 1])
    BY <1>3, <2>1, Zenon DEF Cat
  <2> HIDE DEF Eq
  <2>3. ~(i > Len(s) /\ i <= Len(s))
    OBVIOUS
  <2>4. "ESC" # "CR"
    OBVIOUS
  <2> QED
    BY <2>2, <2>3, <2>4 DEF Strips
<1>6. f[1] = g[1]
  <2> HIDE DEF Eq
  <2>1. 1 \in 1 .. Len(s) + 2
    OBVIOUS
  <2> QED
    BY <1>1, <1>5, <2>1, StripsAlike
<1>7. g[1] = Dialect(s).out
  <2>1. 1 \in 1 .. Len(s) + 2
    OBVIOUS
  <2> QED
    BY <2>1, PartAll DEF g, PrintedFrom
<1> QED
  BY <1>4, <1>6, <1>7

\* What is stripped is text.
LEMMA StripType == ASSUME NEW s \in Seq(Chars) PROVE Strip(s) \in Seq(Chars)
  BY StripIsDialect, DialectType DEF Readers

\* strip_ansi as a function,
Stripper == [x \in Seq(Chars) |-> Strip(x)]

\* from texts to texts.
LEMMA StripperType == Stripper \in [Seq(Chars) -> Seq(Chars)]
  BY StripType DEF Stripper

\* Chunks that end on the ground are stripped to what the whole is stripped to.
LEMMA ChunksStrip ==
    ASSUME NEW ts \in Seq(Seq(Chars)), \A i \in 1 .. Len(ts) : Dialect(ts[i]).state = "ground"
    PROVE  FlattenSeq(Through(Stripper, ts)) = Strip(FlattenSeq(ts))
<1> DEFINE V == Seq(Chars)
           Whole(x) == /\ FlattenSeq(Through(Stripper, x)) = Strip(FlattenSeq(x))
                       /\ Dialect(FlattenSeq(x)).state = "ground"
           G == {x \in V : Dialect(x).state = "ground"}
           P == {x \in Seq(V) : (\A i \in 1 .. Len(x) : x[i] \in G) => Whole(x)}
<1> DEFINE none == <<>>
<1>1. none \in Seq(Chars) /\ none \in Seq(V) /\ Through(Stripper, none) = none
      /\ FlattenSeq(none) = none /\ Dialect(none).state = "ground" /\ Dialect(none).out = none
  BY ThroughEmpty, FlattenEmpty, DialectEmpty DEF Fresh
<1> HIDE DEF none
<1>2. Strip(none) = none
  BY <1>1, StripIsDialect
<1>3. none \in P
  <2>1. Whole(none)
    BY <1>1, <1>2
  <2> HIDE DEF V, Whole, G
  <2> QED
    BY <1>1, <2>1
<1>4. ASSUME NEW x \in Seq(V), NEW y \in V, x \in P PROVE Put(x, y) \in P
  <2> DEFINE r == Put(x, y)
  <2>1. /\ r \in Seq(V) /\ Len(r) = Len(x) + 1 /\ r[Len(x) + 1] = y
        /\ \A i \in 1 .. Len(x) : r[i] = x[i]
    <3> HIDE DEF V
    <3> QED
      BY DEF Put
  <2>2. ASSUME \A i \in 1 .. Len(r) : r[i] \in G PROVE Whole(r)
    <3>1. y \in G /\ \A i \in 1 .. Len(x) : x[i] \in G
      <4> HIDE DEF G, r, V
      <4>1. Len(x) + 1 \in 1 .. Len(r) /\ \A i \in 1 .. Len(x) : i \in 1 .. Len(r)
        BY <2>1
      <4> QED
        BY <2>1, <2>2, <4>1
    <3>2. Whole(x)
      <4> HIDE DEF G, Whole
      <4> QED
        BY <1>4, <3>1
    <3>3. FlattenSeq(x) \in V /\ Through(Stripper, x) \in Seq(V) /\ Strip(y) \in V
          /\ Stripper[y] = Strip(y)
      <4>1. FlattenSeq(x) \in V
        BY FlattenType
      <4>2. Strip(y) \in V /\ Stripper[y] = Strip(y)
        BY StripType DEF Stripper
      <4> HIDE DEF V
      <4>3. Through(Stripper, x) \in Seq(V)
        BY StripperType, ThroughType DEF V
      <4> QED
        BY <4>1, <4>2, <4>3
    <3>4. FlattenSeq(r) = Cat(FlattenSeq(x), y)
      BY FlattenPut
    <3>5. FlattenSeq(Through(Stripper, r)) = Cat(FlattenSeq(Through(Stripper, x)), Strip(y))
      <4>1. Through(Stripper, r) = Put(Through(Stripper, x), Strip(y))
        <5>1. Stripper \in [V -> V]
          BY StripperType
        <5> HIDE DEF V
        <5> QED
          BY <3>3, <5>1, ThroughPut
      <4> DEFINE w == Through(Stripper, x)
                 z == Strip(y)
      <4>2. w \in Seq(Seq(Chars)) /\ z \in Seq(Chars)
        BY <3>3
      <4> HIDE DEF w, z
      <4>3. FlattenSeq(Put(w, z)) = Cat(FlattenSeq(w), z)
        BY <4>2, FlattenPut
      <4> QED
        BY <4>1, <4>3 DEF w, z
    <3> DEFINE a == FlattenSeq(x)
    <3>6. a \in Seq(Chars) /\ Dialect(a).state = "ground" /\ y \in Seq(Chars)
          /\ Dialect(y).state = "ground"
      BY <3>1, <3>2, <3>3
    <3> HIDE DEF a
    <3>7. Dialect(Cat(a, y)).state = Dialect(y).state
          /\ Dialect(Cat(a, y)).out = Cat(Dialect(a).out, Dialect(y).out)
      BY <3>6, DialectCat
    <3>8. Cat(a, y) \in Seq(Chars)
      BY <3>6, CatType
    <3>9. /\ Strip(Cat(a, y)) = Dialect(Cat(a, y)).out
          /\ Strip(a) = Dialect(a).out /\ Strip(y) = Dialect(y).out
      BY <3>6, <3>8, StripIsDialect
    <3>10. Dialect(FlattenSeq(r)).state = "ground"
      BY <3>4, <3>6, <3>7 DEF a
    <3>11. FlattenSeq(Through(Stripper, r)) = Strip(FlattenSeq(r))
      BY <3>2, <3>4, <3>5, <3>7, <3>9 DEF a
    <3> QED
      BY <3>10, <3>11
  <2> HIDE DEF V, G, r, Whole
  <2>3. r \in P
    BY <2>1, <2>2
  <2> QED
    BY <2>3 DEF r
<1>5. Seq(V) \subseteq P
  <2> HIDE DEF P
  <2> QED
    BY <1>3, <1>4, PutInduction DEF none
<1>6. \A i \in 1 .. Len(ts) : ts[i] \in G
  OBVIOUS
<1>7. ts \in P
  BY <1>5
<1> HIDE DEF V, G
<1> QED
  BY <1>6, <1>7

\* The text of an event.
TextOf == [e \in Events |-> e.text]

\* The texts of a timeline.
LEMMA TextsThrough ==
    ASSUME NEW t \in Seq(Events)
    PROVE  /\ [i \in DOMAIN t |-> t[i].text] = Through(TextOf, t)
           /\ Through(TextOf, t) \in Seq(Seq(Chars))
<1>1. TextOf \in [Events -> Seq(Chars)]
  <2>1. \A e \in Events : e.text \in Seq(Chars)
    BY DEF Events
  <2> QED
    BY <2>1 DEF TextOf
<1>2. \A i \in DOMAIN t : TextOf[t[i]] = t[i].text
  BY DEF TextOf
<1>3. Through(TextOf, t) \in Seq(Seq(Chars))
  BY <1>1, ThroughType
<1>4. [i \in DOMAIN t |-> t[i].text] = Through(TextOf, t)
  BY <1>2, Zenon DEF Through
<1> QED
  BY <1>3, <1>4

\* Texts, stripped.
LEMMA StripsThrough ==
    ASSUME NEW ts \in Seq(Seq(Chars))
    PROVE  [i \in DOMAIN ts |-> Strip(ts[i])] = Through(Stripper, ts)
<1> DEFINE V == Seq(Chars)
<1>1. \A i \in DOMAIN ts : ts[i] \in V
  <2> ts \in Seq(V)
    OBVIOUS
  <2> HIDE DEF V
  <2> QED
    OBVIOUS
<1>2. \A i \in DOMAIN ts : Stripper[ts[i]] = Strip(ts[i])
  BY <1>1, Zenon DEF Stripper
<1> QED
  BY <1>2, Zenon DEF Through

\* What follows for an export, whose events have texts.
LEMMA ExportsStrip ==
    ASSUME TypeOK
    PROVE  StripsLikeATerminal
<1>1. SUFFICES ASSUME exported # NoExport, NEW i \in DOMAIN exported,
                      Stream(exported[i].text).state # "other"
               PROVE  Strip(exported[i].text) = Stream(exported[i].text).out
  BY DEF StripsLikeATerminal
<1>2. exported \in Seq(Events)
  BY <1>1 DEF TypeOK, IsTimeline, Events
<1>3. exported[i] \in Events
  BY <1>1, <1>2
<1>4. exported[i].text \in Seq(Chars)
  BY <1>3 DEF Events
<1> QED
  BY <1>1, <1>4, StripIsDialect, DialectAgrees

\* What follows for the chunks of output of an export.
LEMMA ExportsStripChunks ==
    ASSUME TypeOK
    PROVE  ChunksStripLikeTheWhole
<1> DEFINE outputs == Select(exported, {e \in Range(exported) : e.type = "OUTPUT"})
           texts == [i \in DOMAIN outputs |-> outputs[i].text]
<1>1. SUFFICES ASSUME exported # NoExport,
                      \A i \in DOMAIN texts : Stream(texts[i]).state = "ground"
               PROVE  FlattenSeq([i \in DOMAIN texts |-> Strip(texts[i])])
                         = Strip(FlattenSeq(texts))
  BY DEF ChunksStripLikeTheWhole
<1>2. exported \in Seq(Events)
  BY <1>1 DEF TypeOK, IsTimeline, Events
<1>3. outputs \in Seq(Events)
  BY <1>2, SelectType
<1> HIDE DEF outputs
<1>4. texts \in Seq(Seq(Chars))
  BY <1>3, TextsThrough
<1> HIDE DEF texts
<1>5. DOMAIN texts = 1 .. Len(texts)
  BY <1>4
<1>6. FlattenSeq(Through(Stripper, texts)) = Strip(FlattenSeq(texts))
  <2>1. ASSUME NEW i \in 1 .. Len(texts) PROVE Dialect(texts[i]).state = "ground"
    <3>1. texts[i] \in Seq(Chars) /\ Stream(texts[i]).state = "ground"
      BY <1>1, <1>4, <1>5
    <3> QED
      BY <3>1, DialectAgrees
  <2> QED
    BY <1>4, <2>1, ChunksStrip
<1>7. [i \in DOMAIN texts |-> Strip(texts[i])] = Through(Stripper, texts)
  BY <1>4, StripsThrough
<1> QED
  BY <1>6, <1>7

----------------------------------------------------------------------------
(* Outputs of commands *)

\* The values of the recursion by which Outputs is defined.
IsPushing(f, t, n) ==
    /\ f[0] = [c \in 0 .. n |-> <<>>]
    /\ \A i \in 1 .. n : f[i] = Push(f[i - 1], t[i])

\* The first n events of t push to commands up to n, or to none.
PushesTo(t, n) ==
    \A i \in 1 .. n : t[i] \in Events /\ (t[i].type = "OUTPUT" => t[i].command \in 0 .. n)

\* The loop's body puts a chunk behind its command's output, and leaves the others.
LEMMA PushType ==
    ASSUME NEW n \in Nat, NEW o \in [0 .. n -> Seq(Chars)], NEW e \in Events,
           e.type = "OUTPUT" => e.command \in 0 .. n
    PROVE  /\ Push(o, e) \in [0 .. n -> Seq(Chars)]
           /\ \A c \in 0 .. n : Push(o, e)[c] =
                 IF e.type = "OUTPUT" /\ e.command = c THEN Cat(o[c], Strip(e.text)) ELSE o[c]
<1> DEFINE V == Seq(Chars)
<1>1. Strip(e.text) \in V
  BY StripType DEF Events
<1>2. \A v \in V : Cat(v, Strip(e.text)) \in V
  BY <1>1, CatType
<1>3. o \in [0 .. n -> V]
  OBVIOUS
<1> HIDE DEF V
<1>4. CASE e.type = "OUTPUT"
  <2>1. Push(o, e) = [o EXCEPT ![e.command] = Cat(o[e.command], Strip(e.text))]
    BY <1>4 DEF Push, Cat
  <2>2. e.command \in 0 .. n
    BY <1>4
  <2> DEFINE w == Cat(o[e.command], Strip(e.text))
  <2>3. w \in V
    BY <1>2, <1>3, <2>2
  <2>4. \A c \in 0 .. n : e.command = c => w = Cat(o[c], Strip(e.text))
    OBVIOUS
  <2> HIDE DEF w
  <2>5. Push(o, e) = [o EXCEPT ![e.command] = w]
    BY <2>1 DEF w
  <2>6. /\ Push(o, e) \in [0 .. n -> V]
        /\ \A c \in 0 .. n : Push(o, e)[c] = IF e.command = c THEN w ELSE o[c]
    BY <1>3, <2>2, <2>3, <2>5
  <2> QED
    BY <1>4, <2>4, <2>6 DEF V
<1>5. CASE e.type # "OUTPUT"
  BY <1>3, <1>5 DEF Push, V
<1> QED
  BY <1>4, <1>5

\* Outputs is what its recursion comes to.
LEMMA OutputsUnfold ==
    ASSUME NEW t, NEW n \in Nat, Len(t) = n, PushesTo(t, n)
    PROVE  \E f \in [0 .. n -> [0 .. n -> Seq(Chars)]] : IsPushing(f, t, n) /\ Outputs(t) = f[n]
<1> DEFINE M == [0 .. n -> Seq(Chars)]
           first == [c \in 0 .. n |-> <<>>]
           step == [p \in M \X (1 .. n) |-> Push(p[1], t[p[2]])]
           Eq(f) == f = [i \in 0 .. Len(t) |->
                           IF i = 0 THEN [c \in 0 .. Len(t) |-> <<>>]
                           ELSE Push(f[i - 1], t[i])]
           upTo == CHOOSE f : Eq(f)
<1>1. first \in M
  OBVIOUS
<1>2. \A o \in M, i \in 1 .. n : Push(o, t[i]) \in M
  BY PushType DEF PushesTo
<1> HIDE DEF M
<1>3. step \in [M \X (1 .. n) -> M]
  <2>1. \A p \in M \X (1 .. n) : Push(p[1], t[p[2]]) \in M
    BY <1>2
  <2> QED
    BY <2>1
<1>4. PICK f \in [0 .. n -> M] : IsRecursive(f, n, first, step)
  <2> HIDE DEF step, first
  <2> QED
    BY <1>1, <1>3, RecursionExists
<1>5. \A i \in 1 .. n : f[i] = Push(f[i - 1], t[i])
  <2>1. SUFFICES ASSUME NEW i \in 1 .. n PROVE f[i] = Push(f[i - 1], t[i])
    OBVIOUS
  <2>2. <<f[i - 1], i>> \in M \X (1 .. n)
    <3> HIDE DEF step, first
    <3>1. i - 1 \in 0 .. n
      OBVIOUS
    <3> QED
      BY <3>1
  <2>3. f[i] = step[<<f[i - 1], i>>]
    BY <1>4 DEF IsRecursive
  <2> QED
    BY <2>2, <2>3
<1>6. f[0] = first
  BY <1>4 DEF IsRecursive
<1>7. Eq(f)
  <2>1. f = [i \in 0 .. n |-> f[i]]
    OBVIOUS
  <2>2. \A i \in 0 .. n : i = 0 \/ i \in 1 .. n
    OBVIOUS
  <2> HIDE DEF first, step
  <2>3. \A i \in 0 .. n : f[i] = IF i = 0 THEN first ELSE Push(f[i - 1], t[i])
    BY <1>5, <1>6, <2>2, Zenon
  <2>4. f = [i \in 0 .. n |-> IF i = 0 THEN first ELSE Push(f[i - 1], t[i])]
    BY <2>1, <2>3, Zenon
  <2> QED
    BY <2>4, Zenon DEF first
<1>8. PICK g : g = upTo /\ Eq(g)
  <2>1. Eq(upTo)
    <3> HIDE DEF Eq
    <3> QED
      BY <1>7
  <2> HIDE DEF Eq, upTo
  <2> QED
    BY <2>1
<1>9. Outputs(t) = g[n]
  BY <1>8 DEF Outputs
<1> HIDE DEF upTo, step
<1>10. g[0] = first /\ \A i \in 1 .. n : g[i] = Push(g[i - 1], t[i])
  <2>1. \A i \in 1 .. n : i # 0 /\ i \in 0 .. n
    OBVIOUS
  <2>2. 0 \in 0 .. n
    OBVIOUS
  <2> QED
    BY <1>8, <2>1, <2>2, Zenon
<1> DEFINE S == {i \in Nat : i <= n => g[i] = f[i]}
<1> HIDE DEF Eq, first
<1>11. 0 \in S
  BY <1>6, <1>10
<1>12. ASSUME NEW i \in Nat, i \in S PROVE i + 1 \in S
  <2>1. CASE i + 1 <= n
    <3>1. g[i] = f[i] /\ i + 1 \in 1 .. n /\ i + 1 - 1 = i
      BY <1>12, <2>1
    <3>2. g[i + 1] = Push(g[i], t[i + 1]) /\ f[i + 1] = Push(f[i], t[i + 1])
      BY <1>5, <1>10, <3>1
    <3>3. g[i + 1] = f[i + 1]
      BY <3>1, <3>2
    <3> QED
      BY <3>3
  <2> QED
    BY <2>1
<1>13. Nat \subseteq S
  <2> HIDE DEF S
  <2> QED
    BY <1>11, <1>12, NaturalInduction
<1>14. g[n] = f[n]
  BY <1>13
<1>15. IsPushing(f, t, n)
  BY <1>5, <1>6 DEF IsPushing, first
<1> QED
  BY <1>9, <1>14, <1>15 DEF M

\* The rows of a CSV of n events,
RowsOf(n) == [sequence : 1 .. n, event_type : EventTypes, text : Seq(Chars)]

\* their texts, stripped,
StripsRow(n) == [r \in RowsOf(n) |-> Strip(r.text)]

\* and those that are chunks of the command c, as in MarkdownKeepsTheTimeline.
ChunksOf(t, c) ==
    {r \in Range(Csv(t)) : r.event_type = "OUTPUT" /\ t[r.sequence].command = c}

\* Row i of the CSV is event i.
LEMMA CsvRows ==
    ASSUME NEW n \in Nat, NEW t \in Seq(Events), Len(t) = n
    PROVE  /\ Csv(t) \in Seq(RowsOf(n)) /\ Len(Csv(t)) = n
           /\ \A i \in 1 .. n : /\ Csv(t)[i].sequence = i
                                /\ Csv(t)[i].event_type = t[i].type
                                /\ Csv(t)[i].text = t[i].text
                                /\ Csv(t)[i] \in Range(Csv(t)) /\ Csv(t)[i] \in RowsOf(n)
<1> DEFINE row(i) == [sequence |-> i, event_type |-> t[i].type, text |-> t[i].text]
<1>1. DOMAIN t = 1 .. n /\ \A i \in 1 .. n : t[i] \in Events
  OBVIOUS
<1>2. \A i \in 1 .. n : row(i) \in RowsOf(n)
  BY <1>1 DEF RowsOf, Events
<1>3. \A i \in 1 .. n : row(i).sequence = i /\ row(i).event_type = t[i].type /\ row(i).text = t[i].text
  OBVIOUS
<1> HIDE DEF row
<1>4. Csv(t) = [i \in 1 .. n |-> row(i)]
  BY <1>1 DEF Csv, row
<1>5. Csv(t) \in Seq(RowsOf(n)) /\ Len(Csv(t)) = n /\ \A i \in 1 .. n : Csv(t)[i] = row(i)
  BY <1>2, <1>4
<1>6. \A i \in 1 .. n : Csv(t)[i] \in Range(Csv(t))
  BY <1>5 DEF Range
<1> QED
  BY <1>2, <1>3, <1>5, <1>6

\* A row's text is stripped to text.
LEMMA StripsRowType == \A n \in Nat : StripsRow(n) \in [RowsOf(n) -> Seq(Chars)]
<1>1. \A n \in Nat : \A r \in RowsOf(n) : Strip(r.text) \in Seq(Chars)
  BY StripType DEF RowsOf
<1> QED
  BY <1>1 DEF StripsRow

\* A step of the loop puts the event at the end of its command's output.
LEMMA ChunkPushed ==
    ASSUME NEW n \in Nat, NEW t \in Seq(Events), Len(t) = n, PushesTo(t, n),
           NEW c \in 0 .. n, NEW o \in [0 .. n -> Seq(Chars)],
           NEW j \in Nat, j + 1 <= n,
           o[c] = FlattenSeq(Through(StripsRow(n), Select(Part(Csv(t), 1, j), ChunksOf(t, c))))
    PROVE  Push(o, t[j + 1])[c]
              = FlattenSeq(Through(StripsRow(n), Select(Part(Csv(t), 1, j + 1), ChunksOf(t, c))))
<1> DEFINE csv == Csv(t)
           i == j + 1
           x == csv[i]
           a == Part(csv, 1, j)
           T == ChunksOf(t, c)
           D == RowsOf(n)
           g == StripsRow(n)
<1>1. i \in 1 .. n /\ i \in Nat /\ t[i] \in Events /\ 1 \in Nat /\ 1 <= 1 /\ 1 <= i
  OBVIOUS
<1>2. csv \in Seq(D) /\ Len(csv) = n /\ x \in D /\ x \in Range(csv)
      /\ x.sequence = i /\ x.event_type = t[i].type /\ x.text = t[i].text
  <2> HIDE DEF i
  <2> QED
    BY <1>1, CsvRows
<1>3. x \in T <=> t[i].type = "OUTPUT" /\ t[i].command = c
  <2> HIDE DEF i, csv
  <2> QED
    BY <1>2 DEF ChunksOf, csv
<1> HIDE DEF csv, x, T
<1>4. a \in Seq(D) /\ Part(csv, 1, i) = Put(a, x)
  <2>1. a \in Seq(D)
    BY <1>2, PartType
  <2>2. Part(csv, 1, j + 1) = Put(Part(csv, 1, j), csv[j + 1])
    <3>1. j + 1 <= Len(csv) /\ 1 <= j + 1
      BY <1>1, <1>2
    <3> QED
      BY <1>1, <1>2, <3>1, PartPut
  <2> QED
    BY <2>1, <2>2 DEF x
<1> HIDE DEF a, D
<1>5. /\ Select(a, T) \in Seq(D)
      /\ Select(Put(a, x), T) = IF x \in T THEN Put(Select(a, T), x) ELSE Select(a, T)
  <2>1. Select(a, T) \in Seq(D)
    BY <1>4, SelectType
  <2>2. Select(Put(a, x), T) = IF x \in T THEN Put(Select(a, T), x) ELSE Select(a, T)
    BY <1>2, <1>4, SelectPut
  <2> QED
    BY <2>1, <2>2
<1>6. g \in [D -> Seq(Chars)] /\ g[x] = Strip(t[i].text)
  <2>1. g \in [D -> Seq(Chars)]
    BY StripsRowType DEF D
  <2>2. g[x] = Strip(x.text)
    BY <1>2 DEF StripsRow, D
  <2> QED
    BY <1>2, <2>1, <2>2
<1> HIDE DEF g, i
<1> DEFINE d == Select(a, T)
           e == Through(g, d)
<1>7. d \in Seq(D) /\ e \in Seq(Seq(Chars)) /\ Through(g, Put(d, x)) = Put(e, g[x])
      /\ g[x] \in Seq(Chars)
  <2>1. d \in Seq(D)
    BY <1>5
  <2> HIDE DEF d
  <2> DEFINE V == Seq(Chars)
  <2>2. g \in [D -> V] /\ x \in D
    BY <1>2, <1>6
  <2> HIDE DEF V
  <2>3. Through(g, d) \in Seq(V) /\ Through(g, Put(d, x)) = Put(Through(g, d), g[x])
    <3>1. Through(g, d) \in Seq(V)
      BY <2>1, <2>2, ThroughType
    <3>2. Through(g, Put(d, x)) = Put(Through(g, d), g[x])
      BY <2>1, <2>2, ThroughPut
    <3> QED
      BY <3>1, <3>2
  <2>4. e \in Seq(Seq(Chars)) /\ Through(g, Put(d, x)) = Put(e, g[x])
    BY <2>3 DEF V
  <2> QED
    BY <1>2, <1>6, <2>1, <2>4
<1> HIDE DEF e, d
<1>8. FlattenSeq(Put(e, g[x])) = Cat(FlattenSeq(e), g[x])
  BY <1>7, FlattenPut
<1>9. Push(o, t[i])[c] = IF t[i].type = "OUTPUT" /\ t[i].command = c
                         THEN Cat(o[c], Strip(t[i].text)) ELSE o[c]
  <2>1. t[i].type = "OUTPUT" => t[i].command \in 0 .. n
    BY <1>1 DEF PushesTo
  <2> DEFINE v == t[i]
  <2>2. v \in Events /\ (v.type = "OUTPUT" => v.command \in 0 .. n)
    BY <1>1, <2>1
  <2> HIDE DEF v
  <2>4. \A b \in 0 .. n : Push(o, v)[b] = IF v.type = "OUTPUT" /\ v.command = b
                        THEN Cat(o[b], Strip(v.text)) ELSE o[b]
    BY <2>2, PushType
  <2>3. Push(o, v)[c] = IF v.type = "OUTPUT" /\ v.command = c
                        THEN Cat(o[c], Strip(v.text)) ELSE o[c]
    BY <2>4
  <2> QED
    BY <2>3 DEF v
<1>10. o[c] = FlattenSeq(e)
  BY DEF e, d, g, a, T, csv
<1>11. FlattenSeq(Through(g, Select(Put(a, x), T)))
          = IF x \in T THEN Cat(FlattenSeq(e), g[x]) ELSE FlattenSeq(e)
  <2>1. Select(Put(a, x), T) = IF x \in T THEN Put(d, x) ELSE d
    BY <1>5 DEF d
  <2>2. Through(g, d) = e
    BY DEF e
  <2> QED
    BY <1>7, <1>8, <2>1, <2>2, Zenon
<1>12. Push(o, t[i])[c] = FlattenSeq(Through(g, Select(Part(csv, 1, i), T)))
  BY <1>3, <1>4, <1>6, <1>9, <1>10, <1>11, Zenon
<1> QED
  BY <1>12 DEF g, csv, T, i

\* What is pushed for a command is its chunks, stripped, in their order.
LEMMA OutputsAre ==
    ASSUME NEW n \in Nat, NEW t \in Seq(Events), Len(t) = n, PushesTo(t, n)
    PROVE  \A c \in 0 .. n :
              /\ Outputs(t)[c] \in Seq(Chars)
              /\ Outputs(t)[c] = FlattenSeq(Through(StripsRow(n), Select(Csv(t), ChunksOf(t, c))))
<1>1. PICK f \in [0 .. n -> [0 .. n -> Seq(Chars)]] : IsPushing(f, t, n) /\ Outputs(t) = f[n]
  BY OutputsUnfold
<1>2. SUFFICES ASSUME NEW c \in 0 .. n
               PROVE  /\ Outputs(t)[c] \in Seq(Chars)
                      /\ Outputs(t)[c] = FlattenSeq(Through(StripsRow(n), Select(Csv(t), ChunksOf(t, c))))
  OBVIOUS
<1> DEFINE Gathered(j) ==
              FlattenSeq(Through(StripsRow(n), Select(Part(Csv(t), 1, j), ChunksOf(t, c))))
           S == {j \in Nat : j <= n => f[j][c] = Gathered(j)}
<1>3. Csv(t) \in Seq(RowsOf(n)) /\ Len(Csv(t)) = n
  BY CsvRows
<1>4. 0 \in S
  <2>1. Part(Csv(t), 1, 0) = <<>>
    BY <1>3, PartEmpty
  <2>2. Gathered(0) = <<>>
    BY <2>1, SelectEmpty, ThroughEmpty, FlattenEmpty
  <2>3. f[0][c] = <<>>
    BY <1>1 DEF IsPushing
  <2> HIDE DEF Gathered
  <2> QED
    BY <2>2, <2>3
<1>5. ASSUME NEW j \in Nat, j \in S PROVE j + 1 \in S
  <2>1. ASSUME j + 1 <= n PROVE f[j + 1][c] = Gathered(j + 1)
    <3>1. j \in 0 .. n /\ j + 1 \in 1 .. n /\ j + 1 - 1 = j /\ f[j] \in [0 .. n -> Seq(Chars)]
      BY <2>1
    <3>2. f[j][c] = Gathered(j)
      <4> HIDE DEF Gathered
      <4> QED
        BY <1>5, <3>1
    <3>3. f[j + 1] = Push(f[j], t[j + 1])
      BY <1>1, <3>1 DEF IsPushing
    <3>4. Push(f[j], t[j + 1])[c] = Gathered(j + 1)
      BY <2>1, <3>1, <3>2, ChunkPushed
    <3> HIDE DEF Gathered
    <3> QED
      BY <3>3, <3>4
  <2> HIDE DEF Gathered
  <2>2. j + 1 \in Nat
    OBVIOUS
  <2> QED
    BY <2>1, <2>2
<1>6. Nat \subseteq S
  <2> HIDE DEF S
  <2> QED
    BY <1>4, <1>5, NaturalInduction
<1> HIDE DEF Gathered
<1>7. f[n][c] = Gathered(n)
  BY <1>6
<1>8. Part(Csv(t), 1, n) = Csv(t)
  BY <1>3, PartAll
<1>9. Outputs(t)[c] \in Seq(Chars)
  BY <1>1
<1> QED
  BY <1>1, <1>7, <1>8, <1>9 DEF Gathered

\* Trimming loses blanks only.
LEMMA TrimKeepsPrinted ==
    ASSUME NEW s \in Seq(Chars)
    PROVE  Printed(TrimEnd(s)) = Printed(s)
<1> DEFINE n == Len(s)
           T == {i \in DOMAIN s : s[i] \notin Blank}
           m == CHOOSE i \in T : \A j \in T : j <= i
           C == Chars \ Blank
<1>1. n \in Nat /\ DOMAIN s = 1 .. n
  OBVIOUS
<1>2. CASE T = {}
  <2>1. s \in Seq(Blank)
    BY <1>2
  <2>2. Select(s, C) = <<>>
    BY <2>1, SelectNone
  <2>3. TrimEnd(s) = <<>>
    BY <1>2 DEF TrimEnd
  <2>4. Select(<<>>, C) = <<>>
    BY SelectEmpty
  <2> QED
    BY <2>2, <2>3, <2>4 DEF Printed
<1>3. CASE T # {}
  <2>1. m \in T /\ \A j \in T : j <= m
    <3>1. T \subseteq 1 .. n
      BY <1>1
    <3> HIDE DEF T, n
    <3>2. \E i \in T : \A j \in T : j <= i
      BY <1>1, <1>3, <3>1, LastPlace
    <3> QED
      BY <3>2
  <2>2. TrimEnd(s) = Part(s, 1, m)
    BY <1>3 DEF TrimEnd, Part
  <2>3. m \in 1 .. n /\ \A j \in m + 1 .. n : s[j] \in Blank
    <3> HIDE DEF m
    <3>1. m \in 1 .. n
      BY <1>1, <2>1
    <3>2. ASSUME NEW j \in m + 1 .. n PROVE s[j] \in Blank
      BY <1>1, <2>1, <3>1
    <3> QED
      BY <3>1, <3>2
  <2> HIDE DEF m, T
  <2>4. m \in Nat /\ 1 \in Nat /\ 1 <= 1 /\ 1 <= m + 1 /\ m <= Len(s) /\ m + 1 \in Nat
        /\ 1 <= m + 1 /\ m + 1 <= Len(s) + 1 /\ Len(s) \in Nat /\ Len(s) <= Len(s)
    BY <1>1, <2>3
  <2> DEFINE a == Part(s, 1, m)
             b == Part(s, m + 1, Len(s))
  <2>5. Cat(a, b) = s
    <3>1. Cat(Part(s, 1, m), Part(s, m + 1, Len(s))) = Part(s, 1, Len(s))
      BY <2>4, PartCat
    <3> QED
      BY <3>1, PartAll
  <2>6. a \in Seq(Chars) /\ b \in Seq(Chars)
    BY <2>4, PartType
  <2>7. b \in Seq(Blank)
    <3> DEFINE i == m + 1
               j == Len(s)
    <3>5. i \in Nat /\ j \in Nat /\ 1 <= i /\ i <= j + 1 /\ j <= Len(s)
      BY <2>4
    <3> HIDE DEF i, j
    <3>6. /\ Len(Part(s, i, j)) = j - i + 1
          /\ \A k \in 1 .. j - i + 1 : Part(s, i, j)[k] = s[i + k - 1]
      BY <3>5, PartElements
    <3>1. Len(b) = Len(s) - (m + 1) + 1
          /\ \A k \in 1 .. Len(s) - (m + 1) + 1 : b[k] = s[m + 1 + k - 1]
      BY <3>6 DEF i, j
    <3> HIDE DEF b
    <3>2. \A k \in 1 .. Len(b) : m + 1 + k - 1 \in m + 1 .. Len(s)
      <4> DEFINE p == Len(s)
                 q == Len(b)
      <4>1. q = p - (m + 1) + 1
        BY <3>1
      <4>3. p \in Nat /\ m \in Nat
        BY <2>4
      <4> HIDE DEF p, q
      <4>2. \A k \in 1 .. q : m + 1 + k - 1 \in m + 1 .. p
        BY <4>1, <4>3
      <4> QED
        BY <4>2 DEF p, q
    <3>4. \A k \in 1 .. Len(b) : k \in 1 .. Len(s) - (m + 1) + 1
      BY <3>1
    <3>3. \A k \in 1 .. Len(b) : b[k] \in Blank
      <4>1. SUFFICES ASSUME NEW k \in 1 .. Len(b) PROVE b[k] \in Blank
        OBVIOUS
      <4>2. b[k] = s[m + 1 + k - 1]
        BY <3>1, <3>4
      <4>3. s[m + 1 + k - 1] \in Blank
        BY <1>1, <2>3, <3>2
      <4> QED
        BY <4>2, <4>3
    <3> QED
      BY <2>6, <3>3
  <2> HIDE DEF a, b
  <2>8. Select(Cat(a, b), C) = Cat(Select(a, C), Select(b, C))
    <3> HIDE DEF C
    <3> QED
      BY <2>6, SelectCat
  <2>9. Select(b, C) = <<>>
    BY <2>7, SelectNone
  <2>10. Select(a, C) \in Seq(Chars)
    <3> HIDE DEF C
    <3> QED
      BY <2>6, SelectType
  <2> HIDE DEF C
  <2>11. Select(Cat(a, b), C) = Select(a, C)
    BY <2>8, <2>9, <2>10, CatEmpty
  <2> QED
    BY <2>2, <2>5, <2>11 DEF Printed, C, a
<1> QED
  BY <1>2, <1>3

----------------------------------------------------------------------------
(* Markdown *)

\* OutputOf in MarkdownKeepsTheTimeline.
Gathered(t, c) ==
    LET chunks == Select(Csv(t), ChunksOf(t, c))
    IN Printed(FlattenSeq([k \in DOMAIN chunks |-> Strip(chunks[k].text)]))

\* Markdown in parts: the output without a command,
Orphan(t) == TrimEnd(Outputs(t)[0])

\* its section,
OrphanSection(t) == [event |-> 0, text |-> <<>>, output |-> Orphan(t)]

\* which is there if it has a text;
Orphans(t) == IF Orphan(t) = <<>> THEN <<>> ELSE <<OrphanSection(t)>>

\* the places of the events,
Places(t) == [i \in DOMAIN t |-> i]

\* those of the rendered ones,
Shown(t) == Select(Places(t), {i \in DOMAIN t : t[i].type \in Rendered})

\* and their sections.
Body(t) == [k \in DOMAIN Shown(t) |-> Section(t, Shown(t)[k])]

\* These make up the Markdown.
LEMMA MarkdownIs == ASSUME NEW t PROVE Markdown(t) = Cat(Orphans(t), Body(t))
  BY Zenon DEF Markdown, Cat, Orphans, OrphanSection, Orphan, Places, Shown, Body

\* A timeline pushes to its own commands.
LEMMA TimelinePushes ==
    ASSUME NEW n \in Nat, NEW t, IsTimeline(t), Len(t) = n
    PROVE  t \in Seq(Events) /\ PushesTo(t, n)
<1>1. t \in Seq(Events) /\ DOMAIN t = 1 .. n
  BY DEF IsTimeline, Events
<1>2. ASSUME NEW i \in 1 .. n PROVE t[i] \in Events /\ (t[i].type = "OUTPUT" => t[i].command \in 0 .. n)
  <2>1. t[i] \in Events
    BY <1>1
  <2>2. t[i].type = "OUTPUT" /\ t[i].command # 0 => t[i].command \in 1 .. i - 1
    BY <1>1 DEF IsTimeline
  <2> QED
    BY <2>1, <2>2
<1> QED
  BY <1>1, <1>2 DEF PushesTo

\* The text a command's chunks have in sum is what the loop gathered for it.
LEMMA GatheredIs ==
    ASSUME NEW n \in Nat, NEW t, IsTimeline(t), Len(t) = n, NEW c \in 0 .. n
    PROVE  Gathered(t, c) = Printed(Outputs(t)[c]) /\ Outputs(t)[c] \in Seq(Chars)
<1> DEFINE chunks == Select(Csv(t), ChunksOf(t, c))
<1>1. t \in Seq(Events) /\ PushesTo(t, n)
  BY TimelinePushes
<1>2. /\ Outputs(t)[c] \in Seq(Chars)
      /\ Outputs(t)[c] = FlattenSeq(Through(StripsRow(n), chunks))
  BY <1>1, OutputsAre
<1>3. chunks \in Seq(RowsOf(n))
  <2>1. Csv(t) \in Seq(RowsOf(n))
    BY <1>1, CsvRows
  <2> QED
    BY <2>1, SelectType
<1> HIDE DEF chunks
<1>4. \A k \in DOMAIN chunks : StripsRow(n)[chunks[k]] = Strip(chunks[k].text)
  <2>1. \A k \in DOMAIN chunks : chunks[k] \in RowsOf(n)
    BY <1>3
  <2> QED
    BY <2>1, Zenon DEF StripsRow
<1>5. [k \in DOMAIN chunks |-> Strip(chunks[k].text)] = Through(StripsRow(n), chunks)
  BY <1>4, Zenon DEF Through
<1>6. Gathered(t, c) = Printed(FlattenSeq([k \in DOMAIN chunks |-> Strip(chunks[k].text)]))
  BY DEF Gathered, chunks
<1> QED
  BY <1>2, <1>5, <1>6

\* What is not a command has no output.
LEMMA NothingGathered ==
    ASSUME NEW n \in Nat, NEW t, IsTimeline(t), Len(t) = n,
           NEW c \in 1 .. n, t[c].type # "COMMAND"
    PROVE  Gathered(t, c) = <<>>
<1>1. t \in Seq(Events) /\ PushesTo(t, n) /\ DOMAIN t = 1 .. n
  BY TimelinePushes
<1>2. Csv(t) \in Seq(RowsOf(n)) /\ Len(Csv(t)) = n
  BY <1>1, CsvRows
<1>3. ChunksOf(t, c) = {}
  <2>1. SUFFICES ASSUME NEW r \in Range(Csv(t)), r.event_type = "OUTPUT",
                        t[r.sequence].command = c
                 PROVE  FALSE
    BY DEF ChunksOf
  <2>2. PICK i \in 1 .. n : r = Csv(t)[i]
    BY <1>2 DEF Range
  <2>3. r.sequence = i /\ r.event_type = t[i].type
    BY <1>1, <2>2, CsvRows
  <2>4. t[i].type = "OUTPUT" /\ t[i].command = c /\ c # 0
    BY <2>1, <2>3
  <2>5. t[t[i].command].type = "COMMAND"
    BY <1>1, <2>4 DEF IsTimeline
  <2> QED
    BY <2>4, <2>5
<1> DEFINE csv == Csv(t)
           T == ChunksOf(t, c)
           D == RowsOf(n)
<1>4. Select(csv, T) = <<>>
  <2>1. csv \in Seq(D) /\ D \cap T = {}
    BY <1>2, <1>3
  <2> HIDE DEF csv, T, D
  <2> QED
    BY <2>1, SelectNone
<1> DEFINE none == <<>>
<1>5. [k \in DOMAIN none |-> Strip(none[k].text)] = none
  OBVIOUS
<1>6. Printed(FlattenSeq(none)) = none
  BY FlattenEmpty, SelectEmpty DEF Printed
<1> HIDE DEF none
<1>7. Select(csv, T) = none
  BY <1>4 DEF none
<1>8. Gathered(t, c) = none
  BY <1>5, <1>6, <1>7 DEF Gathered
<1> QED
  BY <1>8 DEF none

\* What is shown are places of the timeline.
LEMMA ShownPlaces ==
    ASSUME NEW n \in Nat, NEW t \in Seq(Events), Len(t) = n
    PROVE  Shown(t) \in Seq(1 .. n)
<1>1. Places(t) \in Seq(1 .. n)
  BY DEF Places
<1> QED
  BY <1>1, SelectType DEF Shown

\* The places that are shown are those of the rows that are rendered.
LEMMA RowsShown ==
    ASSUME NEW n \in Nat, NEW t \in Seq(Events), Len(t) = n,
           NEW rendered, rendered = Select(Csv(t), {r \in Range(Csv(t)) : r.event_type \in Rendered})
    PROVE  [k \in DOMAIN rendered |-> rendered[k].sequence] = Shown(t)
<1> DEFINE csv == Csv(t)
           D == Range(csv)
           U == {r \in D : r.event_type \in Rendered}
           T == {i \in DOMAIN t : t[i].type \in Rendered}
           g == [r \in D |-> r.sequence]
<1>1. /\ csv \in Seq(RowsOf(n)) /\ Len(csv) = n
      /\ \A i \in 1 .. n : csv[i].sequence = i /\ csv[i].event_type = t[i].type /\ csv[i] \in D
  BY CsvRows
<1>2. DOMAIN t = 1 .. n /\ DOMAIN csv = 1 .. n /\ csv = [i \in 1 .. n |-> csv[i]]
  BY <1>1
<1> HIDE DEF csv
<1>3. \A x \in D : \E i \in 1 .. n : x = csv[i]
  BY <1>2 DEF Range
<1>4. csv \in Seq(D)
  BY <1>1, <1>2
<1>5. g \in [D -> 1 .. n]
  <2>1. \A x \in D : x.sequence \in 1 .. n
    <3>1. SUFFICES ASSUME NEW x \in D PROVE x.sequence \in 1 .. n
      OBVIOUS
    <3>2. PICK i \in 1 .. n : x = csv[i]
      BY <1>3
    <3> QED
      BY <1>1, <3>2
  <2> HIDE DEF D
  <2> QED
    BY <2>1
<1>6. \A x \in D : x \in U <=> g[x] \in T
  <2>1. SUFFICES ASSUME NEW x \in D PROVE x \in U <=> g[x] \in T
    OBVIOUS
  <2>2. PICK i \in 1 .. n : x = csv[i]
    BY <1>3
  <2>3. x.sequence = i /\ x.event_type = t[i].type /\ i \in DOMAIN t /\ g[x] = i
    BY <1>1, <1>2, <2>2
  <2> HIDE DEF D, g
  <2> QED
    BY <2>3
<1>7. Through(g, csv) = Places(t)
  <2>1. \A i \in 1 .. n : g[csv[i]] = i
    BY <1>1
  <2> HIDE DEF g
  <2> QED
    BY <1>2, <2>1 DEF Through, Places
<1>8. Select(Through(g, csv), T) = Through(g, Select(csv, U))
  <2> HIDE DEF D, U, T, g
  <2> QED
    BY <1>4, <1>5, <1>6, SelectThrough
<1>9. rendered = Select(csv, U)
  BY DEF csv
<1>10. rendered \in Seq(D)
  <2> HIDE DEF D, U
  <2> QED
    BY <1>4, <1>9, SelectType
<1>11. \A k \in DOMAIN rendered : g[rendered[k]] = rendered[k].sequence
  <2> HIDE DEF D
  <2>1. \A k \in DOMAIN rendered : rendered[k] \in D
    BY <1>10
  <2> QED
    BY <2>1, Zenon
<1>12. Through(g, rendered) = [k \in DOMAIN rendered |-> rendered[k].sequence]
  <2> HIDE DEF g
  <2> QED
    BY <1>11, Zenon DEF Through
<1> HIDE DEF g, D, U
<1> QED
  BY <1>7, <1>8, <1>9, <1>12 DEF Shown

\* A section for each place that is shown, in their order.
LEMMA BodySections ==
    ASSUME NEW n \in Nat, NEW t \in Seq(Events), Len(t) = n
    PROVE  /\ DOMAIN Body(t) = 1 .. Len(Shown(t)) /\ Len(Body(t)) = Len(Shown(t))
           /\ Body(t) \in Seq({Section(t, i) : i \in 1 .. n})
           /\ \A k \in 1 .. Len(Shown(t)) :
                 /\ Shown(t)[k] \in 1 .. n
                 /\ Body(t)[k] = Section(t, Shown(t)[k])
                 /\ Body(t)[k].event = Shown(t)[k]
<1> DEFINE shown == Shown(t)
           m == Len(shown)
<1>1. shown \in Seq(1 .. n)
  BY ShownPlaces
<1> HIDE DEF shown
<1>2. DOMAIN shown = 1 .. m /\ m \in Nat /\ \A k \in 1 .. m : shown[k] \in 1 .. n
  BY <1>1
<1>3. Body(t) = [k \in 1 .. m |-> Section(t, shown[k])]
  BY <1>2 DEF Body, shown
<1>4. \A k \in 1 .. m : Section(t, shown[k]).event = shown[k]
  BY DEF Section
<1> HIDE DEF m
<1>5. /\ DOMAIN Body(t) = 1 .. m /\ Len(Body(t)) = m
      /\ \A k \in 1 .. m : Body(t)[k] = Section(t, shown[k])
  BY <1>2, <1>3
<1>6. Body(t) \in Seq({Section(t, i) : i \in 1 .. n})
  BY <1>2, <1>3
<1> QED
  BY <1>2, <1>4, <1>5, <1>6 DEF shown, m

\* Each section is of output without a command or of an event; the former is first.
LEMMA SectionsAt ==
    ASSUME NEW n \in Nat, NEW t \in Seq(Events), Len(t) = n
    PROVE  /\ \A k \in DOMAIN Markdown(t) :
                 \/ Markdown(t)[k] = OrphanSection(t)
                 \/ \E i \in 1 .. n : Markdown(t)[k] = Section(t, i)
           /\ \A k \in 1 .. Len(Body(t)) : Body(t)[k] \in Range(Markdown(t))
           /\ Orphan(t) # <<>> => Markdown(t)[1] = OrphanSection(t)
<1> DEFINE a == Orphans(t)
           b == Body(t)
           d == Markdown(t)
           S == {Section(t, i) : i \in 1 .. n}
           o == OrphanSection(t)
           E == S \cup {o}
<1>1. b \in Seq(S)
  BY BodySections
<1>2. (a = <<>> /\ Orphan(t) = <<>>) \/ a = <<o>>
  BY DEF Orphans
<1>3. d = Cat(a, b)
  BY MarkdownIs
<1> HIDE DEF a, b, d, S, o
<1>4. a \in Seq(E) /\ b \in Seq(E)
  <2>1. S \subseteq E /\ o \in E /\ b \in Seq(S)
    BY <1>1
  <2> HIDE DEF E
  <2>2. b \in Seq(E)
    BY <2>1
  <2>3. <<>> \in Seq(E) /\ <<o>> \in Seq(E)
    BY <2>1
  <2> QED
    BY <1>2, <2>2, <2>3
<1>5. (\A k \in 1 .. Len(b) : b[k] \in S) /\ (\A k \in 1 .. Len(a) : a[k] = o)
  BY <1>1, <1>2
<1> HIDE DEF E
<1>6. Joins(d, a, b) /\ d \in Seq(E)
  <2>1. Joins(Cat(a, b), a, b)
    BY <1>4, CatJoins
  <2>2. Cat(a, b) \in Seq(E)
    BY <1>4, CatType
  <2> QED
    BY <1>3, <2>1, <2>2
<1> DEFINE p == Len(a)
           q == Len(b)
<1>7. p \in Nat /\ q \in Nat /\ DOMAIN d = 1 .. p + q
  BY <1>4, <1>6 DEF Joins
<1>8. (\A k \in 1 .. p : d[k] = a[k]) /\ (\A k \in 1 .. q : d[p + k] = b[k])
  BY <1>6 DEF Joins
<1>9. (\A k \in 1 .. q : b[k] \in S) /\ (\A k \in 1 .. p : a[k] = o)
  BY <1>5
<1>10. Orphan(t) # <<>> => p = 1
  BY <1>2
<1> HIDE DEF p, q
<1>11. ASSUME NEW k \in DOMAIN d PROVE d[k] = o \/ d[k] \in S
  <2>1. CASE k \in 1 .. p
    BY <1>8, <1>9, <2>1
  <2>2. CASE k \notin 1 .. p
    <3>1. k - p \in 1 .. q /\ p + (k - p) = k
      BY <1>7, <2>2
    <3>2. d[p + (k - p)] = b[k - p] /\ b[k - p] \in S
      BY <1>8, <1>9, <3>1
    <3> QED
      BY <3>1, <3>2
  <2> QED
    BY <2>1, <2>2
<1>12. ASSUME NEW k \in 1 .. q PROVE b[k] \in Range(d)
  <2>1. p + k \in DOMAIN d
    BY <1>7
  <2> QED
    BY <1>8, <2>1 DEF Range
<1>13. Orphan(t) # <<>> => d[1] = o
  BY <1>8, <1>9, <1>10
<1> QED
  BY <1>11, <1>12, <1>13 DEF d, b, o, S, q

\* The sections of events are those for the places that are shown.
LEMMA EventSections ==
    ASSUME NEW n \in Nat, NEW t \in Seq(Events), Len(t) = n
    PROVE  Select(Markdown(t), {s \in Range(Markdown(t)) : s.event # 0}) = Body(t)
<1> DEFINE a == Orphans(t)
           b == Body(t)
           d == Markdown(t)
           S == {Section(t, i) : i \in 1 .. n}
           o == OrphanSection(t)
           E == S \cup {o}
           T == {s \in Range(d) : s.event # 0}
<1>1. b \in Seq(S) /\ \A k \in 1 .. Len(b) : b[k].event # 0 /\ b[k] \in Range(d)
  <2>1. b \in Seq(S) /\ Len(b) = Len(Shown(t))
    BY BodySections
  <2>2. \A k \in 1 .. Len(b) : b[k].event \in 1 .. n
    BY <2>1, BodySections
  <2>3. \A k \in 1 .. Len(b) : b[k] \in Range(d)
    BY SectionsAt
  <2> QED
    BY <2>1, <2>2, <2>3
<1>2. a = <<>> \/ a = <<o>>
  BY DEF Orphans
<1>3. d = Cat(a, b)
  BY MarkdownIs
<1>4. o \notin T
  BY DEF OrphanSection
<1> HIDE DEF a, b, d, S, o
<1>5. a \in Seq(E) /\ b \in Seq(E)
  <2>1. S \subseteq E /\ o \in E /\ b \in Seq(S)
    BY <1>1
  <2> HIDE DEF E
  <2>2. b \in Seq(E)
    BY <2>1
  <2>3. <<>> \in Seq(E) /\ <<o>> \in Seq(E)
    BY <2>1
  <2> QED
    BY <1>2, <2>2, <2>3
<1>6. b \in Seq(T)
  <2>1. \A k \in 1 .. Len(b) : b[k] \in T
    BY <1>1
  <2> HIDE DEF T
  <2> QED
    BY <1>1, <2>1
<1> HIDE DEF E, T
<1>7. Select(d, T) = Cat(Select(a, T), Select(b, T))
  <2>1. Select(Cat(a, b), T) = Cat(Select(a, T), Select(b, T))
    BY <1>5, SelectCat
  <2> QED
    BY <1>3, <2>1
<1>8. Select(a, T) = <<>>
  BY <1>2, <1>4, SelectEmpty, SelectOne
<1>9. Select(b, T) = b
  BY <1>6, SelectAll
<1>10. Select(d, T) = b
  BY <1>5, <1>7, <1>8, <1>9, CatEmpty
<1> QED
  BY <1>10 DEF T, d, b

\* Each section has the printed output of its command.
LEMMA SectionsTell ==
    ASSUME NEW n \in Nat, NEW t, IsTimeline(t), Len(t) = n, NEW k \in DOMAIN Markdown(t)
    PROVE  Printed(Markdown(t)[k].output) = Gathered(t, Markdown(t)[k].event)
<1>1. t \in Seq(Events)
  BY TimelinePushes
<1> DEFINE s == Markdown(t)[k]
<1>2. s = OrphanSection(t) \/ \E i \in 1 .. n : s = Section(t, i)
  BY <1>1, SectionsAt
<1> HIDE DEF s
<1>3. \A c \in 0 .. n : Printed(TrimEnd(Outputs(t)[c])) = Gathered(t, c)
  <2>1. SUFFICES ASSUME NEW c \in 0 .. n
                 PROVE  Printed(TrimEnd(Outputs(t)[c])) = Gathered(t, c)
    OBVIOUS
  <2>2. Gathered(t, c) = Printed(Outputs(t)[c]) /\ Outputs(t)[c] \in Seq(Chars)
    BY GatheredIs
  <2> QED
    BY <2>2, TrimKeepsPrinted
<1>4. CASE s = OrphanSection(t)
  <2>1. s.event = 0 /\ s.output = TrimEnd(Outputs(t)[0])
    BY <1>4 DEF OrphanSection, Orphan
  <2>2. 0 \in 0 .. n
    OBVIOUS
  <2> QED
    BY <1>3, <2>1, <2>2 DEF s
<1>5. ASSUME NEW i \in 1 .. n, s = Section(t, i)
      PROVE  Printed(s.output) = Gathered(t, s.event)
  <2>1. s.event = i
        /\ s.output = IF t[i].type = "COMMAND" THEN TrimEnd(Outputs(t)[i]) ELSE <<>>
    BY <1>5 DEF Section
  <2>2. i \in 0 .. n
    OBVIOUS
  <2>3. CASE t[i].type = "COMMAND"
    BY <1>3, <2>1, <2>2, <2>3
  <2>4. CASE t[i].type # "COMMAND"
    <3>1. Gathered(t, i) = <<>>
      BY <2>4, NothingGathered
    <3>2. Printed(<<>>) = <<>>
      BY SelectEmpty DEF Printed
    <3> QED
      BY <2>1, <2>4, <3>1, <3>2
  <2> QED
    BY <2>3, <2>4
<1> QED
  BY <1>2, <1>4, <1>5 DEF s

\* All of this for the export.
LEMMA ExportsKeep ==
    ASSUME TypeOK
    PROVE  MarkdownKeepsTheTimeline
<1> SUFFICES ASSUME exported # NoExport PROVE MarkdownKeepsTheTimeline
  BY DEF MarkdownKeepsTheTimeline
<1> DEFINE t == exported
           n == Len(t)
           csv == Csv(t)
           markdown == Markdown(t)
           rendered == Select(csv, {r \in Range(csv) : r.event_type \in Rendered})
           sections == Select(markdown, {s \in Range(markdown) : s.event # 0})
<1>1. IsTimeline(t) /\ t \in Seq(Events) /\ n \in Nat
  BY DEF TypeOK, IsTimeline, Events
<1>2. [k \in DOMAIN sections |-> sections[k].event]
         = [k \in DOMAIN rendered |-> rendered[k].sequence]
  <2>1. sections = Body(t)
    BY <1>1, EventSections
  <2>2. [k \in DOMAIN rendered |-> rendered[k].sequence] = Shown(t)
    BY <1>1, RowsShown
  <2> HIDE DEF sections, rendered
  <2> DEFINE m == Len(Shown(t))
  <2>3. /\ DOMAIN sections = 1 .. m
        /\ \A k \in 1 .. m : sections[k].event = Shown(t)[k]
    BY <1>1, <2>1, BodySections
  <2>4. Shown(t) = [k \in 1 .. m |-> Shown(t)[k]]
    <3>1. Shown(t) \in Seq(1 .. n)
      BY <1>1, ShownPlaces
    <3> QED
      BY <3>1
  <2>5. [k \in DOMAIN sections |-> sections[k].event] = [k \in 1 .. m |-> Shown(t)[k]]
    <3> HIDE DEF m
    <3> QED
      BY <2>3, Zenon
  <2> QED
    BY <2>2, <2>4, <2>5
<1>3. \A k \in DOMAIN markdown : Printed(markdown[k].output) = Gathered(t, markdown[k].event)
  BY <1>1, SectionsTell
<1>4. Gathered(t, 0) # <<>> => markdown[1].event = 0
  <2>1. 0 \in 0 .. n
    BY <1>1
  <2>2. Gathered(t, 0) = Printed(Orphan(t))
    <3>1. Gathered(t, 0) = Printed(Outputs(t)[0]) /\ Outputs(t)[0] \in Seq(Chars)
      BY <1>1, <2>1, GatheredIs
    <3> QED
      BY <3>1, TrimKeepsPrinted DEF Orphan
  <2>3. Orphan(t) = <<>> => Gathered(t, 0) = <<>>
    BY <2>2, SelectEmpty DEF Printed
  <2>4. Orphan(t) # <<>> => markdown[1] = OrphanSection(t)
    BY <1>1, SectionsAt
  <2>5. OrphanSection(t).event = 0
    BY DEF OrphanSection
  <2> HIDE DEF markdown
  <2> QED
    BY <2>3, <2>4, <2>5
<1> QED
  BY <1>2, <1>3, <1>4, Zenon DEF MarkdownKeepsTheTimeline, Gathered, ChunksOf

----------------------------------------------------------------------------
(* Theorems *)

\* The texts of an export are what a terminal's reader of CSI, OSC and two-character
\* sequences leaves of them, wherever it can read them (strip_ansi).
THEOREM ExportStrips == Spec => []StripsLikeATerminal
  BY TypeCorrect, ExportsStrip, PTL

\* Stripping chunk by chunk loses and adds nothing, as long as no chunk ends within
\* an escape sequence (export_markdown strips each OUTPUT event by itself).
THEOREM ExportStripsChunks == Spec => []ChunksStripLikeTheWhole
  BY TypeCorrect, ExportsStripChunks, PTL

\* The Markdown shows the rendered rows of the CSV in their order, each command's
\* output beneath it, and first what belongs to no command (export_markdown,
\* render_event).
THEOREM ExportKeepsTimeline == Spec => []MarkdownKeepsTheTimeline
  BY TypeCorrect, ExportsKeep, PTL
=============================================================================
