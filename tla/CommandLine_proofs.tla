------------------------- MODULE CommandLine_proofs -------------------------
(***************************************************************************)
(* Theorems about CommandLine, for every set of commands, buffer, receiver *)
(* and number of keys.                                                     *)
(*                                                                         *)
(* What a terminal user expects is a recursive function of the bytes sent  *)
(* (Session).  The receiver holds the last of them (ReceiverInv), so the   *)
(* editor has heeded the rest, and its buffer and answers are what the     *)
(* function yields for those (LineInv).  The answers only grow with the    *)
(* bytes, so they begin the answers expected to all of them.               *)
(***************************************************************************)
EXTENDS CommandLine, TLAPS, SequenceTheorems, WellFoundedInduction

Answers == DOMAIN Commands \cup {"!"}

-----------------------------------------------------------------------------
(* Types *)

\* No letter is one of the bytes that mean something else.
LEMMA KeysAre ==
    /\ "NUL" \in Keys /\ "BS" \in Keys /\ "CR" \in Keys /\ Letters \subseteq Keys
    /\ "NUL" \notin Letters /\ "BS" \notin Letters /\ "CR" \notin Letters
    /\ Keys \ {"CR", "BS"} = Letters \cup {"NUL"}
BY NamesAssumption DEF Keys

\* The variables have their types at first.
LEMMA TypeInitially == Init => TypeOK
<1> SUFFICES ASSUME Init PROVE TypeOK
  OBVIOUS
<1>1. LINE_MAX \in Nat /\ RxDepth \in Nat
  BY SizesAssumption
<1>2. buf \in [0 .. LINE_MAX -> Keys]
  BY DEF Init
<1> QED
  BY <1>1, <1>2 DEF Init, TypeOK

\* The first byte leaves the receiver, the rest keep their order.
LEMMA RestOfFifo ==
    ASSUME TypeOK, fifo # <<>>
    PROVE  /\ Head(fifo) = fifo[1] /\ Head(fifo) \in Keys
           /\ Tail(fifo) \in Seq(Keys) /\ Len(Tail(fifo)) = Len(fifo) - 1
           /\ Len(fifo) >= 1
           /\ \A i \in 1 .. Len(Tail(fifo)) : Tail(fifo)[i] = fifo[i + 1]
<1>1. fifo \in Seq(Keys)
  BY DEF TypeOK
<1> HIDE DEF Keys
<1>2. /\ Head(fifo) \in Keys /\ Tail(fifo) \in Seq(Keys) /\ Len(Tail(fifo)) = Len(fifo) - 1
      /\ \A i \in 1 .. Len(Tail(fifo)) : Tail(fifo)[i] = fifo[i + 1]
  BY <1>1, HeadTailProperties
<1>3. Head(fifo) = fifo[1] /\ Len(fifo) >= 1
  BY <1>1
<1> QED
  BY <1>2, <1>3

\* What the terminal shows are letters.
LEMMA ShownType ==
    ASSUME TypeOK, NEW c \in Keys
    PROVE  Shown(c) \in Seq(Letters) /\ Erased \in Seq(Letters)
<1>1. screen \in Seq(Letters)
  BY DEF TypeOK
<1>2. Shown(c) \in Seq(Letters)
  BY <1>1 DEF Shown
<1>3. screen # <<>> => Front(screen) \in Seq(Letters)
  <2>1. Len(screen) \in Nat /\ \A i \in 1 .. Len(screen) : screen[i] \in Letters
    BY <1>1
  <2>2. screen # <<>> => Len(screen) >= 1
    BY <1>1
  <2> QED
    BY <1>1, <2>1, <2>2, SubSeqProperties DEF Front
<1> QED
  BY <1>1, <1>2, <1>3 DEF Erased

\* Every step keeps the types; one step of the proof per action.
LEMMA TypePreserved == TypeOK /\ [Next]_vars => TypeOK'
<1> SUFFICES ASSUME TypeOK, [Next]_vars PROVE TypeOK'
  OBVIOUS
<1>0. LINE_MAX \in Nat /\ RxDepth \in Nat
  BY SizesAssumption
<1>1. ASSUME NEW k \in Keys, Type(k) PROVE TypeOK'
  <2>1. typed' \in Seq(Keys)
    BY <1>1 DEF Type, TypeOK
  <2>2. fifo' \in Seq(Keys) /\ Len(fifo') <= RxDepth
    <3>1. CASE Len(fifo) < RxDepth
      <4>1. fifo' = Append(fifo, k) /\ fifo \in Seq(Keys)
        BY <1>1, <3>1 DEF Type, TypeOK
      <4> HIDE DEF Keys
      <4>2. fifo' \in Seq(Keys) /\ Len(fifo') = Len(fifo) + 1
        BY <4>1, AppendProperties
      <4> QED
        BY <1>0, <3>1, <4>1, <4>2
    <3>2. CASE ~ (Len(fifo) < RxDepth)
      BY <1>1, <3>2 DEF Type, TypeOK
    <3> QED
      BY <3>1, <3>2
  <2>3. clean' \in BOOLEAN
    BY <1>1 DEF Type, TypeOK
  <2> QED
    BY <1>1, <2>1, <2>2, <2>3 DEF Type, TypeOK, lineVars
<1>2. CASE Enter
  <2>1. fifo' \in Seq(Keys) /\ Len(fifo') <= RxDepth
    <3>1. CASE build = "main" /\ fifo # <<>>
      <4>1. fifo' = Tail(fifo)
        BY <1>2, <3>1 DEF Enter
      <4> QED
        BY <1>0, <3>1, <4>1, RestOfFifo DEF TypeOK
    <3>2. CASE ~ (build = "main" /\ fifo # <<>>)
      BY <1>2, <3>2 DEF Enter, TypeOK
    <3> QED
      BY <3>1, <3>2
  <2> QED
    BY <1>2, <2>1 DEF Enter, TypeOK, lineVars
<1>3. CASE Prompt \/ EmptyLine
  <2>1. len' = 0 /\ screen' = <<>>
    BY <1>3 DEF Prompt, EmptyLine
  <2>2. len' \in 0 .. LINE_MAX
    BY <1>0, <2>1
  <2>3. screen' \in Seq(Letters)
    BY <2>1
  <2> QED
    BY <1>3, <2>2, <2>3 DEF Prompt, EmptyLine, TypeOK
<1>4. ASSUME NEW c, GetChar(c)
      PROVE  /\ c \in Keys /\ fifo' \in Seq(Keys) /\ Len(fifo') <= RxDepth /\ pc = "read"
             /\ UNCHANGED <<build, typed, answers, clean>>
  <2>1. fifo # <<>> /\ c = Head(fifo) /\ fifo' = Tail(fifo)
    BY <1>4 DEF GetChar
  <2> QED
    BY <1>0, <1>4, <2>1, RestOfFifo DEF GetChar, TypeOK
<1>5. CASE EndOfLine
  <2>1. buf' \in [0 .. LINE_MAX -> Keys]
    BY <1>5, KeysAre DEF EndOfLine, TypeOK
  <2> QED
    BY <1>4, <1>5, <2>1 DEF EndOfLine, TypeOK
<1>6. CASE Backspace
  <2>1. len' \in 0 .. LINE_MAX /\ screen' \in Seq(Letters)
    BY <1>0, <1>6, ShownType, KeysAre DEF Backspace, TypeOK
  <2> QED
    BY <1>4, <1>6, <2>1 DEF Backspace, TypeOK
<1>7. CASE Store
  <2>1. PICK c \in Keys \ {"CR", "BS"} :
          /\ GetChar(c)
          /\ IF len < LINE_MAX
               THEN len' = len + 1 /\ buf' = [buf EXCEPT ![len] = c] /\ screen' = Shown(c)
               ELSE UNCHANGED lineVars
          /\ UNCHANGED pc
    BY <1>7 DEF Store
  <2>2. len' \in 0 .. LINE_MAX /\ screen' \in Seq(Letters) /\ buf' \in [0 .. LINE_MAX -> Keys]
    <3>1. CASE len < LINE_MAX
      <4>1. len' = len + 1 /\ buf' = [buf EXCEPT ![len] = c] /\ screen' = Shown(c) /\ c \in Keys
        BY <2>1, <3>1
      <4>2. len \in 0 .. LINE_MAX /\ buf \in [0 .. LINE_MAX -> Keys]
        BY DEF TypeOK
      <4>3. len' \in 0 .. LINE_MAX
        BY <1>0, <3>1, <4>1, <4>2
      <4>4. buf' \in [0 .. LINE_MAX -> Keys]
        BY <4>1, <4>2
      <4>5. screen' \in Seq(Letters)
        BY <4>1, ShownType
      <4> QED
        BY <4>3, <4>4, <4>5
    <3>2. CASE ~ (len < LINE_MAX)
      BY <2>1, <3>2 DEF TypeOK, lineVars
    <3> QED
      BY <3>1, <3>2
  <2> QED
    BY <1>4, <2>1, <2>2 DEF TypeOK
<1>8. CASE Dispatch
  <2>1. PICK c \in Answers : /\ answers' = Append(answers, c)
                             /\ pc' = IF c = "reset" THEN "reset" ELSE "run"
    BY <1>8 DEF Dispatch, Answers
  <2>2. answers' \in Seq(Answers) /\ pc' \in {"run", "reset"}
    BY <2>1 DEF TypeOK, Answers
  <2> QED
    BY <1>8, <2>2 DEF Dispatch, TypeOK, lineVars, Answers
<1>9. CASE UNCHANGED vars
  BY <1>9 DEF vars, lineVars, TypeOK
<1> QED
  BY <1>1, <1>2, <1>3, <1>5, <1>6, <1>7, <1>8, <1>9 DEF Next, Repl

\* The variables keep their types: repl_read_line() never writes behind
\* LINE_BUF, whatever is typed.
THEOREM TypeCorrect == Spec => []TypeOK
BY TypeInitially, TypePreserved, PTL DEF Spec

-----------------------------------------------------------------------------
(* What a terminal user expects *)

Sessions == [line : Seq(Keys), answers : Seq(Answers)]
Fresh == [line |-> <<>>, answers |-> <<>>]

\* A set of numbers has a least one.
LEMMA MinIsLeast ==
    ASSUME NEW S, S \subseteq Nat, S # {}
    PROVE  Min(S) \in S /\ \A n \in S : Min(S) <= n
<1> DEFINE less == OpToRel(<, Nat)
<1>1. PICK m \in S : \A n \in S : ~ (<<n, m>> \in less)
  <2>1. IsWellFoundedOn(less, Nat)
    BY NatLessThanWellFounded
  <2> QED
    BY <2>1, WFMin
<1>2. \A n \in S : n < m => <<n, m>> \in less
  BY DEF OpToRel
<1> HIDE DEF less
<1>3. \A n \in S : ~ (n < m)
  BY <1>1, <1>2
<1>4. \A n \in S : m <= n
  BY <1>3
<1> QED
  BY <1>4 DEF Min

\* What holds of 0 and passes from each number to the next holds of all.
LEMMA StepByStep ==
    ASSUME NEW n \in Nat, NEW S, 0 \in S,
           \A k \in 0 .. n - 1 : k \in S => k + 1 \in S
    PROVE  0 .. n \subseteq S
<1> DEFINE T == (0 .. n) \ S
<1>1. SUFFICES ASSUME T # {} PROVE FALSE
  OBVIOUS
<1>2. T \subseteq Nat
  OBVIOUS
<1>3. PICK m \in T : \A k \in T : m <= k
  BY <1>1, <1>2, MinIsLeast
<1>4. m # 0 /\ m - 1 \in 0 .. n - 1 /\ m - 1 \notin T
  BY <1>3
<1>5. m - 1 \in S
  BY <1>4
<1> QED
  BY <1>3, <1>4, <1>5

\* A line is answered by a command or by "!".
LEMMA MeaningType == ASSUME NEW text PROVE Meaning(text) \in Answers
BY DEF Meaning, Answers

\* A session stays one.
LEMMA HeardType ==
    ASSUME NEW s \in Sessions, NEW k \in Keys
    PROVE  Heard(s, k) \in Sessions
<1>1. s.line \in Seq(Keys) /\ s.answers \in Seq(Answers)
  BY DEF Sessions
<1>2. s = [line |-> s.line, answers |-> s.answers]
  BY DEF Sessions
<1> HIDE DEF Answers, Keys
<1>3. CASE k = "CR"
  <2>1. PICK text : text = Text(s.line)
    OBVIOUS
  <2>2. Append(s.answers, Meaning(text)) \in Seq(Answers)
    BY <1>1, MeaningType
  <2>3. Heard(s, k) = [line |-> <<>>, answers |-> IF text = <<>> THEN s.answers
                                                  ELSE Append(s.answers, Meaning(text))]
    BY <1>3, <2>1 DEF Heard
  <2>4. <<>> \in Seq(Keys)
    OBVIOUS
  <2> QED
    BY <1>1, <2>2, <2>3, <2>4 DEF Sessions
<1>4. CASE k = "BS" /\ s.line # <<>>
  <2>1. Heard(s, k) = [line |-> Front(s.line), answers |-> s.answers]
    BY <1>2, <1>4 DEF Heard
  <2>2. Front(s.line) \in Seq(Keys)
    <3>1. Len(s.line) \in Nat /\ Len(s.line) >= 1
      BY <1>1, <1>4
    <3>2. \A i \in 1 .. Len(s.line) : s.line[i] \in Keys
      BY <1>1
    <3> QED
      BY <1>1, <3>1, <3>2, SubSeqProperties DEF Front
  <2> QED
    BY <1>1, <2>1, <2>2 DEF Sessions
<1>5. CASE k \notin {"CR", "BS"} /\ Len(s.line) < LINE_MAX
  <2>1. Heard(s, k) = [line |-> Append(s.line, k), answers |-> s.answers]
    BY <1>2, <1>5 DEF Heard
  <2>2. Append(s.line, k) \in Seq(Keys)
    BY <1>1
  <2> QED
    BY <1>1, <2>1, <2>2 DEF Sessions
<1>6. CASE k # "CR" /\ ~ (k = "BS" /\ s.line # <<>>)
             /\ ~ (k \notin {"CR", "BS"} /\ Len(s.line) < LINE_MAX)
  BY <1>6 DEF Heard
<1> QED
  BY <1>3, <1>4, <1>5, <1>6

\* Session() is what its recursive definition says.
LEMMA SessionIs ==
    ASSUME NEW keys \in Seq(Keys)
    PROVE  /\ Session(keys) \in [0 .. Len(keys) -> Sessions]
           /\ Session(keys)[0] = Fresh
           /\ \A n \in 0 .. Len(keys) - 1 :
                 Session(keys)[n + 1] = Heard(Session(keys)[n], keys[n + 1])
<1> DEFINE N == Len(keys)
           Upto(n) == {f \in [0 .. n -> Sessions] :
                         f[0] = Fresh /\ \A k \in 0 .. n - 1 : f[k + 1] = Heard(f[k], keys[k + 1])}
           S == {n \in Nat : Upto(n) # {}}
<1>0. N \in Nat /\ \A i \in 1 .. N : keys[i] \in Keys
  OBVIOUS
<1>1. 0 \in S
  <2>1. Fresh \in Sessions
    BY DEF Fresh, Sessions
  <2>2. [k \in 0 .. 0 |-> Fresh] \in Upto(0)
    BY <2>1
  <2> QED
    BY <2>2
<1> HIDE DEF Keys, Sessions, Fresh
<1>2. ASSUME NEW n \in 0 .. N - 1, n \in S PROVE n + 1 \in S
  <2>0. n \in Nat /\ n + 1 \in 1 .. N /\ n + 1 \in Nat
    BY <1>0
  <2>1. PICK f \in [0 .. n -> Sessions] :
          f[0] = Fresh /\ \A k \in 0 .. n - 1 : f[k + 1] = Heard(f[k], keys[k + 1])
    BY <1>2
  <2>2. Heard(f[n], keys[n + 1]) \in Sessions
    <3>1. f[n] \in Sessions /\ keys[n + 1] \in Keys
      BY <1>0, <2>0, <2>1
    <3> QED
      BY <3>1, HeardType
  <2> DEFINE h == [k \in 0 .. n + 1 |-> IF k <= n THEN f[k] ELSE Heard(f[n], keys[n + 1])]
  <2>3. h \in [0 .. n + 1 -> Sessions]
    BY <2>0, <2>2
  <2>4. h[0] = Fresh
    BY <2>0, <2>1
  <2>5. ASSUME NEW k \in 0 .. n PROVE h[k + 1] = Heard(h[k], keys[k + 1])
    <3>1. h[k] = f[k]
      BY <2>0
    <3>2. CASE k = n
      BY <2>0, <3>1, <3>2
    <3>3. CASE k # n
      <4>1. k \in 0 .. n - 1 /\ k + 1 \in 0 .. n + 1 /\ k + 1 <= n
        BY <2>0, <3>3
      <4> QED
        BY <2>1, <3>1, <4>1
    <3> QED
      BY <3>2, <3>3
  <2>6. h \in Upto(n + 1)
    <3>1. 0 .. (n + 1) - 1 = 0 .. n
      BY <2>0
    <3> HIDE DEF h
    <3> QED
      BY <2>3, <2>4, <2>5, <3>1
  <2> QED
    BY <2>0, <2>6
<1>3. N \in S
  <2> HIDE DEF S, N
  <2>1. 0 .. N \subseteq S
    BY <1>0, <1>1, <1>2, StepByStep
  <2> QED
    BY <1>0, <2>1
<1>4. PICK f \in [0 .. N -> Sessions] :
        f[0] = Fresh /\ \A k \in 0 .. N - 1 : f[k + 1] = Heard(f[k], keys[k + 1])
  BY <1>3
<1> DEFINE Rec(l) == [n \in 0 .. Len(keys) |->
                        IF n = 0 THEN [line |-> <<>>, answers |-> <<>>]
                                 ELSE Heard(l[n - 1], keys[n])]
<1>5. f = Rec(f)
  <2>1. ASSUME NEW k \in 0 .. N, k # 0 PROVE f[k] = Heard(f[k - 1], keys[k])
    <3>1. k - 1 \in 0 .. N - 1 /\ (k - 1) + 1 = k
      BY <1>0, <2>1
    <3> QED
      BY <1>4, <3>1
  <2>2. \A k \in 0 .. N : f[k] = Rec(f)[k]
    BY <1>4, <2>1 DEF Fresh
  <2> QED
    BY <2>2
<1>6. Session(keys) = Rec(Session(keys))
  BY <1>5, Zenon DEF Session
<1>7. PICK l : l = Session(keys) /\ l = Rec(l)
  BY <1>6
<1>8. l[0] = Fresh
  BY <1>0, <1>7 DEF Fresh
<1>9. ASSUME NEW k \in 0 .. N - 1 PROVE l[k + 1] = Heard(l[k], keys[k + 1])
  <2>1. \A i \in 0 .. N : i # 0 => l[i] = Heard(l[i - 1], keys[i])
    BY <1>7
  <2>2. k + 1 \in 0 .. N /\ k + 1 # 0 /\ (k + 1) - 1 = k
    BY <1>0
  <2> QED
    BY <2>1, <2>2
<1>10. l \in [0 .. N -> Sessions]
  <2> DEFINE V == {k \in 0 .. N : l[k] \in Sessions}
  <2>1. ASSUME NEW k \in 0 .. N - 1, k \in V PROVE k + 1 \in V
    <3>1. k + 1 \in 1 .. N /\ k + 1 \in 0 .. N /\ keys[k + 1] \in Keys
      BY <1>0
    <3> QED
      BY <1>9, <2>1, <3>1, HeardType
  <2>2. 0 \in V
    BY <1>0, <1>4, <1>8
  <2>3. 0 .. N \subseteq V
    <3> HIDE DEF V, N
    <3> QED
      BY <1>0, <2>1, <2>2, StepByStep
  <2>4. DOMAIN l = 0 .. N /\ l = [k \in 0 .. N |-> l[k]]
    BY <1>7
  <2> QED
    BY <2>3, <2>4
<1> QED
  BY <1>7, <1>8, <1>9, <1>10

\* A byte sent later does not change what was expected after those before it.
LEMMA SessionAppend ==
    ASSUME NEW keys \in Seq(Keys), NEW key \in Keys, NEW n \in 0 .. Len(keys)
    PROVE  Session(Append(keys, key))[n] = Session(keys)[n]
<1> DEFINE more == Append(keys, key)
           V == {k \in 0 .. Len(keys) : Session(more)[k] = Session(keys)[k]}
<1> HIDE DEF Keys
<1>1. /\ more \in Seq(Keys) /\ Len(more) = Len(keys) + 1 /\ Len(keys) \in Nat
      /\ \A i \in 1 .. Len(keys) : more[i] = keys[i]
  BY AppendProperties
<1> HIDE DEF more
<1>2. 0 \in V
  BY <1>1, SessionIs
<1>3. ASSUME NEW k \in 0 .. Len(keys) - 1, k \in V PROVE k + 1 \in V
  <2>1. k + 1 \in 1 .. Len(keys) /\ k \in 0 .. Len(more) - 1 /\ k + 1 \in 0 .. Len(keys)
    BY <1>1
  <2>2. Session(more)[k + 1] = Heard(Session(more)[k], more[k + 1])
    BY <1>1, <2>1, SessionIs
  <2>3. Session(keys)[k + 1] = Heard(Session(keys)[k], keys[k + 1])
    BY SessionIs
  <2>4. more[k + 1] = keys[k + 1] /\ Session(more)[k] = Session(keys)[k]
    BY <1>1, <1>3, <2>1
  <2> QED
    BY <2>1, <2>2, <2>3, <2>4
<1>4. 0 .. Len(keys) \subseteq V
  <2> HIDE DEF V
  <2> QED
    BY <1>1, <1>2, <1>3, StepByStep
<1> QED
  BY <1>4 DEF more

\* The answers expected so far are never taken back.
Begins(s, t) == Len(s) <= Len(t) /\ \A i \in 1 .. Len(s) : s[i] = t[i]

\* One more byte adds to the answers or leaves them.
LEMMA HeardGrows ==
    ASSUME NEW s \in Sessions, NEW k \in Keys
    PROVE  Begins(s.answers, Heard(s, k).answers)
<1>1. s.answers \in Seq(Answers) /\ Len(s.answers) \in Nat
  BY DEF Sessions
<1>2. CASE k = "CR" /\ Text(s.line) # <<>>
  <2> HIDE DEF Answers
  <2>1. PICK a \in Answers : a = Meaning(Text(s.line))
    BY MeaningType
  <2>2. Heard(s, k).answers = Append(s.answers, a)
    BY <1>2, <2>1 DEF Heard
  <2> QED
    BY <1>1, <2>1, <2>2, AppendProperties DEF Begins
<1>3. CASE ~ (k = "CR" /\ Text(s.line) # <<>>)
  <2>1. Heard(s, k).answers = s.answers
    BY <1>3 DEF Heard, Sessions
  <2> QED
    BY <1>1, <2>1 DEF Begins
<1> QED
  BY <1>2, <1>3

\* The answers after some bytes begin those after all of them.
LEMMA SessionGrows ==
    ASSUME NEW keys \in Seq(Keys), NEW m \in 0 .. Len(keys)
    PROVE  Begins(Session(keys)[m].answers, Session(keys)[Len(keys)].answers)
<1> DEFINE N == Len(keys)
           At(n) == Session(keys)[n].answers
           V == {n \in 0 .. N : n >= m => Begins(At(m), At(n))}
<1>1. N \in Nat /\ \A i \in 1 .. N : keys[i] \in Keys
  OBVIOUS
<1> HIDE DEF Keys
<1>2. \A n \in 0 .. N : Session(keys)[n] \in Sessions /\ At(n) \in Seq(Answers) /\ Len(At(n)) \in Nat
  BY SessionIs DEF Sessions
<1>3. Begins(At(m), At(m))
  BY <1>2 DEF Begins
<1>4. 0 \in V
  BY <1>1, <1>3
<1>5. ASSUME NEW n \in 0 .. N - 1, n \in V PROVE n + 1 \in V
  <2>1. n \in 0 .. N /\ n + 1 \in 1 .. N /\ n + 1 \in 0 .. N /\ m \in Nat /\ n \in Nat
    BY <1>1
  <2>2. CASE n >= m
    <3>1. Begins(At(m), At(n))
      BY <1>5, <2>2
    <3>2. Begins(At(n), At(n + 1))
      <4>1. Session(keys)[n + 1] = Heard(Session(keys)[n], keys[n + 1])
        BY SessionIs
      <4> QED
        BY <1>1, <1>2, <2>1, <4>1, HeardGrows
    <3>3. Begins(At(m), At(n + 1))
      <4> HIDE DEF At
      <4> QED
        BY <1>2, <2>1, <3>1, <3>2 DEF Begins
    <3> QED
      BY <2>1, <3>3
  <2>3. CASE n + 1 = m
    BY <1>3, <2>1, <2>3
  <2>4. CASE n + 1 < m
    BY <2>1, <2>4
  <2> QED
    BY <2>1, <2>2, <2>3, <2>4
<1>6. 0 .. N \subseteq V
  <2> HIDE DEF V, N
  <2> QED
    BY <1>1, <1>4, <1>5, StepByStep
<1> QED
  BY <1>1, <1>6

-----------------------------------------------------------------------------
(* What a line in the buffer says *)

\* What Text() is: the bytes before the first NUL.
LEMMA TextIs ==
    ASSUME NEW line \in Seq(Keys)
    PROVE  LET text == Text(line)
           IN /\ text \in Seq(Keys) /\ Len(text) <= Len(line)
              /\ \A i \in 1 .. Len(text) : text[i] = line[i] /\ line[i] # "NUL"
              /\ Len(text) = Len(line) \/ line[Len(text) + 1] = "NUL"
<1> DEFINE ends == {i \in 1 .. Len(line) : line[i] = "NUL"}
<1>1. Len(line) \in Nat /\ \A i \in 1 .. Len(line) : line[i] \in Keys
  OBVIOUS
<1> HIDE DEF Keys
<1>2. CASE ends = {}
  <2>1. Text(line) = line
    BY <1>2 DEF Text
  <2> QED
    BY <1>1, <1>2, <2>1
<1>3. CASE ends # {}
  <2>1. PICK e : e = Min(ends)
    OBVIOUS
  <2>2. e \in ends /\ \A i \in ends : e <= i
    <3>1. ends \subseteq Nat
      BY <1>1
    <3> HIDE DEF ends
    <3> QED
      BY <1>3, <2>1, <3>1, MinIsLeast
  <2>3. Text(line) = SubSeq(line, 1, e - 1)
    BY <1>3, <2>1 DEF Text
  <2>4. PICK text : text = SubSeq(line, 1, e - 1)
    OBVIOUS
  <2>5. e \in 1 .. Len(line) /\ line[e] = "NUL" /\ e - 1 \in 0 .. Len(line)
    BY <1>1, <2>2
  <2>6. text \in Seq(Keys) /\ Len(text) = e - 1 /\ \A i \in 1 .. e - 1 : text[i] = line[i]
    <3>1. \A i \in 1 .. e - 1 : line[i] \in Keys
      BY <1>1, <2>5
    <3>2. /\ SubSeq(line, 1, e - 1) \in Seq(Keys)
          /\ Len(SubSeq(line, 1, e - 1)) = IF 1 <= e - 1 THEN (e - 1) - 1 + 1 ELSE 0
          /\ \A i \in 1 .. (e - 1) - 1 + 1 : SubSeq(line, 1, e - 1)[i] = line[1 + i - 1]
      BY <2>5, <3>1, SubSeqProperties
    <3> QED
      BY <2>4, <2>5, <3>2
  <2>7. \A i \in 1 .. e - 1 : line[i] # "NUL"
    BY <1>1, <2>2, <2>5
  <2> QED
    BY <1>1, <2>3, <2>4, <2>5, <2>6, <2>7
<1> QED
  BY <1>2, <1>3

\* The line in the buffer is a sequence of len bytes.
LEMMA LineType == TypeOK => Line \in Seq(Keys) /\ Len(Line) = len /\ \A i \in 1 .. len : Line[i] = buf[i - 1]
<1> SUFFICES ASSUME TypeOK
             PROVE  Line \in Seq(Keys) /\ Len(Line) = len /\ \A i \in 1 .. len : Line[i] = buf[i - 1]
  OBVIOUS
<1>1. LINE_MAX \in Nat /\ len \in 0 .. LINE_MAX /\ len \in Nat /\ buf \in [0 .. LINE_MAX -> Keys]
  BY SizesAssumption DEF TypeOK
<1> HIDE DEF Keys
<1>2. \A i \in 1 .. len : buf[i - 1] \in Keys
  <2>1. \A i \in 1 .. len : i - 1 \in 0 .. LINE_MAX
    BY <1>1
  <2> QED
    BY <1>1, <2>1
<1> QED
  BY <1>1, <1>2 DEF Line

\* line_eq() compares the line, as far as its terminator, with the whole name.
LEMMA LineEqIs ==
    ASSUME TypeOK, buf[len] = "NUL", NEW name \in Seq(Letters)
    PROVE  LineEq(name) <=> Text(Line) = name
<1>1. LINE_MAX \in Nat /\ len \in 0 .. LINE_MAX /\ len \in Nat
  BY SizesAssumption DEF TypeOK
<1>2. Line \in Seq(Keys) /\ Len(Line) = len /\ \A i \in 1 .. len : Line[i] = buf[i - 1]
  BY LineType
<1>3. PICK text : text = Text(Line)
  OBVIOUS
<1>4. /\ text \in Seq(Keys) /\ Len(text) <= Len(Line) /\ Len(text) \in Nat
      /\ \A i \in 1 .. Len(text) : text[i] = Line[i] /\ Line[i] # "NUL"
      /\ Len(text) = Len(Line) \/ Line[Len(text) + 1] = "NUL"
  <2> HIDE DEF Keys, Line
  <2> QED
    BY <1>2, <1>3, TextIs
<1>5. /\ \A i \in 1 .. Len(text) : text[i] = buf[i - 1] /\ buf[i - 1] # "NUL"
      /\ buf[Len(text)] = "NUL"
  <2>1. \A i \in 1 .. Len(text) : i \in 1 .. len
    BY <1>1, <1>2, <1>4
  <2>2. CASE Len(text) = len
    BY <1>2, <1>4, <2>1, <2>2
  <2>3. CASE Len(text) # len
    <3>1. Len(text) + 1 \in 1 .. len /\ (Len(text) + 1) - 1 = Len(text)
      BY <1>1, <1>2, <1>4, <2>3
    <3>2. Line[Len(text) + 1] = buf[(Len(text) + 1) - 1]
      BY <1>2, <3>1
    <3> QED
      BY <1>2, <1>4, <2>1, <2>3, <3>1, <3>2
  <2> QED
    BY <2>2, <2>3
<1>6. Len(name) \in Nat /\ \A i \in 1 .. Len(name) : name[i] # "NUL"
  BY KeysAre
<1>7. ASSUME Text(Line) = name PROVE LineEq(name)
  BY <1>1, <1>2, <1>3, <1>4, <1>5, <1>7 DEF LineEq
<1>8. ASSUME LineEq(name) PROVE Text(Line) = name
  <2>1. /\ \A i \in 1 .. Len(name) : buf[i - 1] = name[i]
        /\ buf[Len(name)] = "NUL"
    BY <1>8 DEF LineEq
  <2>2. ~ (Len(text) < Len(name))
    <3>1. SUFFICES ASSUME Len(text) < Len(name) PROVE FALSE
      OBVIOUS
    <3>2. Len(text) + 1 \in 1 .. Len(name) /\ (Len(text) + 1) - 1 = Len(text)
      BY <1>4, <1>6, <3>1
    <3> QED
      BY <1>5, <1>6, <2>1, <3>2
  <2>3. ~ (Len(name) < Len(text))
    <3>1. SUFFICES ASSUME Len(name) < Len(text) PROVE FALSE
      OBVIOUS
    <3>2. Len(name) + 1 \in 1 .. Len(text) /\ (Len(name) + 1) - 1 = Len(name)
      BY <1>4, <1>6, <3>1
    <3> QED
      BY <1>5, <2>1, <3>2
  <2>4. Len(name) = Len(text)
    BY <1>4, <1>6, <2>2, <2>3
  <2>5. \A i \in 1 .. Len(name) : name[i] = text[i]
    BY <1>5, <2>1, <2>4
  <2>6. name \in Seq(Keys)
    BY KeysAre
  <2> HIDE DEF Keys
  <2>7. text = name
    BY <1>4, <2>4, <2>5, <2>6, SeqEqual
  <2> QED
    BY <1>3, <2>7
<1> QED
  BY <1>7, <1>8

\* What is dispatched is the command that the line says.
LEMMA AnswerIs ==
    ASSUME TypeOK, buf[len] = "NUL", NEW c \in Answers,
           IF c = "!" THEN \A d \in DOMAIN Commands : ~ LineEq(Commands[d])
                      ELSE LineEq(Commands[c])
    PROVE  c = Meaning(Text(Line))
<1>1. \A d \in DOMAIN Commands : LineEq(Commands[d]) <=> Commands[d] = Text(Line)
  BY LineEqIs, NamesAssumption
<1>2. CASE c = "!"
  BY <1>1, <1>2 DEF Meaning
<1>3. CASE c # "!"
  <2>1. c \in DOMAIN Commands /\ Commands[c] = Text(Line)
    BY <1>1, <1>3 DEF Answers
  <2>2. \A d \in DOMAIN Commands : Commands[d] = Text(Line) => d = c
    BY <2>1, NamesAssumption
  <2>3. (CHOOSE d \in DOMAIN Commands : Commands[d] = Text(Line)) = c
    BY <2>1, <2>2
  <2> QED
    BY <2>1, <2>3 DEF Meaning
<1> QED
  BY <1>2, <1>3

\* An empty line says nothing.
LEMMA EmptyIs == TypeOK /\ buf[len] = "NUL" => (buf[0] = "NUL" <=> Text(Line) = <<>>)
<1>1. <<>> \in Seq(Letters) /\ Len(<<>>) = 0 /\ 0 <= LINE_MAX
  BY SizesAssumption
<1>2. LineEq(<<>>) <=> buf[0] = "NUL"
  BY <1>1 DEF LineEq
<1> QED
  BY <1>1, <1>2, LineEqIs

-----------------------------------------------------------------------------
(* The invariant *)

\* The bytes that the program has taken from the receiver.
Heeded == Len(typed) - Len(fifo)

\* The receiver holds the last of the bytes sent.
ReceiverInv ==
    clean => /\ pc \in {"enter", "flush"} => typed = <<>>
             /\ Len(fifo) <= Len(typed)
             /\ \A i \in 1 .. Len(fifo) : fifo[i] = typed[Heeded + i]

\* The line and the answers are what is expected of the bytes heeded.
LineInv ==
    LET after(n) == Session(typed)[n]
    IN clean =>
         /\ pc = "read" => after(Heeded) = [line |-> Line, answers |-> answers]
         /\ pc \notin {"read", "dispatch"} => after(Heeded) = [line |-> <<>>, answers |-> answers]
         /\ pc = "dispatch" =>
              /\ Heeded >= 1 /\ typed[Heeded] = "CR" /\ buf[len] = "NUL"
              /\ after(Heeded - 1) = [line |-> Line, answers |-> answers]

\* The screen shows the line, and so it has no byte that is not shown.
ScreenInv ==
    (\A i \in 1 .. Len(typed) : typed[i] # "NUL") =>
             /\ \A i \in 1 .. Len(fifo) : fifo[i] # "NUL"
             /\ pc = "read" => screen = Line

Inv == TypeOK /\ ReceiverInv /\ LineInv /\ ScreenInv

\* The invariant holds at first: no byte was sent yet.
LEMMA Initially == Init => Inv
<1> SUFFICES ASSUME Init PROVE Inv
  OBVIOUS
<1>1. TypeOK
  BY TypeInitially
<1>2. pc = "enter" /\ fifo = <<>> /\ typed = <<>> /\ answers = <<>>
  BY DEF Init
<1>3. Len(typed) = 0 /\ Len(fifo) = 0 /\ Heeded = 0
  BY <1>2 DEF Heeded
<1>4. Session(typed)[0] = [line |-> <<>>, answers |-> <<>>]
  BY <1>1, SessionIs DEF TypeOK, Fresh
<1> QED
  BY <1>1, <1>2, <1>3, <1>4 DEF Inv, ReceiverInv, LineInv, ScreenInv

\* A byte arrives.
LEMMA TypeKeeps ==
    ASSUME Inv, NEW k \in Keys, Type(k), TypeOK'
    PROVE  Inv'
<1>1. /\ typed' = Append(typed, k) /\ pc' = pc /\ buf' = buf /\ len' = len /\ screen' = screen
      /\ answers' = answers
      /\ fifo' = IF Len(fifo) < RxDepth THEN Append(fifo, k) ELSE fifo
      /\ clean' = (clean /\ pc \notin {"enter", "flush"} /\ Len(fifo) < RxDepth)
  BY DEF Type, lineVars
<1>2. typed \in Seq(Keys) /\ fifo \in Seq(Keys) /\ Len(typed) \in Nat /\ Len(fifo) \in Nat
  BY DEF Inv, TypeOK
<1>3. Line' = Line
  BY <1>1 DEF Line
<1> HIDE DEF Keys
<1>4. /\ Len(typed') = Len(typed) + 1 /\ typed'[Len(typed) + 1] = k
      /\ \A i \in 1 .. Len(typed) : typed'[i] = typed[i]
  BY <1>1, <1>2, AppendProperties
<1>5. Len(fifo) < RxDepth =>
        /\ Len(fifo') = Len(fifo) + 1 /\ fifo'[Len(fifo) + 1] = k
        /\ \A i \in 1 .. Len(fifo) : fifo'[i] = fifo[i]
  BY <1>1, <1>2, AppendProperties
<1>6. ReceiverInv' /\ LineInv'
  <2>1. CASE ~ clean'
    BY <2>1 DEF ReceiverInv, LineInv
  <2>2. CASE clean'
    <3>1. clean /\ pc \notin {"enter", "flush"} /\ Len(fifo) < RxDepth
      BY <1>1, <2>2
    <3>2. /\ Len(fifo) <= Len(typed)
          /\ \A i \in 1 .. Len(fifo) : fifo[i] = typed[Heeded + i]
      BY <3>1 DEF Inv, ReceiverInv
    <3>3. Heeded' = Heeded /\ Heeded \in 0 .. Len(typed) /\ Heeded + Len(fifo) = Len(typed)
      BY <1>2, <1>4, <1>5, <3>1, <3>2 DEF Heeded
    <3>4. ASSUME NEW i \in 1 .. Len(fifo') PROVE fifo'[i] = typed'[Heeded' + i]
      <4>1. CASE i \in 1 .. Len(fifo)
        <5>1. Heeded + i \in 1 .. Len(typed)
          BY <1>2, <3>3, <4>1
        <5> QED
          BY <1>4, <1>5, <3>1, <3>2, <3>3, <4>1, <5>1
      <4>2. CASE i = Len(fifo) + 1
        BY <1>2, <1>4, <1>5, <3>1, <3>3, <4>2
      <4> QED
        BY <1>2, <1>5, <3>1, <4>1, <4>2
    <3>5. ReceiverInv'
      <4>1. pc' \notin {"enter", "flush"} /\ Len(fifo') <= Len(typed')
        BY <1>1, <1>2, <1>4, <1>5, <3>1, <3>2
      <4> QED
        BY <3>4, <4>1 DEF ReceiverInv
    <3>6. \A n \in 0 .. Len(typed) : Session(typed')[n] = Session(typed)[n]
      BY <1>1, <1>2, SessionAppend
    <3>7. pc = "dispatch" =>
            /\ Heeded >= 1 /\ typed[Heeded] = "CR" /\ buf[len] = "NUL"
            /\ Session(typed)[Heeded - 1] = [line |-> Line, answers |-> answers]
      BY <3>1 DEF Inv, LineInv
    <3>8. pc = "dispatch" => Heeded \in 1 .. Len(typed) /\ Heeded - 1 \in 0 .. Len(typed)
      BY <1>2, <3>3, <3>7
    <3>9. /\ pc = "read" => Session(typed)[Heeded] = [line |-> Line, answers |-> answers]
          /\ pc \notin {"read", "dispatch"} =>
               Session(typed)[Heeded] = [line |-> <<>>, answers |-> answers]
      BY <3>1 DEF Inv, LineInv
    <3> HIDE DEF Heeded, Line
    <3>10. LineInv'
      BY <1>1, <1>3, <1>4, <3>3, <3>6, <3>7, <3>8, <3>9 DEF LineInv
    <3> QED
      BY <3>5, <3>10
  <2> QED
    BY <2>1, <2>2
<1>7. ScreenInv'
  <2>1. SUFFICES ASSUME \A i \in 1 .. Len(typed') : typed'[i] # "NUL"
                 PROVE  /\ \A i \in 1 .. Len(fifo') : fifo'[i] # "NUL"
                        /\ pc' = "read" => screen' = Line'
    BY DEF ScreenInv
  <2>2. /\ \A i \in 1 .. Len(typed) : typed[i] # "NUL"
        /\ k # "NUL"
    BY <1>2, <1>4, <2>1
  <2>3. /\ \A i \in 1 .. Len(fifo) : fifo[i] # "NUL"
        /\ pc = "read" => screen = Line
    BY <2>2 DEF Inv, ScreenInv
  <2>4. \A i \in 1 .. Len(fifo') : fifo'[i] # "NUL"
    BY <1>1, <1>2, <1>5, <2>2, <2>3
  <2> QED
    BY <1>1, <1>3, <2>3, <2>4
<1> QED
  BY <1>6, <1>7 DEF Inv

\* repl_getc() takes the next of the bytes sent.
LEMMA GetCharKeeps ==
    ASSUME Inv, NEW c, GetChar(c), TypeOK'
    PROVE  /\ c \in Keys /\ pc = "read" /\ typed' = typed /\ answers' = answers /\ clean' = clean
           /\ clean => /\ Heeded' = Heeded + 1 /\ Heeded \in Nat /\ Heeded' \in 1 .. Len(typed)
                       /\ c = typed[Heeded']
                       /\ Session(typed)[Heeded'] = Heard([line |-> Line, answers |-> answers], c)
                       /\ \A i \in 1 .. Len(fifo') : fifo'[i] = typed[Heeded' + i]
                       /\ Len(fifo') <= Len(typed)
           /\ (\A i \in 1 .. Len(typed) : typed[i] # "NUL") =>
                /\ c # "NUL" /\ \A i \in 1 .. Len(fifo') : fifo'[i] # "NUL"
                /\ screen = Line
<1>1. /\ pc = "read" /\ fifo # <<>> /\ c = Head(fifo) /\ fifo' = Tail(fifo)
      /\ typed' = typed /\ answers' = answers /\ clean' = clean
  BY DEF GetChar
<1>2. TypeOK /\ typed \in Seq(Keys) /\ Len(typed) \in Nat /\ Len(fifo) \in Nat
  BY DEF Inv, TypeOK
<1>3. /\ c = fifo[1] /\ c \in Keys /\ Len(fifo) >= 1 /\ Len(fifo') = Len(fifo) - 1
      /\ \A i \in 1 .. Len(fifo') : fifo'[i] = fifo[i + 1]
  BY <1>1, <1>2, RestOfFifo
<1> HIDE DEF Keys
<1>4. \A i \in 1 .. Len(fifo') : i + 1 \in 1 .. Len(fifo)
  BY <1>2, <1>3
<1>5. ASSUME clean
      PROVE  /\ Heeded' = Heeded + 1 /\ Heeded \in Nat /\ Heeded' \in 1 .. Len(typed)
             /\ c = typed[Heeded']
             /\ Session(typed)[Heeded'] = Heard([line |-> Line, answers |-> answers], c)
             /\ \A i \in 1 .. Len(fifo') : fifo'[i] = typed[Heeded' + i]
             /\ Len(fifo') <= Len(typed)
  <2>1. /\ Len(fifo) <= Len(typed)
        /\ \A i \in 1 .. Len(fifo) : fifo[i] = typed[Heeded + i]
    BY <1>5 DEF Inv, ReceiverInv
  <2>2. Heeded \in Nat /\ Heeded' = Heeded + 1 /\ Heeded' \in 1 .. Len(typed) /\ Len(fifo') <= Len(typed)
    BY <1>1, <1>2, <1>3, <2>1 DEF Heeded
  <2>3. c = typed[Heeded + 1]
    BY <1>2, <1>3, <2>1
  <2>4. \A i \in 1 .. Len(fifo') : fifo'[i] = typed[Heeded' + i]
    <3> SUFFICES ASSUME NEW i \in 1 .. Len(fifo') PROVE fifo'[i] = typed[Heeded' + i]
      OBVIOUS
    <3>1. i + 1 \in 1 .. Len(fifo) /\ fifo'[i] = fifo[i + 1]
      BY <1>3, <1>4
    <3>2. fifo[i + 1] = typed[Heeded + (i + 1)]
      BY <2>1, <3>1
    <3>3. Heeded + (i + 1) = Heeded' + i
      BY <2>2
    <3> QED
      BY <3>1, <3>2, <3>3
  <2>5. Session(typed)[Heeded + 1] = Heard(Session(typed)[Heeded], typed[Heeded + 1])
    <3>1. Heeded \in 0 .. Len(typed) - 1
      BY <1>2, <2>2
    <3> QED
      BY <1>2, <3>1, SessionIs
  <2>6. Session(typed)[Heeded] = [line |-> Line, answers |-> answers]
    BY <1>1, <1>5 DEF Inv, LineInv
  <2> QED
    BY <2>2, <2>3, <2>4, <2>5, <2>6
<1>6. ASSUME \A i \in 1 .. Len(typed) : typed[i] # "NUL"
      PROVE  /\ c # "NUL" /\ \A i \in 1 .. Len(fifo') : fifo'[i] # "NUL"
             /\ screen = Line
  <2>1. (\A i \in 1 .. Len(fifo) : fifo[i] # "NUL") /\ screen = Line
    BY <1>1, <1>6 DEF Inv, ScreenInv
  <2> QED
    BY <1>2, <1>3, <1>4, <2>1
<1> QED
  BY <1>1, <1>3, <1>5, <1>6

\* The editor has done with a byte what a terminal user expects.
LEMMA EditKeeps ==
    ASSUME Inv, NEW c, GetChar(c), TypeOK', pc' = "read",
           Heard([line |-> Line, answers |-> answers], c) = [line |-> Line', answers |-> answers],
           screen = Line /\ c # "NUL" => screen' = Line'
    PROVE  Inv'
<1>1. ReceiverInv'
  BY GetCharKeeps DEF ReceiverInv
<1>2. LineInv'
  BY GetCharKeeps DEF LineInv
<1>3. ScreenInv'
  BY GetCharKeeps DEF ScreenInv
<1> QED
  BY <1>1, <1>2, <1>3 DEF Inv

\* A byte is taken back in the buffer, on the screen and in what is expected.
LEMMA BackspaceKeeps == Inv /\ Backspace /\ TypeOK' => Inv'
<1> SUFFICES ASSUME Inv, Backspace, TypeOK' PROVE Inv'
  OBVIOUS
<1>1. /\ GetChar("BS") /\ pc' = pc /\ buf' = buf /\ pc = "read"
      /\ IF len > 0 THEN len' = len - 1 /\ screen' = Erased ELSE UNCHANGED <<len, screen>>
  BY DEF Backspace, GetChar
<1>2. TypeOK /\ len \in Nat /\ Line \in Seq(Keys) /\ Len(Line) = len
  BY LineType, SizesAssumption DEF Inv, TypeOK
<1>3. CASE len > 0
  <2>1. Line' = Front(Line)
    <3>1. Line' = [i \in 1 .. len - 1 |-> buf[i - 1]]
      BY <1>1, <1>3 DEF Line
    <3>2. Front(Line) = SubSeq(Line, 1, len - 1)
      BY <1>2 DEF Front
    <3>3. SubSeq(Line, 1, len - 1) = [i \in 1 .. len - 1 |-> Line[i]]
      BY <1>2, <1>3
    <3>4. \A i \in 1 .. len - 1 : Line[i] = buf[i - 1]
      BY <1>2 DEF Line
    <3> QED
      BY <3>1, <3>2, <3>3, <3>4
  <2>2. Line # <<>>
    BY <1>2, <1>3
  <2>3. Heard([line |-> Line, answers |-> answers], "BS") = [line |-> Line', answers |-> answers]
    BY <2>1, <2>2 DEF Heard
  <2>4. screen = Line => screen' = Line'
    BY <1>1, <1>3, <2>1, <2>2 DEF Erased
  <2> QED
    BY <1>1, <2>3, <2>4, EditKeeps
<1>4. CASE ~ (len > 0)
  <2>1. Line' = Line /\ screen' = screen
    BY <1>1, <1>4 DEF Line
  <2>2. Line = <<>>
    BY <1>2, <1>4
  <2>3. Heard([line |-> Line, answers |-> answers], "BS") = [line |-> Line', answers |-> answers]
    BY <2>1, <2>2 DEF Heard
  <2> QED
    BY <1>1, <2>1, <2>3, EditKeeps
<1> QED
  BY <1>3, <1>4

\* A byte is added, or dropped when the buffer is full.
LEMMA StoreKeeps == Inv /\ Store /\ TypeOK' => Inv'
<1> SUFFICES ASSUME Inv, Store, TypeOK' PROVE Inv'
  OBVIOUS
<1>1. PICK c \in Keys \ {"CR", "BS"} :
        /\ GetChar(c)
        /\ IF len < LINE_MAX
             THEN len' = len + 1 /\ buf' = [buf EXCEPT ![len] = c] /\ screen' = Shown(c)
             ELSE UNCHANGED lineVars
        /\ UNCHANGED pc
  BY DEF Store
<1>2. pc' = "read" /\ c \notin {"CR", "BS"} /\ (c # "NUL" => c \in Letters)
  BY <1>1, KeysAre DEF GetChar
<1>3. /\ TypeOK /\ len \in 0 .. LINE_MAX /\ len \in Nat /\ LINE_MAX \in Nat
      /\ Line \in Seq(Keys) /\ Len(Line) = len /\ buf \in [0 .. LINE_MAX -> Keys]
      /\ \A i \in 1 .. len : Line[i] = buf[i - 1]
  BY LineType, SizesAssumption DEF Inv, TypeOK
<1>4. CASE len < LINE_MAX
  <2>1. len' = len + 1 /\ buf' = [buf EXCEPT ![len] = c] /\ screen' = Shown(c)
    BY <1>1, <1>4
  <2>2. Line' = Append(Line, c)
    <3>1. Line' = [i \in 1 .. len + 1 |-> buf'[i - 1]]
      BY <2>1 DEF Line
    <3>2. Append(Line, c) = [i \in 1 .. len + 1 |-> IF i = len + 1 THEN c ELSE Line[i]]
      <4>1. PICK line, more : line = Line /\ more = Append(line, c)
        OBVIOUS
      <4> HIDE DEF Keys
      <4>2. /\ more \in Seq(Keys) /\ Len(more) = len + 1
            /\ (\A i \in 1 .. len : more[i] = line[i]) /\ more[len + 1] = c
        BY <1>3, <4>1, AppendProperties
      <4>3. more = [i \in 1 .. len + 1 |-> more[i]]
        BY <1>3, <4>2
      <4>4. \A i \in 1 .. len + 1 : more[i] = IF i = len + 1 THEN c ELSE line[i]
        BY <1>3, <4>2
      <4> QED
        BY <4>1, <4>3, <4>4
    <3>3. ASSUME NEW i \in 1 .. len + 1 PROVE buf'[i - 1] = IF i = len + 1 THEN c ELSE Line[i]
      <4>1. i - 1 \in 0 .. LINE_MAX /\ len \in 0 .. LINE_MAX /\ (i - 1 = len <=> i = len + 1)
        BY <1>3, <1>4
      <4>2. buf'[i - 1] = IF i - 1 = len THEN c ELSE buf[i - 1]
        BY <1>3, <2>1, <4>1
      <4>3. i # len + 1 => i \in 1 .. len
        BY <1>3
      <4> QED
        BY <1>3, <4>1, <4>2, <4>3
    <3> QED
      BY <3>1, <3>2, <3>3
  <2>3. Heard([line |-> Line, answers |-> answers], c) = [line |-> Line', answers |-> answers]
    BY <1>2, <1>3, <1>4, <2>2 DEF Heard
  <2>4. screen = Line /\ c # "NUL" => screen' = Line'
    BY <1>2, <2>1, <2>2 DEF Shown
  <2> QED
    BY <1>1, <1>2, <2>3, <2>4, EditKeeps
<1>5. CASE ~ (len < LINE_MAX)
  <2>1. Line' = Line /\ screen' = screen
    BY <1>1, <1>5 DEF lineVars, Line
  <2>2. Heard([line |-> Line, answers |-> answers], c) = [line |-> Line', answers |-> answers]
    BY <1>2, <1>3, <1>5, <2>1 DEF Heard
  <2> QED
    BY <1>1, <1>2, <2>1, <2>2, EditKeeps
<1> QED
  BY <1>4, <1>5

\* The terminator is stored behind the line, which stays what it was.
LEMMA EndOfLineKeeps == Inv /\ EndOfLine /\ TypeOK' => Inv'
<1> SUFFICES ASSUME Inv, EndOfLine, TypeOK' PROVE Inv'
  OBVIOUS
<1>1. /\ GetChar("CR") /\ buf' = [buf EXCEPT ![len] = "NUL"] /\ pc' = "dispatch" /\ pc = "read"
      /\ len' = len /\ screen' = screen
  BY DEF EndOfLine, GetChar
<1>2. LINE_MAX \in Nat /\ len \in 0 .. LINE_MAX /\ len \in Nat /\ buf \in [0 .. LINE_MAX -> Keys]
  BY SizesAssumption DEF Inv, TypeOK
<1>3. Line' = Line /\ buf'[len'] = "NUL"
  <2>1. \A i \in 1 .. len : buf'[i - 1] = buf[i - 1]
    <3>1. \A i \in 1 .. len : i - 1 \in 0 .. LINE_MAX /\ i - 1 # len
      BY <1>2
    <3> QED
      BY <1>1, <1>2, <3>1
  <2> QED
    BY <1>1, <1>2, <2>1 DEF Line
<1>4. ReceiverInv'
  BY <1>1, GetCharKeeps DEF ReceiverInv
<1>5. LineInv'
  <2>1. ASSUME clean
        PROVE  /\ Heeded' >= 1 /\ typed[Heeded'] = "CR"
               /\ Session(typed)[Heeded' - 1] = [line |-> Line, answers |-> answers]
    <3>1. Heeded' = Heeded + 1 /\ Heeded \in Nat /\ Heeded' - 1 = Heeded /\ typed[Heeded'] = "CR"
      <4>1. GetChar("CR") => Heeded' = Heeded + 1 /\ Heeded \in Nat /\ typed[Heeded'] = "CR"
        BY <2>1, GetCharKeeps
      <4> QED
        BY <1>1, <4>1
    <3>2. Session(typed)[Heeded] = [line |-> Line, answers |-> answers]
      BY <1>1, <2>1 DEF Inv, LineInv
    <3> QED
      BY <3>1, <3>2
  <2>2. typed' = typed /\ answers' = answers /\ clean' = clean
    BY <1>1, GetCharKeeps
  <2> HIDE DEF Heeded, Line
  <2> QED
    BY <1>1, <1>3, <2>1, <2>2 DEF LineInv
<1>6. ScreenInv'
  BY <1>1, GetCharKeeps DEF ScreenInv
<1> QED
  BY <1>4, <1>5, <1>6 DEF Inv

\* Of a line with its end, the line is forgotten and what it says answered.
LEMMA LineEnds ==
    ASSUME Inv, pc = "dispatch", clean
    PROVE  Session(typed)[Heeded] =
             [line |-> <<>>, answers |-> IF Text(Line) = <<>> THEN answers
                                         ELSE Append(answers, Meaning(Text(Line)))]
<1>1. /\ Heeded >= 1 /\ typed[Heeded] = "CR"
      /\ Session(typed)[Heeded - 1] = [line |-> Line, answers |-> answers]
  BY DEF Inv, LineInv
<1>2. typed \in Seq(Keys) /\ Len(typed) \in Nat /\ Len(fifo) \in Nat
  BY DEF Inv, TypeOK
<1>3. Heeded - 1 \in 0 .. Len(typed) - 1 /\ (Heeded - 1) + 1 = Heeded
  BY <1>1, <1>2 DEF Heeded
<1>4. Session(typed)[Heeded] = Heard(Session(typed)[Heeded - 1], typed[Heeded])
  <2>1. Session(typed)[(Heeded - 1) + 1] = Heard(Session(typed)[Heeded - 1], typed[(Heeded - 1) + 1])
    BY <1>2, <1>3, SessionIs
  <2> QED
    BY <1>3, <2>1
<1>5. Heard([line |-> Line, answers |-> answers], "CR") =
        [line |-> <<>>, answers |-> IF Text(Line) = <<>> THEN answers
                                    ELSE Append(answers, Meaning(Text(Line)))]
  BY DEF Heard
<1> QED
  BY <1>1, <1>4, <1>5

\* The program does something else than read.
LEMMA OthersKeep ==
    ASSUME Inv, Enter \/ Prompt \/ EmptyLine \/ Dispatch \/ UNCHANGED vars, TypeOK'
    PROVE  Inv'
<1>1. typed' = typed /\ clean' = clean
  BY DEF Enter, Prompt, EmptyLine, Dispatch, vars
<1>2. pc = "dispatch" /\ clean => buf[len] = "NUL"
  BY DEF Inv, LineInv
<1>3. TypeOK
  BY DEF Inv
<1>4. Len(<<>>) = 0 /\ (len' = 0 => Line' = <<>>)
  BY DEF Line
<1>5. CASE Enter
  <2>1. fifo' \in {fifo, Tail(fifo)} /\ pc = "enter" /\ pc' = "flush" /\ answers' = answers
    BY <1>5 DEF Enter
  <2>2. clean => fifo = <<>> /\ fifo' = <<>>
    <3>1. clean => Len(fifo) <= Len(typed) /\ typed = <<>>
      BY <2>1 DEF Inv, ReceiverInv
    <3>2. fifo # <<>> => Len(fifo) >= 1
      BY <1>3, RestOfFifo
    <3>3. clean => fifo = <<>>
      BY <3>1, <3>2
    <3> QED
      BY <1>5, <3>3 DEF Enter
  <2>3. ReceiverInv' /\ LineInv'
    <3>1. clean => Heeded' = Heeded
      BY <1>1, <2>2 DEF Heeded
    <3> QED
      BY <1>1, <2>1, <2>2, <3>1 DEF Inv, ReceiverInv, LineInv
  <2>4. ScreenInv'
    <3>1. SUFFICES ASSUME \A i \in 1 .. Len(typed) : typed[i] # "NUL"
                   PROVE  \A i \in 1 .. Len(fifo') : fifo'[i] # "NUL"
      BY <1>1, <2>1 DEF ScreenInv
    <3>2. \A i \in 1 .. Len(fifo) : fifo[i] # "NUL"
      BY <3>1 DEF Inv, ScreenInv
    <3>3. CASE fifo' = fifo
      BY <3>2, <3>3
    <3>4. CASE fifo # <<>> /\ fifo' = Tail(fifo)
      <4>1. \A i \in 1 .. Len(Tail(fifo)) : Tail(fifo)[i] = fifo[i + 1] /\ i + 1 \in 1 .. Len(fifo)
        <5>1. fifo \in Seq(Keys) /\ Len(fifo) \in Nat
          BY <1>3 DEF TypeOK
        <5> QED
          BY <1>3, <3>4, <5>1, RestOfFifo
      <4> QED
        BY <3>2, <3>4, <4>1
    <3> QED
      BY <1>5, <3>3, <3>4 DEF Enter
  <2> QED
    BY <2>3, <2>4 DEF Inv
<1>6. CASE Prompt \/ EmptyLine
  <2>1. /\ fifo' = fifo /\ answers' = answers /\ pc' = "read" /\ len' = 0 /\ screen' = <<>>
        /\ Line' = <<>> /\ Heeded' = Heeded
    BY <1>1, <1>4, <1>6 DEF Prompt, EmptyLine, Heeded
  <2>2. clean => Session(typed)[Heeded] = [line |-> <<>>, answers |-> answers]
    <3>1. CASE Prompt
      BY <3>1 DEF Prompt, Inv, LineInv
    <3>2. CASE EmptyLine
      <4>1. pc = "dispatch" /\ buf[0] = "NUL"
        BY <3>2 DEF EmptyLine
      <4> QED
        BY <1>2, <1>3, <4>1, EmptyIs, LineEnds
    <3> QED
      BY <1>6, <3>1, <3>2
  <2>3. ReceiverInv'
    BY <1>1, <2>1 DEF Inv, ReceiverInv
  <2>4. LineInv'
    BY <1>1, <2>1, <2>2 DEF LineInv
  <2>5. ScreenInv'
    BY <1>1, <2>1 DEF Inv, ScreenInv
  <2> QED
    BY <2>3, <2>4, <2>5 DEF Inv
<1>7. CASE Dispatch
  <2>1. PICK c \in Answers :
          /\ IF c = "!" THEN \A d \in DOMAIN Commands : ~ LineEq(Commands[d])
                        ELSE LineEq(Commands[c])
          /\ answers' = Append(answers, c)
          /\ pc' = IF c = "reset" THEN "reset" ELSE "run"
    BY <1>7 DEF Dispatch, Answers
  <2>2. pc = "dispatch" /\ buf[0] # "NUL" /\ fifo' = fifo /\ Heeded' = Heeded /\ pc' \in {"run", "reset"}
    BY <1>1, <1>7, <2>1 DEF Dispatch, Heeded
  <2>3. clean => Session(typed)[Heeded] = [line |-> <<>>, answers |-> answers']
    BY <1>2, <1>3, <2>1, <2>2, AnswerIs, EmptyIs, LineEnds
  <2>4. ReceiverInv'
    BY <1>1, <2>2 DEF Inv, ReceiverInv
  <2>5. LineInv'
    BY <1>1, <2>2, <2>3 DEF LineInv
  <2>6. ScreenInv'
    BY <1>1, <2>2 DEF Inv, ScreenInv
  <2> QED
    BY <2>4, <2>5, <2>6 DEF Inv
<1>8. CASE UNCHANGED vars
  BY <1>8 DEF vars, lineVars, Inv, ReceiverInv, LineInv, ScreenInv, Heeded, Line
<1> QED
  BY <1>5, <1>6, <1>7, <1>8

\* Every step keeps the invariant.
LEMMA InvPreserved == Inv /\ [Next]_vars => Inv'
<1> SUFFICES ASSUME Inv, [Next]_vars PROVE Inv'
  OBVIOUS
<1>1. TypeOK'
  BY TypePreserved DEF Inv
<1>2. ASSUME NEW k \in Keys, Type(k) PROVE Inv'
  BY <1>1, <1>2, TypeKeeps
<1>3. CASE EndOfLine \/ Backspace \/ Store
  BY <1>1, <1>3, EndOfLineKeeps, BackspaceKeeps, StoreKeeps
<1>4. CASE Enter \/ Prompt \/ EmptyLine \/ Dispatch \/ UNCHANGED vars
  BY <1>1, <1>4, OthersKeep
<1> QED
  BY <1>2, <1>3, <1>4 DEF Next, Repl

\* The answers given are those expected to the bytes heeded, with which those
\* to all the bytes begin.
LEMMA InvImplies == Inv => CommandsAsTyped /\ ScreenShowsLine
<1> SUFFICES ASSUME Inv PROVE CommandsAsTyped /\ ScreenShowsLine
  OBVIOUS
<1>1. ScreenShowsLine
  BY DEF Inv, ScreenInv, ScreenShowsLine
<1>2. typed \in Seq(Keys) /\ Len(typed) \in Nat /\ Len(fifo) \in Nat /\ answers \in Seq(Answers)
  BY DEF Inv, TypeOK, Answers
<1>3. SUFFICES ASSUME clean
               PROVE  /\ IsPrefix(answers, Expected)
                      /\ pc = "read" /\ fifo = <<>> => answers = Expected
  BY <1>1 DEF CommandsAsTyped
<1>4. Len(fifo) <= Len(typed) /\ Heeded \in 0 .. Len(typed)
  BY <1>2, <1>3 DEF Inv, ReceiverInv, Heeded
<1>5. PICK n \in 0 .. Len(typed) : Session(typed)[n].answers = answers
  <2>1. CASE pc = "dispatch"
    <3>1. Heeded >= 1 /\ Session(typed)[Heeded - 1].answers = answers
      BY <1>3, <2>1 DEF Inv, LineInv
    <3>2. Heeded - 1 \in 0 .. Len(typed)
      BY <1>2, <1>4, <3>1
    <3> QED
      BY <3>1, <3>2
  <2>2. CASE pc # "dispatch"
    <3>1. Session(typed)[Heeded].answers = answers
      BY <1>3, <2>2 DEF Inv, LineInv
    <3> QED
      BY <1>4, <3>1
  <2> QED
    BY <2>1, <2>2
<1>6. Begins(answers, Expected)
  BY <1>2, <1>5, SessionGrows DEF Expected
<1>7. Expected \in Seq(Answers)
  <2>1. Session(typed)[Len(typed)] \in Sessions
    BY <1>2, SessionIs
  <2> QED
    BY <2>1 DEF Expected, Sessions
<1> HIDE DEF Answers
<1>8. IsPrefix(answers, Expected)
  <2>1. PICK e : e = Expected
    OBVIOUS
  <2>2. /\ e \in Seq(Answers) /\ Len(answers) \in Nat /\ Len(e) \in Nat /\ Len(answers) <= Len(e)
        /\ \A i \in 1 .. Len(answers) : answers[i] = e[i]
    BY <1>2, <1>6, <1>7, <2>1 DEF Begins
  <2>3. SubSeq(answers, 1, Len(answers)) = [i \in 1 .. Len(answers) |-> answers[i]]
    BY <1>2, <2>2
  <2>4. SubSeq(e, 1, Len(answers)) = [i \in 1 .. Len(answers) |-> e[i]]
    BY <2>2
  <2>5. SubSeq(answers, 1, Len(answers)) = SubSeq(e, 1, Len(answers))
    BY <2>2, <2>3, <2>4
  <2> QED
    BY <2>1, <2>2, <2>5 DEF IsPrefix
<1>9. ASSUME pc = "read", fifo = <<>> PROVE answers = Expected
  <2>1. Heeded = Len(typed)
    BY <1>2, <1>9 DEF Heeded
  <2>2. Session(typed)[Heeded].answers = answers
    BY <1>3, <1>9 DEF Inv, LineInv
  <2> QED
    BY <2>1, <2>2 DEF Expected
<1> QED
  BY <1>8, <1>9

\* Receiver, buffer and answers agree with what was sent, in every state of
\* repl_read_line() and repl_dispatch().
THEOREM Invariant == Spec => []Inv
BY Initially, InvPreserved, PTL DEF Spec

\* As long as the receiver loses no byte and none came before the prompt, each
\* line is answered once, in order, by the command that it says: whatever
\* LINE_BUF held before, however it was corrected, however long it is.
THEOREM CommandsAsTypedCorrect == Spec => []CommandsAsTyped
BY Invariant, InvImplies, PTL

\* What the terminal shows is what repl_dispatch() will compare, unless a byte
\* was sent that is stored and not shown.
THEOREM ScreenShowsLineCorrect == Spec => []ScreenShowsLine
BY Invariant, InvImplies, PTL
=============================================================================
