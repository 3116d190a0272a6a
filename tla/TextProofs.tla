----------------------------- MODULE TextProofs -----------------------------
(***************************************************************************)
(* The algorithms that go through a text or a list of words, for every     *)
(* input.  What they compute is a function over the positions of the text, *)
(* each value made of the one before: such a function exists (Recursion),  *)
(* so it is the one the definition chooses, and what holds at every        *)
(* position is shown from one position to the next (UpTo).                 *)
(***************************************************************************)
EXTENDS CommandLine, HostFiles, Integers, SequenceTheorems, FiniteSetTheorems,
        NaturalsInduction, WellFoundedInduction, TLAPS

(* Induction over a set of numbers *)
LEMMA SetInduction ==
  ASSUME NEW S, 0 \in S, \A n \in Nat : n \in S => n + 1 \in S
  PROVE  Nat \subseteq S
  <1> DEFINE Less == {x \in Nat \X Nat : x[1] < x[2]}
  <1>1. IsWellFoundedOn(Less, Nat)
    BY NatLessThanWellFounded DEF OpToRel
  <1>2. \A x, y \in Nat : x < y => <<x, y>> \in Less
    OBVIOUS
  <1> HIDE DEF Less
  <1> SUFFICES ASSUME Nat \ S # {} PROVE FALSE
    OBVIOUS
  <1>3. PICK p \in Nat \ S : \A q \in Nat \ S : <<q, p>> \notin Less
    BY <1>1, WFMin
  <1>4. p # 0 /\ p - 1 \in Nat /\ p - 1 < p /\ p - 1 + 1 = p
    BY <1>3
  <1>5. p - 1 \in S
    BY <1>2, <1>3, <1>4
  <1> QED
    BY <1>3, <1>4, <1>5

(* What holds at the start and passes to the next position holds at all. *)
LEMMA UpTo ==
  ASSUME NEW n \in Nat, NEW S, 0 \in S, \A i \in 1 .. n : i - 1 \in S => i \in S
  PROVE  n \in S /\ \A i \in 0 .. n : i \in S
  <1> DEFINE T == {m \in Nat : m <= n => m \in S}
  <1>1. ASSUME NEW m \in Nat, m \in T, m + 1 <= n PROVE m + 1 \in S
    <2>1. m + 1 \in 1 .. n /\ m + 1 - 1 = m /\ m \in S
      BY <1>1
    <2> QED
      BY <2>1
  <1>2. 0 \in T /\ \A m \in Nat : m \in T => m + 1 \in T
    BY <1>1
  <1> HIDE DEF T
  <1>3. Nat \subseteq T
    BY <1>2, SetInduction
  <1> QED
    BY <1>3 DEF T

Steps(f, n, base, step) == f[0] = base /\ \A i \in 1 .. n : f[i] = step[i][f[i - 1]]

(* A function made step by step exists. *)
LEMMA Recursion ==
  ASSUME NEW n \in Nat, NEW X, NEW base \in X, NEW step \in [1 .. n -> [X -> X]]
  PROVE  \E f \in [0 .. n -> X] : Steps(f, n, base, step)
  <1> DEFINE Good(m) == m <= n => \E f \in [0 .. m -> X] : Steps(f, m, base, step)
             S == {m \in Nat : Good(m)}
  <1>1. Good(0)
    <2> DEFINE g == [i \in 0 .. 0 |-> base]
    <2>1. g \in [0 .. 0 -> X] /\ g[0] = base
      OBVIOUS
    <2> HIDE DEF g
    <2>2. Steps(g, 0, base, step)
      BY <2>1 DEF Steps
    <2> QED
      BY <2>1, <2>2
  <1>2. ASSUME NEW m \in Nat, Good(m) PROVE Good(m + 1)
    <2> SUFFICES ASSUME m + 1 <= n
                 PROVE  \E f \in [0 .. m + 1 -> X] : Steps(f, m + 1, base, step)
      OBVIOUS
    <2>1. PICK f \in [0 .. m -> X] : Steps(f, m, base, step)
      BY <1>2
    <2> DEFINE last == step[m + 1][f[m]]
    <2>2. last \in X
      <3>1. m + 1 \in 1 .. n /\ f[m] \in X
        OBVIOUS
      <3> QED
        BY <3>1
    <2> HIDE DEF last
    <2> DEFINE g == [i \in 0 .. m + 1 |-> IF i = m + 1 THEN last ELSE f[i]]
    <2>3. g \in [0 .. m + 1 -> X] /\ g[m + 1] = last /\ \A i \in 0 .. m : g[i] = f[i]
      BY <2>2
    <2> HIDE DEF g
    <2>4. ASSUME NEW i \in 1 .. m PROVE g[i] = step[i][g[i - 1]]
      <3>1. g[i] = f[i] /\ g[i - 1] = f[i - 1]
        BY <2>3
      <3> QED
        BY <3>1, <2>1 DEF Steps
    <2>5. g[m + 1] = step[m + 1][g[m + 1 - 1]]
      <3>1. m + 1 - 1 = m /\ g[m] = f[m]
        BY <2>3
      <3> QED
        BY <3>1, <2>3 DEF last
    <2>6. g[0] = base
      BY <2>1, <2>3 DEF Steps
    <2>7. \A i \in 1 .. m + 1 : i \in 1 .. m \/ i = m + 1
      OBVIOUS
    <2>8. Steps(g, m + 1, base, step)
      BY <2>4, <2>5, <2>6, <2>7 DEF Steps
    <2> QED
      BY <2>3, <2>8
  <1> HIDE DEF Good
  <1>3. 0 \in S /\ \A m \in Nat : m \in S => m + 1 \in S
    BY <1>1, <1>2
  <1> HIDE DEF S
  <1>4. Nat \subseteq S
    BY <1>3, SetInduction
  <1> QED
    BY <1>4 DEF S, Good

LEMMA StaysIn ==
  ASSUME NEW n \in Nat, NEW X, NEW f, DOMAIN f = 0 .. n,
         f[0] \in X, \A i \in 1 .. n : f[i - 1] \in X => f[i] \in X
  PROVE  \A i \in 0 .. n : f[i] \in X
  <1> DEFINE S == {i \in 0 .. n : f[i] \in X}
  <1>1. 0 \in S /\ \A i \in 1 .. n : i - 1 \in S => i \in S
    OBVIOUS
  <1> HIDE DEF S
  <1>2. \A i \in 0 .. n : i \in S
    BY <1>1, UpTo
  <1> QED
    BY <1>2 DEF S

(* Sequences put together, position by position *)
LEMMA ConcatIs ==
  ASSUME NEW X, NEW a \in Seq(X), NEW b \in Seq(X)
  PROVE  /\ a \o b \in Seq(X) /\ Len(a \o b) = Len(a) + Len(b)
         /\ \A i \in 1 .. Len(a) : (a \o b)[i] = a[i]
         /\ \A i \in 1 .. Len(b) : (a \o b)[Len(a) + i] = b[i]
  <1>1. /\ a \o b \in Seq(X) /\ Len(a \o b) = Len(a) + Len(b)
        /\ \A i \in 1 .. Len(a) + Len(b) :
             (a \o b)[i] = IF i <= Len(a) THEN a[i] ELSE b[i - Len(a)]
    BY ConcatProperties
  <1>2. Len(a) \in Nat /\ Len(b) \in Nat
    OBVIOUS
  <1>3. ASSUME NEW i \in 1 .. Len(a) PROVE (a \o b)[i] = a[i]
    <2>1. i \in 1 .. Len(a) + Len(b) /\ i <= Len(a)
      BY <1>2
    <2> QED
      BY <1>1, <2>1
  <1>4. ASSUME NEW i \in 1 .. Len(b) PROVE (a \o b)[Len(a) + i] = b[i]
    <2>1. Len(a) + i \in 1 .. Len(a) + Len(b) /\ ~(Len(a) + i <= Len(a))
          /\ Len(a) + i - Len(a) = i
      BY <1>2
    <2> QED
      BY <1>1, <2>1
  <1> QED
    BY <1>1, <1>3, <1>4

LEMMA SubSeqIs ==
  ASSUME NEW X, NEW s \in Seq(X), NEW m \in Nat \ {0}, NEW n \in Nat, n <= Len(s), m <= n + 1
  PROVE  /\ SubSeq(s, m, n) \in Seq(X) /\ Len(SubSeq(s, m, n)) = n - m + 1
         /\ \A i \in 1 .. n - m + 1 : SubSeq(s, m, n)[i] = s[m + i - 1]
  <1>1. \A i \in m .. n : s[i] \in X
    OBVIOUS
  <1>2. m \in Int /\ n \in Int
    OBVIOUS
  <1>3. /\ SubSeq(s, m, n) \in Seq(X)
        /\ Len(SubSeq(s, m, n)) = IF m <= n THEN n - m + 1 ELSE 0
        /\ \A i \in 1 .. n - m + 1 : SubSeq(s, m, n)[i] = s[m + i - 1]
    BY <1>1, <1>2, SubSeqProperties
  <1> QED
    BY <1>3

-----------------------------------------------------------------------------
(* A word read from its start: what is made of it is made of what its      *)
(* first part gave and its last element.                                   *)
Fold(step, base, word) ==
  LET f[i \in 0 .. Len(word)] == IF i = 0 THEN base ELSE step[f[i - 1]][word[i]]
  IN  f[Len(word)]

FoldsBy(f, step, base, word) ==
  f[0] = base /\ \A i \in 1 .. Len(word) : f[i] = step[f[i - 1]][word[i]]

Stepper(X, C) == [X -> [C -> X]]
Folding(X, step, base, word) ==
  \E f \in [0 .. Len(word) -> X] :
    FoldsBy(f, step, base, word) /\ Fold(step, base, word) = f[Len(word)]

LEMMA FoldExists ==
  ASSUME NEW X, NEW C, NEW base \in X, NEW step \in Stepper(X, C), NEW word \in Seq(C)
  PROVE  Folding(X, step, base, word)
  <1> DEFINE n == Len(word)
             f[i \in 0 .. Len(word)] == IF i = 0 THEN base ELSE step[f[i - 1]][word[i]]
             turn == [i \in 1 .. n |-> [x \in X |-> step[x][word[i]]]]
  <1>1. n \in Nat /\ \A i \in 1 .. n : word[i] \in C
    OBVIOUS
  <1>2. turn \in [1 .. n -> [X -> X]]
    <2>1. ASSUME NEW i \in 1 .. n, NEW x \in X PROVE step[x][word[i]] \in X
      BY <1>1 DEF Stepper
    <2> HIDE DEF n
    <2> QED
      BY <2>1
  <1>3. PICK g \in [0 .. n -> X] : Steps(g, n, base, turn)
    <2> HIDE DEF n, turn
    <2> QED
      BY <1>1, <1>2, Recursion
  <1>4. ASSUME NEW i \in 1 .. n PROVE g[i] = step[g[i - 1]][word[i]]
    <2> HIDE DEF n
    <2>1. g[i - 1] \in X
      <3>1. i - 1 \in 0 .. n
        BY <1>1
      <3> QED
        BY <3>1
    <2>2. g[i] = turn[i][g[i - 1]]
      BY <1>3 DEF Steps
    <2> QED
      BY <2>1, <2>2
  <1>5. g = [i \in 0 .. n |-> IF i = 0 THEN base ELSE step[g[i - 1]][word[i]]]
    <2>1. g[0] = base
      BY <1>3 DEF Steps
    <2> HIDE DEF n, turn
    <2>2. \A i \in 0 .. n : i # 0 => i \in 1 .. n
      BY <1>1
    <2>3. \A i \in 0 .. n : g[i] = IF i = 0 THEN base ELSE step[g[i - 1]][word[i]]
      BY <1>4, <2>1, <2>2
    <2> QED
      BY <2>3
  <1>6. f = [i \in 0 .. n |-> IF i = 0 THEN base ELSE step[f[i - 1]][word[i]]]
    BY <1>5
  <1>7. Fold(step, base, word) = f[n]
    BY DEF Fold
  <1> HIDE DEF f, turn, n
  <1>8. f[0] = base /\ DOMAIN f = 0 .. n
    BY <1>1, <1>6
  <1>9. \A i \in 1 .. n : f[i] = step[f[i - 1]][word[i]]
    <2>1. \A i \in 1 .. n : i \in 0 .. n /\ i # 0
      BY <1>1
    <2> QED
      BY <1>6, <2>1
  <1>10. \A i \in 0 .. n : f[i] \in X
    <2>1. \A i \in 1 .. n : f[i - 1] \in X => f[i] \in X
      BY <1>1, <1>9 DEF Stepper
    <2> QED
      BY <1>1, <1>8, <2>1, StaysIn, Zenon
  <1>11. f \in [0 .. n -> X]
    BY <1>6, <1>8, <1>10
  <1> QED
    BY <1>7, <1>8, <1>9, <1>11 DEF FoldsBy, Folding, n

(* It is what every function made by the same steps ends with. *)
LEMMA FoldIs ==
  ASSUME NEW X, NEW C, NEW base \in X, NEW step \in Stepper(X, C), NEW word \in Seq(C),
         NEW g, FoldsBy(g, step, base, word)
  PROVE  Fold(step, base, word) = g[Len(word)]
  <1> DEFINE n == Len(word)
  <1>1. PICK f \in [0 .. n -> X] :
          FoldsBy(f, step, base, word) /\ Fold(step, base, word) = f[n]
    BY FoldExists DEF Folding
  <1> DEFINE S == {i \in 0 .. n : f[i] = g[i]}
  <1>2. n \in Nat
    OBVIOUS
  <1>3. ASSUME NEW i \in 1 .. n, i - 1 \in S PROVE i \in S
    <2>1. f[i - 1] = g[i - 1] /\ i \in 0 .. n
      BY <1>2, <1>3
    <2>2. f[i] = step[f[i - 1]][word[i]] /\ g[i] = step[g[i - 1]][word[i]]
      BY <1>1 DEF FoldsBy
    <2> QED
      BY <2>1, <2>2
  <1>4. 0 \in S
    BY <1>1, <1>2 DEF FoldsBy
  <1>5. \A i \in 1 .. n : i - 1 \in S => i \in S
    BY <1>3
  <1> HIDE DEF S
  <1>6. n \in S
    BY <1>2, <1>4, <1>5, UpTo, Zenon
  <1> QED
    BY <1>1, <1>6 DEF S

LEMMA FoldGrows ==
  ASSUME NEW X, NEW C, NEW base \in X, NEW step \in Stepper(X, C)
  PROVE  /\ Fold(step, base, <<>>) = base
         /\ \A word \in Seq(C) : Fold(step, base, word) \in X
         /\ \A word \in Seq(C), c \in C :
              Fold(step, base, Append(word, c)) = step[Fold(step, base, word)][c]
  <1>1. Fold(step, base, <<>>) = base
    <2> DEFINE word == <<>>
    <2>1. word \in Seq(C) /\ Len(word) = 0
      OBVIOUS
    <2> HIDE DEF word
    <2>1a. Folding(X, step, base, word)
      BY <2>1, FoldExists
    <2>2. PICK f \in [0 .. Len(word) -> X] :
            FoldsBy(f, step, base, word) /\ Fold(step, base, word) = f[Len(word)]
      BY <2>1a DEF Folding
    <2>3. f[0] = base /\ Fold(step, base, word) = f[0]
      BY <2>1, <2>2 DEF FoldsBy
    <2> QED
      BY <2>3 DEF word
  <1>2. ASSUME NEW word \in Seq(C) PROVE Fold(step, base, word) \in X
    <2>1. PICK f \in [0 .. Len(word) -> X] :
            FoldsBy(f, step, base, word) /\ Fold(step, base, word) = f[Len(word)]
      BY FoldExists DEF Folding
    <2>2. Len(word) \in Nat
      OBVIOUS
    <2> QED
      BY <2>1, <2>2
  <1>3. ASSUME NEW word \in Seq(C), NEW c \in C
        PROVE  Fold(step, base, Append(word, c)) = step[Fold(step, base, word)][c]
    <2> DEFINE n == Len(word)
               longer == Append(word, c)
    <2>1. /\ longer \in Seq(C) /\ Len(longer) = n + 1 /\ longer[n + 1] = c
          /\ \A i \in 1 .. n : longer[i] = word[i]
      OBVIOUS
    <2>2. n \in Nat
      OBVIOUS
    <2> HIDE DEF longer
    <2>3. PICK f \in [0 .. Len(longer) -> X] :
            FoldsBy(f, step, base, longer) /\ Fold(step, base, longer) = f[Len(longer)]
      BY <2>1, FoldExists DEF Folding
    <2>4. f[0] = base /\ \A i \in 1 .. n + 1 : f[i] = step[f[i - 1]][longer[i]]
      BY <2>1, <2>3 DEF FoldsBy
    <2>5. FoldsBy(f, step, base, word)
      <3>1. \A i \in 1 .. n : i \in 1 .. n + 1
        BY <2>2
      <3> QED
        BY <2>1, <2>4, <3>1 DEF FoldsBy
    <2>6. Fold(step, base, word) = f[n]
      BY <2>5, FoldIs
    <2>7. f[n + 1] = step[f[n]][c]
      <3> HIDE DEF n
      <3>1. \A m \in Nat : m = n + 1 => m \in 1 .. n + 1 /\ m - 1 = n
        BY <2>2
      <3>2. \A m \in Nat : m = n + 1 => f[m] = step[f[n]][longer[m]]
        BY <2>4, <3>1
      <3>3. n + 1 \in Nat
        BY <2>2
      <3> QED
        BY <2>1, <3>2, <3>3
    <2> QED
      BY <2>1, <2>3, <2>6, <2>7 DEF longer
  <1> QED
    BY <1>1, <1>2, <1>3

(* Induction over words *)
LEMMA WordInduction ==
  ASSUME NEW C, NEW S, <<>> \in S,
         \A word \in Seq(C), c \in C : word \in S => Append(word, c) \in S
  PROVE  \A word \in Seq(C) : word \in S
  <1> SUFFICES ASSUME NEW word \in Seq(C) PROVE word \in S
    OBVIOUS
  <1> DEFINE n == Len(word)
             T == {i \in 0 .. n : SubSeq(word, 1, i) \in S}
  <1>1. n \in Nat
    OBVIOUS
  <1>2. 0 \in T
    <2>1. SubSeq(word, 1, 0) = <<>>
      OBVIOUS
    <2>2. 0 \in 0 .. n
      BY <1>1
    <2> HIDE DEF n
    <2> QED
      BY <2>1, <2>2
  <1>3. ASSUME NEW i \in 1 .. n, i - 1 \in T PROVE i \in T
    <2>1. i - 1 \in Nat /\ i \in 0 .. n /\ i - 1 <= n /\ i <= n
      BY <1>1
    <2> DEFINE a == SubSeq(word, 1, i - 1)
               b == SubSeq(word, 1, i)
    <2>2. a \in Seq(C) /\ word[i] \in C /\ Len(a) = i - 1
          /\ \A j \in 1 .. i - 1 : a[j] = word[j]
      <3>1. /\ a \in Seq(C) /\ Len(a) = i - 1 - 1 + 1
            /\ \A j \in 1 .. i - 1 - 1 + 1 : a[j] = word[1 + j - 1]
        BY <2>1, SubSeqIs
      <3> HIDE DEF a
      <3> QED
        BY <2>1, <3>1
    <2>3. b \in Seq(C) /\ Len(b) = i /\ \A j \in 1 .. i : b[j] = word[j]
      <3>1. /\ b \in Seq(C) /\ Len(b) = i - 1 + 1
            /\ \A j \in 1 .. i - 1 + 1 : b[j] = word[1 + j - 1]
        BY <2>1, SubSeqIs
      <3> HIDE DEF b
      <3> QED
        BY <2>1, <3>1
    <2> HIDE DEF a, b
    <2>4. b = Append(a, word[i])
      <3> DEFINE c == Append(a, word[i])
      <3>1. c \in Seq(C) /\ Len(c) = i /\ c[i] = word[i] /\ \A j \in 1 .. i - 1 : c[j] = a[j]
        BY <2>1, <2>2
      <3> HIDE DEF c
      <3>2. \A j \in 1 .. i : j = i \/ j \in 1 .. i - 1
        BY <2>1
      <3>3. \A j \in 1 .. Len(b) : b[j] = c[j]
        BY <2>2, <2>3, <3>1, <3>2
      <3>4. b = c
        BY <2>3, <3>1, <3>3, SeqEqual
      <3> QED
        BY <3>4 DEF c
    <2>5. a \in S
      BY <1>3 DEF a
    <2> QED
      BY <2>1, <2>2, <2>4, <2>5 DEF b
  <1> HIDE DEF T
  <1>4. n \in T
    BY <1>1, <1>2, <1>3, UpTo
  <1>5. SubSeq(word, 1, n) = word
    BY SubSeqFull
  <1> QED
    BY <1>4, <1>5 DEF T

-----------------------------------------------------------------------------
(* The loops over the words, turn by turn *)
LEMMA NextIs ==
  ASSUME NEW X, NEW words \in Seq(X), NEW i \in Nat
  PROVE  /\ NextIndex(words, i) \in Nat /\ NextRead(words, i) \in Nat
         /\ NextIndex(words, i) >= i /\ NextRead(words, i) >= i
         /\ Stops(words, i) => NextIndex(words, i) = i /\ NextRead(words, i) = i
         /\ ~Stops(words, i) => NextIndex(words, i) > i /\ NextRead(words, i) > i
  BY DEF NextIndex, NextRead

LEMMA LoopIndexIs ==
  ASSUME NEW X, NEW words \in Seq(X)
  PROVE  \E f \in [0 .. Len(words) -> Nat] :
           /\ f[0] = 0 /\ \A i \in 1 .. Len(words) : f[i] = NextIndex(words, f[i - 1])
           /\ LoopIndex(words) = f[Len(words)]
  <1> DEFINE n == Len(words)
             index[turn \in 0 .. Len(words)] ==
               IF turn = 0 THEN 0 ELSE NextIndex(words, index[turn - 1])
             step == [i \in 1 .. n |-> [x \in Nat |-> NextIndex(words, x)]]
  <1>1. n \in Nat
    OBVIOUS
  <1>2. step \in [1 .. n -> [Nat -> Nat]]
    BY NextIs
  <1>3. PICK f \in [0 .. n -> Nat] : Steps(f, n, 0, step)
    <2> HIDE DEF n, step
    <2> QED
      BY <1>1, <1>2, Recursion
  <1>4. f[0] = 0 /\ \A i \in 1 .. n : f[i - 1] \in Nat /\ f[i] = NextIndex(words, f[i - 1])
    BY <1>3 DEF Steps
  <1>5. f = [i \in 0 .. n |-> IF i = 0 THEN 0 ELSE NextIndex(words, f[i - 1])]
    <2> HIDE DEF n, step
    <2> QED
      BY <1>1, <1>4
  <1>6. index = [i \in 0 .. n |-> IF i = 0 THEN 0 ELSE NextIndex(words, index[i - 1])]
    BY <1>5
  <1>7. LoopIndex(words) = index[n]
    BY DEF LoopIndex
  <1> HIDE DEF index, n, step
  <1>8. index[0] = 0 /\ \A i \in 1 .. n : index[i] = NextIndex(words, index[i - 1])
    BY <1>1, <1>6
  <1>9. \A x \in Nat : NextIndex(words, x) \in Nat
    BY NextIs
  <1>10. \A i \in 0 .. n : index[i] \in Nat
    <2>1. DOMAIN index = 0 .. n /\ index[0] \in Nat
      BY <1>6, <1>8
    <2>2. \A i \in 1 .. n : index[i - 1] \in Nat => index[i] \in Nat
      BY <1>8, <1>9
    <2> QED
      BY <1>1, <2>1, <2>2, StaysIn, Zenon
  <1>11. index \in [0 .. n -> Nat]
    BY <1>6, <1>10
  <1> QED
    BY <1>7, <1>8, <1>11 DEF n

LEMMA ReadIndexIs ==
  ASSUME NEW X, NEW words \in Seq(X)
  PROVE  \E f \in [0 .. Len(words) -> Nat] :
           /\ f[0] = 0 /\ \A i \in 1 .. Len(words) : f[i] = NextRead(words, f[i - 1])
           /\ ReadIndex(words) = f[Len(words)]
  <1> DEFINE n == Len(words)
             index[turn \in 0 .. Len(words)] ==
               IF turn = 0 THEN 0 ELSE NextRead(words, index[turn - 1])
             step == [i \in 1 .. n |-> [x \in Nat |-> NextRead(words, x)]]
  <1>1. n \in Nat
    OBVIOUS
  <1>2. step \in [1 .. n -> [Nat -> Nat]]
    BY NextIs
  <1>3. PICK f \in [0 .. n -> Nat] : Steps(f, n, 0, step)
    <2> HIDE DEF n, step
    <2> QED
      BY <1>1, <1>2, Recursion
  <1>4. f[0] = 0 /\ \A i \in 1 .. n : f[i - 1] \in Nat /\ f[i] = NextRead(words, f[i - 1])
    BY <1>3 DEF Steps
  <1>5. f = [i \in 0 .. n |-> IF i = 0 THEN 0 ELSE NextRead(words, f[i - 1])]
    <2> HIDE DEF n, step
    <2> QED
      BY <1>1, <1>4
  <1>6. index = [i \in 0 .. n |-> IF i = 0 THEN 0 ELSE NextRead(words, index[i - 1])]
    BY <1>5
  <1>7. ReadIndex(words) = index[n]
    BY DEF ReadIndex
  <1> HIDE DEF index, n, step
  <1>8. index[0] = 0 /\ \A i \in 1 .. n : index[i] = NextRead(words, index[i - 1])
    BY <1>1, <1>6
  <1>9. \A x \in Nat : NextRead(words, x) \in Nat
    BY NextIs
  <1>10. \A i \in 0 .. n : index[i] \in Nat
    <2>1. DOMAIN index = 0 .. n /\ index[0] \in Nat
      BY <1>6, <1>8
    <2>2. \A i \in 1 .. n : index[i - 1] \in Nat => index[i] \in Nat
      BY <1>8, <1>9
    <2> QED
      BY <1>1, <2>1, <2>2, StaysIn, Zenon
  <1>11. index \in [0 .. n -> Nat]
    BY <1>6, <1>10
  <1> QED
    BY <1>7, <1>8, <1>11 DEF n

(* The index the loop of ssh ends at, where it has stopped *)
LEMMA ReadEnds ==
  ASSUME NEW X, NEW words \in Seq(X), NEW f \in [0 .. Len(words) -> Nat],
         f[0] = 0, \A i \in 1 .. Len(words) : f[i] = NextRead(words, f[i - 1])
  PROVE  /\ Stops(words, f[Len(words)])
         /\ \A i \in 0 .. Len(words) :
              f[i] <= f[Len(words)] /\ (Stops(words, f[i]) => f[i] = f[Len(words)])
  <1> DEFINE n == Len(words)
  <1>1. n \in Nat
    OBVIOUS
  <1>2. ASSUME NEW i \in 1 .. n
        PROVE  /\ i - 1 \in 0 .. n /\ i \in 0 .. n
               /\ f[i - 1] \in Nat /\ f[i] \in Nat /\ f[i - 1] <= f[i]
               /\ Stops(words, f[i - 1]) => f[i] = f[i - 1]
               /\ ~Stops(words, f[i - 1]) => f[i] > f[i - 1]
    <2>1. i - 1 \in 0 .. n /\ i \in 0 .. n
      BY <1>1
    <2>2. f[i - 1] \in Nat /\ f[i] = NextRead(words, f[i - 1])
      BY <2>1
    <2> QED
      BY <2>1, <2>2, NextIs
  <1>3. Stops(words, f[n])
    <2> DEFINE S == {i \in 0 .. n : Stops(words, f[i]) \/ f[i] >= i}
    <2>1. 0 \in S
      BY <1>1
    <2>2. \A i \in 1 .. n : i - 1 \in S => i \in S
      BY <1>2
    <2> HIDE DEF S
    <2>3. n \in S
      BY <1>1, <2>1, <2>2, UpTo, Zenon
    <2>4. f[n] >= n => Stops(words, f[n])
      BY DEF Stops
    <2> QED
      BY <2>3, <2>4 DEF S
  <1>4. ASSUME NEW k \in 0 .. n
        PROVE  f[k] <= f[n] /\ (Stops(words, f[k]) => f[k] = f[n])
    <2> DEFINE S == {i \in 0 .. n : i >= k => f[k] <= f[i] /\ (Stops(words, f[k]) => f[k] = f[i])}
    <2>1. f[k] \in Nat
      OBVIOUS
    <2>2. 0 \in S
      BY <1>1, <2>1
    <2>3. ASSUME NEW i \in 1 .. n, i - 1 \in S PROVE i \in S
      <3>1. CASE i = k
        BY <2>1, <3>1
      <3>2. CASE i # k
        <4>1. i >= k => f[k] <= f[i - 1] /\ (Stops(words, f[k]) => f[k] = f[i - 1])
          BY <2>3, <3>2
        <4> QED
          BY <1>2, <2>1, <4>1
      <3> QED
        BY <3>1, <3>2
    <2> HIDE DEF S
    <2>4. n \in S
      <3>1. \A i \in 1 .. n : i - 1 \in S => i \in S
        BY <2>3
      <3> QED
        BY <1>1, <2>2, <3>1, UpTo, Zenon
    <2> QED
      BY <1>1, <2>4 DEF S
  <1> QED
    BY <1>3, <1>4

(* An option that is not a cluster wants its value as the program thinks. *)
LEMMA WantsIs ==
  ASSUME NEW word \in Seq(Characters), IsOption(word), ~Clustered(word)
  PROVE  Wants(word) <=> OptionRequiresSeparateValue(word)
  <1>1. ASSUME Wants(word) PROVE OptionRequiresSeparateValue(word)
    <2>1. PICK i \in 2 .. Len(word) : word[i] \in Valued
      BY <1>1 DEF Wants
    <2>2. ~(Len(word) > 2)
      BY <1>1 DEF Clustered
    <2>3. Len(word) = 2 /\ i = 2
      <3>1. Len(word) \in Nat
        OBVIOUS
      <3> QED
        BY <2>1, <2>2, <3>1
    <2> QED
      BY <2>1, <2>3 DEF OptionRequiresSeparateValue
  <1>2. ASSUME OptionRequiresSeparateValue(word) PROVE Wants(word)
    <2>1. Len(word) = 2 /\ word[2] \in Valued
      BY <1>2 DEF OptionRequiresSeparateValue
    <2>2. \A i \in 2 .. Len(word) : i = 2
      BY <2>1
    <2>3. 2 \in 2 .. Len(word)
      BY <2>1
    <2> QED
      BY <2>1, <2>2, <2>3 DEF Wants
  <1> QED
    BY <1>1, <1>2

(* Where the options end, the program and ssh agree. *)
LEMMA EndsAgree ==
  ASSUME NEW words \in Seq(Seq(Characters)), Skipped(words) <= Len(words),
         \A i \in 1 .. Skipped(words) : ~Clustered(words[i])
  PROVE  /\ LoopIndex(words) = ReadIndex(words)
         /\ ReadIndex(words) \in 0 .. Len(words)
  <1> DEFINE n == Len(words)
  <1>1. n \in Nat
    OBVIOUS
  <1>2. PICK f \in [0 .. n -> Nat] :
          /\ f[0] = 0 /\ \A i \in 1 .. n : f[i] = NextRead(words, f[i - 1])
          /\ ReadIndex(words) = f[n]
    BY ReadIndexIs
  <1>3. PICK g \in [0 .. n -> Nat] :
          /\ g[0] = 0 /\ \A i \in 1 .. n : g[i] = NextIndex(words, g[i - 1])
          /\ LoopIndex(words) = g[n]
    BY LoopIndexIs
  <1>4. \A i \in 0 .. n : f[i] \in Nat /\ f[i] <= f[n]
    BY <1>2, ReadEnds
  <1>5. f[n] <= n
    <2>1. f[n] \in Nat
      BY <1>1, <1>4
    <2>2. f[n] > n => PastSeparator(words, f[n]) = f[n]
      BY <1>1, <2>1 DEF PastSeparator
    <2>3. PastSeparator(words, f[n]) <= n
      BY <1>2 DEF Skipped
    <2> QED
      BY <1>1, <2>1, <2>2, <2>3
  <1> DEFINE taken == Skipped(words)
  <1>5a. taken \in Nat /\ f[n] <= taken /\ taken <= n
    <2>1. f[n] \in Nat /\ taken = PastSeparator(words, f[n])
      BY <1>1, <1>2, <1>4 DEF Skipped
    <2>2. taken = f[n] \/ taken = f[n] + 1
      BY <2>1 DEF PastSeparator
    <2>3. taken <= n
      OBVIOUS
    <2> HIDE DEF taken
    <2> QED
      BY <2>1, <2>2, <2>3
  <1>5b. \A i \in 1 .. taken : ~Clustered(words[i])
    OBVIOUS
  <1> HIDE DEF taken
  <1> DEFINE S == {i \in 0 .. n : f[i] = g[i]}
  <1>6. 0 \in S
    BY <1>1, <1>2, <1>3
  <1>7. ASSUME NEW i \in 1 .. n, i - 1 \in S PROVE i \in S
    <2> DEFINE k == f[i - 1]
    <2>1. i - 1 \in 0 .. n /\ i \in 0 .. n
      BY <1>1
    <2>2. k \in Nat /\ k = g[i - 1]
      BY <1>7, <2>1
    <2>3. f[i] = NextRead(words, k) /\ g[i] = NextIndex(words, k)
      BY <1>2, <1>3, <2>2
    <2>4. f[i] \in Nat /\ f[i] <= n /\ f[i] <= taken
      <3>1. f[i] \in Nat /\ f[n] \in Nat /\ f[i] <= f[n]
        BY <1>1, <1>4, <2>1
      <3> QED
        BY <1>1, <1>5, <1>5a, <3>1
    <2> HIDE DEF k
    <2>5. CASE Stops(words, k)
      BY <2>1, <2>2, <2>3, <2>5, NextIs
    <2>6. CASE ~Stops(words, k)
      <3>1. k + 1 \in 1 .. n /\ IsOption(words[k + 1])
        <4>1. ~(k >= n) /\ IsOption(words[k + 1])
          BY Zenon, <2>6 DEF Stops
        <4>2. k \in Nat
          BY <2>2
        <4> HIDE DEF n
        <4> QED
          BY <1>1, <4>1, <4>2
      <3>2. words[k + 1] \in Seq(Characters) /\ ~Clustered(words[k + 1])
        <4>1. f[i] > k
          BY <2>2, <2>3, <2>6, NextIs
        <4>2. k + 1 \in 1 .. taken
          BY <1>5a, <2>2, <2>4, <4>1
        <4> QED
          BY <1>5b, <3>1, <4>2
      <3>3. Wants(words[k + 1]) <=> OptionRequiresSeparateValue(words[k + 1])
        BY <3>1, <3>2, WantsIs
      <3>4. Wants(words[k + 1]) => k + 1 < n
        BY <1>1, <2>2, <2>3, <2>4, <2>6 DEF NextRead
      <3> QED
        BY <2>1, <2>3, <2>6, <3>3, <3>4 DEF NextRead, NextIndex
    <2> QED
      BY <2>5, <2>6
  <1> HIDE DEF S
  <1>8. n \in S
    <2>1. \A i \in 1 .. n : i - 1 \in S => i \in S
      BY <1>7
    <2> QED
      BY <1>1, <1>6, <2>1, UpTo, Zenon
  <1> QED
    BY <1>1, <1>2, <1>3, <1>5, <1>8 DEF S

Inserted(out, words, d, word) ==
  /\ Len(out) = Len(words) + 1 /\ out[d + 1] = word
  /\ \A i \in 1 .. d : out[i] = words[i]
  /\ \A i \in d + 1 .. Len(words) : out[i + 1] = words[i]

LEMMA InsertIs ==
  ASSUME NEW X, NEW words \in Seq(X), NEW d \in 0 .. Len(words), NEW word \in X
  PROVE  /\ InsertAfter(words, d, word) \in Seq(X)
         /\ Inserted(InsertAfter(words, d, word), words, d, word)
  <1> DEFINE n == Len(words)
             a == SubSeq(words, 1, d)
             b == <<word>>
             c == SubSeq(words, d + 1, n)
  <1>1. n \in Nat /\ d \in Nat /\ d <= n
    OBVIOUS
  <1>2. a \in Seq(X) /\ Len(a) = d /\ \A i \in 1 .. d : a[i] = words[i]
    <2>1. /\ a \in Seq(X) /\ Len(a) = d - 1 + 1
          /\ \A i \in 1 .. d - 1 + 1 : a[i] = words[1 + i - 1]
      BY <1>1, SubSeqIs
    <2> HIDE DEF a
    <2> QED
      BY <1>1, <2>1
  <1>3. b \in Seq(X) /\ Len(b) = 1 /\ b[1] = word
    OBVIOUS
  <1>4. c \in Seq(X) /\ Len(c) = n - d /\ \A i \in 1 .. n - d : c[i] = words[d + i]
    <2>1. /\ c \in Seq(X) /\ Len(c) = n - (d + 1) + 1
          /\ \A i \in 1 .. n - (d + 1) + 1 : c[i] = words[d + 1 + i - 1]
      BY <1>1, SubSeqIs
    <2>2. n - (d + 1) + 1 = n - d /\ \A i \in 1 .. n - d : d + 1 + i - 1 = d + i
      BY <1>1
    <2> HIDE DEF c, n
    <2> QED
      BY <2>1, <2>2
  <1>5. InsertAfter(words, d, word) = (a \o b) \o c
    BY DEF InsertAfter
  <1> HIDE DEF a, b, c
  <1> DEFINE ab == a \o b
             out == ab \o c
  <1>5a. InsertAfter(words, d, word) = out
    BY <1>5
  <1>6. /\ ab \in Seq(X) /\ Len(ab) = d + 1 /\ ab[d + 1] = word
        /\ \A i \in 1 .. d : ab[i] = words[i]
    <2>0. a \in Seq(X) /\ b \in Seq(X)
      BY <1>2, <1>3
    <2>1. /\ ab \in Seq(X) /\ Len(ab) = Len(a) + Len(b)
          /\ \A i \in 1 .. Len(a) : ab[i] = a[i]
          /\ \A i \in 1 .. Len(b) : ab[Len(a) + i] = b[i]
      BY <2>0, ConcatIs
    <2> HIDE DEF ab
    <2> QED
      BY <1>1, <1>2, <1>3, <2>1
  <1> HIDE DEF ab
  <1>7. /\ out \in Seq(X) /\ Len(out) = Len(ab) + Len(c)
        /\ \A i \in 1 .. Len(ab) : out[i] = ab[i]
        /\ \A i \in 1 .. Len(c) : out[Len(ab) + i] = c[i]
    <2>1. ab \in Seq(X) /\ c \in Seq(X)
      BY <1>4, <1>6
    <2> QED
      BY <2>1, ConcatIs
  <1> HIDE DEF out
  <1>8. out[d + 1] = word /\ \A i \in 1 .. d : out[i] = words[i]
    BY <1>1, <1>6, <1>7
  <1>9. ASSUME NEW i \in d + 1 .. n PROVE out[i + 1] = words[i]
    <2>1. i - d \in 1 .. Len(c) /\ d + 1 + (i - d) = i + 1 /\ d + (i - d) = i
      BY <1>1, <1>4
    <2>2. out[d + 1 + (i - d)] = c[i - d]
      BY <1>6, <1>7, <2>1
    <2> QED
      BY <1>4, <2>1, <2>2
  <1>10. Len(out) = n + 1
    BY <1>1, <1>4, <1>6, <1>7
  <1> QED
    <2>1. Inserted(out, words, d, word)
      BY <1>8, <1>9, <1>10 DEF Inserted
    <2> QED
      BY <1>5a, <1>7, <2>1

Host == <<"h">>
Words == Seq(Characters) \union {Host}

(* ssh takes what was put in as the destination: its loop takes the same   *)
(* turns as before and stops in front of it.                               *)
LEMMA ReadsAlias ==
  ASSUME NEW words \in Seq(Words), NEW d \in 0 .. Len(words),
         ReadIndex(words) \in 0 .. Len(words),
         d = PastSeparator(words, ReadIndex(words))
  PROVE  LET out == InsertAfter(words, d, Host) IN Skipped(out) = d
  <1> DEFINE n == Len(words)
             out == InsertAfter(words, d, Host)
             p == ReadIndex(words)
  <1>1. n \in Nat /\ d \in Nat /\ d <= n /\ p \in Nat /\ p <= d /\ p <= n
    BY DEF PastSeparator
  <1>2. PICK f \in [0 .. n -> Nat] :
          /\ f[0] = 0 /\ \A i \in 1 .. n : f[i] = NextRead(words, f[i - 1])
          /\ p = f[n]
    BY ReadIndexIs
  <1>3. /\ out \in Seq(Words) /\ Len(out) = n + 1 /\ out[d + 1] = Host
        /\ \A i \in 1 .. d : out[i] = words[i]
    <2>1. Host \in Words
      BY DEF Words
    <2>2. out \in Seq(Words) /\ Inserted(out, words, d, Host)
      BY <2>1, InsertIs
    <2> HIDE DEF out
    <2> QED
      BY <2>2 DEF Inserted
  <1>4. ~IsOption(Host) /\ Host # Separator
    BY DEF IsOption, Host, Separator
  <1>5. /\ Stops(words, p)
        /\ \A i \in 0 .. n : f[i] <= p /\ (Stops(words, f[i]) => f[i] = p)
    BY <1>2, ReadEnds
  <1> HIDE DEF n, out, p
  <1>6. p = d \/ (p + 1 = d /\ p < n /\ words[d] = Separator)
    BY <1>1 DEF PastSeparator, p, n
  <1>7. Stops(out, p)
    <2>1. CASE p = d
      BY <1>3, <1>4, <2>1 DEF Stops
    <2>2. CASE p + 1 = d /\ words[d] = Separator
      <3>1. d \in 1 .. d
        BY <1>1, <2>2
      <3> QED
        BY <1>3, <2>2, <3>1 DEF Stops
    <2> QED
      BY <1>6, <2>1, <2>2
  <1>8. PICK g \in [0 .. Len(out) -> Nat] :
          /\ g[0] = 0 /\ \A i \in 1 .. Len(out) : g[i] = NextRead(out, g[i - 1])
          /\ ReadIndex(out) = g[Len(out)]
    BY <1>3, ReadIndexIs
  <1> DEFINE S == {i \in 0 .. n : f[i] = g[i]}
  <1>9. ASSUME NEW i \in 1 .. n, i - 1 \in S PROVE i \in S
    <2> DEFINE k == f[i - 1]
    <2>1. i - 1 \in 0 .. n /\ i \in 0 .. n /\ i \in 1 .. Len(out)
      BY <1>1, <1>3
    <2>2. k \in Nat /\ k = g[i - 1] /\ k <= p /\ (Stops(words, k) => k = p)
      BY <1>2, <1>5, <1>9, <2>1
    <2>3. f[i] = NextRead(words, k) /\ g[i] = NextRead(out, k) /\ f[i] \in Nat /\ f[i] <= p
      BY <1>2, <1>5, <1>8, <2>1, <2>2
    <2> HIDE DEF k
    <2>4. CASE Stops(words, k)
      BY <1>7, <2>1, <2>2, <2>3, <2>4 DEF NextRead
    <2>5. CASE ~Stops(words, k)
      <3>1. NextRead(words, k) \in Nat /\ NextRead(words, k) > k
        BY <2>2, <2>5, NextIs
      <3>2. k \in Nat /\ k + 1 \in 1 .. d /\ k < n
        <4> DEFINE next == NextRead(words, k)
        <4>1. next \in Nat /\ next > k /\ next <= p /\ k \in Nat
          BY <2>2, <2>3, <3>1
        <4> HIDE DEF next
        <4> QED
          BY <1>1, <4>1
      <3>3. out[k + 1] = words[k + 1] /\ ~(k >= Len(out))
        <4>1. ~(k >= n + 1)
          BY <1>1, <3>2
        <4> QED
          BY <1>3, <3>2, <4>1
      <3>4. ~Stops(out, k)
        BY <2>5, <3>3 DEF Stops
      <3> QED
        BY <2>1, <2>3, <2>5, <3>3, <3>4 DEF NextRead
    <2> QED
      BY <2>4, <2>5
  <1>10. n \in S
    <2>1. 0 \in S
      BY <1>1, <1>2, <1>8
    <2>2. \A i \in 1 .. n : i - 1 \in S => i \in S
      BY <1>9
    <2> HIDE DEF S
    <2> QED
      BY <1>1, <2>1, <2>2, UpTo, Zenon
  <1>11. ReadIndex(out) = p
    <2>1. g[n] = p
      BY <1>2, <1>10
    <2>2. n + 1 \in 1 .. Len(out) /\ n + 1 - 1 = n
      BY <1>1, <1>3
    <2>3. g[n + 1] = NextRead(out, p)
      <3>0. \A m \in Nat : m + 1 \in 1 .. Len(out) => g[m + 1] = NextRead(out, g[m])
        <4>1. \A m \in 1 .. Len(out) : g[m] = NextRead(out, g[m - 1])
          BY <1>8
        <4>2. \A m \in Nat : m + 1 - 1 = m
          OBVIOUS
        <4> QED
          BY <4>1, <4>2
      <3> QED
        BY <1>1, <2>1, <2>2, <3>0
    <2> QED
      BY <1>3, <1>7, <1>8, <2>3 DEF NextRead
  <1>12. PastSeparator(out, p) = d
    <2>1. CASE p = d
      BY <1>3, <1>4, <2>1 DEF PastSeparator
    <2>2. CASE p + 1 = d /\ words[d] = Separator
      <3>1. d \in 1 .. d /\ p < n + 1
        BY <1>1, <2>2
      <3> QED
        BY <1>3, <2>2, <3>1 DEF PastSeparator
    <2> QED
      BY <1>6, <2>1, <2>2
  <1> QED
    BY <1>11, <1>12 DEF Skipped, out

(* What is in front of what was put in, and behind it *)
LEMMA PartsKept ==
  ASSUME NEW X, NEW words \in Seq(X), NEW d \in 0 .. Len(words), NEW word \in X
  PROVE  LET out == InsertAfter(words, d, word) IN
         /\ SubSeq(out, 1, d) = SubSeq(words, 1, d)
         /\ SubSeq(out, d + 2, Len(out)) = SubSeq(words, d + 1, Len(words))
  <1> DEFINE n == Len(words)
             out == InsertAfter(words, d, word)
  <1>1. /\ out \in Seq(X) /\ Len(out) = n + 1
        /\ \A i \in 1 .. d : out[i] = words[i]
        /\ \A i \in d + 1 .. n : out[i + 1] = words[i]
    <2>1. out \in Seq(X) /\ Inserted(out, words, d, word)
      BY InsertIs
    <2> HIDE DEF out
    <2> QED
      BY <2>1 DEF Inserted
  <1>2. n \in Nat /\ d \in Nat /\ d <= n
    OBVIOUS
  <1> HIDE DEF out
  <1>3. SubSeq(out, 1, d) = SubSeq(words, 1, d)
    <2> DEFINE a == SubSeq(out, 1, d)
               b == SubSeq(words, 1, d)
    <2>1. a \in Seq(X) /\ Len(a) = d - 1 + 1 /\ \A i \in 1 .. d - 1 + 1 : a[i] = out[1 + i - 1]
      BY <1>1, <1>2, SubSeqIs
    <2>2. b \in Seq(X) /\ Len(b) = d - 1 + 1 /\ \A i \in 1 .. d - 1 + 1 : b[i] = words[1 + i - 1]
      BY <1>2, SubSeqIs
    <2> HIDE DEF a, b, n
    <2>3. Len(a) = Len(b) /\ \A i \in 1 .. Len(a) : a[i] = b[i]
      BY <1>1, <1>2, <2>1, <2>2
    <2>4. a = b
      BY <2>1, <2>2, <2>3, SeqEqual
    <2> QED
      BY <2>4 DEF a, b
  <1>4. SubSeq(out, d + 2, Len(out)) = SubSeq(words, d + 1, n)
    <2> DEFINE a == SubSeq(out, d + 2, n + 1)
               b == SubSeq(words, d + 1, n)
    <2>1. /\ a \in Seq(X) /\ Len(a) = n + 1 - (d + 2) + 1
          /\ \A i \in 1 .. n + 1 - (d + 2) + 1 : a[i] = out[d + 2 + i - 1]
      BY <1>1, <1>2, SubSeqIs
    <2>2. /\ b \in Seq(X) /\ Len(b) = n - (d + 1) + 1
          /\ \A i \in 1 .. n - (d + 1) + 1 : b[i] = words[d + 1 + i - 1]
      BY <1>2, SubSeqIs
    <2> HIDE DEF a, b, n
    <2>3. Len(a) = n - d /\ Len(b) = n - d
      BY <1>2, <2>1, <2>2
    <2>4. ASSUME NEW i \in 1 .. n - d PROVE a[i] = b[i]
      <3>1. a[i] = out[d + 2 + i - 1] /\ b[i] = words[d + 1 + i - 1]
        BY <1>2, <2>1, <2>2
      <3>2. d + i \in d + 1 .. n /\ d + 2 + i - 1 = d + i + 1 /\ d + 1 + i - 1 = d + i
        BY <1>2
      <3> QED
        BY <1>1, <3>1, <3>2
    <2>5. a = b
      BY <2>1, <2>2, <2>3, <2>4, SeqEqual
    <2> QED
      BY <1>1, <2>5 DEF a, b, n
  <1> QED
    BY <1>3, <1>4 DEF out

(* The turns of the loop stay within the arguments. *)
LEMMA LoopEnds ==
  ASSUME NEW X, NEW words \in Seq(X)
  PROVE  OpensshDestinationIndex(words) \in 0 .. Len(words)
  <1> DEFINE n == Len(words)
  <1>1. n \in Nat
    OBVIOUS
  <1>2. PICK f \in [0 .. n -> Nat] :
          /\ f[0] = 0 /\ \A i \in 1 .. n : f[i] = NextIndex(words, f[i - 1])
          /\ LoopIndex(words) = f[n]
    BY LoopIndexIs
  <1>3. \A k \in 0 .. n : NextIndex(words, k) \in 0 .. n
    BY <1>1 DEF NextIndex, Stops
  <1> DEFINE S == {i \in 0 .. n : f[i] \in 0 .. n}
  <1>4. 0 \in S
    BY <1>1, <1>2
  <1>5. \A i \in 1 .. n : i - 1 \in S => i \in S
    BY <1>1, <1>2, <1>3
  <1> HIDE DEF S
  <1>6. n \in S
    BY <1>1, <1>4, <1>5, UpTo, Zenon
  <1>7. LoopIndex(words) \in 0 .. n
    BY <1>2, <1>6 DEF S
  <1> QED
    BY <1>1, <1>7 DEF OpensshDestinationIndex, PastSeparator

(* openssh_arguments: whatever the arguments, they are all there in their  *)
(* order, with the alias among them.  Under the hypothesis that ssh finds  *)
(* complete options in them, none of which is a cluster that asks for its  *)
(* value in the next word, ssh reads the same options, then the alias as   *)
(* the destination, then the same command.                                 *)
THEOREM AliasPlaced == ConnectSpec => []ArgumentsPlaced
  <1> DEFINE Placed(w) ==
               w.task = "connect" =>
                 LET given  == w.input
                     placed == w.output
                     taken  == Skipped(given)
                 IN /\ \E i \in 0 .. Len(given) : PlacedBehind(i, given, placed)
                    /\ taken <= Len(given) /\ (\A i \in 1 .. taken : ~Clustered(given[i]))
                       => Skipped(placed) = taken /\ PlacedBehind(taken, given, placed)
  <1>0. ArgumentsPlaced = Placed(work) /\ ArgumentsPlaced' = Placed(work')
    BY Zenon DEF ArgumentsPlaced
  <1>1. work = Idle => ArgumentsPlaced
    BY DEF Idle, ArgumentsPlaced
  <1>1a. ASSUME NEW given \in ArgumentLists
         PROVE  given \in Seq(Seq(Characters)) /\ given \in Seq(Words)
    <2>1. given \in Seq(Seq(Characters))
      BY ArgumentsAssumption
    <2>2. Seq(Characters) \subseteq Words
      BY DEF Words
    <2> QED
      BY <2>1, <2>2, SeqMonotonic
  <1>1b. ASSUME NEW given \in Seq(Words), NEW d \in 0 .. Len(given)
         PROVE  PlacedBehind(d, given, InsertAfter(given, d, Host))
    <2> DEFINE out == InsertAfter(given, d, Host)
    <2>1. Host \in Words
      BY DEF Words
    <2>2. out[d + 1] = Host
      <3>1. Inserted(out, given, d, Host)
        BY <2>1, InsertIs
      <3> QED
        BY <3>1 DEF Inserted
    <2>3. /\ SubSeq(out, 1, d) = SubSeq(given, 1, d)
          /\ SubSeq(out, d + 2, Len(out)) = SubSeq(given, d + 1, Len(given))
      BY <2>1, PartsKept
    <2> HIDE DEF out
    <2>4. PlacedBehind(d, given, out)
      BY <2>2, <2>3 DEF PlacedBehind, Host
    <2> QED
      BY <2>4 DEF out
  <1>2. ASSUME NEW given \in ArgumentLists, Skipped(given) <= Len(given),
               \A i \in 1 .. Skipped(given) : ~Clustered(given[i])
        PROVE  LET out == OpensshArguments(Host, given)
                   d   == Skipped(given)
               IN Skipped(out) = d /\ PlacedBehind(d, given, out)
    <2> DEFINE d == Skipped(given)
               out == OpensshArguments(Host, given)
    <2>1. given \in Seq(Seq(Characters)) /\ given \in Seq(Words)
      BY <1>1a
    <2>2. LoopIndex(given) = ReadIndex(given) /\ ReadIndex(given) \in 0 .. Len(given)
      BY <1>2, <2>1, EndsAgree
    <2>3. d = PastSeparator(given, ReadIndex(given)) /\ d = OpensshDestinationIndex(given)
      BY <2>2 DEF Skipped, OpensshDestinationIndex
    <2>4. d \in 0 .. Len(given)
      BY <1>2, <2>1, <2>2, <2>3 DEF PastSeparator
    <2>5. out = InsertAfter(given, d, Host)
      BY <2>3 DEF OpensshArguments
    <2> HIDE DEF d, out
    <2>6. Skipped(InsertAfter(given, d, Host)) = d
      BY <2>1, <2>2, <2>3, <2>4, ReadsAlias
    <2>7. PlacedBehind(d, given, out)
      BY <1>1b, <2>1, <2>4, <2>5
    <2> QED
      BY <2>5, <2>6, <2>7 DEF d, out
  <1>3. ASSUME ArgumentsPlaced, [Connect]_work PROVE ArgumentsPlaced'
    <2>1. CASE UNCHANGED work
      <3> HIDE DEF Placed
      <3> QED
        BY <1>0, <1>3, <2>1
    <2>2. CASE Connect
      <3>1. PICK given \in ArgumentLists :
              work' = [task |-> "connect", input |-> given,
                       output |-> OpensshArguments(Host, given)]
        BY <2>2 DEF Connect, Evaluate, Host
      <3>2. work'.input = given /\ work'.output = OpensshArguments(Host, given)
        BY <3>1
      <3>3. \E i \in 0 .. Len(given) : PlacedBehind(i, given, OpensshArguments(Host, given))
        <4> DEFINE d == OpensshDestinationIndex(given)
        <4>1. given \in Seq(Words) /\ d \in 0 .. Len(given)
          BY <1>1a, LoopEnds
        <4>2. OpensshArguments(Host, given) = InsertAfter(given, d, Host)
          BY DEF OpensshArguments
        <4> HIDE DEF d
        <4> QED
          BY <1>1b, <4>1, <4>2
      <3>4. Placed(work')
        BY <1>2, <3>2, <3>3
      <3> HIDE DEF Placed
      <3> QED
        BY <1>0, <3>4
    <2> QED
      BY <1>3, <2>1, <2>2
  <1> QED
    BY <1>1, <1>3, PTL DEF ConnectSpec

-----------------------------------------------------------------------------
(* Sequences taken apart and put together at their end *)
LEMMA AppendIs ==
  ASSUME NEW X, NEW s \in Seq(X), NEW c \in X
  PROVE  /\ Append(s, c) \in Seq(X) /\ Append(s, c) # <<>>
         /\ Last(Append(s, c)) = c /\ Front(Append(s, c)) = s
         /\ Append(s, c) = s \o <<c>>
  <1> DEFINE t == Append(s, c)
  <1>1. /\ t \in Seq(X) /\ t # <<>> /\ Len(t) = Len(s) + 1 /\ t[Len(s) + 1] = c
        /\ \A i \in 1 .. Len(s) : t[i] = s[i]
    BY AppendProperties
  <1>2. t = s \o <<c>>
    BY AppendIsConcat
  <1>3. Last(t) = c
    BY <1>1 DEF Last
  <1> HIDE DEF t
  <1>4. Front(t) = s
    <2> DEFINE r == SubSeq(t, 1, Len(s))
    <2>1. Len(s) \in Nat /\ Len(t) - 1 = Len(s)
      BY <1>1
    <2>2. /\ r \in Seq(X) /\ Len(r) = Len(s) - 1 + 1
          /\ \A i \in 1 .. Len(s) - 1 + 1 : r[i] = t[1 + i - 1]
      BY <1>1, <2>1, SubSeqIs
    <2>3. Front(t) = r
      BY <2>1 DEF Front
    <2> HIDE DEF r
    <2>4. Len(r) = Len(s) /\ \A i \in 1 .. Len(r) : r[i] = s[i]
      BY <1>1, <2>1, <2>2
    <2>5. r = s
      BY <2>2, <2>4, SeqEqual
    <2> QED
      BY <2>3, <2>5
  <1> QED
    BY <1>1, <1>2, <1>3, <1>4 DEF t

LEMMA AppendCases ==
  ASSUME NEW X, NEW s \in Seq(X)
  PROVE  s = <<>> \/ \E a \in Seq(X), c \in X : s = Append(a, c)
  <1> DEFINE S == {t \in Seq(X) : t = <<>> \/ \E a \in Seq(X), c \in X : t = Append(a, c)}
  <1>1. <<>> \in S
    OBVIOUS
  <1>2. \A t \in Seq(X), c \in X : t \in S => Append(t, c) \in S
    BY AppendIs
  <1> HIDE DEF S
  <1>3. \A t \in Seq(X) : t \in S
    BY <1>1, <1>2, WordInduction
  <1> QED
    BY <1>3 DEF S

LEMMA ConcatAppend ==
  ASSUME NEW X, NEW a \in Seq(X), NEW b \in Seq(X), NEW c \in X
  PROVE  a \o Append(b, c) = Append(a \o b, c)
  <1>1. Append(b, c) = b \o <<c>> /\ <<c>> \in Seq(X)
    BY AppendIs
  <1>2. a \o b \in Seq(X)
    BY ConcatIs
  <1>3. Append(a \o b, c) = (a \o b) \o <<c>>
    BY <1>2, AppendIs
  <1>4. a \o (b \o <<c>>) = (a \o b) \o <<c>>
    BY <1>1, ConcatAssociative
  <1> QED
    BY <1>1, <1>3, <1>4

(* A function that is made by the steps ends with the fold. *)
LEMMA LoopIs ==
  ASSUME NEW X, NEW C, NEW base \in X, NEW step \in Stepper(X, C), NEW word \in Seq(C),
         NEW g, DOMAIN g = 0 .. Len(word), g[0] = base,
         \A i \in 1 .. Len(word) : g[i - 1] \in X => g[i] = step[g[i - 1]][word[i]]
  PROVE  Fold(step, base, word) = g[Len(word)]
  <1> DEFINE n == Len(word)
  <1>1. n \in Nat /\ \A i \in 1 .. n : word[i] \in C /\ i - 1 \in 0 .. n
    OBVIOUS
  <1>2. \A i \in 1 .. n : g[i - 1] \in X => g[i] \in X
    BY <1>1 DEF Stepper
  <1>3. \A i \in 0 .. n : g[i] \in X
    <2> HIDE DEF n
    <2>1. DOMAIN g = 0 .. n /\ g[0] \in X
      BY DEF n
    <2> QED
      BY <1>1, <1>2, <2>1, StaysIn, Zenon
  <1>4. FoldsBy(g, step, base, word)
    BY <1>1, <1>3 DEF FoldsBy
  <1> QED
    BY <1>4, FoldIs

-----------------------------------------------------------------------------
(* Lines, as the fold that adds one piece after another *)
PieceTexts == Seq(Pieces)
Rows       == Seq(PieceTexts)

LEMMA AddPieceIn ==
  ASSUME NEW lines \in Rows, NEW c \in Pieces
  PROVE  AddPiece(lines, c) \in Rows
  <1>0. <<c>> \in PieceTexts
    BY DEF PieceTexts
  <1>1. CASE lines = <<>> \/ EndsWith(Last(lines), "N")
    BY <1>0, <1>1, AppendIs DEF AddPiece, Rows
  <1>2. CASE ~(lines = <<>> \/ EndsWith(Last(lines), "N"))
    <2>1. PICK a \in Rows, l \in PieceTexts : lines = Append(a, l)
      BY <1>2, AppendCases DEF Rows
    <2>2. Last(lines) = l /\ Front(lines) = a
      BY <2>1, AppendIs DEF Rows
    <2>3. Append(l, c) \in PieceTexts
      BY AppendIs DEF PieceTexts
    <2>4. Append(a, Append(l, c)) \in Rows
      BY <2>3, AppendIs DEF Rows
    <2> QED
      BY <1>2, <2>2, <2>4 DEF AddPiece
  <1> QED
    BY <1>1, <1>2

LEMMA LinesFold ==
  /\ Lines(<<>>) = <<>>
  /\ \A text \in PieceTexts : Lines(text) \in Rows
  /\ \A text \in PieceTexts, c \in Pieces : Lines(Append(text, c)) = AddPiece(Lines(text), c)
  <1> DEFINE step == [rows \in Rows |-> [c \in Pieces |-> AddPiece(rows, c)]]
  <1>1. step \in Stepper(Rows, Pieces)
    BY AddPieceIn DEF Stepper
  <1>2. \A rows \in Rows, c \in Pieces : step[rows][c] = AddPiece(rows, c)
    OBVIOUS
  <1> HIDE DEF step
  <1>3. <<>> \in Rows
    BY DEF Rows
  <1>4. ASSUME NEW text \in PieceTexts PROVE Lines(text) = Fold(step, <<>>, text)
    <2> DEFINE n == Len(text)
               lines[i \in 0 .. Len(text)] ==
                 IF i = 0 THEN <<>> ELSE AddPiece(lines[i - 1], text[i])
    <2>1. Lines(text) = lines[n]
      BY DEF Lines
    <2>2. n \in Nat /\ \A i \in 1 .. n : text[i] \in Pieces
      BY DEF PieceTexts
    <2>3. Folding(Rows, step, <<>>, text)
      BY <1>1, <1>3, FoldExists DEF PieceTexts
    <2>4. PICK f \in [0 .. n -> Rows] : FoldsBy(f, step, <<>>, text)
      BY <2>3 DEF Folding
    <2>5. f = [i \in 0 .. n |-> IF i = 0 THEN <<>> ELSE AddPiece(f[i - 1], text[i])]
      <3> HIDE DEF n
      <3>1. ASSUME NEW i \in 0 .. n, i # 0 PROVE f[i] = AddPiece(f[i - 1], text[i])
        <4>1. i \in 1 .. n /\ i - 1 \in 0 .. n
          BY <2>2, <3>1
        <4>2. f[i] = step[f[i - 1]][text[i]]
          BY <2>4, <4>1 DEF FoldsBy, n
        <4>3. f[i - 1] \in Rows
          BY <4>1
        <4> QED
          BY <1>2, <2>2, <4>1, <4>2, <4>3
      <3>2. f[0] = <<>>
        BY <2>4 DEF FoldsBy
      <3> QED
        BY <3>1, <3>2
    <2>6. lines = [i \in 0 .. n |-> IF i = 0 THEN <<>> ELSE AddPiece(lines[i - 1], text[i])]
      BY <2>5
    <2> HIDE DEF lines, n
    <2>7. lines[0] = <<>> /\ DOMAIN lines = 0 .. n
          /\ \A i \in 1 .. n : lines[i] = AddPiece(lines[i - 1], text[i])
      <3>1. \A i \in 1 .. n : i \in 0 .. n /\ i # 0
        BY <2>2
      <3>2. 0 \in 0 .. n
        BY <2>2
      <3> QED
        BY <2>6, <3>1, <3>2
    <2>8. \A i \in 1 .. n : lines[i - 1] \in Rows => lines[i] = step[lines[i - 1]][text[i]]
      BY <1>2, <2>2, <2>7
    <2> QED
      BY <1>1, <1>3, <2>1, <2>7, <2>8, LoopIs DEF PieceTexts, n
  <1>5. /\ Fold(step, <<>>, <<>>) = <<>>
        /\ \A text \in PieceTexts : Fold(step, <<>>, text) \in Rows
        /\ \A text \in PieceTexts, c \in Pieces :
             Fold(step, <<>>, Append(text, c)) = step[Fold(step, <<>>, text)][c]
    BY <1>1, <1>3, FoldGrows DEF PieceTexts
  <1>6. <<>> \in PieceTexts /\ \A text \in PieceTexts, c \in Pieces : Append(text, c) \in PieceTexts
    BY DEF PieceTexts
  <1> QED
    BY <1>2, <1>4, <1>5, <1>6

(* Without, as the fold that keeps or drops each line *)
Filters(L, kinds) ==
  \A rows \in Seq(L), line \in L :
    /\ Kind(line) \in kinds => Without(Append(rows, line), kinds) = Without(rows, kinds)
    /\ Kind(line) \notin kinds
       => Without(Append(rows, line), kinds) = Append(Without(rows, kinds), line)

LEMMA WithoutFold ==
  ASSUME NEW L, NEW kinds
  PROVE  /\ Without(<<>>, kinds) = <<>>
         /\ \A rows \in Seq(L) : Without(rows, kinds) \in Seq(L)
         /\ Filters(L, kinds)
  <1> DEFINE X == Seq(L)
             Keep(rows, line) == IF Kind(line) \in kinds THEN rows ELSE Append(rows, line)
             step == [rows \in X |-> [line \in L |-> Keep(rows, line)]]
  <1>1. \A rows \in X, line \in L : Keep(rows, line) \in X
    OBVIOUS
  <1>2. \A rows \in X, line \in L : step[rows][line] = Keep(rows, line)
    OBVIOUS
  <1>3. step \in Stepper(X, L)
    BY <1>1 DEF Stepper
  <1> HIDE DEF step
  <1>4. <<>> \in X
    OBVIOUS
  <1>5. ASSUME NEW lines \in X PROVE Without(lines, kinds) = Fold(step, <<>>, lines)
    <2> DEFINE n == Len(lines)
               kept[i \in 0 .. Len(lines)] ==
                 IF i = 0 THEN <<>>
                 ELSE IF Kind(lines[i]) \in kinds THEN kept[i - 1]
                 ELSE Append(kept[i - 1], lines[i])
    <2>1. Without(lines, kinds) = kept[n]
      BY DEF Without
    <2>2. n \in Nat /\ lines \in Seq(L) /\ \A i \in 1 .. n : lines[i] \in L
      OBVIOUS
    <2> HIDE DEF X
    <2>3. Folding(X, step, <<>>, lines)
      BY <1>3, <1>4, <2>2, FoldExists
    <2>4. PICK f \in [0 .. n -> X] : FoldsBy(f, step, <<>>, lines)
      BY <2>3 DEF Folding
    <2>5. f = [i \in 0 .. n |-> IF i = 0 THEN <<>>
                                ELSE IF Kind(lines[i]) \in kinds THEN f[i - 1]
                                ELSE Append(f[i - 1], lines[i])]
      <3> HIDE DEF n
      <3>1. ASSUME NEW i \in 0 .. n, i # 0 PROVE f[i] = Keep(f[i - 1], lines[i])
        <4>1. i \in 1 .. n /\ i - 1 \in 0 .. n
          BY <2>2, <3>1
        <4>2. f[i] = step[f[i - 1]][lines[i]]
          BY <2>4, <4>1 DEF FoldsBy, n
        <4>3. f[i - 1] \in X /\ lines[i] \in L
          BY <2>2, <4>1
        <4> HIDE DEF Keep
        <4> QED
          BY <1>2, <4>2, <4>3
      <3>2. f[0] = <<>>
        BY <2>4 DEF FoldsBy
      <3> QED
        BY <3>1, <3>2
    <2>6. kept = [i \in 0 .. n |-> IF i = 0 THEN <<>>
                                   ELSE IF Kind(lines[i]) \in kinds THEN kept[i - 1]
                                   ELSE Append(kept[i - 1], lines[i])]
      BY <2>5
    <2> HIDE DEF kept, n
    <2>7. kept[0] = <<>> /\ DOMAIN kept = 0 .. n
          /\ \A i \in 1 .. n : kept[i] = Keep(kept[i - 1], lines[i])
      <3>1. \A i \in 1 .. n : i \in 0 .. n /\ i # 0
        BY <2>2
      <3>2. 0 \in 0 .. n
        BY <2>2
      <3> QED
        BY <2>6, <3>1, <3>2
    <2> HIDE DEF Keep
    <2>8. \A i \in 1 .. n : kept[i - 1] \in X => kept[i] = step[kept[i - 1]][lines[i]]
      BY <1>2, <2>2, <2>7
    <2> QED
      BY <1>3, <1>4, <2>1, <2>2, <2>7, <2>8, LoopIs DEF n
  <1> HIDE DEF Keep
  <1>6. /\ Fold(step, <<>>, <<>>) = <<>>
        /\ \A rows \in X : Fold(step, <<>>, rows) \in X
        /\ \A rows \in X, line \in L :
             Fold(step, <<>>, Append(rows, line)) = step[Fold(step, <<>>, rows)][line]
    BY <1>3, <1>4, FoldGrows DEF X
  <1>7. Without(<<>>, kinds) = <<>> /\ \A rows \in X : Without(rows, kinds) \in X
    BY <1>4, <1>5, <1>6
  <1>8. ASSUME NEW rows \in X, NEW line \in L
        PROVE  Without(Append(rows, line), kinds) = Keep(Without(rows, kinds), line)
    <2> DEFINE longer == Append(rows, line)
    <2>1. longer \in X
      OBVIOUS
    <2>2. Fold(step, <<>>, longer) = step[Fold(step, <<>>, rows)][line]
      BY <1>6
    <2> HIDE DEF longer, X
    <2>3. Fold(step, <<>>, longer) = Without(longer, kinds)
      BY <1>5, <2>1
    <2>4. Fold(step, <<>>, rows) = Without(rows, kinds) /\ Fold(step, <<>>, rows) \in X
      BY <1>5, <1>6
    <2>5. Without(longer, kinds) = Keep(Without(rows, kinds), line)
      BY <1>2, <2>2, <2>3, <2>4
    <2> QED
      BY <2>5 DEF longer
  <1> QED
    BY <1>7, <1>8 DEF Keep, Filters

LEMMA WithoutNext ==
  ASSUME NEW L, NEW rows \in Seq(L), NEW line \in L, NEW kinds
  PROVE  /\ Kind(line) \in kinds => Without(Append(rows, line), kinds) = Without(rows, kinds)
         /\ Kind(line) \notin kinds
            => Without(Append(rows, line), kinds) = Append(Without(rows, kinds), line)
  <1>1. Filters(L, kinds)
    BY WithoutFold
  <1> QED
    BY <1>1 DEF Filters

(* FlattenSeq, as the fold that puts the lines one after another *)
LEMMA FlattenFold ==
  /\ FlattenSeq(<<>>) = <<>>
  /\ \A rows \in Rows : FlattenSeq(rows) \in PieceTexts
  /\ \A rows \in Rows, line \in PieceTexts :
       FlattenSeq(Append(rows, line)) = FlattenSeq(rows) \o line
  <1> DEFINE Cat(text, line) == text \o line
             step == [text \in PieceTexts |-> [line \in PieceTexts |-> Cat(text, line)]]
  <1>1. \A text, line \in PieceTexts : Cat(text, line) \in PieceTexts
    BY DEF PieceTexts
  <1>2. \A text, line \in PieceTexts : step[text][line] = Cat(text, line)
    OBVIOUS
  <1>3. step \in Stepper(PieceTexts, PieceTexts)
    BY <1>1 DEF Stepper
  <1> HIDE DEF step
  <1>3a. \A text \in PieceTexts : Cat(<<>>, text) = text
    BY ConcatEmptySeq DEF PieceTexts
  <1>4. <<>> \in PieceTexts /\ <<>> \in Rows
    BY DEF PieceTexts, Rows
  <1>5. ASSUME NEW rows \in Rows PROVE FlattenSeq(rows) = Fold(step, <<>>, rows)
    <2> DEFINE n == Len(rows)
               flatten[i \in 1 .. Len(rows)] ==
                 IF i = 1 THEN rows[i] ELSE Cat(flatten[i - 1], rows[i])
    <2>1. n \in Nat /\ \A i \in 1 .. n : rows[i] \in PieceTexts
      BY DEF Rows
    <2>2. Folding(PieceTexts, step, <<>>, rows)
      BY <1>3, <1>4, FoldExists DEF Rows
    <2>3. PICK f \in [0 .. n -> PieceTexts] :
            FoldsBy(f, step, <<>>, rows) /\ Fold(step, <<>>, rows) = f[n]
      BY <2>2 DEF Folding
    <2>4. f[0] = <<>> /\ \A i \in 1 .. n : f[i] = Cat(f[i - 1], rows[i])
      <3>1. \A i \in 1 .. n : i - 1 \in 0 .. n
        BY <2>1
      <3> QED
        BY <1>2, <2>1, <2>3, <3>1 DEF FoldsBy
    <2>5. CASE n = 0
      <3>1. rows = <<>>
        BY <2>5 DEF Rows
      <3>2. FlattenSeq(rows) = rows
        BY <2>5 DEF FlattenSeq
      <3> QED
        BY <2>3, <2>4, <2>5, <3>1, <3>2
    <2>6. CASE n # 0
      <3>1. FlattenSeq(rows) = flatten[n]
        BY <2>6 DEF FlattenSeq
      <3> HIDE DEF Cat
      <3> DEFINE g == [i \in 1 .. n |-> f[i]]
      <3>2. g = [i \in 1 .. n |-> IF i = 1 THEN rows[i] ELSE Cat(g[i - 1], rows[i])]
        <4> HIDE DEF n
        <4>1. ASSUME NEW i \in 1 .. n PROVE g[i] = IF i = 1 THEN rows[i] ELSE Cat(g[i - 1], rows[i])
          <5>1. CASE i = 1
            <6>1. f[1] = Cat(f[0], rows[1]) /\ rows[1] \in PieceTexts
              BY <2>1, <2>4, <5>1
            <6> QED
              BY <1>3a, <2>4, <5>1, <6>1
          <5>2. CASE i # 1
            <6>1. i - 1 \in 1 .. n
              BY <2>1, <5>2
            <6> QED
              BY <2>4, <5>2, <6>1
          <5> QED
            BY <5>1, <5>2
        <4> QED
          BY <4>1
      <3> HIDE DEF g
      <3>3. flatten = [i \in 1 .. n |-> IF i = 1 THEN rows[i] ELSE Cat(flatten[i - 1], rows[i])]
        BY <3>2
      <3> HIDE DEF flatten, n
      <3> DEFINE S == {i \in 0 .. n : i # 0 => flatten[i] = f[i]}
      <3>4. 0 \in S
        BY <2>1
      <3>5. ASSUME NEW i \in 1 .. n, i - 1 \in S PROVE i \in S
        <4>1. flatten[i] = IF i = 1 THEN rows[i] ELSE Cat(flatten[i - 1], rows[i])
          BY <3>3
        <4>2. f[i] = Cat(f[i - 1], rows[i]) /\ rows[i] \in PieceTexts /\ i \in 0 .. n
          BY <2>1, <2>4
        <4>4. CASE i = 1
          <5>1. f[1] = Cat(f[0], rows[1]) /\ flatten[1] = rows[1] /\ rows[1] \in PieceTexts
            BY <2>4, <4>1, <4>2, <4>4
          <5> QED
            BY <1>3a, <2>4, <4>2, <4>4, <5>1
        <4>5. CASE i # 1
          <5>1. i - 1 # 0 /\ flatten[i - 1] = f[i - 1]
            BY <3>5, <4>5
          <5> QED
            BY <4>1, <4>2, <4>5, <5>1
        <4> QED
          BY <4>4, <4>5
      <3>6. \A i \in 1 .. n : i - 1 \in S => i \in S
        BY <3>5
      <3> HIDE DEF S
      <3>7. n \in S
        BY <2>1, <3>4, <3>6, UpTo, Zenon
      <3> QED
        BY <2>3, <2>6, <3>1, <3>7 DEF S
    <2> QED
      BY <2>5, <2>6
  <1>6. /\ Fold(step, <<>>, <<>>) = <<>>
        /\ \A rows \in Rows : Fold(step, <<>>, rows) \in PieceTexts
        /\ \A rows \in Rows, line \in PieceTexts :
             Fold(step, <<>>, Append(rows, line)) = step[Fold(step, <<>>, rows)][line]
    BY <1>3, <1>4, FoldGrows DEF Rows
  <1> HIDE DEF Cat
  <1>7. \A rows \in Rows, line \in PieceTexts : Append(rows, line) \in Rows
    BY DEF Rows
  <1>8. ASSUME NEW rows \in Rows, NEW line \in PieceTexts
        PROVE  FlattenSeq(Append(rows, line)) = Cat(FlattenSeq(rows), line)
    BY <1>2, <1>5, <1>6, <1>7
  <1> QED
    BY <1>4, <1>5, <1>6, <1>8 DEF Cat

-----------------------------------------------------------------------------
(* The lines of a text: each but the last ends with "N", and no line has   *)
(* it before its end.                                                      *)
Plain   == Seq(Pieces \ {"N"})
Ended   == {Append(line, "N") : line \in Plain}
OneLine == Ended \union (Plain \ {<<>>})
Lined(rows) == rows = <<>> \/ \E a \in Seq(Ended), line \in OneLine : rows = Append(a, line)

LEMMA LineSets ==
  /\ Plain \subseteq PieceTexts /\ Ended \subseteq PieceTexts /\ OneLine \subseteq PieceTexts
  /\ Seq(Ended) \subseteq Rows
  /\ \A line \in Plain : ~EndsWith(line, "N") /\ Append(line, "N") \in Ended
  /\ \A line \in Ended : line # <<>> /\ EndsWith(line, "N")
  /\ \A c \in Pieces : <<c>> \in OneLine /\ (c = "N" => <<c>> \in Ended)
  /\ \A line \in Plain, c \in Pieces : Append(line, c) \in OneLine
  <1>1. Plain \subseteq PieceTexts
    BY DEF Plain, PieceTexts
  <1>2. "N" \in Pieces
    BY PieceAssumption
  <1>3. ASSUME NEW line \in Plain PROVE Append(line, "N") \in PieceTexts
    BY <1>1, <1>2, <1>3 DEF PieceTexts
  <1>4. Ended \subseteq PieceTexts
    BY <1>3 DEF Ended
  <1>5. OneLine \subseteq PieceTexts
    BY <1>1, <1>4 DEF OneLine
  <1>6. Seq(Ended) \subseteq Rows
    BY <1>4, SeqMonotonic DEF Rows
  <1>7. ASSUME NEW line \in Plain PROVE ~EndsWith(line, "N")
    <2>1. line # <<>> => Len(line) \in 1 .. Len(line)
      BY DEF Plain
    <2> QED
      BY <2>1 DEF EndsWith, Last, Plain
  <1>8. ASSUME NEW line \in Ended PROVE line # <<>> /\ EndsWith(line, "N")
    <2>1. PICK l \in Plain : line = Append(l, "N")
      BY DEF Ended
    <2>2. l \in Seq(Pieces)
      BY <1>1 DEF PieceTexts
    <2> QED
      BY <1>2, <2>1, <2>2, AppendIs DEF EndsWith
  <1>9. ASSUME NEW line \in Plain, NEW c \in Pieces PROVE Append(line, c) \in OneLine
    <2>1. CASE c = "N"
      BY <2>1 DEF Ended, OneLine
    <2>2. CASE c # "N"
      <3>1. Append(line, c) \in Plain /\ Append(line, c) # <<>>
        BY <2>2, AppendProperties DEF Plain
      <3> QED
        BY <3>1 DEF OneLine
    <2> QED
      BY <2>1, <2>2
  <1>10. ASSUME NEW c \in Pieces PROVE <<c>> \in OneLine /\ (c = "N" => <<c>> \in Ended)
    <2>1. <<>> \in Plain /\ Append(<<>>, c) = <<c>>
      BY DEF Plain
    <2> QED
      BY <1>9, <2>1 DEF Ended
  <1> QED
    BY <1>1, <1>4, <1>5, <1>6, <1>7, <1>8, <1>9, <1>10 DEF Ended

(* A piece is added to the last line, unless that line has ended. *)
LEMMA AddIs ==
  ASSUME NEW a \in Rows, NEW line \in PieceTexts, NEW c \in Pieces
  PROVE  /\ AddPiece(<<>>, c) = <<<<c>>>>
         /\ EndsWith(line, "N") => AddPiece(Append(a, line), c) = Append(Append(a, line), <<c>>)
         /\ ~EndsWith(line, "N") => AddPiece(Append(a, line), c) = Append(a, Append(line, c))
  <1> DEFINE rows == Append(a, line)
  <1>1. rows # <<>> /\ Last(rows) = line /\ Front(rows) = a
    BY AppendIs DEF Rows
  <1> HIDE DEF rows
  <1>2. /\ EndsWith(line, "N") => AddPiece(rows, c) = Append(rows, <<c>>)
        /\ ~EndsWith(line, "N") => AddPiece(rows, c) = Append(a, Append(line, c))
    BY <1>1 DEF AddPiece
  <1>3. AddPiece(<<>>, c) = <<<<c>>>>
    BY DEF AddPiece
  <1> QED
    BY <1>2, <1>3 DEF rows

(* The lines of a text are such lines, all of them ended when the text is. *)
LEMMA LinedIs ==
  ASSUME NEW text \in PieceTexts
  PROVE  Lined(Lines(text)) /\ (text = <<>> \/ EndsWith(text, "N") => Lines(text) \in Seq(Ended))
  <1>1. ASSUME NEW rows \in Rows, Lined(rows), NEW c \in Pieces
        PROVE  Lined(AddPiece(rows, c)) /\ (c = "N" => AddPiece(rows, c) \in Seq(Ended))
    <2>1. CASE rows = <<>>
      <3>1. AddPiece(rows, c) = <<<<c>>>> /\ <<<<c>>>> = Append(<<>>, <<c>>)
        BY <2>1 DEF AddPiece
      <3>2. <<>> \in Seq(Ended) /\ <<c>> \in OneLine /\ (c = "N" => <<c>> \in Ended)
        BY LineSets
      <3>3. c = "N" => Append(<<>>, <<c>>) \in Seq(Ended)
        BY <3>2, AppendProperties
      <3> QED
        BY <3>1, <3>2, <3>3 DEF Lined
    <2>2. ASSUME NEW a \in Seq(Ended), NEW line \in OneLine, rows = Append(a, line)
          PROVE  Lined(AddPiece(rows, c)) /\ (c = "N" => AddPiece(rows, c) \in Seq(Ended))
      <3>0. a \in Rows /\ line \in PieceTexts
        BY LineSets
      <3>1. CASE line \in Ended
        <4>1. AddPiece(rows, c) = Append(rows, <<c>>)
          BY <2>2, <3>0, <3>1, AddIs, LineSets
        <4>2. rows \in Seq(Ended) /\ <<c>> \in OneLine /\ (c = "N" => <<c>> \in Ended)
          BY <2>2, <3>1, LineSets, AppendProperties
        <4>3. c = "N" => Append(rows, <<c>>) \in Seq(Ended)
          BY <4>2, AppendProperties
        <4> QED
          BY <4>1, <4>2, <4>3 DEF Lined
      <3>2. CASE line \in Plain
        <4>1. AddPiece(rows, c) = Append(a, Append(line, c))
          BY <2>2, <3>0, <3>2, AddIs, LineSets
        <4>2. Append(line, c) \in OneLine /\ (c = "N" => Append(line, c) \in Ended)
          BY <3>2, LineSets
        <4>3. c = "N" => Append(a, Append(line, c)) \in Seq(Ended)
          BY <4>2, AppendProperties
        <4> QED
          BY <4>1, <4>2, <4>3 DEF Lined
      <3> QED
        BY <3>1, <3>2 DEF OneLine
    <2> QED
      BY <1>1, <2>1, <2>2 DEF Lined
  <1> DEFINE S == {t \in PieceTexts : Lined(Lines(t))}
  <1>2. <<>> \in S
    BY LinesFold DEF Lined, PieceTexts
  <1>3. ASSUME NEW t \in PieceTexts, NEW c \in Pieces, t \in S PROVE Append(t, c) \in S
    <2>1. Append(t, c) \in PieceTexts
      BY DEF PieceTexts
    <2> QED
      BY <1>1, <1>3, <2>1, LinesFold
  <1> HIDE DEF S
  <1>4. \A t \in PieceTexts : t \in S
    BY <1>2, <1>3, WordInduction DEF PieceTexts
  <1>5. \A t \in PieceTexts : Lined(Lines(t))
    BY <1>4 DEF S
  <1>6. ASSUME text = <<>> \/ EndsWith(text, "N") PROVE Lines(text) \in Seq(Ended)
    <2>1. CASE text = <<>>
      <3>1. <<>> \in Seq(Ended)
        OBVIOUS
      <3> QED
        BY <2>1, <3>1, LinesFold
    <2>2. CASE text # <<>>
      <3>1. PICK t \in PieceTexts, c \in Pieces : text = Append(t, c)
        BY <2>2, AppendCases DEF PieceTexts
      <3>2. c = "N"
        BY <1>6, <2>2, <3>1, AppendIs DEF EndsWith, PieceTexts
      <3>3. Lines(text) = AddPiece(Lines(t), c) /\ Lines(t) \in Rows
        BY <3>1, LinesFold
      <3> QED
        BY <1>1, <1>5, <3>2, <3>3
    <2> QED
      BY <2>1, <2>2
  <1> QED
    BY <1>5, <1>6

(* Behind lines that have ended, the lines of a text are what they are. *)
LEMMA LinesConcat ==
  ASSUME NEW a \in PieceTexts, Lines(a) \in Seq(Ended), NEW b \in PieceTexts
  PROVE  Lines(a \o b) = Lines(a) \o Lines(b)
  <1> DEFINE S == {t \in PieceTexts : Lines(a \o t) = Lines(a) \o Lines(t)}
             before == Lines(a)
  <1>0. before \in Rows
    BY LinesFold
  <1>1. <<>> \in S
    <2>1. a \o <<>> = a
      BY ConcatEmptySeq DEF PieceTexts
    <2>2. before \o <<>> = before
      BY <1>0, ConcatEmptySeq DEF Rows
    <2> HIDE DEF before
    <2> QED
      BY <2>1, <2>2, LinesFold DEF PieceTexts, before
  <1>2. ASSUME NEW t \in PieceTexts, NEW c \in Pieces, t \in S PROVE Append(t, c) \in S
    <2> DEFINE at == a \o t
               rows == Lines(t)
    <2>1. at \in PieceTexts /\ a \o Append(t, c) = Append(at, c) /\ Append(t, c) \in PieceTexts
      BY ConcatAppend, AppendIs, ConcatIs DEF PieceTexts
    <2>2. Lines(at) = before \o rows /\ rows \in Rows
      BY <1>2, LinesFold
    <2> HIDE DEF at, rows, before
    <2>3. Lines(Append(at, c)) = AddPiece(before \o rows, c)
      BY <2>1, <2>2, LinesFold
    <2>4. Lines(Append(t, c)) = AddPiece(rows, c)
      BY LinesFold DEF rows
    <2>5. AddPiece(before \o rows, c) = before \o AddPiece(rows, c)
      <3>0. <<c>> \in PieceTexts
        BY DEF PieceTexts
      <3>1. CASE rows = <<>>
        <4>1. before \o rows = before
          BY <1>0, <3>1, ConcatEmptySeq DEF Rows
        <4>2. AddPiece(rows, c) = <<<<c>>>>
          BY <3>1 DEF AddPiece
        <4>3. Append(before, <<c>>) = before \o <<<<c>>>>
          BY <1>0, <3>0, AppendIs DEF Rows
        <4>4. before = <<>> \/ EndsWith(Last(before), "N")
          <5>1. ASSUME NEW r \in Seq(Ended), NEW l \in Ended, before = Append(r, l)
                PROVE  EndsWith(Last(before), "N")
            <6>1. Last(before) = l
              BY <5>1, AppendIs
            <6> QED
              BY <6>1, LineSets
          <5>2. before \in Seq(Ended)
            BY DEF before
          <5> QED
            BY <5>1, <5>2, AppendCases
        <4>5. AddPiece(before, c) = Append(before, <<c>>)
          BY <4>4 DEF AddPiece
        <4> QED
          BY <4>1, <4>2, <4>3, <4>5
      <3>2. CASE rows # <<>>
        <4>1. PICK r \in Rows, l \in PieceTexts : rows = Append(r, l)
          BY <2>2, <3>2, AppendCases DEF Rows
        <4> DEFINE br == before \o r
        <4>2. br \in Rows /\ before \o rows = Append(br, l)
          BY <1>0, <4>1, ConcatAppend, ConcatIs DEF Rows
        <4>2a. before \o Append(r, l) = Append(br, l) /\ Append(r, l) \in Rows
          BY <4>1, <4>2, <2>2
        <4>3. /\ before \o Append(Append(r, l), <<c>>) = Append(before \o Append(r, l), <<c>>)
              /\ before \o Append(r, Append(l, c)) = Append(br, Append(l, c))
          <5> DEFINE rl == Append(r, l)
                     lc == Append(l, c)
          <5>1. lc \in PieceTexts
            BY DEF PieceTexts
          <5>2. rl \in Rows
            BY <4>2a
          <5> HIDE DEF rl, lc
          <5>3. before \o Append(rl, <<c>>) = Append(before \o rl, <<c>>)
            BY <1>0, <3>0, <5>2, ConcatAppend DEF Rows
          <5>4. before \o Append(r, lc) = Append(br, lc)
            BY <1>0, <5>1, ConcatAppend DEF Rows
          <5> QED
            BY <5>3, <5>4 DEF rl, lc
        <4> HIDE DEF br
        <4>4. CASE EndsWith(l, "N")
          <5>1. AddPiece(Append(br, l), c) = Append(Append(br, l), <<c>>)
            BY <4>2, <4>4, AddIs
          <5>2. AddPiece(Append(r, l), c) = Append(Append(r, l), <<c>>)
            BY <4>4, AddIs
          <5> QED
            BY <4>1, <4>2, <4>2a, <4>3, <5>1, <5>2
        <4>5. CASE ~EndsWith(l, "N")
          <5>1. AddPiece(Append(br, l), c) = Append(br, Append(l, c))
            BY <4>2, <4>5, AddIs
          <5>2. AddPiece(Append(r, l), c) = Append(r, Append(l, c))
            BY <4>5, AddIs
          <5> QED
            BY <4>1, <4>2, <4>3, <5>1, <5>2
        <4> QED
          BY <4>4, <4>5
      <3> QED
        BY <3>1, <3>2
    <2> QED
      BY <2>1, <2>3, <2>4, <2>5 DEF before
  <1> HIDE DEF S
  <1>3. \A t \in PieceTexts : t \in S
    BY <1>1, <1>2, WordInduction DEF PieceTexts
  <1> QED
    BY <1>3 DEF S

LEMMA LineIs ==
  ASSUME NEW line \in OneLine
  PROVE  Lines(line) = <<line>>
  <1> DEFINE S == {p \in Plain : p = <<>> \/ Lines(p) = <<p>>}
  <1>1. ASSUME NEW p \in S, NEW c \in Pieces PROVE Lines(Append(p, c)) = <<Append(p, c)>>
    <2>1. p \in PieceTexts /\ p \in Plain /\ ~EndsWith(p, "N")
      BY LineSets
    <2>2. Lines(Append(p, c)) = AddPiece(Lines(p), c)
      BY <2>1, LinesFold
    <2>3. CASE p = <<>>
      <3>1. Lines(p) = <<>> /\ Append(p, c) = <<c>>
        BY <2>3, LinesFold
      <3>2. AddPiece(Lines(p), c) = <<<<c>>>>
        BY <3>1 DEF AddPiece
      <3> QED
        BY <2>2, <3>1, <3>2
    <2>4. CASE Lines(p) = <<p>>
      <3>1. <<p>> = Append(<<>>, p) /\ <<>> \in Rows
        BY DEF Rows
      <3>2. AddPiece(Append(<<>>, p), c) = Append(<<>>, Append(p, c))
        BY <2>1, <3>1, AddIs
      <3>3. Append(<<>>, Append(p, c)) = <<Append(p, c)>>
        OBVIOUS
      <3> QED
        BY <2>2, <2>4, <3>1, <3>2, <3>3
    <2> QED
      BY <2>3, <2>4
  <1>2. <<>> \in S
    BY DEF Plain
  <1>3. ASSUME NEW p \in Plain, NEW c \in Pieces \ {"N"}, p \in S PROVE Append(p, c) \in S
    <2>1. Append(p, c) \in Plain
      BY DEF Plain
    <2> QED
      BY <1>1, <1>3, <2>1
  <1> HIDE DEF S
  <1>4. \A p \in Plain : p \in S
    BY <1>2, <1>3, WordInduction DEF Plain
  <1>5. CASE line \in Ended
    <2>1. PICK p \in Plain : line = Append(p, "N")
      BY <1>5 DEF Ended
    <2> QED
      BY <1>1, <1>4, <2>1, PieceAssumption
  <1>6. CASE line \in Plain \ {<<>>}
    BY <1>4, <1>6 DEF S
  <1> QED
    BY <1>5, <1>6 DEF OneLine

(* Lines put together and read again are the same lines. *)
LEMMA FlattenLines ==
  ASSUME NEW rows, Lined(rows)
  PROVE  rows \in Rows /\ Lines(FlattenSeq(rows)) = rows
  <1> DEFINE S == {r \in Seq(Ended) : Lines(FlattenSeq(r)) = r}
  <1>1. ASSUME NEW r \in S, NEW line \in OneLine
        PROVE  Lines(FlattenSeq(Append(r, line))) = Append(r, line) /\ Append(r, line) \in Rows
    <2> DEFINE text == FlattenSeq(r)
    <2>1. r \in Rows /\ line \in PieceTexts /\ r \in Seq(Ended) /\ Lines(text) = r
      BY LineSets
    <2>2. FlattenSeq(Append(r, line)) = text \o line /\ text \in PieceTexts
      BY <2>1, FlattenFold
    <2> HIDE DEF text
    <2>3. Lines(text \o line) = r \o Lines(line)
      BY <2>1, <2>2, LinesConcat
    <2>4. Lines(line) = <<line>>
      BY LineIs
    <2>5. Append(r, line) = r \o <<line>> /\ Append(r, line) \in Rows
      BY <2>1, AppendIs DEF Rows
    <2> QED
      BY <2>2, <2>3, <2>4, <2>5
  <1>2. <<>> \in S
    <2>1. <<>> \in Seq(Ended)
      OBVIOUS
    <2> QED
      BY <2>1, LinesFold, FlattenFold
  <1>3. ASSUME NEW r \in Seq(Ended), NEW line \in Ended, r \in S PROVE Append(r, line) \in S
    <2>1. Append(r, line) \in Seq(Ended)
      OBVIOUS
    <2> QED
      BY <1>1, <1>3, <2>1 DEF OneLine
  <1> HIDE DEF S
  <1>4. \A r \in Seq(Ended) : r \in S
    BY <1>2, <1>3, WordInduction
  <1>5. CASE rows = <<>>
    BY <1>5, LinesFold, FlattenFold DEF Rows
  <1>6. CASE \E a \in Seq(Ended), line \in OneLine : rows = Append(a, line)
    BY <1>1, <1>4, <1>6
  <1> QED
    BY <1>5, <1>6 DEF Lined

(* What the lines that are kept are *)
LEMMA WithoutLined ==
  ASSUME NEW rows, Lined(rows), NEW kinds
  PROVE  Lined(Without(rows, kinds))
  <1>1. Without(<<>>, kinds) = <<>>
    BY WithoutFold
  <1>2. ASSUME NEW a \in Seq(Ended), NEW line \in OneLine, rows = Append(a, line)
        PROVE  Lined(Without(rows, kinds))
    <2> DEFINE kept == Without(a, kinds)
    <2>1. kept \in Seq(Ended)
      BY WithoutFold
    <2>2. a \in Seq(OneLine)
      BY SeqMonotonic DEF OneLine
    <2>3. Without(rows, kinds) = kept \/ Without(rows, kinds) = Append(kept, line)
      BY <1>2, <2>2, WithoutNext
    <2> HIDE DEF kept
    <2>4. Lined(kept)
      <3>1. kept = <<>> \/ \E r \in Seq(Ended), l \in Ended : kept = Append(r, l)
        BY <2>1, AppendCases
      <3> QED
        BY <3>1 DEF Lined, OneLine
    <2> QED
      BY <2>1, <2>3, <2>4 DEF Lined
  <1> QED
    BY <1>1, <1>2 DEF Lined

LEMMA WithoutConcat ==
  ASSUME NEW L, NEW a \in Seq(L), NEW b \in Seq(L), NEW kinds
  PROVE  Without(a \o b, kinds) = Without(a, kinds) \o Without(b, kinds)
  <1> DEFINE W(rows) == Without(rows, kinds)
             S == {r \in Seq(L) : W(a \o r) = W(a) \o W(r)}
  <1>0. \A r \in Seq(L) : W(r) \in Seq(L)
    BY WithoutFold
  <1>0a. \A r \in Seq(L), line \in L :
          /\ Kind(line) \in kinds => W(Append(r, line)) = W(r)
          /\ Kind(line) \notin kinds => W(Append(r, line)) = Append(W(r), line)
    BY WithoutNext
  <1>0b. W(<<>>) = <<>>
    BY WithoutFold
  <1> HIDE DEF W
  <1>1. <<>> \in S
    <2> DEFINE wa == W(a)
    <2>1. a \o <<>> = a /\ wa \in Seq(L)
      BY <1>0, ConcatEmptySeq
    <2> HIDE DEF wa
    <2>2. wa \o <<>> = wa
      BY <2>1, ConcatEmptySeq
    <2>3. W(a \o <<>>) = wa /\ W(a) \o W(<<>>) = wa
      BY <1>0b, <2>1, <2>2 DEF wa
    <2>4. <<>> \in Seq(L)
      OBVIOUS
    <2> QED
      BY <2>3, <2>4
  <1>2. ASSUME NEW r \in Seq(L), NEW line \in L, r \in S PROVE Append(r, line) \in S
    <2> DEFINE ar == a \o r
               wa == W(a)
               wr == W(r)
    <2>1. ar \in Seq(L) /\ wa \in Seq(L) /\ wr \in Seq(L) /\ W(ar) = wa \o wr
      BY <1>0, <1>2, ConcatIs
    <2>2. a \o Append(r, line) = Append(ar, line) /\ Append(r, line) \in Seq(L)
      BY ConcatAppend, AppendIs
    <2>3. /\ Kind(line) \in kinds => W(Append(r, line)) = wr
          /\ Kind(line) \notin kinds => W(Append(r, line)) = Append(wr, line)
      BY <1>0a
    <2> HIDE DEF ar, wa, wr
    <2>4. /\ Kind(line) \in kinds => W(Append(ar, line)) = W(ar)
          /\ Kind(line) \notin kinds => W(Append(ar, line)) = Append(W(ar), line)
      BY <1>0a, <2>1
    <2>5. wa \o Append(wr, line) = Append(wa \o wr, line)
      BY <2>1, ConcatAppend
    <2>6. W(Append(ar, line)) = wa \o W(Append(r, line))
      <3>1. CASE Kind(line) \in kinds
        BY <2>1, <2>3, <2>4, <3>1
      <3>2. CASE Kind(line) \notin kinds
        BY <2>1, <2>3, <2>4, <2>5, <3>2
      <3> QED
        BY <3>1, <3>2
    <2> QED
      BY <2>2, <2>6 DEF wa
  <1> HIDE DEF S
  <1>3. \A r \in Seq(L) : r \in S
    BY <1>1, <1>2, WordInduction
  <1> QED
    BY <1>3 DEF S, W

LEMMA WithoutTwice ==
  ASSUME NEW L, NEW rows \in Seq(L), NEW first, NEW kinds, first \subseteq kinds
  PROVE  Without(Without(rows, first), kinds) = Without(rows, kinds)
  <1> DEFINE V(r) == Without(r, first)
             W(r) == Without(r, kinds)
             S == {r \in Seq(L) : W(V(r)) = W(r)}
  <1>1. V(<<>>) = <<>> /\ \A r \in Seq(L) : V(r) \in Seq(L)
    BY WithoutFold
  <1>2. \A r \in Seq(L), line \in L :
          /\ Kind(line) \in first => V(Append(r, line)) = V(r)
          /\ Kind(line) \notin first => V(Append(r, line)) = Append(V(r), line)
    BY WithoutNext
  <1>3. \A r \in Seq(L), line \in L :
          /\ Kind(line) \in kinds => W(Append(r, line)) = W(r)
          /\ Kind(line) \notin kinds => W(Append(r, line)) = Append(W(r), line)
    BY WithoutNext
  <1> HIDE DEF V, W
  <1>4. <<>> \in S
    BY <1>1
  <1>5. ASSUME NEW r \in Seq(L), NEW line \in L, r \in S PROVE Append(r, line) \in S
    <2>1. Append(r, line) \in Seq(L) /\ V(r) \in Seq(L) /\ W(V(r)) = W(r)
      BY <1>1, <1>5
    <2>2. CASE Kind(line) \in first
      BY <1>2, <1>3, <2>1, <2>2
    <2>3. CASE Kind(line) \notin first
      <3>1. V(Append(r, line)) = Append(V(r), line)
        BY <1>2, <2>3
      <3>2. /\ Kind(line) \in kinds => W(Append(V(r), line)) = W(V(r))
            /\ Kind(line) \notin kinds => W(Append(V(r), line)) = Append(W(V(r)), line)
        BY <1>3, <2>1
      <3> QED
        BY <1>3, <2>1, <3>1, <3>2
    <2> QED
      BY <2>2, <2>3
  <1> HIDE DEF S
  <1>6. \A r \in Seq(L) : r \in S
    BY <1>4, <1>5, WordInduction
  <1> QED
    BY <1>6 DEF S, V, W

-----------------------------------------------------------------------------
(* The directive and the empty line behind it *)
Added == <<"I", "N", "N">>

LEMMA AddedLines ==
  ASSUME NEW text \in PieceTexts
  PROVE  /\ Added \o text \in PieceTexts /\ IsDirective(<<"I", "N">>)
         /\ Lines(<<"I", "N">>) = <<<<"I", "N">>>>
         /\ Lines(Added \o text) = <<<<"I", "N">>, <<"N">>>> \o Lines(text)
         /\ Others(Added \o text) = Others(text) /\ Others(<<"I", "N">>) = <<>>
  <1> DEFINE directive == <<"I", "N">>
             blank == <<"N">>
             both == <<directive, blank>>
             kinds == {"directive", "blank"}
  <1>1. "I" \in Pieces /\ "N" \in Pieces
    BY PieceAssumption
  <1>2. directive \in Ended /\ blank \in Ended
    <2>1. <<"I">> \in Plain /\ <<>> \in Plain
      BY <1>1 DEF Plain
    <2>2. directive = Append(<<"I">>, "N") /\ blank = Append(<<>>, "N")
      OBVIOUS
    <2> QED
      BY <2>1, <2>2 DEF Ended
  <1>3. directive \in PieceTexts /\ blank \in PieceTexts /\ Added \in PieceTexts
    BY <1>1 DEF PieceTexts, Added
  <1>4. Lines(directive) = <<directive>> /\ Lines(blank) = <<blank>>
    BY <1>2, LineIs DEF OneLine
  <1>5. Lines(Added) = both
    <2>1. Added = directive \o blank /\ both = <<directive>> \o <<blank>>
      BY DEF Added
    <2>2. Lines(directive) \in Seq(Ended)
      BY <1>2, <1>4
    <2> HIDE DEF directive, blank, both
    <2>3. Lines(directive \o blank) = Lines(directive) \o Lines(blank)
      BY <1>3, <2>2, LinesConcat
    <2> QED
      BY <1>4, <2>1, <2>3
  <1>6. both \in Seq(Ended) /\ both \in Rows
    <2>1. <<>> \in Seq(Ended) /\ Append(<<>>, directive) \in Seq(Ended)
      BY <1>2, AppendProperties
    <2>2. both = Append(Append(<<>>, directive), blank)
      OBVIOUS
    <2> HIDE DEF both, blank, directive
    <2>3. both \in Seq(Ended)
      BY <1>2, <2>1, <2>2, AppendProperties
    <2> QED
      BY <2>3, LineSets
  <1>7. Kind(directive) = "directive" /\ Kind(blank) = "blank" /\ IsDirective(directive)
    <2>0. /\ DOMAIN directive = {1, 2} /\ directive[1] = "I" /\ directive[2] = "N"
          /\ DOMAIN blank = {1} /\ blank[1] = "N"
      OBVIOUS
    <2> HIDE DEF directive, blank
    <2>1. Content(directive) = {1} /\ Content(blank) = {}
      BY <2>0 DEF Content
    <2>2. IsDirective(directive)
      BY <2>0, <2>1 DEF IsDirective
    <2>3. ~IsDirective(blank)
      BY <2>0 DEF IsDirective
    <2> QED
      BY <2>1, <2>2, <2>3 DEF Kind
  <1>8. Without(<<directive>>, kinds) = <<>> /\ Without(both, kinds) = <<>>
    <2> DEFINE one == <<directive>>
               none == <<>>
    <2>1. Kind(directive) \in kinds /\ Kind(blank) \in kinds
      BY <1>7
    <2> HIDE DEF directive, blank, kinds
    <2>2. one = Append(none, directive)
      OBVIOUS
    <2>3. both = Append(one, blank)
      OBVIOUS
    <2>4. none \in Seq(PieceTexts) /\ one \in Seq(PieceTexts)
      BY <1>3
    <2>5. Without(none, kinds) = none
      BY WithoutFold
    <2> HIDE DEF one, none, both
    <2>6. Without(Append(none, directive), kinds) = Without(none, kinds)
      BY <1>3, <2>1, <2>4, WithoutNext
    <2>7. Without(Append(one, blank), kinds) = Without(one, kinds)
      BY <1>3, <2>1, <2>4, WithoutNext
    <2> QED
      BY <2>2, <2>3, <2>5, <2>6, <2>7 DEF one, none
  <1> HIDE DEF directive, blank, both, kinds
  <1>9. Lines(Added \o text) = both \o Lines(text)
    BY <1>3, <1>5, <1>6, LinesConcat
  <1>10. Others(Added \o text) = Others(text)
    <2> DEFINE rows == Lines(text)
               kept == Without(rows, kinds)
    <2>1. rows \in Rows /\ kept \in Rows
      BY LinesFold, WithoutFold DEF Rows
    <2> HIDE DEF rows
    <2>2. Without(both \o rows, kinds) = Without(both, kinds) \o kept
      BY <1>6, <2>1, WithoutConcat DEF Rows
    <2> HIDE DEF kept
    <2>3. <<>> \o kept = kept
      BY <2>1, ConcatEmptySeq DEF Rows
    <2> QED
      BY <1>8, <1>9, <2>2, <2>3 DEF Others, kinds, rows, kept
  <1>11. Added \o text \in PieceTexts
    BY <1>3, ConcatIs DEF PieceTexts
  <1>12. Others(directive) = <<>>
    BY <1>4, <1>8 DEF Others, kinds
  <1> QED
    BY <1>4, <1>7, <1>9, <1>10, <1>11, <1>12 DEF directive, blank, both

(* Taking the directive out disturbs no other line, whatever the text. *)
LEMMA RemovedLines ==
  ASSUME NEW text \in PieceTexts
  PROVE  /\ RemoveManagedInclude(text) \in PieceTexts
         /\ Others(RemoveManagedInclude(text)) = Others(text)
         /\ RemoveManagedInclude(Added \o text) = text
  <1> DEFINE rest == SubSeq(text, 4, Len(text))
             rows == Lines(text)
             kept == Without(rows, {"directive"})
  <1>0. Added \in PieceTexts
    <2>1. "I" \in Pieces /\ "N" \in Pieces
      BY PieceAssumption
    <2> QED
      BY <2>1 DEF Added, PieceTexts
  <1>0a. Len(Added) = 3 /\ Added = <<"I", "N", "N">>
    BY DEF Added
  <1>1. ASSUME IsPrefix(Added, text) PROVE rest \in PieceTexts /\ text = Added \o rest
    <2> DEFINE n == Len(text)
    <2>1. n \in Nat /\ 3 <= n /\ \A i \in 1 .. 3 : text[i] = Added[i]
      <3>1. n \in Nat /\ 3 <= n
        BY <1>0a, <1>1 DEF IsPrefix, PieceTexts
      <3> DEFINE a == SubSeq(text, 1, 3)
                 b == SubSeq(Added, 1, 3)
      <3>2. a = b
        BY <1>0a, <1>1 DEF IsPrefix
      <3>3. \A i \in 1 .. 3 - 1 + 1 : a[i] = text[1 + i - 1]
        BY <3>1, SubSeqIs DEF PieceTexts
      <3>4. \A i \in 1 .. 3 - 1 + 1 : b[i] = Added[1 + i - 1]
        BY <1>0, <1>0a, SubSeqIs DEF PieceTexts
      <3> HIDE DEF a, b
      <3> QED
        BY <3>1, <3>2, <3>3, <3>4
    <2>2. /\ rest \in PieceTexts /\ Len(rest) = n - 4 + 1
          /\ \A i \in 1 .. n - 4 + 1 : rest[i] = text[4 + i - 1]
      <3>1. text \in Seq(Pieces) /\ n \in Nat /\ 4 \in Nat \ {0} /\ n <= Len(text) /\ 4 <= n + 1
        BY <2>1 DEF PieceTexts
      <3>2. rest = SubSeq(text, 4, n)
        OBVIOUS
      <3> HIDE DEF rest, n
      <3> QED
        BY <3>1, <3>2, SubSeqIs DEF PieceTexts
    <2> HIDE DEF rest
    <2>3. /\ Added \o rest \in PieceTexts /\ Len(Added \o rest) = Len(Added) + Len(rest)
          /\ \A i \in 1 .. Len(Added) : (Added \o rest)[i] = Added[i]
          /\ \A i \in 1 .. Len(rest) : (Added \o rest)[Len(Added) + i] = rest[i]
      <3>1. Added \in Seq(Pieces) /\ rest \in Seq(Pieces)
        BY <1>0, <2>2 DEF PieceTexts
      <3> QED
        BY <3>1, ConcatIs DEF PieceTexts
    <2> DEFINE whole == Added \o rest
    <2> HIDE DEF n, whole
    <2>4. Len(whole) = n
      BY <1>0a, <2>1, <2>2, <2>3 DEF whole
    <2>5. ASSUME NEW i \in 1 .. n PROVE text[i] = whole[i]
      <3>1. CASE i <= 3
        BY <1>0a, <2>1, <2>3, <3>1 DEF whole
      <3>2. CASE i > 3
        <4>1. i - 3 \in 1 .. n - 3 /\ 3 + (i - 3) = i /\ 4 + (i - 3) - 1 = i /\ n - 4 + 1 = n - 3
          BY <2>1, <3>2
        <4>2. whole[3 + (i - 3)] = rest[i - 3]
          BY <1>0a, <2>2, <2>3, <4>1 DEF whole
        <4> QED
          BY <2>2, <4>1, <4>2
      <3> QED
        BY <3>1, <3>2
    <2>6. text = whole
      <3>1. whole \in PieceTexts
        BY <2>3 DEF whole
      <3> QED
        BY <2>4, <2>5, <3>1, SeqEqual DEF PieceTexts, n
    <2> QED
      BY <2>2, <2>6 DEF whole
  <1>2. Lined(rows) /\ rows \in Rows
    BY LinedIs, LinesFold
  <1>3. Lined(kept) /\ kept \in Rows
    <2> HIDE DEF rows
    <2> QED
      BY <1>2, WithoutLined, WithoutFold DEF Rows
  <1>4. FlattenSeq(kept) \in PieceTexts /\ Lines(FlattenSeq(kept)) = kept
    <2> HIDE DEF kept
    <2> QED
      BY <1>3, FlattenLines, FlattenFold
  <1>5. Others(FlattenSeq(kept)) = Others(text)
    <2>1. Without(kept, {"directive", "blank"}) = Without(rows, {"directive", "blank"})
      <3> HIDE DEF rows
      <3>1. {"directive"} \subseteq {"directive", "blank"} /\ rows \in Seq(PieceTexts)
        BY <1>2 DEF Rows
      <3> QED
        BY <3>1, WithoutTwice
    <2> QED
      BY <1>4, <2>1 DEF Others
  <1>6. RemoveManagedInclude(Added \o text) = text
    <2> DEFINE whole == Added \o text
               n == Len(text)
    <2>1. /\ whole \in PieceTexts /\ Len(whole) = 3 + n
          /\ \A i \in 1 .. 3 : whole[i] = Added[i]
          /\ \A i \in 1 .. n : whole[3 + i] = text[i]
      BY <1>0, <1>0a, ConcatIs DEF PieceTexts
    <2>2. n \in Nat
      BY DEF PieceTexts
    <2> HIDE DEF whole
    <2> DEFINE a == SubSeq(whole, 1, 3)
               b == SubSeq(Added, 1, 3)
               c == SubSeq(whole, 4, 3 + n)
    <2>3. a \in PieceTexts /\ Len(a) = 3 - 1 + 1 /\ \A i \in 1 .. 3 - 1 + 1 : a[i] = whole[1 + i - 1]
      BY <2>1, <2>2, SubSeqIs DEF PieceTexts
    <2>4. b \in PieceTexts /\ Len(b) = 3 - 1 + 1 /\ \A i \in 1 .. 3 - 1 + 1 : b[i] = Added[1 + i - 1]
      BY <1>0, <1>0a, SubSeqIs DEF PieceTexts
    <2>5. /\ c \in PieceTexts /\ Len(c) = 3 + n - 4 + 1
          /\ \A i \in 1 .. 3 + n - 4 + 1 : c[i] = whole[4 + i - 1]
      BY <2>1, <2>2, SubSeqIs DEF PieceTexts
    <2> HIDE DEF a, b, c, n
    <2>6. a = b
      <3>1. \A i \in 1 .. 3 : a[i] = b[i]
        BY <2>1, <2>3, <2>4
      <3>2. Len(a) = Len(b) /\ Len(a) = 3
        BY <2>3, <2>4
      <3> QED
        BY <2>3, <2>4, <3>1, <3>2, SeqEqual DEF PieceTexts
    <2>7. c = text
      <3>1. \A i \in 1 .. n : c[i] = text[i]
        <4>1. \A i \in 1 .. n : 4 + i - 1 = 3 + i /\ i \in 1 .. 3 + n - 4 + 1
          BY <2>2
        <4> QED
          BY <2>1, <2>5, <4>1
      <3>2. Len(c) = n
        BY <2>2, <2>5
      <3> QED
        BY <2>5, <3>1, <3>2, SeqEqual DEF PieceTexts, n
    <2>8. IsPrefix(Added, whole) /\ SubSeq(whole, 4, Len(whole)) = text
      BY <1>0a, <2>1, <2>2, <2>6, <2>7 DEF IsPrefix, a, b, c
    <2>9. RemoveManagedInclude(whole) = text
      BY <1>0a, <2>8 DEF RemoveManagedInclude
    <2> QED
      BY <2>9 DEF whole
  <1>7. CASE IsPrefix(Added, text)
    <2>1. RemoveManagedInclude(text) = rest
      BY <1>0a, <1>7 DEF RemoveManagedInclude
    <2> HIDE DEF rest
    <2>2. Others(Added \o rest) = Others(rest)
      BY <1>1, <1>7, AddedLines
    <2> QED
      BY <1>1, <1>6, <1>7, <2>1, <2>2
  <1>8. CASE ~IsPrefix(Added, text)
    <2>1. RemoveManagedInclude(text) = FlattenSeq(kept)
      BY <1>0a, <1>8 DEF RemoveManagedInclude
    <2> QED
      BY <1>4, <1>5, <1>6, <2>1
  <1> QED
    BY <1>7, <1>8

LEMMA AddedFirst ==
  ASSUME NEW text \in PieceTexts
  PROVE  /\ IsDirective(Lines(Added \o text)[1]) /\ HasDirective(Added \o text)
         /\ IsDirective(Lines(<<"I", "N">>)[1]) /\ HasDirective(<<"I", "N">>)
  <1> DEFINE both == <<<<"I", "N">>, <<"N">>>>
             rows == Lines(text)
             whole == both \o rows
  <1>1. both \in Rows /\ Len(both) = 2 /\ both[1] = <<"I", "N">>
    <2>1. "I" \in Pieces /\ "N" \in Pieces
      BY PieceAssumption
    <2>2. <<"I", "N">> \in PieceTexts /\ <<"N">> \in PieceTexts
      BY <2>1 DEF PieceTexts
    <2> QED
      BY <2>2 DEF Rows
  <1>2. rows \in Rows
    BY LinesFold
  <1>3. Lines(Added \o text) = whole /\ IsDirective(<<"I", "N">>)
    BY AddedLines
  <1>4. Lines(<<"I", "N">>) = <<<<"I", "N">>>>
    BY AddedLines
  <1> HIDE DEF both, rows
  <1>5. whole \in Rows /\ whole[1] = both[1] /\ 1 \in DOMAIN whole
    <2>1. /\ whole \in Rows /\ Len(whole) = Len(both) + Len(rows)
          /\ \A i \in 1 .. Len(both) : whole[i] = both[i]
      BY <1>1, <1>2, ConcatIs DEF Rows
    <2>2. Len(rows) \in Nat
      BY <1>2 DEF Rows
    <2> HIDE DEF whole
    <2>3. DOMAIN whole = 1 .. Len(whole) /\ 1 \in 1 .. Len(whole)
      BY <1>1, <2>1, <2>2 DEF Rows
    <2> QED
      BY <1>1, <2>1, <2>3
  <1> HIDE DEF whole
  <1>6. IsDirective(Lines(Added \o text)[1]) /\ HasDirective(Added \o text)
    BY <1>1, <1>3, <1>5 DEF HasDirective
  <1>7. IsDirective(Lines(<<"I", "N">>)[1]) /\ HasDirective(<<"I", "N">>)
    <2> DEFINE directive == <<"I", "N">>
               one == <<directive>>
    <2>1. one[1] = directive /\ 1 \in DOMAIN one
      OBVIOUS
    <2> HIDE DEF one
    <2>2. Lines(directive) = one
      BY <1>4 DEF one
    <2>3. IsDirective(directive)
      BY <1>3
    <2> HIDE DEF directive
    <2>4. IsDirective(Lines(directive)[1]) /\ HasDirective(directive)
      BY <2>1, <2>2, <2>3 DEF HasDirective
    <2> QED
      BY <2>4 DEF directive
  <1> QED
    BY <1>6, <1>7

LEMMA IncludeKept ==
  ASSUME NEW text \in PieceTexts, NEW ensured, ensured = EnsureManagedInclude(text),
         NEW removed, removed = RemoveManagedInclude(ensured)
  PROVE  /\ IsDirective(Lines(ensured)[1]) \/ ensured = text
         /\ EnsureManagedInclude(ensured) = ensured /\ HasDirective(ensured)
         /\ ~HasDirective(text) => removed = text
         /\ Others(ensured) = Others(text) /\ Others(removed) = Others(text)
  <1>0. HasDirective(ensured) => EnsureManagedInclude(ensured) = ensured
    BY DEF EnsureManagedInclude
  <1>1. CASE HasDirective(text)
    <2>1. ensured = text
      BY <1>1 DEF EnsureManagedInclude
    <2> QED
      BY <1>0, <1>1, <2>1, RemovedLines
  <1>2. CASE ~HasDirective(text) /\ text = <<>>
    <2> DEFINE directive == <<"I", "N">>
    <2>1. ensured = directive
      BY <1>2 DEF EnsureManagedInclude
    <2>2. IsDirective(Lines(directive)[1]) /\ HasDirective(directive) /\ Others(directive) = <<>>
      BY AddedFirst, AddedLines
    <2>3. Others(text) = <<>>
      BY <1>2, LinesFold, WithoutFold DEF Others
    <2>4. removed = <<>>
      <3>1. Lines(directive) = <<directive>> /\ IsDirective(directive)
        BY AddedLines
      <3>2. ~IsPrefix(<<"I", "N", "N">>, directive)
        BY DEF IsPrefix
      <3>3. directive \in PieceTexts
        <4>1. "I" \in Pieces /\ "N" \in Pieces
          BY PieceAssumption
        <4> QED
          BY <4>1 DEF PieceTexts
      <3>4. <<directive>> = Append(<<>>, directive) /\ <<>> \in Seq(PieceTexts)
        OBVIOUS
      <3> HIDE DEF directive
      <3>5. Without(<<>>, {"directive"}) = <<>>
        BY WithoutFold
      <3>6. Without(Append(<<>>, directive), {"directive"}) = Without(<<>>, {"directive"})
        <4>1. Kind(directive) \in {"directive"}
          BY <3>1 DEF Kind, IsDirective
        <4> QED
          BY <3>3, <3>4, <4>1, WithoutNext
      <3>7. removed = FlattenSeq(Without(<<directive>>, {"directive"}))
        BY <2>1, <3>1, <3>2 DEF RemoveManagedInclude
      <3> QED
        BY <3>4, <3>5, <3>6, <3>7, FlattenFold
    <2>5. Others(removed) = <<>>
      BY <2>4, LinesFold, WithoutFold DEF Others
    <2> HIDE DEF directive
    <2> QED
      BY <1>0, <1>2, <2>1, <2>2, <2>3, <2>4, <2>5
  <1>3. CASE ~HasDirective(text) /\ text # <<>>
    <2>1. ensured = Added \o text
      BY <1>3 DEF EnsureManagedInclude, Added
    <2>2. IsDirective(Lines(ensured)[1]) /\ HasDirective(ensured) /\ Others(ensured) = Others(text)
      BY <2>1, AddedFirst, AddedLines
    <2>3. removed = text
      BY <2>1, RemovedLines
    <2> QED
      BY <1>0, <2>2, <2>3
  <1> QED
    BY <1>1, <1>2, <1>3

(* ensure_managed_include and remove_managed_include, for every text of    *)
(* the user: the directive is put in front once, taking it out gives the   *)
(* file back, and the user's lines stay in their order.                    *)
THEOREM IncludeComesBack == IncludeSpec => []IncludeRestored
  <1> DEFINE Restored(w) ==
               w.task = "include" =>
                 LET text == w.input
                     ensured == w.output.ensured
                 IN /\ IsDirective(Lines(ensured)[1]) \/ ensured = text
                    /\ EnsureManagedInclude(ensured) = ensured /\ HasDirective(ensured)
                    /\ ~HasDirective(text) => w.output.removed = text
                    /\ Others(ensured) = Others(text) /\ Others(w.output.removed) = Others(text)
  <1>0. IncludeRestored = Restored(work) /\ IncludeRestored' = Restored(work')
    BY Zenon DEF IncludeRestored
  <1>1. work = Idle => IncludeRestored
    BY DEF Idle, IncludeRestored
  <1>2. ASSUME IncludeRestored, [EditInclude]_work PROVE IncludeRestored'
    <2>1. CASE UNCHANGED work
      <3> HIDE DEF Restored
      <3> QED
        BY <1>0, <1>2, <2>1
    <2>2. CASE EditInclude
      <3>1. PICK text \in Texts :
              work' = [task |-> "include", input |-> text,
                       output |-> [ensured |-> EnsureManagedInclude(text),
                                   removed |-> RemoveManagedInclude(EnsureManagedInclude(text))]]
        BY <2>2 DEF EditInclude, Evaluate
      <3> DEFINE ensured == EnsureManagedInclude(text)
                 removed == RemoveManagedInclude(ensured)
      <3>2. /\ work'.input = text
            /\ work'.output.ensured = ensured /\ work'.output.removed = removed
        BY <3>1
      <3>3. text \in PieceTexts
        BY PieceAssumption DEF PieceTexts
      <3>4. /\ IsDirective(Lines(ensured)[1]) \/ ensured = text
            /\ EnsureManagedInclude(ensured) = ensured /\ HasDirective(ensured)
            /\ ~HasDirective(text) => removed = text
            /\ Others(ensured) = Others(text) /\ Others(removed) = Others(text)
        BY <3>3, IncludeKept
      <3> HIDE DEF ensured, removed
      <3>5. Restored(work')
        BY <3>2, <3>4
      <3> HIDE DEF Restored
      <3> QED
        BY <1>0, <3>5
    <2> QED
      BY <1>2, <2>1, <2>2
  <1> QED
    BY <1>1, <1>2, PTL DEF IncludeSpec

-----------------------------------------------------------------------------
(* A sequence with two marks in it *)
Around(a, s, b, e, c) == (((a \o <<s>>) \o b) \o <<e>>) \o c

Placed(w, a, s, b, e, c) ==
  LET p == Len(a) + 1
      q == Len(a) + Len(b) + 2
  IN /\ Len(w) = q + Len(c) /\ w[p] = s /\ w[q] = e
     /\ \A i \in 1 .. Len(a) : w[i] = a[i]
     /\ \A i \in 1 .. Len(b) : w[p + i] = b[i]
     /\ \A i \in 1 .. Len(c) : w[q + i] = c[i]

LEMMA AroundIs ==
  ASSUME NEW X, NEW a \in Seq(X), NEW b \in Seq(X), NEW c \in Seq(X), NEW s \in X, NEW e \in X
  PROVE  Around(a, s, b, e, c) \in Seq(X) /\ Placed(Around(a, s, b, e, c), a, s, b, e, c)
  <1> DEFINE u == a \o <<s>>
             v == u \o b
             x == v \o <<e>>
             w == x \o c
             n == Len(a)
             m == Len(b)
  <1>0. n \in Nat /\ m \in Nat /\ Len(c) \in Nat
    OBVIOUS
  <1>1. /\ u \in Seq(X) /\ Len(u) = n + 1 /\ u[n + 1] = s
        /\ \A i \in 1 .. n : u[i] = a[i]
    OBVIOUS
  <1>1a. Len(a) = n /\ Len(b) = m
    OBVIOUS
  <1> HIDE DEF u, n, m
  <1>2. /\ v \in Seq(X) /\ Len(v) = n + 1 + m
        /\ \A i \in 1 .. n + 1 : v[i] = u[i]
        /\ \A i \in 1 .. m : v[n + 1 + i] = b[i]
    <2>1. /\ v \in Seq(X) /\ Len(v) = Len(u) + Len(b)
          /\ \A i \in 1 .. Len(u) : v[i] = u[i]
          /\ \A i \in 1 .. Len(b) : v[Len(u) + i] = b[i]
      <3>1. u \in Seq(X) /\ b \in Seq(X)
        BY <1>1
      <3> QED
        BY <3>1, ConcatIs
    <2> HIDE DEF v
    <2> QED
      BY <1>1, <1>1a, <2>1
  <1> HIDE DEF v
  <1>3. /\ x \in Seq(X) /\ Len(x) = n + m + 2 /\ x[n + m + 2] = e
        /\ \A i \in 1 .. n + 1 + m : x[i] = v[i]
    <2> DEFINE k == Len(v)
    <2>0. v \in Seq(X)
      BY <1>2
    <2>1. /\ x \in Seq(X) /\ Len(x) = k + 1 /\ x[k + 1] = e
          /\ \A i \in 1 .. k : x[i] = v[i]
      BY <2>0
    <2>2. k = n + 1 + m /\ k + 1 = n + m + 2
      BY <1>0, <1>2
    <2> HIDE DEF x, k
    <2> QED
      BY <2>1, <2>2
  <1> HIDE DEF x
  <1>4. /\ w \in Seq(X) /\ Len(w) = n + m + 2 + Len(c)
        /\ \A i \in 1 .. n + m + 2 : w[i] = x[i]
        /\ \A i \in 1 .. Len(c) : w[n + m + 2 + i] = c[i]
    <2>1. /\ w \in Seq(X) /\ Len(w) = Len(x) + Len(c)
          /\ \A i \in 1 .. Len(x) : w[i] = x[i]
          /\ \A i \in 1 .. Len(c) : w[Len(x) + i] = c[i]
      <3>1. x \in Seq(X) /\ c \in Seq(X)
        BY <1>3
      <3> QED
        BY <3>1, ConcatIs
    <2> HIDE DEF w
    <2> QED
      BY <1>3, <2>1
  <1> HIDE DEF w
  <1>5. \A i \in 1 .. n : w[i] = a[i]
    <2>1. \A i \in 1 .. n : i \in 1 .. n + 1 /\ i \in 1 .. n + 1 + m /\ i \in 1 .. n + m + 2
      BY <1>0
    <2> QED
      BY <1>1, <1>2, <1>3, <1>4, <2>1
  <1>6. w[n + 1] = s /\ w[n + m + 2] = e
    <2>1. /\ n + 1 \in 1 .. n + 1 /\ n + 1 \in 1 .. n + 1 + m /\ n + 1 \in 1 .. n + m + 2
          /\ n + m + 2 \in 1 .. n + m + 2
      BY <1>0
    <2> QED
      BY <1>1, <1>2, <1>3, <1>4, <2>1
  <1>7. \A i \in 1 .. m : w[n + 1 + i] = b[i]
    <2>1. \A i \in 1 .. m : n + 1 + i \in 1 .. n + 1 + m /\ n + 1 + i \in 1 .. n + m + 2
      BY <1>0
    <2> QED
      BY <1>2, <1>3, <1>4, <2>1
  <1>8. Around(a, s, b, e, c) = w
    BY DEF Around, w, x, v, u
  <1> QED
    BY <1>4, <1>5, <1>6, <1>7, <1>8 DEF Placed, n, m

(* It is the only sequence with these elements at these places, *)
LEMMA AroundOnly ==
  ASSUME NEW X, NEW a \in Seq(X), NEW b \in Seq(X), NEW c \in Seq(X), NEW s \in X, NEW e \in X,
         NEW w \in Seq(X), Placed(w, a, s, b, e, c)
  PROVE  w = Around(a, s, b, e, c)
  <1> DEFINE v == Around(a, s, b, e, c)
             n == Len(a)
             m == Len(b)
             k == Len(c)
  <1>1. v \in Seq(X) /\ Placed(v, a, s, b, e, c)
    BY AroundIs
  <1>2. n \in Nat /\ m \in Nat /\ k \in Nat
    OBVIOUS
  <1> HIDE DEF v
  <1>3. Len(w) = n + m + 2 + k /\ Len(v) = n + m + 2 + k
    BY <1>1 DEF Placed
  <1>4. ASSUME NEW i \in 1 .. n + m + 2 + k PROVE w[i] = v[i]
    <2> DEFINE j == i - (n + 1)
               l == i - (n + m + 2)
    <2>1. \/ i \in 1 .. n \/ i = n + 1 \/ i = n + m + 2
          \/ (j \in 1 .. m /\ n + 1 + j = i) \/ (l \in 1 .. k /\ n + m + 2 + l = i)
      <3> HIDE DEF n, m, k
      <3> QED
        BY <1>2
    <2> HIDE DEF j, l
    <2>2. CASE i \in 1 .. n \/ i = n + 1 \/ i = n + m + 2
      BY <1>1, <2>2 DEF Placed
    <2>3. CASE j \in 1 .. m /\ n + 1 + j = i
      <3>1. w[n + 1 + j] = b[j] /\ v[n + 1 + j] = b[j]
        BY <1>1, <2>3 DEF Placed
      <3> QED
        BY <2>3, <3>1
    <2>4. CASE l \in 1 .. k /\ n + m + 2 + l = i
      <3>1. w[n + m + 2 + l] = c[l] /\ v[n + m + 2 + l] = c[l]
        BY <1>1, <2>4 DEF Placed
      <3> QED
        BY <2>4, <3>1
    <2> QED
      BY <2>1, <2>2, <2>3, <2>4
  <1> HIDE DEF n, m, k
  <1>5. w = v
    BY <1>1, <1>3, <1>4, SeqEqual
  <1> QED
    BY <1>5 DEF v

(* and any sequence is one around two of its elements. *)
Parted(X, w, p, q, a, b, c) ==
  /\ a \in Seq(X) /\ b \in Seq(X) /\ c \in Seq(X)
  /\ Len(a) = p - 1 /\ Len(b) = q - p - 1 /\ Len(c) = Len(w) - q
  /\ w = Around(a, w[p], b, w[q], c) /\ Placed(w, a, w[p], b, w[q], c)

LEMMA AroundTwo ==
  ASSUME NEW X, NEW w \in Seq(X), NEW p \in 1 .. Len(w), NEW q \in 1 .. Len(w), p < q
  PROVE  Parted(X, w, p, q, SubSeq(w, 1, p - 1), SubSeq(w, p + 1, q - 1),
                SubSeq(w, q + 1, Len(w)))
  <1> DEFINE a == SubSeq(w, 1, p - 1)
             b == SubSeq(w, p + 1, q - 1)
             c == SubSeq(w, q + 1, Len(w))
  <1> DEFINE n == Len(w)
  <1>1. n \in Nat /\ p \in 1 .. n /\ q \in 1 .. n /\ w[p] \in X /\ w[q] \in X
    OBVIOUS
  <1> HIDE DEF n
  <1>1a. p \in Nat /\ q \in Nat /\ 1 <= p /\ p < q /\ q <= n /\ n = Len(w)
    BY <1>1 DEF n
  <1>2. a \in Seq(X) /\ Len(a) = p - 1 /\ \A i \in 1 .. p - 1 : a[i] = w[i]
    <2> DEFINE d == SubSeq(w, 1, p - 1)
    <2>0. p - 1 \in Nat /\ p - 1 <= Len(w) /\ 1 <= p - 1 + 1
      BY <1>1 DEF n
    <2>1. /\ d \in Seq(X) /\ Len(d) = p - 1 - 1 + 1
          /\ \A i \in 1 .. p - 1 - 1 + 1 : d[i] = w[1 + i - 1]
      BY <2>0, SubSeqIs
    <2> HIDE DEF d
    <2>1a. p - 1 - 1 + 1 = p - 1 /\ \A i \in 1 .. p - 1 : 1 + i - 1 = i
      BY <1>1a
    <2>2. d \in Seq(X) /\ Len(d) = p - 1 /\ \A i \in 1 .. p - 1 : d[i] = w[i]
      BY <2>1, <2>1a
    <2> QED
      BY <2>2 DEF d
  <1>3. b \in Seq(X) /\ Len(b) = q - p - 1 /\ \A i \in 1 .. q - p - 1 : b[i] = w[p + i]
    <2> DEFINE d == SubSeq(w, p + 1, q - 1)
    <2>0. /\ p + 1 \in Nat \ {0} /\ q - 1 \in Nat /\ q - 1 <= Len(w) /\ p + 1 <= q - 1 + 1
          /\ q - 1 - (p + 1) + 1 = q - p - 1
      <3> HIDE DEF d
      <3> QED
        BY <1>1, <1>1a
    <2>1. /\ d \in Seq(X) /\ Len(d) = q - 1 - (p + 1) + 1
          /\ \A i \in 1 .. q - 1 - (p + 1) + 1 : d[i] = w[p + 1 + i - 1]
      <3> DEFINE l == p + 1
                 h == q - 1
      <3>1. l \in Nat \ {0} /\ h \in Nat /\ h <= Len(w) /\ l <= h + 1
        BY <2>0
      <3> HIDE DEF l, h
      <3>2. /\ SubSeq(w, l, h) \in Seq(X) /\ Len(SubSeq(w, l, h)) = h - l + 1
            /\ \A i \in 1 .. h - l + 1 : SubSeq(w, l, h)[i] = w[l + i - 1]
        BY <3>1, SubSeqIs
      <3> QED
        BY <3>2 DEF l, h
    <2> HIDE DEF d
    <2>2. \A i \in 1 .. q - p - 1 : p + 1 + i - 1 = p + i
      BY <1>1
    <2>3. d \in Seq(X) /\ Len(d) = q - p - 1 /\ \A i \in 1 .. q - p - 1 : d[i] = w[p + i]
      BY <2>0, <2>1, <2>2
    <2> QED
      BY <2>3 DEF d
  <1>4. c \in Seq(X) /\ Len(c) = n - q /\ \A i \in 1 .. n - q : c[i] = w[q + i]
    <2> DEFINE d == SubSeq(w, q + 1, n)
    <2>0. /\ q + 1 \in Nat \ {0} /\ n <= Len(w) /\ q + 1 <= n + 1 /\ n - (q + 1) + 1 = n - q
      BY <1>1 DEF n
    <2>1. /\ d \in Seq(X) /\ Len(d) = n - (q + 1) + 1
          /\ \A i \in 1 .. n - (q + 1) + 1 : d[i] = w[q + 1 + i - 1]
      BY <1>1, <2>0, SubSeqIs
    <2>2. \A i \in 1 .. n - q : q + 1 + i - 1 = q + i
      BY <1>1
    <2> HIDE DEF d
    <2>3. d \in Seq(X) /\ Len(d) = n - q /\ \A i \in 1 .. n - q : d[i] = w[q + i]
      BY <2>0, <2>1, <2>2
    <2> QED
      BY <2>3 DEF d, n
  <1> HIDE DEF a, b, c
  <1>5. Len(a) + 1 = p /\ Len(a) + Len(b) + 2 = q /\ q + Len(c) = n
    <2> DEFINE la == Len(a)
               lb == Len(b)
               lc == Len(c)
    <2>1. la = p - 1 /\ lb = q - p - 1 /\ lc = n - q
      BY <1>2, <1>3, <1>4
    <2>2. n \in Int
      BY <1>1
    <2> HIDE DEF la, lb, lc
    <2>3. la + 1 = p /\ la + lb + 2 = q /\ q + lc = n
      <3>1. \A i, j, k \in Int : i - 1 + 1 = i /\ i - 1 + (j - i - 1) + 2 = j /\ j + (k - j) = k
        OBVIOUS
      <3>2. p \in Int /\ q \in Int
        BY <1>1a
      <3> QED
        BY <2>1, <2>2, <3>1, <3>2, Zenon
    <2> QED
      BY <2>3 DEF la, lb, lc
  <1>6. Placed(w, a, w[p], b, w[q], c)
    BY <1>2, <1>3, <1>4, <1>5 DEF Placed, n
  <1>7. w = Around(a, w[p], b, w[q], c)
    BY <1>1, <1>2, <1>3, <1>4, <1>6, AroundOnly
  <1> QED
    <2>1. Parted(X, w, p, q, a, b, c)
      BY <1>2, <1>3, <1>4, <1>6, <1>7 DEF Parted, n
    <2> QED
      BY <2>1 DEF a, b, c

-----------------------------------------------------------------------------
(* Lines put together are the text they were read from. *)
LEMMA FlattenAdd ==
  ASSUME NEW rows \in Rows, NEW c \in Pieces
  PROVE  FlattenSeq(AddPiece(rows, c)) = Append(FlattenSeq(rows), c)
  <1>0. <<c>> \in PieceTexts
    BY DEF PieceTexts
  <1>1. CASE rows = <<>>
    <2>1. AddPiece(rows, c) = <<<<c>>>>
      BY <1>1 DEF AddPiece
    <2> DEFINE none == <<>>
               one == <<<<c>>>>
    <2>2. one = Append(none, <<c>>) /\ none \in Rows
      BY DEF Rows
    <2>3. FlattenSeq(none) = <<>>
      BY FlattenFold
    <2> HIDE DEF none, one
    <2>4. FlattenSeq(one) = FlattenSeq(none) \o <<c>>
      BY <1>0, <2>2, FlattenFold
    <2>5. <<>> \o <<c>> = Append(<<>>, c)
      OBVIOUS
    <2> QED
      BY <1>1, <2>1, <2>3, <2>4, <2>5, FlattenFold DEF one
  <1>2. CASE rows # <<>>
    <2>1. PICK a \in Rows, line \in PieceTexts : rows = Append(a, line)
      BY <1>2, AppendCases DEF Rows
    <2> DEFINE text == FlattenSeq(a)
               whole == text \o line
    <2>2. FlattenSeq(rows) = whole /\ text \in PieceTexts /\ whole \in PieceTexts
      <3>1. FlattenSeq(rows) = whole /\ text \in PieceTexts
        BY <2>1, FlattenFold
      <3> HIDE DEF text
      <3> QED
        BY <3>1, ConcatIs DEF PieceTexts
    <2>3. CASE EndsWith(line, "N")
      <3>1. AddPiece(rows, c) = Append(rows, <<c>>)
        BY <2>1, <2>3, AddIs
      <3>2. FlattenSeq(Append(rows, <<c>>)) = FlattenSeq(rows) \o <<c>>
        BY <1>0, FlattenFold
      <3> HIDE DEF whole
      <3>3. Append(whole, c) = whole \o <<c>>
        BY <2>2, AppendIs DEF PieceTexts
      <3> QED
        BY <2>2, <3>1, <3>2, <3>3
    <2>4. CASE ~EndsWith(line, "N")
      <3> DEFINE longer == Append(line, c)
      <3>1. AddPiece(rows, c) = Append(a, longer)
        BY <2>1, <2>4, AddIs
      <3>2. longer \in PieceTexts
        BY DEF PieceTexts
      <3>3. text \o longer = Append(whole, c)
        <4> HIDE DEF text
        <4> QED
          BY <2>2, ConcatAppend DEF PieceTexts
      <3> HIDE DEF longer
      <3>4. FlattenSeq(Append(a, longer)) = text \o longer
        BY <3>2, FlattenFold
      <3> QED
        BY <2>2, <3>1, <3>3, <3>4
    <2> QED
      BY <2>3, <2>4
  <1> QED
    BY <1>1, <1>2

LEMMA TextIs ==
  ASSUME NEW text \in PieceTexts
  PROVE  FlattenSeq(Lines(text)) = text
  <1> DEFINE S == {t \in PieceTexts : FlattenSeq(Lines(t)) = t}
  <1>1. <<>> \in S
    BY LinesFold, FlattenFold DEF PieceTexts
  <1>2. ASSUME NEW t \in PieceTexts, NEW c \in Pieces, t \in S PROVE Append(t, c) \in S
    <2> DEFINE rows == Lines(t)
    <2>1. rows \in Rows /\ FlattenSeq(rows) = t /\ Lines(Append(t, c)) = AddPiece(rows, c)
      BY <1>2, LinesFold
    <2>2. Append(t, c) \in PieceTexts
      BY DEF PieceTexts
    <2> HIDE DEF rows
    <2>3. FlattenSeq(AddPiece(rows, c)) = Append(t, c)
      BY <2>1, FlattenAdd
    <2> QED
      BY <2>1, <2>2, <2>3
  <1> HIDE DEF S
  <1>3. \A t \in PieceTexts : t \in S
    BY <1>1, <1>2, WordInduction DEF PieceTexts
  <1> QED
    BY <1>3 DEF S

LEMMA FlattenConcat ==
  ASSUME NEW a \in Rows, NEW b \in Rows
  PROVE  FlattenSeq(a \o b) = FlattenSeq(a) \o FlattenSeq(b)
  <1> DEFINE F(r) == FlattenSeq(r)
             S == {r \in Rows : F(a \o r) = F(a) \o F(r)}
  <1>1. F(<<>>) = <<>> /\ \A r \in Rows : F(r) \in PieceTexts
    BY FlattenFold
  <1>2. \A r \in Rows, line \in PieceTexts : F(Append(r, line)) = F(r) \o line
    BY FlattenFold
  <1> HIDE DEF F
  <1>3. <<>> \in S
    <2> DEFINE fa == F(a)
    <2>1. a \o <<>> = a /\ fa \in PieceTexts /\ <<>> \in Rows
      BY <1>1, ConcatEmptySeq DEF Rows
    <2> HIDE DEF fa
    <2>2. fa \o <<>> = fa
      BY <2>1, ConcatEmptySeq DEF PieceTexts
    <2> QED
      BY <1>1, <2>1, <2>2 DEF fa
  <1>4. ASSUME NEW r \in Rows, NEW line \in PieceTexts, r \in S PROVE Append(r, line) \in S
    <2> DEFINE ar == a \o r
               fa == F(a)
               fr == F(r)
    <2>1. ar \in Rows /\ fa \in PieceTexts /\ fr \in PieceTexts /\ F(ar) = fa \o fr
      BY <1>1, <1>4, ConcatIs DEF Rows
    <2>2. a \o Append(r, line) = Append(ar, line) /\ Append(r, line) \in Rows
      BY ConcatAppend, AppendIs DEF Rows
    <2>3. F(Append(r, line)) = fr \o line
      BY <1>2
    <2> HIDE DEF ar, fa, fr
    <2>4. F(Append(ar, line)) = F(ar) \o line
      BY <1>2, <2>1
    <2>5. (fa \o fr) \o line = fa \o (fr \o line)
      BY <2>1, ConcatAssociative DEF PieceTexts
    <2>6. F(Append(ar, line)) = fa \o F(Append(r, line))
      BY <2>1, <2>3, <2>4, <2>5
    <2> QED
      BY <2>2, <2>6 DEF fa
  <1> HIDE DEF S
  <1>5. \A r \in Rows : r \in S
    BY <1>3, <1>4, WordInduction DEF Rows
  <1> QED
    BY <1>5 DEF S, F

(* Lines that have ended make an empty text or one that has ended. *)
LEMMA FlattenEnded ==
  ASSUME NEW rows \in Seq(Ended)
  PROVE  FlattenSeq(rows) = <<>> \/ EndsWith(FlattenSeq(rows), "N")
  <1>1. CASE rows = <<>>
    BY <1>1, FlattenFold
  <1>2. CASE rows # <<>>
    <2>1. PICK a \in Seq(Ended), line \in Ended : rows = Append(a, line)
      BY <1>2, AppendCases
    <2>2. PICK l \in Plain : line = Append(l, "N")
      BY DEF Ended
    <2>3. a \in Rows /\ l \in PieceTexts /\ line \in PieceTexts /\ "N" \in Pieces
      BY LineSets, PieceAssumption
    <2> DEFINE text == FlattenSeq(a)
               t == text \o l
    <2>4. FlattenSeq(rows) = text \o line /\ text \in PieceTexts
      BY <2>1, <2>3, FlattenFold
    <2> HIDE DEF text
    <2>5. text \o Append(l, "N") = Append(t, "N") /\ t \in Seq(Pieces)
      BY <2>3, <2>4, ConcatAppend, ConcatIs DEF PieceTexts
    <2> HIDE DEF t
    <2>6. Append(t, "N") # <<>> /\ Last(Append(t, "N")) = "N"
      BY <2>3, <2>5, AppendIs
    <2> QED
      BY <2>2, <2>4, <2>5, <2>6 DEF EndsWith
  <1> QED
    BY <1>1, <1>2

-----------------------------------------------------------------------------
(* Texts without a marker, and what their lines are *)
BlockMarks == {"S", "E"}
Bare       == Seq(Pieces \ BlockMarks)

LEMMA BareLines ==
  /\ Bare \subseteq PieceTexts /\ Seq(Bare) \subseteq Rows
  /\ \A text \in Bare : Lines(text) \in Seq(Bare)
  /\ \A rows \in Seq(Bare) : FlattenSeq(rows) \in Bare
  <1>1. Bare \subseteq PieceTexts
    BY SeqMonotonic DEF Bare, PieceTexts
  <1>2. Seq(Bare) \subseteq Rows
    BY <1>1, SeqMonotonic DEF Rows
  <1>3. ASSUME NEW text \in Bare PROVE Lines(text) \in Seq(Bare)
    <2> DEFINE S == {t \in Bare : Lines(t) \in Seq(Bare)}
    <2>1. <<>> \in S
      <3>1. <<>> \in Seq(Bare) /\ <<>> \in Bare
        BY DEF Bare
      <3> QED
        BY <3>1, LinesFold
    <2>2. ASSUME NEW t \in Bare, NEW c \in Pieces \ BlockMarks, t \in S PROVE Append(t, c) \in S
      <3> DEFINE rows == Lines(t)
      <3>1. Append(t, c) \in Bare /\ <<c>> \in Bare
        BY DEF Bare
      <3>2. Lines(Append(t, c)) = AddPiece(rows, c) /\ rows \in Seq(Bare)
        BY <1>1, <2>2, LinesFold
      <3> HIDE DEF rows
      <3>3. CASE rows = <<>>
        <4>1. AddPiece(rows, c) = <<<<c>>>>
          BY <3>3 DEF AddPiece
        <4>2. <<<<c>>>> \in Seq(Bare)
          BY <3>1
        <4> QED
          BY <3>1, <3>2, <4>1, <4>2
      <3>4. ASSUME NEW a \in Seq(Bare), NEW line \in Bare, rows = Append(a, line)
            PROVE  Append(t, c) \in S
        <4>1. a \in Rows /\ line \in PieceTexts
          BY <1>1, <1>2
        <4>2. CASE EndsWith(line, "N")
          <5>1. AddPiece(rows, c) = Append(rows, <<c>>)
            BY <3>4, <4>1, <4>2, AddIs
          <5>2. Append(rows, <<c>>) \in Seq(Bare)
            BY <3>1, <3>2, AppendProperties
          <5> QED
            BY <3>1, <3>2, <5>1, <5>2
        <4>3. CASE ~EndsWith(line, "N")
          <5>1. AddPiece(rows, c) = Append(a, Append(line, c))
            BY <3>4, <4>1, <4>3, AddIs
          <5>2. Append(line, c) \in Bare
            BY DEF Bare
          <5>3. Append(a, Append(line, c)) \in Seq(Bare)
            BY <5>2, AppendProperties
          <5> QED
            BY <3>1, <3>2, <5>1, <5>3
        <4> QED
          BY <4>2, <4>3
      <3> QED
        BY <3>2, <3>3, <3>4, AppendCases
    <2> HIDE DEF S
    <2>3. \A t \in Bare : t \in S
      BY <2>1, <2>2, WordInduction DEF Bare
    <2> QED
      BY <2>3 DEF S
  <1>4. ASSUME NEW rows \in Seq(Bare) PROVE FlattenSeq(rows) \in Bare
    <2> DEFINE S == {r \in Seq(Bare) : FlattenSeq(r) \in Bare}
    <2>1. <<>> \in S
      <3>1. <<>> \in Seq(Bare) /\ <<>> \in Bare
        BY DEF Bare
      <3> QED
        BY <3>1, FlattenFold
    <2>2. ASSUME NEW r \in Seq(Bare), NEW line \in Bare, r \in S PROVE Append(r, line) \in S
      <3> DEFINE text == FlattenSeq(r)
      <3>1. Append(r, line) \in Seq(Bare)
        BY AppendProperties
      <3>2. FlattenSeq(Append(r, line)) = text \o line /\ text \in Bare
        BY <1>1, <1>2, <2>2, FlattenFold
      <3> HIDE DEF text
      <3>3. text \o line \in Bare
        BY <3>2, ConcatIs DEF Bare
      <3> QED
        BY <3>1, <3>2, <3>3
    <2> HIDE DEF S
    <2>3. \A r \in Seq(Bare) : r \in S
      BY <2>1, <2>2, WordInduction
    <2> QED
      BY <2>3 DEF S
  <1> QED
    BY <1>1, <1>2, <1>3, <1>4

LEMMA BareIs ==
  ASSUME NEW text \in PieceTexts
  PROVE  text \in Bare <=> \A i \in DOMAIN text : text[i] \notin BlockMarks
  <1>1. ASSUME text \in Bare, NEW i \in DOMAIN text PROVE text[i] \notin BlockMarks
    BY <1>1 DEF Bare
  <1>2. ASSUME \A i \in DOMAIN text : text[i] \notin BlockMarks PROVE text \in Bare
    <2> DEFINE n == Len(text)
    <2>1. /\ n \in Nat /\ text = [i \in 1 .. n |-> text[i]]
          /\ \A i \in 1 .. n : text[i] \in Pieces \ BlockMarks
      BY <1>2 DEF PieceTexts
    <2>2. \A i \in 1 .. n : text[i] \in Pieces \ BlockMarks
      BY <2>1
    <2> HIDE DEF n
    <2>3. [i \in 1 .. n |-> text[i]] \in Seq(Pieces \ BlockMarks)
      BY <2>1, <2>2
    <2> QED
      BY <2>1, <2>3 DEF Bare
  <1> QED
    BY <1>1, <1>2

(* A text with one block in it: the two markers stand on lines of their    *)
(* own.  Between is what stands between them, After what comes after.      *)
Blocked(text, a, b, c) ==
  /\ a \in Bare /\ b \in Bare /\ c \in Bare
  /\ a = <<>> \/ EndsWith(a, "N")
  /\ b # <<>> /\ b[1] = "N" /\ EndsWith(b, "N")
  /\ c = <<>> \/ c[1] = "N"
  /\ text = Around(a, "S", b, "E", c)

After(c) == SubSeq(c, 2, Len(c))

LEMMA AfterIs ==
  ASSUME NEW X, NEW c \in Seq(X)
  PROVE  /\ After(c) \in Seq(X)
         /\ c = <<>> => After(c) = <<>>
         /\ c # <<>> => /\ c[1] \in X /\ c = <<c[1]>> \o After(c) /\ Len(c) = Len(After(c)) + 1
                        /\ \A i \in 1 .. Len(After(c)) : After(c)[i] = c[i + 1]
  <1> DEFINE n == Len(c)
             d == SubSeq(c, 2, n)
  <1>1. n \in Nat
    OBVIOUS
  <1>2. CASE c = <<>>
    BY <1>2 DEF After
  <1>3. CASE c # <<>>
    <2>1. n \in Nat \ {0} /\ c[1] \in X /\ n = Len(c) /\ n <= Len(c)
      BY <1>3
    <2>2. n - 2 + 1 = n - 1 /\ 2 <= n + 1 /\ \A i \in 1 .. n - 1 : 2 + i - 1 = i + 1
      BY <2>1
    <2> HIDE DEF n
    <2>3. d \in Seq(X) /\ Len(d) = n - 2 + 1 /\ \A i \in 1 .. n - 2 + 1 : d[i] = c[2 + i - 1]
      BY <2>1, <2>2, SubSeqIs
    <2>4. After(c) = d
      BY DEF After, n
    <2> HIDE DEF d
    <2>5. d \in Seq(X) /\ Len(d) = n - 1 /\ \A i \in 1 .. n - 1 : d[i] = c[i + 1]
      BY <2>2, <2>3
    <2> DEFINE one == <<c[1]>>
    <2>6. one \in Seq(X) /\ Len(one) = 1 /\ one[1] = c[1]
      BY <2>1
    <2> HIDE DEF one
    <2> DEFINE e == one \o d
    <2>7. /\ e \in Seq(X) /\ Len(e) = Len(one) + Len(d)
          /\ \A i \in 1 .. Len(one) : e[i] = one[i]
          /\ \A i \in 1 .. Len(d) : e[Len(one) + i] = d[i]
      <3>1. one \in Seq(X) /\ d \in Seq(X)
        BY <2>5, <2>6
      <3> QED
        BY <3>1, ConcatIs
    <2> HIDE DEF e
    <2>8. Len(e) = n /\ Len(c) = Len(d) + 1
      BY <2>1, <2>5, <2>6, <2>7
    <2>9. ASSUME NEW i \in 1 .. n PROVE c[i] = e[i]
      <3>1. CASE i = 1
        BY <2>6, <2>7, <3>1
      <3>2. CASE i # 1
        <4>1. i - 1 \in 1 .. n - 1 /\ 1 + (i - 1) = i /\ i - 1 + 1 = i
          BY <2>1, <3>2
        <4>2. d[i - 1] = c[i - 1 + 1] /\ e[1 + (i - 1)] = d[i - 1]
          BY <2>5, <2>6, <2>7, <4>1
        <4> QED
          BY <4>1, <4>2
      <3> QED
        BY <3>1, <3>2
    <2>10. c = e
      BY <2>1, <2>7, <2>8, <2>9, SeqEqual
    <2> QED
      BY <2>1, <2>4, <2>5, <2>8, <2>10 DEF e, one
  <1> QED
    BY <1>2, <1>3

LEMMA SingleIs ==
  ASSUME NEW S, IsFiniteSet(S)
  PROVE  Cardinality(S) = 1 <=> \E x : S = {x}
  BY FS_Singleton

LEMMA BlockedIs ==
  ASSUME NEW text \in PieceTexts, NEW a, NEW b, NEW c, Blocked(text, a, b, c)
  PROVE  /\ Placed(text, a, "S", b, "E", c)
         /\ a \in PieceTexts /\ b \in PieceTexts /\ c \in PieceTexts
         /\ Positions(text, "S") = {Len(a) + 1}
         /\ Positions(text, "E") = {Len(a) + Len(b) + 2}
  <1> DEFINE la == Len(a)
             lb == Len(b)
             lc == Len(c)
             p == la + 1
             q == la + lb + 2
  <1>1. a \in PieceTexts /\ b \in PieceTexts /\ c \in PieceTexts
    BY BareLines DEF Blocked
  <1>2. "S" \in Pieces /\ "E" \in Pieces
    BY PieceAssumption
  <1>3. Placed(text, a, "S", b, "E", c)
    <2>1. text = Around(a, "S", b, "E", c)
      BY DEF Blocked
    <2> QED
      BY <1>1, <1>2, <2>1, AroundIs DEF PieceTexts
  <1>4. Len(a) \in Nat /\ Len(b) \in Nat /\ Len(c) \in Nat /\ DOMAIN text = 1 .. q + Len(c)
    <2>1. Len(text) = q + Len(c)
      BY <1>3 DEF Placed
    <2> QED
      BY <1>1, <2>1 DEF PieceTexts
  <1>5. /\ \A i \in 1 .. Len(a) : a[i] \notin BlockMarks
        /\ \A i \in 1 .. Len(b) : b[i] \notin BlockMarks
        /\ \A i \in 1 .. Len(c) : c[i] \notin BlockMarks
    BY DEF Blocked, Bare
  <1>6. text[p] = "S" /\ text[q] = "E" /\ p \in DOMAIN text /\ q \in DOMAIN text
    BY <1>3, <1>4 DEF Placed
  <1>7. ASSUME NEW i \in DOMAIN text, i # p, i # q PROVE text[i] \notin BlockMarks
    <2> DEFINE j == i - p
               l == i - q
    <2>1. \/ i \in 1 .. la
          \/ (j \in 1 .. lb /\ p + j = i) \/ (l \in 1 .. lc /\ q + l = i)
      <3>1. la \in Nat /\ lb \in Nat /\ lc \in Nat /\ i \in 1 .. q + lc
        BY <1>4
      <3> HIDE DEF la, lb, lc
      <3> QED
        BY <1>7, <3>1
    <2> HIDE DEF j, l
    <2>2. CASE i \in 1 .. la
      BY <1>3, <1>5, <2>2 DEF Placed
    <2>3. CASE j \in 1 .. lb /\ p + j = i
      <3>1. text[p + j] = b[j]
        BY <1>3, <2>3 DEF Placed
      <3> QED
        BY <1>5, <2>3, <3>1
    <2>4. CASE l \in 1 .. lc /\ q + l = i
      <3>1. text[q + l] = c[l]
        BY <1>3, <2>4 DEF Placed
      <3> QED
        BY <1>5, <2>4, <3>1
    <2> QED
      BY <2>1, <2>2, <2>3, <2>4
  <1> HIDE DEF p, q
  <1>8. Positions(text, "S") = {p} /\ Positions(text, "E") = {q}
    BY <1>6, <1>7 DEF Positions, BlockMarks
  <1> QED
    BY <1>1, <1>3, <1>8 DEF p, q

(* WithoutBlock gives what is around the block, *)
LEMMA BlockOut ==
  ASSUME NEW text \in PieceTexts, NEW a, NEW b, NEW c, Blocked(text, a, b, c)
  PROVE  WithoutBlock(text) = a \o After(c) /\ a \o After(c) \in Bare
  <1> DEFINE la == Len(a)
             lb == Len(b)
             lc == Len(c)
             p == la + 1
             q == la + lb + 2
             n == Len(text)
  <1>1. /\ a \in PieceTexts /\ b \in PieceTexts /\ c \in PieceTexts
        /\ Positions(text, "S") = {p} /\ Positions(text, "E") = {q}
    BY BlockedIs
  <1>2. /\ n = q + lc /\ text[p] = "S" /\ text[q] = "E"
        /\ \A i \in 1 .. la : text[i] = a[i]
        /\ \A i \in 1 .. lb : text[p + i] = b[i]
        /\ \A i \in 1 .. lc : text[q + i] = c[i]
    BY BlockedIs DEF Placed
  <1>3. la \in Nat /\ lb \in Nat /\ lc \in Nat /\ n \in Nat /\ n = q + lc
    BY <1>1, <1>2 DEF PieceTexts
  <1>4. IsBlock(text, p, q)
    <2>1. p < q
      <3> HIDE DEF la, lb, lc, n
      <3> QED
        BY <1>3
    <2>2. p = 1 \/ text[p - 1] = "N"
      <3>1. CASE a = <<>>
        BY <3>1
      <3>2. CASE EndsWith(a, "N")
        <4>1. la \in 1 .. la /\ a[la] = "N" /\ p - 1 = la
          BY <1>1, <1>3, <3>2 DEF EndsWith, Last, PieceTexts
        <4> QED
          BY <1>2, <4>1
      <3> QED
        BY <3>1, <3>2 DEF Blocked
    <2>3. text[p + 1] = "N" /\ text[q - 1] = "N"
      <3>1. lb # 0 /\ b[1] = "N" /\ b[lb] = "N"
        BY <1>1 DEF Blocked, EndsWith, Last, PieceTexts
      <3> HIDE DEF la, lb, lc, n
      <3>2. 1 \in 1 .. lb /\ lb \in 1 .. lb /\ p + lb = q - 1
        BY <1>3, <3>1
      <3> HIDE DEF p, q
      <3>3. text[p + 1] = "N" /\ text[p + lb] = "N"
        BY <1>2, <3>1, <3>2
      <3> QED
        BY <3>2, <3>3
    <2>4. q = n \/ text[q + 1] = "N"
      <3>1. CASE c = <<>>
        BY <1>3, <3>1
      <3>2. CASE c # <<>> /\ c[1] = "N"
        <4>1. 1 \in 1 .. lc
          BY <1>1, <1>3, <3>2 DEF PieceTexts
        <4> QED
          BY <1>2, <3>2, <4>1
      <3> QED
        BY <3>1, <3>2 DEF Blocked
    <2> HIDE DEF p, q
    <2> QED
      BY <2>1, <2>2, <2>3, <2>4 DEF IsBlock, n
  <1>5. SubSeq(text, 1, p - 1) = a
    <2> DEFINE d == SubSeq(text, 1, la)
    <2>1. /\ d \in PieceTexts /\ Len(d) = la - 1 + 1
          /\ \A i \in 1 .. la - 1 + 1 : d[i] = text[1 + i - 1]
      <3>1. la <= n /\ 1 <= la + 1
        <4> HIDE DEF la, lb, lc, n
        <4> QED
          BY <1>3
      <3> HIDE DEF la, lb, lc
      <3> QED
        BY <1>3, <3>1, SubSeqIs DEF PieceTexts
    <2>2. la - 1 + 1 = la /\ p - 1 = la /\ \A i \in 1 .. la : 1 + i - 1 = i
      BY <1>3
    <2> HIDE DEF d
    <2>3. Len(d) = Len(a) /\ \A i \in 1 .. Len(d) : d[i] = a[i]
      BY <1>2, <2>1, <2>2
    <2>4. d = a
      BY <1>1, <2>1, <2>3, SeqEqual DEF PieceTexts
    <2> QED
      BY <2>2, <2>4 DEF d
  <1>6. SubSeq(text, q + 2, n) = After(c)
    <2> DEFINE d == SubSeq(text, q + 2, n)
               r == After(c)
    <2>1. r \in PieceTexts
      BY <1>1, AfterIs DEF PieceTexts
    <2>2. CASE c = <<>>
      <3>1. r = <<>> /\ n = q
        <4>1. r = <<>>
          BY <1>1, <2>2, AfterIs DEF PieceTexts
        <4>2. lc = 0
          BY <2>2
        <4> HIDE DEF lc, q, n, r
        <4>3. q \in Int
          <5> HIDE DEF la, lb
          <5> QED
            BY <1>3 DEF q
        <4> QED
          BY <1>3, <4>1, <4>2, <4>3
      <3>2. d = <<>>
        <4>1. q \in Nat /\ ~(q + 2 <= n)
          BY <1>3, <3>1
        <4>2. \A i \in q + 2 .. n : text[i] \in Pieces
          BY <4>1
        <4> DEFINE f == q + 2
        <4>3. f \in Int /\ n \in Int /\ ~(f <= n)
          BY <1>3, <4>1
        <4> HIDE DEF q, f, n
        <4>3a. \A i \in f .. n : text[i] \in Pieces
          BY <4>3
        <4>4. SubSeq(text, f, n) \in Seq(Pieces) /\ Len(SubSeq(text, f, n)) = 0
          BY <4>3, <4>3a, SubSeqProperties
        <4> QED
          BY <4>4, EmptySeq DEF f
      <3> QED
        BY <3>1, <3>2
    <2>3. CASE c # <<>>
      <3>1. lc = Len(r) + 1 /\ \A i \in 1 .. Len(r) : r[i] = c[i + 1]
        BY <1>1, <2>3, AfterIs DEF PieceTexts
      <3> DEFINE lr == Len(r)
      <3>2. lr \in Nat
        BY <2>1 DEF PieceTexts
      <3> DEFINE f == q + 2
      <3>3. /\ f \in Nat \ {0} /\ f <= n + 1 /\ n - f + 1 = lr /\ n <= Len(text)
            /\ \A i \in 1 .. lr : f + i - 1 = q + (i + 1) /\ i + 1 \in 1 .. lc
        <4>1. n <= Len(text)
          BY <1>3
        <4> HIDE DEF la, lb, lc, n, lr, r
        <4> QED
          BY <1>3, <3>1, <3>2, <4>1 DEF lr
      <3> HIDE DEF f
      <3>4. /\ SubSeq(text, f, n) \in Seq(Pieces) /\ Len(SubSeq(text, f, n)) = n - f + 1
            /\ \A i \in 1 .. n - f + 1 : SubSeq(text, f, n)[i] = text[f + i - 1]
        BY <1>3, <3>3, SubSeqIs DEF PieceTexts
      <3>5. ASSUME NEW i \in 1 .. lr PROVE SubSeq(text, f, n)[i] = r[i]
        <4>1. i + 1 \in 1 .. lc /\ f + i - 1 = q + (i + 1)
          BY <3>3
        <4>2. text[q + (i + 1)] = c[i + 1] /\ r[i] = c[i + 1]
          BY <1>2, <3>1, <4>1
        <4>3. SubSeq(text, f, n)[i] = text[f + i - 1]
          BY <3>3, <3>4
        <4> QED
          BY <4>1, <4>2, <4>3
      <3>6. SubSeq(text, f, n) = r
        <4> DEFINE e == SubSeq(text, f, n)
        <4>1. e \in Seq(Pieces) /\ r \in Seq(Pieces) /\ Len(e) = Len(r)
              /\ \A i \in 1 .. Len(e) : e[i] = r[i]
          BY <2>1, <3>3, <3>4, <3>5 DEF PieceTexts
        <4> HIDE DEF e, r
        <4>2. e = r
          BY <4>1, SeqEqual
        <4> QED
          BY <4>2 DEF e
      <3> QED
        BY <3>6 DEF f
    <2> QED
      BY <2>2, <2>3
  <1>7. WithoutBlock(text) = a \o After(c)
    <2> HIDE DEF p, q
    <2>1. (CHOOSE i \in Positions(text, "S") : TRUE) = p /\ (CHOOSE i \in Positions(text, "E") : TRUE) = q
      BY <1>1
    <2>2. Cardinality(Positions(text, "S")) = 1 /\ Cardinality(Positions(text, "E")) = 1
      BY <1>1, FS_Singleton
    <2>3. Positions(text, "S") # {}
      BY <1>1
    <2> DEFINE out == SubSeq(text, 1, p - 1) \o SubSeq(text, q + 2, Len(text))
    <2>4. WithoutBlock(text) = out
      <3> HIDE DEF out
      <3>1. WithoutBlock(text) = SubSeq(text, 1, p - 1) \o SubSeq(text, q + 2, Len(text))
        BY <1>4, <2>1, <2>2, <2>3, Zenon DEF WithoutBlock
      <3> QED
        BY <3>1 DEF out
    <2> QED
      BY <1>5, <1>6, <2>4 DEF n
  <1>8. a \o After(c) \in Bare
    <2>1. a \in Seq(Pieces \ BlockMarks) /\ c \in Seq(Pieces \ BlockMarks)
      BY DEF Blocked, Bare
    <2>2. After(c) \in Seq(Pieces \ BlockMarks)
      BY <2>1, AfterIs
    <2> QED
      BY <2>1, <2>2, ConcatIs DEF Bare
  <1> QED
    BY <1>7, <1>8

(* and nothing else is taken for a block. *)
LEMMA BlockFound ==
  ASSUME NEW text \in PieceTexts, text \notin Bare, WithoutBlock(text) # Refused
  PROVE  \E a, b, c : Blocked(text, a, b, c)
  <1> DEFINE n == Len(text)
             starts == Positions(text, "S")
             ends   == Positions(text, "E")
             s == CHOOSE i \in starts : TRUE
             e == CHOOSE i \in ends : TRUE
  <1>1. n \in Nat /\ DOMAIN text = 1 .. n
    BY DEF PieceTexts
  <1>2. ~(starts = {} /\ ends = {})
    <2>1. PICK i \in DOMAIN text : text[i] \in BlockMarks
      BY BareIs
    <2> QED
      BY <2>1 DEF BlockMarks, Positions
  <1>3. Cardinality(starts) = 1 /\ Cardinality(ends) = 1 /\ IsBlock(text, s, e)
    BY <1>2, Zenon DEF WithoutBlock
  <1>4. IsFiniteSet(starts) /\ IsFiniteSet(ends)
    <2>1. IsFiniteSet(1 .. n)
      BY <1>1, FS_Interval
    <2>2. starts \in SUBSET (1 .. n) /\ ends \in SUBSET (1 .. n)
      BY <1>1 DEF Positions
    <2> HIDE DEF starts, ends, n
    <2> QED
      BY <2>1, <2>2, FS_Subset
  <1>5. starts = {s} /\ ends = {e}
    <2>1. (\E i : starts = {i}) /\ (\E i : ends = {i})
      <3> HIDE DEF starts, ends
      <3> QED
        BY <1>3, <1>4, SingleIs
    <2> HIDE DEF starts, ends
    <2> QED
      BY <2>1
  <1>6. s \in DOMAIN text /\ e \in DOMAIN text /\ text[s] = "S" /\ text[e] = "E"
    <2>1. s \in starts /\ e \in ends
      BY <1>5
    <2> HIDE DEF s, e
    <2> QED
      BY <2>1 DEF Positions
  <1>7. /\ s < e /\ (s = 1 \/ text[s - 1] = "N") /\ text[s + 1] = "N" /\ text[e - 1] = "N"
        /\ (e = n \/ text[e + 1] = "N")
    BY <1>3 DEF IsBlock
  <1>8. ASSUME NEW i \in DOMAIN text, text[i] \in BlockMarks PROVE i = s \/ i = e
    BY <1>5, <1>8 DEF BlockMarks, Positions
  <1> HIDE DEF s, e, n, starts, ends
  <1> DEFINE a == SubSeq(text, 1, s - 1)
             b == SubSeq(text, s + 1, e - 1)
             c == SubSeq(text, e + 1, n)
             la == Len(a)
             lb == Len(b)
             lc == Len(c)
  <1>9. /\ a \in PieceTexts /\ b \in PieceTexts /\ c \in PieceTexts
        /\ la = s - 1 /\ lb = e - s - 1 /\ lc = n - e
        /\ text = Around(a, "S", b, "E", c) /\ Placed(text, a, "S", b, "E", c)
    <2>1. text \in Seq(Pieces) /\ s \in 1 .. Len(text) /\ e \in 1 .. Len(text) /\ s < e
      BY <1>1, <1>6, <1>7 DEF PieceTexts, n
    <2>2. Parted(Pieces, text, s, e, a, b, c)
      BY <2>1, AroundTwo DEF n
    <2> HIDE DEF a, b, c
    <2> QED
      BY <1>6, <2>2 DEF PieceTexts, Parted, n
  <1>10. /\ \A i \in 1 .. la : text[i] = a[i]
         /\ \A i \in 1 .. lb : text[la + 1 + i] = b[i]
         /\ \A i \in 1 .. lc : text[la + lb + 2 + i] = c[i]
    BY <1>9 DEF Placed
  <1>11. s \in 1 .. n /\ e \in 1 .. n
    BY <1>1, <1>6
  <1>12. /\ DOMAIN a = 1 .. la /\ DOMAIN b = 1 .. lb /\ DOMAIN c = 1 .. lc
         /\ (la = 0 => a = <<>>) /\ (lc = 0 => c = <<>>) /\ (lb # 0 => b # <<>>)
    <2>1. a \in Seq(Pieces) /\ b \in Seq(Pieces) /\ c \in Seq(Pieces)
      BY <1>9 DEF PieceTexts
    <2> HIDE DEF a, b, c
    <2> QED
      BY <2>1
  <1> HIDE DEF a, b, c
  <1>12a. DOMAIN a = 1 .. la /\ DOMAIN b = 1 .. lb /\ DOMAIN c = 1 .. lc
    BY <1>12
  <1>12b. la = s - 1 /\ lb = e - s - 1 /\ lc = n - e
    BY <1>9
  <1> HIDE DEF la, lb, lc
  <1>13. a \in Bare
    <2>1. ASSUME NEW i \in 1 .. la PROVE a[i] \notin BlockMarks
      <3>1. i \in 1 .. n /\ i # s /\ i # e
        BY <1>1, <1>7, <1>11, <1>12b
      <3> QED
        BY <1>1, <1>8, <1>10, <3>1
    <2> QED
      BY <1>9, <1>12a, <2>1, BareIs
  <1>14. b \in Bare
    <2>1. ASSUME NEW i \in 1 .. lb PROVE b[i] \notin BlockMarks
      <3>1. la + 1 + i \in 1 .. n /\ la + 1 + i # s /\ la + 1 + i # e
        BY <1>1, <1>7, <1>11, <1>12b
      <3> QED
        BY <1>1, <1>8, <1>10, <3>1
    <2> QED
      BY <1>9, <1>12a, <2>1, BareIs
  <1>15. c \in Bare
    <2>1. ASSUME NEW i \in 1 .. lc PROVE c[i] \notin BlockMarks
      <3>1. la + lb + 2 + i \in 1 .. n /\ la + lb + 2 + i # s /\ la + lb + 2 + i # e
        BY <1>1, <1>7, <1>11, <1>12b
      <3> QED
        BY <1>1, <1>8, <1>10, <3>1
    <2> QED
      BY <1>9, <1>12a, <2>1, BareIs
  <1>16. a = <<>> \/ EndsWith(a, "N")
    <2>1. CASE s = 1
      BY <1>12, <1>12b, <2>1
    <2>2. CASE s # 1
      <3>1. la \in 1 .. la /\ la = s - 1
        BY <1>11, <1>12b, <2>2
      <3>2. a[la] = "N"
        BY <1>7, <1>10, <2>2, <3>1
      <3>3. a # <<>> /\ Len(a) = la
        BY <1>12a, <3>1 DEF la
      <3> QED
        BY <3>2, <3>3 DEF EndsWith, Last
    <2> QED
      BY <2>1, <2>2
  <1>17. b # <<>> /\ b[1] = "N" /\ EndsWith(b, "N")
    <2>1. s + 1 # e
      BY <1>6, <1>7
    <2>2. 1 \in 1 .. lb /\ lb \in 1 .. lb /\ la + 1 + 1 = s + 1 /\ la + 1 + lb = e - 1
      BY <1>7, <1>11, <1>12b, <2>1
    <2>3. text[la + 1 + 1] = b[1] /\ text[la + 1 + lb] = b[lb]
      BY <1>10, <2>2
    <2>4. b[1] = "N" /\ b[lb] = "N"
      BY <1>7, <2>2, <2>3
    <2>5. b # <<>> /\ Len(b) = lb
      BY <1>12a, <2>2 DEF lb
    <2> QED
      BY <2>4, <2>5 DEF EndsWith, Last
  <1>18. c = <<>> \/ c[1] = "N"
    <2>1. CASE e = n
      BY <1>11, <1>12, <1>12b, <2>1
    <2>2. CASE e # n
      <3>1. 1 \in 1 .. lc /\ la + lb + 2 + 1 = e + 1
        BY <1>1, <1>11, <1>12b, <2>2
      <3>2. text[la + lb + 2 + 1] = c[1]
        BY <1>10, <3>1
      <3> QED
        BY <1>7, <2>2, <3>1, <3>2
    <2> QED
      BY <2>1, <2>2
  <1> QED
    BY <1>9, <1>13, <1>14, <1>15, <1>16, <1>17, <1>18 DEF Blocked

LEMMA PlacedParts ==
  ASSUME NEW X, NEW a \in Seq(X), NEW b \in Seq(X), NEW c \in Seq(X), NEW s \in X, NEW e \in X,
         NEW w \in Seq(X), Placed(w, a, s, b, e, c)
  PROVE  LET p == Len(a) + 1
             q == Len(a) + Len(b) + 2
         IN /\ p \in 1 .. Len(w) /\ q \in 1 .. Len(w) /\ p < q
            /\ SubSeq(w, 1, p - 1) = a /\ SubSeq(w, q + 1, Len(w)) = c
  <1> DEFINE la == Len(a)
             lb == Len(b)
             lc == Len(c)
             p == la + 1
             q == la + lb + 2
             A == SubSeq(w, 1, p - 1)
             B == SubSeq(w, p + 1, q - 1)
             C == SubSeq(w, q + 1, Len(w))
  <1>1. /\ la \in Nat /\ lb \in Nat /\ lc \in Nat
        /\ Len(w) = la + lb + 2 + lc
    BY DEF Placed
  <1>2. p \in 1 .. Len(w) /\ q \in 1 .. Len(w) /\ p < q
    <2> HIDE DEF la, lb, lc
    <2> QED
      BY <1>1
  <1>3. Parted(X, w, p, q, A, B, C)
    BY <1>2, AroundTwo
  <1> HIDE DEF A, B, C
  <1>4. /\ A \in Seq(X) /\ C \in Seq(X) /\ Len(A) = p - 1 /\ Len(B) = q - p - 1
        /\ Len(C) = Len(w) - q /\ Placed(w, A, w[p], B, w[q], C)
    BY <1>3 DEF Parted
  <1>5. Len(A) = la /\ Len(B) = lb /\ Len(C) = lc
    <2>1. p - 1 = la /\ q - p - 1 = lb /\ Len(w) - q = lc
      <3> HIDE DEF la, lb, lc
      <3> QED
        BY <1>1
    <2> QED
      BY <1>4, <2>1, Zenon
  <1>6. A = a
    <2>1. \A i \in 1 .. Len(a) : A[i] = a[i]
      BY <1>4, <1>5 DEF Placed
    <2>2. Len(A) = Len(a) /\ \A i \in 1 .. Len(A) : A[i] = a[i]
      BY <1>5, <2>1
    <2> QED
      BY <1>4, <2>2, SeqEqual
  <1>7. C = c
    <2>1. \A i \in 1 .. Len(c) : C[i] = c[i]
      <3>1. Len(A) + Len(B) + 2 = Len(a) + Len(b) + 2 /\ Len(C) = Len(c)
        BY <1>5
      <3> QED
        BY <1>4, <3>1 DEF Placed
    <2>2. Len(C) = Len(c) /\ \A i \in 1 .. Len(C) : C[i] = c[i]
      BY <1>5, <2>1
    <2> QED
      BY <1>4, <2>2, SeqEqual
  <1> QED
    BY <1>2, <1>6, <1>7 DEF A, C

LEMMA OnlyMarks ==
  ASSUME NEW X, NEW M, NEW a \in Seq(X \ M), NEW b \in Seq(X \ M), NEW c \in Seq(X \ M),
         NEW s, NEW e, NEW w, Placed(w, a, s, b, e, c),
         NEW i \in 1 .. Len(w), w[i] \in M
  PROVE  i = Len(a) + 1 \/ i = Len(a) + Len(b) + 2
  <1> DEFINE la == Len(a)
             lb == Len(b)
             lc == Len(c)
             p == la + 1
             q == la + lb + 2
             j == i - p
             l == i - q
  <1>1. /\ \A k \in 1 .. la : w[k] = a[k]
        /\ \A k \in 1 .. lb : w[p + k] = b[k]
        /\ \A k \in 1 .. lc : w[q + k] = c[k]
    BY DEF Placed
  <1>2. i \in 1 .. q + lc /\ la \in Nat /\ lb \in Nat /\ lc \in Nat
    BY DEF Placed
  <1>3. /\ \A k \in 1 .. la : a[k] \notin M
        /\ \A k \in 1 .. lb : b[k] \notin M
        /\ \A k \in 1 .. lc : c[k] \notin M
    OBVIOUS
  <1>4. SUFFICES ASSUME i # p, i # q PROVE FALSE
    OBVIOUS
  <1>5. \/ i \in 1 .. la
        \/ (j \in 1 .. lb /\ p + j = i) \/ (l \in 1 .. lc /\ q + l = i)
    <2> HIDE DEF la, lb, lc
    <2> QED
      BY <1>2, <1>4
  <1> HIDE DEF la, lb, lc, p, q, j, l
  <1>6. CASE i \in 1 .. la
    BY <1>1, <1>3, <1>6
  <1>7. CASE j \in 1 .. lb /\ p + j = i
    BY <1>1, <1>3, <1>7
  <1>8. CASE l \in 1 .. lc /\ q + l = i
    BY <1>1, <1>3, <1>8
  <1> QED
    BY <1>5, <1>6, <1>7, <1>8

LEMMA TwoIs ==
  ASSUME NEW X, NEW s \in X, NEW m \in X
  PROVE  <<s, m>> = <<s>> \o <<m>>
  <1> DEFINE two == <<s, m>>
             one == <<s>>
             end == <<m>>
             both == one \o end
  <1>1. two \in Seq(X) /\ Len(two) = 2 /\ two[1] = s /\ two[2] = m
    OBVIOUS
  <1>2. one \in Seq(X) /\ Len(one) = 1 /\ one[1] = s /\ end \in Seq(X) /\ Len(end) = 1 /\ end[1] = m
    OBVIOUS
  <1> HIDE DEF two, one, end
  <1>3. /\ both \in Seq(X) /\ Len(both) = Len(one) + Len(end)
        /\ \A i \in 1 .. Len(one) : both[i] = one[i]
        /\ \A i \in 1 .. Len(end) : both[Len(one) + i] = end[i]
    BY <1>2, ConcatIs
  <1> HIDE DEF both
  <1>4. Len(both) = 2 /\ both[1] = s /\ both[1 + 1] = m
    BY <1>2, <1>3
  <1>5. \A i \in 1 .. Len(two) : two[i] = both[i]
    <2>1. \A i \in 1 .. 2 : i = 1 \/ i = 2
      OBVIOUS
    <2>2. 1 + 1 = 2
      OBVIOUS
    <2> QED
      BY <1>1, <1>4, <2>1, <2>2
  <1>6. two = both
    BY <1>1, <1>3, <1>4, <1>5, SeqEqual
  <1> QED
    BY <1>6 DEF two, both, one, end

Cat(x, y) == x \o y

LEMMA CatIs ==
  ASSUME NEW X
  PROVE  /\ \A x, y \in Seq(X) : Cat(x, y) \in Seq(X)
         /\ \A x, y, z \in Seq(X) : Cat(Cat(x, y), z) = Cat(x, Cat(y, z))
  <1>1. ASSUME NEW x \in Seq(X), NEW y \in Seq(X) PROVE x \o y \in Seq(X)
    BY ConcatIs
  <1>2. ASSUME NEW x \in Seq(X), NEW y \in Seq(X), NEW z \in Seq(X)
        PROVE  (x \o y) \o z = x \o (y \o z)
    BY ConcatAssociative
  <1> QED
    BY <1>1, <1>2 DEF Cat

(* The ends of the lines are counted with the markers or with what follows. *)
Counted(a, s, b, e, c, m) ==
  /\ Around(a, s, <<m>> \o b, e, <<m>> \o c) = (((a \o <<s, m>>) \o b) \o <<e, m>>) \o c
  /\ Around(a, s, <<m>> \o b, e, <<>>) = (((a \o <<s, m>>) \o b) \o <<e>>) \o <<>>

LEMMA Reassociate ==
  ASSUME NEW X, NEW a \in Seq(X), NEW b \in Seq(X), NEW c \in Seq(X),
         NEW s \in X, NEW m \in X, NEW e \in X
  PROVE  Counted(a, s, b, e, c, m)
  <1> DEFINE first == <<s>>
             more == <<m>>
             last == <<e>>
             start == <<s, m>>
             end == <<e, m>>
  <1>1. first \in Seq(X) /\ more \in Seq(X) /\ last \in Seq(X) /\ start \in Seq(X) /\ end \in Seq(X)
    OBVIOUS
  <1>2. start = Cat(first, more) /\ end = Cat(last, more)
    BY TwoIs DEF Cat
  <1>3. /\ \A x, y \in Seq(X) : Cat(x, y) \in Seq(X)
        /\ \A x, y, z \in Seq(X) : Cat(Cat(x, y), z) = Cat(x, Cat(y, z))
    <2>1. \A x, y \in Seq(X) : Cat(x, y) \in Seq(X)
      BY CatIs
    <2>2. \A x, y, z \in Seq(X) : Cat(Cat(x, y), z) = Cat(x, Cat(y, z))
      BY CatIs
    <2> QED
      BY <2>1, <2>2
  <1> HIDE DEF first, more, last, start, end
  <1> DEFINE u == Cat(a, first)
             v == Cat(Cat(a, start), b)
  <1>4. Cat(u, Cat(more, b)) = v /\ v \in Seq(X)
    BY <1>1, <1>2, <1>3
  <1> HIDE DEF u, v
  <1>5. Cat(Cat(v, last), Cat(more, c)) = Cat(Cat(v, end), c)
    BY <1>1, <1>2, <1>3, <1>4
  <1>6. /\ Around(a, s, <<m>> \o b, e, <<m>> \o c) = Cat(Cat(Cat(u, Cat(more, b)), last), Cat(more, c))
        /\ Around(a, s, <<m>> \o b, e, <<>>) = Cat(Cat(Cat(u, Cat(more, b)), last), <<>>)
    BY DEF Around, Cat, u, first, more, last
  <1>7. /\ (((a \o <<s, m>>) \o b) \o <<e, m>>) \o c = Cat(Cat(v, end), c)
        /\ (((a \o <<s, m>>) \o b) \o <<e>>) \o <<>> = Cat(Cat(v, last), <<>>)
    BY DEF Cat, v, start, end, last
  <1> QED
    BY <1>4, <1>5, <1>6, <1>7 DEF Counted

StopLine(c) == IF c = <<>> THEN <<"E">> ELSE <<"E", "N">>
Start   == <<"S", "N">>

LEMMA MarkerLines ==
  /\ Start \in Ended /\ <<"E", "N">> \in Ended /\ <<"E">> \in OneLine /\ <<"E", "N">> \in OneLine
  /\ Start \in PieceTexts /\ <<"E", "N">> \in PieceTexts /\ <<"E">> \in PieceTexts
  /\ <<"E">> \notin Ended /\ Start \notin Bare /\ <<"E", "N">> \notin Bare /\ <<"E">> \notin Bare
  <1>1. {"S", "E", "N"} \subseteq Pieces
    BY PieceAssumption
  <1>2. <<"S">> \in Plain /\ <<"E">> \in Plain
    BY <1>1 DEF Plain
  <1>3. Start = Append(<<"S">>, "N") /\ <<"E", "N">> = Append(<<"E">>, "N")
    BY DEF Start
  <1>4. Start \in Ended /\ <<"E", "N">> \in Ended /\ <<"E">> \in OneLine /\ <<"E", "N">> \in OneLine
    BY <1>2, <1>3 DEF Ended, OneLine
  <1>5. Start \in PieceTexts /\ <<"E", "N">> \in PieceTexts /\ <<"E">> \in PieceTexts
    BY <1>4, LineSets
  <1>6. <<"E">> \notin Ended
    BY <1>2, LineSets
  <1>7. Start \notin Bare /\ <<"E", "N">> \notin Bare /\ <<"E">> \notin Bare
    <2>1. /\ 1 \in DOMAIN Start /\ Start[1] \in BlockMarks
          /\ 1 \in DOMAIN <<"E", "N">> /\ <<"E", "N">>[1] \in BlockMarks
          /\ 1 \in DOMAIN <<"E">> /\ <<"E">>[1] \in BlockMarks
      BY DEF Start, BlockMarks
    <2> QED
      BY <1>5, <2>1, BareIs
  <1> QED
    BY <1>4, <1>5, <1>6, <1>7

(* The lines of a text with a block *)
LEMMA BlockLines ==
  ASSUME NEW text \in PieceTexts, NEW a, NEW b, NEW c, Blocked(text, a, b, c)
  PROVE  /\ Lines(text) = Around(Lines(a), Start, Lines(After(b)), StopLine(c), Lines(After(c)))
         /\ After(b) \in Bare /\ After(c) \in Bare
  <1> DEFINE b1 == After(b)
             c1 == After(c)
             t == StopLine(c)
  <1>1. /\ a \in PieceTexts /\ b \in PieceTexts /\ c \in PieceTexts
        /\ {"S", "E", "N"} \subseteq Pieces
    BY BlockedIs, PieceAssumption
  <1>2. b1 \in Bare /\ c1 \in Bare
    <2>1. b \in Seq(Pieces \ BlockMarks) /\ c \in Seq(Pieces \ BlockMarks)
      BY DEF Blocked, Bare
    <2> QED
      BY <2>1, AfterIs DEF Bare
  <1>3. b1 \in PieceTexts /\ c1 \in PieceTexts /\ t \in PieceTexts
    BY <1>2, BareLines, MarkerLines DEF StopLine
  <1>4. b = <<"N">> \o b1 /\ (c # <<>> => c = <<"N">> \o c1) /\ (c = <<>> => c1 = <<>>)
    BY <1>1, AfterIs DEF Blocked, PieceTexts
  <1>5. b1 = <<>> \/ EndsWith(b1, "N")
    <2>1. /\ b # <<>> /\ EndsWith(b, "N") /\ Len(b) = Len(b1) + 1
          /\ \A i \in 1 .. Len(b1) : b1[i] = b[i + 1]
      BY <1>1, AfterIs DEF Blocked, PieceTexts
    <2> DEFINE m == Len(b1)
    <2>2. m \in Nat /\ (m = 0 => b1 = <<>>)
      BY <1>3 DEF PieceTexts
    <2>3. CASE m # 0
      <3>1. m \in 1 .. m /\ b[m + 1] = "N"
        BY <2>1, <2>2, <2>3 DEF EndsWith, Last
      <3> QED
        BY <2>1, <3>1, <2>2 DEF EndsWith, Last
    <2> QED
      BY <2>2, <2>3
  <1> HIDE DEF b1, c1, t
  <1> DEFINE u == a \o Start
             v == u \o b1
             x == v \o t
  <1>6. text = x \o c1
    <2>1. text = Around(a, "S", b, "E", c)
      BY DEF Blocked
    <2>1a. Counted(a, "S", b1, "E", c1, "N")
      <3>1. "S" \in Pieces /\ "E" \in Pieces /\ "N" \in Pieces
        BY <1>1
      <3> QED
        BY <1>1, <1>3, <3>1, Reassociate DEF PieceTexts
    <2>2. CASE c = <<>>
      <3>1. Around(a, "S", <<"N">> \o b1, "E", <<>>)
              = (((a \o <<"S", "N">>) \o b1) \o <<"E">>) \o <<>>
        BY <2>1a DEF Counted
      <3> QED
        BY <1>4, <2>1, <2>2, <3>1 DEF StopLine, Start, t
    <2>3. CASE c # <<>>
      <3>1. Around(a, "S", <<"N">> \o b1, "E", <<"N">> \o c1)
              = (((a \o <<"S", "N">>) \o b1) \o <<"E", "N">>) \o c1
        BY <2>1a DEF Counted
      <3> QED
        BY <1>4, <2>1, <2>3, <3>1 DEF StopLine, Start, t
    <2> QED
      BY <2>2, <2>3
  <1>7. u \in PieceTexts /\ Lines(u) = Lines(a) \o <<Start>> /\ Lines(u) \in Seq(Ended)
    <2>1. Lines(a) \in Seq(Ended)
      BY <1>1, LinedIs DEF Blocked
    <2>2. Lines(Start) = <<Start>> /\ <<Start>> \in Seq(Ended) /\ Start \in PieceTexts
      <3>1. Start \in OneLine /\ Start \in Ended /\ Start \in PieceTexts
        BY MarkerLines DEF OneLine
      <3> QED
        BY <3>1, LineIs
    <2>3. Lines(u) = Lines(a) \o Lines(Start)
      BY <1>1, <2>1, <2>2, LinesConcat
    <2>4. u \in PieceTexts
      BY <1>1, <2>2, ConcatIs DEF PieceTexts
    <2>5. Lines(a) \o <<Start>> \in Seq(Ended)
      BY <2>1, <2>2, ConcatIs
    <2> QED
      BY <2>2, <2>3, <2>4, <2>5
  <1> HIDE DEF u
  <1>8. v \in PieceTexts /\ Lines(v) = Lines(u) \o Lines(b1) /\ Lines(v) \in Seq(Ended)
    <2>1. Lines(b1) \in Seq(Ended)
      BY <1>3, <1>5, LinedIs
    <2>2. Lines(v) = Lines(u) \o Lines(b1)
      BY <1>3, <1>7, LinesConcat
    <2>3. v \in PieceTexts
      BY <1>3, <1>7, ConcatIs DEF PieceTexts
    <2>4. Lines(u) \o Lines(b1) \in Seq(Ended)
      BY <1>7, <2>1, ConcatIs
    <2> QED
      BY <2>2, <2>3, <2>4
  <1> HIDE DEF v
  <1>9. x \in PieceTexts /\ Lines(x) = Lines(v) \o <<t>>
    <2>1. Lines(t) = <<t>>
      BY MarkerLines, LineIs DEF StopLine, t
    <2>2. Lines(x) = Lines(v) \o Lines(t)
      BY <1>3, <1>8, LinesConcat
    <2>3. x \in PieceTexts
      BY <1>3, <1>8, ConcatIs DEF PieceTexts
    <2> QED
      BY <2>1, <2>2, <2>3
  <1> HIDE DEF x
  <1>10. Lines(x \o c1) = Lines(x) \o Lines(c1)
    <2>1. CASE c = <<>>
      <3>1. c1 = <<>> /\ Lines(c1) = <<>>
        BY <1>4, <2>1, LinesFold
      <3> DEFINE rows == Lines(x)
      <3>2. rows \in Rows
        BY <1>9, LinesFold
      <3> HIDE DEF rows
      <3>3. rows \o <<>> = rows /\ x \o <<>> = x
        BY <1>9, <3>2, ConcatEmptySeq DEF Rows, PieceTexts
      <3> QED
        BY <3>1, <3>3 DEF rows
    <2>2. CASE c # <<>>
      <3>1. t \in Ended
        BY <2>2, MarkerLines DEF StopLine, t
      <3>2. <<t>> \in Seq(Ended)
        BY <3>1
      <3>3. Lines(x) \in Seq(Ended)
        BY <1>8, <1>9, <3>2, ConcatIs
      <3> QED
        BY <1>3, <1>9, <3>3, LinesConcat
    <2> QED
      BY <2>1, <2>2
  <1>11. Lines(text) = Around(Lines(a), Start, Lines(b1), t, Lines(c1))
    BY <1>6, <1>7, <1>8, <1>9, <1>10 DEF Around
  <1> QED
    BY <1>2, <1>11 DEF b1, c1, t

LEMMA MarkedIs ==
  ASSUME NEW rows \in Rows
  PROVE  Marked(rows) = {i \in 1 .. Len(rows) : rows[i] \notin Bare}
  <1>1. DOMAIN rows = 1 .. Len(rows) /\ \A i \in DOMAIN rows : rows[i] \in PieceTexts
    BY DEF Rows
  <1>2. ASSUME NEW i \in DOMAIN rows
        PROVE  ToSet(rows[i]) \intersect {"S", "E"} # {} <=> rows[i] \notin Bare
    <2> DEFINE line == rows[i]
    <2>1. line \in Bare <=> \A j \in DOMAIN line : line[j] \notin BlockMarks
      BY <1>1, BareIs
    <2> HIDE DEF line
    <2>2. ToSet(line) \intersect {"S", "E"} # {} <=> line \notin Bare
      BY <2>1 DEF ToSet, BlockMarks
    <2> QED
      BY <2>2 DEF line
  <1> QED
    BY <1>1, <1>2 DEF Marked

LEMMA PairIs ==
  ASSUME NEW rows, NEW p \in DOMAIN rows, NEW q \in DOMAIN rows, p \in Int, q \in Int, p < q,
         Marked(rows) = {p, q},
         rows[p] = <<"S", "N">>, rows[q] \in {<<"E", "N">>, <<"E">>}
  PROVE  Pairs(rows) = {<<p, q>>}
  <1>1. <<p, q>> \in Pairs(rows)
    BY DEF Pairs
  <1>2. ASSUME NEW x \in Pairs(rows) PROVE x = <<p, q>>
    <2>1. PICK i \in DOMAIN rows, j \in DOMAIN rows : x = <<i, j>>
      BY DEF Pairs
    <2>2. i < j /\ {i, j} = {p, q}
      <3>1. x[1] < x[2] /\ Marked(rows) = {x[1], x[2]}
        BY DEF Pairs
      <3> QED
        BY <2>1, <3>1
    <2>3. (i = p /\ j = q) \/ (i = q /\ j = p)
      BY <2>2
    <2>4. i = p /\ j = q
      BY <2>2, <2>3
    <2> QED
      BY <2>1, <2>4
  <1> QED
    BY <1>1, <1>2

(* UserText takes the same lines out of a text with a block *)
LEMMA UserOut ==
  ASSUME NEW text \in PieceTexts, NEW a, NEW b, NEW c, Blocked(text, a, b, c)
  PROVE  UserText(text) = a \o After(c)
  <1> DEFINE rows == Lines(text)
             A == Lines(a)
             B == Lines(After(b))
             C == Lines(After(c))
             t == StopLine(c)
             p == Len(A) + 1
             q == Len(A) + Len(B) + 2
             n == Len(rows)
  <1>1. rows \in Rows /\ rows = Around(A, Start, B, t, C) /\ After(b) \in Bare /\ After(c) \in Bare
    BY BlockLines, LinesFold
  <1>2. a \in Bare /\ a \in PieceTexts /\ After(c) \in PieceTexts
    BY <1>1, BareLines DEF Blocked
  <1>3. A \in Seq(Bare) /\ B \in Seq(Bare) /\ C \in Seq(Bare)
    BY <1>1, <1>2, BareLines
  <1>4. /\ Start \in PieceTexts /\ t \in PieceTexts /\ t \in {<<"E", "N">>, <<"E">>}
        /\ Start \notin Bare /\ t \notin Bare
    BY MarkerLines DEF StopLine
  <1>5. FlattenSeq(A) = a /\ FlattenSeq(C) = After(c)
    BY <1>2, TextIs
  <1> HIDE DEF rows, A, B, C, t
  <1>6. A \in Rows /\ B \in Rows /\ C \in Rows
    BY <1>3, BareLines
  <1>7. Placed(rows, A, Start, B, t, C)
    <2>1. A \in Seq(PieceTexts) /\ B \in Seq(PieceTexts) /\ C \in Seq(PieceTexts)
      BY <1>6 DEF Rows
    <2> QED
      BY <1>1, <1>4, <2>1, AroundIs
  <1>8. /\ p \in 1 .. n /\ q \in 1 .. n /\ p < q
        /\ SubSeq(rows, 1, p - 1) = A /\ SubSeq(rows, q + 1, n) = C
    <2>1. /\ A \in Seq(PieceTexts) /\ B \in Seq(PieceTexts) /\ C \in Seq(PieceTexts)
          /\ rows \in Seq(PieceTexts)
      BY <1>1, <1>6 DEF Rows
    <2> QED
      BY <1>4, <1>7, <2>1, PlacedParts
  <1>9. rows[p] = Start /\ rows[q] = t
    BY <1>7 DEF Placed
  <1>10. ASSUME NEW i \in 1 .. Len(rows), rows[i] \notin Bare PROVE i = p \/ i = q
    <2> DEFINE M == PieceTexts \ Bare
    <2>1. PieceTexts \ M = Bare
      BY BareLines
    <2>2. A \in Seq(PieceTexts \ M) /\ B \in Seq(PieceTexts \ M) /\ C \in Seq(PieceTexts \ M)
      BY <1>3, <2>1
    <2>3. rows[i] \in M
      BY <1>1, <1>10 DEF Rows
    <2> HIDE DEF M
    <2> QED
      BY <1>7, <2>2, <2>3, OnlyMarks
  <1>11. Marked(rows) = {p, q}
    <2>1. Marked(rows) = {i \in 1 .. Len(rows) : rows[i] \notin Bare}
      BY <1>1, MarkedIs
    <2> HIDE DEF p, q
    <2> QED
      BY <1>4, <1>8, <1>9, <1>10, <2>1
  <1>12. Pairs(rows) = {<<p, q>>}
    <2>1. DOMAIN rows = 1 .. n
      BY <1>1 DEF Rows
    <2>2. p \in Int /\ q \in Int /\ p \in DOMAIN rows /\ q \in DOMAIN rows /\ p < q
      BY <1>8, <2>1
    <2>3. rows[p] = <<"S", "N">> /\ rows[q] \in {<<"E", "N">>, <<"E">>}
      BY <1>4, <1>9 DEF Start
    <2> HIDE DEF p, q
    <2> QED
      BY <1>11, <2>2, <2>3, PairIs
  <1> DEFINE pair == CHOOSE x \in Pairs(rows) : TRUE
  <1>13. pair[1] = p /\ pair[2] = q
    <2>1. pair = <<p, q>>
      BY <1>12
    <2> HIDE DEF pair
    <2> QED
      BY <2>1
  <1>14. Marked(rows) # {} /\ Pairs(rows) # {}
    BY <1>11, <1>12
  <1> HIDE DEF p, q
  <1>15. UserText(text) = FlattenSeq(SubSeq(rows, 1, pair[1] - 1) \o SubSeq(rows, pair[2] + 1, Len(rows)))
    BY <1>14, Zenon DEF UserText, rows
  <1> HIDE DEF pair
  <1>16. FlattenSeq(A \o C) = a \o After(c)
    BY <1>5, <1>6, FlattenConcat
  <1> QED
    BY <1>8, <1>13, <1>15, <1>16

Among(s, Y) == \A i \in 1 .. Len(s) : s[i] \in Y

LEMMA AmongIs ==
  ASSUME NEW X, NEW s \in Seq(X), NEW Y, Among(s, Y)
  PROVE  s \in Seq(Y)
  <1> DEFINE n == Len(s)
  <1>1. n \in Nat /\ s = [i \in 1 .. n |-> s[i]]
    OBVIOUS
  <1>2. \A i \in 1 .. n : s[i] \in Y
    BY DEF Among
  <1> HIDE DEF n
  <1>3. [i \in 1 .. n |-> s[i]] \in Seq(Y)
    BY <1>1, <1>2
  <1> QED
    BY <1>1, <1>3

LEMMA LinedEnded ==
  ASSUME NEW rows \in Rows, Lined(rows), NEW i \in 1 .. Len(rows), rows[i] \notin Ended
  PROVE  i = Len(rows)
  <1>1. PICK a \in Seq(Ended), line \in OneLine : rows = Append(a, line)
    <2>1. rows # <<>>
      OBVIOUS
    <2> QED
      BY <2>1 DEF Lined
  <1>2. Len(rows) = Len(a) + 1 /\ \A j \in 1 .. Len(a) : rows[j] = a[j]
    <2>1. a \in Seq(PieceTexts) /\ line \in PieceTexts
      BY LineSets DEF Rows
    <2> QED
      BY <1>1, <2>1, AppendProperties
  <1>3. ~(i \in 1 .. Len(a))
    BY <1>2
  <1>4. Len(a) \in Nat
    OBVIOUS
  <1> QED
    BY <1>2, <1>3, <1>4

(* Two marked lines are such a block. *)
LEMMA PairFound ==
  ASSUME NEW text \in PieceTexts, Pairs(Lines(text)) # {}
  PROVE  \E a, b, c : Blocked(text, a, b, c)
  <1> DEFINE rows == Lines(text)
             n == Len(rows)
  <1>1. rows \in Rows /\ Lined(rows) /\ FlattenSeq(rows) = text
    BY LinesFold, LinedIs, TextIs
  <1>2. PICK p \in DOMAIN rows, q \in DOMAIN rows :
          /\ p < q /\ Marked(rows) = {p, q}
          /\ rows[p] = Start /\ rows[q] \in {<<"E", "N">>, <<"E">>}
    <2>1. PICK x \in Pairs(rows) : TRUE
      OBVIOUS
    <2> HIDE DEF rows
    <2>2. PICK p \in DOMAIN rows, q \in DOMAIN rows : x = <<p, q>>
      BY DEF Pairs
    <2>3. /\ x[1] < x[2] /\ Marked(rows) = {x[1], x[2]}
          /\ rows[x[1]] = <<"S", "N">> /\ rows[x[2]] \in {<<"E", "N">>, <<"E">>}
      BY DEF Pairs
    <2>4. x[1] = p /\ x[2] = q
      BY <2>2
    <2> QED
      BY <2>3, <2>4 DEF Start
  <1> HIDE DEF rows
  <1>3. p \in 1 .. n /\ q \in 1 .. n /\ n \in Nat
    BY <1>1 DEF Rows
  <1> DEFINE A == SubSeq(rows, 1, p - 1)
             B == SubSeq(rows, p + 1, q - 1)
             C == SubSeq(rows, q + 1, n)
             t == rows[q]
             la == Len(A)
             lb == Len(B)
             lc == Len(C)
  <1>4. Parted(PieceTexts, rows, p, q, A, B, C)
    BY <1>1, <1>2, <1>3, AroundTwo DEF Rows
  <1> HIDE DEF A, B, C
  <1>5. /\ A \in Rows /\ B \in Rows /\ C \in Rows
        /\ la = p - 1 /\ lb = q - p - 1 /\ lc = n - q
        /\ rows = Around(A, Start, B, t, C) /\ Placed(rows, A, Start, B, t, C)
    BY <1>2, <1>4 DEF Parted, Rows
  <1>6. /\ \A i \in 1 .. la : rows[i] = A[i]
        /\ \A i \in 1 .. lb : rows[la + 1 + i] = B[i]
        /\ \A i \in 1 .. lc : rows[la + lb + 2 + i] = C[i]
    BY <1>5 DEF Placed
  <1>7. ASSUME NEW i \in 1 .. n, i # p, i # q PROVE rows[i] \in Bare
    <2>1. Marked(rows) = {i1 \in 1 .. Len(rows) : rows[i1] \notin Bare}
      BY <1>1, MarkedIs
    <2> QED
      BY <1>2, <1>7, <2>1
  <1>8. ASSUME NEW i \in 1 .. n, i < n PROVE rows[i] \in Ended
    <2>1. rows[i] \notin Ended => i = n
      BY <1>1, LinedEnded
    <2> QED
      BY <1>3, <1>8, <2>1
  <1>8a. la = p - 1 /\ lb = q - p - 1 /\ lc = n - q
    BY <1>5
  <1>9. ASSUME NEW i \in 1 .. la PROVE A[i] \in Bare /\ A[i] \in Ended
    <2>1. i \in 1 .. n /\ i # p /\ i # q /\ i < n
      <3> HIDE DEF la, lb, lc, n
      <3> QED
        BY <1>2, <1>3, <1>8a
    <2> QED
      BY <1>6, <1>7, <1>8, <2>1
  <1>10. ASSUME NEW i \in 1 .. lb PROVE B[i] \in Bare /\ B[i] \in Ended
    <2> DEFINE k == la + 1 + i
    <2>1. k \in 1 .. n /\ k # p /\ k # q /\ k < n
      <3> HIDE DEF la, lb, lc, n
      <3> QED
        BY <1>2, <1>3, <1>8a
    <2>2. rows[k] = B[i]
      BY <1>6
    <2> HIDE DEF k
    <2> QED
      BY <1>7, <1>8, <2>1, <2>2
  <1>11. ASSUME NEW i \in 1 .. lc PROVE C[i] \in Bare
    <2> DEFINE k == la + lb + 2 + i
    <2>1. k \in 1 .. n /\ k # p /\ k # q
      <3> HIDE DEF la, lb, lc, n
      <3> QED
        BY <1>2, <1>3, <1>8a
    <2>2. rows[k] = C[i]
      BY <1>6
    <2> HIDE DEF k
    <2> QED
      BY <1>7, <2>1, <2>2
  <1>12. A \in Seq(Bare) /\ A \in Seq(Ended) /\ B \in Seq(Bare) /\ B \in Seq(Ended) /\ C \in Seq(Bare)
    <2>1. A \in Seq(PieceTexts) /\ B \in Seq(PieceTexts) /\ C \in Seq(PieceTexts)
      BY <1>5 DEF Rows
    <2>2. A \in Seq(Bare)
      <3>1. \A i \in 1 .. Len(A) : A[i] \in Bare
        BY <1>9
      <3>2. A \in Seq(PieceTexts)
        BY <2>1
      <3> HIDE DEF la, lb, lc, n, t
      <3>3. Among(A, Bare)
        BY <3>1 DEF Among
      <3> QED
        BY <3>2, <3>3, AmongIs
    <2>3. A \in Seq(Ended)
      <3>1. \A i \in 1 .. Len(A) : A[i] \in Ended
        BY <1>9
      <3>2. A \in Seq(PieceTexts)
        BY <2>1
      <3> HIDE DEF la, lb, lc, n, t
      <3>3. Among(A, Ended)
        BY <3>1 DEF Among
      <3> QED
        BY <3>2, <3>3, AmongIs
    <2>4. B \in Seq(Bare)
      <3>1. \A i \in 1 .. Len(B) : B[i] \in Bare
        BY <1>10
      <3>2. B \in Seq(PieceTexts)
        BY <2>1
      <3> HIDE DEF la, lb, lc, n, t
      <3>3. Among(B, Bare)
        BY <3>1 DEF Among
      <3> QED
        BY <3>2, <3>3, AmongIs
    <2>5. B \in Seq(Ended)
      <3>1. \A i \in 1 .. Len(B) : B[i] \in Ended
        BY <1>10
      <3>2. B \in Seq(PieceTexts)
        BY <2>1
      <3> HIDE DEF la, lb, lc, n, t
      <3>3. Among(B, Ended)
        BY <3>1 DEF Among
      <3> QED
        BY <3>2, <3>3, AmongIs
    <2>6. C \in Seq(Bare)
      <3>1. \A i \in 1 .. Len(C) : C[i] \in Bare
        BY <1>11
      <3>2. C \in Seq(PieceTexts)
        BY <2>1
      <3> HIDE DEF la, lb, lc, n, t
      <3>3. Among(C, Bare)
        BY <3>1 DEF Among
      <3> QED
        BY <3>2, <3>3, AmongIs
    <2> QED
      BY <2>2, <2>3, <2>4, <2>5, <2>6
  <1> DEFINE a == FlattenSeq(A)
             b1 == FlattenSeq(B)
             c1 == FlattenSeq(C)
  <1>13. /\ a \in Bare /\ b1 \in Bare /\ c1 \in Bare
         /\ (a = <<>> \/ EndsWith(a, "N")) /\ (b1 = <<>> \/ EndsWith(b1, "N"))
    BY <1>12, BareLines, FlattenEnded
  <1>14. text = (((a \o Start) \o b1) \o t) \o c1
    <2> DEFINE one == <<Start>>
               end == <<t>>
               u == A \o one
               v == u \o B
               x == v \o end
    <2>1. Start \in PieceTexts /\ t \in PieceTexts
      BY <1>2, MarkerLines
    <2>2. FlattenSeq(one) = Start /\ FlattenSeq(end) = t /\ one \in Rows /\ end \in Rows
      <3>1. ASSUME NEW line \in PieceTexts PROVE FlattenSeq(<<line>>) = line /\ <<line>> \in Rows
        <4> DEFINE none == <<>>
        <4>1. <<line>> = Append(none, line) /\ none \in Rows /\ <<line>> \in Rows
          BY DEF Rows
        <4>2. FlattenSeq(none) = <<>>
          BY FlattenFold
        <4> HIDE DEF none
        <4>3. FlattenSeq(Append(none, line)) = FlattenSeq(none) \o line
          BY <4>1, FlattenFold
        <4>4. <<>> \o line = line
          BY ConcatEmptySeq DEF PieceTexts
        <4> QED
          BY <4>1, <4>2, <4>3, <4>4
      <3> QED
        BY <2>1, <3>1
    <2> HIDE DEF one, end, t
    <2>3. u \in Rows /\ FlattenSeq(u) = a \o Start
      <3>1. FlattenSeq(u) = FlattenSeq(A) \o FlattenSeq(one)
        BY <1>5, <2>2, FlattenConcat
      <3>2. u \in Rows
        BY <1>5, <2>2, ConcatIs DEF Rows
      <3> QED
        BY <2>2, <3>1, <3>2
    <2> HIDE DEF u
    <2>4. v \in Rows /\ FlattenSeq(v) = FlattenSeq(u) \o b1
      <3>1. v \in Rows
        BY <1>5, <2>3, ConcatIs DEF Rows
      <3> QED
        BY <1>5, <2>3, <3>1, FlattenConcat
    <2> HIDE DEF v
    <2>5. x \in Rows /\ FlattenSeq(x) = FlattenSeq(v) \o t
      <3>1. FlattenSeq(x) = FlattenSeq(v) \o FlattenSeq(end)
        BY <2>2, <2>4, FlattenConcat
      <3>2. x \in Rows
        BY <2>2, <2>4, ConcatIs DEF Rows
      <3> QED
        BY <2>2, <3>1, <3>2
    <2> HIDE DEF x
    <2>6. FlattenSeq(x \o C) = FlattenSeq(x) \o c1
      BY <1>5, <2>5, FlattenConcat
    <2>7. rows = x \o C
      BY <1>5 DEF Around, x, v, u, one, end
    <2> QED
      BY <1>1, <2>3, <2>4, <2>5, <2>6, <2>7
  <1>15. /\ {"S", "E", "N"} \subseteq Pieces
         /\ a \in PieceTexts /\ b1 \in PieceTexts /\ c1 \in PieceTexts
    BY <1>13, BareLines, PieceAssumption
  <1>16. t = <<"E">> => C = <<>>
    <2>1. ASSUME t = <<"E">> PROVE q = n
      <3>1. t \notin Ended
        BY <2>1, MarkerLines
      <3> QED
        BY <1>3, <1>8, <3>1
    <2> QED
      BY <1>3, <1>5, <2>1 DEF Rows
  <1>17. t = <<"E">> => c1 = <<>>
    BY <1>16, FlattenFold
  <1> DEFINE b == <<"N">> \o b1
             c == IF t = <<"E">> THEN <<>> ELSE <<"N">> \o c1
  <1>18. text = Around(a, "S", b, "E", c)
    <2> HIDE DEF a, b1, c1, t
    <2>1. Counted(a, "S", b1, "E", c1, "N")
      <3>1. "S" \in Pieces /\ "E" \in Pieces /\ "N" \in Pieces
        BY <1>15
      <3> QED
        BY <1>15, <3>1, Reassociate DEF PieceTexts
    <2>2. CASE t = <<"E">>
      BY <1>14, <1>17, <2>1, <2>2 DEF Counted, Start
    <2>3. CASE t # <<"E">>
      <3>1. t = <<"E", "N">>
        BY <1>2, <2>3 DEF t
      <3> QED
        BY <1>14, <2>1, <2>3, <3>1 DEF Counted, Start
    <2> QED
      BY <2>2, <2>3
  <1>19. \A d \in Bare : /\ <<"N">> \o d \in Bare /\ <<"N">> \o d # <<>> /\ (<<"N">> \o d)[1] = "N"
                         /\ (d = <<>> \/ EndsWith(d, "N") => EndsWith(<<"N">> \o d, "N"))
    <2> SUFFICES ASSUME NEW d \in Bare
                 PROVE  /\ <<"N">> \o d \in Bare /\ <<"N">> \o d # <<>> /\ (<<"N">> \o d)[1] = "N"
                        /\ (d = <<>> \/ EndsWith(d, "N") => EndsWith(<<"N">> \o d, "N"))
      OBVIOUS
    <2> DEFINE one == <<"N">>
               w == one \o d
               m == Len(d)
    <2>1. one \in Seq(Pieces \ BlockMarks) /\ Len(one) = 1 /\ one[1] = "N" /\ d \in Seq(Pieces \ BlockMarks)
      <3>1. "N" \in Pieces \ BlockMarks
        BY <1>15 DEF BlockMarks
      <3> QED
        BY <3>1 DEF Bare
    <2>2. m \in Nat /\ (m = 0 <=> d = <<>>)
      BY <2>1
    <2> HIDE DEF one
    <2>3. /\ w \in Seq(Pieces \ BlockMarks) /\ Len(w) = Len(one) + Len(d)
          /\ \A i \in 1 .. Len(one) : w[i] = one[i]
          /\ \A i \in 1 .. Len(d) : w[Len(one) + i] = d[i]
      BY <2>1, ConcatIs
    <2> HIDE DEF w, m
    <2>4. Len(w) = 1 + m /\ w[1] = "N" /\ \A i \in 1 .. m : w[1 + i] = d[i]
      BY <2>1, <2>3 DEF m
    <2>5. w # <<>>
      BY <2>2, <2>4
    <2>6. ASSUME d = <<>> \/ EndsWith(d, "N") PROVE w[1 + m] = "N"
      <3>1. CASE m = 0
        BY <2>4, <3>1
      <3>2. CASE m # 0
        <4>1. d[m] = "N" /\ m \in 1 .. m
          BY <2>2, <2>6, <3>2 DEF EndsWith, Last, m
        <4> QED
          BY <2>4, <4>1
      <3> QED
        BY <3>1, <3>2
    <2>7. /\ w \in Bare /\ w # <<>> /\ w[1] = "N"
          /\ (d = <<>> \/ EndsWith(d, "N") => EndsWith(w, "N"))
      BY <2>3, <2>4, <2>5, <2>6 DEF EndsWith, Last, Bare
    <2> QED
      BY <2>7 DEF w, one
  <1>20. Blocked(text, a, b, c)
    <2> HIDE DEF a, b1, c1, t
    <2>1. b \in Bare /\ b # <<>> /\ b[1] = "N" /\ EndsWith(b, "N")
      BY <1>13, <1>19
    <2>2. c \in Bare /\ (c = <<>> \/ c[1] = "N")
      <3>1. <<>> \in Bare
        BY DEF Bare
      <3> QED
        BY <1>13, <1>19, <3>1
    <2> HIDE DEF b, c
    <2> QED
      BY <1>13, <1>18, <2>1, <2>2 DEF Blocked
  <1> QED
    BY <1>20

(* Reading the markers as lines and reading them in the text is the same. *)
LEMMA UserIs ==
  ASSUME NEW text \in PieceTexts
  PROVE  UserText(text) = WithoutBlock(text)
  <1> DEFINE rows == Lines(text)
  <1>1. rows \in Rows /\ FlattenSeq(rows) = text
    BY LinesFold, TextIs
  <1>2. Marked(rows) = {i \in 1 .. Len(rows) : rows[i] \notin Bare}
    BY <1>1, MarkedIs
  <1>3. Marked(rows) = {} <=> text \in Bare
    <2>1. ASSUME text \in Bare PROVE Marked(rows) = {}
      <3>1. rows \in Seq(Bare)
        BY <2>1, BareLines
      <3> HIDE DEF rows
      <3> QED
        BY <1>2, <3>1
    <2>2. ASSUME Marked(rows) = {} PROVE text \in Bare
      <3> HIDE DEF rows
      <3>1. Among(rows, Bare)
        BY <1>2, <2>2 DEF Among
      <3>2. rows \in Seq(Bare)
        BY <1>1, <3>1, AmongIs DEF Rows
      <3> QED
        BY <1>1, <3>2, BareLines
    <2> QED
      BY <2>1, <2>2
  <1>4. CASE text \in Bare
    <2>1. Positions(text, "S") = {} /\ Positions(text, "E") = {}
      BY <1>4, BareIs DEF Positions, BlockMarks
    <2>2. WithoutBlock(text) = text
      BY <2>1 DEF WithoutBlock
    <2>3. UserText(text) = text
      BY <1>3, <1>4 DEF UserText
    <2> QED
      BY <2>2, <2>3
  <1>5. CASE \E a, b, c : Blocked(text, a, b, c)
    <2>1. PICK a, b, c : Blocked(text, a, b, c)
      BY <1>5
    <2> QED
      BY <2>1, BlockOut, UserOut
  <1>6. CASE text \notin Bare /\ ~\E a, b, c : Blocked(text, a, b, c)
    <2>1. WithoutBlock(text) = Refused
      BY <1>6, BlockFound
    <2>2. Pairs(rows) = {}
      BY <1>6, PairFound
    <2>3. UserText(text) = Refused
      BY <1>3, <1>6, <2>2 DEF UserText
    <2> QED
      BY <2>1, <2>3
  <1> QED
    BY <1>4, <1>5, <1>6

(* What WithoutBlock leaves is a text without a marker. *)
LEMMA LeftBare ==
  ASSUME NEW text \in PieceTexts, WithoutBlock(text) # Refused
  PROVE  WithoutBlock(text) \in Bare
  <1>1. CASE text \in Bare
    <2>1. Positions(text, "S") = {} /\ Positions(text, "E") = {}
      BY <1>1, BareIs DEF Positions, BlockMarks
    <2>2. WithoutBlock(text) = text
      BY <2>1 DEF WithoutBlock
    <2> QED
      BY <1>1, <2>2
  <1>2. CASE text \notin Bare
    <2>1. PICK a, b, c : Blocked(text, a, b, c)
      BY <1>2, BlockFound
    <2> QED
      BY <2>1, BlockOut
  <1> QED
    BY <1>1, <1>2

LEMMA TerminatedIs ==
  ASSUME NEW text \in Bare
  PROVE  /\ Terminated(text) \in Bare
         /\ Terminated(text) = <<>> \/ EndsWith(Terminated(text), "N")
         /\ Terminated(Terminated(text)) = Terminated(text)
  <1>1. "N" \in Pieces \ BlockMarks
    BY PieceAssumption DEF BlockMarks
  <1>2. CASE text = <<>> \/ EndsWith(text, "N")
    BY <1>2 DEF Terminated
  <1>3. CASE ~(text = <<>> \/ EndsWith(text, "N"))
    <2> DEFINE longer == Append(text, "N")
    <2>1. Terminated(text) = longer
      BY <1>3 DEF Terminated
    <2>2. longer \in Bare /\ EndsWith(longer, "N")
      <3>1. longer \in Bare
        BY <1>1 DEF Bare
      <3>2. longer # <<>> /\ Last(longer) = "N"
        BY <1>1, AppendIs DEF Bare
      <3> QED
        BY <3>1, <3>2 DEF EndsWith
    <2> HIDE DEF longer
    <2>3. Terminated(longer) = longer
      BY <2>2 DEF Terminated
    <2> QED
      BY <2>1, <2>2, <2>3
  <1> QED
    BY <1>2, <1>3

LEMMA BlockParts ==
  /\ <<"S">> \o <<"N", "B", "N">> = <<"S", "N", "B", "N">>
  /\ <<"E">> \o <<"N">> = <<"E", "N">>
  /\ <<"S", "N", "B", "N">> \o <<"E", "N">> = Block
  <1> DEFINE X == {"S", "N", "B", "E"}
             start == <<"S">>
             line == <<"N">>
             stop == <<"E">>
             two == <<"N", "B">>
             three == <<"N", "B", "N">>
             first == <<"S", "N">>
             second == <<"S", "N", "B">>
             third == <<"S", "N", "B", "N">>
             fourth == <<"S", "N", "B", "N", "E">>
             end == <<"E", "N">>
  <1>1. "S" \in X /\ "N" \in X /\ "B" \in X /\ "E" \in X
    OBVIOUS
  <1>2. start \in Seq(X) /\ line \in Seq(X) /\ stop \in Seq(X) /\ two \in Seq(X)
    OBVIOUS
  <1>3. third \in Seq(X)
    OBVIOUS
  <1>4. first = start \o line
    BY <1>1, TwoIs
  <1>5. end = stop \o line
    BY <1>1, TwoIs
  <1>6. two = Append(line, "B") /\ three = Append(two, "N") /\ end = Append(stop, "N")
    OBVIOUS
  <1>7. second = Append(first, "B")
    OBVIOUS
  <1>8. third = Append(second, "N")
    OBVIOUS
  <1>9. fourth = Append(third, "E")
    OBVIOUS
  <1>10. Block = Append(fourth, "N")
    BY DEF Block
  <1> HIDE DEF X, start, line, stop, two, three, first, second, third, fourth, end
  <1>11. start \o two = second
    BY <1>1, <1>2, <1>4, <1>6, <1>7, ConcatAppend
  <1>12. start \o three = third
    <2>1. start \o Append(two, "N") = Append(start \o two, "N")
      BY <1>1, <1>2, ConcatAppend
    <2> QED
      BY <1>6, <1>8, <1>11, <2>1
  <1>13. third \o stop = fourth
    <2>1. stop = <<"E">>
      BY DEF stop
    <2> QED
      BY <1>1, <1>3, <1>9, <2>1, AppendIs
  <1>14. third \o end = Block
    BY <1>1, <1>2, <1>3, <1>6, <1>10, <1>13, ConcatAppend
  <1>15. start \o three = third /\ stop \o line = end /\ third \o end = Block
    BY <1>5, <1>12, <1>14
  <1> QED
    BY <1>15 DEF start, line, stop, three, third, end

(* The block that was appended is the one that is taken out. *)
LEMMA BlockBack ==
  ASSUME NEW text \in Bare, text = <<>> \/ EndsWith(text, "N")
  PROVE  text \o Block \in PieceTexts /\ WithoutBlock(text \o Block) = text
  <1> DEFINE start == <<"S">>
             middle == <<"N", "B", "N">>
             stop == <<"E">>
             rest == <<"N">>
             whole == text \o Block
  <1>1. {"S", "E", "B", "N"} \subseteq Pieces
    BY PieceAssumption
  <1>2. "S" \in Pieces /\ "E" \in Pieces /\ "B" \in Pieces \ BlockMarks /\ "N" \in Pieces \ BlockMarks
    BY <1>1 DEF BlockMarks
  <1>3. text \in PieceTexts
    BY BareLines
  <1>4. Block \in PieceTexts
    BY <1>2 DEF Block, PieceTexts
  <1>5. whole \in PieceTexts
    BY <1>3, <1>4, ConcatIs DEF PieceTexts
  <1>6. middle \in Bare /\ middle # <<>> /\ middle[1] = "N" /\ EndsWith(middle, "N")
    <2>1. middle \in Bare /\ Len(middle) = 3 /\ middle[1] = "N" /\ middle[3] = "N"
      BY <1>2 DEF Bare
    <2> QED
      BY <2>1 DEF EndsWith, Last
  <1>7. rest \in Bare /\ rest[1] = "N" /\ After(rest) = <<>>
    <2>1. rest \in Bare /\ Len(rest) = 1 /\ rest[1] = "N"
      BY <1>2 DEF Bare
    <2> QED
      BY <2>1 DEF After
  <1>8. whole = Around(text, "S", middle, "E", rest)
    <2> DEFINE mid == <<"S", "N", "B", "N">>
               last == <<"E", "N">>
    <2>1. start \o middle = mid /\ stop \o rest = last /\ mid \o last = Block
      BY BlockParts
    <2>2. /\ start \in PieceTexts /\ middle \in PieceTexts /\ stop \in PieceTexts /\ rest \in PieceTexts
          /\ mid \in PieceTexts /\ last \in PieceTexts
      BY <1>2 DEF PieceTexts
    <2> HIDE DEF start, middle, stop, rest, mid, last
    <2>3. \A x, y, z \in PieceTexts : Cat(x, y) \in PieceTexts /\ Cat(Cat(x, y), z) = Cat(x, Cat(y, z))
      BY CatIs DEF PieceTexts
    <2>4. Cat(start, middle) = mid /\ Cat(stop, rest) = last /\ Cat(mid, last) = Block
      BY <2>1 DEF Cat
    <2>5. Cat(Cat(Cat(Cat(text, start), middle), stop), rest) = Cat(text, Block)
      <3>1. Cat(Cat(text, start), middle) = Cat(text, mid) /\ Cat(text, mid) \in PieceTexts
        BY <1>3, <2>2, <2>3, <2>4
      <3>2. Cat(Cat(Cat(text, mid), stop), rest) = Cat(Cat(text, mid), last)
        BY <2>2, <2>3, <2>4, <3>1
      <3>3. Cat(Cat(text, mid), last) = Cat(text, Block)
        BY <1>3, <2>2, <2>3, <2>4
      <3> QED
        BY <3>1, <3>2, <3>3
    <2> QED
      BY <2>5 DEF Cat, Around, start, stop
  <1> HIDE DEF whole, middle, rest
  <1>9. Blocked(whole, text, middle, rest)
    BY <1>6, <1>7, <1>8 DEF Blocked
  <1>10. WithoutBlock(whole) = text \o After(rest)
    BY <1>5, <1>9, BlockOut
  <1>11. text \o <<>> = text
    BY <1>3, ConcatEmptySeq DEF PieceTexts
  <1> QED
    BY <1>5, <1>7, <1>10, <1>11 DEF whole

LEMMA BlockKept ==
  ASSUME NEW text \in PieceTexts, NEW installed, installed = EditStartup(text, TRUE)
  PROVE  /\ UserText(text) = Refused => installed = Refused
         /\ UserText(text) # Refused =>
              /\ installed # Refused
              /\ installed = Terminated(UserText(text)) \o Block
              /\ EditStartup(installed, TRUE) = installed
              /\ EditStartup(installed, FALSE) = Terminated(UserText(text))
  <1>1. UserText(text) = WithoutBlock(text)
    BY UserIs
  <1>2. CASE WithoutBlock(text) = Refused
    BY <1>1, <1>2 DEF EditStartup
  <1>3. CASE WithoutBlock(text) # Refused
    <2> DEFINE own == WithoutBlock(text)
               restored == Terminated(own)
               whole == restored \o Block
    <2>1. installed = whole
      BY <1>3 DEF EditStartup
    <2>2. own \in Bare
      BY <1>3, LeftBare
    <2>3. restored \in Bare /\ (restored = <<>> \/ EndsWith(restored, "N")) /\ Terminated(restored) = restored
      BY <2>2, TerminatedIs
    <2>4. whole \in PieceTexts /\ WithoutBlock(whole) = restored
      BY <2>3, BlockBack
    <2>5. whole # Refused /\ restored # Refused
      <3>1. restored \in PieceTexts
        BY <2>3, BareLines
      <3> QED
        BY <2>4, <3>1, PieceAssumption DEF PieceTexts
    <2>6. EditStartup(whole, TRUE) = whole /\ EditStartup(whole, FALSE) = restored
      <3>1. whole = restored \o Block
        OBVIOUS
      <3> HIDE DEF whole, restored
      <3> QED
        BY <2>3, <2>4, <2>5, <3>1 DEF EditStartup
    <2> QED
      BY <1>1, <1>3, <2>1, <2>5, <2>6
  <1> QED
    BY <1>2, <1>3

(* edit_startup, for every startup file: nothing is changed when the       *)
(* block cannot be told from what the user wrote, installing twice is      *)
(* installing once, and uninstalling gives back what the user wrote.       *)
THEOREM ShellComesBack == ShellSpec => []ShellRestored
  <1> DEFINE Restored(w) ==
               w.task = "shell" =>
                 LET own == UserText(w.input) IN
                 IF own = Refused THEN w.output.installed = Refused
                 ELSE LET restored == Terminated(own) IN
                      w.output = [installed |-> restored \o Block,
                                  again |-> restored \o Block, removed |-> restored]
  <1>0. ShellRestored = Restored(work) /\ ShellRestored' = Restored(work')
    BY Zenon DEF ShellRestored
  <1>1. work = Idle => ShellRestored
    BY DEF Idle, ShellRestored
  <1>2. ASSUME ShellRestored, [EditShell]_work PROVE ShellRestored'
    <2>1. CASE UNCHANGED work
      <3> HIDE DEF Restored
      <3> QED
        BY <1>0, <1>2, <2>1
    <2>2. CASE EditShell
      <3> DEFINE Result(i) == [installed |-> i,
                               again   |-> IF i = Refused THEN Refused ELSE EditStartup(i, TRUE),
                               removed |-> IF i = Refused THEN Refused ELSE EditStartup(i, FALSE)]
      <3>1. PICK text \in Startups :
              work' = [task |-> "shell", input |-> text, output |-> Result(EditStartup(text, TRUE))]
        BY <2>2, Zenon DEF EditShell, Evaluate
      <3> DEFINE installed == EditStartup(text, TRUE)
                 own == UserText(text)
                 restored == Terminated(own)
                 whole == restored \o Block
      <3>2. text \in PieceTexts
        BY PieceAssumption DEF PieceTexts
      <3>3. /\ own = Refused => installed = Refused
            /\ own # Refused => /\ installed # Refused /\ installed = whole
                                /\ EditStartup(installed, TRUE) = installed
                                /\ EditStartup(installed, FALSE) = restored
        BY <3>2, BlockKept
      <3>4. work'.input = text /\ work'.output = Result(installed)
        BY <3>1
      <3> HIDE DEF installed
      <3>5. own = Refused => work'.output.installed = Refused
        BY <3>3, <3>4
      <3>6. own # Refused => work'.output = [installed |-> whole, again |-> whole, removed |-> restored]
        <4> HIDE DEF own, restored, whole
        <4> QED
          BY <3>3, <3>4
      <3>7. Restored(work')
        <4>1. UserText(work'.input) = own
          BY <3>4
        <4> HIDE DEF own
        <4> QED
          BY <3>5, <3>6, <4>1
      <3> HIDE DEF Restored
      <3> QED
        BY <1>0, <3>7
    <2> QED
      BY <1>2, <2>1, <2>2
  <1> QED
    BY <1>1, <1>2, PTL DEF ShellSpec
=============================================================================
