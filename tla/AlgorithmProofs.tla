-------------------------- MODULE AlgorithmProofs --------------------------
(***************************************************************************)
(* Four of the algorithms for every input: the delays between attempts,    *)
(* the names of the targets of a profile, the hosts that the user has      *)
(* declared by hand, and the redaction of what an export contains.         *)
(***************************************************************************)
EXTENDS Schedule, Aliases, ManualHosts, Diagnostics, TextProofs

(* Powers grow: a set with more elements has more subsets. *)
LEMMA PowersGrow ==
  ASSUME NEW m \in Nat, NEW n \in Nat, m <= n
  PROVE  2 ^ m \in Nat /\ 2 ^ n \in Nat /\ 2 ^ m <= 2 ^ n
  <1>1. /\ IsFiniteSet(1 .. m) /\ IsFiniteSet(1 .. n)
        /\ Cardinality(1 .. m) = m /\ Cardinality(1 .. n) = n
    BY FS_Interval
  <1>2. /\ IsFiniteSet(SUBSET (1 .. m)) /\ IsFiniteSet(SUBSET (1 .. n))
        /\ Cardinality(SUBSET (1 .. m)) = 2 ^ m
        /\ Cardinality(SUBSET (1 .. n)) = 2 ^ n
    BY <1>1, FS_SUBSET
  <1>3. SUBSET (1 .. m) \in SUBSET (SUBSET (1 .. n))
    <2>1. 1 .. m \subseteq 1 .. n
      OBVIOUS
    <2> QED
      BY <2>1
  <1>4. Cardinality(SUBSET (1 .. m)) <= Cardinality(SUBSET (1 .. n))
    BY <1>2, <1>3, FS_Subset
  <1>5. Cardinality(SUBSET (1 .. m)) \in Nat /\ Cardinality(SUBSET (1 .. n)) \in Nat
    BY <1>2, FS_CardinalityType
  <1> QED
    BY <1>2, <1>4, <1>5

LEMMA LeastIs ==
  ASSUME NEW m \in Nat, NEW n \in Nat
  PROVE  /\ Least(m, n) \in Nat
         /\ Least(m, n) <= m /\ Least(m, n) <= n
         /\ m <= n => Least(m, n) = m
         /\ n <= m => Least(m, n) = n
  BY DEF Least

LEMMA ProductsGrow ==
  ASSUME NEW a \in Nat, NEW m \in Nat, NEW n \in Nat, m <= n
  PROVE  a * m \in Nat /\ a * n \in Nat /\ a * m <= a * n
  <1>1. PICK d \in Nat : n = m + d
    OBVIOUS
  <1>2. a * n = a * m + a * d /\ a * d \in Nat
    BY <1>1
  <1> QED
    BY <1>2

(* The delay after f failures before the maximum and after it *)
LEMMA RetryDelayIs ==
  ASSUME NEW s \in Schedules, NEW f \in Nat \ {0}
  PROVE  \E b \in Nat :
           /\ b = Least(f - 1, Bits - 1) /\ b <= f - 1 /\ b <= Bits - 1
           /\ 2 ^ b \in Nat /\ s.initial * 2 ^ b \in Nat
           /\ RetryDelay(s, f) = Least(Least(s.initial * 2 ^ b, Longest), s.maximum)
  <1> DEFINE b == Least(f - 1, Bits - 1)
  <1>1. f - 1 \in Nat /\ Bits - 1 \in Nat
    BY ScheduleAssumption
  <1>2. b \in Nat /\ b <= f - 1 /\ b <= Bits - 1
    BY <1>1, LeastIs
  <1>3. 2 ^ b \in Nat
    BY <1>2, PowersGrow
  <1>4. s.initial \in Nat
    BY ScheduleAssumption
  <1>5. s.initial * 2 ^ b \in Nat
    BY <1>3, <1>4, ProductsGrow
  <1>6. RetryDelay(s, f) = Least(Least(s.initial * 2 ^ b, Longest), s.maximum)
    BY DEF RetryDelay, SaturatingMul
  <1> QED
    BY <1>2, <1>3, <1>5, <1>6

(* It doubles while the multiplier can, and is never longer than that, nor *)
(* longer than the maximum.                                                *)
LEMMA RetryBounded ==
  ASSUME NEW s \in Schedules, NEW f \in Nat \ {0}
  PROVE  /\ RetryDelay(s, f) <= s.maximum
         /\ RetryDelay(s, f) <= s.initial * 2 ^ (f - 1)
         /\ s.maximum <= s.initial * 2 ^ (Bits - 1) =>
              RetryDelay(s, f) = Least(s.initial * 2 ^ (f - 1), s.maximum)
  <1>1. PICK b \in Nat :
          /\ b = Least(f - 1, Bits - 1) /\ b <= f - 1 /\ b <= Bits - 1
          /\ 2 ^ b \in Nat /\ s.initial * 2 ^ b \in Nat
          /\ RetryDelay(s, f) = Least(Least(s.initial * 2 ^ b, Longest), s.maximum)
    BY RetryDelayIs
  <1>2. /\ s.initial \in Nat /\ s.maximum \in Nat /\ Longest \in Nat
        /\ s.maximum <= Longest /\ f - 1 \in Nat /\ Bits - 1 \in Nat
    BY ScheduleAssumption
  <1>3. 2 ^ (f - 1) \in Nat /\ 2 ^ b <= 2 ^ (f - 1)
    BY <1>1, <1>2, PowersGrow
  <1>4. s.initial * 2 ^ (f - 1) \in Nat /\ s.initial * 2 ^ b <= s.initial * 2 ^ (f - 1)
    BY <1>1, <1>2, <1>3, ProductsGrow
  <1>5. Least(s.initial * 2 ^ b, Longest) \in Nat
        /\ Least(s.initial * 2 ^ b, Longest) <= s.initial * 2 ^ b
    BY <1>1, <1>2, LeastIs
  <1>6. ASSUME s.maximum <= s.initial * 2 ^ (Bits - 1)
        PROVE  RetryDelay(s, f) = Least(s.initial * 2 ^ (f - 1), s.maximum)
    <2>1. RetryDelay(s, f) = Least(s.initial * 2 ^ b, s.maximum)
      <3> HIDE DEF RetryDelay
      <3> DEFINE x == s.initial * 2 ^ b
      <3>1. x \in Nat /\ s.maximum <= Longest
        BY <1>1, <1>2
      <3>2. Least(Least(x, Longest), s.maximum) = Least(x, s.maximum)
        <4> HIDE DEF x
        <4> QED
          BY <3>1, <1>2 DEF Least
      <3> QED
        BY <1>1, <3>2
    <2>2. CASE f - 1 <= Bits - 1
      <3>1. b = f - 1
        BY <2>2, <1>1, <1>2, LeastIs
      <3> QED
        BY <2>1, <3>1
    <2>3. CASE Bits - 1 <= f - 1
      <3>1. b = Bits - 1
        BY <2>3, <1>1, <1>2, LeastIs
      <3> DEFINE x == s.initial * 2 ^ b
                 y == s.initial * 2 ^ (f - 1)
      <3>2. x \in Nat /\ y \in Nat /\ x <= y /\ s.maximum <= x
        BY <1>1, <1>4, <1>6, <3>1
      <3> HIDE DEF x, y
      <3>3. Least(x, s.maximum) = s.maximum /\ Least(y, s.maximum) = s.maximum
        BY <3>2, <1>2 DEF Least
      <3> QED
        BY <2>1, <3>3 DEF x, y
    <2> QED
      BY <2>2, <2>3, <1>2
  <1>7. RetryDelay(s, f) <= s.maximum /\ RetryDelay(s, f) <= s.initial * 2 ^ (f - 1)
    <2> DEFINE x == s.initial * 2 ^ b
               y == s.initial * 2 ^ (f - 1)
               l == Least(x, Longest)
    <2>1. x \in Nat /\ y \in Nat /\ x <= y /\ l \in Nat /\ l <= x
      BY <1>1, <1>4, <1>5
    <2>2. RetryDelay(s, f) = Least(l, s.maximum)
      BY <1>1
    <2> HIDE DEF x, y, l
    <2>3. RetryDelay(s, f) \in Nat /\ RetryDelay(s, f) <= l /\ RetryDelay(s, f) <= s.maximum
      BY <2>1, <2>2, <1>2 DEF Least
    <2>4. RetryDelay(s, f) <= y
      BY <2>1, <2>3
    <2> QED
      BY <2>3, <2>4 DEF y
  <1> QED
    BY <1>6, <1>7

(* More failures never make it shorter. *)
LEMMA RetryGrows ==
  ASSUME NEW s \in Schedules, NEW f \in Nat
  PROVE  RetryDelay(s, f) <= RetryDelay(s, f + 1)
  <1>1. PICK c \in Nat :
          /\ c = Least(f + 1 - 1, Bits - 1) /\ 2 ^ c \in Nat /\ s.initial * 2 ^ c \in Nat
          /\ RetryDelay(s, f + 1) = Least(Least(s.initial * 2 ^ c, Longest), s.maximum)
    BY RetryDelayIs
  <1>2. /\ s.initial \in Nat /\ s.maximum \in Nat /\ Longest \in Nat /\ Bits - 1 \in Nat
    BY ScheduleAssumption
  <1>3. RetryDelay(s, f + 1) \in Nat
    <2> DEFINE l == Least(s.initial * 2 ^ c, Longest)
    <2>1. l \in Nat /\ RetryDelay(s, f + 1) = Least(l, s.maximum)
      BY <1>1, <1>2, LeastIs
    <2> HIDE DEF l
    <2> QED
      BY <2>1, <1>2 DEF Least
  <1>4. CASE f = 0
    <2>1. RetryDelay(s, f) = 0
      BY <1>4 DEF RetryDelay
    <2> QED
      BY <2>1, <1>3
  <1>5. CASE f # 0
    <2>1. PICK b \in Nat :
            /\ b = Least(f - 1, Bits - 1) /\ 2 ^ b \in Nat /\ s.initial * 2 ^ b \in Nat
            /\ RetryDelay(s, f) = Least(Least(s.initial * 2 ^ b, Longest), s.maximum)
      BY <1>5, RetryDelayIs
    <2>2. b <= c
      BY <1>1, <1>2, <1>5, <2>1 DEF Least
    <2>3. s.initial * 2 ^ b <= s.initial * 2 ^ c
      <3>1. 2 ^ b <= 2 ^ c
        BY <2>2, PowersGrow
      <3> QED
        BY <3>1, <1>1, <1>2, <2>1, ProductsGrow
    <2> DEFINE x == s.initial * 2 ^ b
               y == s.initial * 2 ^ c
    <2>4. x \in Nat /\ y \in Nat /\ x <= y
      BY <1>1, <2>1, <2>3
    <2>5. /\ RetryDelay(s, f) = Least(Least(x, Longest), s.maximum)
          /\ RetryDelay(s, f + 1) = Least(Least(y, Longest), s.maximum)
      BY <1>1, <2>1
    <2> HIDE DEF x, y
    <2>6. Least(Least(x, Longest), s.maximum) <= Least(Least(y, Longest), s.maximum)
      BY <1>2, <2>4 DEF Least
    <2> QED
      BY <2>5, <2>6
  <1> QED
    BY <1>4, <1>5

(* The period stays within its jitter. *)
LEMMA PeriodBounded ==
  ASSUME NEW s \in Schedules, NEW seed \in Nat, s.jitter <= s.interval
  PROVE  PeriodicDelay(s, seed) \in s.interval - s.jitter .. s.interval + s.jitter
  <1>1. /\ s.interval \in Nat /\ s.jitter \in Nat /\ Longest \in Nat \ {0}
        /\ s.interval <= Longest
    BY ScheduleAssumption
  <1>2. CASE s.jitter = 0
    BY <1>1, <1>2 DEF PeriodicDelay
  <1>3. CASE s.jitter # 0
    <2> DEFINE width == SaturatingAdd(SaturatingMul(s.jitter, 2), 1)
    <2>1. width \in Nat \ {0} /\ width <= 2 * s.jitter + 1
      BY <1>1 DEF SaturatingAdd, SaturatingMul, Least
    <2>2. PeriodicDelay(s, seed)
            = SaturatingAdd(SaturatingSub(s.interval, s.jitter), seed % width)
      BY <1>3 DEF PeriodicDelay
    <2> HIDE DEF width
    <2>3. seed % width \in 0 .. width - 1
      BY <2>1
    <2> DEFINE offset == seed % width
    <2>4. offset \in Nat /\ offset <= 2 * s.jitter
      BY <1>1, <2>1, <2>3
    <2>5. PeriodicDelay(s, seed) = SaturatingAdd(SaturatingSub(s.interval, s.jitter), offset)
      BY <2>2
    <2> HIDE DEF offset
    <2> QED
      BY <1>1, <2>4, <2>5 DEF SaturatingAdd, SaturatingSub, Least
  <1> QED
    BY <1>2, <1>3

(* retry_delay and periodic_delay keep their promises for every schedule,  *)
(* every number of failures and every width of the arithmetic.             *)
THEOREM DelaysWithinBounds == DelaySpec => []DelaysBounded
  <1>1. work = Idle => DelaysBounded
    BY DEF Idle, DelaysBounded
  <1>2. ASSUME DelaysBounded, [Delay]_work PROVE DelaysBounded'
    <2>1. CASE UNCHANGED work
      BY <1>2, <2>1 DEF DelaysBounded
    <2>2. CASE Delay
      <3>1. PICK s \in Schedules, f \in 0 .. MaxFailures, seed \in 0 .. Longest :
              work' = [task |-> "delay",
                       input |-> [schedule |-> s, failures |-> f, seed |-> seed],
                       output |-> [retry |-> RetryDelay(s, f),
                                   next  |-> RetryDelay(s, f + 1),
                                   periodic |-> PeriodicDelay(s, seed)]]
        BY <2>2 DEF Delay, Evaluate
      <3>2. /\ work'.input.schedule = s /\ work'.input.failures = f
            /\ work'.output.retry = RetryDelay(s, f)
            /\ work'.output.next = RetryDelay(s, f + 1)
            /\ work'.output.periodic = PeriodicDelay(s, seed)
        BY <3>1
      <3>3. f \in Nat /\ seed \in Nat
        BY ScheduleAssumption
      <3>4. f > 0 => /\ RetryDelay(s, f) <= s.maximum
                     /\ RetryDelay(s, f) <= s.initial * 2 ^ (f - 1)
                     /\ s.maximum <= s.initial * 2 ^ (Bits - 1) =>
                          RetryDelay(s, f) = Least(s.initial * 2 ^ (f - 1), s.maximum)
        BY <3>3, RetryBounded
      <3>5. RetryDelay(s, f) <= RetryDelay(s, f + 1)
        BY <3>3, RetryGrows
      <3>6. s.jitter <= s.interval =>
              PeriodicDelay(s, seed) \in s.interval - s.jitter .. s.interval + s.jitter
        BY <3>3, PeriodBounded
      <3> QED
        BY <3>2, <3>4, <3>5, <3>6 DEF DelaysBounded
    <2> QED
      BY <1>2, <2>1, <2>2
  <1> QED
    BY <1>1, <1>2, PTL DEF DelaySpec

-----------------------------------------------------------------------------
(* Texts that are put together *)
LEMMA MarkIsText ==
  ASSUME NEW mark \in Characters
  PROVE  <<mark>> \in Seq(Characters)
  OBVIOUS

LEMMA Joined ==
  ASSUME NEW a \in Seq(Characters), NEW s \in Seq(Characters)
  PROVE  /\ a \o s \in Seq(Characters) /\ Len(a \o s) = Len(a) + Len(s)
         /\ \A i \in 1 .. Len(a) : (a \o s)[i] = a[i]
         /\ \A i \in 1 .. Len(s) : (a \o s)[Len(a) + i] = s[i]
  <1>1. /\ a \o s \in Seq(Characters) /\ Len(a \o s) = Len(a) + Len(s)
        /\ \A i \in 1 .. Len(a) + Len(s) :
             (a \o s)[i] = IF i <= Len(a) THEN a[i] ELSE s[i - Len(a)]
    BY ConcatProperties
  <1>2. Len(a) \in Nat /\ Len(s) \in Nat
    OBVIOUS
  <1>3. ASSUME NEW i \in 1 .. Len(a) PROVE (a \o s)[i] = a[i]
    <2>1. i \in 1 .. Len(a) + Len(s) /\ i <= Len(a)
      BY <1>2
    <2> QED
      BY <1>1, <2>1
  <1>4. ASSUME NEW i \in 1 .. Len(s) PROVE (a \o s)[Len(a) + i] = s[i]
    <2>1. Len(a) + i \in 1 .. Len(a) + Len(s) /\ ~(Len(a) + i <= Len(a))
          /\ Len(a) + i - Len(a) = i
      BY <1>2
    <2> QED
      BY <1>1, <2>1
  <1> QED
    BY <1>1, <1>3, <1>4

LEMMA FrontIsText ==
  ASSUME NEW a \in Seq(Characters)
  PROVE  Front(a) \in Seq(Characters)
  <1>1. \A i \in 1 .. Len(a) - 1 : a[i] \in Characters
    OBVIOUS
  <1>2. Len(a) - 1 \in Int
    OBVIOUS
  <1>3. SubSeq(a, 1, Len(a) - 1) \in Seq(Characters)
    BY <1>1, <1>2, SubSeqProperties
  <1> QED
    BY <1>3 DEF Front

(* Texts that differ in letter case only *)
LEMMA SameIs ==
  ASSUME NEW a \in Seq(Characters), NEW b \in Seq(Characters)
  PROVE  Same(a, b) <=> /\ Len(a) = Len(b)
                        /\ \A i \in 1 .. Len(a) : LowerOf(a[i]) = LowerOf(b[i])
  <1>1. /\ LowerCase(a) = [i \in 1 .. Len(a) |-> LowerOf(a[i])]
        /\ LowerCase(b) = [i \in 1 .. Len(b) |-> LowerOf(b[i])]
    BY DEF LowerCase
  <1>2. ASSUME Same(a, b) PROVE Len(a) = Len(b)
    <2>1. DOMAIN LowerCase(a) = DOMAIN LowerCase(b)
      BY <1>2 DEF Same
    <2>2. 1 .. Len(a) = 1 .. Len(b)
      BY <1>1, <2>1
    <2> QED
      BY <2>2
  <1>3. ASSUME Same(a, b), NEW i \in 1 .. Len(a) PROVE LowerOf(a[i]) = LowerOf(b[i])
    <2>1. LowerCase(a)[i] = LowerCase(b)[i] /\ i \in 1 .. Len(b)
      BY <1>2, <1>3 DEF Same
    <2> QED
      BY <1>1, <2>1
  <1>4. ASSUME Len(a) = Len(b), \A i \in 1 .. Len(a) : LowerOf(a[i]) = LowerOf(b[i])
        PROVE  Same(a, b)
    BY <1>1, <1>4 DEF Same
  <1> QED
    BY <1>2, <1>3, <1>4

(* Ends of the same length are compared by themselves. *)
LEMMA EndsCompared ==
  ASSUME NEW a \in Seq(Characters), NEW b \in Seq(Characters),
         NEW s \in Seq(Characters), NEW t \in Seq(Characters),
         Len(s) = Len(t), Same(a \o s, b \o t)
  PROVE  Same(a, b) /\ Same(s, t)
  <1>1. /\ a \o s \in Seq(Characters) /\ b \o t \in Seq(Characters)
        /\ Len(a \o s) = Len(a) + Len(s) /\ Len(b \o t) = Len(b) + Len(t)
        /\ \A i \in 1 .. Len(a) : (a \o s)[i] = a[i]
        /\ \A i \in 1 .. Len(b) : (b \o t)[i] = b[i]
        /\ \A i \in 1 .. Len(s) : (a \o s)[Len(a) + i] = s[i]
        /\ \A i \in 1 .. Len(t) : (b \o t)[Len(b) + i] = t[i]
    BY Joined
  <1>2. /\ Len(a \o s) = Len(b \o t)
        /\ \A i \in 1 .. Len(a \o s) : LowerOf((a \o s)[i]) = LowerOf((b \o t)[i])
    BY <1>1, SameIs
  <1>3. /\ Len(a) \in Nat /\ Len(b) \in Nat /\ Len(s) \in Nat /\ Len(a) = Len(b)
    BY <1>1, <1>2
  <1>4. ASSUME NEW i \in 1 .. Len(a) PROVE LowerOf(a[i]) = LowerOf(b[i])
    <2>1. i \in 1 .. Len(a \o s) /\ i \in 1 .. Len(b)
      BY <1>1, <1>3
    <2> QED
      BY <1>1, <1>2, <2>1
  <1>5. ASSUME NEW i \in 1 .. Len(s) PROVE LowerOf(s[i]) = LowerOf(t[i])
    <2>1. Len(a) + i \in 1 .. Len(a \o s) /\ i \in 1 .. Len(t)
      BY <1>1, <1>3
    <2>2. LowerOf((a \o s)[Len(a) + i]) = LowerOf((b \o t)[Len(b) + i])
      BY <1>2, <1>3, <2>1
    <2> QED
      BY <1>1, <2>1, <2>2
  <1> QED
    BY <1>3, <1>4, <1>5, SameIs

-----------------------------------------------------------------------------
(* What a name is turned into is made of letters, digits and hyphens. *)
NamePieces == Alnums \union {"-"}
AliasTexts == Seq(NamePieces)
NameTexts  == Seq(Characters)

LEMMA NamePiecesAre ==
  /\ NamePieces \subseteq Characters /\ Alnums \subseteq NamePieces
  /\ AliasTexts \subseteq NameTexts
  /\ "-" \notin Alnums /\ "-" \in NamePieces
  /\ \A c \in Alnums : LowerOf(c) \in Alnums
  <1>1. NamePieces \subseteq Characters /\ Alnums \subseteq NamePieces /\ "-" \in NamePieces
    BY CharacterAssumption DEF NamePieces
  <1>2. AliasTexts \subseteq NameTexts
    BY <1>1, SeqMonotonic DEF AliasTexts, NameTexts
  <1>3. DOMAIN Lowered = {"A", "B"} /\ Lowered["A"] = "a" /\ Lowered["B"] = "b"
    BY DEF Lowered
  <1>4. Alnums = {"a", "b", "l", "s", "A", "B", "0"}
    BY <1>3 DEF Alnums, Letters
  <1> QED
    BY <1>1, <1>2, <1>3, <1>4 DEF LowerOf

LEMMA AddCharacterIn ==
  ASSUME NEW out \in AliasTexts, NEW c \in Characters
  PROVE  AddCharacter(out, c) \in AliasTexts
  <1>1. Append(out, "-") \in AliasTexts /\ (c \in Alnums => Append(out, LowerOf(c)) \in AliasTexts)
    BY NamePiecesAre DEF AliasTexts
  <1> QED
    BY <1>1 DEF AddCharacter

LEMMA NormalizedFold ==
  /\ Normalized(<<>>) = <<>>
  /\ \A name \in NameTexts : Normalized(name) \in AliasTexts
  /\ \A name \in NameTexts, c \in Characters :
       Normalized(Append(name, c)) = AddCharacter(Normalized(name), c)
  <1> DEFINE step == [out \in AliasTexts |-> [c \in Characters |-> AddCharacter(out, c)]]
  <1>1. step \in Stepper(AliasTexts, Characters)
    BY AddCharacterIn DEF Stepper
  <1>2. \A out \in AliasTexts, c \in Characters : step[out][c] = AddCharacter(out, c)
    OBVIOUS
  <1> HIDE DEF step
  <1>3. <<>> \in AliasTexts
    BY DEF AliasTexts
  <1>4. ASSUME NEW name \in NameTexts PROVE Normalized(name) = Fold(step, <<>>, name)
    <2> DEFINE n == Len(name)
               out[i \in 0 .. Len(name)] ==
                 IF i = 0 THEN <<>> ELSE AddCharacter(out[i - 1], name[i])
    <2>1. Normalized(name) = out[n]
      BY DEF Normalized
    <2>2. n \in Nat /\ \A i \in 1 .. n : name[i] \in Characters
      BY DEF NameTexts
    <2>3. Folding(AliasTexts, step, <<>>, name)
      BY <1>1, <1>3, FoldExists DEF NameTexts
    <2>4. PICK f \in [0 .. n -> AliasTexts] : FoldsBy(f, step, <<>>, name)
      BY <2>3 DEF Folding
    <2>5. f = [i \in 0 .. n |-> IF i = 0 THEN <<>> ELSE AddCharacter(f[i - 1], name[i])]
      <3> HIDE DEF n
      <3>1. ASSUME NEW i \in 0 .. n, i # 0 PROVE f[i] = AddCharacter(f[i - 1], name[i])
        <4>1. i \in 1 .. n /\ i - 1 \in 0 .. n
          BY <2>2, <3>1
        <4>2. f[i] = step[f[i - 1]][name[i]]
          BY <2>4, <4>1 DEF FoldsBy, n
        <4>3. f[i - 1] \in AliasTexts
          BY <4>1
        <4> QED
          BY <1>2, <2>2, <4>1, <4>2, <4>3
      <3>2. f[0] = <<>>
        BY <2>4 DEF FoldsBy
      <3> QED
        BY <3>1, <3>2
    <2>6. out = [i \in 0 .. n |-> IF i = 0 THEN <<>> ELSE AddCharacter(out[i - 1], name[i])]
      BY <2>5
    <2> HIDE DEF out, n
    <2>7. out[0] = <<>> /\ DOMAIN out = 0 .. n
          /\ \A i \in 1 .. n : out[i] = AddCharacter(out[i - 1], name[i])
      <3>1. \A i \in 1 .. n : i \in 0 .. n /\ i # 0
        BY <2>2
      <3>2. 0 \in 0 .. n
        BY <2>2
      <3> QED
        BY <2>6, <3>1, <3>2
    <2>8. \A i \in 1 .. n : out[i - 1] \in AliasTexts => out[i] = step[out[i - 1]][name[i]]
      BY <1>2, <2>2, <2>7
    <2> QED
      BY <1>1, <1>3, <2>1, <2>7, <2>8, LoopIs DEF NameTexts, n
  <1>5. /\ Fold(step, <<>>, <<>>) = <<>>
        /\ \A name \in NameTexts : Fold(step, <<>>, name) \in AliasTexts
        /\ \A name \in NameTexts, c \in Characters :
             Fold(step, <<>>, Append(name, c)) = step[Fold(step, <<>>, name)][c]
    BY <1>1, <1>3, FoldGrows DEF NameTexts
  <1>6. <<>> \in NameTexts /\ \A name \in NameTexts, c \in Characters : Append(name, c) \in NameTexts
    BY DEF NameTexts
  <1> QED
    BY <1>2, <1>4, <1>5, <1>6

(* The letters and digits of a name, and those of a name that is one       *)
(* character longer                                                        *)
LEMMA KeptIs ==
  ASSUME NEW name \in NameTexts
  PROVE  /\ Kept(name) \subseteq 1 .. Len(name) /\ Starts(name) \subseteq Kept(name)
         /\ IsFiniteSet(Kept(name)) /\ IsFiniteSet(Starts(name))
         /\ Cardinality(Kept(name)) \in Nat /\ Cardinality(Starts(name)) \in Nat
  <1>1. Kept(name) \subseteq 1 .. Len(name) /\ Starts(name) \subseteq Kept(name)
    BY DEF Kept, Starts, NameTexts
  <1>2. IsFiniteSet(1 .. Len(name))
    BY FS_Interval DEF NameTexts
  <1>3. IsFiniteSet(Kept(name)) /\ IsFiniteSet(Starts(name))
    BY <1>1, <1>2, FS_Subset
  <1> QED
    BY <1>1, <1>3, FS_CardinalityType

LEMMA KeptGrows ==
  ASSUME NEW name \in NameTexts, NEW c \in Characters
  PROVE  LET longer == Append(name, c)
             n == Len(name) + 1
         IN /\ longer \in NameTexts /\ longer[n] = c
            /\ \A i \in Kept(name) : longer[i] = name[i]
            /\ n \notin Kept(name)
            /\ c \notin Alnums => Kept(longer) = Kept(name) /\ Starts(longer) = Starts(name)
            /\ c \in Alnums =>
                 /\ Kept(longer) = Kept(name) \union {n}
                 /\ Starts(longer) = Starts(name) \union
                      {i \in {n} : Kept(name) # {} /\ Len(name) \notin Kept(name)}
  <1> DEFINE longer == Append(name, c)
             m == Len(name)
             n == m + 1
  <1>1. /\ longer \in NameTexts /\ DOMAIN longer = 1 .. n /\ longer[n] = c /\ m \in Nat
        /\ \A i \in 1 .. m : longer[i] = name[i]
        /\ DOMAIN name = 1 .. m
    BY AppendProperties DEF NameTexts
  <1> HIDE DEF longer, m
  <1>2. Kept(longer) = Kept(name) \union {i \in {n} : c \in Alnums}
    <2>1. ASSUME NEW i PROVE i \in 1 .. n <=> i \in 1 .. m \/ i = n
      BY <1>1
    <2> QED
      BY <1>1, <2>1 DEF Kept
  <1>3. Kept(name) \subseteq 1 .. m
    BY <1>1 DEF Kept
  <1>4. n \notin Kept(name) /\ \A i \in Kept(name) : longer[i] = name[i]
    BY <1>1, <1>3
  <1>5. Starts(longer) = Starts(name) \union
          {i \in {n} : c \in Alnums /\ Kept(name) # {} /\ m \notin Kept(name)}
    <2>1. ASSUME NEW i \in Kept(name)
          PROVE  /\ i - 1 \in Kept(longer) <=> i - 1 \in Kept(name)
                 /\ (\E j \in Kept(longer) : j < i) <=> (\E j \in Kept(name) : j < i)
      <3>1. i \in 1 .. m /\ i - 1 # n /\ ~(n < i)
        BY <1>1, <1>3
      <3> QED
        BY <1>2, <3>1
    <2>2. \A i \in Kept(name) : i \in Starts(longer) <=> i \in Starts(name)
      BY <1>2, <2>1 DEF Starts
    <2>3. c \in Alnums => (n \in Starts(longer) <=> Kept(name) # {} /\ m \notin Kept(name))
      <3>1. n - 1 = m /\ m # n /\ ~(n < n) /\ \A j \in Kept(name) : j < n
        BY <1>1, <1>3
      <3> QED
        BY <1>2, <3>1 DEF Starts
    <2>4. \A i \in Starts(longer) : i \in Kept(longer)
      BY DEF Starts
    <2>5. \A i \in Starts(name) : i \in Kept(name)
      BY DEF Starts
    <2>6. ASSUME NEW i
          PROVE  i \in Starts(longer) <=> \/ i \in Starts(name)
                   \/ (i = n /\ c \in Alnums /\ Kept(name) # {} /\ m \notin Kept(name))
      <3>1. CASE i \in Kept(name)
        BY <1>4, <2>2, <3>1
      <3>2. CASE i = n
        BY <1>2, <1>4, <2>3, <2>4, <2>5, <3>2
      <3>3. CASE i \notin Kept(name) /\ i # n
        BY <1>2, <2>4, <2>5, <3>3
      <3> QED
        BY <3>1, <3>2, <3>3
    <2> QED
      BY <2>6
  <1> QED
    BY <1>1, <1>2, <1>4, <1>5 DEF longer, m

LEMMA PlacesKept ==
  ASSUME NEW name \in NameTexts, NEW c \in Characters
  PROVE  LET longer == Append(name, c)
             n == Len(name) + 1
         IN /\ \A i \in Kept(name) : PlaceOf(longer, i) = PlaceOf(name, i)
            /\ c \in Alnums =>
                 /\ Cardinality(Kept(longer)) = Cardinality(Kept(name)) + 1
                 /\ PlaceOf(longer, n) = Cardinality(Kept(longer)) + Cardinality(Starts(longer))
            /\ c \in Alnums /\ (Kept(name) = {} \/ Len(name) \in Kept(name)) =>
                 Cardinality(Starts(longer)) = Cardinality(Starts(name)) /\ n \notin Starts(longer)
            /\ c \in Alnums /\ Kept(name) # {} /\ Len(name) \notin Kept(name) =>
                 Cardinality(Starts(longer)) = Cardinality(Starts(name)) + 1
  <1> DEFINE longer == Append(name, c)
             m == Len(name)
             n == m + 1
             kept == Kept(name)
             starts == Starts(name)
             kept1 == Kept(longer)
             starts1 == Starts(longer)
  <1>1. m \in Nat /\ kept \subseteq 1 .. m /\ starts \subseteq kept /\ n \notin kept /\ n \notin starts
        /\ IsFiniteSet(kept) /\ IsFiniteSet(starts)
        /\ Cardinality(kept) \in Nat /\ Cardinality(starts) \in Nat
    BY KeptIs, KeptGrows DEF NameTexts
  <1>2. /\ c \notin Alnums => kept1 = kept /\ starts1 = starts
        /\ c \in Alnums => /\ kept1 = kept \union {n}
                           /\ starts1 = starts \union {i \in {n} : kept # {} /\ m \notin kept}
    BY KeptGrows
  <1>3. longer \in NameTexts
    BY KeptGrows
  <1>3a. Cardinality(kept1) \in Nat /\ Cardinality(starts1) \in Nat
    BY <1>3, KeptIs
  <1> HIDE DEF longer, kept, starts, kept1, starts1, m
  <1>4. ASSUME NEW i \in kept PROVE PlaceOf(longer, i) = PlaceOf(name, i)
    <2>1. ~(n < i) /\ ~(n <= i)
      BY <1>1
    <2>2. {j \in kept1 : j < i} = {j \in kept : j < i}
      BY <1>2, <2>1
    <2>3. {j \in starts1 : j <= i} = {j \in starts : j <= i}
      BY <1>2, <2>1
    <2> QED
      BY <2>2, <2>3 DEF PlaceOf, kept, kept1, starts, starts1
  <1>5. ASSUME c \in Alnums
        PROVE  /\ Cardinality(kept1) = Cardinality(kept) + 1
               /\ PlaceOf(longer, n) = Cardinality(kept1) + Cardinality(starts1)
    <2>1. Cardinality(kept1) = Cardinality(kept) + 1
      BY <1>1, <1>2, <1>5, FS_AddElement
    <2>2. {j \in kept1 : j < n} = kept
      <3>1. ~(n < n) /\ \A j \in kept : j < n
        BY <1>1
      <3> QED
        BY <1>2, <1>5, <3>1
    <2>3. {j \in starts1 : j <= n} = starts1
      <3>1. n <= n /\ \A j \in starts : j <= n
        BY <1>1
      <3> QED
        BY <1>2, <1>5, <3>1
    <2>4. PlaceOf(longer, n) = Cardinality(kept) + Cardinality(starts1) + 1
      BY <2>2, <2>3 DEF PlaceOf, kept1, starts1
    <2> QED
      BY <1>1, <1>3a, <2>1, <2>4
  <1>6. ASSUME c \in Alnums, kept = {} \/ m \in kept
        PROVE  Cardinality(starts1) = Cardinality(starts) /\ n \notin starts1
    <2>1. starts1 = starts
      BY <1>2, <1>6
    <2> QED
      BY <1>1, <2>1
  <1>7. ASSUME c \in Alnums, kept # {}, m \notin kept
        PROVE  Cardinality(starts1) = Cardinality(starts) + 1
    <2>1. starts1 = starts \union {n}
      BY <1>2, <1>7
    <2> QED
      BY <1>1, <2>1, FS_AddElement
  <1> QED
    BY <1>4, <1>5, <1>6, <1>7 DEF longer, m, kept, starts, kept1, starts1

(* A text that has every run of the name so far at its place, and one that *)
(* is made of them *)
Spelled(text, name) ==
  /\ text \in AliasTexts /\ (text # <<>> => text[1] \in Alnums)
  /\ \A i \in Kept(name) : /\ PlaceOf(name, i) \in 1 .. Len(text)
                           /\ text[PlaceOf(name, i)] = LowerOf(name[i])
  /\ \A i \in Starts(name) : /\ PlaceOf(name, i) - 1 \in 1 .. Len(text)
                             /\ text[PlaceOf(name, i) - 1] = "-"

Made(text, name) ==
  /\ Spelled(text, name)
  /\ text # <<>> /\ text[Len(text)] \in Alnums
  /\ Len(text) = Cardinality(Kept(name)) + Cardinality(Starts(name))

LEMMA SpelledLonger ==
  ASSUME NEW name \in NameTexts, NEW text, Spelled(text, name), text # <<>>, NEW mark \in NamePieces
  PROVE  Spelled(Append(text, mark), name)
  <1> DEFINE longer == Append(text, mark)
             n == Len(text)
  <1>1. text \in Seq(NamePieces)
    BY DEF Spelled, AliasTexts
  <1>2. /\ longer \in AliasTexts /\ Len(longer) = n + 1 /\ n \in Nat \ {0}
        /\ \A i \in 1 .. n : longer[i] = text[i] /\ i \in 1 .. n + 1
    BY <1>1, AppendProperties DEF AliasTexts
  <1>3. 1 \in 1 .. n
    BY <1>2
  <1> HIDE DEF longer, n
  <1>4. longer[1] \in Alnums
    BY <1>2, <1>3 DEF Spelled
  <1>5. \A i \in Kept(name) : /\ PlaceOf(name, i) \in 1 .. Len(longer)
                              /\ longer[PlaceOf(name, i)] = LowerOf(name[i])
    BY <1>2 DEF Spelled, n
  <1>6. \A i \in Starts(name) : /\ PlaceOf(name, i) - 1 \in 1 .. Len(longer)
                                /\ longer[PlaceOf(name, i) - 1] = "-"
    BY <1>2 DEF Spelled, n
  <1>7. Spelled(longer, name)
    BY <1>2, <1>4, <1>5, <1>6 DEF Spelled
  <1> QED
    BY <1>7 DEF longer

(* The next letter or digit is put behind it. *)
LEMMA MadeLonger ==
  ASSUME NEW name \in NameTexts, NEW text, Spelled(text, name), NEW c \in Alnums,
         Len(text) = Cardinality(Kept(name)) + Cardinality(Starts(Append(name, c))),
         Len(name) + 1 \in Starts(Append(name, c)) => text # <<>> /\ text[Len(text)] = "-"
  PROVE  Made(Append(text, LowerOf(c)), Append(name, c))
  <1> DEFINE d == LowerOf(c)
             longer == Append(name, c)
             n == Len(name) + 1
             out == Append(text, d)
             m == Len(text)
  <1>1. d \in Alnums /\ d \in NamePieces /\ c \in Characters
    BY NamePiecesAre
  <1>2. text \in Seq(NamePieces) /\ (text # <<>> => text[1] \in Alnums)
    BY DEF Spelled, AliasTexts
  <1>3. /\ out \in AliasTexts /\ out # <<>> /\ Len(out) = m + 1 /\ out[m + 1] = d /\ m \in Nat
        /\ \A i \in 1 .. m : out[i] = text[i] /\ i \in 1 .. m + 1
    BY <1>1, <1>2, AppendProperties DEF AliasTexts
  <1>4. text # <<>> => m \in 1 .. m /\ 1 \in 1 .. m
    BY <1>2
  <1>4a. text = <<>> => m = 0
    OBVIOUS
  <1>5. /\ longer \in NameTexts /\ longer[n] = c /\ \A i \in Kept(name) : longer[i] = name[i]
        /\ Kept(longer) = Kept(name) \union {n}
        /\ Starts(longer) \subseteq Starts(name) \union {n} /\ Starts(name) \subseteq Kept(name)
        /\ n \notin Kept(name)
    BY <1>1, KeptGrows, KeptIs
  <1>6. \A i \in Kept(name) : PlaceOf(longer, i) = PlaceOf(name, i)
    BY <1>1, PlacesKept
  <1>7. /\ Cardinality(Kept(longer)) = Cardinality(Kept(name)) + 1
        /\ PlaceOf(longer, n) = Cardinality(Kept(longer)) + Cardinality(Starts(longer))
    BY <1>1, PlacesKept
  <1>8. /\ Cardinality(Kept(name)) \in Nat /\ Cardinality(Starts(longer)) \in Nat
    BY <1>5, KeptIs
  <1> HIDE DEF d, out, longer, n
  <1>9. m = Cardinality(Kept(name)) + Cardinality(Starts(longer))
    BY DEF longer
  <1> HIDE DEF m
  <1>10. PlaceOf(longer, n) = m + 1 /\ Len(out) = Cardinality(Kept(longer)) + Cardinality(Starts(longer))
    BY <1>3, <1>7, <1>8, <1>9
  <1>11. ASSUME NEW i \in Kept(longer)
         PROVE  PlaceOf(longer, i) \in 1 .. Len(out) /\ out[PlaceOf(longer, i)] = LowerOf(longer[i])
    <2>1. CASE i = n
      BY <1>3, <1>5, <1>10, <2>1 DEF d
    <2>2. CASE i \in Kept(name)
      <3>1. PlaceOf(name, i) \in 1 .. m /\ text[PlaceOf(name, i)] = LowerOf(name[i])
        BY <2>2 DEF Spelled, m
      <3> QED
        BY <1>3, <1>5, <1>6, <2>2, <3>1
    <2> QED
      BY <1>5, <2>1, <2>2
  <1>12. ASSUME NEW i \in Starts(longer)
         PROVE  PlaceOf(longer, i) - 1 \in 1 .. Len(out) /\ out[PlaceOf(longer, i) - 1] = "-"
    <2>1. CASE i = n
      <3>1. text # <<>> /\ text[m] = "-"
        BY <2>1, <1>12 DEF n, longer, m
      <3>2. PlaceOf(longer, i) - 1 = m
        BY <1>3, <1>10, <2>1
      <3> QED
        BY <1>3, <1>4, <3>1, <3>2
    <2>2. CASE i \in Starts(name)
      <3>1. PlaceOf(name, i) - 1 \in 1 .. m /\ text[PlaceOf(name, i) - 1] = "-"
        BY <2>2 DEF Spelled, m
      <3>2. PlaceOf(longer, i) = PlaceOf(name, i)
        BY <1>5, <1>6, <2>2
      <3> QED
        BY <1>3, <3>1, <3>2
    <2> QED
      BY <1>5, <2>1, <2>2
  <1>13. out[1] \in Alnums
    BY <1>1, <1>2, <1>3, <1>4, <1>4a
  <1>14. Spelled(out, longer)
    BY <1>3, <1>11, <1>12, <1>13 DEF Spelled
  <1>15. Made(out, longer)
    BY <1>1, <1>3, <1>10, <1>14 DEF Made
  <1> QED
    BY <1>15 DEF out, longer, d

(* What follows it is not in it. *)
LEMMA MadeStays ==
  ASSUME NEW name \in NameTexts, NEW text, Made(text, name), NEW c \in Characters \ Alnums
  PROVE  Made(text, Append(name, c))
  <1> DEFINE longer == Append(name, c)
  <1>1. /\ Kept(longer) = Kept(name) /\ Starts(longer) = Starts(name)
        /\ \A i \in Kept(name) : longer[i] = name[i]
    BY KeptGrows
  <1>2. \A i \in Kept(name) : PlaceOf(longer, i) = PlaceOf(name, i)
    BY PlacesKept
  <1>3. Starts(name) \subseteq Kept(name)
    BY KeptIs
  <1> HIDE DEF longer
  <1>4. Spelled(text, longer)
    <2>1. text \in AliasTexts /\ (text # <<>> => text[1] \in Alnums)
      BY DEF Made, Spelled
    <2>2. \A i \in Kept(name) : PlaceOf(name, i) \in 1 .. Len(text) /\ text[PlaceOf(name, i)] = LowerOf(name[i])
      BY DEF Made, Spelled
    <2>3. \A i \in Starts(name) : PlaceOf(name, i) - 1 \in 1 .. Len(text) /\ text[PlaceOf(name, i) - 1] = "-"
      BY DEF Made, Spelled
    <2>4. ASSUME NEW i \in Kept(longer)
          PROVE  PlaceOf(longer, i) \in 1 .. Len(text) /\ text[PlaceOf(longer, i)] = LowerOf(longer[i])
      BY <1>1, <1>2, <2>2
    <2>5. ASSUME NEW i \in Starts(longer)
          PROVE  PlaceOf(longer, i) - 1 \in 1 .. Len(text) /\ text[PlaceOf(longer, i) - 1] = "-"
      BY <1>1, <1>2, <1>3, <2>3
    <2> QED
      BY <2>1, <2>4, <2>5 DEF Spelled
  <1>5. Made(text, longer)
    BY <1>1, <1>4 DEF Made
  <1> QED
    BY <1>5 DEF longer

(* A normalized name is empty or made of the runs, with a hyphen behind    *)
(* them when the name does not end in one.                                 *)
Normal(name) ==
  IF Kept(name) = {} THEN Normalized(name) = <<>>
  ELSE \E text : Made(text, name)
         /\ Normalized(name) = IF Len(name) \in Kept(name) THEN text ELSE Append(text, "-")

LEMMA NormalNext ==
  ASSUME NEW name \in NameTexts, Normal(name), NEW c \in Characters
  PROVE  Normal(Append(name, c))
  <1> DEFINE longer == Append(name, c)
             n == Len(name) + 1
             before == Normalized(name)
  <1>1. /\ Normalized(longer) = AddCharacter(before, c) /\ longer \in NameTexts /\ Len(longer) = n
    BY NormalizedFold, KeptGrows DEF NameTexts
  <1>2. /\ n \notin Kept(name)
        /\ c \notin Alnums => Kept(longer) = Kept(name)
        /\ c \in Alnums => Kept(longer) = Kept(name) \union {n}
    BY KeptGrows
  <1>3. \A text : Made(text, name) =>
          /\ text \in Seq(NamePieces) /\ text # <<>> /\ text[Len(text)] \in Alnums
          /\ Append(text, "-") # <<>> /\ Last(Append(text, "-")) = "-" /\ Last(text) # "-"
    <2> SUFFICES ASSUME NEW text, Made(text, name)
                 PROVE  /\ text \in Seq(NamePieces) /\ text # <<>> /\ text[Len(text)] \in Alnums
                        /\ Append(text, "-") # <<>> /\ Last(Append(text, "-")) = "-" /\ Last(text) # "-"
      OBVIOUS
    <2>1. text \in Seq(NamePieces) /\ text # <<>> /\ text[Len(text)] \in Alnums
      BY DEF Made, Spelled, AliasTexts
    <2>2. Append(text, "-") # <<>> /\ Last(Append(text, "-")) = "-"
      BY <2>1, NamePiecesAre, AppendIs
    <2>3. Last(text) # "-"
      BY <2>1, NamePiecesAre DEF Last
    <2> QED
      BY <2>1, <2>2, <2>3
  <1> SUFFICES Normal(longer)
    OBVIOUS
  <1> HIDE DEF longer, before
  <1>4. CASE c \notin Alnums
    <2>1. AddCharacter(before, c) = IF before # <<>> /\ Last(before) # "-" THEN Append(before, "-") ELSE before
      BY <1>4 DEF AddCharacter
    <2>2. CASE Kept(name) = {}
      BY <1>1, <1>2, <1>4, <2>1, <2>2 DEF Normal, before
    <2>3. CASE Kept(name) # {}
      <3>1. PICK text : /\ Made(text, name)
                        /\ before = IF Len(name) \in Kept(name) THEN text ELSE Append(text, "-")
        BY <2>3 DEF Normal, before
      <3>2. AddCharacter(before, c) = Append(text, "-")
        BY <1>3, <2>1, <3>1
      <3>3. Made(text, longer)
        BY <1>4, <3>1, MadeStays DEF longer
      <3> QED
        BY <1>1, <1>2, <1>4, <2>3, <3>2, <3>3 DEF Normal
    <2> QED
      BY <2>2, <2>3
  <1>5. CASE c \in Alnums
    <2>1. AddCharacter(before, c) = Append(before, LowerOf(c))
      BY <1>5 DEF AddCharacter
    <2>2. SUFFICES Made(Append(before, LowerOf(c)), longer)
      BY <1>1, <1>2, <1>5, <2>1 DEF Normal
    <2>3. /\ Kept(name) = {} \/ Len(name) \in Kept(name) =>
               Cardinality(Starts(longer)) = Cardinality(Starts(name)) /\ n \notin Starts(longer)
          /\ Kept(name) # {} /\ Len(name) \notin Kept(name) =>
               Cardinality(Starts(longer)) = Cardinality(Starts(name)) + 1
      BY <1>5, PlacesKept DEF longer
    <2>4. Cardinality(Kept(name)) \in Nat /\ Cardinality(Starts(name)) \in Nat
      BY KeptIs
    <2>5. SUFFICES /\ Spelled(before, name)
                   /\ Len(before) = Cardinality(Kept(name)) + Cardinality(Starts(longer))
                   /\ n \in Starts(longer) => before # <<>> /\ before[Len(before)] = "-"
      BY <1>5, MadeLonger DEF longer
    <2>6. CASE Kept(name) = {}
      <3>1. Starts(name) = {} /\ Cardinality(Kept(name)) = 0 /\ Cardinality(Starts(name)) = 0
        BY <2>6, FS_EmptySet DEF Starts
      <3>2. before = <<>> /\ Len(before) = 0 /\ before \in AliasTexts
        BY <2>6 DEF Normal, before, AliasTexts
      <3>3. Spelled(before, name)
        BY <2>6, <3>1, <3>2 DEF Spelled
      <3> QED
        BY <2>3, <2>6, <3>1, <3>2, <3>3
    <2>7. CASE Kept(name) # {} /\ Len(name) \in Kept(name)
      <3>1. Made(before, name)
        BY <2>7 DEF Normal, before
      <3> QED
        BY <2>3, <2>7, <3>1 DEF Made
    <2>8. CASE Kept(name) # {} /\ Len(name) \notin Kept(name)
      <3>1. PICK text : Made(text, name) /\ before = Append(text, "-")
        BY <2>8 DEF Normal, before
      <3>2. text \in Seq(NamePieces) /\ text # <<>> /\ Spelled(text, name)
            /\ Len(text) = Cardinality(Kept(name)) + Cardinality(Starts(name))
        BY <1>3, <3>1 DEF Made
      <3>3. /\ before # <<>> /\ Len(before) = Len(text) + 1 /\ before[Len(before)] = "-"
        BY <3>1, <3>2, NamePiecesAre, AppendProperties
      <3>4. Spelled(before, name)
        BY <3>1, <3>2, NamePiecesAre, SpelledLonger
      <3> QED
        BY <2>3, <2>4, <2>8, <3>2, <3>3, <3>4
    <2> QED
      BY <2>6, <2>7, <2>8
  <1> QED
    BY <1>4, <1>5

LEMMA NormalIs ==
  ASSUME NEW name \in NameTexts
  PROVE  Normal(name)
  <1> DEFINE S == {w \in NameTexts : Normal(w)}
  <1>1. <<>> \in S
    <2>1. <<>> \in NameTexts /\ Kept(<<>>) = {}
      BY DEF Kept, NameTexts
    <2> QED
      BY <2>1, NormalizedFold DEF Normal
  <1>2. ASSUME NEW w \in NameTexts, NEW c \in Characters, w \in S PROVE Append(w, c) \in S
    <2>1. Append(w, c) \in NameTexts
      BY DEF NameTexts
    <2> QED
      BY <1>2, <2>1, NormalNext
  <1> HIDE DEF S
  <1>3. \A w \in NameTexts : w \in S
    BY <1>1, <1>2, WordInduction DEF NameTexts
  <1> QED
    BY <1>3 DEF S

(* What is left when the hyphen is taken off *)
LEMMA TrimmedIs ==
  ASSUME NEW name \in NameTexts
  PROVE  /\ Kept(name) = {} => Normalized(name) = <<>>
         /\ Kept(name) # {} => Normalized(name) # <<>> /\ Made(Trimmed(Normalized(name)), name)
  <1>1. CASE Kept(name) = {}
    BY <1>1, NormalIs DEF Normal
  <1>2. CASE Kept(name) # {}
    <2> DEFINE m == Normalized(name)
    <2>1. PICK text : Made(text, name) /\ m = IF Len(name) \in Kept(name) THEN text ELSE Append(text, "-")
      BY <1>2, NormalIs DEF Normal
    <2> HIDE DEF m
    <2>2. text \in Seq(NamePieces) /\ text # <<>> /\ text[Len(text)] \in Alnums
      BY <2>1 DEF Made, Spelled, AliasTexts
    <2>3. Append(text, "-") # <<>> /\ Last(Append(text, "-")) = "-" /\ Front(Append(text, "-")) = text
      BY <2>2, NamePiecesAre, AppendIs
    <2>4. Last(text) # "-"
      BY <2>2, NamePiecesAre DEF Last
    <2>5. m # <<>> /\ Trimmed(m) = text
      BY <2>1, <2>2, <2>3, <2>4 DEF Trimmed
    <2> QED
      BY <1>2, <2>1, <2>5 DEF m
  <1> QED
    BY <1>1, <1>2

-----------------------------------------------------------------------------
(* What names are made of is text. *)
LEMMA BasesAreTexts ==
  ASSUME NEW c \in Configurations, NEW p \in DOMAIN c, NEW i \in DOMAIN c[p].targets
  PROVE  /\ BaseOf(c[p].targets, i) \in Seq(Characters)
         /\ c[p].targets[i].id \in DOMAIN Suffix
         /\ Suffix[c[p].targets[i].id] \in Seq(Characters)
  <1> DEFINE n == c[p].targets[i].name
             m == Normalized(n)
  <1>1. /\ n \in Seq(Characters) /\ c[p].targets[i].id \in DOMAIN Suffix /\ m \in Seq(Characters)
    <2>1. c[p].targets \in Seq([id: DOMAIN Suffix, name: Seq(Characters)])
      BY ConfigurationAssumption
    <2> DEFINE targets == c[p].targets
    <2>2. i \in DOMAIN targets /\ targets \in Seq([id: DOMAIN Suffix, name: Seq(Characters)])
      BY <2>1
    <2> HIDE DEF targets
    <2>3. targets[i] \in [id: DOMAIN Suffix, name: Seq(Characters)]
      BY <2>2, LenProperties, ElementOfSeq
    <2>4. targets[i].id \in DOMAIN Suffix /\ targets[i].name \in Seq(Characters)
      BY <2>3
    <2>5. m \in Seq(Characters)
      BY <2>4, NormalizedFold, NamePiecesAre DEF NameTexts, targets
    <2> QED
      BY <2>4, <2>5 DEF targets
  <1>2. Anonymous \in Seq(Characters)
    BY MarkIsText, CharacterAssumption DEF Anonymous, Alnums, Letters
  <1>3. m # <<>> => Trimmed(m) \in Seq(Characters)
    <2> HIDE DEF m
    <2> QED
      BY <1>1, FrontIsText DEF Trimmed
  <1>4. TargetAliasBase(n) \in Seq(Characters)
    <2>1. TargetAliasBase(n) = IF IsOpensshSafeAlias(n) THEN n
                               ELSE IF m = <<>> THEN Anonymous ELSE Trimmed(m)
      BY DEF TargetAliasBase
    <2> HIDE DEF n, m
    <2> QED
      BY <1>1, <1>2, <1>3, <2>1
  <1>5. Suffix[c[p].targets[i].id] \in Seq(Characters)
    <2>1. Seq(Alnums) \subseteq Seq(Characters)
      BY CharacterAssumption, SeqMonotonic
    <2> QED
      BY <1>1, <2>1, SuffixAssumption
  <1> QED
    BY <1>1, <1>4, <1>5 DEF BaseOf

(* The names of two targets, before the name of the profile is added, are  *)
(* different unless the one is what the hash makes of the other.           *)
LEMMA ResolvedDiffer ==
  ASSUME NEW c \in Configurations, NEW p \in DOMAIN c,
         NEW i \in DOMAIN c[p].targets, NEW j \in DOMAIN c[p].targets, i # j,
         c[p].targets[i].id # c[p].targets[j].id,
         Same(Resolved(c[p].targets, i), Resolved(c[p].targets, j))
  PROVE  LET targets == c[p].targets IN
           \E k \in {i, j} : \E l \in {i, j} \ {k} :
             Same(BaseOf(targets, k),
                  BaseOf(targets, l) \o <<"-">> \o Suffix[targets[l].id])
  <1> DEFINE targets == c[p].targets
             Base(k) == BaseOf(targets, k)
             End(k)  == Suffix[targets[k].id]
             Hashed(k) == Base(k) \o <<"-">> \o End(k)
  <1>1. /\ Base(i) \in Seq(Characters) /\ Base(j) \in Seq(Characters)
        /\ End(i) \in Seq(Characters) /\ End(j) \in Seq(Characters)
        /\ targets[i].id \in DOMAIN Suffix /\ targets[j].id \in DOMAIN Suffix
    BY BasesAreTexts
  <1>2. /\ Resolved(targets, i) = IF Shared(targets, i) THEN Hashed(i) ELSE Base(i)
        /\ Resolved(targets, j) = IF Shared(targets, j) THEN Hashed(j) ELSE Base(j)
    BY DEF Resolved
  <1>3. ASSUME Same(Base(i), Base(j)) PROVE Shared(targets, i) /\ Shared(targets, j)
    <2>1. Same(Base(j), Base(i))
      BY <1>3 DEF Same
    <2> QED
      BY <1>3, <2>1 DEF Shared
  <1>4. CASE ~Shared(targets, i) /\ ~Shared(targets, j)
    BY <1>2, <1>3, <1>4
  <1>5. CASE Shared(targets, i) /\ Shared(targets, j)
    <2>1. Same((Base(i) \o <<"-">>) \o End(i), (Base(j) \o <<"-">>) \o End(j))
      BY <1>2, <1>5
    <2>2. Len(End(i)) = Len(End(j))
      BY <1>1, SuffixAssumption
    <2>3. /\ Base(i) \o <<"-">> \in Seq(Characters) /\ Base(j) \o <<"-">> \in Seq(Characters)
      BY <1>1, MarkIsText, Joined, CharacterAssumption
    <2>4. Same(End(i), End(j))
      <3> DEFINE a == Base(i) \o <<"-">>
                 b == Base(j) \o <<"-">>
                 s == End(i)
                 t == End(j)
      <3>1. /\ a \in Seq(Characters) /\ b \in Seq(Characters)
            /\ s \in Seq(Characters) /\ t \in Seq(Characters)
            /\ Len(s) = Len(t) /\ Same(a \o s, b \o t)
        BY <1>1, <2>1, <2>2, <2>3
      <3> HIDE DEF a, b, s, t
      <3>2. Same(s, t)
        BY <3>1, EndsCompared
      <3> QED
        BY <3>2 DEF s, t
    <2>5. End(i) = End(j)
      BY <1>1, <2>4, SuffixAssumption DEF Same
    <2> QED
      BY <1>1, <2>5, SuffixAssumption
  <1>6. CASE Shared(targets, i) /\ ~Shared(targets, j)
    <2>1. Same(Base(j), Hashed(i))
      BY <1>2, <1>6 DEF Same
    <2> QED
      BY <2>1
  <1>7. CASE ~Shared(targets, i) /\ Shared(targets, j)
    <2>1. Same(Base(i), Hashed(j))
      BY <1>2, <1>7
    <2> QED
      BY <2>1
  <1> QED
    BY <1>4, <1>5, <1>6, <1>7

(* Targets with one identifier are refused. *)
LEMMA IdentifiersDiffer ==
  ASSUME NEW name, NEW default, NEW targets,
         AllocateAliases(name, default, targets) # None,
         NEW i \in DOMAIN targets, NEW j \in DOMAIN targets, i # j
  PROVE  targets[i].id # targets[j].id
  BY DEF AllocateAliases

(* The line of a target *)
LEMMA HostLineIs ==
  ASSUME NEW c, NEW blocked, NEW line \in HostLines(c, blocked),
         \A p \in DOMAIN c : AllocateAliases(c[p].name, p = 1, c[p].targets) # None
  PROVE  /\ line.profile \in DOMAIN c
         /\ line.target \in DOMAIN c[line.profile].targets
         /\ line.aliases.qualified =
              Resolved(c[line.profile].targets, line.target) \o <<".">> \o c[line.profile].name
  <1>1. PICK p \in DOMAIN c : \E i \in DOMAIN c[p].targets :
          LET aliases == AllocateAliases(c[p].name, p = 1, c[p].targets) IN
          line = [profile |-> p, target |-> i, aliases |-> aliases[i],
                  patterns |-> HostAliases(aliases[i], blocked)]
    BY DEF HostLines
  <1> DEFINE targets == c[p].targets
             aliases == AllocateAliases(c[p].name, p = 1, targets)
  <1>2. PICK i \in DOMAIN targets :
          line = [profile |-> p, target |-> i, aliases |-> aliases[i],
                  patterns |-> HostAliases(aliases[i], blocked)]
    BY <1>1
  <1>3. line.profile = p /\ line.target = i /\ line.aliases = aliases[i]
    BY <1>2
  <1>4. aliases # None
    OBVIOUS
  <1>5. aliases = [k \in DOMAIN targets |->
                     [short |-> IF p = 1 THEN Resolved(targets, k) ELSE None,
                      qualified |-> Resolved(targets, k) \o <<".">> \o c[p].name]]
    BY <1>4 DEF AllocateAliases
  <1>6. aliases[i].qualified = Resolved(targets, i) \o <<".">> \o c[p].name
    <2> HIDE DEF aliases, targets
    <2> QED
      BY <1>5
  <1> QED
    BY <1>3, <1>6

(* allocate_aliases: for any targets with any names, no two of a profile   *)
(* get aliases that differ in letter case only, as long as their           *)
(* identifiers have different hashes.                                      *)
THEOREM NamesDiffer == AliasSpec => []AliasesDistinct
  <1> DEFINE Distinct(w) ==
               w.task = "aliases" =>
                 \A a, b \in w.output :
                   a.profile = b.profile /\ a.target # b.target
                     /\ Same(a.aliases.qualified, b.aliases.qualified)
                   => LET targets == w.input[a.profile].targets IN
                      \E i \in {a.target, b.target} :
                        \E j \in {a.target, b.target} \ {i} :
                          Same(BaseOf(targets, i),
                               BaseOf(targets, j) \o <<"-">> \o Suffix[targets[j].id])
  <1>0. AliasesDistinct = Distinct(work) /\ AliasesDistinct' = Distinct(work')
    BY Zenon DEF AliasesDistinct
  <1>1. work = Idle => AliasesDistinct
    BY DEF Idle, AliasesDistinct
  <1>2. ASSUME AliasesDistinct, [RenderAliases]_work PROVE AliasesDistinct'
    <2>1. CASE UNCHANGED work
      <3> HIDE DEF Distinct
      <3> QED
        BY <1>0, <1>2, <2>1
    <2>2. CASE RenderAliases
      <3>1. PICK c \in Configurations, blocked \in ManualHosts :
              /\ \A p \in DOMAIN c : AllocateAliases(c[p].name, p = 1, c[p].targets) # None
              /\ work' = [task |-> "aliases", input |-> c, output |-> HostLines(c, blocked)]
        BY <2>2 DEF RenderAliases, Evaluate
      <3>2. work'.input = c /\ work'.output = HostLines(c, blocked)
        BY <3>1
      <3>3. ASSUME NEW a \in HostLines(c, blocked), NEW b \in HostLines(c, blocked),
                   a.profile = b.profile, a.target # b.target,
                   Same(a.aliases.qualified, b.aliases.qualified)
            PROVE  LET targets == c[a.profile].targets IN
                   \E i \in {a.target, b.target} :
                     \E j \in {a.target, b.target} \ {i} :
                       Same(BaseOf(targets, i),
                            BaseOf(targets, j) \o <<"-">> \o Suffix[targets[j].id])
        <4> DEFINE p == a.profile
                   targets == c[p].targets
                   x == Resolved(targets, a.target)
                   y == Resolved(targets, b.target)
                   n == c[p].name
        <4>1. /\ p \in DOMAIN c /\ a.target \in DOMAIN targets /\ b.target \in DOMAIN targets
              /\ a.aliases.qualified = x \o <<".">> \o n
              /\ b.aliases.qualified = y \o <<".">> \o n
              /\ targets[a.target].id # targets[b.target].id
          <5>1. /\ p \in DOMAIN c /\ a.target \in DOMAIN targets
                /\ a.aliases.qualified = x \o <<".">> \o n
            BY <3>1, <3>3, HostLineIs
          <5>2. /\ b.target \in DOMAIN c[b.profile].targets
                /\ b.aliases.qualified
                     = Resolved(c[b.profile].targets, b.target) \o <<".">> \o c[b.profile].name
            BY <3>1, <3>3, HostLineIs
          <5>3. /\ b.target \in DOMAIN targets
                /\ b.aliases.qualified = y \o <<".">> \o n
            BY <3>3, <5>2
          <5>4. targets[a.target].id # targets[b.target].id
            BY <3>1, <3>3, <5>1, <5>3, IdentifiersDiffer
          <5> QED
            BY <5>1, <5>3, <5>4
        <4>2. n \in Seq(Characters)
          BY <4>1, ConfigurationAssumption
        <4>3. x \in Seq(Characters) /\ y \in Seq(Characters)
          <5>1. ASSUME NEW k \in DOMAIN targets PROVE Resolved(targets, k) \in Seq(Characters)
            <6>1. BaseOf(targets, k) \in Seq(Characters) /\ Suffix[targets[k].id] \in Seq(Characters)
              BY <4>1, <5>1, BasesAreTexts
            <6>2. BaseOf(targets, k) \o <<"-">> \o Suffix[targets[k].id] \in Seq(Characters)
              BY <6>1, MarkIsText, Joined, CharacterAssumption
            <6> QED
              BY <6>1, <6>2 DEF Resolved
          <5> QED
            BY <4>1, <5>1
        <4>4. Same(x, y)
          <5> HIDE DEF x, y, n
          <5>1. Same((x \o <<".">>) \o n, (y \o <<".">>) \o n)
            BY <3>3, <4>1
          <5>2. x \o <<".">> \in Seq(Characters) /\ y \o <<".">> \in Seq(Characters)
                /\ <<".">> \in Seq(Characters)
            BY <4>3, MarkIsText, Joined, CharacterAssumption
          <5>3. Same(x \o <<".">>, y \o <<".">>)
            BY <4>2, <5>1, <5>2, EndsCompared
          <5> QED
            BY <4>3, <5>2, <5>3, EndsCompared
        <4>5. a.target # b.target /\ c \in Configurations
          BY <3>1, <3>3
        <4>6. ASSUME NEW q \in DOMAIN c,
                     NEW i \in DOMAIN c[q].targets, NEW j \in DOMAIN c[q].targets, i # j,
                     c[q].targets[i].id # c[q].targets[j].id,
                     Same(Resolved(c[q].targets, i), Resolved(c[q].targets, j))
              PROVE  \E k \in {i, j} : \E l \in {i, j} \ {k} :
                       Same(BaseOf(c[q].targets, k),
                            BaseOf(c[q].targets, l) \o <<"-">> \o Suffix[c[q].targets[l].id])
          BY <4>5, <4>6, ResolvedDiffer
        <4> DEFINE i == a.target
                   j == b.target
        <4>7. /\ p \in DOMAIN c /\ i \in DOMAIN c[p].targets /\ j \in DOMAIN c[p].targets
              /\ i # j /\ c[p].targets[i].id # c[p].targets[j].id
              /\ Same(Resolved(c[p].targets, i), Resolved(c[p].targets, j))
          BY <4>1, <4>4, <4>5
        <4> HIDE DEF i, j, p
        <4>8. \E k \in {i, j} : \E l \in {i, j} \ {k} :
                Same(BaseOf(c[p].targets, k),
                     BaseOf(c[p].targets, l) \o <<"-">> \o Suffix[c[p].targets[l].id])
          BY <4>6, <4>7
        <4> QED
          BY Zenon, <4>8 DEF i, j, p
      <3> QED
        BY <3>2, <3>3 DEF AliasesDistinct
    <2> QED
      BY <1>2, <2>1, <2>2
  <1> QED
    BY <1>1, <1>2, PTL DEF AliasSpec

-----------------------------------------------------------------------------
(* Names that OpenSSH can be given, character by character *)
SafeMarks == Alnums \union {".", "_", "-"}
Safe(text) ==
  /\ text \in Seq(SafeMarks) /\ text # <<>>
  /\ text[1] \in Alnums /\ text[Len(text)] \in Alnums

LEMMA SafeIs ==
  ASSUME NEW text \in NameTexts
  PROVE  IsOpensshSafeAlias(text) <=> Safe(text)
  <1> DEFINE n == Len(text)
  <1>1. n \in Nat /\ DOMAIN text = 1 .. n /\ text = [i \in 1 .. n |-> text[i]]
    BY DEF NameTexts
  <1>2. ToSet(text) = {text[i] : i \in 1 .. n}
    BY <1>1 DEF ToSet
  <1>3. ToSet(text) \subseteq SafeMarks <=> text \in Seq(SafeMarks)
    <2>1. ASSUME ToSet(text) \subseteq SafeMarks PROVE text \in Seq(SafeMarks)
      <3>1. \A i \in 1 .. n : text[i] \in SafeMarks
        BY <1>2, <2>1
      <3>2. Among(text, SafeMarks)
        BY <3>1 DEF Among
      <3> QED
        BY <3>2, AmongIs DEF NameTexts
    <2>2. ASSUME text \in Seq(SafeMarks) PROVE ToSet(text) \subseteq SafeMarks
      BY <1>2, <2>2
    <2> QED
      BY <2>1, <2>2
  <1>4. Edges(text) \subseteq Alnums <=> text[1] \in Alnums /\ text[Len(text)] \in Alnums
    BY DEF Edges
  <1>5. Within(text, Alnums \union {".", "_", "-"}) <=> text \in Seq(SafeMarks)
    BY <1>3 DEF Within, SafeMarks
  <1> QED
    BY <1>4, <1>5 DEF IsOpensshSafeAlias, Safe

LEMMA SafeJoined ==
  ASSUME NEW a, Safe(a), NEW b, Safe(b), NEW mark \in SafeMarks
  PROVE  Safe((a \o <<mark>>) \o b) /\ mark \in ToSet((a \o <<mark>>) \o b)
  <1> DEFINE middle == <<mark>>
             first == a \o middle
             whole == first \o b
             la == Len(a)
             lb == Len(b)
             n == Len(first)
             m == Len(whole)
  <1>1. a \in Seq(SafeMarks) /\ b \in Seq(SafeMarks) /\ a # <<>> /\ b # <<>>
        /\ a[1] \in Alnums /\ b[Len(b)] \in Alnums
    BY DEF Safe
  <1>2. middle \in Seq(SafeMarks) /\ Len(middle) = 1 /\ middle[1] = mark
    OBVIOUS
  <1> HIDE DEF middle
  <1>3. /\ first \in Seq(SafeMarks) /\ Len(first) = Len(a) + Len(middle)
        /\ \A i \in 1 .. Len(a) : first[i] = a[i]
        /\ \A i \in 1 .. Len(middle) : first[Len(a) + i] = middle[i]
    <2>1. a \in Seq(SafeMarks) /\ middle \in Seq(SafeMarks)
      BY <1>1, <1>2
    <2> QED
      BY <2>1, ConcatIs
  <1> HIDE DEF first
  <1>4. /\ whole \in Seq(SafeMarks) /\ Len(whole) = Len(first) + Len(b)
        /\ \A i \in 1 .. Len(first) : whole[i] = first[i]
        /\ \A i \in 1 .. Len(b) : whole[Len(first) + i] = b[i]
    <2>1. first \in Seq(SafeMarks) /\ b \in Seq(SafeMarks)
      BY <1>1, <1>3
    <2> QED
      BY <2>1, ConcatIs
  <1> HIDE DEF whole
  <1>5. la \in Nat \ {0} /\ lb \in Nat \ {0}
    BY <1>1
  <1>6. n = la + 1 /\ first[la + 1] = mark /\ first[1] = a[1]
    <2>1. 1 \in 1 .. Len(middle) /\ 1 \in 1 .. Len(a)
      BY <1>2, <1>5
    <2>2. first[Len(a) + 1] = middle[1] /\ first[1] = a[1]
      BY <1>3, <2>1
    <2> QED
      BY <1>2, <1>3, <2>2
  <1>7. m = n + lb /\ \A i \in 1 .. n : whole[i] = first[i]
    BY <1>4
  <1>8. whole[n + lb] = b[lb]
    <2>1. lb \in 1 .. Len(b)
      BY <1>5
    <2> QED
      BY <1>4, <2>1
  <1> HIDE DEF la, lb, n, m
  <1>9. 1 \in 1 .. n /\ la + 1 \in 1 .. n /\ la + 1 \in 1 .. m /\ m # 0
    BY <1>5, <1>6, <1>7
  <1>10. whole[1] = a[1] /\ whole[la + 1] = mark /\ whole[m] = b[lb]
    BY <1>6, <1>7, <1>8, <1>9
  <1>11. DOMAIN whole = 1 .. m /\ (whole = <<>> => m = 0)
    BY <1>4 DEF m
  <1>12. Safe(whole)
    <2>1. whole # <<>>
      BY <1>9, <1>11
    <2>2. whole[1] \in Alnums /\ whole[Len(whole)] \in Alnums
      BY <1>1, <1>10 DEF m, lb
    <2> QED
      BY <1>4, <2>1, <2>2 DEF Safe
  <1>13. mark \in ToSet(whole)
    BY <1>9, <1>10, <1>11 DEF ToSet
  <1> QED
    BY <1>12, <1>13 DEF whole, first, middle

LEMMA SafeTexts ==
  /\ SafeMarks \subseteq Characters /\ NamePieces \subseteq SafeMarks
  /\ \A text : Safe(text) => text \in NameTexts
  /\ Safe(Anonymous)
  /\ \A x \in DOMAIN Suffix : Safe(Suffix[x])
  /\ \A name \in NameTexts : IsValidProfileName(name) => Safe(name)
  <1>1. SafeMarks \subseteq Characters /\ NamePieces \subseteq SafeMarks /\ Alnums \subseteq SafeMarks
    BY CharacterAssumption DEF SafeMarks, NamePieces
  <1>2. ASSUME NEW text, Safe(text) PROVE text \in NameTexts
    BY <1>1, <1>2, SeqMonotonic DEF Safe, NameTexts
  <1>3. Safe(Anonymous)
    <2>1. "s" \in Alnums
      BY DEF Alnums, Letters
    <2> QED
      BY <1>1, <2>1 DEF Safe, Anonymous
  <1>4. ASSUME NEW x \in DOMAIN Suffix PROVE Safe(Suffix[x])
    <2> DEFINE s == Suffix[x]
    <2>1. s \in Seq(Alnums) /\ s # <<>>
      BY SuffixAssumption
    <2>2. s \in Seq(SafeMarks)
      BY <1>1, <2>1, SeqMonotonic
    <2> HIDE DEF s
    <2>3. Len(s) \in Nat \ {0} /\ \A i \in 1 .. Len(s) : s[i] \in Alnums
      BY <2>1
    <2>4. 1 \in 1 .. Len(s) /\ Len(s) \in 1 .. Len(s)
      BY <2>3
    <2>5. Safe(s)
      BY <2>1, <2>2, <2>3, <2>4 DEF Safe
    <2> QED
      BY <2>5 DEF s
  <1>5. ASSUME NEW name \in NameTexts, IsValidProfileName(name) PROVE Safe(name)
    <2>1. IsOpensshSafeAlias(name)
      BY <1>5 DEF IsValidProfileName, IsOpensshSafeAlias, Within
    <2> QED
      BY <2>1, SafeIs
  <1> QED
    BY <1>1, <1>2, <1>3, <1>4, <1>5

(* What the name of a target is turned into *)
LEMMA BaseIs ==
  ASSUME NEW name \in NameTexts
  PROVE  LET base == TargetAliasBase(name) IN
         /\ Safe(base)
         /\ IF Kept(name) = {} THEN base = Anonymous ELSE base = name \/ IsJoined(base, name)
  <1> DEFINE m == Normalized(name)
             base == TargetAliasBase(name)
  <1>1. base = IF IsOpensshSafeAlias(name) THEN name
               ELSE IF m = <<>> THEN Anonymous ELSE Trimmed(m)
    BY DEF TargetAliasBase
  <1>2. /\ Kept(name) = {} => m = <<>>
        /\ Kept(name) # {} => m # <<>> /\ Made(Trimmed(m), name)
    BY TrimmedIs
  <1> HIDE DEF m, base
  <1>3. CASE IsOpensshSafeAlias(name)
    <2>1. Safe(name)
      BY <1>3, SafeIs
    <2>2. name[1] \in Alnums /\ 1 \in DOMAIN name
      BY <2>1 DEF Safe
    <2>3. Kept(name) # {}
      BY <2>2 DEF Kept
    <2> QED
      BY <1>1, <1>3, <2>1, <2>3 DEF base
  <1>4. CASE ~IsOpensshSafeAlias(name) /\ Kept(name) = {}
    BY <1>1, <1>2, <1>4, SafeTexts DEF base
  <1>5. CASE ~IsOpensshSafeAlias(name) /\ Kept(name) # {}
    <2>1. base = Trimmed(m) /\ Made(base, name)
      BY <1>1, <1>2, <1>5
    <2>2. base \in Seq(NamePieces) /\ base # <<>> /\ base[1] \in Alnums /\ base[Len(base)] \in Alnums
      BY <2>1 DEF Made, Spelled, AliasTexts
    <2>3. Safe(base)
      <3>1. base \in Seq(SafeMarks)
        BY <2>2, SafeTexts, SeqMonotonic
      <3> QED
        BY <2>2, <3>1 DEF Safe
    <2>4. IsJoined(base, name)
      BY <2>1 DEF Made, Spelled, IsJoined
    <2> QED
      BY <1>5, <2>3, <2>4 DEF base
  <1> QED
    BY <1>3, <1>4, <1>5

(* A qualified name is a command that connects. *)
LEMMA OfferedIs ==
  ASSUME NEW text, Safe(text), "." \in ToSet(text)
  PROVE  text # None /\ IsOpensshSafeAlias(text) /\ ValidAlias(text, Alnums, {".", "_", "-"})
  <1>1. text \in NameTexts
    BY SafeTexts
  <1>2. text # None
    BY <1>1, NoneAssumption DEF NameTexts
  <1>3. IsOpensshSafeAlias(text) /\ ToSet(text) \subseteq Alnums \union {".", "_", "-"}
    BY <1>1, SafeIs DEF IsOpensshSafeAlias, Within
  <1>4. text # <<>> /\ text[1] \in Alnums
    BY DEF Safe
  <1>5. text \notin Reserved
    BY ReservedAssumption
  <1>6. Meaning(text) = "connect"
    <2>1. text[1] # "-"
      BY <1>4, NamePiecesAre
    <2> QED
      BY <1>5, <2>1 DEF Meaning
  <1> DEFINE words == <<text>>
  <1>7. words[1] = text /\ Tail(words) = <<>>
    OBVIOUS
  <1> HIDE DEF words
  <1>8. Parse(words).kind = "connect"
    BY <1>6, <1>7 DEF Parse
  <1> QED
    BY <1>2, <1>3, <1>4, <1>8 DEF ValidAlias, words

(* The Host line of a target: its patterns are its aliases. *)
LEMMA PatternsAre ==
  ASSUME NEW c, NEW blocked, NEW line \in HostLines(c, blocked),
         \A p \in DOMAIN c : AllocateAliases(c[p].name, p = 1, c[p].targets) # None
  PROVE  /\ IsValidProfileName(c[line.profile].name)
         /\ line.aliases.qualified \in line.patterns
         /\ \A p \in line.patterns :
              \/ p = line.aliases.qualified
              \/ p = Resolved(c[line.profile].targets, line.target)
  <1>1. PICK p \in DOMAIN c : \E i \in DOMAIN c[p].targets :
          LET aliases == AllocateAliases(c[p].name, p = 1, c[p].targets) IN
          line = [profile |-> p, target |-> i, aliases |-> aliases[i],
                  patterns |-> HostAliases(aliases[i], blocked)]
    BY DEF HostLines
  <1> DEFINE targets == c[p].targets
             aliases == AllocateAliases(c[p].name, p = 1, targets)
  <1>2. PICK i \in DOMAIN targets :
          line = [profile |-> p, target |-> i, aliases |-> aliases[i],
                  patterns |-> HostAliases(aliases[i], blocked)]
    BY <1>1
  <1>3. /\ line.profile = p /\ line.target = i /\ line.aliases = aliases[i]
        /\ line.patterns = HostAliases(aliases[i], blocked)
    BY <1>2
  <1>4. aliases # None
    OBVIOUS
  <1>5. /\ IsValidProfileName(c[p].name)
        /\ aliases = [k \in DOMAIN targets |->
                        [short |-> IF p = 1 THEN Resolved(targets, k) ELSE None,
                         qualified |-> Resolved(targets, k) \o <<".">> \o c[p].name]]
    BY <1>4 DEF AllocateAliases
  <1>6. aliases[i].short = None \/ aliases[i].short = Resolved(targets, i)
    <2> HIDE DEF aliases, targets
    <2> QED
      BY <1>5
  <1> HIDE DEF aliases, targets
  <1>7. HostAliases(aliases[i], blocked) \subseteq {aliases[i].short, aliases[i].qualified}
        /\ aliases[i].qualified \in HostAliases(aliases[i], blocked)
        /\ (aliases[i].short \in HostAliases(aliases[i], blocked) =>
              aliases[i].short # None \/ aliases[i].short = aliases[i].qualified)
    BY DEF HostAliases
  <1>8. \A x \in HostAliases(aliases[i], blocked) :
          x = aliases[i].qualified \/ x = Resolved(targets, i)
    BY <1>6, <1>7
  <1>9. Resolved(targets, i) = Resolved(c[line.profile].targets, line.target)
    BY <1>3 DEF targets
  <1>10. line.aliases.qualified = aliases[i].qualified
    BY <1>3
  <1>11. IsValidProfileName(c[line.profile].name)
    BY <1>3, <1>5
  <1>12. line.aliases.qualified \in line.patterns
    BY <1>3, <1>7, <1>10
  <1>13. \A x \in line.patterns :
           \/ x = line.aliases.qualified
           \/ x = Resolved(c[line.profile].targets, line.target)
    BY <1>3, <1>8, <1>9, <1>10
  <1> QED
    BY <1>11, <1>12, <1>13

(* allocate_aliases, render_profile and shell_aliases: for any targets     *)
(* with any names, every pattern of a Host line is a name ssh can be       *)
(* given, the qualified one is offered to the shell, and it is made of     *)
(* what the target is called.                                              *)
THEOREM TargetsAreReachable == AliasSpec => []TargetsReachable
  <1> DEFINE Reachable(w) ==
               w.task = "aliases" =>
                 \A l \in w.output :
                   LET name == w.input[l.profile].targets[l.target].name
                       base == TargetAliasBase(name)
                   IN /\ \A p \in l.patterns : IsOpensshSafeAlias(p)
                      /\ l.aliases.qualified \in l.patterns \intersect Offered(w.output)
                      /\ IF Kept(name) = {} THEN base = Anonymous
                         ELSE base = name \/ IsJoined(base, name)
  <1>0. TargetsReachable = Reachable(work) /\ TargetsReachable' = Reachable(work')
    BY Zenon DEF TargetsReachable
  <1>1. work = Idle => TargetsReachable
    BY DEF Idle, TargetsReachable
  <1>2. ASSUME TargetsReachable, [RenderAliases]_work PROVE TargetsReachable'
    <2>1. CASE UNCHANGED work
      <3> HIDE DEF Reachable
      <3> QED
        BY <1>0, <1>2, <2>1
    <2>2. CASE RenderAliases
      <3>1. PICK c \in Configurations, blocked \in ManualHosts :
              /\ \A p \in DOMAIN c : AllocateAliases(c[p].name, p = 1, c[p].targets) # None
              /\ work' = [task |-> "aliases", input |-> c, output |-> HostLines(c, blocked)]
        BY <2>2 DEF RenderAliases, Evaluate
      <3> DEFINE lines == HostLines(c, blocked)
      <3>2. work'.input = c /\ work'.output = lines
        BY <3>1
      <3>3. ASSUME NEW l \in lines
            PROVE  LET name == c[l.profile].targets[l.target].name
                       base == TargetAliasBase(name)
                   IN /\ \A p \in l.patterns : IsOpensshSafeAlias(p)
                      /\ l.aliases.qualified \in l.patterns \intersect Offered(lines)
                      /\ IF Kept(name) = {} THEN base = Anonymous
                         ELSE base = name \/ IsJoined(base, name)
        <4> DEFINE p == l.profile
                   targets == c[p].targets
                   i == l.target
                   name == targets[i].name
                   base == TargetAliasBase(name)
                   q == l.aliases.qualified
                   r == Resolved(targets, i)
        <4>1. /\ p \in DOMAIN c /\ i \in DOMAIN targets
              /\ q = (r \o <<".">>) \o c[p].name
          BY <3>1, HostLineIs
        <4>2. /\ IsValidProfileName(c[p].name) /\ q \in l.patterns
              /\ \A x \in l.patterns : x = q \/ x = r
          BY <3>1, PatternsAre
        <4>3. /\ name \in NameTexts /\ targets[i].id \in DOMAIN Suffix
          <5>1. targets \in Seq([id: DOMAIN Suffix, name: Seq(Characters)])
            BY <4>1, ConfigurationAssumption
          <5> HIDE DEF targets, i
          <5>2. targets[i] \in [id: DOMAIN Suffix, name: Seq(Characters)]
            BY <4>1, <5>1, LenProperties, ElementOfSeq
          <5> QED
            BY <5>2 DEF NameTexts
        <4>4. /\ Safe(base)
              /\ IF Kept(name) = {} THEN base = Anonymous ELSE base = name \/ IsJoined(base, name)
          <5> HIDE DEF name
          <5> QED
            BY <4>3, BaseIs
        <4>5. r = base \/ r = (base \o <<"-">>) \o Suffix[targets[i].id]
          BY DEF Resolved, BaseOf
        <4>6. Safe(Suffix[targets[i].id]) /\ Safe(c[p].name)
          <5>1. c[p].name \in NameTexts
            BY <4>1, ConfigurationAssumption DEF NameTexts
          <5> QED
            BY <4>2, <4>3, <5>1, SafeTexts
        <4> HIDE DEF p, targets, i, name, base, q, r
        <4>7. Safe(r)
          <5>1. "-" \in SafeMarks
            BY DEF SafeMarks
          <5> QED
            BY <4>4, <4>5, <4>6, <5>1, SafeJoined
        <4>8. Safe(q) /\ "." \in ToSet(q)
          <5>1. "." \in SafeMarks
            BY DEF SafeMarks
          <5> QED
            BY <4>1, <4>6, <4>7, <5>1, SafeJoined
        <4>9. q # None /\ IsOpensshSafeAlias(q) /\ ValidAlias(q, Alnums, {".", "_", "-"})
          BY <4>8, OfferedIs
        <4>10. IsOpensshSafeAlias(r)
          BY <4>7, SafeTexts, SafeIs
        <4>11. q \in Offered(lines)
          <5> HIDE DEF lines
          <5>1. q \in {l.aliases.qualified, l.aliases.short} \ {None}
            BY <4>9 DEF q
          <5> QED
            BY <4>9, <5>1 DEF Offered
        <4>12. \A x \in l.patterns : IsOpensshSafeAlias(x)
          BY <4>2, <4>9, <4>10
        <4> HIDE DEF lines
        <4> QED
          BY <4>2, <4>4, <4>11, <4>12 DEF p, targets, i, name, base, q
      <3> HIDE DEF lines
      <3>4. Reachable(work')
        BY <3>2, <3>3
      <3> HIDE DEF Reachable
      <3> QED
        BY <1>0, <3>4
    <2> QED
      BY <1>2, <2>1, <2>2
  <1> QED
    BY <1>1, <1>2, PTL DEF AliasSpec

-----------------------------------------------------------------------------
(* What a search from a file on may be *)
Searching == [Paths -> [Searches -> Searches]]
Lowers    == {LowerHost(p) : p \in Patterns}

LEMMA ReadLineIn ==
  ASSUME NEW search \in Searching, NEW found \in Searches, NEW line \in ConfigurationLines
  PROVE  ReadLine(search, found, line) \in Searches
  <1>0. found.failed => ReadLine(search, found, line) = found
    BY Zenon DEF ReadLine
  <1> SUFFICES ASSUME ~found.failed PROVE ReadLine(search, found, line) \in Searches
    BY <1>0
  <1>1. CASE line.kind = "host"
    <2> DEFINE named == {LowerHost(p) : p \in {q \in line.patterns : Literal(q)}}
    <2>1. line.patterns \subseteq Patterns
      BY <1>1 DEF ConfigurationLines
    <2>2. named \subseteq Lowers
      BY <2>1 DEF Lowers
    <2>3. ReadLine(search, found, line) = [found EXCEPT !.aliases = @ \union named]
      BY <1>1 DEF ReadLine
    <2> HIDE DEF named
    <2> QED
      BY <2>2, <2>3 DEF Searches, Lowers
  <1>2. CASE line.kind = "include"
    <2>1. line.file \in Paths
      BY <1>2 DEF ConfigurationLines
    <2> QED
      BY <1>2, <2>1 DEF ReadLine, Searching
  <1>3. CASE line.kind \notin {"host", "include"}
    <2>1. ReadLine(search, found, line) = [found EXCEPT !.failed = TRUE]
      BY <1>3 DEF ReadLine
    <2> QED
      BY <2>1 DEF Searches
  <1> QED
    BY <1>1, <1>2, <1>3

LEMMA ReadLinesIs ==
  ASSUME NEW search \in Searching, NEW found \in Searches, NEW lines \in Seq(ConfigurationLines)
  PROVE  \E f \in [0 .. Len(lines) -> Searches] :
           /\ f[0] = found
           /\ \A i \in 1 .. Len(lines) : f[i] = ReadLine(search, f[i - 1], lines[i])
           /\ ReadLines(search, found, lines) = f[Len(lines)]
  <1> DEFINE n == Len(lines)
             read[i \in 0 .. Len(lines)] ==
               IF i = 0 THEN found ELSE ReadLine(search, read[i - 1], lines[i])
             step == [i \in 1 .. n |-> [x \in Searches |-> ReadLine(search, x, lines[i])]]
  <1>1. n \in Nat /\ \A i \in 1 .. n : lines[i] \in ConfigurationLines
    OBVIOUS
  <1>2. step \in [1 .. n -> [Searches -> Searches]]
    BY <1>1, ReadLineIn
  <1>3. PICK f \in [0 .. n -> Searches] : Steps(f, n, found, step)
    <2> HIDE DEF n, step
    <2> QED
      BY <1>1, <1>2, Recursion
  <1>4. f[0] = found /\ \A i \in 1 .. n : f[i - 1] \in Searches /\ f[i] = ReadLine(search, f[i - 1], lines[i])
    <2>1. \A i \in 1 .. n : i - 1 \in 0 .. n
      <3> HIDE DEF n
      <3> QED
        BY <1>1
    <2>2. f[0] = found /\ \A i \in 1 .. n : f[i] = step[i][f[i - 1]]
      BY <1>3 DEF Steps
    <2> HIDE DEF n
    <2> QED
      BY <2>1, <2>2
  <1>5. f = [i \in 0 .. n |-> IF i = 0 THEN found ELSE ReadLine(search, f[i - 1], lines[i])]
    <2> HIDE DEF n, step
    <2> QED
      BY <1>1, <1>4
  <1>6. read = [i \in 0 .. n |-> IF i = 0 THEN found ELSE ReadLine(search, read[i - 1], lines[i])]
    BY <1>5
  <1>7. ReadLines(search, found, lines) = read[n]
    BY DEF ReadLines
  <1> HIDE DEF read, n, step
  <1>8. read[0] = found /\ \A i \in 1 .. n : read[i] = ReadLine(search, read[i - 1], lines[i])
    BY <1>1, <1>6
  <1>9. \A i \in 0 .. n : read[i] \in Searches
    <2>1. DOMAIN read = 0 .. n /\ read[0] \in Searches
      BY <1>6, <1>8
    <2>2. \A i \in 1 .. n : read[i - 1] \in Searches => read[i] \in Searches
      BY <1>1, <1>8, ReadLineIn
    <2> QED
      BY <1>1, <2>1, <2>2, StaysIn, Zenon
  <1>10. read \in [0 .. n -> Searches]
    BY <1>6, <1>9
  <1> QED
    BY <1>7, <1>8, <1>10 DEF n

LEMMA ReadFileIn ==
  ASSUME NEW tree \in Trees, NEW search \in Searching, NEW file \in Paths, NEW found \in Searches
  PROVE  ReadFile(tree, search, file, found) \in Searches
  <1> DEFINE start == [found EXCEPT !.visited = @ \union {file}]
  <1>1. start \in Searches /\ [start EXCEPT !.failed = TRUE] \in Searches
    BY DEF Searches
  <1> HIDE DEF start
  <1>2. file \in DOMAIN tree.files => ReadLines(search, start, tree.files[file]) \in Searches
    <2> SUFFICES ASSUME file \in DOMAIN tree.files
                 PROVE  ReadLines(search, start, tree.files[file]) \in Searches
      OBVIOUS
    <2> DEFINE lines == tree.files[file]
    <2>1. lines \in Seq(ConfigurationLines)
      BY TreeAssumption
    <2> HIDE DEF lines
    <2>2. PICK f \in [0 .. Len(lines) -> Searches] : ReadLines(search, start, lines) = f[Len(lines)]
      BY <1>1, <2>1, ReadLinesIs
    <2>3. Len(lines) \in 0 .. Len(lines)
      BY <2>1
    <2> QED
      BY <2>2, <2>3 DEF lines
  <1> QED
    BY <1>1, <1>2 DEF ReadFile, start

(* One more nested call *)
Deeper(tree, search) ==
  [file \in Paths |-> [found \in Searches |-> ReadFile(tree, search, file, found)]]

LEMMA CollectIs ==
  ASSUME NEW tree \in Trees
  PROVE  \E f \in [0 .. Cardinality(Paths) + 1 -> Searching] :
           /\ \A i \in 1 .. Cardinality(Paths) + 1 : f[i] = Deeper(tree, f[i - 1])
           /\ CollectAliases(tree) = f[Cardinality(Paths) + 1]
  <1> DEFINE n == Cardinality(Paths) + 1
             base == [file \in Paths |-> [found \in Searches |-> found]]
             collect[depth \in 0 .. Cardinality(Paths) + 1] ==
               [file \in Paths |-> [found \in Searches |->
                  IF depth = 0 THEN found ELSE ReadFile(tree, collect[depth - 1], file, found)]]
             step == [i \in 1 .. n |-> [x \in Searching |-> Deeper(tree, x)]]
  <1>1. n \in Nat
    BY TreeAssumption, FS_CardinalityType
  <1>2. base \in Searching
    BY DEF Searching
  <1>3. \A x \in Searching : Deeper(tree, x) \in Searching
    BY ReadFileIn DEF Searching, Deeper
  <1>4. step \in [1 .. n -> [Searching -> Searching]]
    BY <1>3
  <1>5. PICK f \in [0 .. n -> Searching] : Steps(f, n, base, step)
    <2> HIDE DEF n, base, step
    <2> QED
      BY <1>1, <1>2, <1>4, Recursion
  <1>6. f[0] = base /\ \A i \in 1 .. n : f[i - 1] \in Searching /\ f[i] = Deeper(tree, f[i - 1])
    <2>1. \A i \in 1 .. n : i - 1 \in 0 .. n
      <3> HIDE DEF n
      <3> QED
        BY <1>1
    <2>2. f[0] = base /\ \A i \in 1 .. n : f[i] = step[i][f[i - 1]]
      BY <1>5 DEF Steps
    <2> HIDE DEF n, base
    <2> QED
      BY <2>1, <2>2
  <1>7. f = [depth \in 0 .. n |->
               [file \in Paths |-> [found \in Searches |->
                  IF depth = 0 THEN found ELSE ReadFile(tree, f[depth - 1], file, found)]]]
    <2> HIDE DEF n, step
    <2>1. \A depth \in 0 .. n : depth # 0 => depth \in 1 .. n
      BY <1>1
    <2>2. ASSUME NEW depth \in 0 .. n
          PROVE  f[depth] = [file \in Paths |-> [found \in Searches |->
                   IF depth = 0 THEN found ELSE ReadFile(tree, f[depth - 1], file, found)]]
      <3>1. CASE depth = 0
        BY <1>6, <3>1
      <3>2. CASE depth # 0
        <4>1. f[depth] = Deeper(tree, f[depth - 1])
          BY <1>6, <2>1, <3>2
        <4>2. Deeper(tree, f[depth - 1]) =
                [file \in Paths |-> [found \in Searches |->
                   IF depth = 0 THEN found ELSE ReadFile(tree, f[depth - 1], file, found)]]
          BY <3>2 DEF Deeper
        <4> QED
          BY <4>1, <4>2
      <3> QED
        BY <3>1, <3>2
    <2> QED
      BY <2>2
  <1>8. collect = [depth \in 0 .. n |->
                     [file \in Paths |-> [found \in Searches |->
                        IF depth = 0 THEN found ELSE ReadFile(tree, collect[depth - 1], file, found)]]]
    BY <1>7
  <1>9. CollectAliases(tree) = collect[n]
    BY DEF CollectAliases
  <1> HIDE DEF collect, n, step
  <1>10. collect[0] = base /\ \A i \in 1 .. n : collect[i] = Deeper(tree, collect[i - 1])
    <2>1. 0 \in 0 .. n /\ \A i \in 1 .. n : i \in 0 .. n /\ i # 0
      BY <1>1
    <2> QED
      BY <1>8, <2>1 DEF Deeper
  <1>11. \A i \in 0 .. n : collect[i] \in Searching
    <2>1. DOMAIN collect = 0 .. n /\ collect[0] \in Searching
      BY <1>2, <1>8, <1>10
    <2>2. \A i \in 1 .. n : collect[i - 1] \in Searching => collect[i] \in Searching
      BY <1>3, <1>10
    <2> QED
      BY <1>1, <2>1, <2>2, StaysIn, Zenon
  <1>12. collect \in [0 .. n -> Searching]
    BY <1>8, <1>11
  <1> QED
    BY <1>9, <1>10, <1>12 DEF n

(* The hosts that lines declare, and the user's files among those that     *)
(* have been visited since                                                 *)
Named(P)             == {LowerHost(p) : p \in {q \in P : Literal(q)}}
New(tree, before, x) == (x.visited \ before.visited) \intersect UserFiles(tree)
Hosts(lines, i) ==
  {q \in Patterns : \E j \in 1 .. i : lines[j].kind = "host" /\ q \in lines[j].patterns}
FileHosts(tree, S) ==
  {q \in Patterns : \E file \in S : \E line \in ToSet(tree.files[file]) :
                      line.kind = "host" /\ q \in line.patterns}

(* What a search has done when it returns *)
Searched(tree, file, found, x) ==
  /\ found.visited \subseteq x.visited
  /\ file \in UserFiles(tree) => file \in x.visited
  /\ \A g \in New(tree, found, x) : Included(tree, g) \subseteq x.visited
  /\ x.aliases = found.aliases \union Declared(tree, New(tree, found, x))
  /\ \A S \in SUBSET UserFiles(tree) :
       Closed(tree, S) /\ (file \in UserFiles(tree) => file \in S)
         => New(tree, found, x) \subseteq S

(* What it has done after the first lines of a file *)
Progress(tree, file, start, i, x) ==
  LET lines == tree.files[file] IN
  /\ start.visited \subseteq x.visited
  /\ \A j \in 1 .. i : lines[j].kind = "include" /\ lines[j].file \in UserFiles(tree)
                         => lines[j].file \in x.visited
  /\ \A g \in New(tree, start, x) : Included(tree, g) \subseteq x.visited
  /\ x.aliases = (start.aliases \union Declared(tree, New(tree, start, x)))
                   \union Named(Hosts(lines, i))
  /\ \A S \in SUBSET UserFiles(tree) :
       Closed(tree, S) /\ file \in S => New(tree, start, x) \subseteq S

(* A search ends with an error: whatever files are closed under includes   *)
(* and have the one it began with, one of them cannot be read.             *)
Barred(tree, file) ==
  \A S \in SUBSET UserFiles(tree) :
    Closed(tree, S) /\ (file \in UserFiles(tree) => file \in S)
      => \E g \in S : Bars(tree, g)

Outcome(tree, file, found, x) ==
  IF x.failed THEN Barred(tree, file)
  ELSE /\ Searched(tree, file, found, x)
       /\ \A g \in New(tree, found, x) : ~Bars(tree, g)

LinesOutcome(tree, file, start, i, x) ==
  IF x.failed THEN Barred(tree, file)
  ELSE /\ Progress(tree, file, start, i, x)
       /\ \A g \in New(tree, start, x) : ~Bars(tree, g)
       /\ \A j \in 1 .. i : tree.files[file][j].kind # "invalid"

LEMMA NamedUnion ==
  ASSUME NEW P, NEW Q
  PROVE  Named(P \union Q) = Named(P) \union Named(Q)
  BY DEF Named

LEMMA DeclaredIs ==
  ASSUME NEW tree, NEW S
  PROVE  Declared(tree, S) = Named(FileHosts(tree, S))
  <1>1. {q \in Patterns : /\ Literal(q)
                          /\ \E file \in S : \E line \in ToSet(tree.files[file]) :
                               line.kind = "host" /\ q \in line.patterns}
          = {q \in FileHosts(tree, S) : Literal(q)}
    BY DEF FileHosts
  <1> QED
    BY <1>1 DEF Declared, Named

LEMMA DeclaredUnion ==
  ASSUME NEW tree, NEW S, NEW T
  PROVE  Declared(tree, S \union T) = Declared(tree, S) \union Declared(tree, T)
  <1>1. FileHosts(tree, S \union T) = FileHosts(tree, S) \union FileHosts(tree, T)
    BY DEF FileHosts
  <1> QED
    BY <1>1, DeclaredIs, NamedUnion

LEMMA DeclaredNone ==
  ASSUME NEW tree
  PROVE  Declared(tree, {}) = {}
  <1>1. FileHosts(tree, {}) = {}
    BY DEF FileHosts
  <1> QED
    BY <1>1, DeclaredIs DEF Named

LEMMA DeclaredFile ==
  ASSUME NEW tree \in Trees, NEW file \in DOMAIN tree.files
  PROVE  Declared(tree, {file}) = Named(Hosts(tree.files[file], Len(tree.files[file])))
  <1> DEFINE lines == tree.files[file]
  <1>1. lines \in Seq(ConfigurationLines)
    BY TreeAssumption
  <1>2. ToSet(lines) = {lines[j] : j \in 1 .. Len(lines)}
    BY <1>1 DEF ToSet
  <1>3. FileHosts(tree, {file}) = {q \in Patterns : \E line \in ToSet(lines) :
                                      line.kind = "host" /\ q \in line.patterns}
    BY DEF FileHosts
  <1> HIDE DEF lines
  <1>4. FileHosts(tree, {file}) = Hosts(lines, Len(lines))
    BY <1>2, <1>3 DEF Hosts
  <1> QED
    BY <1>4, DeclaredIs DEF lines

(* A search that found all files visited, or not its own to read *)
LEMMA AtOnce ==
  ASSUME NEW tree \in Trees, NEW file \in Paths, NEW found \in Searches,
         NEW x \in Searches, found.visited \subseteq x.visited,
         x.visited \subseteq found.visited \union {file}, x.aliases = found.aliases,
         file \notin UserFiles(tree) \/ file \in found.visited
  PROVE  Searched(tree, file, found, x) /\ New(tree, found, x) = {}
  <1>1. New(tree, found, x) = {}
    BY DEF New
  <1> QED
    BY <1>1, DeclaredNone DEF Searched

LEMMA NextLine ==
  ASSUME NEW tree \in Trees, NEW file \in UserFiles(tree), NEW start \in Searches,
         NEW search \in Searching,
         \A g \in Paths : \A y \in Searches :
           start.visited \subseteq y.visited /\ ~y.failed => Outcome(tree, g, y, search[g][y]),
         NEW i \in 1 .. Len(tree.files[file]), NEW x \in Searches,
         LinesOutcome(tree, file, start, i - 1, x)
  PROVE  LinesOutcome(tree, file, start, i, ReadLine(search, x, tree.files[file][i]))
  <1> DEFINE lines == tree.files[file]
             line  == lines[i]
             r     == ReadLine(search, x, line)
  <1>1. lines \in Seq(ConfigurationLines)
    BY TreeAssumption DEF UserFiles
  <1>2. line \in ConfigurationLines /\ line \in ToSet(lines)
    BY <1>1 DEF ToSet
  <1>3. i \in Nat /\ \A j \in 1 .. i : j \in 1 .. i - 1 \/ j = i
    BY <1>1
  <1>4. i - 1 \in Nat /\ \A j \in 1 .. i - 1 : j \in 1 .. i
    BY <1>3
  <1>5. i \in 1 .. i
    BY <1>3
  <1>a. x.failed => r = x
    BY Zenon DEF ReadLine
  <1>b. x.failed => LinesOutcome(tree, file, start, i, x)
    BY DEF LinesOutcome
  <1> SUFFICES ASSUME ~x.failed PROVE LinesOutcome(tree, file, start, i, r)
    BY Zenon, <1>a, <1>b
  <1>0. /\ Progress(tree, file, start, i - 1, x)
        /\ \A h \in New(tree, start, x) : ~Bars(tree, h)
        /\ \A j \in 1 .. i - 1 : lines[j].kind # "invalid"
    BY DEF LinesOutcome
  <1>6. /\ start.visited \subseteq x.visited
        /\ \A j \in 1 .. i - 1 : lines[j].kind = "include" /\ lines[j].file \in UserFiles(tree)
                                   => lines[j].file \in x.visited
        /\ \A g \in New(tree, start, x) : Included(tree, g) \subseteq x.visited
        /\ x.aliases = (start.aliases \union Declared(tree, New(tree, start, x)))
                         \union Named(Hosts(lines, i - 1))
        /\ \A S \in SUBSET UserFiles(tree) :
             Closed(tree, S) /\ file \in S => New(tree, start, x) \subseteq S
    BY <1>0 DEF Progress
  <1>7. CASE line.kind = "host"
    <2>1. line.patterns \subseteq Patterns
      BY <1>2, <1>7 DEF ConfigurationLines
    <2>2. r = [x EXCEPT !.aliases = @ \union Named(line.patterns)]
      BY <1>7 DEF ReadLine, Named
    <2> HIDE DEF r
    <2>3. /\ r.visited = x.visited /\ r.aliases = x.aliases \union Named(line.patterns)
          /\ r.failed = x.failed
      BY <2>2 DEF Searches
    <2>4. New(tree, start, r) = New(tree, start, x)
      BY <2>3 DEF New
    <2>5. Hosts(lines, i) = Hosts(lines, i - 1) \union line.patterns
      <3> HIDE DEF lines
      <3> QED
        BY <1>3, <1>4, <1>5, <1>7, <2>1 DEF Hosts
    <2>6. Named(Hosts(lines, i)) = Named(Hosts(lines, i - 1)) \union Named(line.patterns)
      BY <2>5, NamedUnion
    <2>7. \A j \in 1 .. i : lines[j].kind = "include" /\ lines[j].file \in UserFiles(tree)
                              => lines[j].file \in r.visited
      BY <1>3, <1>6, <1>7, <2>3
    <2>8. r.aliases = (start.aliases \union Declared(tree, New(tree, start, r)))
                         \union Named(Hosts(lines, i))
      BY <1>6, <2>3, <2>4, <2>6
    <2>9. Progress(tree, file, start, i, r)
      BY <1>6, <2>3, <2>4, <2>7, <2>8 DEF Progress
    <2>10. \A j \in 1 .. i : lines[j].kind # "invalid"
      BY <1>0, <1>3, <1>7
    <2> QED
      BY <1>0, <2>3, <2>4, <2>9, <2>10 DEF LinesOutcome
  <1>8. CASE line.kind = "include"
    <2>1. line.file \in Paths
      BY <1>2, <1>8 DEF ConfigurationLines
    <2> DEFINE g == line.file
    <2>2. r = search[g][x]
      BY <1>8 DEF ReadLine
    <2>3a. r \in Searches /\ Outcome(tree, g, x, r)
      BY <1>6, <2>1, <2>2 DEF Searching
    <2>4. g \in UserFiles(tree) => g \in Included(tree, file)
      BY <1>2, <1>8 DEF Included
    <2> HIDE DEF r
    <2> SUFFICES ASSUME ~r.failed PROVE LinesOutcome(tree, file, start, i, r)
      <3>1. ASSUME Barred(tree, g) PROVE Barred(tree, file)
        <4>1. \A S \in SUBSET UserFiles(tree) :
                Closed(tree, S) /\ file \in S /\ g \in UserFiles(tree) => g \in S
          BY <2>4 DEF Closed
        <4> QED
          BY <3>1, <4>1 DEF Barred
      <3> QED
        BY <2>3a, <3>1 DEF Outcome, LinesOutcome
    <2>3. Searched(tree, g, x, r) /\ \A h \in New(tree, x, r) : ~Bars(tree, h)
      BY <2>3a DEF Outcome
    <2>5. /\ x.visited \subseteq r.visited
          /\ g \in UserFiles(tree) => g \in r.visited
          /\ \A h \in New(tree, x, r) : Included(tree, h) \subseteq r.visited
          /\ r.aliases = x.aliases \union Declared(tree, New(tree, x, r))
          /\ \A S \in SUBSET UserFiles(tree) :
               Closed(tree, S) /\ (g \in UserFiles(tree) => g \in S)
                 => New(tree, x, r) \subseteq S
      BY <2>3 DEF Searched
    <2>6. New(tree, start, r) = New(tree, start, x) \union New(tree, x, r)
      BY <1>6, <2>5 DEF New
    <2>7. Hosts(lines, i) = Hosts(lines, i - 1)
      <3> HIDE DEF lines
      <3> QED
        BY <1>3, <1>4, <1>8 DEF Hosts
    <2>8. start.visited \subseteq r.visited
      BY <1>6, <2>5
    <2>9. \A j \in 1 .. i : lines[j].kind = "include" /\ lines[j].file \in UserFiles(tree)
                              => lines[j].file \in r.visited
      BY <1>3, <1>6, <2>5
    <2>10. \A h \in New(tree, start, r) : Included(tree, h) \subseteq r.visited
      BY <1>6, <2>5, <2>6
    <2>11. r.aliases = (start.aliases \union Declared(tree, New(tree, start, r)))
                         \union Named(Hosts(lines, i))
      <3>1. Declared(tree, New(tree, start, r)) =
              Declared(tree, New(tree, start, x)) \union Declared(tree, New(tree, x, r))
        BY <2>6, DeclaredUnion
      <3> QED
        BY <1>6, <2>5, <2>7, <3>1
    <2>12. ASSUME NEW S \in SUBSET UserFiles(tree), Closed(tree, S), file \in S
           PROVE  New(tree, start, r) \subseteq S
      <3>1. g \in UserFiles(tree) => g \in S
        BY <2>4, <2>12 DEF Closed
      <3> QED
        BY <1>6, <2>5, <2>6, <2>12, <3>1
    <2>13. Progress(tree, file, start, i, r)
      BY <2>8, <2>9, <2>10, <2>11, <2>12 DEF Progress
    <2>14. \A h \in New(tree, start, r) : ~Bars(tree, h)
      BY <1>0, <2>3, <2>6
    <2>15. \A j \in 1 .. i : lines[j].kind # "invalid"
      BY <1>0, <1>3, <1>8
    <2> QED
      BY <2>13, <2>14, <2>15 DEF LinesOutcome
  <1>9. CASE line.kind \notin {"host", "include"}
    <2>1. line.kind = "invalid"
      BY <1>2, <1>9 DEF ConfigurationLines
    <2>a. r = [x EXCEPT !.failed = TRUE]
      BY <1>9 DEF ReadLine
    <2> HIDE DEF r
    <2>2. r.failed
      BY <2>a DEF Searches
    <2>3. Bars(tree, file)
      BY <1>2, <2>1 DEF Bars
    <2> QED
      BY <2>2, <2>3 DEF LinesOutcome, Barred
  <1> QED
    BY <1>7, <1>8, <1>9

LEMMA WholeFile ==
  ASSUME NEW tree \in Trees, NEW file \in UserFiles(tree), NEW found \in Searches,
         NEW start \in Searches, NEW x \in Searches, file \notin found.visited,
         start.visited = found.visited \union {file}, start.aliases = found.aliases,
         file \notin tree.unreadable,
         LinesOutcome(tree, file, start, Len(tree.files[file]), x)
  PROVE  Outcome(tree, file, found, x)
  <1> DEFINE lines == tree.files[file]
             n     == Len(lines)
  <1>1. lines \in Seq(ConfigurationLines) /\ file \in DOMAIN tree.files
    BY TreeAssumption DEF UserFiles
  <1> SUFFICES ASSUME ~x.failed PROVE Outcome(tree, file, found, x)
    BY DEF LinesOutcome, Outcome
  <1>0. /\ Progress(tree, file, start, n, x)
        /\ \A g \in New(tree, start, x) : ~Bars(tree, g)
        /\ \A j \in 1 .. n : lines[j].kind # "invalid"
    BY DEF LinesOutcome
  <1>2. /\ start.visited \subseteq x.visited
        /\ \A j \in 1 .. n : lines[j].kind = "include" /\ lines[j].file \in UserFiles(tree)
                               => lines[j].file \in x.visited
        /\ \A g \in New(tree, start, x) : Included(tree, g) \subseteq x.visited
        /\ x.aliases = (start.aliases \union Declared(tree, New(tree, start, x)))
                         \union Named(Hosts(lines, n))
        /\ \A S \in SUBSET UserFiles(tree) :
             Closed(tree, S) /\ file \in S => New(tree, start, x) \subseteq S
    BY <1>0 DEF Progress
  <1>3. New(tree, found, x) = {file} \union New(tree, start, x)
    BY <1>2 DEF New
  <1>4. Included(tree, file) \subseteq x.visited /\ ~Bars(tree, file)
    <2>1. ToSet(lines) = {lines[j] : j \in 1 .. n}
      BY <1>1 DEF ToSet
    <2> HIDE DEF n
    <2>2. Included(tree, file) \subseteq x.visited
      BY <1>2, <2>1 DEF Included
    <2>3. ~Bars(tree, file)
      BY <1>0, <2>1 DEF Bars
    <2> QED
      BY <2>2, <2>3
  <1>5. Declared(tree, New(tree, found, x)) =
          Named(Hosts(lines, n)) \union Declared(tree, New(tree, start, x))
    <2>1. Declared(tree, {file}) = Named(Hosts(lines, n))
      BY <1>1, DeclaredFile
    <2> QED
      BY <1>3, <2>1, DeclaredUnion
  <1>6. x.aliases = found.aliases \union Declared(tree, New(tree, found, x))
    BY <1>2, <1>5
  <1>7. \A S \in SUBSET UserFiles(tree) : Closed(tree, S) /\ file \in S
          => New(tree, found, x) \subseteq S
    BY <1>2, <1>3
  <1>8. found.visited \subseteq x.visited /\ file \in x.visited
    BY <1>2
  <1>9. \A g \in New(tree, found, x) : Included(tree, g) \subseteq x.visited
    BY <1>2, <1>3, <1>4
  <1>10. Searched(tree, file, found, x)
    BY <1>6, <1>7, <1>8, <1>9 DEF Searched
  <1> QED
    BY <1>0, <1>3, <1>4, <1>10 DEF Outcome

LEMMA FileSearched ==
  ASSUME NEW tree \in Trees, NEW file \in Paths, NEW found \in Searches,
         NEW search \in Searching, ~found.failed,
         file \notin found.visited =>
           \A g \in Paths : \A y \in Searches :
             found.visited \union {file} \subseteq y.visited /\ ~y.failed
               => Outcome(tree, g, y, search[g][y])
  PROVE  Outcome(tree, file, found, ReadFile(tree, search, file, found))
  <1> DEFINE start == [found EXCEPT !.visited = @ \union {file}]
             r     == ReadFile(tree, search, file, found)
  <1>1. /\ start \in Searches /\ start.visited = found.visited \union {file}
        /\ start.aliases = found.aliases /\ start.failed = FALSE
    BY DEF Searches
  <1>2. CASE SamePath(tree, file) \/ file \in found.visited
    <2>1. r = found
      BY <1>2 DEF ReadFile
    <2>2. file \notin UserFiles(tree) \/ file \in found.visited
      BY <1>2 DEF SamePath, UserFiles
    <2> HIDE DEF r
    <2>3. Searched(tree, file, found, found) /\ New(tree, found, found) = {}
      BY <2>2, AtOnce
    <2>4. Outcome(tree, file, found, r)
      BY <2>1, <2>3 DEF Outcome
    <2> QED
      BY <2>4 DEF r
  <1>3. CASE ~SamePath(tree, file) /\ file \notin found.visited /\ file \notin DOMAIN tree.files
    <2>1. r = start
      <3>1. file \notin tree.unreadable
        BY <1>3, TreeAssumption
      <3> HIDE DEF start
      <3> QED
        BY <1>3, <3>1 DEF ReadFile, start
    <2>2. file \notin UserFiles(tree)
      BY <1>3 DEF UserFiles
    <2> HIDE DEF start, r
    <2>4. Searched(tree, file, found, start) /\ New(tree, found, start) = {}
      BY <1>1, <2>2, AtOnce
    <2>3. Outcome(tree, file, found, start)
      BY <1>1, <2>4 DEF Outcome
    <2> QED
      BY <2>1, <2>3 DEF r
  <1>5. CASE ~SamePath(tree, file) /\ file \notin found.visited /\ file \in tree.unreadable
    <2>1. file \in DOMAIN tree.files
      BY <1>5, TreeAssumption
    <2>2. r = [start EXCEPT !.failed = TRUE]
      BY <1>5, <2>1 DEF ReadFile
    <2>3. r.failed
      BY <1>1, <2>2 DEF Searches
    <2>4. file \in UserFiles(tree) /\ Bars(tree, file)
      BY <1>5, <2>1 DEF UserFiles, SamePath, Bars
    <2> HIDE DEF r
    <2>5. Outcome(tree, file, found, r)
      BY <2>3, <2>4 DEF Outcome, Barred
    <2> QED
      BY <2>5 DEF r
  <1>4. CASE ~SamePath(tree, file) /\ file \notin found.visited /\ file \in DOMAIN tree.files
               /\ file \notin tree.unreadable
    <2> DEFINE lines == tree.files[file]
               n     == Len(lines)
    <2>1. r = ReadLines(search, start, lines)
      BY <1>4 DEF ReadFile
    <2>2. file \in UserFiles(tree) /\ lines \in Seq(ConfigurationLines)
      BY <1>4, TreeAssumption DEF UserFiles, SamePath
    <2>3. n \in Nat
      BY <2>2
    <2> HIDE DEF start, r
    <2>4. PICK f \in [0 .. n -> Searches] :
            /\ f[0] = start
            /\ \A i \in 1 .. n : f[i] = ReadLine(search, f[i - 1], lines[i])
            /\ r = f[n]
      <3> HIDE DEF lines
      <3> QED
        BY <1>1, <2>1, <2>2, ReadLinesIs
    <2> DEFINE S == {i \in 0 .. n : LinesOutcome(tree, file, start, i, f[i])}
    <2>5. 0 \in S
      <3>1. New(tree, start, start) = {} /\ Hosts(lines, 0) = {}
        BY DEF New, Hosts
      <3>2. Named({}) = {}
        BY DEF Named
      <3>3. LinesOutcome(tree, file, start, 0, start)
        BY <1>1, <3>1, <3>2, DeclaredNone DEF Progress, LinesOutcome
      <3> QED
        BY <2>3, <2>4, <3>3
    <2>6. ASSUME NEW i \in 1 .. n, i - 1 \in S PROVE i \in S
      <3>1. i \in 0 .. n /\ i - 1 \in 0 .. n /\ i \in 1 .. Len(tree.files[file])
        <4> HIDE DEF n, S
        <4>1. i \in 0 .. n /\ i - 1 \in 0 .. n
          BY <2>3
        <4> QED
          BY <4>1 DEF n
      <3>2. f[i - 1] \in Searches /\ LinesOutcome(tree, file, start, i - 1, f[i - 1])
        BY <2>6, <3>1
      <3>3. \A g \in Paths : \A y \in Searches :
              start.visited \subseteq y.visited /\ ~y.failed => Outcome(tree, g, y, search[g][y])
        BY <1>1, <1>4
      <3>4. LinesOutcome(tree, file, start, i, ReadLine(search, f[i - 1], tree.files[file][i]))
        BY <1>1, <2>2, <3>1, <3>2, <3>3, NextLine
      <3> QED
        BY <2>4, <3>1, <3>4
    <2>7. n \in S
      <3> HIDE DEF n, S
      <3> QED
        BY Zenon, <2>3, <2>5, <2>6, UpTo
    <2>8. LinesOutcome(tree, file, start, Len(tree.files[file]), r) /\ r \in Searches
      <3>1. n \in 0 .. n
        BY <2>7
      <3> QED
        BY <2>4, <2>7, <3>1
    <2>9. Outcome(tree, file, found, r)
      BY <1>1, <1>4, <2>2, <2>8, WholeFile
    <2> QED
      BY <2>9 DEF r
  <1> QED
    BY <1>2, <1>3, <1>4, <1>5

LEMMA SearchedAll ==
  ASSUME NEW tree \in Trees, NEW n \in Nat, NEW f \in [0 .. n -> Searching],
         \A i \in 1 .. n : f[i] = Deeper(tree, f[i - 1]),
         NEW file \in Paths, NEW found \in Searches, ~found.failed,
         Cardinality(Paths \ found.visited) < n
  PROVE  Outcome(tree, file, found, f[n][file][found])
  <1> DEFINE Done(i) == \A g \in Paths : \A y \in Searches :
                          Cardinality(Paths \ y.visited) < i /\ ~y.failed
                            => Outcome(tree, g, y, f[i][g][y])
             S == {i \in 0 .. n : Done(i)}
  <1>1. \A y \in Searches : /\ IsFiniteSet(Paths \ y.visited)
                            /\ Cardinality(Paths \ y.visited) \in Nat
    <2> TAKE y \in Searches
    <2>1. Paths \ y.visited \in SUBSET Paths
      OBVIOUS
    <2>2. IsFiniteSet(Paths \ y.visited)
      BY <2>1, TreeAssumption, FS_Subset
    <2> QED
      BY <2>2, FS_CardinalityType
  <1>2. 0 \in S
    <2>1. \A y \in Searches : ~(Cardinality(Paths \ y.visited) < 0)
      <3> TAKE y \in Searches
      <3> DEFINE c == Cardinality(Paths \ y.visited)
      <3>1. c \in Nat
        BY <1>1
      <3> HIDE DEF c
      <3>2. ~(c < 0)
        BY <3>1
      <3> QED
        BY <3>2 DEF c
    <2> QED
      BY <2>1
  <1>3. ASSUME NEW i \in 1 .. n, i - 1 \in S PROVE i \in S
    <2>1. i \in 0 .. n /\ i - 1 \in 0 .. n
      OBVIOUS
    <2>2. f[i - 1] \in Searching
      BY <2>1
    <2>3. ASSUME NEW g \in Paths, NEW y \in Searches, ~y.failed,
                 Cardinality(Paths \ y.visited) < i
          PROVE  Outcome(tree, g, y, f[i][g][y])
      <3>1. f[i][g][y] = ReadFile(tree, f[i - 1], g, y)
        <4>1. f[i] = Deeper(tree, f[i - 1])
          OBVIOUS
        <4> QED
          BY <4>1 DEF Deeper
      <3>2. ASSUME g \notin y.visited, NEW h \in Paths, NEW z \in Searches,
                   y.visited \union {g} \subseteq z.visited, ~z.failed
            PROVE  Outcome(tree, h, z, f[i - 1][h][z])
        <4>1. Cardinality((Paths \ y.visited) \ {g}) = Cardinality(Paths \ y.visited) - 1
              /\ IsFiniteSet((Paths \ y.visited) \ {g})
          BY <1>1, <3>2, FS_RemoveElement
        <4>2. Paths \ z.visited \in SUBSET ((Paths \ y.visited) \ {g})
          BY <3>2
        <4>3. Cardinality(Paths \ z.visited) <= Cardinality(Paths \ y.visited) - 1
          BY <4>1, <4>2, FS_Subset
        <4>4. Cardinality(Paths \ z.visited) < i - 1
          <5> DEFINE c == Cardinality(Paths \ z.visited)
                     d == Cardinality(Paths \ y.visited)
          <5>1. c \in Nat /\ d \in Nat /\ d < i /\ c <= d - 1
            BY <1>1, <2>3, <4>3
          <5> HIDE DEF c, d
          <5>2. c < i - 1
            BY <5>1
          <5> QED
            BY <5>2 DEF c
        <4> QED
          BY <1>3, <3>2, <4>4
      <3> QED
        BY <2>2, <2>3, <3>1, <3>2, FileSearched
    <2> QED
      BY <2>1, <2>3
  <1>4. n \in S
    <2> HIDE DEF S
    <2> QED
      BY Zenon, <1>2, <1>3, UpTo
  <1> QED
    BY <1>4

LEMMA HostsFound ==
  ASSUME NEW tree \in Trees
  PROVE  ManualHostAliases(tree)
           = IF \E file \in Reached(tree) : Bars(tree, file) THEN Failed
             ELSE Declared(tree, Reached(tree))
  <1> DEFINE n     == Cardinality(Paths) + 1
             found == [visited |-> {}, aliases |-> {}, failed |-> FALSE]
  <1>1. Cardinality(Paths) \in Nat /\ n \in Nat /\ "root" \in Paths
    BY TreeAssumption, FS_CardinalityType
  <1>2. PICK f \in [0 .. n -> Searching] :
          /\ \A i \in 1 .. n : f[i] = Deeper(tree, f[i - 1])
          /\ CollectAliases(tree) = f[n]
    BY CollectIs
  <1> DEFINE r == f[n]["root"][found]
  <1>3. found \in Searches /\ found.visited = {} /\ found.aliases = {}
        /\ ~found.failed
    BY DEF Searches
  <1> HIDE DEF found
  <1>4. Paths \ found.visited = Paths
    BY <1>3
  <1>5. Cardinality(Paths \ found.visited) < n
    <2>1. Cardinality(Paths \ found.visited) = Cardinality(Paths)
      BY <1>4
    <2> QED
      BY <1>1, <2>1
  <1>6. Outcome(tree, "root", found, r)
    <2> HIDE DEF n
    <2> QED
      BY <1>1, <1>2, <1>3, <1>5, SearchedAll
  <1>7. ManualHostAliases(tree) = IF r.failed THEN Failed ELSE r.aliases
    BY <1>2 DEF ManualHostAliases, found
  <1> HIDE DEF r, n
  <1>13. Closed(tree, Reached(tree)) /\ Reached(tree) \subseteq UserFiles(tree)
         /\ ("root" \in UserFiles(tree) => "root" \in Reached(tree))
    <2>1. \A g \in UserFiles(tree) : Included(tree, g) \subseteq UserFiles(tree)
      BY DEF Included
    <2> QED
      BY <2>1 DEF Reached, Closed
  <1>14. CASE r.failed
    <2>1. Barred(tree, "root")
      BY <1>6, <1>14 DEF Outcome
    <2>2. \E g \in Reached(tree) : Bars(tree, g)
      BY <1>13, <2>1 DEF Barred
    <2> QED
      BY <1>7, <1>14, <2>2
  <1> SUFFICES ASSUME ~r.failed
               PROVE  /\ ~ \E file \in Reached(tree) : Bars(tree, file)
                      /\ r.aliases = Declared(tree, Reached(tree))
    BY <1>7, <1>14
  <1> DEFINE R == New(tree, found, r)
  <1>8. /\ "root" \in UserFiles(tree) => "root" \in r.visited
        /\ \A g \in R : Included(tree, g) \subseteq r.visited
        /\ r.aliases = Declared(tree, R)
        /\ \A S \in SUBSET UserFiles(tree) :
             Closed(tree, S) /\ ("root" \in UserFiles(tree) => "root" \in S) => R \subseteq S
    BY <1>3, <1>6 DEF Searched, Outcome
  <1>15. \A g \in R : ~Bars(tree, g)
    BY <1>6 DEF Outcome
  <1>9. R = r.visited \intersect UserFiles(tree)
    BY <1>3 DEF New
  <1> HIDE DEF R
  <1>10. Closed(tree, R) /\ {"root"} \intersect UserFiles(tree) \subseteq R
    BY <1>8, <1>9 DEF Closed, Included
  <1>11. Reached(tree) \subseteq R
    BY <1>9, <1>10 DEF Reached
  <1>12. R \subseteq Reached(tree)
    BY <1>8, <1>9 DEF Reached
  <1> QED
    <2>1. R = Reached(tree)
      BY <1>11, <1>12
    <2> QED
      BY <1>8, <1>15, <2>1

(* Whatever the files include, themselves among them, the hosts declared   *)
(* by hand are found, or there is an error because one of the files cannot *)
(* be read: ManualHostsFound, for every tree of files.                     *)
THEOREM HostsAreFound == HostSpec => []ManualHostsFound
  <1> DEFINE Found(w) == w.task = "hosts" =>
                 w.output = IF \E file \in Reached(w.input) : Bars(w.input, file) THEN Failed
                            ELSE Declared(w.input, Reached(w.input))
  <1>0. ManualHostsFound = Found(work) /\ ManualHostsFound' = Found(work')
    BY Zenon DEF ManualHostsFound
  <1>1. work = Idle => ManualHostsFound
    BY DEF Idle, ManualHostsFound
  <1>2. ASSUME ManualHostsFound, [FindHosts]_work PROVE ManualHostsFound'
    <2>1. CASE UNCHANGED work
      <3> HIDE DEF Found
      <3> QED
        BY <1>0, <1>2, <2>1
    <2>2. CASE FindHosts
      <3>1. PICK tree \in Trees :
              work' = [task |-> "hosts", input |-> tree, output |-> ManualHostAliases(tree)]
        BY <2>2 DEF FindHosts, Evaluate
      <3>2. ManualHostAliases(tree)
              = IF \E file \in Reached(tree) : Bars(tree, file) THEN Failed
                ELSE Declared(tree, Reached(tree))
        BY HostsFound
      <3>3. Found(work')
        BY <3>1, <3>2
      <3> HIDE DEF Found
      <3> QED
        BY <1>0, <3>3
    <2> QED
      BY <1>2, <2>1, <2>2
  <1> QED
    BY <1>1, <1>2, PTL DEF HostSpec

-----------------------------------------------------------------------------
(* Reading a text in one pass, as the fold that reads one piece after      *)
(* another                                                                 *)
Frags     == Seq(Fragments)
Ordinary  == Fragments \ {" ", "*"}
Reading   == [out: Frags, reads: {"text", "secret"}]
Unread    == [out |-> <<>>, reads |-> "text"]
ReadStep(marker)  == [x \in Reading |-> [c \in Fragments |-> Read(marker, x, c)]]
Pass(marker, text) == Fold(ReadStep(marker), Unread, text)

LEMMA Blanks ==
  " " \in Fragments /\ "*" \in Fragments /\ "*" # " "
  <1>1. {" ", "*"} \subseteq Fragments
    BY Zenon, DiagnosticsAssumption
  <1> QED
    BY <1>1

LEMMA ReadIn ==
  ASSUME NEW marker, NEW x \in Reading, NEW c \in Fragments
  PROVE  Read(marker, x, c) \in Reading
  <1>1. x.out \in Frags /\ x.reads \in {"text", "secret"}
    BY DEF Reading
  <1>2. Append(x.out, c) \in Frags
    BY <1>1 DEF Frags
  <1>3. Append(Append(x.out, c), "*") \in Frags
    <2> DEFINE u == Append(x.out, c)
    <2>1. u \in Seq(Fragments)
      BY <1>2 DEF Frags
    <2> HIDE DEF u
    <2>2. \A k \in Fragments : Append(u, k) \in Seq(Fragments)
      BY <2>1
    <2> QED
      BY Zenon, <2>2, Blanks DEF Frags, u
  <1>4. Append(x.out, " ") \in Frags
    <2>1. \A k \in Fragments : Append(x.out, k) \in Frags
      BY <1>1 DEF Frags
    <2> QED
      BY Zenon, <2>1, Blanks
  <1> QED
    BY <1>1, <1>2, <1>3, <1>4 DEF Read, Reading

LEMMA ReadSteps ==
  ASSUME NEW marker
  PROVE  /\ ReadStep(marker) \in Stepper(Reading, Fragments)
         /\ \A x \in Reading, c \in Fragments : ReadStep(marker)[x][c] = Read(marker, x, c)
         /\ Unread \in Reading
  <1>1. <<>> \in Frags
    BY DEF Frags
  <1> QED
    BY <1>1, ReadIn DEF Stepper, ReadStep, Reading, Unread

LEMMA PassGrows ==
  ASSUME NEW marker
  PROVE  /\ Pass(marker, <<>>) = Unread
         /\ \A text \in Frags : Pass(marker, text) \in Reading
         /\ \A text \in Frags, c \in Fragments :
              Pass(marker, Append(text, c)) = Read(marker, Pass(marker, text), c)
  <1> DEFINE step == ReadStep(marker)
  <1>1. step \in Stepper(Reading, Fragments) /\ Unread \in Reading
    BY ReadSteps
  <1>2. \A x \in Reading, c \in Fragments : step[x][c] = Read(marker, x, c)
    BY ReadSteps
  <1> HIDE DEF step
  <1>3. /\ Fold(step, Unread, <<>>) = Unread
        /\ \A text \in Frags : Fold(step, Unread, text) \in Reading
        /\ \A text \in Frags, c \in Fragments :
             Fold(step, Unread, Append(text, c)) = step[Fold(step, Unread, text)][c]
    BY <1>1, FoldGrows DEF Frags
  <1>4. \A text : Pass(marker, text) = Fold(step, Unread, text)
    BY DEF Pass, step
  <1> QED
    BY <1>2, <1>3, <1>4

(* The readings of the first pieces of a text *)
Readings(f, marker, text) ==
  /\ f \in [0 .. Len(text) -> Reading] /\ f[0] = Unread
  /\ \A i \in 1 .. Len(text) : f[i] = Read(marker, f[i - 1], text[i])

LEMMA HiddenIs ==
  ASSUME NEW marker, NEW text \in Frags
  PROVE  /\ HiddenBy(marker, text) = Pass(marker, text).out
         /\ \E f : Readings(f, marker, text) /\ Pass(marker, text) = f[Len(text)]
  <1> DEFINE n == Len(text)
             step == ReadStep(marker)
             read[i \in 0 .. Len(text)] ==
               IF i = 0 THEN [out |-> <<>>, reads |-> "text"]
               ELSE Read(marker, read[i - 1], text[i])
  <1>1. step \in Stepper(Reading, Fragments) /\ Unread \in Reading
    BY ReadSteps
  <1>2. \A x \in Reading, c \in Fragments : step[x][c] = Read(marker, x, c)
    BY ReadSteps
  <1>3. n \in Nat /\ \A i \in 1 .. n : text[i] \in Fragments
    BY DEF Frags
  <1>4. HiddenBy(marker, text) = read[n].out
    BY DEF HiddenBy
  <1>5. PICK f \in [0 .. n -> Reading] :
          FoldsBy(f, step, Unread, text) /\ Fold(step, Unread, text) = f[n]
    <2> HIDE DEF step
    <2>1. Folding(Reading, step, Unread, text)
      BY <1>1, FoldExists DEF Frags
    <2> QED
      BY <2>1 DEF Folding
  <1> HIDE DEF step
  <1>6. f[0] = Unread /\ \A i \in 1 .. n : i - 1 \in 0 .. n /\ f[i] = Read(marker, f[i - 1], text[i])
    <2>1. \A i \in 1 .. n : i - 1 \in 0 .. n
      <3> HIDE DEF n
      <3> QED
        BY <1>3
    <2>2. f[0] = Unread /\ \A i \in 1 .. n : f[i] = step[f[i - 1]][text[i]]
      BY <1>5 DEF FoldsBy
    <2>3. \A i \in 1 .. n : f[i - 1] \in Reading
      <3> HIDE DEF n
      <3> QED
        BY <2>1
    <2> HIDE DEF n
    <2> QED
      BY <1>2, <1>3, <2>1, <2>2, <2>3
  <1>7. f = [i \in 0 .. n |-> IF i = 0 THEN Unread ELSE Read(marker, f[i - 1], text[i])]
    <2> HIDE DEF n
    <2>1. \A i \in 0 .. n : i # 0 => i \in 1 .. n
      BY <1>3
    <2> QED
      BY <1>6, <2>1
  <1>8. read = [i \in 0 .. n |-> IF i = 0 THEN Unread ELSE Read(marker, read[i - 1], text[i])]
    BY <1>7 DEF Unread
  <1> HIDE DEF read, n
  <1>9. read[0] = Unread /\ DOMAIN read = 0 .. n
        /\ \A i \in 1 .. n : read[i] = Read(marker, read[i - 1], text[i])
    <2>1. 0 \in 0 .. n /\ \A i \in 1 .. n : i \in 0 .. n /\ i # 0
      BY <1>3
    <2> QED
      BY <1>8, <2>1
  <1>10. \A i \in 1 .. n : read[i - 1] \in Reading => read[i] = step[read[i - 1]][text[i]]
    BY <1>2, <1>3, <1>9
  <1>11. Fold(step, Unread, text) = read[n]
    BY <1>1, <1>9, <1>10, LoopIs DEF Frags, n
  <1>12. Pass(marker, text) = Fold(step, Unread, text)
    BY DEF Pass, step
  <1>13. Readings(f, marker, text)
    BY <1>5, <1>6 DEF Readings, n
  <1> QED
    BY <1>4, <1>5, <1>11, <1>12, <1>13 DEF n

ReadsBy(f, m, t) == Readings(f, m, t)

(* A text that is a first part and what follows a position of another      *)
Joins(w, a, t, k) ==
  /\ Len(w) = Len(a) + Len(t) - k
  /\ \A i \in 1 .. Len(a) : w[i] = a[i]
  /\ \A i \in k + 1 .. Len(t) : w[Len(a) + i - k] = t[i]

(* Nothing is being hidden at a position                                   *)
Clear(x, t, k) == x.reads = "text" \/ k = Len(t)

At(w, f, t, k) ==
  /\ w \in Frags /\ k \in 0 .. Len(t) /\ Joins(w, f[k].out, t, k) /\ Clear(f[k], t, k)

Absent(m, t, j, k) == \A i \in j + 1 .. k : t[i] # m

LEMMA OneFurther ==
  ASSUME NEW l \in Nat, NEW k \in Nat, NEW n \in Nat
  PROVE  \A i \in (k + 1) + 1 .. n : i \in k + 1 .. n /\ (l + 1) + i - (k + 1) = l + i - k
  OBVIOUS

LEMMA Moves ==
  ASSUME NEW m \in Ordinary, NEW t \in Frags, NEW f, ReadsBy(f, m, t), NEW w,
         NEW k \in 0 .. Len(t), k # Len(t), At(w, f, t, k), t[k + 1] # m
  PROVE  At(w, f, t, k + 1)
  <1> DEFINE n == Len(t)
             x == f[k]
             c == t[k + 1]
             y == f[k + 1]
  <1>1. n \in Nat /\ k \in Nat /\ k + 1 \in 1 .. n /\ k + 1 \in 0 .. n /\ k + 1 - 1 = k
    BY DEF Frags
  <1>2. x \in Reading /\ y = Read(m, x, c) /\ c \in Fragments
    <2>1. \A i \in 1 .. n : f[i] = Read(m, f[i - 1], t[i])
      BY DEF ReadsBy, Readings
    <2>2. f[k + 1] = Read(m, f[k], t[k + 1])
      <3> DEFINE j == k + 1
      <3>1. j \in 1 .. n /\ j - 1 = k
        BY <1>1
      <3> HIDE DEF j, n
      <3>2. f[j] = Read(m, f[k], t[j])
        BY <2>1, <3>1
      <3> QED
        BY <3>2 DEF j
    <2>3. x \in Reading
      BY DEF ReadsBy, Readings
    <2> QED
      BY <1>1, <2>2, <2>3 DEF Frags
  <1>3. Joins(w, x.out, t, k) /\ x.reads = "text" /\ w \in Frags
    BY DEF At, Clear
  <1> HIDE DEF x, c, y
  <1>4. y = [out |-> Append(x.out, c), reads |-> "text"]
    <2>1. x.reads = "text" => x.reads # "secret"
      OBVIOUS
    <2> QED
      BY <1>2, <1>3, <2>1 DEF Read, c
  <1>5. y.out = Append(x.out, c) /\ y.reads = "text"
    BY <1>4
  <1> DEFINE a == x.out
             b == y.out
  <1>6. a \in Seq(Fragments)
    BY <1>2 DEF Reading, Frags
  <1>7. Len(a) \in Nat /\ Len(b) = Len(a) + 1 /\ b[Len(a) + 1] = c /\ \A i \in 1 .. Len(a) : b[i] = a[i]
    <2>1. b = Append(a, c)
      BY <1>5
    <2> HIDE DEF a, b
    <2> QED
      BY <1>2, <1>6, <2>1, AppendProperties
  <1>8. /\ Len(w) = Len(a) + n - k /\ \A i \in 1 .. Len(a) : w[i] = a[i]
        /\ \A i \in k + 1 .. n : w[Len(a) + i - k] = t[i]
    BY <1>3 DEF Joins
  <1> HIDE DEF a, b, n
  <1>9. Len(w) = Len(b) + n - (k + 1)
    BY <1>1, <1>7, <1>8
  <1>10. w[Len(a) + 1] = c
    <2>1. k + 1 \in k + 1 .. n /\ Len(a) + (k + 1) - k = Len(a) + 1
      BY <1>1, <1>7
    <2> QED
      BY <1>8, <2>1 DEF c
  <1>11. \A i \in 1 .. Len(b) : w[i] = b[i]
    <2>1. \A i \in 1 .. Len(b) : i \in 1 .. Len(a) \/ i = Len(a) + 1
      BY <1>7
    <2> QED
      BY <1>7, <1>8, <1>10, <2>1
  <1>12. \A i \in (k + 1) + 1 .. n : w[Len(b) + i - (k + 1)] = t[i]
    <2>1. Len(b) = Len(a) + 1 /\ Len(a) \in Nat
      BY <1>7
    <2>2. \A i \in (k + 1) + 1 .. n : i \in k + 1 .. n /\ (Len(a) + 1) + i - (k + 1) = Len(a) + i - k
      BY <1>1, <2>1, OneFurther
    <2> QED
      BY <1>8, <2>1, <2>2
  <1>13. Joins(w, b, t, k + 1)
    BY <1>9, <1>11, <1>12 DEF Joins, n
  <1> QED
    BY <1>1, <1>3, <1>5, <1>13 DEF At, Clear, b, y, n

LEMMA Scans ==
  ASSUME NEW m \in Ordinary, NEW t \in Frags, NEW f, ReadsBy(f, m, t), NEW w,
         NEW k \in 0 .. Len(t), At(w, f, t, k), NEW p \in k .. Len(t), Absent(m, t, k, p)
  PROVE  At(w, f, t, p)
  <1> DEFINE S == {i \in 0 .. p - k : At(w, f, t, k + i)}
  <1>1. Len(t) \in Nat /\ k \in Nat /\ p \in Nat /\ p - k \in Nat
    BY DEF Frags
  <1>2. 0 \in S
    BY <1>1
  <1>3. ASSUME NEW i \in 1 .. p - k, i - 1 \in S PROVE i \in S
    <2> DEFINE j == k + (i - 1)
    <2>1. j \in 0 .. Len(t) /\ j # Len(t) /\ j + 1 = k + i /\ j + 1 \in k + 1 .. p /\ i \in 0 .. p - k
      BY <1>1
    <2>2. At(w, f, t, j)
      BY <1>3
    <2> HIDE DEF j
    <2>3. t[j + 1] # m
      BY <2>1 DEF Absent
    <2>4. At(w, f, t, j + 1)
      BY <2>1, <2>2, <2>3, Moves
    <2> QED
      BY <2>1, <2>4
  <1>4. p - k \in S
    <2> HIDE DEF S
    <2> QED
      BY Zenon, <1>1, <1>2, <1>3, UpTo
  <1>5. k + (p - k) = p
    BY <1>1
  <1> QED
    BY <1>4, <1>5

LEMMA AtEnd ==
  ASSUME NEW m \in Ordinary, NEW t \in Frags, NEW f, ReadsBy(f, m, t), NEW w,
         At(w, f, t, Len(t))
  PROVE  w = f[Len(t)].out
  <1> DEFINE n == Len(t)
             a == f[n].out
  <1>1. n \in Nat /\ n \in 0 .. n
    BY DEF Frags
  <1>2. a \in Seq(Fragments) /\ w \in Seq(Fragments)
    BY <1>1 DEF ReadsBy, Readings, Reading, At, Frags
  <1>3. Len(w) = Len(a) + n - n /\ \A i \in 1 .. Len(a) : w[i] = a[i]
    BY DEF At, Joins
  <1> HIDE DEF n, a
  <1>4. Len(w) = Len(a)
    BY <1>1, <1>2, <1>3
  <1>5. w = a
    BY <1>2, <1>3, <1>4, SeqEqual
  <1> QED
    BY <1>5 DEF a, n

(* The first position of a piece *)
LEMMA FirstIs ==
  ASSUME NEW i \in Nat, NEW j \in Nat, NEW S \in SUBSET (i .. j), S # {}
  PROVE  LET p == CHOOSE a \in S : \A b \in S : a <= b
         IN  p \in S /\ \A b \in S : p <= b
  <1>1. \E a \in S : \A b \in S : a <= b
    <2>1. S \subseteq Nat
      OBVIOUS
    <2> DEFINE Less == {x \in Nat \X Nat : x[1] < x[2]}
    <2>2. IsWellFoundedOn(Less, Nat)
      BY NatLessThanWellFounded DEF OpToRel
    <2>3. \A x, y \in Nat : x < y => <<x, y>> \in Less
      OBVIOUS
    <2> HIDE DEF Less
    <2>4. PICK a \in S : \A b \in S : <<b, a>> \notin Less
      BY <2>1, <2>2, WFMin
    <2>5. \A b \in S : ~(b < a)
      BY <2>1, <2>3, <2>4
    <2>6. \A b \in S : a <= b
      BY <2>1, <2>4, <2>5
    <2> QED
      BY <2>4, <2>6
  <1> QED
    BY <1>1

(* From a marker at p to the next blank at e, or the end                   *)
Word(t, m, p, e) ==
  /\ p \in 1 .. Len(t) /\ e \in p + 1 .. Len(t) + 1 /\ t[p] = m
  /\ \A i \in p + 1 .. e - 1 : t[i] \notin Ends
  /\ e # Len(t) + 1 => t[e] \in Ends

LEMMA Hides ==
  ASSUME NEW m \in Ordinary, NEW t \in Frags, NEW f, ReadsBy(f, m, t), NEW w,
         NEW p, NEW e, Word(t, m, p, e), At(w, f, t, p - 1)
  PROVE  /\ f[e - 1].out = Append(Append(f[p - 1].out, m), "*")
         /\ f[e - 1].reads = "secret"
  <1> DEFINE n == Len(t)
             x == f[p - 1]
             y == [out |-> Append(Append(x.out, m), "*"), reads |-> "secret"]
             S == {i \in 0 .. e - 1 - p : f[p + i] = y}
  <1>1. n \in Nat /\ p \in 1 .. n /\ e \in p + 1 .. n + 1
    <2>1. n \in Nat
      BY DEF Frags
    <2>2. p \in 1 .. n /\ e \in p + 1 .. n + 1
      BY Zenon DEF Word
    <2> QED
      BY <2>1, <2>2
  <1>2. \A i \in 1 .. n : f[i] = Read(m, f[i - 1], t[i])
    BY DEF ReadsBy, Readings
  <1>3. m # " " /\ t[p] = m
    BY DEF Ordinary, Word
  <1>4. x.reads = "text"
    <2>1. x.reads = "text" \/ p - 1 = n
      BY DEF At, Clear
    <2>2. p - 1 # n
      BY <1>1
    <2> QED
      BY <1>3, <2>1, <2>2
  <1>5. f[p] = y
    <2>1. f[p] = Read(m, x, m)
      BY <1>1, <1>2, <1>3
    <2> HIDE DEF x
    <2>2. Read(m, x, m) = y
      BY <1>3, <1>4 DEF Read
    <2> QED
      BY <2>1, <2>2
  <1> HIDE DEF y, x, n
  <1>6. 0 \in S
    BY <1>1, <1>5
  <1>7. ASSUME NEW i \in 1 .. e - 1 - p, i - 1 \in S PROVE i \in S
    <2> DEFINE j == p + i
    <2>1. j \in p + 1 .. e - 1 /\ j \in 1 .. n /\ j - 1 = p + (i - 1) /\ i \in 0 .. e - 1 - p
      BY <1>1
    <2>2. f[p + (i - 1)] = y
      BY <1>7
    <2> HIDE DEF j
    <2>3. f[j] = Read(m, y, t[j]) /\ t[j] \notin Ends
      BY <1>2, <2>1, <2>2 DEF Word
    <2>4. y.reads = "secret"
      BY DEF y
    <2>5. f[j] = y
      BY <2>3, <2>4 DEF Read
    <2> QED
      BY <2>1, <2>5 DEF j
  <1>8. e - 1 - p \in S
    <2>1. e - 1 - p \in Nat
      BY <1>1
    <2> HIDE DEF S
    <2> QED
      BY Zenon, <1>6, <1>7, <2>1, UpTo
  <1>9. f[e - 1] = y
    <2>1. p + (e - 1 - p) = e - 1
      BY <1>1
    <2> QED
      BY <1>8, <2>1
  <1> QED
    BY <1>9 DEF y, x

(* A cursor behind which no marker has been found *)
Beyond(m, cursor, out) ==
  /\ cursor \in Nat \ {0} /\ cursor <= Len(out) + 1
  /\ \A i \in cursor .. Len(out) : out[i] # m

LEMMA Replaces ==
  ASSUME NEW m \in Ordinary, NEW t \in Frags, NEW f, ReadsBy(f, m, t), NEW w,
         NEW p, NEW e, Word(t, m, p, e), At(w, f, t, p - 1)
  PROVE  LET start == Len(f[p - 1].out) + 1
             end   == start + (e - p)
             j     == IF e = Len(t) + 1 THEN Len(t) ELSE e
         IN  /\ At((SubSeq(w, 1, start) \o <<"*">>) \o Rest(w, end), f, t, j)
             /\ Beyond(m, start + 2, f[j].out)
  <1> DEFINE n == Len(t)
             a == f[p - 1].out
             b == f[e - 1].out
             start == Len(a) + 1
             end == start + (e - p)
             u == SubSeq(w, 1, start)
             r == (u \o <<"*">>) \o Rest(w, end)
  <1>1. n \in Nat /\ p \in 1 .. n /\ e \in p + 1 .. n + 1 /\ p - 1 \in 0 .. n /\ e - 1 \in 0 .. n
    <2>1. n \in Nat /\ p \in 1 .. n /\ e \in p + 1 .. n + 1
      <3>1. n \in Nat
        BY DEF Frags
      <3>2. p \in 1 .. n /\ e \in p + 1 .. n + 1
        BY Zenon DEF Word
      <3> QED
        BY <3>1, <3>2
    <2> HIDE DEF n
    <2> QED
      BY <2>1
  <1>2. a \in Seq(Fragments) /\ w \in Seq(Fragments) /\ b \in Seq(Fragments)
    <2>1. \A i \in 0 .. n : f[i].out \in Seq(Fragments)
      BY DEF ReadsBy, Readings, Reading, Frags
    <2> HIDE DEF n
    <2> QED
      BY <1>1, <2>1 DEF At, Frags
  <1>3. b = Append(Append(a, m), "*") /\ f[e - 1].reads = "secret"
    <2>1. /\ f[e - 1].out = Append(Append(f[p - 1].out, m), "*")
          /\ f[e - 1].reads = "secret"
      <3> HIDE DEF a, b, n, start, end, u, r
      <3> QED
        BY Hides
    <2> QED
      BY <2>1
  <1>4. /\ Len(w) = Len(a) + n - (p - 1) /\ \A i \in 1 .. Len(a) : w[i] = a[i]
        /\ \A i \in p - 1 + 1 .. n : w[Len(a) + i - (p - 1)] = t[i]
    BY DEF At, Joins
  <1>5. m \in Fragments /\ t[p] = m
    BY DEF Ordinary, Word
  <1>6. e = n + 1 \/ t[e] \in Ends
    BY DEF Word
  <1> HIDE DEF a, b, n
  <1>7. Len(a) \in Nat
    BY <1>2
  <1>8. /\ Len(b) = Len(a) + 2 /\ b[Len(a) + 1] = m /\ b[Len(a) + 2] = "*"
        /\ \A i \in 1 .. Len(a) : b[i] = a[i]
    <2> DEFINE c == Append(a, m)
    <2>1. c \in Seq(Fragments) /\ Len(c) = Len(a) + 1 /\ c[Len(a) + 1] = m
          /\ \A i \in 1 .. Len(a) : c[i] = a[i]
      BY <1>2, <1>5, AppendProperties
    <2> HIDE DEF c
    <2>2. b = Append(c, "*")
      BY <1>3 DEF c
    <2>3. "*" \in Fragments
      BY Blanks
    <2>4. Len(b) = Len(c) + 1 /\ b[Len(c) + 1] = "*" /\ \A i \in 1 .. Len(c) : b[i] = c[i]
      BY <2>1, <2>2, <2>3, AppendProperties
    <2>5. Len(a) + 1 + 1 = Len(a) + 2 /\ \A i \in 1 .. Len(a) : i \in 1 .. Len(a) + 1
      BY <1>7
    <2>6. Len(a) + 1 \in 1 .. Len(a) + 1
      BY <1>7
    <2> QED
      BY <2>1, <2>4, <2>5, <2>6
  <1>9. /\ start \in Nat \ {0} /\ start <= Len(w) /\ Len(w) \in Nat /\ end \in Nat \ {0}
        /\ end <= Len(w) + 1 /\ start = Len(a) + 1
    BY <1>1, <1>4, <1>7
  <1>10. w[start] = m
    <2>1. p \in p - 1 + 1 .. n /\ Len(a) + p - (p - 1) = start
      BY <1>1, <1>7
    <2> QED
      BY <1>4, <1>5, <2>1
  <1>11. u \in Seq(Fragments) /\ Len(u) = start /\ \A i \in 1 .. start : u[i] = w[i]
    <2>1. /\ u \in Seq(Fragments) /\ Len(u) = start - 1 + 1
          /\ \A i \in 1 .. start - 1 + 1 : u[i] = w[1 + i - 1]
      <3> HIDE DEF start
      <3>1. 1 \in Nat \ {0} /\ start \in Nat /\ 1 <= start + 1
        BY <1>9
      <3> QED
        BY <1>2, <1>9, <3>1, SubSeqIs
    <2> HIDE DEF u, start
    <2> QED
      BY <1>9, <2>1
  <1> DEFINE q == u \o <<"*">>
  <1>13. /\ q \in Seq(Fragments) /\ Len(q) = start + 1 /\ q[start + 1] = "*"
         /\ \A i \in 1 .. start : q[i] = w[i]
    <2> HIDE DEF u, start
    <2>1. <<"*">> \in Seq(Fragments) /\ Len(<<"*">>) = 1 /\ <<"*">>[1] = "*"
      <3>1. \A k \in Fragments : <<k>> \in Seq(Fragments) /\ Len(<<k>>) = 1 /\ <<k>>[1] = k
        OBVIOUS
      <3> QED
        BY Zenon, <3>1, Blanks
    <2>2. /\ q \in Seq(Fragments) /\ Len(q) = Len(u) + 1
          /\ \A i \in 1 .. Len(u) : q[i] = u[i]
          /\ \A i \in 1 .. 1 : q[Len(u) + i] = <<"*">>[i]
      <3> DEFINE star == <<"*">>
      <3>1. star \in Seq(Fragments) /\ Len(star) = 1 /\ q = u \o star
        BY <2>1
      <3>0. q = u \o star
        BY <3>1
      <3> HIDE DEF star, q
      <3>2. u \in Seq(Fragments) /\ star \in Seq(Fragments)
        BY <1>11, <3>1
      <3>3. /\ q \in Seq(Fragments) /\ Len(q) = Len(u) + Len(star)
            /\ \A i \in 1 .. Len(u) : q[i] = u[i]
            /\ \A i \in 1 .. Len(star) : q[Len(u) + i] = star[i]
        <4>1. /\ u \o star \in Seq(Fragments) /\ Len(u \o star) = Len(u) + Len(star)
              /\ \A i \in 1 .. Len(u) : (u \o star)[i] = u[i]
              /\ \A i \in 1 .. Len(star) : (u \o star)[Len(u) + i] = star[i]
          BY <3>2, ConcatIs
        <4> QED
          BY Zenon, <3>0, <4>1
      <3> QED
        BY <3>1, <3>3 DEF star
    <2> HIDE DEF q
    <2> QED
      BY <1>11, <2>1, <2>2
  <1>14. r = q \o Rest(w, end)
    OBVIOUS
  <1> HIDE DEF q, u, r
  <1>15. q = b
    <2>1. \A i \in 1 .. Len(b) : i \in 1 .. Len(a) \/ i = start \/ i = start + 1
      BY <1>7, <1>8
    <2>2. \A i \in 1 .. Len(a) : i \in 1 .. start
      BY <1>7
    <2>3. start \in 1 .. start /\ start + 1 = Len(a) + 2
      BY <1>7
    <2>4. \A i \in 1 .. Len(a) : q[i] = b[i]
      BY <1>4, <1>8, <1>13, <2>2
    <2>5. q[start] = b[start] /\ q[start + 1] = b[start + 1]
      BY <1>8, <1>9, <1>10, <1>13, <2>3
    <2>6. \A i \in 1 .. Len(b) : q[i] = b[i]
      BY <2>1, <2>4, <2>5
    <2>7. Len(q) = Len(b)
      BY <1>8, <1>13, <2>3
    <2> QED
      BY <1>2, <1>13, <2>6, <2>7, SeqEqual
  <1>16. start + 2 = Len(b) + 1 /\ Len(b) \in Nat
    BY <1>7, <1>8
  <1>17. CASE e = n + 1
    <2>1. end = Len(w) + 1 /\ e - 1 = n
      BY <1>1, <1>4, <1>7, <1>17
    <2>2. end > Len(w)
      BY <1>9, <2>1
    <2>3. Rest(w, end) = <<>>
      BY <2>2 DEF Rest
    <2>4. r = b
      <3>1. r = b \o <<>>
        BY <1>14, <1>15, <2>3
      <3>2. b \o <<>> = b
        BY <1>2
      <3> QED
        BY <3>1, <3>2
    <2>5. b = f[n].out
      BY <2>1 DEF b
    <2>6. Len(b) = Len(b) + n - n /\ n \in 0 .. n /\ \A i : i \notin n + 1 .. n
      BY <1>1, <1>16
    <2>7. Joins(r, b, t, n)
      BY <2>4, <2>6 DEF Joins, n
    <2>8. At(r, f, t, n)
      BY <1>2, <2>4, <2>5, <2>6, <2>7 DEF At, Clear, Frags, n
    <2>9. Beyond(m, start + 2, b)
      <3>1. start + 2 \in Nat \ {0} /\ start + 2 <= Len(b) + 1
            /\ \A i : i \notin start + 2 .. Len(b)
        BY <1>9, <1>16
      <3> QED
        BY <3>1 DEF Beyond
    <2> QED
      BY <1>17, <2>5, <2>8, <2>9 DEF a, r, q, u, n
  <1>18. CASE e # n + 1
    <2> DEFINE v == SubSeq(w, end + 1, Len(w))
               g == Append(b, " ")
               blank == <<" ">>
    <2>1. /\ end <= Len(w) /\ ~(end > Len(w)) /\ end + 1 \in Nat \ {0}
          /\ end + 1 <= Len(w) + 1 /\ e \in 1 .. n /\ e \in 0 .. n
      BY <1>1, <1>4, <1>7, <1>9, <1>18
    <2>2. " " \in Fragments /\ m # " "
      BY Blanks DEF Ordinary
    <2>3. Rest(w, end) = blank \o v
      BY <2>1 DEF Rest
    <2>4. v \in Seq(Fragments) /\ Len(v) = Len(w) - (end + 1) + 1
          /\ \A i \in 1 .. Len(w) - (end + 1) + 1 : v[i] = w[end + 1 + i - 1]
      <3> HIDE DEF end
      <3> QED
        BY <1>2, <1>9, <2>1, SubSeqIs
    <2>5. /\ g \in Seq(Fragments) /\ Len(g) = Len(b) + 1 /\ g[Len(b) + 1] = " "
          /\ g = b \o blank /\ blank \in Seq(Fragments)
      <3>1. g \in Seq(Fragments) /\ Len(g) = Len(b) + 1 /\ g[Len(b) + 1] = " "
        BY <1>2, <2>2, AppendProperties
      <3>2. g = b \o blank
        BY <1>2, <2>2, AppendIs
      <3>3. \A k \in Fragments : <<k>> \in Seq(Fragments)
        OBVIOUS
      <3>4. blank \in Seq(Fragments)
        BY Zenon, <2>2, <3>3
      <3> QED
        BY <3>1, <3>2, <3>4
    <2>6. f[e].out = g /\ f[e].reads = "text"
      <3>1. f[e] = Read(m, f[e - 1], t[e])
        BY <2>1 DEF ReadsBy, Readings, n
      <3>2. Read(m, f[e - 1], t[e]) = [out |-> g, reads |-> "text"]
        BY <1>3, <1>6, <1>18 DEF Read, b
      <3> HIDE DEF g
      <3> QED
        BY <3>1, <3>2
    <2> HIDE DEF v, g, blank
    <2>5a. v \in Seq(Fragments) /\ g \in Seq(Fragments) /\ blank \in Seq(Fragments)
      BY Zenon, <2>4, <2>5
    <2>5b. Len(v) = Len(w) - (end + 1) + 1
      BY Zenon, <2>4
    <2>5c. Len(g) = Len(b) + 1
      BY Zenon, <2>5
    <2>5d. g = b \o blank
      BY Zenon, <2>5
    <2>5e. Len(w) = Len(a) + n - (p - 1)
      BY Zenon, <1>4
    <2>5f. Len(b) = Len(a) + 2
      BY Zenon, <1>8
    <2>7. r = g \o v
      <3>1. r = b \o (blank \o v)
        BY <1>14, <1>15, <2>3
      <3>2. b \o (blank \o v) = (b \o blank) \o v
        <4>1. b \in Seq(Fragments)
          BY Zenon, <1>2
        <4>2. \A x, y, z \in Seq(Fragments) : x \o (y \o z) = (x \o y) \o z
          BY ConcatAssociative
        <4> QED
          BY Zenon, <2>5a, <4>1, <4>2
      <3> QED
        BY Zenon, <2>5d, <3>1, <3>2
    <2>8. /\ r \in Seq(Fragments) /\ Len(r) = Len(g) + Len(v)
          /\ \A i \in 1 .. Len(g) : r[i] = g[i]
          /\ \A i \in 1 .. Len(v) : r[Len(g) + i] = v[i]
      <3>1. /\ g \o v \in Seq(Fragments) /\ Len(g \o v) = Len(g) + Len(v)
            /\ \A i \in 1 .. Len(g) : (g \o v)[i] = g[i]
            /\ \A i \in 1 .. Len(v) : (g \o v)[Len(g) + i] = v[i]
        BY <2>5a, ConcatIs
      <3> QED
        BY Zenon, <2>7, <3>1
    <2>8a. Len(r) = Len(g) + Len(v)
      BY Zenon, <2>8
    <2>9. Len(r) = Len(g) + n - e
      BY <1>1, <1>7, <2>5b, <2>5c, <2>5e, <2>5f, <2>8a
    <2>10. \A i \in e + 1 .. n : r[Len(g) + i - e] = t[i]
      <3> TAKE i \in e + 1 .. n
      <3> DEFINE j == i - e
      <3>1. /\ j \in 1 .. Len(v) /\ Len(g) + i - e = Len(g) + j
            /\ end + 1 + j - 1 = Len(a) + i - (p - 1) /\ i \in p - 1 + 1 .. n
            /\ j \in 1 .. Len(w) - (end + 1) + 1
        BY <1>1, <1>7, <2>1, <2>5b, <2>5c, <2>5e, <2>5f
      <3> HIDE DEF j, end, start
      <3>2. r[Len(g) + j] = v[j] /\ v[j] = w[end + 1 + j - 1]
        BY <2>4, <2>8, <3>1
      <3> QED
        BY <1>4, <3>1, <3>2
    <2>11. Joins(r, g, t, e)
      BY <2>8, <2>9, <2>10 DEF Joins, n
    <2>12. At(r, f, t, e)
      BY <2>1, <2>6, <2>8, <2>11 DEF At, Clear, Frags, n
    <2>13. Beyond(m, start + 2, g)
      <3>1. /\ start + 2 \in Nat \ {0} /\ start + 2 <= Len(g) + 1
            /\ \A i \in start + 2 .. Len(g) : i = Len(b) + 1
        BY <1>9, <1>16, <2>5c
      <3> QED
        BY <2>2, <2>5, <3>1 DEF Beyond
    <2> QED
      BY <1>18, <2>6, <2>12, <2>13 DEF a, r, q, u, n
  <1> QED
    BY <1>17, <1>18

Turned(m, s, f, t, k) == At(s.text, f, t, k) /\ Beyond(m, s.cursor, f[k].out)

(* A turn hides what is behind the next marker, or there is none.          *)
LEMMA TurnIs ==
  ASSUME NEW m \in Ordinary, NEW t \in Frags, NEW f, ReadsBy(f, m, t), NEW s,
         NEW k \in 0 .. Len(t), Turned(m, s, f, t, k)
  PROVE  \/ RedactNext(s, m) = s /\ Absent(m, t, k, Len(t))
         \/ \E j \in k + 1 .. Len(t) : Turned(m, RedactNext(s, m), f, t, j)
  <1> DEFINE n == Len(t)
             w == s.text
             l == Len(f[k].out)
             found == {i \in s.cursor .. Len(w) : w[i] = m}
             start == CHOOSE i \in found : \A j \in found : i <= j
             ends == {i \in start + 1 .. Len(w) : w[i] \in Ends}
             end == IF ends = {} THEN Len(w) + 1 ELSE CHOOSE i \in ends : \A j \in ends : i <= j
             after == (SubSeq(w, 1, start) \o <<"*">>) \o Rest(w, end)
  <1>1. found = {} => RedactNext(s, m) = s
    BY DEF RedactNext
  <1>2. found # {} => RedactNext(s, m) = [text |-> after, cursor |-> start + 2]
    BY DEF RedactNext
  <1>3. n \in Nat /\ l \in Nat /\ k \in Nat /\ k <= n
    <2>1. n \in Nat
      BY DEF Frags
    <2>2. f[k].out \in Seq(Fragments)
      BY DEF ReadsBy, Readings, Reading, Frags
    <2>3. l \in Nat
      BY <2>2
    <2> HIDE DEF n, l
    <2>4. k \in 0 .. n
      BY DEF n
    <2> QED
      BY <2>1, <2>3, <2>4
  <1>4. /\ Len(w) = l + n - k /\ At(w, f, t, k)
        /\ \A i \in k + 1 .. n : w[l + i - k] = t[i]
        /\ \A i \in 1 .. l : w[i] = f[k].out[i]
    BY DEF Turned, At, Joins
  <1> DEFINE c == s.cursor
  <1>4a. /\ c \in Nat \ {0} /\ c <= l + 1 /\ \A i \in c .. l : f[k].out[i] # m
    BY DEF Turned, Beyond
  <1>4b. found = {i \in c .. Len(w) : w[i] = m}
    OBVIOUS
  <1> HIDE DEF c
  <1> HIDE DEF w, l, n
  <1>4c. \A i \in c .. Len(w) : w[i] = m => i \in l + 1 .. Len(w)
    <2>1. \A i \in c .. Len(w) : (i \in c .. l /\ i \in 1 .. l) \/ i \in l + 1 .. Len(w)
      BY <1>3, <1>4, <1>4a
    <2> QED
      BY <1>4, <1>4a, <2>1
  <1>4d. \A i \in l + 1 .. Len(w) : i \in c .. Len(w)
    BY <1>3, <1>4a
  <1>5. CASE found = {}
    <2>1. Absent(m, t, k, n)
      <3> SUFFICES ASSUME NEW i \in k + 1 .. n PROVE t[i] # m
        BY DEF Absent
      <3> DEFINE q == l + i - k
      <3>1. q \in l + 1 .. Len(w) /\ w[q] = t[i]
        BY <1>3, <1>4
      <3> HIDE DEF q
      <3>2. w[q] # m
        BY <1>4b, <1>4d, <1>5, <3>1
      <3> QED
        BY <3>1, <3>2
    <2> QED
      BY <1>1, <1>5, <2>1 DEF n
  <1>6. CASE found # {}
    <2>1a. found \in SUBSET (l + 1 .. Len(w))
      BY <1>4b, <1>4c
    <2>1. found \in SUBSET (l + 1 .. Len(w)) /\ Len(w) \in Nat /\ l + 1 \in Nat
      BY <1>3, <1>4, <2>1a
    <2>2. start \in found /\ \A j \in found : start <= j
      <3> HIDE DEF found
      <3> QED
        BY <1>6, <2>1, FirstIs
    <2>3. start \in l + 1 .. Len(w) /\ w[start] = m /\ \A j \in l + 1 .. Len(w) : w[j] = m => start <= j
      BY <1>4b, <1>4d, <2>1, <2>2
    <2> HIDE DEF found, start
    <2>3a. start \in Nat /\ l + 1 <= start /\ start <= Len(w) /\ Len(w) \in Nat
      BY <1>3, <2>1, <2>3
    <2> DEFINE p == start - l + k
    <2>4. p \in k + 1 .. n /\ p - 1 \in k .. n /\ p \in 1 .. n /\ l + p - k = start
      BY <1>3, <1>4, <2>3
    <2>5. ends \in SUBSET (start + 1 .. Len(w))
      OBVIOUS
    <2>5a. start + 1 \in Nat /\ Len(w) \in Nat
      BY <2>3a
    <2>6. IF ends = {} THEN end = Len(w) + 1
          ELSE end \in ends /\ \A j \in ends : end <= j
      <3>1. CASE ends = {}
        BY <3>1
      <3>2. CASE ends # {}
        <4> DEFINE first == CHOOSE i \in ends : \A j \in ends : i <= j
        <4>1. first \in ends /\ \A j \in ends : first <= j
          <5> HIDE DEF ends
          <5> QED
            BY <2>5, <2>5a, <3>2, FirstIs
        <4>2. end = first
          BY <3>2
        <4> HIDE DEF end, first, ends
        <4> QED
          BY <3>2, <4>1, <4>2
      <3> QED
        BY <3>1, <3>2
    <2>7a. end \in start + 1 .. Len(w) + 1
      <3> HIDE DEF ends
      <3>1. CASE ends = {}
        <4>1. end = Len(w) + 1
          BY <2>6, <3>1
        <4> HIDE DEF end
        <4> QED
          BY <2>3a, <4>1
      <3>2. CASE ends # {}
        <4>1. end \in start + 1 .. Len(w)
          BY <2>5, <2>6, <3>2
        <4> HIDE DEF end
        <4> QED
          BY <2>3a, <4>1
      <3> QED
        BY <3>1, <3>2
    <2>7d. \A j \in start + 1 .. end - 1 : j \in start + 1 .. Len(w) /\ ~(end <= j)
      <3> HIDE DEF end
      <3> QED
        BY <2>3a, <2>7a
    <2>7b. \A j \in start + 1 .. end - 1 : w[j] \notin Ends
      <3> SUFFICES ASSUME NEW j \in start + 1 .. end - 1, w[j] \in Ends PROVE FALSE
        OBVIOUS
      <3>1. j \in start + 1 .. Len(w) /\ ~(end <= j)
        BY <2>7d
      <3>2. j \in ends
        BY <3>1
      <3> HIDE DEF end, ends
      <3>3. end <= j
        BY <2>6, <3>2
      <3> QED
        BY <3>1, <3>3
    <2>7c. end # Len(w) + 1 => w[end] \in Ends
      <3> SUFFICES ASSUME end # Len(w) + 1 PROVE w[end] \in Ends
        OBVIOUS
      <3>1. end \in ends
        BY <2>6
      <3> HIDE DEF end
      <3> QED
        BY <3>1
    <2> HIDE DEF end, ends
    <2>7. end \in Nat /\ start + 1 <= end /\ end <= Len(w) + 1
      BY <2>3a, <2>7a
    <2> DEFINE e == end - l + k
    <2>8. /\ e \in p + 1 .. n + 1 /\ end = start + (e - p) /\ l + e - k = end
          /\ (end = Len(w) + 1 => e = n + 1) /\ (e = n + 1 => end = Len(w) + 1)
          /\ e - 1 \in k + 1 .. n
      BY <1>3, <1>4, <2>3a, <2>7
    <2>9. t[p] = m
      BY <1>4, <2>3, <2>4
    <2>10. \A i \in p + 1 .. e - 1 : t[i] \notin Ends
      <3> TAKE i \in p + 1 .. e - 1
      <3> DEFINE q == l + i - k
      <3>1. q \in start + 1 .. end - 1 /\ i \in k + 1 .. n
        BY <1>3, <1>4, <2>3a, <2>4, <2>7, <2>8
      <3>2. w[q] = t[i]
        BY <1>4, <3>1
      <3> HIDE DEF q
      <3> QED
        BY <2>7b, <3>1, <3>2
    <2>11. e # n + 1 => t[e] \in Ends
      <3> SUFFICES ASSUME e # n + 1 PROVE t[e] \in Ends
        OBVIOUS
      <3>1. end # Len(w) + 1 /\ e \in k + 1 .. n
        <4>1. end # Len(w) + 1
          BY <2>8
        <4>2. e \in Nat /\ e <= n /\ k + 1 <= e
          <5>1. e \in Nat /\ e <= n + 1 /\ p + 1 <= e
            BY <1>3, <2>4, <2>8
          <5> HIDE DEF e, p
          <5> QED
            BY <1>3, <2>4, <5>1
        <4> HIDE DEF e
        <4> QED
          BY <1>3, <4>1, <4>2
      <3>2. w[l + e - k] = t[e]
        BY <1>4, <3>1
      <3> QED
        BY <2>7c, <2>8, <3>1, <3>2
    <2>12. Absent(m, t, k, p - 1)
      <3> SUFFICES ASSUME NEW i \in k + 1 .. p - 1 PROVE t[i] # m
        BY DEF Absent
      <3> DEFINE q == l + i - k
      <3>1. q \in l + 1 .. Len(w) /\ ~(start <= q) /\ i \in k + 1 .. n
        BY <1>3, <1>4, <2>3, <2>4
      <3>2. w[q] = t[i]
        BY <1>4, <3>1
      <3> HIDE DEF q
      <3> QED
        BY <2>3, <3>1, <3>2
    <2> HIDE DEF p, e
    <2>13. At(w, f, t, p - 1)
      BY <1>4, <2>4, <2>12, Scans DEF n
    <2>14. Word(t, m, p, e)
      BY <2>4, <2>8, <2>9, <2>10, <2>11 DEF Word, n
    <2>15. Len(f[p - 1].out) + 1 = start
      <3>1. Len(w) = Len(f[p - 1].out) + n - (p - 1)
        BY <2>13 DEF At, Joins, n
      <3>2. Len(f[p - 1].out) \in Nat
        <4>1. \A i \in 0 .. n : f[i].out \in Seq(Fragments)
          BY DEF ReadsBy, Readings, Reading, Frags, n
        <4>2. p - 1 \in 0 .. n
          BY <1>3, <2>4
        <4>3. f[p - 1].out \in Seq(Fragments)
          BY <4>1, <4>2
        <4> QED
          BY <4>3
      <3> DEFINE h == Len(f[p - 1].out)
      <3> HIDE DEF h
      <3>3. h \in Nat /\ Len(w) = h + n - (p - 1)
        BY <3>1, <3>2 DEF h
      <3>4. h + 1 = start
        <4>1. h + 1 = l + p - k
          <5>1. p \in Nat /\ Len(w) = l + n - k
            BY <1>3, <1>4, <2>4
          <5> QED
            BY <1>3, <3>3, <5>1
        <4> QED
          BY <2>4, <4>1
      <3> QED
        BY <3>4 DEF h
    <2> DEFINE j == IF e = Len(t) + 1 THEN Len(t) ELSE e
    <2>16. /\ At((SubSeq(w, 1, Len(f[p - 1].out) + 1) \o <<"*">>)
                   \o Rest(w, Len(f[p - 1].out) + 1 + (e - p)), f, t, j)
           /\ Beyond(m, Len(f[p - 1].out) + 1 + 2, f[j].out)
      BY <2>13, <2>14, Replaces
    <2>17. At(after, f, t, j) /\ Beyond(m, start + 2, f[j].out)
      BY <2>8, <2>15, <2>16
    <2>19. j \in k + 1 .. n
      <3>1. j = IF e = n + 1 THEN n ELSE e
        BY DEF n
      <3>2. e \in Nat /\ k + 1 <= e - 1 /\ e <= n + 1
        <4>1. p \in Nat /\ k + 1 <= p
          BY <1>3, <2>4
        <4>2. e \in Nat /\ p + 1 <= e /\ e <= n + 1
          BY <1>3, <2>8, <4>1
        <4> QED
          BY <1>3, <4>1, <4>2
      <3> HIDE DEF j
      <3> QED
        BY <1>3, <3>1, <3>2
    <2> HIDE DEF after, j
    <2>18. Turned(m, RedactNext(s, m), f, t, j)
      BY <1>2, <1>6, <2>17 DEF Turned
    <2> QED
      BY <2>18, <2>19 DEF n
  <1> QED
    BY <1>5, <1>6

States == [text: Frags, cursor: Nat \ {0}]

LEMMA TurnIn ==
  ASSUME NEW m \in Ordinary, NEW s \in States
  PROVE  RedactNext(s, m) \in States
  <1> DEFINE w == s.text
             found == {i \in s.cursor .. Len(w) : w[i] = m}
             start == CHOOSE i \in found : \A j \in found : i <= j
             ends == {i \in start + 1 .. Len(w) : w[i] \in Ends}
             end == IF ends = {} THEN Len(w) + 1 ELSE CHOOSE i \in ends : \A j \in ends : i <= j
             u == SubSeq(w, 1, start)
             v == Rest(w, end)
  <1>1. found = {} => RedactNext(s, m) = s
    BY DEF RedactNext
  <1>2. found # {} => RedactNext(s, m) = [text |-> (u \o <<"*">>) \o v, cursor |-> start + 2]
    BY DEF RedactNext
  <1>3. w \in Seq(Fragments) /\ s.cursor \in Nat \ {0} /\ Len(w) \in Nat
    BY DEF States, Frags
  <1> HIDE DEF w
  <1> SUFFICES ASSUME found # {} PROVE RedactNext(s, m) \in States
    BY <1>1
  <1>4. start \in found
    <2>1. found \in SUBSET (s.cursor .. Len(w)) /\ s.cursor \in Nat
      BY <1>3
    <2> HIDE DEF found
    <2> QED
      BY <1>3, <2>1, FirstIs
  <1>5. start \in Nat \ {0} /\ start <= Len(w)
    <2>1. start \in s.cursor .. Len(w)
      BY <1>4
    <2> DEFINE c == s.cursor
    <2>2. c \in Nat \ {0} /\ start \in c .. Len(w)
      BY <1>3, <2>1
    <2> HIDE DEF c, start
    <2> QED
      BY <1>3, <2>2
  <1> HIDE DEF found, start
  <1>6. end \in Nat \ {0} /\ end <= Len(w) + 1
    <2>0. Len(w) + 1 \in Nat \ {0} /\ Len(w) + 1 <= Len(w) + 1 /\ start + 1 \in Nat
      BY <1>3, <1>5
    <2>1. ends \in SUBSET (start + 1 .. Len(w)) /\ start + 1 \in Nat
      BY <2>0
    <2>2. CASE ends = {}
      <3>1. end = Len(w) + 1
        BY <2>2
      <3> HIDE DEF end
      <3> QED
        BY <2>0, <3>1
    <2>3. CASE ends # {}
      <3> DEFINE first == CHOOSE i \in ends : \A j \in ends : i <= j
      <3>1. first \in ends
        <4> HIDE DEF ends
        <4> QED
          BY <1>3, <2>1, <2>3, FirstIs
      <3>2. end = first
        BY <2>3
      <3> HIDE DEF end, first, ends
      <3>3. end \in start + 1 .. Len(w)
        BY <2>1, <3>1, <3>2
      <3> QED
        BY <1>3, <1>5, <3>3
    <2> QED
      BY <2>2, <2>3
  <1> HIDE DEF end, ends
  <1>7. u \in Seq(Fragments)
    <2>1. 1 \in Nat \ {0} /\ 1 <= start + 1
      BY <1>5
    <2> QED
      BY <1>3, <1>5, <2>1, SubSeqIs
  <1>8. v \in Seq(Fragments)
    <2>1. CASE end > Len(w)
      <3>1. v = <<>>
        BY <2>1 DEF Rest
      <3> HIDE DEF v
      <3> QED
        BY <3>1
    <2>2. CASE ~(end > Len(w))
      <3> DEFINE z == SubSeq(w, end + 1, Len(w))
                 blank == <<" ">>
      <3>1. end + 1 \in Nat \ {0} /\ end + 1 <= Len(w) + 1
        BY <1>3, <1>6, <2>2
      <3>2. z \in Seq(Fragments)
        BY <1>3, <3>1, SubSeqIs
      <3>3. \A k \in Fragments : <<k>> \in Seq(Fragments)
        OBVIOUS
      <3>4. blank \in Seq(Fragments)
        BY Zenon, <3>3, Blanks
      <3>5. v = blank \o z
        BY <2>2 DEF Rest
      <3> HIDE DEF v, z, blank
      <3> QED
        BY <3>2, <3>4, <3>5, ConcatIs
    <2> QED
      BY <2>1, <2>2
  <1>9. <<"*">> \in Seq(Fragments)
    <2>1. \A k \in Fragments : <<k>> \in Seq(Fragments)
      OBVIOUS
    <2> QED
      BY Zenon, <2>1, Blanks
  <1> HIDE DEF u, v
  <1>10. (u \o <<"*">>) \o v \in Frags
    <2> DEFINE star == <<"*">>
    <2>1. star \in Seq(Fragments)
      BY <1>9
    <2> HIDE DEF star
    <2>2. u \o star \in Seq(Fragments)
      BY <1>7, <2>1, ConcatIs
    <2>3. (u \o star) \o v \in Seq(Fragments)
      BY <1>8, <2>2, ConcatIs
    <2> QED
      BY <2>3 DEF star, Frags
  <1>11. start + 2 \in Nat \ {0}
    BY <1>5
  <1>12. RedactNext(s, m) = [text |-> (u \o <<"*">>) \o v, cursor |-> start + 2]
    BY <1>2
  <1> DEFINE x == (u \o <<"*">>) \o v
             c == start + 2
  <1>13. RedactNext(s, m) = [text |-> x, cursor |-> c] /\ x \in Frags /\ c \in Nat \ {0}
    BY <1>10, <1>11, <1>12
  <1> HIDE DEF x, c
  <1> QED
    BY <1>13 DEF States

LEMMA MarkerHidden ==
  ASSUME NEW m \in Ordinary, NEW t \in Frags
  PROVE  RedactMarker(t, m) = HiddenBy(m, t)
  <1> DEFINE n == Len(t)
             base == [text |-> t, cursor |-> 1]
             step == [i \in 1 .. n |-> [x \in States |-> RedactNext(x, m)]]
             turn[i \in 0 .. Len(t)] ==
               IF i = 0 THEN [text |-> t, cursor |-> 1] ELSE RedactNext(turn[i - 1], m)
  <1>1. n \in Nat
    BY DEF Frags
  <1>2. base \in States
    BY DEF States
  <1>3. step \in [1 .. n -> [States -> States]]
    BY TurnIn
  <1>4. PICK g \in [0 .. n -> States] : Steps(g, n, base, step)
    <2> HIDE DEF n, base, step
    <2> QED
      BY <1>1, <1>2, <1>3, Recursion
  <1>5. g[0] = base /\ \A i \in 1 .. n : g[i] = RedactNext(g[i - 1], m)
    <2>1. \A i \in 1 .. n : i - 1 \in 0 .. n
      <3> HIDE DEF n
      <3> QED
        BY <1>1
    <2>2. g[0] = base /\ \A i \in 1 .. n : g[i] = step[i][g[i - 1]]
      BY <1>4 DEF Steps
    <2> HIDE DEF n, base
    <2> QED
      BY <2>1, <2>2
  <1>6. g = [i \in 0 .. n |-> IF i = 0 THEN base ELSE RedactNext(g[i - 1], m)]
    <2> HIDE DEF n, base, step
    <2>1. \A i \in 0 .. n : i # 0 => i \in 1 .. n
      BY <1>1
    <2> QED
      BY <1>5, <2>1
  <1>7. turn = [i \in 0 .. n |-> IF i = 0 THEN base ELSE RedactNext(turn[i - 1], m)]
    BY <1>6
  <1>8. RedactMarker(t, m) = turn[n].text
    BY DEF RedactMarker
  <1> HIDE DEF turn, step
  <1>9. turn[0] = base /\ \A i \in 1 .. n : turn[i] = RedactNext(turn[i - 1], m)
    <2> HIDE DEF n, base
    <2>1. 0 \in 0 .. n /\ \A i \in 1 .. n : i \in 0 .. n /\ i # 0
      BY <1>1
    <2> QED
      BY <1>7, <2>1
  <1>10. PICK f : Readings(f, m, t) /\ Pass(m, t) = f[n] /\ HiddenBy(m, t) = Pass(m, t).out
    BY HiddenIs
  <1>11. ReadsBy(f, m, t)
    BY <1>10 DEF ReadsBy
  <1> DEFINE Far(i, k) == Turned(m, turn[i], f, t, k) /\ (i <= k \/ Absent(m, t, k, n))
             S == {i \in 0 .. n : \E k \in 0 .. n : Far(i, k)}
  <1>12. 0 \in S
    <2>1. f[0] = Unread
      BY <1>10 DEF Readings
    <2>2. f[0].out = <<>> /\ f[0].reads = "text"
      BY <2>1 DEF Unread
    <2>3. Len(t) = Len(<<>>) + Len(t) - 0 /\ Len(<<>>) = 0 /\ 1 = Len(<<>>) + 1
      BY <1>1
    <2>4. \A i \in 0 + 1 .. Len(t) : t[Len(<<>>) + i - 0] = t[i]
      BY <2>3
    <2>5. Joins(t, <<>>, t, 0)
      <3>1. \A i \in 1 .. Len(<<>>) : t[i] = <<>>[i]
        BY <2>3
      <3> QED
        BY <2>3, <2>4, <3>1 DEF Joins
    <2>6. 0 \in 0 .. Len(t)
      BY <1>1
    <2>7. At(t, f, t, 0)
      BY <2>2, <2>5, <2>6 DEF At, Clear
    <2>8. turn[0].text = t /\ turn[0].cursor = 1
      BY <1>9
    <2>9. Turned(m, turn[0], f, t, 0)
      <3>1. 1 \in Nat \ {0} /\ 1 <= Len(<<>>) + 1 /\ \A i : i \notin 1 .. Len(<<>>)
        BY <2>3
      <3>2. Beyond(m, 1, <<>>)
        BY <3>1 DEF Beyond
      <3> QED
        BY <2>2, <2>7, <2>8, <3>2 DEF Turned
    <2>10. Far(0, 0) /\ 0 \in 0 .. n
      BY <2>6, <2>9
    <2> HIDE DEF Far, n
    <2> QED
      BY <2>10
  <1>13. ASSUME NEW i \in 1 .. n, i - 1 \in S PROVE i \in S
    <2>1. PICK k \in 0 .. n : Far(i - 1, k)
      BY <1>13
    <2>2. Turned(m, turn[i - 1], f, t, k) /\ (i - 1 <= k \/ Absent(m, t, k, n))
      BY <2>1
    <2>3. turn[i] = RedactNext(turn[i - 1], m)
      BY <1>9
    <2>4. \/ turn[i] = turn[i - 1] /\ Absent(m, t, k, n)
          \/ \E j \in k + 1 .. n : Turned(m, turn[i], f, t, j)
      BY <1>11, <2>2, <2>3, TurnIs
    <2>5. i \in 0 .. n
      <3> HIDE DEF n
      <3> QED
        BY <1>1
    <2>6. CASE turn[i] = turn[i - 1] /\ Absent(m, t, k, n)
      <3>1. Far(i, k)
        BY <2>2, <2>6
      <3> HIDE DEF Far, n
      <3> QED
        BY <2>5, <3>1
    <2>7. CASE \E j \in k + 1 .. n : Turned(m, turn[i], f, t, j)
      <3>1. PICK j \in k + 1 .. n : Turned(m, turn[i], f, t, j)
        BY <2>7
      <3>2. i - 1 <= k => i <= j
        <4> HIDE DEF n
        <4> QED
          BY <1>1
      <3>3. Absent(m, t, k, n) => Absent(m, t, j, n)
        <4>1. \A a \in j + 1 .. n : a \in k + 1 .. n
          <5> HIDE DEF n
          <5> QED
            BY <1>1
        <4> QED
          BY <4>1 DEF Absent
      <3>4. Far(i, j)
        BY <2>2, <3>1, <3>2, <3>3
      <3>5. j \in 0 .. n
        <4> HIDE DEF n
        <4> QED
          BY <1>1
      <3> HIDE DEF Far, n
      <3> QED
        BY <2>5, <3>4, <3>5
    <2> QED
      BY <2>4, <2>6, <2>7
  <1>14. n \in S
    <2> HIDE DEF S, n
    <2> QED
      BY Zenon, <1>1, <1>12, <1>13, UpTo
  <1>15. PICK k \in 0 .. n : Far(n, k)
    BY <1>14
  <1>16. At(turn[n].text, f, t, k) /\ (n <= k \/ Absent(m, t, k, n))
    BY <1>15 DEF Turned
  <1>17. Absent(m, t, k, n)
    <2>1. CASE n <= k
      <3>1. \A i : i \notin k + 1 .. n
        <4> HIDE DEF n
        <4> QED
          BY <1>1, <2>1
      <3> QED
        BY <3>1 DEF Absent
    <2> QED
      BY <1>16, <2>1
  <1>18. At(turn[n].text, f, t, n)
    <2>1. n \in k .. n
      <3> HIDE DEF n
      <3> QED
        BY <1>1
    <2> QED
      BY <1>11, <1>16, <1>17, <2>1, Scans
  <1>19. turn[n].text = f[n].out
    BY <1>11, <1>18, AtEnd
  <1> QED
    BY <1>8, <1>10, <1>19

LEMMA HiddenIn ==
  ASSUME NEW M, NEW t \in Frags
  PROVE  HiddenBy(M, t) \in Frags
  BY HiddenIs, PassGrows DEF Reading

(* Wherever a marker stands, it is followed by the redaction and a blank,  *)
(* as far as the text goes.                                                *)
Covers(m, o, l, i) ==
  o[i] = m => (i + 1 <= l => o[i + 1] = "*") /\ (i + 2 <= l => o[i + 2] = " ")
Covered(m, o) == \A i \in 1 .. Len(o) : Covers(m, o, Len(o), i)

(* The last piece of a text, the one before it, and what may stand behind  *)
LastIs(o, m) == Len(o) >= 1 /\ o[Len(o)] = m
SecondIs(o, m) == Len(o) >= 2 /\ o[Len(o) - 1] = m
Fits(m, o, d) == (LastIs(o, m) => d = "*") /\ (SecondIs(o, m) => d = " ")

LEMMA CoverGrows ==
  ASSUME NEW m \in Ordinary, NEW o \in Frags, NEW d \in Fragments, Covered(m, o), Fits(m, o, d)
  PROVE  /\ Append(o, d) \in Frags /\ Covered(m, Append(o, d))
         /\ \A x : LastIs(Append(o, d), x) <=> d = x
         /\ \A x : SecondIs(Append(o, d), x) <=> LastIs(o, x)
  <1> DEFINE r == Append(o, d)
             l == Len(o)
  <1>1. o \in Seq(Fragments)
    BY DEF Frags
  <1>2. l \in Nat
    BY <1>1
  <1>3. Len(r) = l + 1 /\ r[l + 1] = d /\ \A i \in 1 .. l : r[i] = o[i]
    BY <1>1, <1>2, AppendProperties
  <1>4. r \in Frags
    BY <1>1 DEF Frags
  <1>5. \A i \in 1 .. l : Covers(m, o, l, i)
    BY DEF Covered
  <1>6. (l >= 1 /\ o[l] = m => d = "*") /\ (l >= 2 /\ o[l - 1] = m => d = " ")
    BY DEF Fits, LastIs, SecondIs
  <1> HIDE DEF r, l
  <1>7. Len(r) = l + 1
    BY Zenon, <1>3
  <1>8. ASSUME NEW i \in 1 .. Len(r) PROVE Covers(m, r, Len(r), i)
    <2>1. i \in 1 .. l \/ i = l + 1
      BY <1>2, <1>7
    <2>2. CASE i = l + 1
      <3>1. ~(i + 1 <= Len(r)) /\ ~(i + 2 <= Len(r))
        BY <1>2, <1>7, <2>2
      <3> QED
        BY <3>1 DEF Covers
    <2>3. CASE i \in 1 .. l
      <3>1. r[i] = o[i]
        BY <1>3, <2>3
      <3>2. Covers(m, o, l, i)
        BY <1>5, <2>3
      <3>3. \/ i + 1 <= l /\ i + 1 \in 1 .. l
            \/ i = l /\ i + 1 = l + 1 /\ l >= 1 /\ ~(i + 2 <= Len(r))
        BY <1>2, <1>7, <2>3
      <3>4. \/ i + 2 <= l /\ i + 2 \in 1 .. l
            \/ i + 2 = l + 1 /\ l >= 2 /\ l - 1 = i
            \/ ~(i + 2 <= Len(r))
        BY <1>2, <1>7, <2>3
      <3>5. o[i] = m => r[i + 1] = "*"
        <4>1. CASE i + 1 <= l /\ i + 1 \in 1 .. l
          <5>1. r[i + 1] = o[i + 1]
            BY <1>3, <4>1
          <5> QED
            BY <3>2, <4>1, <5>1 DEF Covers
        <4>2. CASE i = l /\ i + 1 = l + 1 /\ l >= 1
          BY <1>3, <1>6, <4>2
        <4> QED
          BY <3>3, <4>1, <4>2
      <3>6. o[i] = m /\ i + 2 <= Len(r) => r[i + 2] = " "
        <4>1. CASE i + 2 <= l /\ i + 2 \in 1 .. l
          <5>1. r[i + 2] = o[i + 2]
            BY <1>3, <4>1
          <5> QED
            BY <3>2, <4>1, <5>1 DEF Covers
        <4>2. CASE i + 2 = l + 1 /\ l >= 2 /\ l - 1 = i
          BY <1>3, <1>6, <4>2
        <4> QED
          BY <3>4, <4>1, <4>2
      <3> QED
        BY <3>1, <3>5, <3>6 DEF Covers
    <2> QED
      BY <2>1, <2>2, <2>3
  <1>9. Covered(m, r)
    BY <1>8 DEF Covered
  <1>10. \A x : LastIs(r, x) <=> d = x
    <2>1. Len(r) >= 1
      BY <1>2, <1>7
    <2> QED
      BY <1>3, <2>1 DEF LastIs
  <1>11. \A x : SecondIs(r, x) <=> LastIs(o, x)
    <2>1. (Len(r) >= 2 <=> l >= 1) /\ Len(r) - 1 = l /\ (l >= 1 => l \in 1 .. l)
      BY <1>2, <1>7
    <2>2. l >= 1 => r[Len(r) - 1] = o[l]
      BY <1>3, <2>1
    <2> QED
      BY <2>1, <2>2 DEF LastIs, SecondIs, l
  <1> QED
    BY <1>4, <1>9, <1>10, <1>11 DEF r

LEMMA GuardedIs ==
  ASSUME NEW m, NEW o \in Frags
  PROVE  Guarded(m, o) <=> Covered(m, o) /\ ~LastIs(o, m)
  <1> DEFINE l == Len(o)
  <1>1. l \in Nat
    BY DEF Frags
  <1>2. Guarded(m, o) <=> \A i \in 1 .. l : o[i] = m =>
          /\ i + 1 <= l /\ o[i + 1] = "*"
          /\ i + 2 <= l => o[i + 2] = " "
    BY DEF Guarded
  <1>3. LastIs(o, m) <=> l >= 1 /\ o[l] = m
    BY DEF LastIs
  <1>4. Covered(m, o) <=> \A i \in 1 .. l : Covers(m, o, l, i)
    BY DEF Covered
  <1> HIDE DEF l
  <1>5. (l >= 1 <=> l \in 1 .. l) /\ ~(l + 1 <= l) /\ \A i \in 1 .. l : i = l \/ i + 1 <= l
    BY <1>1
  <1>6. \A i \in 1 .. l : i = l => l >= 1
    BY <1>1
  <1>7. ASSUME Guarded(m, o) PROVE Covered(m, o) /\ ~LastIs(o, m)
    BY <1>2, <1>3, <1>4, <1>5, <1>7 DEF Covers
  <1>8. ASSUME Covered(m, o), ~LastIs(o, m) PROVE Guarded(m, o)
    <2>1. \A i \in 1 .. l : o[i] = m => i + 1 <= l
      BY <1>3, <1>5, <1>6, <1>8
    <2>2. \A i \in 1 .. l : Covers(m, o, l, i)
      BY <1>4, <1>8
    <2> QED
      BY <1>2, <2>1, <2>2 DEF Covers
  <1> QED
    BY <1>7, <1>8

(* Behind what a marker has hidden stands nothing but the redaction.       *)
Sealed(m, x) == Guarded(m, x.out) /\ (x.reads = "text" => ~SecondIs(x.out, m))

LEMMA SealedNext ==
  ASSUME NEW m \in Ordinary, NEW x \in Reading, Sealed(m, x), NEW c \in Fragments
  PROVE  Sealed(m, Read(m, x, c))
  <1> DEFINE o == x.out
             y == Read(m, x, c)
  <1>1. o \in Frags /\ x.reads \in {"text", "secret"}
    BY DEF Reading
  <1>2. Covered(m, o) /\ ~LastIs(o, m) /\ (x.reads = "text" => ~SecondIs(o, m))
    BY <1>1, GuardedIs DEF Sealed
  <1>3. " " \in Fragments /\ "*" \in Fragments /\ " " # m /\ "*" # m /\ m \in Fragments
    BY Blanks DEF Ordinary
  <1> HIDE DEF o, y
  <1> SUFFICES Sealed(m, y)
    BY DEF y
  <1>4. CASE x.reads = "secret" /\ c \in Ends
    <2> DEFINE r == Append(o, " ")
    <2>1. y = [out |-> r, reads |-> "text"]
      BY <1>4 DEF Read, y, o
    <2>2. Fits(m, o, " ")
      BY <1>2 DEF Fits
    <2>3. r \in Frags /\ Covered(m, r) /\ ~LastIs(r, m) /\ ~SecondIs(r, m)
      BY <1>1, <1>2, <1>3, <2>2, CoverGrows
    <2> HIDE DEF r
    <2> QED
      BY <2>1, <2>3, GuardedIs DEF Sealed
  <1>5. CASE x.reads = "secret" /\ c \notin Ends
    <2>1. y = x
      BY <1>5 DEF Read, y
    <2> QED
      BY <2>1
  <1>6. CASE x.reads = "text" /\ c # m
    <2> DEFINE r == Append(o, c)
    <2>1. y = [out |-> r, reads |-> "text"]
      <3>1. x.reads # "secret"
        BY <1>6
      <3> QED
        BY <1>6, <3>1 DEF Read, y, o
    <2>2. Fits(m, o, c)
      BY <1>2, <1>6 DEF Fits
    <2>3. r \in Frags /\ Covered(m, r) /\ ~LastIs(r, m) /\ ~SecondIs(r, m)
      BY <1>1, <1>2, <1>6, <2>2, CoverGrows
    <2> HIDE DEF r
    <2> QED
      BY <2>1, <2>3, GuardedIs DEF Sealed
  <1>7. CASE x.reads = "text" /\ c = m
    <2> DEFINE q == Append(o, m)
               r == Append(q, "*")
    <2>1. y = [out |-> r, reads |-> "secret"]
      <3>1. x.reads # "secret"
        BY <1>7
      <3> QED
        BY <1>7, <3>1 DEF Read, y, o
    <2>2. Fits(m, o, m)
      BY <1>2, <1>7 DEF Fits
    <2>3. q \in Frags /\ Covered(m, q) /\ ~SecondIs(q, m)
      BY <1>1, <1>2, <1>3, <2>2, CoverGrows
    <2> HIDE DEF q
    <2>4. Fits(m, q, "*")
      BY <2>3 DEF Fits
    <2>5. r \in Frags /\ Covered(m, r) /\ ~LastIs(r, m)
      BY <1>3, <2>3, <2>4, CoverGrows
    <2> HIDE DEF r
    <2>6. y.out = r /\ y.reads # "text"
      BY <2>1
    <2> QED
      BY <2>5, <2>6, GuardedIs DEF Sealed
  <1> QED
    BY <1>1, <1>4, <1>5, <1>6, <1>7

LEMMA GuardedBy ==
  ASSUME NEW m \in Ordinary, NEW t \in Frags
  PROVE  Guarded(m, HiddenBy(m, t))
  <1> DEFINE S == {u \in Frags : Sealed(m, Pass(m, u))}
  <1>1. <<>> \in S
    <2>1. Pass(m, <<>>) = Unread
      BY PassGrows
    <2> DEFINE none == <<>>
    <2>2. Len(none) = 0 /\ none \in Frags
      BY DEF Frags
    <2>3. Unread.out = none
      BY DEF Unread
    <2> HIDE DEF none
    <2>4. ~(0 >= 2) /\ ~(0 >= 1) /\ \A i : i \notin 1 .. 0
      OBVIOUS
    <2>5. Covered(m, none) /\ ~LastIs(none, m) /\ ~SecondIs(none, m)
      BY <2>2, <2>4 DEF Covered, LastIs, SecondIs
    <2>6. Sealed(m, Unread)
      BY <2>2, <2>3, <2>5, GuardedIs DEF Sealed
    <2> QED
      BY <2>1, <2>2, <2>6 DEF none
  <1>2. ASSUME NEW u \in Frags, NEW c \in Fragments, u \in S PROVE Append(u, c) \in S
    <2>1. Append(u, c) \in Frags
      BY DEF Frags
    <2>2. Pass(m, u) \in Reading /\ Pass(m, Append(u, c)) = Read(m, Pass(m, u), c)
      BY PassGrows
    <2>3. Sealed(m, Pass(m, u))
      BY <1>2
    <2> QED
      BY <2>1, <2>2, <2>3, SealedNext
  <1> HIDE DEF S
  <1>3. t \in S
    BY <1>1, <1>2, WordInduction DEF Frags
  <1>4. Guarded(m, Pass(m, t).out)
    BY <1>3 DEF S, Sealed
  <1> QED
    BY <1>4, HiddenIs

(* What has been hidden behind one marker stays so when others are looked  *)
(* for: the first k pieces of a text are read as x.                        *)
LastRead(m, u, k)   == k >= 1 /\ u[k] = m
SecondRead(m, u, k) == k >= 2 /\ u[k - 1] = m
Keeps(m, mark, u, k, x) ==
  /\ Covered(m, x.out)
  /\ x.reads = "text" => /\ LastIs(x.out, m) => LastRead(m, u, k)
                         /\ SecondIs(x.out, m) => SecondRead(m, u, k)
  /\ x.reads = "secret" => ~LastIs(x.out, m) /\ ~SecondIs(x.out, m)

LEMMA KeepsNext ==
  ASSUME NEW m \in Ordinary, NEW mark \in Ordinary, mark # m, NEW u \in Frags, Guarded(m, u),
         NEW k \in 0 .. Len(u), k # Len(u), NEW x \in Reading, Keeps(m, mark, u, k, x)
  PROVE  Keeps(m, mark, u, k + 1, Read(mark, x, u[k + 1]))
  <1> DEFINE o == x.out
             c == u[k + 1]
             n == Len(u)
             y == Read(mark, x, c)
  <1>1. /\ n \in Nat /\ k \in Nat /\ k + 1 \in 1 .. n /\ k + 1 <= n
    <2>1. n \in Nat
      BY DEF Frags
    <2>2. k \in 0 .. n /\ k # n
      OBVIOUS
    <2> HIDE DEF n
    <2> QED
      BY <2>1, <2>2
  <1>2. o \in Frags /\ c \in Fragments /\ x.reads \in {"text", "secret"}
    BY <1>1 DEF Reading, Frags
  <1>3. /\ Covered(m, o)
        /\ x.reads = "text" => /\ LastIs(o, m) => LastRead(m, u, k)
                               /\ SecondIs(o, m) => SecondRead(m, u, k)
        /\ x.reads = "secret" => ~LastIs(o, m) /\ ~SecondIs(o, m)
    BY DEF Keeps
  <1>4. \A i \in 1 .. n : u[i] = m =>
          /\ i + 1 <= n /\ u[i + 1] = "*"
          /\ i + 2 <= n => u[i + 2] = " "
    BY DEF Guarded
  <1>5. /\ " " \in Fragments /\ "*" \in Fragments /\ " " # m /\ "*" # m
        /\ mark \in Fragments /\ m \in Fragments /\ mark # m
    BY Blanks DEF Ordinary
  <1>6. (LastRead(m, u, k) => c = "*") /\ (SecondRead(m, u, k) => c = " ")
    <2> HIDE DEF n
    <2>1. ASSUME LastRead(m, u, k) PROVE c = "*"
      <3>1. k >= 1 /\ u[k] = m
        BY <2>1 DEF LastRead
      <3>2. k \in 1 .. n
        BY <1>1, <3>1
      <3> QED
        BY <1>4, <3>1, <3>2
    <2>2. ASSUME SecondRead(m, u, k) PROVE c = " "
      <3> DEFINE i == k - 1
      <3>1. k >= 2 /\ u[i] = m
        BY <2>2 DEF SecondRead
      <3>2. i \in 1 .. n /\ i + 2 <= n /\ i + 2 = k + 1
        BY <1>1, <3>1
      <3> HIDE DEF i
      <3>3. u[i + 2] = " "
        BY <1>4, <3>1, <3>2
      <3> QED
        BY <3>2, <3>3
    <2> QED
      BY <2>1, <2>2
  <1>7. (c = m => LastRead(m, u, k + 1)) /\ (LastRead(m, u, k) => SecondRead(m, u, k + 1))
    <2>1. k + 1 >= 1 /\ (k >= 1 => k + 1 >= 2) /\ k + 1 - 1 = k
      BY <1>1
    <2> QED
      BY <2>1 DEF LastRead, SecondRead
  <1> HIDE DEF o, c, n, y
  <1> SUFFICES Keeps(m, mark, u, k + 1, y)
    BY DEF y, c
  <1>8. CASE x.reads = "secret" /\ c \in Ends
    <2> DEFINE r == Append(o, " ")
    <2>1. y = [out |-> r, reads |-> "text"]
      BY <1>8 DEF Read, y, o
    <2>2. Fits(m, o, " ") /\ ~LastIs(o, m)
      BY <1>3, <1>8 DEF Fits
    <2>3. Covered(m, r) /\ ~LastIs(r, m) /\ ~SecondIs(r, m)
      BY <1>2, <1>3, <1>5, <2>2, CoverGrows
    <2> HIDE DEF r
    <2>4. y.out = r /\ y.reads = "text" /\ y.reads # "secret"
      BY <2>1
    <2> QED
      BY <2>3, <2>4 DEF Keeps
  <1>9. CASE x.reads = "secret" /\ c \notin Ends
    <2>1. y = x
      BY <1>9 DEF Read, y
    <2>2. x.reads # "text"
      BY <1>9
    <2> QED
      BY <1>3, <2>1, <2>2 DEF Keeps, o
  <1>10. CASE x.reads = "text" /\ c # mark
    <2> DEFINE r == Append(o, c)
    <2>1. y = [out |-> r, reads |-> "text"]
      <3>1. x.reads # "secret"
        BY <1>10
      <3> QED
        BY <1>10, <3>1 DEF Read, y, o
    <2>2. Fits(m, o, c)
      BY <1>3, <1>6, <1>10 DEF Fits
    <2>3. Covered(m, r) /\ (LastIs(r, m) => c = m) /\ (SecondIs(r, m) => LastIs(o, m))
      BY <1>2, <1>3, <2>2, CoverGrows
    <2> HIDE DEF r
    <2>4. y.out = r /\ y.reads = "text" /\ y.reads # "secret"
      BY <2>1
    <2> QED
      BY <1>3, <1>7, <1>10, <2>3, <2>4 DEF Keeps
  <1>11. CASE x.reads = "text" /\ c = mark
    <2> DEFINE q == Append(o, mark)
               r == Append(q, "*")
    <2>1. y = [out |-> r, reads |-> "secret"]
      <3>1. x.reads # "secret"
        BY <1>11
      <3> QED
        BY <1>11, <3>1 DEF Read, y, o
    <2>2. mark # "*" /\ mark # " "
      BY DEF Ordinary
    <2>3. ~LastIs(o, m) /\ ~SecondIs(o, m)
      BY <1>3, <1>6, <1>11, <2>2
    <2>4. Fits(m, o, mark)
      BY <2>3 DEF Fits
    <2>5. q \in Frags /\ Covered(m, q) /\ ~LastIs(q, m) /\ ~SecondIs(q, m)
      BY <1>2, <1>3, <1>5, <2>3, <2>4, CoverGrows
    <2> HIDE DEF q
    <2>6. Fits(m, q, "*")
      BY <2>5 DEF Fits
    <2>7. Covered(m, r) /\ ~LastIs(r, m) /\ ~SecondIs(r, m)
      BY <1>5, <2>5, <2>6, CoverGrows
    <2> HIDE DEF r
    <2>8. y.out = r /\ y.reads = "secret" /\ y.reads # "text"
      BY <2>1
    <2> QED
      BY <2>7, <2>8 DEF Keeps
  <1> QED
    BY <1>2, <1>8, <1>9, <1>10, <1>11

LEMMA GuardKept ==
  ASSUME NEW m \in Ordinary, NEW mark \in Ordinary, mark # m, NEW u \in Frags, Guarded(m, u)
  PROVE  Guarded(m, HiddenBy(mark, u))
  <1> DEFINE n == Len(u)
  <1>1. n \in Nat
    BY DEF Frags
  <1>2. PICK f : Readings(f, mark, u) /\ HiddenBy(mark, u) = f[n].out
    BY HiddenIs
  <1>3. /\ \A k \in 0 .. n : f[k] \in Reading
        /\ f[0] = Unread /\ \A i \in 1 .. n : f[i] = Read(mark, f[i - 1], u[i])
    BY <1>2 DEF Readings
  <1> DEFINE S == {k \in 0 .. n : Keeps(m, mark, u, k, f[k])}
  <1>4. 0 \in S
    <2> DEFINE none == <<>>
    <2>1. Unread.out = none /\ Unread.reads = "text" /\ Len(none) = 0 /\ Unread.reads # "secret"
      BY DEF Unread
    <2> HIDE DEF none
    <2>2. ~(0 >= 2) /\ ~(0 >= 1) /\ \A i : i \notin 1 .. 0
      OBVIOUS
    <2>3. Covered(m, none) /\ ~LastIs(none, m) /\ ~SecondIs(none, m)
      BY <2>1, <2>2 DEF Covered, LastIs, SecondIs
    <2>4. Keeps(m, mark, u, 0, Unread)
      BY <2>1, <2>3 DEF Keeps
    <2>5. 0 \in 0 .. n
      BY <1>1
    <2> QED
      BY <1>3, <2>4, <2>5
  <1>5. ASSUME NEW i \in 1 .. n, i - 1 \in S PROVE i \in S
    <2> DEFINE k == i - 1
    <2>1. k \in 0 .. n /\ k # n /\ k + 1 = i /\ i \in 0 .. n
      <3> HIDE DEF n
      <3> QED
        BY <1>1
    <2>2. Keeps(m, mark, u, k, f[k])
      BY <1>5
    <2>3. f[i] = Read(mark, f[k], u[i]) /\ f[k] \in Reading
      BY <1>3, <2>1
    <2> HIDE DEF k
    <2>4. Keeps(m, mark, u, k + 1, Read(mark, f[k], u[k + 1]))
      BY <2>1, <2>2, <2>3, KeepsNext
    <2> HIDE DEF n
    <2> QED
      BY <2>1, <2>3, <2>4
  <1>6. n \in S
    <2> HIDE DEF S, n
    <2> QED
      BY Zenon, <1>1, <1>4, <1>5, UpTo
  <1>7. Keeps(m, mark, u, n, f[n]) /\ f[n] \in Reading /\ f[n].reads \in {"text", "secret"}
    BY <1>3, <1>6 DEF Reading
  <1>8. ~LastRead(m, u, n)
    <2>1. ~LastIs(u, m)
      BY GuardedIs
    <2> QED
      BY <2>1 DEF LastIs, LastRead
  <1>9. Covered(m, f[n].out) /\ ~LastIs(f[n].out, m)
    BY <1>7, <1>8 DEF Keeps
  <1>10. f[n].out \in Frags
    BY <1>7 DEF Reading
  <1> QED
    BY <1>2, <1>9, <1>10, GuardedIs

(* The first k pieces of a text *)
Shown(u, k, o) == o \in Frags /\ Len(o) = k /\ \A i \in 1 .. k : o[i] = u[i]

LEMMA ShownGrows ==
  ASSUME NEW u, NEW k \in Nat, NEW o, Shown(u, k, o), NEW d \in Fragments, u[k + 1] = d
  PROVE  Shown(u, k + 1, Append(o, d))
  <1> DEFINE r == Append(o, d)
  <1>1. o \in Seq(Fragments) /\ Len(o) = k /\ \A i \in 1 .. k : o[i] = u[i]
    BY DEF Shown, Frags
  <1>2. Len(r) = k + 1 /\ r[k + 1] = d /\ r \in Frags /\ \A i \in 1 .. k : r[i] = o[i]
    <2>1. r \in Frags
      BY <1>1 DEF Frags
    <2> QED
      BY <1>1, <2>1, AppendProperties
  <1> HIDE DEF r
  <1>3. \A i \in 1 .. k + 1 : i \in 1 .. k \/ i = k + 1
    OBVIOUS
  <1>4. \A i \in 1 .. k + 1 : r[i] = u[i]
    BY <1>1, <1>2, <1>3
  <1> QED
    BY <1>2, <1>4 DEF Shown, r

(* What is read of a text in which everything behind the marker is hidden  *)
Stands(m, u, k, x) ==
  \/ x.reads = "text" /\ Shown(u, k, x.out)
  \/ x.reads = "secret" /\ k >= 1 /\ u[k] = m /\ k + 1 <= Len(u) /\ Shown(u, k + 1, x.out)
  \/ x.reads = "secret" /\ k >= 2 /\ u[k - 1] = m /\ Shown(u, k, x.out)

LEMMA StandsNext ==
  ASSUME NEW m \in Ordinary, NEW u \in Frags, Guarded(m, u),
         NEW k \in 0 .. Len(u), k # Len(u), NEW x \in Reading, Stands(m, u, k, x)
  PROVE  Stands(m, u, k + 1, Read(m, x, u[k + 1]))
  <1> DEFINE n == Len(u)
             c == u[k + 1]
             y == Read(m, x, c)
  <1>1. /\ n \in Nat /\ k \in Nat /\ k + 1 \in 1 .. n /\ k + 1 <= n
    <2>1. n \in Nat
      BY DEF Frags
    <2>2. k \in 0 .. n /\ k # n
      OBVIOUS
    <2> HIDE DEF n
    <2> QED
      BY <2>1, <2>2
  <1>2. c \in Fragments
    BY <1>1 DEF Frags
  <1>3. \A i \in 1 .. n : u[i] = m =>
          i + 1 <= n /\ u[i + 1] = "*" /\ (i + 2 <= n => u[i + 2] = " ")
    BY DEF Guarded
  <1>4. " " \in Fragments /\ "*" \in Fragments /\ m \in Fragments /\ " " \in Ends /\ "*" \notin Ends
    <2>1. Spaced \subseteq Ordinary
      BY Zenon, DiagnosticsAssumption DEF Ordinary
    <2>2. "*" \notin Ordinary /\ m \in Fragments
      BY DEF Ordinary
    <2> QED
      BY <2>1, <2>2, Blanks DEF Ends
  <1> HIDE DEF n, c, y
  <1> SUFFICES Stands(m, u, k + 1, y)
    BY DEF y, c
  <1>5. CASE x.reads = "text" /\ c # m
    <2>1. Shown(u, k, x.out) /\ x.reads # "secret"
      BY <1>5 DEF Stands
    <2>2. y = [out |-> Append(x.out, c), reads |-> "text"]
      BY <1>5, <2>1 DEF Read, y
    <2>3. Shown(u, k + 1, Append(x.out, c))
      BY <1>1, <1>2, <2>1, ShownGrows DEF c
    <2> QED
      BY <2>2, <2>3 DEF Stands
  <1>6. CASE x.reads = "text" /\ c = m
    <2> DEFINE q == Append(x.out, m)
    <2>1. Shown(u, k, x.out) /\ x.reads # "secret"
      BY <1>6 DEF Stands
    <2>2. y = [out |-> Append(q, "*"), reads |-> "secret"]
      BY <1>6, <2>1 DEF Read, y
    <2>3. Shown(u, k + 1, q)
      BY <1>1, <1>4, <1>6, <2>1, ShownGrows DEF c
    <2> HIDE DEF q
    <2>4. u[k + 1] = m
      BY <1>6 DEF c
    <2>5. (k + 1) + 1 <= n /\ u[(k + 1) + 1] = "*"
      BY <1>1, <1>3, <2>4
    <2>6. k + 1 \in Nat /\ k + 1 >= 1
      BY <1>1
    <2>7. Shown(u, (k + 1) + 1, Append(q, "*"))
      BY <1>4, <2>3, <2>5, <2>6, ShownGrows
    <2> QED
      BY <2>2, <2>4, <2>5, <2>6, <2>7 DEF Stands, n
  <1>7. CASE x.reads = "secret" /\ k >= 1 /\ u[k] = m /\ Shown(u, k + 1, x.out)
    <2>1. k \in 1 .. n /\ k + 1 >= 2 /\ k + 1 - 1 = k
      BY <1>1, <1>7
    <2>2. c = "*"
      BY <1>3, <1>7, <2>1 DEF c
    <2>3. y = x
      BY <1>4, <1>7, <2>2 DEF Read, y
    <2>4. u[k + 1 - 1] = m
      BY <1>7, <2>1
    <2> QED
      BY <1>7, <2>1, <2>3, <2>4 DEF Stands
  <1>8. CASE x.reads = "secret" /\ k >= 2 /\ u[k - 1] = m /\ Shown(u, k, x.out)
    <2> DEFINE i == k - 1
    <2>1. i \in 1 .. n /\ i + 2 <= n /\ i + 2 = k + 1
      BY <1>1, <1>8
    <2>2. u[i] = m
      BY <1>8
    <2> HIDE DEF i
    <2>3. c = " "
      BY <1>3, <2>1, <2>2 DEF c
    <2>4. y = [out |-> Append(x.out, " "), reads |-> "text"]
      BY <1>4, <1>8, <2>3 DEF Read, y
    <2>5. Shown(u, k + 1, Append(x.out, " "))
      BY <1>1, <1>4, <1>8, <2>3, ShownGrows DEF c
    <2> QED
      BY <2>4, <2>5 DEF Stands
  <1>9. \/ x.reads = "text"
        \/ x.reads = "secret" /\ k >= 1 /\ u[k] = m /\ Shown(u, k + 1, x.out)
        \/ x.reads = "secret" /\ k >= 2 /\ u[k - 1] = m /\ Shown(u, k, x.out)
    BY DEF Stands
  <1> QED
    BY <1>5, <1>6, <1>7, <1>8, <1>9

(* Looking for a marker again changes nothing.                             *)
LEMMA GuardedStays ==
  ASSUME NEW m \in Ordinary, NEW u \in Frags, Guarded(m, u)
  PROVE  HiddenBy(m, u) = u
  <1> DEFINE n == Len(u)
  <1>1. n \in Nat
    BY DEF Frags
  <1>2. PICK f : Readings(f, m, u) /\ HiddenBy(m, u) = f[n].out
    BY HiddenIs
  <1>3. /\ \A k \in 0 .. n : f[k] \in Reading
        /\ f[0] = Unread /\ \A i \in 1 .. n : f[i] = Read(m, f[i - 1], u[i])
    BY <1>2 DEF Readings
  <1> DEFINE S == {k \in 0 .. n : Stands(m, u, k, f[k])}
  <1>4. 0 \in S
    <2> DEFINE none == <<>>
    <2>1. Unread.out = none /\ Unread.reads = "text" /\ Len(none) = 0 /\ none \in Frags
      BY DEF Unread, Frags
    <2> HIDE DEF none
    <2>2. \A i : i \notin 1 .. 0
      OBVIOUS
    <2>3. Stands(m, u, 0, Unread)
      BY <2>1, <2>2 DEF Stands, Shown
    <2>4. 0 \in 0 .. n
      BY <1>1
    <2> QED
      BY <1>3, <2>3, <2>4
  <1>5. ASSUME NEW i \in 1 .. n, i - 1 \in S PROVE i \in S
    <2> DEFINE k == i - 1
    <2>1. k \in 0 .. n /\ k # n /\ k + 1 = i /\ i \in 0 .. n
      <3> HIDE DEF n
      <3> QED
        BY <1>1
    <2>2. Stands(m, u, k, f[k])
      BY <1>5
    <2>3. f[i] = Read(m, f[k], u[i]) /\ f[k] \in Reading
      BY <1>3, <2>1
    <2> HIDE DEF k
    <2>4. Stands(m, u, k + 1, Read(m, f[k], u[k + 1]))
      BY <2>1, <2>2, <2>3, StandsNext
    <2> HIDE DEF n
    <2> QED
      BY <2>1, <2>3, <2>4
  <1>6. n \in S
    <2> HIDE DEF S, n
    <2> QED
      BY Zenon, <1>1, <1>4, <1>5, UpTo
  <1>7. Shown(u, n, f[n].out)
    <2>1. Stands(m, u, n, f[n])
      BY <1>6
    <2>2. CASE n >= 1 /\ u[n] = m
      <3>1. n \in 1 .. n
        BY <1>1, <2>2
      <3>2. n + 1 <= n
        BY <2>2, <3>1 DEF Guarded
      <3> HIDE DEF n
      <3> QED
        BY <1>1, <3>2
    <2> QED
      BY <2>1, <2>2 DEF Stands
  <1> DEFINE o == f[n].out
  <1>8. o \in Seq(Fragments) /\ u \in Seq(Fragments) /\ Len(o) = Len(u) /\ \A i \in 1 .. Len(o) : o[i] = u[i]
    BY <1>7 DEF Shown, Frags
  <1> HIDE DEF o
  <1>9. o = u
    BY <1>8, SeqEqual
  <1> QED
    BY <1>2, <1>9 DEF o

(* A text as the markers are looked for in their order *)
InOrder(g, t) ==
  /\ g \in [0 .. Len(Markers) -> Frags] /\ g[0] = t
  /\ \A i \in 1 .. Len(Markers) : g[i] = HiddenBy(Markers[i], g[i - 1])

LEMMA MarkersIn ==
  Len(Markers) \in Nat /\ \A i \in 1 .. Len(Markers) : Markers[i] \in Ordinary
  <1>1. Markers \in Seq(Ordinary)
    BY DiagnosticsAssumption DEF Ordinary
  <1> QED
    BY <1>1

LEMMA HidesInOrder ==
  ASSUME NEW t \in Frags
  PROVE  \E g : InOrder(g, t) /\ Hidden(t) = g[Len(Markers)] /\ RedactText(t) = g[Len(Markers)]
  <1> DEFINE n == Len(Markers)
             redact[i \in 0 .. Len(Markers)] ==
               IF i = 0 THEN t ELSE RedactMarker(redact[i - 1], Markers[i])
             hide[i \in 0 .. Len(Markers)] ==
               IF i = 0 THEN t ELSE HiddenBy(Markers[i], hide[i - 1])
             step == [i \in 1 .. n |-> [x \in Frags |-> HiddenBy(Markers[i], x)]]
  <1>1. n \in Nat /\ \A i \in 1 .. n : Markers[i] \in Ordinary
    BY MarkersIn
  <1>2. \A i \in 1 .. n, x \in Frags :
          /\ RedactMarker(x, Markers[i]) = HiddenBy(Markers[i], x)
          /\ HiddenBy(Markers[i], x) \in Frags
    BY <1>1, MarkerHidden, HiddenIn
  <1>3. step \in [1 .. n -> [Frags -> Frags]]
    BY <1>2
  <1>4. PICK g \in [0 .. n -> Frags] : Steps(g, n, t, step)
    <2> HIDE DEF n, step
    <2> QED
      BY <1>1, <1>3, Recursion
  <1>5. \A i \in 1 .. n : i - 1 \in 0 .. n
    <2> HIDE DEF n
    <2> QED
      BY <1>1
  <1>6. g[0] = t /\ \A i \in 1 .. n : g[i] = HiddenBy(Markers[i], g[i - 1])
    <2>1. g[0] = t /\ \A i \in 1 .. n : g[i] = step[i][g[i - 1]]
      BY <1>4 DEF Steps
    <2> HIDE DEF n
    <2> QED
      BY <1>5, <2>1
  <1>7. \A i \in 1 .. n : g[i] = RedactMarker(g[i - 1], Markers[i])
    <2> HIDE DEF n
    <2>1. \A i \in 1 .. n : g[i - 1] \in Frags
      BY <1>5
    <2> QED
      BY <1>2, <1>6, <2>1
  <1>8. \A i \in 0 .. n : i # 0 => i \in 1 .. n
    <2> HIDE DEF n
    <2> QED
      BY <1>1
  <1>9. g = [i \in 0 .. n |-> IF i = 0 THEN t ELSE RedactMarker(g[i - 1], Markers[i])]
    <2> HIDE DEF n, step
    <2> QED
      BY <1>6, <1>7, <1>8
  <1>10. g = [i \in 0 .. n |-> IF i = 0 THEN t ELSE HiddenBy(Markers[i], g[i - 1])]
    <2> HIDE DEF n, step
    <2> QED
      BY <1>6, <1>8
  <1>11. redact = [i \in 0 .. n |-> IF i = 0 THEN t ELSE RedactMarker(redact[i - 1], Markers[i])]
    BY <1>9
  <1>12. hide = [i \in 0 .. n |-> IF i = 0 THEN t ELSE HiddenBy(Markers[i], hide[i - 1])]
    BY <1>10
  <1>13. RedactText(t) = redact[n] /\ Hidden(t) = hide[n]
    BY DEF RedactText, Hidden
  <1> HIDE DEF redact, hide, step
  <1>14. 0 \in 0 .. n /\ \A i \in 1 .. n : i \in 0 .. n /\ i # 0
    <2> HIDE DEF n
    <2> QED
      BY <1>1
  <1>15. redact[0] = t /\ \A i \in 1 .. n : redact[i] = RedactMarker(redact[i - 1], Markers[i])
    <2> HIDE DEF n
    <2> QED
      BY <1>11, <1>14
  <1>16. hide[0] = t /\ \A i \in 1 .. n : hide[i] = HiddenBy(Markers[i], hide[i - 1])
    <2> HIDE DEF n
    <2> QED
      BY <1>12, <1>14
  <1> DEFINE S == {i \in 0 .. n : redact[i] = g[i] /\ hide[i] = g[i]}
  <1>17. 0 \in S
    <2> HIDE DEF n
    <2> QED
      BY <1>6, <1>14, <1>15, <1>16
  <1>18. ASSUME NEW i \in 1 .. n, i - 1 \in S PROVE i \in S
    <2> HIDE DEF n
    <2>1. redact[i - 1] = g[i - 1] /\ hide[i - 1] = g[i - 1]
      BY <1>18
    <2> QED
      BY <1>6, <1>7, <1>14, <1>15, <1>16, <2>1
  <1>19. n \in S
    <2> HIDE DEF S, n
    <2> QED
      BY Zenon, <1>1, <1>17, <1>18, UpTo
  <1>20. InOrder(g, t)
    BY <1>4, <1>6 DEF InOrder
  <1> QED
    BY <1>13, <1>19, <1>20

(* The turns of a marker hide what one pass hides.                         *)
LEMMA TextHidden ==
  ASSUME NEW t \in Frags
  PROVE  RedactText(t) = Hidden(t) /\ Hidden(t) \in Frags
  <1>1. PICK g : InOrder(g, t) /\ Hidden(t) = g[Len(Markers)] /\ RedactText(t) = g[Len(Markers)]
    BY HidesInOrder
  <1>2. Len(Markers) \in 0 .. Len(Markers)
    BY MarkersIn
  <1>3. g[Len(Markers)] \in Frags
    BY <1>1, <1>2 DEF InOrder
  <1> QED
    BY <1>1, <1>3

(* Behind every marker there is nothing but the redaction.                 *)
LEMMA HiddenGuarded ==
  ASSUME NEW t \in Frags
  PROVE  \A j \in 1 .. Len(Markers) : Guarded(Markers[j], Hidden(t))
  <1> DEFINE n == Len(Markers)
  <1>1. PICK g : InOrder(g, t) /\ Hidden(t) = g[n]
    BY HidesInOrder
  <1>2. /\ g \in [0 .. n -> Frags]
        /\ \A i \in 1 .. n : g[i] = HiddenBy(Markers[i], g[i - 1])
    BY <1>1 DEF InOrder
  <1>3. n \in Nat /\ \A i \in 1 .. n : Markers[i] \in Ordinary
    BY MarkersIn
  <1> SUFFICES ASSUME NEW j \in 1 .. n PROVE Guarded(Markers[j], g[n])
    BY <1>1
  <1> HIDE DEF n
  <1> DEFINE S == {i \in 0 .. n : j <= i => Guarded(Markers[j], g[i])}
  <1>4. 0 \in S
    <2>1. 0 \in 0 .. n /\ ~(j <= 0)
      BY <1>3
    <2> QED
      BY <2>1
  <1>5. ASSUME NEW i \in 1 .. n, i - 1 \in S PROVE i \in S
    <2> DEFINE u == g[i - 1]
               m == Markers[j]
    <2>1. i \in 0 .. n /\ i - 1 \in 0 .. n /\ (j <= i => j = i \/ j <= i - 1)
      BY <1>3
    <2>2. u \in Frags /\ m \in Ordinary /\ Markers[i] \in Ordinary /\ g[i] = HiddenBy(Markers[i], u)
      BY <1>2, <1>3, <2>1
    <2>3. j <= i - 1 => Guarded(m, u)
      BY <1>5
    <2> HIDE DEF u, m
    <2>4. j = i => m = Markers[i]
      BY DEF m
    <2>5. m = Markers[i] => Guarded(m, g[i])
      BY <2>2, GuardedBy
    <2>6. m # Markers[i] /\ Guarded(m, u) => Guarded(m, g[i])
      BY <2>2, GuardKept
    <2>7. j <= i => Guarded(m, g[i])
      BY <2>1, <2>3, <2>4, <2>5, <2>6
    <2> QED
      BY <2>1, <2>7 DEF m
  <1>6. n \in S
    <2> HIDE DEF S
    <2> QED
      BY Zenon, <1>3, <1>4, <1>5, UpTo
  <1>7. j <= n
    BY <1>3
  <1> QED
    BY <1>6, <1>7

(* A text that has been redacted stays so.                                 *)
LEMMA HiddenAgain ==
  ASSUME NEW t \in Frags
  PROVE  Hidden(Hidden(t)) = Hidden(t)
  <1> DEFINE n == Len(Markers)
             h == Hidden(t)
  <1>1. h \in Frags
    BY TextHidden
  <1>2. \A j \in 1 .. n : Guarded(Markers[j], h)
    BY HiddenGuarded
  <1>3. n \in Nat /\ \A i \in 1 .. n : Markers[i] \in Ordinary
    BY MarkersIn
  <1> HIDE DEF h
  <1>4. \A j \in 1 .. n : HiddenBy(Markers[j], h) = h
    BY <1>1, <1>2, <1>3, GuardedStays
  <1>5. PICK g : InOrder(g, h) /\ Hidden(h) = g[n]
    BY <1>1, HidesInOrder
  <1>6. g[0] = h /\ \A i \in 1 .. n : g[i] = HiddenBy(Markers[i], g[i - 1])
    BY <1>5 DEF InOrder
  <1> HIDE DEF n
  <1> DEFINE S == {i \in 0 .. n : g[i] = h}
  <1>7. 0 \in S
    BY <1>3, <1>6
  <1>8. ASSUME NEW i \in 1 .. n, i - 1 \in S PROVE i \in S
    <2>1. i \in 0 .. n
      BY <1>3
    <2>2. g[i - 1] = h
      BY <1>8
    <2>3. g[i] = h
      BY <1>4, <1>6, <2>2
    <2> QED
      BY <2>1, <2>3
  <1>9. n \in S
    <2> HIDE DEF S
    <2> QED
      BY Zenon, <1>3, <1>7, <1>8, UpTo
  <1> QED
    BY <1>5, <1>9 DEF h

(* The levels, from one to the next *)
LevelsTo(g, m) ==
  g = [d \in 0 .. m |-> IF d = 0 THEN Scalars ELSE Scalars \union Compounds(g[d - 1])]

LEMMA LevelsAre ==
  /\ Levels[0] = Scalars
  /\ \A d \in 1 .. Nesting : Levels[d] = Scalars \union Compounds(Levels[d - 1])
  <1> DEFINE S == {m \in Nat : \E g : LevelsTo(g, m)}
  <1>0. Nesting \in Nat
    BY DiagnosticsAssumption
  <1>1. 0 \in S
    <2> DEFINE g == [d \in 0 .. 0 |-> Scalars]
    <2>1. \A d \in 0 .. 0 : d = 0
      OBVIOUS
    <2>2. LevelsTo(g, 0)
      BY <2>1 DEF LevelsTo
    <2> HIDE DEF g
    <2> QED
      BY <2>2
  <1>2. ASSUME NEW m \in Nat, m \in S PROVE m + 1 \in S
    <2>1. PICK g : LevelsTo(g, m)
      BY <1>2
    <2> DEFINE h == [d \in 0 .. m + 1 |->
                       IF d = m + 1 THEN Scalars \union Compounds(g[m]) ELSE g[d]]
    <2>2. \A d \in 0 .. m : d \in 0 .. m + 1 /\ d # m + 1
      OBVIOUS
    <2>3. m + 1 \in 0 .. m + 1 /\ m \in 0 .. m /\ m + 1 # 0 /\ m + 1 - 1 = m
      OBVIOUS
    <2>4. \A d \in 0 .. m : h[d] = g[d]
      BY <2>2
    <2>5. h[m + 1] = Scalars \union Compounds(g[m])
      BY <2>3
    <2>6. DOMAIN h = 0 .. m + 1 /\ h = [d \in 0 .. m + 1 |-> h[d]]
      OBVIOUS
    <2> HIDE DEF h
    <2>7. ASSUME NEW d \in 0 .. m + 1
          PROVE  h[d] = IF d = 0 THEN Scalars ELSE Scalars \union Compounds(h[d - 1])
      <3>1. CASE d = m + 1
        <4>1. h[d] = Scalars \union Compounds(g[m]) /\ d # 0 /\ d - 1 = m
          BY <2>3, <2>5, <3>1
        <4>2. h[m] = g[m]
          BY <2>3, <2>4
        <4> QED
          BY <4>1, <4>2
      <3>2. CASE d # m + 1
        <4>1. d \in 0 .. m /\ (d # 0 => d - 1 \in 0 .. m)
          BY <3>2
        <4>2. h[d] = g[d] /\ (d # 0 => h[d - 1] = g[d - 1])
          BY <2>4, <4>1
        <4>3. g[d] = IF d = 0 THEN Scalars ELSE Scalars \union Compounds(g[d - 1])
          BY <2>1, <4>1 DEF LevelsTo
        <4> QED
          BY <4>2, <4>3
      <3> QED
        BY <3>1, <3>2
    <2>8. LevelsTo(h, m + 1)
      BY <2>6, <2>7 DEF LevelsTo
    <2> QED
      BY <2>8
  <1> HIDE DEF S
  <1>3. Nat \subseteq S
    BY <1>1, <1>2, SetInduction
  <1>4. Nesting \in S
    BY <1>0, <1>3
  <1>5. \E g : LevelsTo(g, Nesting)
    BY <1>4 DEF S
  <1>6. Levels = [d \in 0 .. Nesting |->
                    IF d = 0 THEN Scalars ELSE Scalars \union Compounds(Levels[d - 1])]
    BY <1>5 DEF LevelsTo, Levels
  <1>7. 0 \in 0 .. Nesting /\ \A d \in 1 .. Nesting : d \in 0 .. Nesting /\ d # 0
    BY <1>0
  <1> QED
    BY <1>6, <1>7

LEMMA CompoundsGrow ==
  ASSUME NEW A, NEW B, A \subseteq B
  PROVE  Compounds(A) \subseteq Compounds(B)
  <1>1. Seq(A) \subseteq Seq(B)
    OBVIOUS
  <1>2. [key: Keys, value: A] \subseteq [key: Keys, value: B]
    OBVIOUS
  <1>3. Seq([key: Keys, value: A]) \subseteq Seq([key: Keys, value: B])
    <2> DEFINE a == [key: Keys, value: A]
               b == [key: Keys, value: B]
    <2>1. a \subseteq b
      BY <1>2
    <2> HIDE DEF a, b
    <2>2. Seq(a) \subseteq Seq(b)
      BY <2>1
    <2> QED
      BY <2>2 DEF a, b
  <1> DEFINE a == Seq([key: Keys, value: A])
             b == Seq([key: Keys, value: B])
  <1>4. a \subseteq b
    BY <1>3
  <1>5. Compounds(A) = [kind: {"list"}, items: Seq(A)] \union [kind: {"object"}, fields: a]
        /\ Compounds(B) = [kind: {"list"}, items: Seq(B)] \union [kind: {"object"}, fields: b]
    BY DEF Compounds
  <1> HIDE DEF a, b
  <1>6. [kind: {"list"}, items: Seq(A)] \subseteq [kind: {"list"}, items: Seq(B)]
    BY <1>1
  <1>7. [kind: {"object"}, fields: a] \subseteq [kind: {"object"}, fields: b]
    BY <1>4
  <1> QED
    BY <1>5, <1>6, <1>7

LEMMA LevelsGrow ==
  \A d \in 0 .. Nesting : Levels[d] \subseteq Json
  <1>0. Nesting \in Nat
    BY DiagnosticsAssumption
  <1> DEFINE S == {d \in 0 .. Nesting : d # 0 => Levels[d - 1] \subseteq Levels[d]}
  <1>1. 0 \in S
    BY <1>0
  <1>2. ASSUME NEW d \in 1 .. Nesting, d - 1 \in S PROVE d \in S
    <2>1. d \in 0 .. Nesting /\ d - 1 \in 0 .. Nesting
      BY <1>0
    <2>2. Levels[d] = Scalars \union Compounds(Levels[d - 1])
      BY LevelsAre
    <2>3. CASE d = 1
      <3>1. Levels[d - 1] = Scalars
        BY <2>3, LevelsAre
      <3> QED
        BY <2>1, <2>2, <3>1
    <2>4. CASE d # 1
      <3> DEFINE e == d - 1
      <3>1. e \in 1 .. Nesting /\ e # 0
        BY <1>0, <2>4
      <3>2. Levels[e - 1] \subseteq Levels[e]
        BY <1>2, <3>1
      <3> HIDE DEF e
      <3>3. Levels[e] = Scalars \union Compounds(Levels[e - 1])
        BY <3>1, LevelsAre
      <3>4. Compounds(Levels[e - 1]) \subseteq Compounds(Levels[e])
        BY <3>2, CompoundsGrow
      <3>5. Levels[e] \subseteq Levels[d]
        BY <2>2, <3>3, <3>4 DEF e
      <3> QED
        BY <2>1, <3>5 DEF e
    <2> QED
      BY <2>3, <2>4
  <1>3. \A d \in 0 .. Nesting : d \in S
    <2> HIDE DEF S
    <2> QED
      BY Zenon, <1>0, <1>1, <1>2, UpTo
  <1>4. \A d \in 1 .. Nesting : Levels[d - 1] \subseteq Levels[d]
    <2>1. \A d \in 1 .. Nesting : d \in 0 .. Nesting /\ d # 0
      BY <1>0
    <2> QED
      BY <1>3, <2>1
  <1> HIDE DEF S
  <1> DEFINE T == {i \in 0 .. Nesting : Levels[Nesting - i] \subseteq Json}
  <1>5. 0 \in T
    <2>1. Nesting - 0 = Nesting /\ 0 \in 0 .. Nesting
      BY <1>0
    <2> QED
      BY <2>1 DEF Json
  <1>6. ASSUME NEW i \in 1 .. Nesting, i - 1 \in T PROVE i \in T
    <2> DEFINE d == Nesting - (i - 1)
    <2>1. d \in 1 .. Nesting /\ d - 1 = Nesting - i /\ i \in 0 .. Nesting
      BY <1>0
    <2>2. Levels[d] \subseteq Json
      BY <1>6
    <2> HIDE DEF d
    <2>3. Levels[d - 1] \subseteq Json
      BY <1>4, <2>1, <2>2
    <2> QED
      BY <2>1, <2>3
  <1>7. \A i \in 0 .. Nesting : i \in T
    <2> HIDE DEF T
    <2> QED
      BY Zenon, <1>0, <1>5, <1>6, UpTo
  <1> SUFFICES ASSUME NEW d \in 0 .. Nesting PROVE Levels[d] \subseteq Json
    OBVIOUS
  <1>8. Nesting - d \in 0 .. Nesting /\ Nesting - (Nesting - d) = d
    BY <1>0
  <1> QED
    BY <1>7, <1>8

(* What a value of a level is *)
ScalarIs(v) == \/ v.kind = "text" /\ v \in [kind: {"text"}, text: Frags]
               \/ v.kind = "number" /\ v \in [kind: {"number"}, number: Numbers]
PartsOf(e, v) ==
  \/ v.kind = "list" /\ v \in [kind: {"list"}, items: Seq(Levels[e - 1])]
  \/ v.kind = "object"
     /\ v \in [kind: {"object"}, fields: Seq([key: Keys, value: Levels[e - 1]])]

LEMMA ValueIs ==
  ASSUME NEW e \in 0 .. Nesting, NEW v
  PROVE  v \in Levels[e] <=> ScalarIs(v) \/ (e \in 1 .. Nesting /\ PartsOf(e, v))
  <1>0. Nesting \in Nat
    BY DiagnosticsAssumption
  <1>1. v \in Scalars <=> ScalarIs(v)
    BY DEF Scalars, ScalarIs, Frags
  <1>2. e \in 1 .. Nesting => (v \in Compounds(Levels[e - 1]) <=> PartsOf(e, v))
    <2> DEFINE a == Seq([key: Keys, value: Levels[e - 1]])
               b == Seq(Levels[e - 1])
    <2>1. /\ Compounds(Levels[e - 1]) = [kind: {"list"}, items: b] \union [kind: {"object"}, fields: a]
          /\ PartsOf(e, v) <=> \/ v.kind = "list" /\ v \in [kind: {"list"}, items: b]
                               \/ v.kind = "object" /\ v \in [kind: {"object"}, fields: a]
      BY DEF Compounds, PartsOf
    <2> HIDE DEF a, b
    <2> QED
      BY <2>1
  <1>3. e \notin 1 .. Nesting => e = 0
    BY <1>0
  <1>4. CASE e \in 1 .. Nesting
    <2>1. Levels[e] = Scalars \union Compounds(Levels[e - 1])
      BY <1>4, LevelsAre
    <2> QED
      BY <1>1, <1>2, <1>4, <2>1
  <1>5. CASE e \notin 1 .. Nesting
    <2>1. Levels[e] = Scalars
      BY <1>3, <1>5, LevelsAre
    <2> QED
      BY <1>1, <1>5, <2>1
  <1> QED
    BY <1>4, <1>5

(* What sanitizing does to the values of a level stays there.              *)
AnyKey     == Keys \union {""}
Sanitizing ==
  {g \in [AnyKey -> [Json -> Json]] :
     \A e \in 0 .. Nesting : \A k \in AnyKey : \A v \in Levels[e] : g[k][v] \in Levels[e]}

LEMMA PartIn ==
  ASSUME NEW g \in Sanitizing, NEW k \in AnyKey, NEW e \in 0 .. Nesting, NEW v \in Levels[e]
  PROVE  SanitizePart(g, k, v) \in Levels[e]
  <1> DEFINE w == SanitizePart(g, k, v)
  <1>0. Nesting \in Nat
    BY DiagnosticsAssumption
  <1>1. ScalarIs(v) \/ (e \in 1 .. Nesting /\ PartsOf(e, v))
    BY ValueIs
  <1> SUFFICES ScalarIs(w) \/ (e \in 1 .. Nesting /\ PartsOf(e, w))
    BY ValueIs
  <1>2. CASE IsSensitiveKey(k)
    <2>1. w = Redacted
      BY <1>2 DEF SanitizePart
    <2>2. <<"*">> \in Frags
      <3>1. \A c \in Fragments : <<c>> \in Seq(Fragments)
        OBVIOUS
      <3> QED
        BY Zenon, <3>1, Blanks DEF Frags
    <2>3. ScalarIs(Redacted)
      BY <2>2 DEF ScalarIs, Redacted
    <2> QED
      BY <2>1, <2>3
  <1>3. CASE ~IsSensitiveKey(k) /\ v.kind = "text"
    <2>1. v \in [kind: {"text"}, text: Frags]
      BY <1>1, <1>3 DEF ScalarIs, PartsOf
    <2>2. w = [v EXCEPT !.text = RedactText(@)]
      BY <1>3 DEF SanitizePart
    <2>3. RedactText(v.text) \in Frags
      BY <2>1, TextHidden
    <2>4. w.kind = "text" /\ w \in [kind: {"text"}, text: Frags]
      BY <2>1, <2>2, <2>3
    <2> QED
      BY <2>4 DEF ScalarIs
  <1>4. CASE ~IsSensitiveKey(k) /\ v.kind = "number"
    <2>1. w = v
      BY <1>4 DEF SanitizePart
    <2> QED
      BY <1>1, <2>1
  <1>5. CASE ~IsSensitiveKey(k) /\ v.kind = "list"
    <2> DEFINE L == Levels[e - 1]
               s == v.items
               r == [i \in DOMAIN s |-> g[""][s[i]]]
    <2>1. e \in 1 .. Nesting /\ v \in [kind: {"list"}, items: Seq(L)]
      BY <1>1, <1>5 DEF ScalarIs, PartsOf
    <2>2. w = [v EXCEPT !.items = r]
      BY <1>5 DEF SanitizePart
    <2>3. e - 1 \in 0 .. Nesting /\ "" \in AnyKey
      <3>1. e \in 1 .. Nesting
        BY <2>1
      <3>2. e - 1 \in 0 .. Nesting
        BY <1>0, <3>1
      <3> QED
        BY <3>2 DEF AnyKey
    <2>4. \A x \in L : g[""][x] \in L
      BY <2>3 DEF Sanitizing
    <2>5. s \in Seq(L)
      BY <2>1
    <2> HIDE DEF L, s
    <2>6. r \in Seq(L)
      <3>1. Len(s) \in Nat /\ DOMAIN s = 1 .. Len(s) /\ \A i \in 1 .. Len(s) : s[i] \in L
        BY <2>5
      <3>2. r \in [1 .. Len(s) -> L]
        BY <2>4, <3>1
      <3> HIDE DEF r
      <3> QED
        BY <3>1, <3>2
    <2> HIDE DEF r
    <2>7. w.kind = "list" /\ w \in [kind: {"list"}, items: Seq(L)]
      BY <2>1, <2>2, <2>6
    <2> QED
      BY <2>1, <2>7 DEF PartsOf, L
  <1>6. CASE ~IsSensitiveKey(k) /\ v.kind = "object"
    <2> DEFINE L == Levels[e - 1]
               F == [key: Keys, value: L]
               s == v.fields
               r == [i \in DOMAIN s |-> [key |-> s[i].key, value |-> g[s[i].key][s[i].value]]]
    <2>1. e \in 1 .. Nesting /\ v \in [kind: {"object"}, fields: Seq(F)]
      BY <1>1, <1>6 DEF ScalarIs, PartsOf
    <2>2. w = [v EXCEPT !.fields = r]
      BY <1>6 DEF SanitizePart
    <2>3. e - 1 \in 0 .. Nesting /\ Keys \subseteq AnyKey
      <3>1. e \in 1 .. Nesting
        BY <2>1
      <3>2. e - 1 \in 0 .. Nesting
        BY <1>0, <3>1
      <3> QED
        BY <3>2 DEF AnyKey
    <2>4. \A x \in L, c \in Keys : g[c][x] \in L
      BY <2>3 DEF Sanitizing
    <2>5. s \in Seq(F)
      <3> HIDE DEF F
      <3> QED
        BY <2>1
    <2> HIDE DEF L, s
    <2>6. r \in Seq(F)
      <3>1. Len(s) \in Nat /\ DOMAIN s = 1 .. Len(s) /\ \A i \in 1 .. Len(s) : s[i] \in F
        <4> HIDE DEF F
        <4> QED
          BY <2>5
      <3>2. r \in [1 .. Len(s) -> F]
        BY <2>4, <3>1
      <3> HIDE DEF r, F
      <3> QED
        BY <3>1, <3>2
    <2> HIDE DEF r, F
    <2>7. w.kind = "object" /\ w \in [kind: {"object"}, fields: Seq(F)]
      BY <2>1, <2>2, <2>6
    <2> QED
      BY <2>1, <2>7 DEF PartsOf, L, F
  <1>7. v.kind \in {"text", "number", "list", "object"}
    BY <1>1 DEF ScalarIs, PartsOf
  <1> QED
    BY <1>2, <1>3, <1>4, <1>5, <1>6, <1>7

Relations == [AnyKey -> [Json -> [Json -> BOOLEAN]]]

(* What sanitizing makes of values that are not too deep *)
Sanitizes(f) ==
  /\ f \in [0 .. Nesting + 1 -> Sanitizing]
  /\ \A d \in 1 .. Nesting + 1 : \A k \in AnyKey : \A v \in Json :
       f[d][k][v] = SanitizePart(f[d - 1], k, v)
Cleans(c) ==
  /\ c \in [0 .. Nesting + 1 -> Relations]
  /\ \A d \in 1 .. Nesting + 1 : \A k \in AnyKey : \A b \in Json : \A a \in Json :
       c[d][k][b][a] <=> CleanPart(c[d - 1], k, b, a)

(* One more level *)
Sanitized(g) == [k \in AnyKey |-> [v \in Json |-> SanitizePart(g, k, v)]]
Cleaned(r)   ==
  [k \in AnyKey |-> [b \in Json |-> [a \in Json |-> CleanPart(r, k, b, a)]]]

LEMMA SanitizeIs ==
  \E f : /\ Sanitizes(f)
         /\ \A k \in AnyKey : \A v \in Json : SanitizeValue(k, v) = f[Nesting + 1][k][v]
  <1> DEFINE n == Nesting + 1
             base == [k \in AnyKey |-> [v \in Json |-> v]]
             step == [i \in 1 .. n |-> [x \in Sanitizing |-> Sanitized(x)]]
             sanitize[d \in 0 .. Nesting + 1] ==
               [k \in Keys \union {""} |-> [v \in Json |->
                  IF d = 0 THEN v ELSE SanitizePart(sanitize[d - 1], k, v)]]
  <1>0. Nesting \in Nat
    BY Zenon, DiagnosticsAssumption
  <1>1. n \in Nat
    BY <1>0
  <1>2. \A e \in 0 .. Nesting : Levels[e] \subseteq Json
    BY LevelsGrow
  <1>3. base \in Sanitizing
    BY <1>2 DEF Sanitizing
  <1>4. ASSUME NEW x \in Sanitizing PROVE Sanitized(x) \in Sanitizing
    <2>1. Nesting \in 0 .. Nesting
      BY <1>0
    <2>2. \A k \in AnyKey, v \in Json : SanitizePart(x, k, v) \in Json
      BY <2>1, PartIn DEF Json
    <2>3. \A e \in 0 .. Nesting : \A k \in AnyKey : \A v \in Levels[e] :
            SanitizePart(x, k, v) \in Levels[e]
      BY PartIn
    <2>4. \A e \in 0 .. Nesting : \A k \in AnyKey : \A v \in Levels[e] :
            Sanitized(x)[k][v] = SanitizePart(x, k, v)
      BY <1>2 DEF Sanitized
    <2>5. Sanitized(x) \in [AnyKey -> [Json -> Json]]
      BY <2>2 DEF Sanitized
    <2> QED
      BY <2>3, <2>4, <2>5 DEF Sanitizing
  <1>5. step \in [1 .. n -> [Sanitizing -> Sanitizing]]
    BY <1>4
  <1>6. PICK g \in [0 .. n -> Sanitizing] : Steps(g, n, base, step)
    <2> HIDE DEF n, base, step
    <2> QED
      BY <1>1, <1>3, <1>5, Recursion
  <1>7. g[0] = base /\ \A i \in 1 .. n : g[i] = Sanitized(g[i - 1])
    <2>1. \A i \in 1 .. n : i - 1 \in 0 .. n
      <3> HIDE DEF n
      <3> QED
        BY <1>1
    <2>2. g[0] = base /\ \A i \in 1 .. n : g[i] = step[i][g[i - 1]]
      BY <1>6 DEF Steps
    <2> HIDE DEF n, base
    <2> QED
      BY <2>1, <2>2
  <1>8. g = [d \in 0 .. n |->
               [k \in AnyKey |-> [v \in Json |->
                  IF d = 0 THEN v ELSE SanitizePart(g[d - 1], k, v)]]]
    <2> HIDE DEF n, step
    <2>1. \A d \in 0 .. n : d # 0 => d \in 1 .. n
      BY <1>1
    <2>2. ASSUME NEW d \in 0 .. n
          PROVE  g[d] = [k \in AnyKey |-> [v \in Json |->
                   IF d = 0 THEN v ELSE SanitizePart(g[d - 1], k, v)]]
      <3>1. CASE d = 0
        BY <1>7, <3>1
      <3>2. CASE d # 0
        <4>1. g[d] = Sanitized(g[d - 1])
          BY <1>7, <2>1, <3>2
        <4> QED
          BY <3>2, <4>1 DEF Sanitized
      <3> QED
        BY <3>1, <3>2
    <2> QED
      BY <2>2
  <1>9. sanitize = [d \in 0 .. n |->
                      [k \in AnyKey |-> [v \in Json |->
                         IF d = 0 THEN v ELSE SanitizePart(sanitize[d - 1], k, v)]]]
    BY <1>8 DEF AnyKey
  <1>10. \A k, v : SanitizeValue(k, v) = sanitize[n][k][v]
    BY DEF SanitizeValue
  <1> HIDE DEF sanitize, step
  <1>11. sanitize[0] = base /\ \A i \in 1 .. n : sanitize[i] = Sanitized(sanitize[i - 1])
    <2> HIDE DEF n
    <2>1. 0 \in 0 .. n /\ \A i \in 1 .. n : i \in 0 .. n /\ i # 0
      BY <1>1
    <2> QED
      BY <1>9, <2>1 DEF Sanitized
  <1>12. \A i \in 0 .. n : sanitize[i] \in Sanitizing
    <2> HIDE DEF n, base
    <2>1. DOMAIN sanitize = 0 .. n /\ sanitize[0] \in Sanitizing
      BY <1>3, <1>9, <1>11
    <2>2. \A i \in 1 .. n : sanitize[i - 1] \in Sanitizing => sanitize[i] \in Sanitizing
      BY <1>4, <1>11
    <2> QED
      BY <1>1, <2>1, <2>2, StaysIn, Zenon
  <1>13. sanitize \in [0 .. n -> Sanitizing]
    <2> HIDE DEF n
    <2> QED
      BY <1>9, <1>12
  <1>14. \A d \in 1 .. n : \A k \in AnyKey : \A v \in Json :
           sanitize[d][k][v] = SanitizePart(sanitize[d - 1], k, v)
    <2>1. \A d \in 1 .. n : sanitize[d] = Sanitized(sanitize[d - 1])
      BY <1>11
    <2> HIDE DEF n
    <2> SUFFICES ASSUME NEW d \in 1 .. n, NEW k \in AnyKey, NEW v \in Json
                 PROVE  sanitize[d][k][v] = SanitizePart(sanitize[d - 1], k, v)
      OBVIOUS
    <2> DEFINE h == sanitize[d - 1]
    <2>2. sanitize[d] = Sanitized(h)
      BY <2>1
    <2> HIDE DEF h
    <2>3. Sanitized(h)[k][v] = SanitizePart(h, k, v)
      BY DEF Sanitized
    <2> QED
      BY <2>2, <2>3 DEF h
  <1>15. Sanitizes(sanitize)
    BY <1>13, <1>14 DEF Sanitizes
  <1> QED
    BY <1>10, <1>15

LEMMA CleanIs ==
  \E c : /\ Cleans(c)
         /\ \A k \in AnyKey : \A b \in Json : \A a \in Json :
              Clean(k, b, a) <=> c[Nesting + 1][k][b][a]
  <1> DEFINE n == Nesting + 1
             base == [k \in AnyKey |-> [b \in Json |-> [a \in Json |-> FALSE]]]
             step == [i \in 1 .. n |-> [x \in Relations |-> Cleaned(x)]]
             clean[d \in 0 .. Nesting + 1] ==
               [k \in Keys \union {""} |-> [b \in Json |-> [a \in Json |->
                  d # 0 /\ CleanPart(clean[d - 1], k, b, a)]]]
  <1>0. Nesting \in Nat
    BY Zenon, DiagnosticsAssumption
  <1>1. n \in Nat
    BY <1>0
  <1>2. base \in Relations
    BY DEF Relations
  <1>3. \A x, k, b, a : CleanPart(x, k, b, a) \in BOOLEAN
    BY Zenon DEF CleanPart
  <1>4. ASSUME NEW x \in Relations PROVE Cleaned(x) \in Relations
    BY <1>3 DEF Cleaned, Relations
  <1>5. step \in [1 .. n -> [Relations -> Relations]]
    BY <1>4
  <1>6. PICK g \in [0 .. n -> Relations] : Steps(g, n, base, step)
    <2> HIDE DEF n, base, step
    <2> QED
      BY <1>1, <1>2, <1>5, Recursion
  <1>7. g[0] = base /\ \A i \in 1 .. n : g[i] = Cleaned(g[i - 1])
    <2>1. \A i \in 1 .. n : i - 1 \in 0 .. n
      <3> HIDE DEF n
      <3> QED
        BY <1>1
    <2>2. g[0] = base /\ \A i \in 1 .. n : g[i] = step[i][g[i - 1]]
      BY <1>6 DEF Steps
    <2> HIDE DEF n, base
    <2> QED
      BY <2>1, <2>2
  <1>8. g = [d \in 0 .. n |->
               [k \in AnyKey |-> [b \in Json |-> [a \in Json |->
                  d # 0 /\ CleanPart(g[d - 1], k, b, a)]]]]
    <2> HIDE DEF n, step
    <2>1. \A d \in 0 .. n : d # 0 => d \in 1 .. n
      BY <1>1
    <2>2. ASSUME NEW d \in 0 .. n
          PROVE  g[d] = [k \in AnyKey |-> [b \in Json |-> [a \in Json |->
                   d # 0 /\ CleanPart(g[d - 1], k, b, a)]]]
      <3>1. CASE d = 0
        <4>1. \A k, b, a : (d # 0 /\ CleanPart(g[d - 1], k, b, a)) = FALSE
          BY <3>1
        <4> QED
          BY <1>7, <3>1, <4>1
      <3>2. CASE d # 0
        <4>1. g[d] = Cleaned(g[d - 1])
          BY <1>7, <2>1, <3>2
        <4>2. \A k, b, a : (d # 0 /\ CleanPart(g[d - 1], k, b, a)) = CleanPart(g[d - 1], k, b, a)
          BY <1>3, <3>2
        <4> QED
          BY <4>1, <4>2 DEF Cleaned
      <3> QED
        BY <3>1, <3>2
    <2> QED
      BY <2>2
  <1>9. clean = [d \in 0 .. n |->
                   [k \in AnyKey |-> [b \in Json |-> [a \in Json |->
                      d # 0 /\ CleanPart(clean[d - 1], k, b, a)]]]]
    BY <1>8 DEF AnyKey
  <1>10. \A k, b, a : Clean(k, b, a) = clean[n][k][b][a]
    BY DEF Clean
  <1> HIDE DEF clean, step
  <1>11. clean[0] = base /\ \A i \in 1 .. n : clean[i] = Cleaned(clean[i - 1])
    <2> HIDE DEF n
    <2>1. 0 \in 0 .. n /\ \A i \in 1 .. n : i \in 0 .. n /\ i # 0
      BY <1>1
    <2>2. \A d \in 0 .. n : clean[d] =
            [k \in AnyKey |-> [b \in Json |-> [a \in Json |->
               d # 0 /\ CleanPart(clean[d - 1], k, b, a)]]]
      BY <1>9
    <2>3. clean[0] = base
      <3>1. clean[0] = [k \in AnyKey |-> [b \in Json |-> [a \in Json |->
                          0 # 0 /\ CleanPart(clean[0 - 1], k, b, a)]]]
        BY <2>1, <2>2
      <3>2. \A k, b, a : (0 # 0 /\ CleanPart(clean[0 - 1], k, b, a)) = FALSE
        OBVIOUS
      <3> QED
        BY <3>1, <3>2
    <2>4. ASSUME NEW i \in 1 .. n PROVE clean[i] = Cleaned(clean[i - 1])
      <3> DEFINE r == clean[i - 1]
      <3>1. i \in 0 .. n /\ i # 0
        BY <2>1
      <3>2. clean[i] = [k \in AnyKey |-> [b \in Json |-> [a \in Json |->
                          i # 0 /\ CleanPart(r, k, b, a)]]]
        BY <2>2, <3>1
      <3> HIDE DEF r
      <3>3. \A k, b, a : (i # 0 /\ CleanPart(r, k, b, a)) = CleanPart(r, k, b, a)
        BY <1>3, <3>1
      <3>4. clean[i] = Cleaned(r)
        BY <3>2, <3>3 DEF Cleaned
      <3> QED
        BY <3>4 DEF r
    <2> QED
      BY <2>3, <2>4
  <1>12. \A i \in 0 .. n : clean[i] \in Relations
    <2> HIDE DEF n, base
    <2>1. DOMAIN clean = 0 .. n /\ clean[0] \in Relations
      BY <1>2, <1>9, <1>11
    <2>2. \A i \in 1 .. n : clean[i - 1] \in Relations => clean[i] \in Relations
      BY <1>4, <1>11
    <2> QED
      BY <1>1, <2>1, <2>2, StaysIn, Zenon
  <1>13. clean \in [0 .. n -> Relations]
    <2> HIDE DEF n
    <2> QED
      BY <1>9, <1>12
  <1>14. \A d \in 1 .. n : \A k \in AnyKey : \A b \in Json : \A a \in Json :
           clean[d][k][b][a] = CleanPart(clean[d - 1], k, b, a)
    <2>1. \A d \in 1 .. n : clean[d] = Cleaned(clean[d - 1])
      BY <1>11
    <2> HIDE DEF n
    <2> SUFFICES ASSUME NEW d \in 1 .. n, NEW k \in AnyKey, NEW b \in Json, NEW a \in Json
                 PROVE  clean[d][k][b][a] = CleanPart(clean[d - 1], k, b, a)
      OBVIOUS
    <2> DEFINE r == clean[d - 1]
    <2>2. clean[d] = Cleaned(r)
      BY <2>1
    <2> HIDE DEF r
    <2>3. Cleaned(r)[k][b][a] = CleanPart(r, k, b, a)
      BY DEF Cleaned
    <2> QED
      BY <2>2, <2>3 DEF r
  <1>15. Cleans(clean)
    BY <1>13, <1>14 DEF Cleans
  <1> QED
    BY <1>10, <1>15

(* The values inside one of level e are sanitized and stay so.             *)
Settled(g, r, e) ==
  \A k \in AnyKey : \A v \in Levels[e] : r[k][v][g[k][v]] /\ g[k][g[k][v]] = g[k][v]

LEMMA PartSettles ==
  ASSUME NEW g \in Sanitizing, NEW r, NEW k \in AnyKey, NEW e \in 0 .. Nesting,
         NEW v \in Levels[e], e \in 1 .. Nesting => Settled(g, r, e - 1)
  PROVE  /\ CleanPart(r, k, v, SanitizePart(g, k, v))
         /\ SanitizePart(g, k, SanitizePart(g, k, v)) = SanitizePart(g, k, v)
  <1> DEFINE w == SanitizePart(g, k, v)
  <1>0. Nesting \in Nat
    BY DiagnosticsAssumption
  <1>1. ScalarIs(v) \/ (e \in 1 .. Nesting /\ PartsOf(e, v))
    BY ValueIs
  <1>2. CASE IsSensitiveKey(k)
    <2>1. \A u : SanitizePart(g, k, u) = Redacted
      BY <1>2 DEF SanitizePart
    <2> QED
      BY <1>2, <2>1 DEF CleanPart
  <1>3. CASE ~IsSensitiveKey(k) /\ v.kind = "text"
    <2>1. v \in [kind: {"text"}, text: Frags]
      BY <1>1, <1>3 DEF ScalarIs, PartsOf
    <2>2. \A u : u.kind = "text" => SanitizePart(g, k, u) = [u EXCEPT !.text = RedactText(@)]
      BY <1>3 DEF SanitizePart
    <2> DEFINE t == v.text
               h == Hidden(t)
    <2>3. t \in Frags
      BY <2>1
    <2>4. h \in Frags /\ RedactText(t) = h /\ RedactText(h) = h
      <3>1. h \in Frags /\ RedactText(t) = h /\ Hidden(h) = h
        BY <2>3, HiddenAgain, TextHidden
      <3> QED
        BY <3>1, TextHidden
    <2>4a. \A marker \in ToSet(Markers) : Guarded(marker, h)
      <3>1. \A j \in 1 .. Len(Markers) : Guarded(Markers[j], h)
        BY <2>3, HiddenGuarded
      <3>2. \A marker \in ToSet(Markers) : \E j \in 1 .. Len(Markers) : marker = Markers[j]
        <4>1. Markers \in Seq(Ordinary)
          BY DiagnosticsAssumption DEF Ordinary
        <4> QED
          BY <4>1 DEF ToSet
      <3> QED
        BY <3>1, <3>2
    <2> HIDE DEF h
    <2>5. w = [v EXCEPT !.text = h]
      BY <1>3, <2>2, <2>4
    <2>6. w.kind = "text" /\ w.text = h /\ [w EXCEPT !.text = h] = w
      BY <1>3, <2>1, <2>5
    <2> HIDE DEF w
    <2>7. SanitizePart(g, k, w) = w
      BY <2>2, <2>4, <2>6
    <2>8. CleanPart(r, k, v, w)
      BY <1>3, <2>4a, <2>6 DEF CleanPart, h
    <2> QED
      BY <2>7, <2>8 DEF w
  <1>4. CASE ~IsSensitiveKey(k) /\ v.kind = "number"
    <2>1. w = v
      BY <1>4 DEF SanitizePart
    <2> HIDE DEF w
    <2>2. CleanPart(r, k, v, w)
      BY <1>4, <2>1 DEF CleanPart
    <2> QED
      BY <2>1, <2>2 DEF w
  <1>5. CASE ~IsSensitiveKey(k) /\ v.kind = "list"
    <2> DEFINE L == Levels[e - 1]
               s == v.items
               m == [i \in DOMAIN s |-> g[""][s[i]]]
    <2>1. e \in 1 .. Nesting /\ v \in [kind: {"list"}, items: Seq(L)]
      BY <1>1, <1>5 DEF ScalarIs, PartsOf
    <2>2. \A u : u.kind = "list" => SanitizePart(g, k, u)
                   = [u EXCEPT !.items = [i \in DOMAIN @ |-> g[""][@[i]]]]
      BY <1>5 DEF SanitizePart
    <2>3. \A x \in L : r[""][x][g[""][x]] /\ g[""][g[""][x]] = g[""][x]
      <3>1. Settled(g, r, e - 1) /\ "" \in AnyKey
        BY <2>1 DEF AnyKey
      <3> QED
        BY <3>1 DEF Settled
    <2>4. s \in Seq(L)
      BY <2>1
    <2> HIDE DEF L
    <2>5. Len(s) \in Nat /\ DOMAIN s = 1 .. Len(s) /\ \A i \in DOMAIN s : s[i] \in L
      BY <2>4
    <2>6. w = [v EXCEPT !.items = m]
      BY <1>5, <2>2
    <2>7. w.kind = "list" /\ w.items = m /\ [w EXCEPT !.items = m] = w
      BY <1>5, <2>1, <2>6
    <2> HIDE DEF s
    <2>8. DOMAIN m = 1 .. Len(s) /\ \A i \in DOMAIN s : m[i] = g[""][s[i]]
      BY <2>5
    <2>9. [i \in DOMAIN m |-> g[""][m[i]]] = m
      <3>1. m = [i \in DOMAIN m |-> m[i]] /\ DOMAIN m = DOMAIN s
        OBVIOUS
      <3> HIDE DEF m
      <3>2. ASSUME NEW i \in DOMAIN m PROVE g[""][m[i]] = m[i]
        <4>1. s[i] \in L /\ m[i] = g[""][s[i]]
          BY <2>5, <2>8, <3>1
        <4>2. g[""][g[""][s[i]]] = g[""][s[i]]
          BY <2>3, <4>1
        <4> QED
          BY <4>1, <4>2
      <3> QED
        BY <3>1, <3>2
    <2>10. Len(m) = Len(s)
      BY <2>5, <2>8
    <2> HIDE DEF w, m
    <2>11. SanitizePart(g, k, w) = w
      <3>1. SanitizePart(g, k, w)
              = [w EXCEPT !.items = [i \in DOMAIN w.items |-> g[""][w.items[i]]]]
        BY <2>2, <2>7
      <3> QED
        BY <2>7, <2>9, <3>1
    <2>12. \A i \in DOMAIN s : r[""][s[i]][m[i]]
      BY <2>3, <2>5, <2>8
    <2>13. CleanPart(r, k, v, w)
      BY <1>5, <2>7, <2>10, <2>12 DEF CleanPart, s
    <2> QED
      BY <2>11, <2>13 DEF w
  <1>6. CASE ~IsSensitiveKey(k) /\ v.kind = "object"
    <2> DEFINE L == Levels[e - 1]
               s == v.fields
               m == [i \in DOMAIN s |-> [key |-> s[i].key, value |-> g[s[i].key][s[i].value]]]
    <2>1. e \in 1 .. Nesting /\ v \in [kind: {"object"}, fields: Seq([key: Keys, value: L])]
      BY <1>1, <1>6 DEF ScalarIs, PartsOf
    <2>2. \A u : u.kind = "object" => SanitizePart(g, k, u)
                   = [u EXCEPT !.fields =
                        [i \in DOMAIN @ |->
                           [key |-> @[i].key, value |-> g[@[i].key][@[i].value]]]]
      BY <1>6 DEF SanitizePart
    <2>3. \A c \in Keys, x \in L : r[c][x][g[c][x]] /\ g[c][g[c][x]] = g[c][x]
      <3>1. Settled(g, r, e - 1) /\ Keys \subseteq AnyKey
        BY <2>1 DEF AnyKey
      <3> QED
        BY <3>1 DEF Settled
    <2> DEFINE F == [key: Keys, value: L]
    <2>4. s \in Seq(F)
      <3> HIDE DEF F
      <3> QED
        BY <2>1 DEF F
    <2>5. Len(s) \in Nat /\ DOMAIN s = 1 .. Len(s) /\ \A i \in DOMAIN s : s[i] \in F
      <3> HIDE DEF F, s
      <3> QED
        BY <2>4
    <2> HIDE DEF L
    <2>6. w = [v EXCEPT !.fields = m]
      BY <1>6, <2>2
    <2>7. w.kind = "object" /\ w.fields = m /\ [w EXCEPT !.fields = m] = w
      BY <1>6, <2>1, <2>6
    <2> HIDE DEF s
    <2>8. DOMAIN m = 1 .. Len(s) /\ \A i \in DOMAIN s :
            m[i].key = s[i].key /\ m[i].value = g[s[i].key][s[i].value]
      BY <2>5
    <2>9. [i \in DOMAIN m |-> [key |-> m[i].key, value |-> g[m[i].key][m[i].value]]] = m
      <3>1. DOMAIN m = DOMAIN s
            /\ \A i \in DOMAIN m : m[i] = [key |-> m[i].key, value |-> m[i].value]
        BY <2>5
      <3>2. m = [i \in DOMAIN m |-> m[i]]
        OBVIOUS
      <3> HIDE DEF m
      <3>3. ASSUME NEW i \in DOMAIN m
            PROVE  [key |-> m[i].key, value |-> g[m[i].key][m[i].value]] = m[i]
        <4>1. s[i] \in F
          BY <2>5, <3>1
        <4>2. s[i].key \in Keys /\ s[i].value \in L
          BY <4>1
        <4>3. m[i].key = s[i].key /\ m[i].value = g[s[i].key][s[i].value]
          BY <2>8, <3>1
        <4>4. g[m[i].key][m[i].value] = m[i].value
          BY <2>3, <4>2, <4>3
        <4> QED
          BY <3>1, <4>4
      <3> QED
        BY <3>2, <3>3
    <2>10. Len(m) = Len(s)
      BY <2>5, <2>8
    <2> HIDE DEF w, m
    <2>11. SanitizePart(g, k, w) = w
      <3>1. SanitizePart(g, k, w)
              = [w EXCEPT !.fields =
                   [i \in DOMAIN w.fields |->
                      [key |-> w.fields[i].key,
                       value |-> g[w.fields[i].key][w.fields[i].value]]]]
        BY <2>2, <2>7
      <3> QED
        BY <2>7, <2>9, <3>1
    <2>12. \A i \in DOMAIN s : m[i].key = s[i].key /\ r[s[i].key][s[i].value][m[i].value]
      BY <2>3, <2>5, <2>8
    <2>13. CleanPart(r, k, v, w)
      BY <1>6, <2>7, <2>10, <2>12 DEF CleanPart, s
    <2> QED
      BY <2>11, <2>13 DEF w
  <1>7. v.kind \in {"text", "number", "list", "object"}
    BY <1>1 DEF ScalarIs, PartsOf
  <1> QED
    BY <1>2, <1>3, <1>4, <1>5, <1>6, <1>7

(* What sanitizing makes of a value is clean, and sanitized already.       *)
LEMMA SanitizeSettles ==
  ASSUME NEW f, NEW c, Sanitizes(f), Cleans(c), NEW d \in 0 .. Nesting + 1,
         NEW e \in 0 .. Nesting, e < d
  PROVE  Settled(f[d], c[d], e)
  <1>0. Nesting \in Nat
    BY DiagnosticsAssumption
  <1> DEFINE n == Nesting + 1
             S == {x \in 0 .. n : \A y \in 0 .. Nesting : y < x => Settled(f[x], c[x], y)}
  <1>1. n \in Nat
    BY <1>0
  <1>2. 0 \in S
    <2>1. 0 \in 0 .. n /\ \A y \in 0 .. Nesting : ~(y < 0)
      BY <1>0, <1>1
    <2> QED
      BY <2>1
  <1>3. ASSUME NEW x \in 1 .. n, x - 1 \in S PROVE x \in S
    <2>1. x \in 0 .. n /\ x - 1 \in 0 .. n
      BY <1>1
    <2> SUFFICES ASSUME NEW y \in 0 .. Nesting, y < x PROVE Settled(f[x], c[x], y)
      BY <2>1
    <2> DEFINE g == f[x - 1]
               r == c[x - 1]
    <2>2. y \in 1 .. Nesting => y - 1 \in 0 .. Nesting /\ y - 1 < x - 1
      BY <1>0, <2>1
    <2>3. y \in 1 .. Nesting => Settled(g, r, y - 1)
      BY <1>3, <2>2
    <2>4. g \in Sanitizing
      BY <2>1 DEF Sanitizes
    <2>5. \A k \in AnyKey : \A v \in Json : f[x][k][v] = SanitizePart(g, k, v)
      BY DEF Sanitizes
    <2>6. \A k \in AnyKey : \A b \in Json : \A a \in Json :
            c[x][k][b][a] <=> CleanPart(r, k, b, a)
      BY DEF Cleans
    <2>7. Levels[y] \subseteq Json
      BY LevelsGrow
    <2> HIDE DEF g, r, S, n
    <2> SUFFICES ASSUME NEW k \in AnyKey, NEW v \in Levels[y]
                 PROVE  c[x][k][v][f[x][k][v]] /\ f[x][k][f[x][k][v]] = f[x][k][v]
      BY DEF Settled
    <2> DEFINE w == SanitizePart(g, k, v)
    <2>8. w \in Levels[y]
      BY <2>4, PartIn
    <2>9. CleanPart(r, k, v, w) /\ SanitizePart(g, k, w) = w
      BY <2>3, <2>4, PartSettles
    <2> HIDE DEF w
    <2>10. f[x][k][v] = w /\ f[x][k][w] = w
      <3>1. f[x][k][v] = w
        BY <2>5, <2>7 DEF w
      <3>2. f[x][k][w] = w
        BY <2>5, <2>7, <2>8, <2>9
      <3> QED
        BY <3>1, <3>2
    <2>11. c[x][k][v][w]
      BY <2>6, <2>7, <2>8, <2>9
    <2> QED
      BY <2>10, <2>11
  <1>4. \A x \in 0 .. n : x \in S
    <2> HIDE DEF S, n
    <2> QED
      BY Zenon, <1>1, <1>2, <1>3, UpTo
  <1> QED
    BY <1>4

LEMMA ValueSettles ==
  ASSUME NEW v \in Json
  PROVE  /\ SanitizeValue("", v) \in Json
         /\ Clean("", v, SanitizeValue("", v))
         /\ SanitizeValue("", SanitizeValue("", v)) = SanitizeValue("", v)
  <1>0. Nesting \in Nat
    BY DiagnosticsAssumption
  <1>1. Nesting + 1 \in 0 .. Nesting + 1 /\ Nesting \in 0 .. Nesting /\ Nesting < Nesting + 1
    BY <1>0
  <1>2. PICK f : /\ Sanitizes(f)
                 /\ \A k \in AnyKey : \A x \in Json : SanitizeValue(k, x) = f[Nesting + 1][k][x]
    BY SanitizeIs
  <1>3. PICK c : /\ Cleans(c)
                 /\ \A k \in AnyKey : \A b \in Json : \A a \in Json :
                      Clean(k, b, a) <=> c[Nesting + 1][k][b][a]
    BY CleanIs
  <1> DEFINE g == f[Nesting + 1]
             r == c[Nesting + 1]
             w == g[""][v]
  <1>4. Settled(g, r, Nesting)
    BY <1>1, <1>2, <1>3, SanitizeSettles
  <1>5. "" \in AnyKey
    BY DEF AnyKey
  <1>6. g \in [AnyKey -> [Json -> Json]]
    BY <1>1, <1>2 DEF Sanitizes, Sanitizing
  <1>7. \A x \in Json : SanitizeValue("", x) = g[""][x]
    BY <1>2, <1>5
  <1>8. \A b \in Json : \A a \in Json : Clean("", b, a) <=> r[""][b][a]
    BY <1>3, <1>5
  <1> HIDE DEF g, r
  <1>9. w \in Json
    BY <1>5, <1>6
  <1>10. r[""][v][w] /\ g[""][w] = w
    BY <1>4, <1>5 DEF Settled, Json
  <1>11. SanitizeValue("", v) = w
    BY <1>7
  <1> HIDE DEF w
  <1>12. SanitizeValue("", w) = w
    BY <1>7, <1>9, <1>10
  <1>13. Clean("", v, w)
    BY <1>8, <1>9, <1>10
  <1> QED
    BY <1>9, <1>11, <1>12, <1>13

(* Events, as the fold that keeps or drops each line *)
LEMMA EventsFold ==
  /\ Events(<<>>) = <<>>
  /\ \A lines \in Seq(Json \union {Broken}) : Events(lines) \in Seq(Json)
  /\ \A lines \in Seq(Json \union {Broken}), x \in Json :
       Events(Append(lines, x)) = Append(Events(lines), x)
  <1> DEFINE X == Seq(Json)
             C == Json \union {Broken}
             Keep(rows, line) == IF line = Broken THEN rows ELSE Append(rows, line)
             step == [rows \in X |-> [line \in C |-> Keep(rows, line)]]
  <1>1. \A rows \in X, line \in C : Keep(rows, line) \in X
    OBVIOUS
  <1>2. \A rows \in X, line \in C : step[rows][line] = Keep(rows, line)
    OBVIOUS
  <1>3. step \in Stepper(X, C)
    <2>1. step \in [X -> [C -> X]]
      BY <1>1
    <2> HIDE DEF step, X, C
    <2> QED
      BY <2>1 DEF Stepper
  <1>4. <<>> \in X
    OBVIOUS
  <1>5. ASSUME NEW lines \in Seq(C) PROVE Events(lines) = Fold(step, <<>>, lines)
    <2> DEFINE n == Len(lines)
               kept[i \in 0 .. Len(lines)] ==
                 IF i = 0 THEN <<>>
                 ELSE IF lines[i] = Broken THEN kept[i - 1] ELSE Append(kept[i - 1], lines[i])
    <2>1. Events(lines) = kept[n]
      BY DEF Events
    <2>2. n \in Nat /\ \A i \in 1 .. n : lines[i] \in C
      OBVIOUS
    <2> HIDE DEF step, X, C
    <2>3. Folding(X, step, <<>>, lines)
      BY <1>3, <1>4, FoldExists
    <2>4. PICK f \in [0 .. n -> X] : FoldsBy(f, step, <<>>, lines)
      BY <2>3 DEF Folding
    <2>5. f = [i \in 0 .. n |-> IF i = 0 THEN <<>>
                                ELSE IF lines[i] = Broken THEN f[i - 1]
                                     ELSE Append(f[i - 1], lines[i])]
      <3> HIDE DEF n
      <3>1. ASSUME NEW i \in 0 .. n, i # 0 PROVE f[i] = Keep(f[i - 1], lines[i])
        <4>1. i \in 1 .. n /\ i - 1 \in 0 .. n
          BY <2>2, <3>1
        <4>2. f[i] = step[f[i - 1]][lines[i]]
          BY <2>4, <4>1 DEF FoldsBy, n
        <4>3. f[i - 1] \in X
          BY <4>1
        <4> HIDE DEF Keep
        <4> QED
          BY <1>2, <2>2, <4>1, <4>2, <4>3
      <3>2. f[0] = <<>>
        BY <2>4 DEF FoldsBy
      <3>3. DOMAIN f = 0 .. n
        OBVIOUS
      <3> QED
        BY <3>1, <3>2, <3>3
    <2>6. kept = [i \in 0 .. n |-> IF i = 0 THEN <<>>
                                   ELSE IF lines[i] = Broken THEN kept[i - 1]
                                        ELSE Append(kept[i - 1], lines[i])]
      BY <2>5
    <2> HIDE DEF kept, n
    <2>7. kept[0] = <<>> /\ DOMAIN kept = 0 .. n
          /\ \A i \in 1 .. n : kept[i] = Keep(kept[i - 1], lines[i])
      <3>1. \A i \in 1 .. n : i \in 0 .. n /\ i # 0
        BY <2>2
      <3>2. 0 \in 0 .. n
        BY <2>2
      <3> QED
        BY <2>6, <3>1, <3>2
    <2> HIDE DEF Keep
    <2>8. \A i \in 1 .. n : kept[i - 1] \in X => kept[i] = step[kept[i - 1]][lines[i]]
      BY <1>2, <2>2, <2>7
    <2> QED
      BY <1>3, <1>4, <2>1, <2>7, <2>8, LoopIs DEF n
  <1>6. /\ Fold(step, <<>>, <<>>) = <<>>
        /\ \A word \in Seq(C) : Fold(step, <<>>, word) \in X
        /\ \A word \in Seq(C), c \in C :
             Fold(step, <<>>, Append(word, c)) = step[Fold(step, <<>>, word)][c]
    <2> HIDE DEF step, X, C
    <2> QED
      BY <1>3, <1>4, FoldGrows
  <1>7. <<>> \in Seq(C) /\ \A lines \in Seq(C), x \in C : Append(lines, x) \in Seq(C)
    OBVIOUS
  <1>8. Broken \notin Json
    BY DiagnosticsAssumption
  <1> HIDE DEF step
  <1>9. Events(<<>>) = <<>>
    BY <1>5, <1>6, <1>7
  <1>10. \A lines \in Seq(C) : Events(lines) \in X
    BY <1>5, <1>6
  <1>11. ASSUME NEW lines \in Seq(C), NEW x \in Json
         PROVE  Events(Append(lines, x)) = Append(Events(lines), x)
    <2>1. x \in C /\ x # Broken
      BY <1>8
    <2> HIDE DEF C, X
    <2>2. Events(Append(lines, x)) = step[Events(lines)][x]
      BY <1>5, <1>6, <1>7, <2>1
    <2>3. Events(lines) \in X
      BY <1>10
    <2>4. step[Events(lines)][x] = Keep(Events(lines), x)
      BY <1>2, <2>1, <2>3
    <2> QED
      BY <2>1, <2>2, <2>4
  <1> QED
    BY <1>9, <1>10, <1>11

(* What is recorded and exported: the events of the logs that are kept.    *)
LogsOf(directory) ==
  \A name \in DOMAIN directory :
    directory[name].age \in Nat /\ directory[name].lines \in Seq(Json \union {Broken})
Recent(directory) ==
  {n \in DOMAIN directory \intersect Structured : directory[n].age <= Retention}

LEMMA PruneIs ==
  ASSUME NEW directory, LogsOf(directory)
  PROVE  /\ DOMAIN Prune(directory)
              = {n \in DOMAIN directory : n \in Structured => n \in Recent(directory)}
         /\ \A n \in DOMAIN Prune(directory) : Prune(directory)[n] = directory[n]
  <1>1. Retention \in Nat
    BY DiagnosticsAssumption
  <1>2. \A n \in DOMAIN directory : directory[n].age \in Nat
    BY DEF LogsOf
  <1>3. \A n \in DOMAIN directory :
          ~(IsStructuredLog(n) /\ directory[n].age > Retention)
            <=> (n \in Structured => n \in Recent(directory))
    BY <1>1, <1>2 DEF IsStructuredLog, Recent
  <1> QED
    BY <1>3 DEF Prune

(* Events that are recorded behind the lines of a log *)
LEMMA EventsBehind ==
  ASSUME NEW lines \in Seq(Json \union {Broken}), NEW more \in Seq(Json)
  PROVE  Events(lines \o more) = Events(lines) \o more
  <1> DEFINE C == Json \union {Broken}
             S == {s \in Seq(Json) : Events(lines \o s) = Events(lines) \o s}
  <1>1. \A s \in Seq(Json) : s \in Seq(C)
    OBVIOUS
  <1>2. Events(lines) \in Seq(Json)
    BY EventsFold
  <1>3. <<>> \in S
    <2>1. lines \o <<>> = lines /\ Events(lines) \o <<>> = Events(lines) /\ <<>> \in Seq(Json)
      BY <1>2
    <2> DEFINE none == <<>>
    <2> HIDE DEF none
    <2>2. lines \o none = lines /\ Events(lines) \o none = Events(lines) /\ none \in Seq(Json)
      BY <2>1 DEF none
    <2>3. none \in S
      BY <2>2
    <2> QED
      BY <2>3 DEF none
  <1>4. ASSUME NEW s \in Seq(Json), NEW x \in Json, s \in S PROVE Append(s, x) \in S
    <2>1. Append(s, x) \in Seq(Json) /\ x \in C
      OBVIOUS
    <2>2. Events(lines \o s) = Events(lines) \o s
      BY <1>4
    <2>3. lines \in Seq(C) /\ s \in Seq(C)
      BY <1>1
    <2> HIDE DEF C, S
    <2>4. lines \o Append(s, x) = Append(lines \o s, x)
      BY <2>1, <2>3, ConcatAppend
    <2>5. lines \o s \in Seq(C)
      BY <2>3, ConcatIs
    <2>6. Events(Append(lines \o s, x)) = Append(Events(lines \o s), x)
      BY <2>5, EventsFold DEF C
    <2>7. Events(lines) \o Append(s, x) = Append(Events(lines) \o s, x)
      BY <1>2, ConcatAppend
    <2>8. Events(lines \o Append(s, x)) = Events(lines) \o Append(s, x)
      BY Zenon, <2>2, <2>4, <2>6, <2>7
    <2> QED
      BY <2>1, <2>8 DEF S
  <1> HIDE DEF S
  <1>5. more \in S
    BY <1>3, <1>4, WordInduction
  <1> QED
    BY <1>5 DEF S

(* What the export of what has been recorded is made of                    *)
Exports(directory, event, later, output) ==
  LET e      == SanitizeValue("", event)
      names  == Recent(directory) \union {"agent"}
      Old(n) == IF n \in Recent(directory) THEN Events(directory[n].lines) ELSE <<>>
      Written(n) == IF n = "agent" THEN Append(Old(n), e) ELSE Old(n)
      Came(n) == [i \in DOMAIN later[n] |-> SanitizeValue("", later[n][i])]
      Found(n) == Written(n) \o Came(n)
  IN IF \E n \in names : later[n] = Pruned THEN output = Failed
     ELSE /\ output.manifest = [n \in names |-> Len(Written(n))]
          /\ DOMAIN output.logs = names
          /\ \A n \in names :
               output.logs[n] = [i \in DOMAIN Found(n) |-> SanitizeValue("", Found(n)[i])]

LEMMA ExportIs ==
  ASSUME NEW directory \in Logs, NEW event \in Values, NEW later \in [Structured -> Meanwhile]
  PROVE  Exports(directory, event, later, Export(Record(directory, "agent", event), later))
  <1> DEFINE e      == SanitizeValue("", event)
             Old(n) == IF n \in Recent(directory) THEN Events(directory[n].lines) ELSE <<>>
             Written(n) == IF n = "agent" THEN Append(Old(n), e) ELSE Old(n)
             kept   == Prune(directory)
             after  == Record(directory, "agent", event)
             lines  == IF "agent" \in DOMAIN kept THEN kept["agent"].lines ELSE <<>>
             names  == Recent(directory) \union {"agent"}
             Came(n) == [i \in DOMAIN later[n] |-> SanitizeValue("", later[n][i])]
             Found(n) == Written(n) \o Came(n)
             output == Export(after, later)
  <1>1. LogsOf(directory)
    BY DiagnosticsAssumption DEF LogsOf
  <1>2. /\ DOMAIN kept = {n \in DOMAIN directory : n \in Structured => n \in Recent(directory)}
        /\ \A n \in DOMAIN kept : kept[n] = directory[n]
    BY <1>1, PruneIs
  <1>3. e \in Json
    <2>1. event \in Json
      BY DiagnosticsAssumption
    <2> QED
      BY <2>1, ValueSettles
  <1>4. "agent" \in Structured /\ Retention \in Nat
    BY DiagnosticsAssumption
  <1>5. after = [n \in DOMAIN kept \union {"agent"} |->
                   IF n = "agent" THEN [age |-> 0, lines |-> Append(lines, e)] ELSE kept[n]]
    BY DEF Record
  <1>6. lines \in Seq(Json \union {Broken}) /\ Events(lines) = Old("agent")
    <2>1. "agent" \in DOMAIN kept <=> "agent" \in Recent(directory)
      BY <1>2, <1>4 DEF Recent
    <2>2. CASE "agent" \in DOMAIN kept
      <3>1. lines = directory["agent"].lines /\ "agent" \in DOMAIN directory
        BY <1>2, <2>2
      <3> QED
        BY <1>1, <2>1, <2>2, <3>1 DEF LogsOf
    <2>3. CASE "agent" \notin DOMAIN kept
      <3>1. lines = <<>> /\ Old("agent") = <<>>
        BY <2>1, <2>3
      <3>2. Events(<<>>) = <<>>
        BY EventsFold
      <3>3. <<>> \in Seq(Json \union {Broken})
        OBVIOUS
      <3> HIDE DEF lines, Old
      <3> QED
        BY <3>1, <3>2, <3>3
    <2> QED
      BY <2>2, <2>3
  <1> HIDE DEF lines, kept, e
  <1>7. Append(lines, e) \in Seq(Json \union {Broken})
        /\ Events(Append(lines, e)) = Append(Old("agent"), e)
    <2>1. Events(Append(lines, e)) = Append(Events(lines), e)
      BY <1>3, <1>6, EventsFold
    <2>2. Append(lines, e) \in Seq(Json \union {Broken})
      BY <1>3, <1>6
    <2> QED
      BY <1>6, <2>1, <2>2
  <1>8. /\ DOMAIN after = DOMAIN kept \union {"agent"}
        /\ after["agent"].age = 0 /\ after["agent"].lines = Append(lines, e)
        /\ \A n \in DOMAIN kept : n # "agent" => after[n] = directory[n]
    BY <1>2, <1>5
  <1> HIDE DEF after
  <1>9. LogsOf(after)
    <2>1. \A n \in DOMAIN kept : n \in DOMAIN directory
      BY <1>2
    <2>2. \A n \in DOMAIN after : n # "agent" =>
            after[n].age \in Nat /\ after[n].lines \in Seq(Json \union {Broken})
      BY <1>1, <1>8, <2>1 DEF LogsOf
    <2>3. after["agent"].age \in Nat
      BY <1>8
    <2> QED
      BY <1>7, <1>8, <2>2, <2>3 DEF LogsOf
  <1>10. Recent(after) = Recent(directory) \union {"agent"}
    <2>1. "agent" \in Recent(after)
      <3>1. after["agent"].age <= Retention
        BY <1>4, <1>8
      <3> QED
        BY <1>4, <1>8, <3>1 DEF Recent
    <2>2. ASSUME NEW n, n # "agent" PROVE n \in Recent(after) <=> n \in Recent(directory)
      <3>1. n \in Recent(directory) => n \in DOMAIN kept
        BY <1>2 DEF Recent
      <3>2. n \in DOMAIN kept => n \in DOMAIN directory /\ after[n] = directory[n]
        BY <1>2, <1>8, <2>2
      <3>3. n \in DOMAIN after <=> n \in DOMAIN kept
        BY <1>8, <2>2
      <3> QED
        BY <3>1, <3>2, <3>3 DEF Recent
    <2> QED
      BY <2>1, <2>2
  <1>11. DOMAIN Preview(after) = names
    <2>1. DOMAIN Preview(after) = {m \in DOMAIN Prune(after) : IsStructuredLog(m)}
      BY DEF Preview
    <2>2. DOMAIN Prune(after) = {n \in DOMAIN after : n \in Structured => n \in Recent(after)}
      BY <1>9, PruneIs
    <2>3. DOMAIN Preview(after) = Recent(after)
      BY <2>1, <2>2 DEF IsStructuredLog, Recent
    <2> QED
      BY <1>10, <2>3
  <1>12. \A n \in names : /\ after[n].lines \in Seq(Json \union {Broken})
                           /\ Events(after[n].lines) = Written(n)
    <2> SUFFICES ASSUME NEW n \in Recent(directory) \union {"agent"}
                 PROVE  /\ after[n].lines \in Seq(Json \union {Broken})
                        /\ Events(after[n].lines) = Written(n)
      OBVIOUS
    <2>1. CASE n = "agent"
      BY <1>7, <1>8, <2>1
    <2>2. CASE n # "agent"
      <3>1. n \in Recent(directory) /\ n \in DOMAIN kept
        BY <1>2, <2>2 DEF Recent
      <3>2. after[n] = directory[n] /\ n \in DOMAIN after
        BY <1>8, <2>2, <3>1
      <3>3. Written(n) = Events(directory[n].lines)
        BY <2>2, <3>1
      <3>4. after[n].lines \in Seq(Json \union {Broken})
        BY <1>9, <3>2 DEF LogsOf
      <3> QED
        BY <3>2, <3>3, <3>4
    <2> QED
      BY <2>1, <2>2
  <1>13. names \subseteq Structured /\ names \subseteq DOMAIN after
    BY <1>4, <1>10, <1>11 DEF Recent
  <1>14. Preview(after) = [n \in names |-> Len(Written(n))]
    <2> DEFINE pruned == Prune(after)
    <2>1. \A n \in names : n \in DOMAIN pruned /\ pruned[n] = after[n]
      <3>1. names \subseteq DOMAIN pruned
        BY <1>11 DEF Preview
      <3> QED
        BY <1>9, <3>1, PruneIs
    <2>2. Preview(after) = [n \in names |-> Len(Events(pruned[n].lines))]
      <3>1. Preview(after) = [n \in {m \in DOMAIN pruned : IsStructuredLog(m)}
                               |-> Len(Events(pruned[n].lines))]
        BY DEF Preview
      <3> HIDE DEF pruned
      <3> QED
        BY <1>11, <3>1
    <2> HIDE DEF pruned, Written, names
    <2> QED
      BY <1>12, <2>1, <2>2
  <1> DEFINE Held(n) == Events(Opened(after, later, n))
             manifest == Preview(after)
  <1>15. output = IF \E n \in DOMAIN manifest : later[n] = Pruned THEN Failed
                  ELSE [manifest |-> manifest,
                        logs |-> [n \in DOMAIN manifest |->
                                    [i \in DOMAIN Held(n)
                                       |-> SanitizeValue("", Held(n)[i])]]]
    BY DEF Export
  <1>16. ASSUME NEW n \in names, later[n] # Pruned PROVE Held(n) = Found(n)
    <2>1. n \in Structured
      BY <1>13
    <2>2. later[n] \in Meanwhile \ {Pruned}
      BY <1>16, <2>1
    <2>3. later[n] \in Seq(Json)
      BY <2>2, DiagnosticsAssumption
    <2> DEFINE s == later[n]
    <2>4. Came(n) \in Seq(Json)
      <3>1. Len(s) \in Nat /\ DOMAIN s = 1 .. Len(s) /\ \A i \in 1 .. Len(s) : s[i] \in Json
        BY <2>3
      <3> HIDE DEF s
      <3> DEFINE r == [i \in DOMAIN s |-> SanitizeValue("", s[i])]
      <3>2. r \in [1 .. Len(s) -> Json]
        BY <3>1, ValueSettles
      <3> HIDE DEF r
      <3>3. r \in Seq(Json)
        BY <3>1, <3>2
      <3> QED
        BY <3>3 DEF r, s
    <2>5. Opened(after, later, n) = after[n].lines \o Came(n)
      BY DEF Opened
    <2> HIDE DEF names, Came, Written
    <2>6. Events(after[n].lines \o Came(n)) = Events(after[n].lines) \o Came(n)
      BY <1>12, <2>4, EventsBehind
    <2> QED
      BY <1>12, <2>5, <2>6
  <1> HIDE DEF Written, output, names, Found, manifest, Held
  <1>17. DOMAIN manifest = names /\ manifest = [n \in names |-> Len(Written(n))]
    BY <1>11, <1>14 DEF manifest
  <1>18. CASE \E n \in names : later[n] = Pruned
    <2>1. output = Failed
      BY Zenon, <1>15, <1>17, <1>18
    <2> QED
      BY Zenon, <1>18, <2>1 DEF Exports, names, output, after
  <1>19. CASE ~ \E n \in names : later[n] = Pruned
    <2> DEFINE logs == [n \in DOMAIN manifest |->
                          [i \in DOMAIN Held(n) |-> SanitizeValue("", Held(n)[i])]]
    <2>1. output = [manifest |-> manifest, logs |-> logs]
      BY <1>15, <1>17, <1>19
    <2>2. DOMAIN logs = names
          /\ \A n \in names : logs[n] = [i \in DOMAIN Found(n) |-> SanitizeValue("", Found(n)[i])]
      BY <1>16, <1>17, <1>19
    <2> HIDE DEF logs
    <2>3. /\ output.manifest = [n \in names |-> Len(Written(n))]
          /\ DOMAIN output.logs = names
          /\ \A n \in names :
               output.logs[n] = [i \in DOMAIN Found(n) |-> SanitizeValue("", Found(n)[i])]
      BY <1>17, <2>1, <2>2
    <2> QED
      BY Zenon, <1>19, <2>3 DEF Exports, names, output, after, Found, Written, Came, Old, e
  <1> QED
    BY <1>18, <1>19

(* Sequences of values of which sanitizing makes the same *)
Alike(b, a) ==
  /\ b \in Seq(Json) /\ a \in Seq(Json) /\ Len(b) = Len(a)
  /\ \A i \in 1 .. Len(a) : SanitizeValue("", b[i]) = SanitizeValue("", a[i])

LEMMA AlikeConcat ==
  ASSUME NEW b, NEW a, NEW d, NEW c, Alike(b, a), Alike(d, c)
  PROVE  Alike(b \o d, a \o c)
  <1> DEFINE S(v) == SanitizeValue("", v)
             p == b \o d
             q == a \o c
  <1>1. b \in Seq(Json) /\ a \in Seq(Json) /\ d \in Seq(Json) /\ c \in Seq(Json)
    BY DEF Alike
  <1>2. Len(b) = Len(a) /\ Len(d) = Len(c)
    BY DEF Alike
  <1>3. /\ \A i \in 1 .. Len(a) : S(b[i]) = S(a[i])
        /\ \A i \in 1 .. Len(c) : S(d[i]) = S(c[i])
    BY DEF Alike
  <1>4. /\ p \in Seq(Json) /\ Len(p) = Len(b) + Len(d)
        /\ \A i \in 1 .. Len(b) : p[i] = b[i]
        /\ \A i \in 1 .. Len(d) : p[Len(b) + i] = d[i]
    BY <1>1, ConcatIs
  <1>5. /\ q \in Seq(Json) /\ Len(q) = Len(a) + Len(c)
        /\ \A i \in 1 .. Len(a) : q[i] = a[i]
        /\ \A i \in 1 .. Len(c) : q[Len(a) + i] = c[i]
    BY <1>1, ConcatIs
  <1>6. Len(a) \in Nat /\ Len(c) \in Nat
    BY <1>1
  <1> HIDE DEF S, p, q
  <1>7. Len(p) = Len(q)
    BY <1>2, <1>4, <1>5
  <1>8. \A i \in 1 .. Len(a) + Len(c) :
          i \in 1 .. Len(a) \/ \E j \in 1 .. Len(c) : i = Len(a) + j
    <2> TAKE i \in 1 .. Len(a) + Len(c)
    <2>1. CASE i > Len(a)
      <3>1. i - Len(a) \in 1 .. Len(c) /\ i = Len(a) + (i - Len(a))
        BY <1>6, <2>1
      <3> QED
        BY <3>1
    <2>2. CASE ~(i > Len(a))
      BY <1>6, <2>2
    <2> QED
      BY <2>1, <2>2
  <1>9. \A i \in 1 .. Len(q) : S(p[i]) = S(q[i])
    <2> SUFFICES ASSUME NEW i \in 1 .. Len(q) PROVE S(p[i]) = S(q[i])
      OBVIOUS
    <2>1. i \in 1 .. Len(a) \/ \E j \in 1 .. Len(c) : i = Len(a) + j
      BY <1>5, <1>8
    <2>2. CASE i \in 1 .. Len(a)
      BY <1>2, <1>3, <1>4, <1>5, <2>2
    <2>3. CASE \E j \in 1 .. Len(c) : i = Len(a) + j
      <3>1. PICK j \in 1 .. Len(c) : i = Len(a) + j
        BY <2>3
      <3>2. p[i] = d[j] /\ q[i] = c[j]
        BY <1>2, <1>4, <1>5, <3>1
      <3> QED
        BY <1>3, <3>2
    <2> QED
      BY <2>1, <2>2, <2>3
  <1> QED
    BY <1>4, <1>5, <1>7, <1>9 DEF Alike, S, p, q

LEMMA AlikeClean ==
  ASSUME NEW b, NEW a, Alike(b, a)
  PROVE  LET o == [i \in DOMAIN b |-> SanitizeValue("", b[i])]
         IN  Len(o) = Len(a) /\ \A i \in DOMAIN a : Clean("", a[i], o[i])
  <1> DEFINE o == [i \in DOMAIN b |-> SanitizeValue("", b[i])]
  <1>1. b \in Seq(Json) /\ a \in Seq(Json) /\ Len(b) = Len(a)
        /\ \A i \in 1 .. Len(a) : SanitizeValue("", b[i]) = SanitizeValue("", a[i])
    BY DEF Alike
  <1>2. /\ Len(a) \in Nat /\ DOMAIN a = 1 .. Len(a) /\ DOMAIN b = 1 .. Len(a)
        /\ \A i \in 1 .. Len(a) : a[i] \in Json
    <2>1. a \in Seq(Json) /\ b \in Seq(Json)
      BY <1>1
    <2>2. Len(a) \in Nat /\ DOMAIN a = 1 .. Len(a) /\ DOMAIN b = 1 .. Len(b)
          /\ \A i \in 1 .. Len(a) : a[i] \in Json
      BY <2>1
    <2>3. Len(b) = Len(a)
      BY <1>1
    <2> QED
      BY <2>2, <2>3
  <1>3. \A v \in Json : Clean("", v, SanitizeValue("", v))
    BY ValueSettles
  <1>4. DOMAIN o = 1 .. Len(a) /\ \A i \in 1 .. Len(a) : o[i] = SanitizeValue("", a[i])
    BY <1>1, <1>2
  <1>5. Len(o) = Len(a)
    <2>1. o = [i \in 1 .. Len(a) |-> o[i]]
      BY <1>2
    <2>2. \A i \in 1 .. Len(a) : o[i] \in Json
      BY <1>2, <1>4, ValueSettles
    <2> HIDE DEF o
    <2>3. o \in [1 .. Len(a) -> Json]
      BY <2>1, <2>2
    <2>4. Len(a) \in Nat
      BY <1>2
    <2> QED
      BY <2>3, <2>4
  <1> HIDE DEF o
  <1>6. \A i \in DOMAIN a : Clean("", a[i], o[i])
    BY <1>2, <1>3, <1>4
  <1> QED
    BY <1>5, <1>6 DEF o

(* What RedactionComplete says of one export                               *)
Complete(directory, event, later, output) ==
  LET recent == {n \in DOMAIN directory \intersect Structured :
                   directory[n].age <= Retention}
      names  == recent \union {"agent"}
      Old(n) == IF n \in recent THEN Events(directory[n].lines) ELSE <<>>
      Before(n) == IF n = "agent" THEN Append(Old(n), event) ELSE Old(n)
      All(n) == Before(n) \o later[n]
  IN IF \E n \in names : later[n] = Pruned THEN output = Failed
     ELSE /\ output.manifest = [n \in names |-> Len(Before(n))]
          /\ DOMAIN output.logs = names
          /\ \A n \in names :
               /\ Len(output.logs[n]) = Len(All(n))
               /\ \A i \in DOMAIN All(n) : Clean("", All(n)[i], output.logs[n][i])

(***************************************************************************)
(* Unless a file of the preview is pruned before it is opened, an export   *)
(* has every event of the product's logs that are not too old, the one     *)
(* just recorded and those recorded while it runs behind them, with every  *)
(* secret replaced at any depth and nothing else changed; else it ends     *)
(* with an error.                                                          *)
(***************************************************************************)
THEOREM RedactionIsComplete == ExportSpec => []RedactionComplete
  <1> DEFINE Exported(w) ==
               w.task = "export" =>
                 Complete(w.input.directory, w.input.event, w.input.later, w.output)
  <1>0. RedactionComplete = Exported(work) /\ RedactionComplete' = Exported(work')
    BY Zenon DEF RedactionComplete, Complete
  <1>1. work = Idle => RedactionComplete
    <2>1. work = Idle => work.task # "export"
      BY DEF Idle
    <2> QED
      BY <1>0, <2>1
  <1>2. ASSUME RedactionComplete, [RecordAndExport]_work PROVE RedactionComplete'
    <2>1. CASE UNCHANGED work
      <3> HIDE DEF Exported
      <3> QED
        BY <1>0, <1>2, <2>1
    <2>2. CASE RecordAndExport
      <3>1. PICK directory \in Logs, event \in Values, later \in [Structured -> Meanwhile] :
              work' = [task |-> "export",
                       input |-> [directory |-> directory, event |-> event, later |-> later],
                       output |-> Export(Record(directory, "agent", event), later)]
        BY <2>2, Zenon DEF RecordAndExport, Evaluate
      <3> DEFINE e      == SanitizeValue("", event)
                 recent == Recent(directory)
                 names  == recent \union {"agent"}
                 output == Export(Record(directory, "agent", event), later)
                 Old(n) == IF n \in recent THEN Events(directory[n].lines) ELSE <<>>
                 Written(n) == IF n = "agent" THEN Append(Old(n), e) ELSE Old(n)
                 Came(n) == [i \in DOMAIN later[n] |-> SanitizeValue("", later[n][i])]
                 Found(n) == Written(n) \o Came(n)
                 Before(n) == IF n = "agent" THEN Append(Old(n), event) ELSE Old(n)
                 All(n) == Before(n) \o later[n]
      <3>2. IF \E n \in names : later[n] = Pruned THEN output = Failed
            ELSE /\ output.manifest = [n \in names |-> Len(Written(n))]
                 /\ DOMAIN output.logs = names
                 /\ \A n \in names :
                      output.logs[n] = [i \in DOMAIN Found(n) |-> SanitizeValue("", Found(n)[i])]
        <4>1. Exports(directory, event, later, output)
          BY ExportIs
        <4> HIDE DEF output
        <4> QED
          BY Zenon, <4>1 DEF Exports
      <3>3. event \in Json
        BY DiagnosticsAssumption
      <3>4. e \in Json /\ SanitizeValue("", e) = SanitizeValue("", event)
        BY <3>3, ValueSettles
      <3>5. \A n : Old(n) \in Seq(Json)
        <4>1. \A n \in recent : directory[n].lines \in Seq(Json \union {Broken})
          BY DiagnosticsAssumption DEF Recent
        <4>2. \A n \in recent : Events(directory[n].lines) \in Seq(Json)
          BY <4>1, EventsFold
        <4>3. <<>> \in Seq(Json)
          OBVIOUS
        <4> QED
          BY <4>2, <4>3
      <3>6. work'.input.directory = directory /\ work'.input.event = event
            /\ work'.input.later = later
            /\ work'.output = output /\ work'.task = "export"
        BY <3>1
      <3>7. "agent" \in Structured /\ names \subseteq Structured
        BY DiagnosticsAssumption DEF Recent
      <3> HIDE DEF e, Old, output, names
      <3>8. \A n : Alike(Written(n), Before(n)) /\ Len(Written(n)) = Len(Before(n))
        <4> SUFFICES ASSUME NEW n PROVE Alike(Written(n), Before(n))
          BY DEF Alike
        <4> DEFINE s == Old(n)
        <4>1. s \in Seq(Json)
          BY <3>5
        <4> HIDE DEF s
        <4>2. Alike(s, s)
          BY <4>1 DEF Alike
        <4>3. CASE n # "agent"
          BY <4>2, <4>3 DEF s
        <4>4. CASE n = "agent"
          <5>1. Append(s, e) = s \o <<e>> /\ Append(s, event) = s \o <<event>>
            BY <3>3, <3>4, <4>1, AppendIs
          <5>2. \A x \in Json : <<x>> \in Seq(Json) /\ Len(<<x>>) = 1 /\ <<x>>[1] = x
            OBVIOUS
          <5> DEFINE b == <<e>>
                     a == <<event>>
          <5>3. /\ b \in Seq(Json) /\ a \in Seq(Json) /\ Len(b) = 1 /\ Len(a) = 1
                /\ b[1] = e /\ a[1] = event
            BY Zenon, <3>3, <3>4, <5>2
          <5> HIDE DEF b, a
          <5>4. \A i \in 1 .. 1 : i = 1
            OBVIOUS
          <5>5. Alike(b, a)
            BY <3>4, <5>3, <5>4 DEF Alike
          <5>6. Alike(s \o b, s \o a)
            BY <4>2, <5>5, AlikeConcat
          <5> QED
            BY <4>4, <5>1, <5>6 DEF s, b, a
        <4> QED
          BY <4>3, <4>4
      <3>9. ASSUME NEW n \in names, later[n] # Pruned PROVE Alike(Came(n), later[n])
        <4> DEFINE s == later[n]
                   S(v) == SanitizeValue("", v)
                   r == [i \in DOMAIN s |-> S(s[i])]
        <4>1. s \in Meanwhile \ {Pruned}
          BY <3>7, <3>9
        <4>2. s \in Seq(Json)
          BY <4>1, DiagnosticsAssumption
        <4> HIDE DEF s
        <4>3. Len(s) \in Nat /\ DOMAIN s = 1 .. Len(s) /\ \A i \in 1 .. Len(s) : s[i] \in Json
          BY <4>2
        <4>4. \A v \in Json : S(v) \in Json /\ S(S(v)) = S(v)
          BY ValueSettles
        <4> HIDE DEF S
        <4>5. r \in [1 .. Len(s) -> Json]
          BY <4>3, <4>4
        <4>6. \A i \in 1 .. Len(s) : r[i] = S(s[i])
          BY <4>3
        <4>7. r \in Seq(Json) /\ Len(r) = Len(s)
          <5> HIDE DEF r
          <5> QED
            BY <4>3, <4>5
        <4> HIDE DEF r
        <4>8. \A i \in 1 .. Len(s) : S(r[i]) = S(s[i])
          BY <4>3, <4>4, <4>6
        <4>9. Alike(r, s)
          BY <4>2, <4>7, <4>8 DEF Alike, S
        <4> QED
          BY <4>9 DEF r, s, S
      <3> HIDE DEF Written, Came, Before
      <3>10. ASSUME NEW n \in names, later[n] # Pruned PROVE Alike(Found(n), All(n))
        BY <3>8, <3>9, <3>10, AlikeConcat
      <3> HIDE DEF Found, All
      <3>11. IF \E n \in names : later[n] = Pruned THEN output = Failed
             ELSE /\ output.manifest = [n \in names |-> Len(Before(n))]
                  /\ DOMAIN output.logs = names
                  /\ \A n \in names :
                       /\ Len(output.logs[n]) = Len(All(n))
                       /\ \A i \in DOMAIN All(n) : Clean("", All(n)[i], output.logs[n][i])
        <4>1. CASE \E n \in names : later[n] = Pruned
          BY <3>2, <4>1
        <4>2. CASE ~ \E n \in names : later[n] = Pruned
          <5>1. /\ output.manifest = [n \in names |-> Len(Written(n))]
                /\ DOMAIN output.logs = names
                /\ \A n \in names :
                     output.logs[n] = [i \in DOMAIN Found(n) |-> SanitizeValue("", Found(n)[i])]
            BY <3>2, <4>2
          <5>2. output.manifest = [n \in names |-> Len(Before(n))]
            BY <3>8, <5>1
          <5>3. ASSUME NEW n \in names
                PROVE  /\ Len(output.logs[n]) = Len(All(n))
                       /\ \A i \in DOMAIN All(n) : Clean("", All(n)[i], output.logs[n][i])
            <6>1. Alike(Found(n), All(n))
              BY <3>10, <4>2, <5>3
            <6>2. output.logs[n] = [i \in DOMAIN Found(n) |-> SanitizeValue("", Found(n)[i])]
              BY <5>1, <5>3
            <6>3. LET o == [i \in DOMAIN Found(n) |-> SanitizeValue("", Found(n)[i])]
                  IN  Len(o) = Len(All(n)) /\ \A i \in DOMAIN All(n) : Clean("", All(n)[i], o[i])
              BY <6>1, AlikeClean
            <6> QED
              BY Zenon, <6>2, <6>3
          <5> QED
            BY <4>2, <5>1, <5>2, <5>3
        <4> QED
          BY <4>1, <4>2
      <3>12. Complete(directory, event, later, output)
        <4>1. recent = {n \in DOMAIN directory \intersect Structured :
                          directory[n].age <= Retention}
          BY DEF Recent
        <4> QED
          BY Zenon, <3>11, <4>1 DEF Complete, Old, Before, All, names
      <3>13. Exported(work')
        BY <3>6, <3>12
      <3> QED
        BY <1>0, <3>13
    <2> QED
      BY <1>2, <2>1, <2>2
  <1> QED
    BY <1>1, <1>2, PTL DEF ExportSpec
=============================================================================
