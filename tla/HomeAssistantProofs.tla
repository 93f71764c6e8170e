------------------------- MODULE HomeAssistantProofs -------------------------
(***************************************************************************)
(* Proofs about Settings, TopicPaths and HomeAssistant, for any settings   *)
(* in use, requests, forms, units and prefixes.                            *)
(***************************************************************************)
EXTENDS HomeAssistant, SequenceTheorems, WellFoundedInduction, TLAPS

(* Induction, as a fact about sets: the provers cannot use a rule that has  *)
(* a predicate as parameter, but they can name the set it describes.        *)
LEMMA LeastNat ==
  ASSUME NEW T \in SUBSET Nat, T # {}
  PROVE  \E x \in T : \A y \in T : x <= y
<1>1. \E R : /\ IsWellFoundedOn(R, Nat)
             /\ \A x, y \in Nat : y < x => <<y, x>> \in R
  <2>. DEFINE R == {ss \in Nat \X Nat : ss[1] < ss[2]}
  <2>1. IsWellFoundedOn(R, Nat)
    BY NatLessThanWellFounded DEF OpToRel
  <2>2. \A x, y \in Nat : y < x => <<y, x>> \in R
    OBVIOUS
  <2>. QED
    BY <2>1, <2>2
<1>2. PICK R : /\ IsWellFoundedOn(R, Nat)
               /\ \A x, y \in Nat : y < x => <<y, x>> \in R
  BY <1>1
<1>3. PICK x \in T : \A y \in T : ~ (<<y, x>> \in R)
  BY <1>2, WFMin
<1>4. ASSUME NEW y \in T PROVE x <= y
  <2>1. ~ (y < x)
    BY <1>2, <1>3, Zenon
  <2>. QED
    BY <2>1
<1>. QED
  BY <1>4

LEMMA InductionUpTo ==
  ASSUME NEW n \in Nat, NEW S \in SUBSET (0 .. n), 0 \in S,
         \A m \in S : m < n => m + 1 \in S
  PROVE  S = 0 .. n
<1>. SUFFICES ASSUME S # 0 .. n PROVE FALSE
  OBVIOUS
<1>. DEFINE T == (0 .. n) \ S
<1>0. T \in SUBSET Nat /\ T # {}
  <2>1. \E x \in 0 .. n : x \notin S
    OBVIOUS
  <2>. QED
    BY <2>1
<1>. HIDE DEF T
<1>1. PICK x \in T : \A y \in T : x <= y
  BY <1>0, LeastNat
<1>. USE DEF T
<1>2. x # 0 /\ x - 1 \in 0 .. n /\ x - 1 \in S
  BY <1>1
<1>. QED
  BY <1>1, <1>2

------------------------------------------------------------------------------
(* What Without computes.                                                   *)

(* f is the recursive function of Without, as far as m. *)
Filters(f, s, S, m) ==
  f = [n \in 0 .. m |->
         IF n = 0 THEN << >>
         ELSE IF s[n] \in S THEN f[n - 1] ELSE Append(f[n - 1], s[n])]

LEMMA FilterExists ==
  ASSUME NEW s, NEW S, NEW k \in Nat
  PROVE  \E f : Filters(f, s, S, k)
<1>. DEFINE M == {m \in 0 .. k : \E f : Filters(f, s, S, m)}
<1>1. 0 \in M
  <2>1. Filters([n \in 0 .. 0 |-> << >>], s, S, 0)
    BY DEF Filters
  <2>. QED
    BY <2>1
<1>2. ASSUME NEW m \in M, m < k PROVE m + 1 \in M
  <2>1. PICK f : Filters(f, s, S, m)
    OBVIOUS
  <2>. DEFINE last == IF s[m + 1] \in S THEN f[m] ELSE Append(f[m], s[m + 1])
              g == [n \in 0 .. m + 1 |-> IF n = m + 1 THEN last ELSE f[n]]
  <2>2. \A n \in 0 .. m : f[n] = IF n = 0 THEN << >> ELSE
           IF s[n] \in S THEN f[n - 1] ELSE Append(f[n - 1], s[n])
    BY <2>1 DEF Filters
  <2>3. \A n \in 0 .. m : g[n] = f[n] 
    OBVIOUS
  <2>4. g[m + 1] = last /\ g[m] = f[m]
    OBVIOUS
  <2>5. ASSUME NEW n \in 0 .. m + 1
        PROVE  g[n] = IF n = 0 THEN << >> ELSE
                        IF s[n] \in S THEN g[n - 1] ELSE Append(g[n - 1], s[n])
    <3>1. CASE n = m + 1
      BY <2>4, <3>1
    <3>2. CASE n = 0
      BY <2>2, <2>3, <3>2
    <3>3. CASE n \in 1 .. m
      <4>1. n \in 0 .. m /\ n - 1 \in 0 .. m /\ n # 0
        BY <3>3
      <4>. HIDE DEF g
      <4>. QED
        BY <2>2, <2>3, <4>1
    <3>. QED
      BY <3>1, <3>2, <3>3
  <2>6. g = [n \in 0 .. m + 1 |-> g[n]]
    OBVIOUS
  <2>. HIDE DEF g
  <2>7. g = [n \in 0 .. m + 1 |->
               IF n = 0 THEN << >> ELSE
               IF s[n] \in S THEN g[n - 1] ELSE Append(g[n - 1], s[n])]
    BY <2>5, <2>6
  <2>8. Filters(g, s, S, m + 1)
    BY <2>7 DEF Filters
  <2>9. m + 1 \in 0 .. k
    BY <1>2
  <2>. QED
    BY <2>8, <2>9
<1>. HIDE DEF M
<1>3. M = 0 .. k
  <2>1. M \in SUBSET (0 .. k)
    BY DEF M
  <2>. QED
    BY <1>1, <1>2, <2>1, InductionUpTo
<1>. QED
  BY <1>3 DEF M

(* The equations of the recursion. *)
LEMMA WithoutDef ==
  ASSUME NEW T, NEW s \in Seq(T), NEW S
  PROVE  \E f : /\ f[0] = << >>
                /\ \A n \in 1 .. Len(s) :
                     f[n] = IF s[n] \in S THEN f[n - 1] ELSE Append(f[n - 1], s[n])
                /\ Without(s, S) = f[Len(s)]
<1>. DEFINE f == CHOOSE g : Filters(g, s, S, Len(s))
<1>1. Filters(f, s, S, Len(s))
  BY FilterExists
<1>2. Without(s, S) = f[Len(s)]
  BY DEF Without, Filters
<1>. HIDE DEF f
<1>3. f[0] = << >>
  BY <1>1 DEF Filters
<1>4. ASSUME NEW n \in 1 .. Len(s)
      PROVE  f[n] = IF s[n] \in S THEN f[n - 1] ELSE Append(f[n - 1], s[n])
  <2>1. n \in 0 .. Len(s) /\ n # 0
    OBVIOUS
  <2>. QED
    BY <1>1, <2>1 DEF Filters
<1>. QED
  BY <1>2, <1>3, <1>4

(* The elements that are left, in at most as many places. *)
LEMMA WithoutType ==
  ASSUME NEW T, NEW s \in Seq(T), NEW S
  PROVE  Without(s, S) \in Seq(T \ S) /\ Len(Without(s, S)) <= Len(s)
<1>1. PICK f : /\ f[0] = << >>
               /\ \A n \in 1 .. Len(s) :
                    f[n] = IF s[n] \in S THEN f[n - 1] ELSE Append(f[n - 1], s[n])
               /\ Without(s, S) = f[Len(s)]
  BY WithoutDef
<1>. DEFINE Good(m) == f[m] \in Seq(T \ S) /\ Len(f[m]) <= m
           M == {m \in 0 .. Len(s) : Good(m)}
<1>2. 0 \in M
  <2>1. << >> \in Seq(T \ S) /\ << >> \in Seq(T) /\ Len(<< >>) = 0
    BY EmptySeq
  <2>2. Good(0)
    BY <1>1, <2>1
  <2>. QED
    BY <2>2
<1>3. ASSUME NEW m \in M, m < Len(s) PROVE m + 1 \in M
  <2>1. m \in 0 .. Len(s) /\ m + 1 \in 1 .. Len(s) /\ (m + 1) - 1 = m /\ s[m + 1] \in T
    BY <1>3
  <2>2. Good(m)
    OBVIOUS
  <2>3. f[m + 1] = IF s[m + 1] \in S THEN f[m] ELSE Append(f[m], s[m + 1])
    BY <1>1, <2>1
  <2>4. Good(m + 1)
    <3>1. CASE s[m + 1] \in S
      BY <2>1, <2>2, <2>3, <3>1
    <3>2. CASE s[m + 1] \in T \ S
      BY <2>1, <2>2, <2>3, <3>2, AppendProperties
    <3>. QED
      BY <2>1, <3>1, <3>2
  <2>. QED
    BY <2>1, <2>4
<1>4. M = 0 .. Len(s)
  <2>1. M \in SUBSET (0 .. Len(s)) /\ Len(s) \in Nat
    OBVIOUS
  <2>. HIDE DEF M
  <2>. QED
    BY <1>2, <1>3, <2>1, InductionUpTo
<1>5. Good(Len(s))
  BY <1>4
<1>. QED
  BY <1>1, <1>5

(* Nothing is left out, or the result is shorter. *)
LEMMA WithoutNothing ==
  ASSUME NEW T, NEW s \in Seq(T), NEW S, \A i \in 1 .. Len(s) : s[i] \notin S
  PROVE  Without(s, S) = s
<1>1. PICK f : /\ f[0] = << >>
               /\ \A n \in 1 .. Len(s) :
                    f[n] = IF s[n] \in S THEN f[n - 1] ELSE Append(f[n - 1], s[n])
               /\ Without(s, S) = f[Len(s)]
  BY WithoutDef
<1>. DEFINE Good(m) == /\ f[m] \in Seq(T) /\ Len(f[m]) = m
                       /\ \A j \in 1 .. m : f[m][j] = s[j]
           M == {m \in 0 .. Len(s) : Good(m)}
<1>2. 0 \in M
  <2>1. << >> \in Seq(T \ S) /\ << >> \in Seq(T) /\ Len(<< >>) = 0
    BY EmptySeq
  <2>2. Good(0)
    BY <1>1, <2>1
  <2>. QED
    BY <2>2
<1>3. ASSUME NEW m \in M, m < Len(s) PROVE m + 1 \in M
  <2>1. m \in 0 .. Len(s) /\ m + 1 \in 1 .. Len(s) /\ (m + 1) - 1 = m /\ s[m + 1] \in T
    BY <1>3
  <2>2. Good(m)
    OBVIOUS
  <2>3. f[m + 1] = IF s[m + 1] \in S THEN f[m] ELSE Append(f[m], s[m + 1])
    BY <1>1, <2>1
  <2>4. Good(m + 1)
    <3>1. f[m + 1] = Append(f[m], s[m + 1])
      BY <2>1, <2>3
    <3>2. /\ f[m + 1] \in Seq(T) /\ Len(f[m + 1]) = m + 1
          /\ f[m + 1][m + 1] = s[m + 1]
          /\ \A j \in 1 .. m : f[m + 1][j] = f[m][j]
      BY <2>1, <2>2, <3>1, AppendProperties
    <3>. QED
      BY <2>1, <2>2, <3>2
  <2>. QED
    BY <2>1, <2>4
<1>4. M = 0 .. Len(s)
  <2>1. M \in SUBSET (0 .. Len(s)) /\ Len(s) \in Nat
    OBVIOUS
  <2>. HIDE DEF M
  <2>. QED
    BY <1>2, <1>3, <2>1, InductionUpTo
<1>5. Good(Len(s))
  BY <1>4
<1>. QED
  BY <1>1, <1>5, SeqEqual

LEMMA WithoutSomething ==
  ASSUME NEW T, NEW s \in Seq(T), NEW S,
         NEW i \in 1 .. Len(s), s[i] \in S
  PROVE  Len(Without(s, S)) < Len(s)
<1>1. PICK f : /\ f[0] = << >>
               /\ \A n \in 1 .. Len(s) :
                    f[n] = IF s[n] \in S THEN f[n - 1] ELSE Append(f[n - 1], s[n])
               /\ Without(s, S) = f[Len(s)]
  BY WithoutDef
<1>. DEFINE Good(m) == /\ f[m] \in Seq(T) /\ Len(f[m]) <= m
                       /\ i <= m => Len(f[m]) < m
           M == {m \in 0 .. Len(s) : Good(m)}
<1>2. 0 \in M
  <2>1. << >> \in Seq(T \ S) /\ << >> \in Seq(T) /\ Len(<< >>) = 0
    BY EmptySeq
  <2>2. Good(0)
    BY <1>1, <2>1
  <2>. QED
    BY <2>2
<1>3. ASSUME NEW m \in M, m < Len(s) PROVE m + 1 \in M
  <2>1. m \in 0 .. Len(s) /\ m + 1 \in 1 .. Len(s) /\ (m + 1) - 1 = m /\ s[m + 1] \in T
    BY <1>3
  <2>2. Good(m)
    OBVIOUS
  <2>3. f[m + 1] = IF s[m + 1] \in S THEN f[m] ELSE Append(f[m], s[m + 1])
    BY <1>1, <2>1
  <2>4. Good(m + 1)
    <3>1. CASE s[m + 1] \in S
      BY <2>1, <2>2, <2>3, <3>1
    <3>2. CASE s[m + 1] \notin S
      <4>1. f[m + 1] \in Seq(T) /\ Len(f[m + 1]) = Len(f[m]) + 1
        BY <2>1, <2>2, <2>3, <3>2, AppendProperties
      <4>2. i # m + 1
        BY <3>2
      <4>. QED
        BY <2>1, <2>2, <4>1, <4>2
    <3>. QED
      BY <3>1, <3>2
  <2>. QED
    BY <2>1, <2>4
<1>4. M = 0 .. Len(s)
  <2>1. M \in SUBSET (0 .. Len(s)) /\ Len(s) \in Nat
    OBVIOUS
  <2>. HIDE DEF M
  <2>. QED
    BY <1>2, <1>3, <2>1, InductionUpTo
<1>5. Good(Len(s))
  BY <1>4
<1>. QED
  BY <1>1, <1>5

(* What is not left out is still there. *)
LEMMA WithoutKeeps ==
  ASSUME NEW T, NEW s \in Seq(T), NEW S,
         NEW i \in 1 .. Len(s), s[i] \notin S
  PROVE  \E j \in 1 .. Len(Without(s, S)) : Without(s, S)[j] = s[i]
<1>1. PICK f : /\ f[0] = << >>
               /\ \A n \in 1 .. Len(s) :
                    f[n] = IF s[n] \in S THEN f[n - 1] ELSE Append(f[n - 1], s[n])
               /\ Without(s, S) = f[Len(s)]
  BY WithoutDef
<1>. DEFINE Good(m) == /\ f[m] \in Seq(T)
                       /\ i <= m => \E j \in 1 .. Len(f[m]) : f[m][j] = s[i]
           M == {m \in 0 .. Len(s) : Good(m)}
<1>2. 0 \in M
  <2>1. << >> \in Seq(T \ S) /\ << >> \in Seq(T) /\ Len(<< >>) = 0
    BY EmptySeq
  <2>2. Good(0)
    BY <1>1, <2>1
  <2>. QED
    BY <2>2
<1>3. ASSUME NEW m \in M, m < Len(s) PROVE m + 1 \in M
  <2>1. m \in 0 .. Len(s) /\ m + 1 \in 1 .. Len(s) /\ (m + 1) - 1 = m /\ s[m + 1] \in T
    BY <1>3
  <2>2. Good(m)
    OBVIOUS
  <2>3. f[m + 1] = IF s[m + 1] \in S THEN f[m] ELSE Append(f[m], s[m + 1])
    BY <1>1, <2>1
  <2>4. Good(m + 1)
    <3>1. CASE s[m + 1] \in S
      <4>1. i # m + 1
        BY <3>1
      <4>. QED
        BY <2>1, <2>2, <2>3, <3>1, <4>1
    <3>2. CASE s[m + 1] \notin S
      <4>1. /\ f[m + 1] \in Seq(T) /\ Len(f[m + 1]) = Len(f[m]) + 1
            /\ f[m + 1][Len(f[m]) + 1] = s[m + 1]
            /\ \A j \in 1 .. Len(f[m]) : f[m + 1][j] = f[m][j]
        BY <2>1, <2>2, <2>3, <3>2, AppendProperties
      <4>2. CASE i = m + 1
        BY <2>2, <4>1, <4>2
      <4>3. CASE i # m + 1
        BY <2>1, <2>2, <4>1, <4>3
      <4>. QED
        BY <4>2, <4>3
    <3>. QED
      BY <3>1, <3>2
  <2>. QED
    BY <2>1, <2>4
<1>4. M = 0 .. Len(s)
  <2>1. M \in SUBSET (0 .. Len(s)) /\ Len(s) \in Nat
    OBVIOUS
  <2>. HIDE DEF M
  <2>. QED
    BY <1>2, <1>3, <2>1, InductionUpTo
<1>5. Good(Len(s))
  BY <1>4
<1>. QED
  <2>1. i <= Len(s)
    OBVIOUS
  <2>. QED
    BY <1>1, <1>5, <2>1

------------------------------------------------------------------------------
(* Topics.                                                                  *)

LEMMA TupleOfFour ==
  ASSUME NEW S, NEW a \in S, NEW b \in S, NEW c \in S, NEW d \in S
  PROVE  <<a, b, c, d>> \in Seq(S)
OBVIOUS

LEMMA ConcatOfFour ==
  ASSUME NEW S, NEW s \in Seq(S), NEW t \in Seq(S), Len(t) = 4
  PROVE  /\ s \o t \in Seq(S) /\ Len(s \o t) = Len(s) + 4
         /\ \A i \in 1 .. Len(s) : (s \o t)[i] = s[i]
         /\ \A i \in 1 .. 4 : (s \o t)[Len(s) + i] = t[i]
<1>1. PICK r : r = s \o t
  OBVIOUS
<1>2. r \in Seq(S) /\ Len(r) = Len(s) + Len(t)
  BY <1>1, ConcatProperties, Zenon
<1>3. \A i \in 1 .. Len(s) + Len(t) : r[i] = IF i <= Len(s) THEN s[i] ELSE t[i - Len(s)]
  BY <1>1, ConcatProperties, Zenon
<1>4. \A i \in 1 .. Len(s) : r[i] = s[i]
  BY <1>3
<1>5. \A i \in 1 .. 4 : r[Len(s) + i] = t[i]
  BY <1>3
<1>. QED
  BY <1>1, <1>2, <1>4, <1>5

LEMMA NotEmpty == "device_id" # Empty /\ "switch" # Empty /\ "set" # Empty
BY Zenon DEF Empty

(* The set that the levels of the topic of a unit are from: the provers     *)
(* know of no text that it is in STRING.                                    *)
LevelsOf(key) == Level \cup {"device_id", key, "switch", "set"}

LEMMA CommandTopicShape ==
  ASSUME NEW prefix \in Seq(Level), Len(prefix) # 0, NEW key
  PROVE  LET topic == CommandTopic(prefix, key)
             n == Len(prefix)
         IN  /\ n \in Nat \ {0} /\ topic \in Seq(LevelsOf(key)) /\ Len(topic) = n + 4
             /\ \A i \in 1 .. n : topic[i] = prefix[i]
             /\ topic[n + 1] = "device_id" /\ topic[n + 2] = key
             /\ topic[n + 3] = "switch" /\ topic[n + 4] = "set"
<1>1. PICK rest : rest = <<"device_id", key, "switch", "set">>
  OBVIOUS
<1>2. PICK n, topic : n = Len(prefix) /\ topic = CommandTopic(prefix, key)
  OBVIOUS
<1>3. n \in Nat \ {0}
  BY <1>2
<1>4. rest \in Seq(LevelsOf(key))
  <2>1. {"device_id", key, "switch", "set"} \subseteq LevelsOf(key)
    BY Zenon DEF LevelsOf
  <2>. QED
    BY <1>1, <2>1, TupleOfFour, Zenon
<1>5. /\ Len(rest) = 4 /\ rest[1] = "device_id" /\ rest[2] = key
      /\ rest[3] = "switch" /\ rest[4] = "set"
  BY <1>1
<1>6. prefix \in Seq(LevelsOf(key))
  <2>1. \A i \in 1 .. Len(prefix) : prefix[i] \in LevelsOf(key)
    <3>1. ASSUME NEW i \in 1 .. Len(prefix) PROVE prefix[i] \in Level
      OBVIOUS
    <3>. QED
      BY <3>1, Zenon DEF LevelsOf
  <2>. QED
    BY <2>1
<1>7. topic = prefix \o rest
  BY <1>1, <1>2 DEF CommandTopic
<1>8. /\ topic \in Seq(LevelsOf(key)) /\ Len(topic) = n + 4
      /\ \A i \in 1 .. n : topic[i] = prefix[i]
      /\ \A i \in 1 .. 4 : topic[n + i] = rest[i]
  BY <1>2, <1>4, <1>5, <1>6, <1>7, ConcatOfFour
<1>. QED
  BY <1>2, <1>3, <1>5, <1>8

(* str_split finds the place it has counted for every level, and so passes  *)
(* its assertions, exactly if no level of the prefix is empty.              *)
LEMMA CommandTopicSplits ==
  ASSUME NEW prefix \in Seq(Level), Len(prefix) # 0, NEW key, key # Empty
  PROVE  LET topic == CommandTopic(prefix, key)
         IN  /\ ElementCount(topic) = Len(topic) + 1
             /\ Splits(topic) <=> \A i \in DOMAIN prefix : prefix[i] # Empty
             /\ Splits(topic) => Tokens(topic) = topic
<1>0. PICK n, topic : n = Len(prefix) /\ topic = CommandTopic(prefix, key)
  OBVIOUS
<1>1. /\ n \in Nat \ {0} /\ topic \in Seq(LevelsOf(key)) /\ Len(topic) = n + 4
      /\ \A i \in 1 .. n : topic[i] = prefix[i]
      /\ topic[n + 1] = "device_id" /\ topic[n + 2] = key
      /\ topic[n + 3] = "switch" /\ topic[n + 4] = "set"
  BY <1>0, CommandTopicShape
<1>2. DOMAIN prefix = 1 .. n
  BY <1>0
<1>3. ElementCount(topic) = Len(topic) + 1
  BY <1>1, NotEmpty DEF ElementCount
<1>4. ASSUME \A i \in 1 .. n : prefix[i] # Empty
      PROVE  Splits(topic) /\ Tokens(topic) = topic
  <2>1. ASSUME NEW i \in 1 .. Len(topic) PROVE topic[i] # Empty
    <3>1. i \in 1 .. n \/ i = n + 1 \/ i = n + 2 \/ i = n + 3 \/ i = n + 4
      BY <1>1
    <3>. QED
      BY <1>1, <1>4, <3>1, NotEmpty
  <2>2. Tokens(topic) = topic
    BY <1>1, <2>1, WithoutNothing DEF Tokens
  <2>. QED
    BY <1>1, <1>3, <2>2 DEF Splits
<1>5. ASSUME NEW i \in 1 .. n, prefix[i] = Empty
      PROVE  ~Splits(topic)
  <2>1. i \in 1 .. Len(topic) /\ topic[i] \in {Empty}
    BY <1>1, <1>5
  <2>2. Len(Tokens(topic)) < Len(topic)
    BY <1>1, <2>1, WithoutSomething DEF Tokens
  <2>3. Tokens(topic) \in Seq(LevelsOf(key) \ {Empty})
    BY <1>1, WithoutType DEF Tokens
  <2>. QED
    BY <1>1, <1>3, <2>2, <2>3 DEF Splits
<1>. QED
  BY <1>0, <1>2, <1>3, <1>4, <1>5

(* resolve_key_from_topic takes the third level.                            *)
LEMMA CommandTopicResolves ==
  ASSUME NEW prefix \in Seq(Level), Len(prefix) # 0, NEW key, key # Empty,
         Splits(CommandTopic(prefix, key))
  PROVE  ResolveKey(CommandTopic(prefix, key)) =
           IF Len(prefix) = 1 THEN key
           ELSE IF Len(prefix) = 2 THEN "device_id" ELSE prefix[3]
<1>0. PICK n, topic : n = Len(prefix) /\ topic = CommandTopic(prefix, key)
  OBVIOUS
<1>1. /\ n \in Nat \ {0} /\ Len(topic) = n + 4
      /\ \A i \in 1 .. n : topic[i] = prefix[i]
      /\ topic[n + 1] = "device_id" /\ topic[n + 2] = key
  BY <1>0, CommandTopicShape
<1>2. ElementCount(topic) = Len(topic) + 1 /\ Tokens(topic) = topic
  BY <1>0, CommandTopicSplits
<1>3. ResolveKey(topic) = topic[3]
  BY <1>1, <1>2 DEF ResolveKey, Element
<1>4. n = 1 \/ n = 2 \/ n > 2
  BY <1>1
<1>. QED
  BY <1>0, <1>1, <1>3, <1>4
------------------------------------------------------------------------------
(* The settings in use.                                                     *)

TableKeys == DOMAIN Table

LEMMA TableKeysDef ==
  TableKeys =
    {"ota_update_url", "ha_upd_intervl", "mqtt_connect", "mqtt_server",
     "mqtt_port", "mqtt_protocol", "mqtt_user", "mqtt_password", "mqtt_prefix",
     "ha_prefix", "relay_refr_int", "relay_ch_count", "relay_sn_count",
     "net_log_type", "net_log_host", "net_log_port", "net_log_stdout",
     "memgrd_mode", "memgrd_trshld", "ota_upd_rescfg"}
BY DEF TableKeys, Table

LEMMA KeysTyped ==
  /\ MqttKeys \in Seq(TableKeys) /\ ServiceKeys \in Seq(TableKeys)
  /\ DeviceKeys \in Seq(TableKeys) /\ FormKeys \in Seq(TableKeys)
<1>1. MqttKeys \in Seq(TableKeys)
  BY TableKeysDef DEF MqttKeys
<1>2. ServiceKeys \in Seq(TableKeys)
  BY TableKeysDef DEF ServiceKeys
<1>3. DeviceKeys \in Seq(TableKeys)
  BY TableKeysDef DEF DeviceKeys
<1>4. FormKeys \in Seq(TableKeys)
  BY TableKeysDef DEF FormKeys
<1>. QED
  BY <1>1, <1>2, <1>3, <1>4
(* Boot creates settings that are in use, and at least one.                 *)
LEMMA BootOrderType ==
  /\ BootOrder \in Seq(Keys) /\ Len(BootOrder) \in Nat \ {0}
  /\ DOMAIN BootOrder = 1 .. Len(BootOrder)
<1>1. PICK all : all = MqttKeys \o ServiceKeys \o DeviceKeys
  OBVIOUS
<1>2. all \in Seq(TableKeys)
  BY <1>1, KeysTyped, ConcatProperties, Zenon
<1>3. BootOrder = Without(all, TableKeys \ Keys)
  BY <1>1 DEF BootOrder, InUse, TableKeys
<1>4. BootOrder \in Seq(TableKeys \ (TableKeys \ Keys))
  BY <1>2, <1>3, WithoutType
<1>5. TableKeys \ (TableKeys \ Keys) = Keys
  BY KeysAssumption, Zenon DEF TableKeys
<1>6. 1 \in 1 .. Len(all) /\ all[1] = "mqtt_connect"
  <2>1. PICK x : x = MqttKeys \o ServiceKeys
    OBVIOUS
  <2>2. Len(MqttKeys) = 8 /\ Len(ServiceKeys) = 9 /\ Len(DeviceKeys) = 3
    BY DEF MqttKeys, ServiceKeys, DeviceKeys
  <2>3. x \in Seq(TableKeys) /\ Len(x) = 17 /\ x[1] = MqttKeys[1]
    <3>1. x \in Seq(TableKeys) /\ Len(x) = Len(MqttKeys) + Len(ServiceKeys)
      BY <2>1, KeysTyped, ConcatProperties, Zenon
    <3>2. \A i \in 1 .. Len(MqttKeys) + Len(ServiceKeys) :
            x[i] = IF i <= Len(MqttKeys) THEN MqttKeys[i] ELSE ServiceKeys[i - Len(MqttKeys)]
      BY <2>1, KeysTyped, ConcatProperties, Zenon
    <3>. QED
      BY <2>2, <3>1, <3>2
  <2>4. Len(all) = 20 /\ all[1] = x[1]
    <3>1. all = x \o DeviceKeys
      BY <1>1, <2>1
    <3>2. Len(all) = Len(x) + Len(DeviceKeys)
      BY <3>1, <2>3, KeysTyped, ConcatProperties, Zenon
    <3>3. \A i \in 1 .. Len(x) + Len(DeviceKeys) :
            all[i] = IF i <= Len(x) THEN x[i] ELSE DeviceKeys[i - Len(x)]
      BY <3>1, <2>3, KeysTyped, ConcatProperties, Zenon
    <3>. QED
      BY <2>2, <2>3, <3>2, <3>3
  <2>5. MqttKeys[1] = "mqtt_connect"
    BY DEF MqttKeys
  <2>. QED
    BY <2>3, <2>4, <2>5
<1>7. all[1] \notin TableKeys \ Keys
  BY <1>6, UsedAssumption
<1>8. \E j \in 1 .. Len(BootOrder) : BootOrder[j] = all[1]
  <2>1. \A i \in 1 .. Len(all) : all[i] \notin TableKeys \ Keys =>
          \E j \in 1 .. Len(BootOrder) : BootOrder[j] = all[i]
    <3>1. ASSUME NEW i \in 1 .. Len(all), all[i] \notin TableKeys \ Keys
          PROVE  \E j \in 1 .. Len(Without(all, TableKeys \ Keys)) :
                   Without(all, TableKeys \ Keys)[j] = all[i]
      BY <1>2, <3>1, WithoutKeeps, Zenon
    <3>. QED
      BY <1>3, <3>1, Zenon
  <2>. QED
    BY <1>6, <1>7, <2>1
<1>. QED
  BY <1>4, <1>5, <1>8

LEMMA FormOrderType ==
  FormOrder \in Seq(Keys) /\ \A i \in 1 .. Len(FormOrder) : FormOrder[i] \in Keys
<1>1. FormOrder = Without(FormKeys, TableKeys \ Keys)
  BY DEF FormOrder, InUse, TableKeys
<1>2. FormOrder \in Seq(TableKeys \ (TableKeys \ Keys))
  BY <1>1, KeysTyped, WithoutType
<1>3. TableKeys \ (TableKeys \ Keys) = Keys
  BY KeysAssumption, Zenon DEF TableKeys
<1>. QED
  BY <1>2, <1>3
LEMMA HandlerKeys ==
  DOMAIN Handler =
    {"ha_upd_intervl", "memgrd_trshld", "mqtt_connect", "mqtt_port",
     "relay_refr_int", "relay_ch_count", "relay_sn_count", "net_log_type",
     "net_log_port", "net_log_stdout", "memgrd_mode", "ota_upd_rescfg"}
BY DEF Handler

LEMMA InBetween ==
  ASSUME NEW low \in Int, NEW high \in Int, NEW n
  PROVE  n \in Between(low, high) <=> n \in Int /\ low <= n /\ n <= high
BY DEF Between

LEMMA HalfWord ==
  /\ \A low, high \in Nat : high <= 65535 => Between(low, high) \subseteq Between(0, 65535)
  /\ \A n \in Int : n % 65536 \in Between(0, 65535)
  /\ \A n \in Between(0, 65535) : n \in Nat /\ n % 65536 = n
<1>1. \A n : n \in Between(0, 65535) <=> n \in Int /\ 0 <= n /\ n <= 65535
  BY InBetween
<1>2. \A low, high \in Nat : high <= 65535 => Between(low, high) \subseteq Between(0, 65535)
  BY <1>1, InBetween
<1>3. \A n \in Int : n % 65536 \in Between(0, 65535)
  BY <1>1
<1>4. \A n \in Between(0, 65535) : n \in Nat /\ n % 65536 = n
  BY <1>1
<1>. QED
  BY <1>2, <1>3, <1>4

LEMMA TableTexts ==
  \A k \in {"ota_update_url", "mqtt_server", "mqtt_protocol", "mqtt_user",
            "mqtt_password", "mqtt_prefix", "ha_prefix", "net_log_host"} :
    /\ Table[k].type = "text" /\ Table[k].bits = 0
    /\ Table[k].max \in Nat \ {0} /\ k \notin DOMAIN Handler
<1>1. /\ Table["ota_update_url"] = Text(256)
      /\ Table["mqtt_server"] = Text(128)
      /\ Table["mqtt_protocol"] = Text(10)
      /\ Table["mqtt_user"] = Text(64)
      /\ Table["mqtt_password"] = Text(64)
      /\ Table["mqtt_prefix"] = Text(128)
      /\ Table["ha_prefix"] = Text(128)
      /\ Table["net_log_host"] = Text(256)
  BY DEF Table
<1>2. \A size \in Nat : Text(size).type = "text" /\ Text(size).max = size
                       /\ Text(size).bits = 0
  BY DEF Text
<1>. QED
  BY <1>1, <1>2, HandlerKeys

LEMMA TableWords ==
  \A k \in {"ha_upd_intervl", "memgrd_trshld"} :
    /\ Table[k].type = "number" /\ Table[k].bits = 32
    /\ k \in DOMAIN Handler /\ Handler[k] \subseteq Nat
<1>1. /\ Table["ha_upd_intervl"] = Uint(32)
      /\ Table["memgrd_trshld"] = Uint(32)
  BY DEF Table
<1>2. /\ Handler["ha_upd_intervl"] = Between(60000, 86400000)
      /\ Handler["memgrd_trshld"] = Between(16384, 131072)
  BY DEF Handler
<1>3. Uint(32).type = "number" /\ Uint(32).bits = 32
  BY DEF Uint
<1>4. \A low, high \in Nat : Between(low, high) \subseteq Nat
  BY DEF Between
<1>. QED
  BY <1>1, <1>2, <1>3, <1>4, HandlerKeys

LEMMA TableHalves ==
  \A k \in {"mqtt_connect", "mqtt_port", "relay_refr_int", "relay_ch_count",
            "relay_sn_count", "net_log_type", "net_log_port", "net_log_stdout",
            "memgrd_mode", "ota_upd_rescfg"} :
    /\ Table[k].type = "number" /\ Table[k].bits = 16
    /\ k \in DOMAIN Handler /\ Handler[k] \subseteq Between(0, 65535)
<1>1. /\ Table["mqtt_connect"] = Uint(16)
      /\ Table["mqtt_port"] = Uint(16)
      /\ Table["relay_refr_int"] = Uint(16)
      /\ Table["relay_ch_count"] = Uint(16)
      /\ Table["relay_sn_count"] = Uint(16)
      /\ Table["net_log_type"] = Uint(16)
      /\ Table["net_log_port"] = Uint(16)
      /\ Table["net_log_stdout"] = Uint(16)
      /\ Table["memgrd_mode"] = Uint(16)
      /\ Table["ota_upd_rescfg"] = Uint(16)
  BY DEF Table
<1>2. /\ Handler["mqtt_connect"] = Between(0, 2)
      /\ Handler["mqtt_port"] = Between(1, 65535)
      /\ Handler["relay_refr_int"] = Between(1, 10000)
      /\ Handler["relay_ch_count"] = Between(0, 15)
      /\ Handler["relay_sn_count"] = Between(0, 8)
      /\ Handler["net_log_type"] = Between(0, 3)
      /\ Handler["net_log_port"] = Between(1, 65535)
      /\ Handler["net_log_stdout"] = Between(0, 1)
      /\ Handler["memgrd_mode"] = Between(0, 2)
      /\ Handler["ota_upd_rescfg"] = Between(0, 1)
  BY DEF Handler
<1>3. Uint(16).type = "number" /\ Uint(16).bits = 16
  BY DEF Uint
<1>. QED
  BY <1>1, <1>2, <1>3, HalfWord, HandlerKeys

LEMMA TableRows ==
  ASSUME NEW k \in TableKeys
  PROVE  \/ /\ Table[k].type = "text" /\ Table[k].bits = 0
            /\ Table[k].max \in Nat \ {0} /\ k \notin DOMAIN Handler
         \/ /\ Table[k].type = "number" /\ Table[k].bits = 16
            /\ k \in DOMAIN Handler /\ Handler[k] \subseteq Between(0, 65535)
         \/ /\ Table[k].type = "number" /\ Table[k].bits = 32
            /\ k \in DOMAIN Handler /\ Handler[k] \subseteq Nat
BY TableTexts, TableWords, TableHalves, TableKeysDef

LEMMA UsedRows ==
  /\ {"mqtt_connect", "mqtt_prefix", "net_log_type"} \subseteq TableKeys \cap Keys
  /\ Values("mqtt_connect") = Between(0, 65535)
  /\ Values("mqtt_prefix") \subseteq Texts
<1>1. {"mqtt_connect", "mqtt_prefix", "net_log_type"} \subseteq TableKeys \cap Keys
  BY UsedAssumption, KeysAssumption DEF TableKeys
<1>2. Table["mqtt_connect"].type = "number" /\ Table["mqtt_connect"].bits = 16
  BY DEF Table, Uint
<1>3. Table["mqtt_prefix"].type = "text"
  BY DEF Table, Text
<1>. QED
  BY <1>1, <1>2, <1>3 DEF Values

(* Everything that the API accepts for a key is stored as it was sent, and  *)
(* is what its handler lets pass.                                           *)
LEMMA ValidStored ==
  ASSUME NEW key, NEW json, IsJson(json), Valid(key, json)
  PROVE  /\ key \in Keys /\ json.value \in Values(key) /\ Handled(key, json.value)
         /\ Stored(key, json.value) = json.value
<1>1. key \in Keys /\ key \in TableKeys
  BY KeysAssumption DEF Valid, TableKeys
<1>2. /\ key \in DOMAIN Handler => ValueInt(json) \in Handler[key]
      /\ json.type = Table[key].type
      /\ json.type = "text" => json.value.size < Table[key].max
  BY DEF Valid
<1>3. CASE Table[key].type = "text"
  BY <1>1, <1>2, <1>3, TableRows DEF IsJson, Values, Handled, Stored
<1>4. CASE Table[key].type = "number" /\ Table[key].bits = 16
  <2>1. json.value \in Handler[key] /\ Handler[key] \subseteq Between(0, 65535)
    BY <1>1, <1>2, <1>4, TableRows DEF ValueInt
  <2>. QED
    BY <1>1, <1>4, <2>1, HalfWord DEF Values, Handled, Stored
<1>5. CASE Table[key].type = "number" /\ Table[key].bits = 32
  <2>1. json.value \in Handler[key] /\ Handler[key] \subseteq Nat
    BY <1>1, <1>2, <1>5, TableRows DEF ValueInt
  <2>. QED
    BY <1>1, <1>5, <2>1 DEF Values, Handled, Stored
<1>. QED
  BY <1>1, <1>3, <1>4, <1>5, TableRows

(* Whatever is typed into the form, what is stored fits the key.            *)
LEMMA FormStored ==
  ASSUME NEW key \in Keys, NEW value \in FormValues(key)
  PROVE  Stored(key, value) \in Values(key)
<1>1. key \in TableKeys
  BY KeysAssumption DEF TableKeys
<1>. QED
  BY <1>1, TableRows, HalfWord DEF FormValues, Values, Stored

LEMMA LostStored ==
  ASSUME NEW key \in Keys
  PROVE  (IF Table[key].type = "text" THEN EmptyText ELSE 0) \in FormValues(key)
<1>1. key \in TableKeys
  BY KeysAssumption DEF TableKeys
<1>2. EmptyText \in Texts
  <2>1. Empty \in Level
    BY Zenon DEF Level
  <2>2. PICK s : s = <<Empty>>
    OBVIOUS
  <2>3. s \in Seq(Level) /\ Len(s) = 1
    BY <2>1, <2>2
  <2>4. s # << >>
    BY <2>2
  <2>. QED
    BY <2>2, <2>3, <2>4 DEF EmptyText, Texts
<1>3. EmptyText.size = 0
  BY DEF EmptyText
<1>. QED
  BY <1>1, <1>2, <1>3, TableRows DEF FormValues, Values
------------------------------------------------------------------------------
(* The invariants.                                                          *)

ApiStates == [at : {"api"}, request : Requests, next : Nat \ {0}, failed : Nat]
FieldValues == UNION {FormValues(k) : k \in Keys}
FormStates == [at : {"form"}, next : Nat \ {0}, fields : [Keys -> FieldValues]]

(* The request in work is one that was sent, as far as its settings go, and *)
(* the fields of a form are extracted to the buffers of their settings.     *)
WebOK ==
  /\ web \in {Idle} \cup ApiStates \cup FormStates
  /\ web.at = "form" => \A k \in Keys : web.fields[k] \in FormValues(k)
  /\ web # Idle => Serving

SettingsOK ==
  /\ phase \in {"settings", "logging", "mqtt", "init", "wait", "run"}
  /\ bootKey \in 1 .. Len(BootOrder)
  /\ DOMAIN nvs = Keys /\ \A k \in Keys : nvs[k] = Unset \/ nvs[k] \in Values(k)
  /\ typed \subseteq Keys
  /\ inputs \in 0 .. MaxInputs

PrefixOrUnset == Values("mqtt_prefix") \cup {Unset}

(* The client and the tasks begin when boot has come to them, and the       *)
(* handler of the client works in a session.                                *)
SessionOK ==
  /\ tasks \subseteq {"status", "ha"}
  /\ client \in {"none", "started", "up", "several"}
  /\ ready \in BOOLEAN /\ (ready => client = "up")
  /\ handler \in {0} \cup U /\ (handler # 0 => client = "up")
  /\ subs \in [U -> PrefixOrUnset] /\ announced \in [U -> PrefixOrUnset]
  /\ missed \subseteq U
  /\ ha \in [unit : {0} \cup U, prefix : PrefixOrUnset]
  /\ phase \notin {"init", "wait", "run"} =>
       client = "none" /\ tasks = {} /\ queues = FALSE

FlagsOK == rebooting \in BOOLEAN /\ queues \in BOOLEAN /\ changed \in BOOLEAN

(* What the request has stored so far is in NVS, unless the request itself  *)
(* has stored something else there since.                                   *)
StoredSoFar ==
  web.at = "api" =>
    /\ web.next <= Len(web.request.data) + 1
    /\ web.failed = 0 =>
         \A i \in 1 .. web.next - 1 :
           LET item == web.request.data[i]
           IN  \/ \E j \in i + 1 .. web.next - 1 : web.request.data[j].key = item.key
               \/ item.key \in Keys /\ nvs[item.key] = item.json.value

(* The handler of the client has passed the unit in this session.           *)
Passed(u) == client = "up" /\ (handler = 0 \/ u < handler)

PassedComplete ==
  /\ \A u \in U : Passed(u) => queues
  /\ \A u \in U : client = "up" /\ ~Passed(u) => subs[u] = Unset
  /\ ready /\ ~changed =>
       \A u \in U : Passed(u) =>
         subs[u] = IF Mode = 0 \/ u \in missed THEN Unset ELSE Prefix
  /\ client = "up" => \A u \in missed : Passed(u)

------------------------------------------------------------------------------
(* The settings and the request in work.                                    *)

LEMMA RestartOK ==
  ASSUME SettingsOK, Restart, inputs' \in 0 .. MaxInputs
  PROVE  SettingsOK' /\ WebOK'
<1>1. SettingsOK'
  BY BootOrderType DEF SettingsOK, Restart
<1>2. WebOK'
  <2>1. web' = Idle /\ Idle.at = "idle"
    BY DEF Restart, Idle
  <2>. QED
    BY <2>1 DEF WebOK
<1>. QED
  BY <1>1, <1>2

LEMMA InputOK ==
  ASSUME SettingsOK, Input
  PROVE  inputs' \in 0 .. MaxInputs
BY BoundAssumption DEF SettingsOK, Input

(* The request goes on to its next setting.                                 *)
LEMMA ApiAdvance ==
  ASSUME NEW w \in ApiStates, NEW failed \in Nat
  PROVE  LET next == [w EXCEPT !.next = @ + 1, !.failed = failed]
         IN  /\ next \in ApiStates /\ next.at = "api" /\ next.request = w.request
             /\ next.next = w.next + 1 /\ next.failed = failed
<1>1. PICK w1 : w1 = [w EXCEPT !.next = @ + 1]
  OBVIOUS
<1>2. /\ w1 \in ApiStates /\ w1.at = "api" /\ w1.request = w.request
      /\ w1.next = w.next + 1
  BY <1>1 DEF ApiStates
<1>3. [w EXCEPT !.next = @ + 1, !.failed = failed] = [w1 EXCEPT !.failed = failed]
  BY <1>1
<1>4. PICK w2 : w2 = [w1 EXCEPT !.failed = failed]
  OBVIOUS
<1>5. /\ w2 \in ApiStates /\ w2.at = "api" /\ w2.request = w1.request
      /\ w2.next = w1.next /\ w2.failed = failed
  BY <1>2, <1>4 DEF ApiStates
<1>. QED
  BY <1>2, <1>3, <1>4, <1>5, Zenon

LEMMA ApiAdvanceOnly ==
  ASSUME NEW w \in ApiStates
  PROVE  LET next == [w EXCEPT !.next = @ + 1]
         IN  /\ next \in ApiStates /\ next.at = "api" /\ next.request = w.request
             /\ next.next = w.next + 1 /\ next.failed = w.failed
BY DEF ApiStates

LEMMA FormAdvance ==
  ASSUME NEW w \in FormStates
  PROVE  LET next == [w EXCEPT !.next = @ + 1]
         IN  /\ next \in FormStates /\ next.at = "form" /\ next.fields = w.fields
             /\ next.next = w.next + 1
BY DEF FormStates

LEMMA WebAt ==
  ASSUME WebOK
  PROVE  /\ web.at \in {"idle", "api", "form"}
         /\ web.at = "idle" <=> web = Idle
         /\ web.at = "api" <=> web \in ApiStates
         /\ web.at = "form" <=> web \in FormStates
<1>1. Idle.at = "idle"
  BY DEF Idle
<1>2. \A w \in ApiStates : w.at = "api"
  BY DEF ApiStates
<1>3. \A w \in FormStates : w.at = "form"
  BY DEF FormStates
<1>. QED
  BY <1>1, <1>2, <1>3 DEF WebOK

(* The setting that the API has come to, and the one of the form.           *)
LEMMA ItemTyped ==
  ASSUME WebOK, ApiMore
  PROVE  /\ web \in ApiStates /\ web.request \in Requests
         /\ web.next \in 1 .. Len(web.request.data) /\ web.failed \in Nat
         /\ IsJson(Item.json)
<1>1. web \in ApiStates
  BY WebAt DEF ApiMore
<1>2. web.request \in Requests /\ web.next \in Nat \ {0} /\ web.failed \in Nat
  BY <1>1 DEF ApiStates
<1>3. Len(web.request.data) \in Nat /\ DOMAIN web.request.data = 1 .. Len(web.request.data)
  BY <1>2, RequestsAssumption
<1>4. web.next \in 1 .. Len(web.request.data)
  BY <1>2, <1>3 DEF ApiMore
<1>5. IsJson(Item.json)
  BY <1>2, <1>3, <1>4, RequestsAssumption DEF Item
<1>. QED
  BY <1>1, <1>2, <1>4, <1>5

LEMMA FieldTyped ==
  ASSUME WebOK, web.at = "form", web.next <= Len(FormOrder)
  PROVE  /\ web \in FormStates
         /\ FormOrder[web.next] \in Keys
         /\ web.fields[FormOrder[web.next]] \in FormValues(FormOrder[web.next])
<1>1. web \in FormStates
  BY WebAt
<1>2. web.next \in 1 .. Len(FormOrder)
  <2>1. Len(FormOrder) \in Nat
    BY FormOrderType
  <2>. QED
    BY <1>1, <2>1 DEF FormStates
<1>. QED
  BY <1>1, <1>2, FormOrderType DEF WebOK

LEMMA StoreOK ==
  ASSUME SettingsOK, NEW key \in Keys, NEW value, Store(key, value),
         Stored(key, value) \in Values(key)
  PROVE  /\ DOMAIN nvs' = Keys /\ \A k \in Keys : nvs'[k] = Unset \/ nvs'[k] \in Values(k)
         /\ typed' \subseteq Keys
BY DEF SettingsOK, Store

LEMMA BootSettingStores ==
  ASSUME SettingsOK, BootSetting
  PROVE  \E key \in Keys :
           nvs' = [nvs EXCEPT ![key] = IF @ = Unset THEN Defaults[key] ELSE @]
<1>1. PICK key : key = BootOrder[bootKey]
  OBVIOUS
<1>2. key \in Keys
  BY <1>1, BootOrderType DEF SettingsOK
<1>3. nvs' = [nvs EXCEPT ![key] = IF @ = Unset THEN Defaults[key] ELSE @]
  BY <1>1 DEF BootSetting
<1>. QED
  BY <1>2, <1>3, Zenon

LEMMA SettingsNextOK ==
  ASSUME SettingsOK, WebOK, SettingsNext
  PROVE  SettingsOK' /\ WebOK'
<1>1. CASE BootSetting
  <2>1. PICK key \in Keys :
          nvs' = [nvs EXCEPT ![key] = IF @ = Unset THEN Defaults[key] ELSE @]
    BY <1>1, BootSettingStores
  <2>2. /\ phase = "settings" /\ phase' \in {"settings", "logging"}
        /\ bootKey' \in 1 .. Len(BootOrder)
    BY <1>1, BootOrderType DEF BootSetting, NextKey, SettingsOK
  <2>3. DOMAIN nvs' = Keys /\ \A k \in Keys : nvs'[k] = Unset \/ nvs'[k] \in Values(k)
    BY <2>1, DefaultsAssumption DEF SettingsOK
  <2>4. SettingsOK'
    BY <1>1, <2>2, <2>3 DEF BootSetting, SettingsOK
  <2>5. WebOK'
    BY <1>1, <2>2 DEF BootSetting, WebOK, Serving
  <2>. QED
    BY <2>4, <2>5
<1>2. CASE BootLogging
  <2>1. inputs' \in 0 .. MaxInputs
    BY <1>2, InputOK DEF BootLogging, SettingsOK
  <2>. QED
    BY <1>2, <2>1 DEF BootLogging, SettingsOK, WebOK, Serving
<1>3. CASE BootLoggingFails
  BY <1>3, RestartOK DEF BootLoggingFails, SettingsOK
<1>4. CASE ApiApply
  <2>1. /\ web \in ApiStates /\ web.next \in 1 .. Len(web.request.data)
        /\ IsJson(Item.json)
    BY <1>4, ItemTyped DEF ApiApply
  <2>2. PICK key, value : key = Item.key /\ value = Item.json.value
    OBVIOUS
  <2>3. Store(key, value)
    BY <1>4, <2>2 DEF ApiApply
  <2>4. /\ key \in Keys
        /\ Stored(key, value) \in Values(key)
    BY <1>4, <2>1, <2>2, ValidStored DEF ApiApply
  <2>5. SettingsOK'
    BY <1>4, <2>3, <2>4, StoreOK DEF ApiApply, SettingsOK
  <2>6. web' \in ApiStates /\ web'.at = "api"
    BY <1>4, <2>1, ApiAdvanceOnly DEF ApiApply
  <2>7. Serving'
    BY <1>4, <2>1, WebAt DEF ApiApply, WebOK, Serving, Idle, ApiMore
  <2>8. WebOK'
    BY <2>6, <2>7 DEF WebOK
  <2>. QED
    BY <2>5, <2>8
<1>5. CASE ApiRefuse
  <2>1. web \in ApiStates /\ web.failed \in Nat
    BY <1>5, ItemTyped DEF ApiRefuse
  <2>2. inputs' \in 0 .. MaxInputs
    BY <1>5, InputOK DEF ApiRefuse, SettingsOK
  <2>3. SettingsOK'
    BY <1>5, <2>2 DEF ApiRefuse, SettingsOK
  <2>4. web' = [web EXCEPT !.next = @ + 1, !.failed = web.failed + 1]
    BY <1>5 DEF ApiRefuse
  <2>4a. web.failed + 1 \in Nat
    BY <2>1
  <2>5. web' \in ApiStates /\ web'.at = "api"
    BY <2>1, <2>4, <2>4a, ApiAdvance, Zenon
  <2>6. Serving'
    BY <1>5, <2>1, WebAt DEF ApiRefuse, WebOK, Serving, Idle, ApiMore
  <2>7. WebOK'
    BY <2>5, <2>6 DEF WebOK
  <2>. QED
    BY <2>3, <2>7
<1>6. CASE ApiRestart \/ ApiReply \/ FormReply
  <2>1. web' = Idle /\ Idle.at = "idle"
    BY <1>6 DEF ApiRestart, ApiReply, FormReply, Idle
  <2>2. WebOK'
    BY <2>1 DEF WebOK
  <2>3. inputs' \in 0 .. MaxInputs
    BY <1>6, InputOK DEF ApiRestart, SystemReboot, ApiReply, FormReply, SettingsOK
  <2>. QED
    BY <1>6, <2>2, <2>3 DEF ApiRestart, ApiReply, FormReply, SettingsOK
<1>7. CASE FormStore
  <2>1. PICK key, value : key = FormOrder[web.next] /\ value = web.fields[key]
    OBVIOUS
  <2>2. /\ web \in FormStates
        /\ key \in Keys /\ value \in FormValues(key)
    BY <1>7, <2>1, FieldTyped DEF FormStore
  <2>3. Store(key, value)
    BY <1>7, <2>1 DEF FormStore
  <2>4. SettingsOK'
    BY <1>7, <2>2, <2>3, FormStored, StoreOK DEF FormStore, SettingsOK
  <2>5. web' \in FormStates /\ web'.at = "form" /\ web'.fields = web.fields
    BY <1>7, <2>2, FormAdvance DEF FormStore
  <2>6. \A k \in Keys : web'.fields[k] \in FormValues(k)
    BY <1>7, <2>5 DEF FormStore, WebOK
  <2>7. Serving'
    BY <1>7, <2>2, WebAt DEF FormStore, WebOK, Serving, Idle
  <2>8. WebOK'
    BY <2>5, <2>6, <2>7 DEF WebOK
  <2>. QED
    BY <2>4, <2>8
<1>8. CASE Reboot
  BY <1>8, RestartOK DEF Reboot, SettingsOK
<1>9. ASSUME NEW request \in Requests, ApiReceive(request)
      PROVE  SettingsOK' /\ WebOK'
  <2>1. SettingsOK'
    BY <1>9, InputOK DEF ApiReceive, SettingsOK
  <2>2. web' \in ApiStates /\ web'.at = "api"
    BY <1>9 DEF ApiReceive, Api, ApiStates
  <2>3. Serving'
    BY <1>9 DEF ApiReceive, Serving
  <2>. QED
    BY <2>1, <2>2, <2>3 DEF WebOK
<1>10. ASSUME NEW fields \in Forms, NEW lost \in SUBSET Keys, FormReceive(fields, lost)
       PROVE  SettingsOK' /\ WebOK'
  <2>1. SettingsOK'
    BY <1>10, InputOK DEF FormReceive, SettingsOK
  <2>2. PICK f : f = [k \in Keys |->
                   IF k \notin lost THEN fields[k]
                   ELSE IF Table[k].type = "text" THEN EmptyText ELSE 0]
    OBVIOUS
  <2>3. \A k \in Keys : f[k] \in FormValues(k)
    BY <2>2, LostStored, FormsAssumption
  <2>4. f \in [Keys -> FieldValues]
    <3>1. \A k \in Keys : f[k] \in FieldValues
      BY <2>3, Zenon DEF FieldValues
    <3>. QED
      BY <2>2, <3>1
  <2>5. web' = [at |-> "form", next |-> 1, fields |-> f]
    BY <1>10, <2>2 DEF FormReceive
  <2>6. web' \in FormStates /\ web'.at = "form" /\ web'.fields = f
    BY <2>4, <2>5 DEF FormStates
  <2>7. Serving'
    BY <1>10 DEF FormReceive, Serving
  <2>. QED
    BY <2>1, <2>3, <2>6, <2>7 DEF WebOK
<1>11. CASE RebootPage
  BY <1>11, InputOK DEF RebootPage, SettingsOK, WebOK, Serving
<1>12. CASE Failures
  <2>1. Input /\ Restart
    BY <1>12 DEF Failures, PowerLoss, BootSettingFails, BootWifiFails, FormStoreFails
  <2>. QED
    BY <2>1, InputOK, RestartOK
<1>. QED
  BY <1>1, <1>2, <1>3, <1>4, <1>5, <1>6, <1>7, <1>8, <1>9, <1>10, <1>11, <1>12
     DEF SettingsNext, Boot, Serve, Users

------------------------------------------------------------------------------
(* The session.                                                             *)

LEMMA UnitsType ==
  /\ Len(Units) \in Nat /\ U = 1 .. Len(Units)
  /\ \A u \in U : Units[u] \in Level \ {Empty, "device_id"}
BY UnitsAssumption DEF U

LEMMA NextUnitType ==
  /\ NextUnit(0) \in {0} \cup U /\ (U # {} => NextUnit(0) = 1)
  /\ \A u \in U : /\ NextUnit(u) \in {0} \cup U
                  /\ NextUnit(u) # 0 => NextUnit(u) = u + 1
                  /\ NextUnit(u) = 0 => u = Len(Units)
BY UnitsType DEF NextUnit

(* The settings alone leave the phase alone, once boot has come to MQTT,    *)
(* but for a restart.                                                       *)
LEMMA SettingsPhase ==
  ASSUME SettingsNext
  PROVE  \/ phase' = phase
         \/ phase' = "settings"
         \/ phase \in {"settings", "logging"} /\ phase' \in {"logging", "mqtt"}
<1>1. CASE Boot
  BY <1>1 DEF Boot, BootSetting, NextKey, BootLogging, BootLoggingFails, Restart
<1>2. CASE Serve
  BY <1>2 DEF Serve, ApiApply, ApiRefuse, ApiRestart, ApiReply, FormStore, FormReply,
              Reboot, Restart
<1>3. CASE Users
  BY <1>3 DEF Users, ApiReceive, FormReceive, RebootPage
<1>4. CASE Failures
  BY <1>4 DEF Failures, PowerLoss, BootSettingFails, BootWifiFails, FormStoreFails, Restart
<1>. QED
  BY <1>1, <1>2, <1>3, <1>4 DEF SettingsNext

LEMMA ResetSession ==
  ASSUME SessionOK, MqttReset
  PROVE  SessionOK'
<1>1. NoTopics \in [U -> PrefixOrUnset]
  BY DEF NoTopics, PrefixOrUnset
<1>2. Asleep \in [unit : {0} \cup U, prefix : PrefixOrUnset]
  BY DEF Asleep, PrefixOrUnset
<1>. QED
  BY <1>1, <1>2 DEF SessionOK, MqttReset

LEMMA NewSession ==
  ASSUME SessionOK, NewClient, phase' \in {"init", "wait", "run"},
         UNCHANGED <<tasks, announced, ha>>
  PROVE  SessionOK'
<1>1. NoTopics \in [U -> PrefixOrUnset]
  BY DEF NoTopics, PrefixOrUnset
<1>. QED
  BY <1>1 DEF SessionOK, NewClient

LEMMA PrefixTyped ==
  ASSUME SettingsOK
  PROVE  Prefix \in PrefixOrUnset /\ (Mode = Unset \/ Mode \in Between(0, 65535))
BY UsedRows DEF SettingsOK, Prefix, Mode, PrefixOrUnset

LEMMA SessionNext ==
  ASSUME SettingsOK, SessionOK, [Next]_vars
  PROVE  SessionOK'
<1>1. CASE SettingsStep
  <2>1. CASE MqttReset
    BY <2>1, ResetSession
  <2>2. CASE /\ ~(phase' = "settings" /\ phase # "settings")
             /\ UNCHANGED <<queues, tasks, client, ready, handler, subs, announced, ha,
                            missed>>
    <3>1. phase' \notin {"init", "wait", "run"} => phase \notin {"init", "wait", "run"}
      BY <1>1, <2>2, SettingsPhase DEF SettingsStep
    <3>. QED
      BY <2>2, <3>1 DEF SessionOK
  <2>. QED
    BY <1>1, <2>1, <2>2 DEF SettingsStep
<1>2. CASE BootMqtt
  BY <1>2 DEF BootMqtt, SessionOK, session
<1>3. CASE BootClient
  <2>1. CASE Mode = 0
    BY <1>3, <2>1 DEF BootClient, SessionOK, session
  <2>2. CASE Mode # 0
    <3>1. NewClient /\ phase' = "wait" /\ UNCHANGED <<tasks, announced, ha>>
      BY <1>3, <2>2 DEF BootClient
    <3>. QED
      BY <3>1, NewSession
  <2>. QED
    BY <2>1, <2>2
<1>4. CASE BootConnected
  BY <1>4 DEF BootConnected, SessionOK, session
<1>5. CASE BootTimeout
  BY <1>5 DEF BootTimeout, SessionOK, mqttVars
<1>6. CASE Disconnect \/ WifiFlap
  BY <1>6 DEF Disconnect, WifiFlap, SessionOK
<1>7. CASE NoQueue \/ \E u \in U : CommandAborts(u)
  BY <1>7, ResetSession DEF NoQueue, CommandAborts, Abort
<1>8. CASE Connect
  <2>1. NoTopics \in [U -> PrefixOrUnset]
    BY DEF NoTopics, PrefixOrUnset
  <2>. QED
    BY <1>8, <2>1, NextUnitType DEF Connect, SessionOK, settingsVars
<1>9. CASE Subscribe
  <2>1. subs' \in [U -> PrefixOrUnset]
    BY <1>9, PrefixTyped DEF Subscribe, SessionOK
  <2>. QED
    BY <1>9, <2>1, NextUnitType DEF Subscribe, SessionOK, settingsVars
<1>10. CASE MakeClient
  <2>1. phase \in {"init", "wait", "run"}
    BY <1>10 DEF MakeClient, SessionOK
  <2>. QED
    BY <1>10, <2>1, NewSession DEF MakeClient, settingsVars
<1>11. CASE HaPublish \/ HaFails
  <2>1. ha.unit \in {0} \cup U /\ ha.prefix \in PrefixOrUnset
    BY DEF SessionOK
  <2>2. announced' \in [U -> PrefixOrUnset]
    BY <1>11, <2>1 DEF HaPublish, HaFails, SessionOK
  <2>3. Asleep \in [unit : {0} \cup U, prefix : PrefixOrUnset]
    BY DEF Asleep, PrefixOrUnset
  <2>4. [ha EXCEPT !.prefix = Unset] \in [unit : {0} \cup U, prefix : PrefixOrUnset]
    BY DEF SessionOK, PrefixOrUnset
  <2>5. ha' \in [unit : {0} \cup U, prefix : PrefixOrUnset]
    BY <1>11, <2>3, <2>4 DEF HaPublish, HaFails, HaNext
  <2>6. UNCHANGED <<phase, queues, tasks, client, ready, handler, subs, missed>>
    BY <1>11 DEF HaPublish, HaFails, session, settingsVars
  <2>. QED
    BY <2>2, <2>5, <2>6 DEF SessionOK
<1>12. ASSUME NEW u \in U, HaRead(u) PROVE SessionOK'
  <2>1. ha' \in [unit : {0} \cup U, prefix : PrefixOrUnset]
    BY <1>12, PrefixTyped DEF HaRead
  <2>. QED
    BY <1>12, <2>1 DEF HaRead, SessionOK, settingsVars, session
<1>13. CASE UNCHANGED vars
  BY <1>13 DEF vars, settingsVars, mqttVars, SessionOK
<1>14. CASE SubscribeFails
  BY <1>14, NextUnitType DEF SubscribeFails, SessionOK
<1>. QED
  BY <1>1, <1>2, <1>3, <1>4, <1>5, <1>6, <1>7, <1>8, <1>9, <1>10, <1>11, <1>12, <1>13,
     <1>14 DEF Next, Network, Client, Ha, BootEnd

(* What the other actions do to the settings.                               *)
LEMMA OtherSteps ==
  ASSUME SettingsOK, Next, ~SettingsStep
  PROVE  \/ Abort /\ inputs' \in 0 .. MaxInputs
         \/ /\ UNCHANGED <<bootKey, nvs, web, rebooting, typed>>
            /\ inputs' \in 0 .. MaxInputs
            /\ \/ UNCHANGED phase
               \/ /\ phase \in {"mqtt", "init", "wait"}
                  /\ phase' \in {"init", "wait", "run"}
<1>1. CASE BootMqtt \/ BootClient \/ BootEnd
  BY <1>1 DEF BootMqtt, BootClient, BootEnd, BootConnected, BootTimeout, SettingsOK
<1>2. CASE SubscribeFails \/ HaFails
  BY <1>2, InputOK DEF SubscribeFails, HaFails
<1>3. CASE Disconnect \/ WifiFlap
  BY <1>3, InputOK DEF Disconnect, WifiFlap
<1>4. CASE \E u \in U : CommandAborts(u)
  BY <1>4, InputOK DEF CommandAborts
<1>5. CASE NoQueue
  BY <1>5 DEF NoQueue, SettingsOK
<1>6. CASE Connect \/ Subscribe
  BY <1>6 DEF Connect, Subscribe, settingsVars, SettingsOK
<1>7. CASE MakeClient
  BY <1>7 DEF MakeClient, settingsVars, SettingsOK
<1>8. CASE Ha
  BY <1>8 DEF Ha, HaPublish, HaRead, settingsVars, SettingsOK
<1>. QED
  BY <1>1, <1>2, <1>3, <1>4, <1>5, <1>6, <1>7, <1>8 DEF Next, Network, Client

LEMMA SettingsAndWebNext ==
  ASSUME SettingsOK, WebOK, [Next]_vars
  PROVE  SettingsOK' /\ WebOK'
<1>1. CASE SettingsStep
  BY <1>1, SettingsNextOK DEF SettingsStep
<1>2. CASE Next /\ ~SettingsStep
  <2>1. CASE Abort /\ inputs' \in 0 .. MaxInputs
    BY <2>1, RestartOK DEF Abort
  <2>2. CASE /\ UNCHANGED <<bootKey, nvs, web, rebooting, typed>>
             /\ inputs' \in 0 .. MaxInputs
             /\ \/ UNCHANGED phase
                \/ /\ phase \in {"mqtt", "init", "wait"}
                   /\ phase' \in {"init", "wait", "run"}
    BY <2>2 DEF SettingsOK, WebOK, Serving
  <2>. QED
    BY <1>2, <2>1, <2>2, OtherSteps
<1>3. CASE UNCHANGED vars
  BY <1>3 DEF vars, settingsVars, SettingsOK, WebOK, Serving
<1>. QED
  BY <1>1, <1>2, <1>3

LEMMA FlagsNext ==
  ASSUME FlagsOK, [Next]_vars
  PROVE  FlagsOK'
<1>1. CASE SettingsStep
  <2>1. rebooting' \in BOOLEAN
    <3>1. SettingsNext
      BY <1>1 DEF SettingsStep
    <3>2. CASE Boot
      BY <3>2, Zenon DEF Boot, BootSetting, BootLogging, BootLoggingFails, Restart, FlagsOK
    <3>3. CASE Serve
      BY <3>3, Zenon DEF Serve, ApiApply, ApiRefuse, ApiRestart, ApiReply, FormStore,
                         FormReply, Reboot, Restart, SystemReboot, FlagsOK
    <3>4. CASE Users
      BY <3>4, Zenon DEF Users, ApiReceive, FormReceive, RebootPage, FlagsOK
    <3>5. CASE Failures
      BY <3>5, Zenon DEF Failures, PowerLoss, BootSettingFails, BootWifiFails,
                         FormStoreFails, Restart, FlagsOK
    <3>. QED
      BY <3>1, <3>2, <3>3, <3>4, <3>5, Zenon DEF SettingsNext
  <2>2. queues' \in BOOLEAN
    BY <1>1, Zenon DEF SettingsStep, MqttReset, FlagsOK
  <2>3. changed' \in BOOLEAN
    BY <1>1, Zenon DEF SettingsStep, MqttReset, FlagsOK
  <2>. QED
    BY <2>1, <2>2, <2>3, Zenon DEF FlagsOK
<1>2. CASE BootMqtt \/ BootClient \/ BootEnd
  BY <1>2, Zenon DEF BootMqtt, BootClient, NewClient, BootEnd, BootConnected, BootTimeout,
                     mqttVars, session, FlagsOK
<1>3. CASE Network
  BY <1>3, Zenon DEF Network, Disconnect, WifiFlap, SubscribeFails, HaFails, session,
                     CommandAborts, Abort, Restart, MqttReset, FlagsOK
<1>4. CASE Client
  BY <1>4, Zenon DEF Client, Connect, Subscribe, NoQueue, Abort, Restart, MqttReset,
                     settingsVars, FlagsOK
<1>5. CASE MakeClient \/ Ha
  BY <1>5, Zenon DEF MakeClient, NewClient, Ha, HaPublish, HaRead, session, settingsVars,
                     FlagsOK
<1>6. CASE UNCHANGED vars
  BY <1>6, Zenon DEF vars, settingsVars, mqttVars, FlagsOK
<1>. QED
  BY <1>1, <1>2, <1>3, <1>4, <1>5, <1>6, Zenon DEF Next

Typed == SettingsOK /\ WebOK /\ SessionOK /\ FlagsOK

LEMMA InitTyped == Init => Typed
<1>. SUFFICES ASSUME Init PROVE Typed
  OBVIOUS
<1>1. SettingsOK
  BY BootOrderType, DefaultsAssumption, BoundAssumption DEF Init, SettingsInit, SettingsOK
<1>2. WebOK
  <2>1. web = Idle /\ Idle.at = "idle"
    BY DEF Init, SettingsInit, Idle
  <2>. QED
    BY <2>1 DEF WebOK
<1>3. SessionOK
  <2>1. NoTopics \in [U -> PrefixOrUnset]
    BY DEF NoTopics, PrefixOrUnset
  <2>2. Asleep \in [unit : {0} \cup U, prefix : PrefixOrUnset]
    BY DEF Asleep, PrefixOrUnset
  <2>. QED
    BY <2>1, <2>2 DEF Init, SettingsInit, MqttInit, SessionOK
<1>4. FlagsOK
  BY Zenon DEF Init, SettingsInit, MqttInit, FlagsOK
<1>. QED
  BY <1>1, <1>2, <1>3, <1>4, Zenon DEF Typed

LEMMA TypedImpliesTypeOK == Typed => TypeOK
<1>. SUFFICES ASSUME Typed PROVE TypeOK
  OBVIOUS
<1>1. web.at \in {"idle", "api", "form"}
  BY WebAt, Zenon DEF Typed
<1>2. /\ phase \in {"settings", "logging", "mqtt", "init", "wait", "run"}
      /\ bootKey \in 1 .. Len(BootOrder)
      /\ DOMAIN nvs = Keys /\ \A k \in Keys : nvs[k] = Unset \/ nvs[k] \in Values(k)
      /\ typed \subseteq Keys /\ inputs \in 0 .. MaxInputs
  BY Zenon DEF Typed, SettingsOK
<1>3. /\ tasks \subseteq {"status", "ha"} /\ missed \subseteq U
      /\ client \in {"none", "started", "up", "several"}
      /\ ready \in BOOLEAN /\ (ready => client = "up")
      /\ handler \in {0} \cup U /\ (handler # 0 => client = "up")
      /\ {subs, announced} \subseteq [U -> Values("mqtt_prefix") \cup {Unset}]
      /\ ha \in [unit : {0} \cup U, prefix : Values("mqtt_prefix") \cup {Unset}]
  BY Zenon DEF Typed, SessionOK, PrefixOrUnset
<1>4. rebooting \in BOOLEAN /\ queues \in BOOLEAN /\ changed \in BOOLEAN
  BY Zenon DEF Typed, FlagsOK
<1>. QED
  BY <1>1, <1>2, <1>3, <1>4, Zenon DEF TypeOK

THEOREM AlwaysTyped == Spec => []Typed
<1>1. Typed /\ [Next]_vars => Typed'
  BY SettingsAndWebNext, SessionNext, FlagsNext, Zenon DEF Typed
<1>. QED
  BY InitTyped, <1>1, PTL DEF Spec

(* Whatever requests and forms come, whenever boot, the web server and the  *)
(* session are interrupted, NVS has for every setting a value of its type   *)
(* that fits its width or its buffer, and so has every prefix that units    *)
(* are subscribed or announced under.                                       *)
THEOREM TypeCorrect == Spec => []TypeOK
BY AlwaysTyped, TypedImpliesTypeOK, PTL

------------------------------------------------------------------------------
(* What the API refuses.                                                    *)

(* The steps that do not store leave the settings alone.                    *)
LEMMA OnlyStoresStore ==
  ASSUME SettingsNext, ~BootSetting, ~ApiApply, ~FormStore
  PROVE  UNCHANGED <<nvs, typed>>
<1>1. CASE Boot
  BY <1>1 DEF Boot, BootLogging, BootLoggingFails, Restart
<1>2. CASE Serve
  BY <1>2 DEF Serve, ApiRefuse, ApiRestart, ApiReply, FormReply, Reboot, Restart
<1>3. CASE Users
  BY <1>3 DEF Users, ApiReceive, FormReceive, RebootPage
<1>4. CASE Failures
  BY <1>4 DEF Failures, PowerLoss, BootSettingFails, BootWifiFails, FormStoreFails, Restart
<1>. QED
  BY <1>1, <1>2, <1>3, <1>4 DEF SettingsNext

LEMMA OthersDoNotStore ==
  ASSUME SettingsOK, [Next]_vars, ~SettingsStep
  PROVE  UNCHANGED <<nvs, typed>>
<1>1. CASE Next
  <2>1. CASE Abort
    BY <2>1 DEF Abort, Restart
  <2>. QED
    BY <1>1, <2>1, OtherSteps
<1>2. CASE UNCHANGED vars
  BY <1>2 DEF vars, settingsVars
<1>. QED
  BY <1>1, <1>2

LEMMA RefusedNext ==
  ASSUME SettingsOK, WebOK, RefusedOnlyTyped, [Next]_vars
  PROVE  RefusedOnlyTyped'
<1>. SUFFICES ASSUME NEW k \in Keys, nvs'[k] # Unset, ~Handled(k, nvs'[k])
              PROVE  k \in typed'
  BY DEF RefusedOnlyTyped, Handled
<1>1. CASE SettingsStep /\ BootSetting
  <2>1. PICK key \in Keys :
          nvs' = [nvs EXCEPT ![key] = IF @ = Unset THEN Defaults[key] ELSE @]
    BY <1>1, BootSettingStores
  <2>2. nvs'[k] = nvs[k] \/ nvs'[k] = Defaults[k]
    BY <2>1 DEF SettingsOK
  <2>3. UNCHANGED typed
    BY <1>1 DEF BootSetting
  <2>4. nvs'[k] = nvs[k]
    BY <2>2, DefaultsAssumption
  <2>. QED
    BY <2>3, <2>4 DEF RefusedOnlyTyped
<1>2. CASE SettingsStep /\ ApiApply
  <2>1. PICK key, value : key = Item.key /\ value = Item.json.value
    OBVIOUS
  <2>2. IsJson(Item.json) /\ web.at = "api"
    BY <1>2, ItemTyped DEF ApiApply, ApiMore
  <2>3. /\ key \in Keys /\ Handled(key, value)
        /\ Stored(key, value) = value
    BY <1>2, <2>1, <2>2, ValidStored DEF ApiApply
  <2>4. nvs' = [nvs EXCEPT ![key] = value] /\ typed' = typed \ {key}
    BY <1>2, <2>1, <2>2, <2>3 DEF ApiApply, Store
  <2>5. CASE k = key
    BY <2>3, <2>4, <2>5 DEF SettingsOK
  <2>6. CASE k # key
    BY <2>4, <2>6 DEF SettingsOK, RefusedOnlyTyped
  <2>. QED
    BY <2>5, <2>6
<1>3. CASE SettingsStep /\ FormStore
  <2>1. PICK key, value : key = FormOrder[web.next] /\ value = web.fields[key]
    OBVIOUS
  <2>2. PICK stored : /\ nvs' = [nvs EXCEPT ![key] = stored]
                      /\ typed' = typed \cup {key}
    BY <1>3, <2>1 DEF FormStore, Store
  <2>3. CASE k = key
    BY <2>2, <2>3
  <2>4. CASE k # key
    BY <2>2, <2>4 DEF SettingsOK, RefusedOnlyTyped
  <2>. QED
    BY <2>3, <2>4
<1>4. CASE UNCHANGED <<nvs, typed>>
  BY <1>4 DEF RefusedOnlyTyped
<1>. QED
  BY <1>1, <1>2, <1>3, <1>4, OnlyStoresStore, OthersDoNotStore DEF SettingsStep

(* Whatever requests, failures and restarts come, NVS has a value that its  *)
(* handler would refuse only where the form has stored it last: with the    *)
(* defaults that the handlers let pass, the API never leaves one.           *)
THEOREM OnlyTheFormStoresRefused == Spec => []RefusedOnlyTyped
<1>1. Init => RefusedOnlyTyped
  BY DefaultsAssumption DEF Init, SettingsInit, RefusedOnlyTyped
<1>2. Typed /\ RefusedOnlyTyped /\ [Next]_vars => RefusedOnlyTyped'
  BY RefusedNext, Zenon DEF Typed
<1>. QED
  BY <1>1, <1>2, AlwaysTyped, PTL DEF Spec

------------------------------------------------------------------------------
(* What an answer of the API means.                                         *)

(* The settings change, while a request is in work, only by its own steps.  *)
LEMMA RequestKeeps ==
  ASSUME SettingsOK, WebOK, [Next]_vars, web'.at = "api",
         ~(SettingsStep /\ (ApiApply \/ ApiRefuse \/ \E r \in Requests : ApiReceive(r)))
  PROVE  UNCHANGED <<web, nvs>>
<1>0. Idle.at # "api"
  BY DEF Idle
<1>1. CASE SettingsStep
  <2>1. CASE Boot
    <3>1. ~Serving /\ ~Restart
      BY <1>0, <2>1 DEF Boot, BootSetting, BootLogging, BootLoggingFails, Serving, Restart
    <3>2. UNCHANGED web
      BY <2>1, <3>1 DEF Boot, BootSetting, BootLogging, BootLoggingFails
    <3>. QED
      BY <1>0, <3>1, <3>2 DEF WebOK
  <2>2. CASE Serve
    <3>1. CASE FormStore
      <4>1. web.at = "form" /\ web' = [web EXCEPT !.next = @ + 1]
        BY <3>1 DEF FormStore
      <4>. QED
        BY <4>1, WebAt, FormAdvance
    <3>. QED
      BY <1>0, <1>1, <2>2, <3>1 DEF Serve, ApiRestart, ApiReply, FormReply, Reboot, Restart
  <2>3. CASE Users
    <3>1. ASSUME NEW fields, NEW lost, FormReceive(fields, lost) PROVE FALSE
      BY <3>1 DEF FormReceive
    <3>. QED
      BY <1>1, <2>3, <3>1 DEF Users, RebootPage
  <2>4. CASE Failures
    BY <1>0, <2>4 DEF Failures, PowerLoss, BootSettingFails, BootWifiFails, FormStoreFails,
                      Restart
  <2>. QED
    BY <1>1, <2>1, <2>2, <2>3, <2>4 DEF SettingsStep, SettingsNext
<1>2. CASE Next /\ ~SettingsStep
  BY <1>0, <1>2, OtherSteps DEF Abort, Restart
<1>3. CASE UNCHANGED vars
  BY <1>3 DEF vars, settingsVars
<1>. QED
  BY <1>1, <1>2, <1>3

LEMMA StoredNext ==
  ASSUME SettingsOK, WebOK, StoredSoFar, [Next]_vars
  PROVE  StoredSoFar'
<1>. SUFFICES ASSUME web'.at = "api" PROVE StoredSoFar'
  BY DEF StoredSoFar
<1>1. CASE SettingsStep /\ ApiApply
  <2>1. /\ web \in ApiStates /\ web.at = "api"
        /\ web.next \in 1 .. Len(web.request.data) /\ IsJson(Item.json)
        /\ web.request \in Requests
    BY <1>1, ItemTyped DEF ApiApply, ApiMore
  <2>2. PICK data, n, key, value :
          /\ data = web.request.data /\ n = web.next
          /\ key = Item.key /\ value = Item.json.value
    OBVIOUS
  <2>3. /\ key \in Keys
        /\ Stored(key, value) = value
    BY <1>1, <2>1, <2>2, ValidStored DEF ApiApply
  <2>4. nvs' = [nvs EXCEPT ![key] = value]
    BY <1>1, <2>2, <2>3 DEF ApiApply, Store
  <2>5. /\ web'.request = web.request /\ web'.next = n + 1
        /\ web'.failed = web.failed
    BY <1>1, <2>1, <2>2, ApiAdvanceOnly DEF ApiApply
  <2>6. n \in 1 .. Len(data) /\ Len(data) \in Nat
        /\ data[n].key = key /\ data[n].json.value = value
    BY <2>1, <2>2, RequestsAssumption DEF Item
  <2>7. nvs'[key] = value /\ \A k \in Keys : k # key => nvs'[k] = nvs[k]
    BY <2>3, <2>4 DEF SettingsOK
  <2>8. ASSUME web.failed = 0, NEW i \in 1 .. n
        PROVE  \/ \E j \in i + 1 .. n : data[j].key = data[i].key
               \/ data[i].key \in Keys /\ nvs'[data[i].key] = data[i].json.value
    <3>1. CASE i = n
      BY <2>3, <2>6, <2>7, <3>1
    <3>2. CASE i # n /\ data[i].key = key
      BY <2>6, <3>2
    <3>3. CASE i # n /\ data[i].key # key
      <4>1. i \in 1 .. n - 1
        BY <2>6, <3>3
      <4>2. \/ \E j \in i + 1 .. n - 1 : data[j].key = data[i].key
            \/ data[i].key \in Keys /\ nvs[data[i].key] = data[i].json.value
        BY <2>1, <2>2, <2>8, <4>1 DEF StoredSoFar
      <4>3. \A j \in i + 1 .. n - 1 : j \in i + 1 .. n
        BY <2>6
      <4>. QED
        BY <2>7, <3>3, <4>2, <4>3
    <3>. QED
      BY <3>1, <3>2, <3>3
  <2>9. (n + 1) - 1 = n /\ n + 1 <= Len(data) + 1
    BY <2>6
  <2>. QED
    BY <2>2, <2>5, <2>8, <2>9 DEF StoredSoFar
<1>2. CASE SettingsStep /\ ApiRefuse
  <2>1. /\ web \in ApiStates /\ web.failed \in Nat
        /\ web.next \in 1 .. Len(web.request.data)
    BY <1>2, ItemTyped DEF ApiRefuse
  <2>2. web' = [web EXCEPT !.next = @ + 1, !.failed = web.failed + 1]
    BY <1>2 DEF ApiRefuse
  <2>3. web.failed + 1 \in Nat /\ web.failed + 1 # 0
    BY <2>1
  <2>4. /\ web'.request = web.request /\ web'.next = web.next + 1
        /\ web'.failed = web.failed + 1
    BY <2>1, <2>2, <2>3, ApiAdvance, Zenon
  <2>. QED
    BY <2>1, <2>3, <2>4 DEF StoredSoFar
<1>3. ASSUME NEW r \in Requests, ApiReceive(r)
      PROVE  StoredSoFar'
  <2>1. web'.next = 1 /\ web'.request = r
    BY <1>3 DEF ApiReceive, Api
  <2>2. Len(r.data) \in Nat
    BY RequestsAssumption
  <2>. QED
    BY <2>1, <2>2 DEF StoredSoFar
<1>4. CASE UNCHANGED <<web, nvs>>
  BY <1>4 DEF StoredSoFar
<1>. QED
  BY <1>1, <1>2, <1>3, <1>4, RequestKeeps

LEMMA StoredWhenDone ==
  ASSUME WebOK, StoredSoFar PROVE CountedMeansStored
<1>. SUFFICES ASSUME ApiDone, web.failed = 0, NEW i \in DOMAIN web.request.data
              PROVE  LET item == web.request.data[i]
                     IN  \/ \E j \in DOMAIN web.request.data :
                              j > i /\ web.request.data[j].key = item.key
                         \/ item.key \in Keys /\ nvs[item.key] = item.json.value
  BY DEF CountedMeansStored
<1>1. web \in ApiStates /\ web.at = "api"
  BY WebAt DEF ApiDone
<1>2. web.request \in Requests /\ web.next \in Nat
  BY <1>1 DEF ApiStates
<1>3. /\ Len(web.request.data) \in Nat
      /\ DOMAIN web.request.data = 1 .. Len(web.request.data)
  BY <1>2, RequestsAssumption
<1>4. web.next = Len(web.request.data) + 1
  <2>1. web.next > Len(web.request.data)
    BY Zenon DEF ApiDone
  <2>2. web.next <= Len(web.request.data) + 1
    BY <1>1, Zenon DEF StoredSoFar
  <2>. QED
    BY <1>2, <1>3, <2>1, <2>2
<1>5. web.next - 1 = Len(web.request.data)
  BY <1>3, <1>4
<1>6. \/ \E j \in i + 1 .. web.next - 1 : web.request.data[j].key = web.request.data[i].key
      \/ /\ web.request.data[i].key \in Keys
         /\ nvs[web.request.data[i].key] = web.request.data[i].json.value
  BY <1>1, <1>3, <1>5 DEF StoredSoFar
<1>. QED
  BY <1>3, <1>5, <1>6

(* An answer of the API that counts no failure means that every setting of  *)
(* the request is in NVS with the last value the request has for it: no     *)
(* restart or form can come between, and nothing that the API accepts is    *)
(* cut off when it is stored.                                               *)
THEOREM NoFailureMeansStored == Spec => []CountedMeansStored
<1>1. Init => StoredSoFar
  <2>1. Idle.at # "api"
    BY DEF Idle
  <2>. QED
    BY <2>1 DEF Init, SettingsInit, StoredSoFar
<1>2. Typed /\ StoredSoFar /\ [Next]_vars => StoredSoFar'
  BY StoredNext, Zenon DEF Typed
<1>3. Typed /\ StoredSoFar => CountedMeansStored
  BY StoredWhenDone, Zenon DEF Typed
<1>. QED
  BY <1>1, <1>2, <1>3, AlwaysTyped, PTL DEF Spec

------------------------------------------------------------------------------
(* What a command resolves to, and what a session has subscribed.           *)

LEMMA SubscribedResolves == Typed => CommandsResolve
<1>. SUFFICES ASSUME Typed, NEW u \in U, subs[u] # Unset
              PROVE  LET levels == subs[u].levels
                         topic == CommandTopic(levels, Units[u])
                     IN  /\ Splits(topic) <=> \A i \in DOMAIN levels : levels[i] # Empty
                         /\ Splits(topic) => \A v \in U :
                              ResolveKey(topic) = Units[v] <=>
                                \/ Len(levels) = 1 /\ v = u
                                \/ Len(levels) > 2 /\ levels[3] = Units[v]
  BY Zenon DEF CommandsResolve
<1>1. PICK levels, key : levels = subs[u].levels /\ key = Units[u]
  OBVIOUS
<1>2. levels \in Seq(Level) /\ Len(levels) \in Nat \ {0}
  <2>1. subs[u] \in Texts
    BY UsedRows DEF Typed, SessionOK, PrefixOrUnset
  <2>2. levels \in Seq(Level) /\ levels # << >>
    BY <1>1, <2>1 DEF Texts
  <2>. QED
    BY <2>2, EmptySeq
<1>3. key # Empty /\ key # "device_id"
  BY <1>1, UnitsType
<1>4. PICK topic : topic = CommandTopic(levels, key)
  OBVIOUS
<1>5. Splits(topic) <=> \A i \in DOMAIN levels : levels[i] # Empty
  BY <1>2, <1>3, <1>4, CommandTopicSplits
<1>6. ASSUME Splits(topic), NEW v \in U
      PROVE  ResolveKey(topic) = Units[v] <=>
               \/ Len(levels) = 1 /\ v = u
               \/ Len(levels) > 2 /\ levels[3] = Units[v]
  <2>1. ResolveKey(topic) = IF Len(levels) = 1 THEN key
                            ELSE IF Len(levels) = 2 THEN "device_id" ELSE levels[3]
    BY <1>2, <1>3, <1>4, <1>6, CommandTopicResolves
  <2>2. Units[v] = key <=> v = u
    BY <1>1, UnitsAssumption DEF U
  <2>3. Units[v] # "device_id"
    BY UnitsType
  <2>4. CASE Len(levels) = 1
    BY <2>1, <2>2, <2>4
  <2>5. CASE Len(levels) = 2
    BY <2>1, <2>3, <2>5
  <2>6. CASE Len(levels) > 2
    BY <2>1, <2>6
  <2>7. Len(levels) = 1 \/ Len(levels) = 2 \/ Len(levels) > 2
    <3>1. \A n \in Nat \ {0} : n = 1 \/ n = 2 \/ n > 2
      OBVIOUS
    <3>. QED
      BY <1>2, <3>1, Zenon
  <2>. QED
    BY <2>4, <2>5, <2>6, <2>7, Zenon
<1>. QED
  BY <1>1, <1>4, <1>5, <1>6

(* A command on a topic that the board has subscribed to passes the         *)
(* assertions of str_split exactly if its prefix has no empty level, and    *)
(* then resolves to its unit for a prefix of one level, and for a longer    *)
(* one to the unit, if any, that the third level names: for all units and   *)
(* all prefixes that the settings can hold.                                 *)
THEOREM EveryCommandResolves == Spec => []CommandsResolve
BY AlwaysTyped, SubscribedResolves, PTL

LEMMA PassedNext ==
  ASSUME SettingsOK, SessionOK, SessionOK', PassedComplete, [Next]_vars
  PROVE  PassedComplete'
<1>1. CASE MqttReset
  BY <1>1 DEF MqttReset, PassedComplete, Passed
<1>2. CASE SettingsStep /\ ~MqttReset
  <2>1. /\ UNCHANGED <<queues, client, ready, handler, subs, missed>>
        /\ ~changed' => ~changed /\ Mode' = Mode /\ Prefix' = Prefix
    BY <1>2 DEF SettingsStep, Mode, Prefix
  <2>. QED
    BY <2>1 DEF PassedComplete, Passed
<1>3. CASE UNCHANGED <<nvs, queues, session>>
  BY <1>3 DEF PassedComplete, Passed, Mode, Prefix, session
<1>4. CASE BootMqtt
  BY <1>4 DEF BootMqtt, PassedComplete, Passed, Mode, Prefix, session
<1>5. CASE client' # "up"
  BY <1>5 DEF PassedComplete, Passed
<1>6. CASE Connect
  <2>1. /\ handler' = NextUnit(0) /\ subs' = NoTopics /\ client' = "up"
        /\ missed' = {}
    BY <1>6 DEF Connect
  <2>2. \A u \in U : ~Passed(u)'
    BY <2>1, NextUnitType, UnitsType DEF Passed
  <2>3. \A u \in U : subs'[u] = Unset
    BY <2>1 DEF NoTopics
  <2>. QED
    BY <2>1, <2>2, <2>3 DEF PassedComplete
<1>7. CASE Subscribe
  <2>1. /\ handler \in U /\ client = "up" /\ client' = "up"
        /\ handler' = NextUnit(handler) /\ queues /\ queues'
    BY <1>7 DEF Subscribe, SessionOK
  <2>2. UNCHANGED <<nvs, ready, changed, missed>>
    BY <1>7 DEF Subscribe, settingsVars
  <2>3. subs' = [subs EXCEPT ![handler] = IF Mode # 0 /\ ready THEN Prefix ELSE @]
    BY <1>7 DEF Subscribe
  <2>4. \A u \in U : Passed(u)' <=> u <= handler
    BY <2>1, NextUnitType, UnitsType DEF Passed
  <2>5. \A u \in U : Passed(u) <=> u < handler
    BY <2>1, UnitsType DEF Passed
  <2>6. subs[handler] = Unset
    BY <2>1, <2>5, UnitsType DEF PassedComplete
  <2>7. ready => subs'[handler] = IF Mode = 0 THEN Unset ELSE Prefix
    BY <2>1, <2>3, <2>6 DEF SessionOK
  <2>7a. handler \notin missed
    BY <2>1, <2>5, UnitsType DEF PassedComplete
  <2>8. \A u \in U : u # handler => subs'[u] = subs[u]
    BY <2>3 DEF SessionOK
  <2>9. ASSUME NEW u \in U, ~Passed(u)' PROVE subs'[u] = Unset
    BY <2>1, <2>4, <2>5, <2>8, <2>9, UnitsType DEF PassedComplete
  <2>10. ASSUME ready', ~changed', NEW u \in U, Passed(u)'
         PROVE  subs'[u] = IF Mode' = 0 \/ u \in missed' THEN Unset ELSE Prefix'
    <3>1. Mode' = Mode /\ Prefix' = Prefix /\ ~changed /\ ready /\ missed' = missed
      BY <2>2, <2>10 DEF Mode, Prefix
    <3>2. u = handler \/ Passed(u)
      BY <2>1, <2>4, <2>5, <2>10, UnitsType
    <3>. QED
      BY <2>5, <2>7, <2>7a, <2>8, <3>1, <3>2 DEF PassedComplete
  <2>11. \A u \in missed' : Passed(u)'
    BY <2>1, <2>2, <2>4, <2>5, UnitsType DEF PassedComplete, SessionOK
  <2>. QED
    BY <2>1, <2>9, <2>10, <2>11 DEF PassedComplete
<1>7b. CASE SubscribeFails
  <2>1. /\ handler \in U /\ client = "up" /\ client' = "up"
        /\ handler' = NextUnit(handler) /\ queues /\ queues'
        /\ UNCHANGED <<nvs, ready, changed, subs>>
        /\ missed' = missed \cup {handler}
    BY <1>7b DEF SubscribeFails, SessionOK
  <2>2. \A u \in U : Passed(u)' <=> u <= handler
    BY <2>1, NextUnitType, UnitsType DEF Passed
  <2>3. \A u \in U : Passed(u) <=> u < handler
    BY <2>1, UnitsType DEF Passed
  <2>4. subs[handler] = Unset
    BY <2>1, <2>3, UnitsType DEF PassedComplete
  <2>5. ASSUME NEW u \in U, ~Passed(u)' PROVE subs'[u] = Unset
    BY <2>1, <2>2, <2>3, <2>5, UnitsType DEF PassedComplete
  <2>6. ASSUME ready', ~changed', NEW u \in U, Passed(u)'
        PROVE  subs'[u] = IF Mode' = 0 \/ u \in missed' THEN Unset ELSE Prefix'
    <3>1. Mode' = Mode /\ Prefix' = Prefix /\ ~changed /\ ready
      BY <2>1, <2>6 DEF Mode, Prefix
    <3>2. CASE u = handler
      BY <2>1, <2>4, <3>2
    <3>3. CASE u # handler
      <4>1. Passed(u)
        BY <2>1, <2>2, <2>3, <2>6, <3>3, UnitsType
      <4>2. u \in missed' <=> u \in missed
        BY <2>1, <3>3
      <4>. QED
        BY <2>1, <3>1, <4>1, <4>2 DEF PassedComplete
    <3>. QED
      BY <3>2, <3>3
  <2>7. \A u \in missed' : Passed(u)'
    BY <2>1, <2>2, <2>3, UnitsType DEF PassedComplete, SessionOK
  <2>. QED
    BY <2>1, <2>5, <2>6, <2>7 DEF PassedComplete
<1>7c. CASE WifiFlap
  <2>1. UNCHANGED <<nvs, queues, client, handler, subs, missed>> /\ ~ready'
    BY <1>7c DEF WifiFlap
  <2>. QED
    BY <2>1 DEF PassedComplete, Passed
<1>8. CASE NoQueue \/ \E u \in U : CommandAborts(u)
  BY <1>1, <1>8 DEF NoQueue, CommandAborts, Abort
<1>9. CASE BootClient
  BY <1>9, <1>3, <1>5 DEF BootClient, NewClient
<1>10. CASE BootEnd \/ HaPublish \/ HaFails \/ \E u \in U : HaRead(u)
  BY <1>3, <1>10 DEF BootEnd, BootConnected, BootTimeout, mqttVars, session, HaPublish,
                     HaFails, HaRead, settingsVars
<1>11. CASE Disconnect \/ MakeClient
  BY <1>5, <1>11 DEF Disconnect, MakeClient, NewClient
<1>12. CASE UNCHANGED vars
  BY <1>3, <1>12 DEF vars, settingsVars, mqttVars, session
<1>. QED
  BY <1>1, <1>2, <1>4, <1>6, <1>7, <1>7b, <1>7c, <1>8, <1>9, <1>10, <1>11, <1>12
     DEF Next, Network, Client, Ha

LEMMA PassedWhenDone ==
  ASSUME PassedComplete PROVE SessionIsComplete
BY DEF PassedComplete, Passed, SessionIsComplete

(* A session whose handler is done has the queues for commands; and while   *)
(* the bits last, exactly the units whose own subscription did not fail are *)
(* subscribed in it under the prefix that is set, or none with MQTT         *)
(* switched off, unless the session has seen prefix or mode change: for any *)
(* number of units, with changes, failures and outages between any two      *)
(* subscriptions.                                                           *)
THEOREM SessionsAreComplete == Spec => []SessionIsComplete
<1>1. Init => PassedComplete
  BY DEF Init, MqttInit, PassedComplete, Passed
<1>2. Typed /\ Typed' /\ PassedComplete /\ [Next]_vars => PassedComplete'
  BY PassedNext, Zenon DEF Typed
<1>3. PassedComplete => SessionIsComplete
  BY PassedWhenDone
<1>. QED
  BY <1>1, <1>2, <1>3, AlwaysTyped, PTL DEF Spec
==============================================================================
