--------------------------- MODULE WorkerLoopProofs ---------------------------
(* Theorems about WorkerLoop for every list of names, every setting and    *)
(* any number of goroutines.                                               *)
EXTENDS WorkerLoop, FiniteSetTheorems, SequenceTheorems, WellFoundedInduction, TLAPS

(* What weightedQueueNames returns is shown from a first n for which it     *)
(* would not be so: there is none, since n - 1 comes before it.             *)

\* A set of numbers has a least one.
LEMMA Least ==
  ASSUME NEW T \in SUBSET Nat, T # {}
  PROVE  \E n \in T : \A m \in T : n <= m
<1>1. PICK n \in T : \A m \in T : <<m, n>> \notin OpToRel(<, Nat)
  BY NatLessThanWellFounded, WFMin
<1>2. \A m \in T : ~(m < n)
  BY <1>1 DEF OpToRel
<1> QED BY <1>2

Weight(queues, name) == IF name \in DOMAIN queues THEN queues[name] ELSE 0
SlotsOf(queues, n) == [k \in 1..Weight(queues, Names[n]) |-> Names[n]]

\* f gives the slots of the first names, up to k of them.
SlotsUpTo(queues, f, k) ==
  /\ f \in [0..k -> Seq(Queues)]
  /\ f[0] = <<>>
  /\ \A n \in 1..k : f[n] = f[n - 1] \o SlotsOf(queues, n)

LEMMA NamesType == Len(Names) \in Nat \ {0} /\ \A n \in 1..Len(Names) : Names[n] \in Queues
BY NamesAssumption DEF Queues

LEMMA SlotsOfType ==
  ASSUME NEW queues, \A name \in DOMAIN queues : queues[name] \in Nat,
         NEW n \in 1..Len(Names)
  PROVE  SlotsOf(queues, n) \in Seq(Queues) /\ Len(SlotsOf(queues, n)) = Weight(queues, Names[n])
<1>1. Weight(queues, Names[n]) \in Nat /\ Names[n] \in Queues
  BY NamesType DEF Weight
<1> HIDE DEF Weight
<1> QED BY <1>1 DEF SlotsOf

LEMMA SlotsExist ==
  ASSUME NEW queues, \A name \in DOMAIN queues : queues[name] \in Nat
  PROVE  \A k \in 0..Len(Names) : \E f : SlotsUpTo(queues, f, k)
<1> DEFINE T == {k \in 0..Len(Names) : ~\E f : SlotsUpTo(queues, f, k)}
<1>1. SUFFICES ASSUME T # {} PROVE FALSE
  OBVIOUS
<1>2. Len(Names) \in Nat
  BY NamesType
<1>3. PICK k \in T : \A m \in T : k <= m
  <2>1. T \in SUBSET Nat
    BY <1>2
  <2> HIDE DEF T
  <2> QED BY <1>1, <2>1, Least
<1>4. CASE k = 0
  <2>1. SlotsUpTo(queues, [n \in 0..0 |-> <<>>], 0)
    BY DEF SlotsUpTo
  <2> QED BY <1>4, <2>1
<1>5. CASE k > 0
  <2>1. k - 1 \in 0..Len(Names) /\ k \in 1..Len(Names) /\ ~(k <= k - 1)
    BY <1>2, <1>5
  <2>2. PICK f : SlotsUpTo(queues, f, k - 1)
    BY <1>3, <2>1
  <2> DEFINE g == [n \in 0..k |-> IF n = k THEN f[k - 1] \o SlotsOf(queues, k) ELSE f[n]]
  <2>3. f[k - 1] \in Seq(Queues) /\ SlotsOf(queues, k) \in Seq(Queues)
    <3>1. k - 1 \in 0..(k - 1)
      BY <1>2, <1>5
    <3> QED BY <2>1, <2>2, <3>1, SlotsOfType DEF SlotsUpTo
  <2>4. f[k - 1] \o SlotsOf(queues, k) \in Seq(Queues)
    BY <2>3
  <2>5. g \in [0..k -> Seq(Queues)]
    BY <2>1, <2>2, <2>4 DEF SlotsUpTo
  <2>6. g[0] = <<>>
    BY <2>1, <2>2 DEF SlotsUpTo
  <2>7. ASSUME NEW n \in 1..k PROVE g[n] = g[n - 1] \o SlotsOf(queues, n)
    <3>1. /\ n \in 0..k /\ n - 1 \in 0..k /\ n - 1 # k /\ k \in Nat
          /\ (n # k => n \in 1..(k - 1))
      BY <1>2, <2>1
    <3>2. g[n - 1] = f[n - 1] /\ g[n] = IF n = k THEN f[k - 1] \o SlotsOf(queues, k) ELSE f[n]
      BY <3>1
    <3>3. n # k => f[n] = f[n - 1] \o SlotsOf(queues, n)
      BY <2>2, <3>1 DEF SlotsUpTo
    <3> HIDE DEF g
    <3> QED BY <3>1, <3>2, <3>3
  <2>8. SlotsUpTo(queues, g, k)
    <3> HIDE DEF g
    <3> QED BY <2>5, <2>6, <2>7 DEF SlotsUpTo
  <2> QED BY <2>8
<1> QED BY <1>2, <1>3, <1>4, <1>5

\* weightedQueueNames, as a step for each name.
LEMMA SlotsDefined ==
  ASSUME NEW queues, \A name \in DOMAIN queues : queues[name] \in Nat
  PROVE  \E f : SlotsUpTo(queues, f, Len(Names)) /\ weightedQueueNames(queues) = f[Len(Names)]
<1> DEFINE Slotted(f) == [n \in 0..Len(Names) |->
                        IF n = 0 THEN <<>> ELSE f[n - 1] \o SlotsOf(queues, n)]
           weighted == CHOOSE f : f = Slotted(f)
<1>1. PICK f : SlotsUpTo(queues, f, Len(Names))
  <2>1. Len(Names) \in 0..Len(Names)
    BY NamesType
  <2> QED BY <2>1, SlotsExist
<1>2. f = Slotted(f)
  BY <1>1, NamesType DEF SlotsUpTo
<1>3. weighted = Slotted(weighted)
  <2> HIDE DEF Slotted
  <2> QED BY <1>2
<1>4. weightedQueueNames(queues) = weighted[Len(Names)]
  BY DEF weightedQueueNames, SlotsOf, Weight
<1> HIDE DEF weighted
<1>5. f[Len(Names)] = weighted[Len(Names)]
  <2> DEFINE T == {n \in 0..Len(Names) : f[n] # weighted[n]}
  <2>1. SUFFICES ASSUME T # {} PROVE FALSE
    BY NamesType
  <2>2. PICK n \in T : \A m \in T : n <= m
    <3>1. T \in SUBSET Nat
      BY NamesType
    <3> HIDE DEF T
    <3> QED BY <2>1, <3>1, Least
  <2>3. f[n] = Slotted(f)[n] /\ weighted[n] = Slotted(weighted)[n]
    BY <1>2, <1>3
  <2>4. n # 0 => n - 1 \in 0..Len(Names) /\ n - 1 \notin T
    BY <2>2, NamesType
  <2>5. n # 0 => f[n - 1] = weighted[n - 1]
    BY <2>4
  <2> QED BY <2>2, <2>3, <2>5
<1> QED BY <1>1, <1>4, <1>5

-----------------------------------------------------------------------------
(* What the sequence holds.                                                *)

Positions(s, name) == {k \in 1..Len(s) : s[k] = name}

LEMMA Appended ==
  ASSUME NEW s \in Seq(Queues), NEW queues, \A name \in DOMAIN queues : queues[name] \in Nat,
         NEW n \in 1..Len(Names)
  PROVE  \A name : Positions(s \o SlotsOf(queues, n), name) =
           IF name = Names[n]
           THEN Positions(s, name) \cup (Len(s) + 1)..(Len(s) + Weight(queues, Names[n]))
           ELSE Positions(s, name)
<1> DEFINE t == SlotsOf(queues, n)
           w == Weight(queues, Names[n])
<1>1. t \in Seq(Queues) /\ Len(t) = w /\ w \in Nat
  BY SlotsOfType, NamesType DEF Weight
<1>2. \A k \in 1..w : t[k] = Names[n]
  BY DEF SlotsOf
<1> HIDE DEF t, w
<1>3. Len(s \o t) = Len(s) + w /\ Len(s) \in Nat
  BY <1>1
<1>4. \A k \in 1..(Len(s) + w) : (s \o t)[k] = IF k <= Len(s) THEN s[k] ELSE Names[n]
  BY <1>1, <1>2, <1>3
<1>5. \A name : Positions(s \o t, name) =
        IF name = Names[n] THEN Positions(s, name) \cup (Len(s) + 1)..(Len(s) + w)
        ELSE Positions(s, name)
  BY <1>1, <1>3, <1>4 DEF Positions
<1> QED BY <1>5 DEF t, w

\* The slots of the first n names: for each of them a run as long as its weight,
\* for other names none.
LEMMA Runs1 ==
  ASSUME NEW queues, \A name \in DOMAIN queues : queues[name] \in Nat,
         NEW f, SlotsUpTo(queues, f, Len(Names))
  PROVE  \A n \in 0..Len(Names) :
           /\ \A i \in 1..n : \E a \in Nat :
                Positions(f[n], Names[i]) = (a + 1)..(a + Weight(queues, Names[i]))
           /\ \A name : (\A i \in 1..n : name # Names[i]) => Positions(f[n], name) = {}
<1> DEFINE Run(n, i) == \E a \in Nat :
             Positions(f[n], Names[i]) = (a + 1)..(a + Weight(queues, Names[i]))
           None(n, name) == Positions(f[n], name) = {}
           Good(n) == /\ \A i \in 1..n : Run(n, i)
                      /\ \A name : (\A i \in 1..n : name # Names[i]) => None(n, name)
           T == {n \in 0..Len(Names) : ~Good(n)}
<1>0. Len(Names) \in Nat
  BY NamesType
<1>1. SUFFICES ASSUME T # {} PROVE FALSE
  OBVIOUS
<1>2. PICK n \in T : \A m \in T : n <= m
  <2>1. T \in SUBSET Nat
    BY <1>0
  <2> HIDE DEF T
  <2> QED BY <1>1, <2>1, Least
<1>3. n \in 0..Len(Names) /\ ~Good(n)
  OBVIOUS
<1>4. CASE n = 0
  <2>1. Len(f[0]) = 0
    BY DEF SlotsUpTo
  <2>2. \A name : None(0, name)
    BY <2>1 DEF Positions
  <2> QED BY <1>3, <1>4, <2>2
<1>5. CASE n # 0
  <2>1. n - 1 \in 0..Len(Names) /\ n \in 1..Len(Names) /\ ~(n <= n - 1) /\ n \in Nat
    BY <1>0, <1>3, <1>5
  <2>2. Good(n - 1)
    BY <1>2, <2>1
  <2> HIDE DEF T, Good, Run, None
  <2>3. f[n - 1] \in Seq(Queues) /\ f[n] = f[n - 1] \o SlotsOf(queues, n)
    BY <2>1 DEF SlotsUpTo
  <2> DEFINE s == f[n - 1]
             w == Weight(queues, Names[n])
  <2>4. \A name : Positions(f[n], name) =
          IF name = Names[n] THEN Positions(s, name) \cup (Len(s) + 1)..(Len(s) + w)
          ELSE Positions(s, name)
    <3>1. \A name : Positions(s \o SlotsOf(queues, n), name) =
            IF name = Names[n] THEN Positions(s, name) \cup (Len(s) + 1)..(Len(s) + w)
            ELSE Positions(s, name)
      <4>1. s \in Seq(Queues) /\ n \in 1..Len(Names)
        BY <2>1, <2>3
      <4> HIDE DEF s
      <4> QED BY ONLY <4>1, \A name \in DOMAIN queues : queues[name] \in Nat, Appended
    <3> QED BY <2>3, <3>1
  <2>5. Len(s) \in Nat
    BY <2>3
  <2>6. \A i \in 1..(n - 1) : Names[i] # Names[n]
    <3>1. \A i \in 1..(n - 1) : i \in DOMAIN Names /\ n \in DOMAIN Names /\ i # n
      <4>1. DOMAIN Names = 1..Len(Names)
        BY NamesAssumption
      <4> QED BY <1>0, <2>1, <4>1
    <3> QED BY <3>1, NamesAssumption DEF IsInjective
  <2>7. ASSUME NEW i \in 1..n PROVE Run(n, i)
    <3>1. CASE i = n
      <4>1. Positions(s, Names[n]) = {}
        BY <2>2, <2>6 DEF Good, None
      <4> QED BY <2>4, <2>5, <3>1, <4>1 DEF Run
    <3>2. CASE i # n
      <4>1. i \in 1..(n - 1)
        BY <2>1, <3>2
      <4>2. Run(n - 1, i) /\ Names[i] # Names[n]
        BY <2>2, <2>6, <4>1 DEF Good
      <4> QED BY <2>4, <4>2 DEF Run
    <3> QED BY <3>1, <3>2
  <2>8. ASSUME NEW name, \A i \in 1..n : name # Names[i] PROVE None(n, name)
    <3>1. name # Names[n] /\ \A i \in 1..(n - 1) : name # Names[i]
      BY <2>1, <2>8
    <3>2. None(n - 1, name)
      BY <2>2, <3>1 DEF Good
    <3> QED BY <2>4, <3>1, <3>2 DEF None
  <2> QED BY <1>3, <2>7, <2>8 DEF Good
<1> QED BY <1>4, <1>5

\* A configured name has as many slots as its weight, another name none.
LEMMA SlotsWeighted ==
  ASSUME NEW queues, DOMAIN queues \subseteq Queues,
         \A name \in DOMAIN queues : queues[name] \in Nat
  PROVE  LET w == weightedQueueNames(queues)
         IN /\ w \in Seq(Queues)
            /\ \A name \in DOMAIN queues : Cardinality(Positions(w, name)) = queues[name]
            /\ \A name : name \notin DOMAIN queues => Positions(w, name) = {}
<1> DEFINE w == weightedQueueNames(queues)
<1>1. PICK f : SlotsUpTo(queues, f, Len(Names)) /\ w = f[Len(Names)]
  BY SlotsDefined
<1>2. Len(Names) \in 0..Len(Names)
  BY NamesType
<1>3. w \in Seq(Queues)
  BY <1>1, <1>2 DEF SlotsUpTo
<1>4. /\ \A i \in 1..Len(Names) : \E a \in Nat :
           Positions(w, Names[i]) = (a + 1)..(a + Weight(queues, Names[i]))
      /\ \A name : (\A i \in 1..Len(Names) : name # Names[i]) => Positions(w, name) = {}
  <2>1. /\ \A i \in 1..Len(Names) : \E a \in Nat :
             Positions(f[Len(Names)], Names[i]) = (a + 1)..(a + Weight(queues, Names[i]))
        /\ \A name : (\A i \in 1..Len(Names) : name # Names[i]) =>
             Positions(f[Len(Names)], name) = {}
    BY <1>1, <1>2, Runs1
  <2> QED BY <1>1, <2>1
<1> HIDE DEF w
<1>5. ASSUME NEW name \in DOMAIN queues
      PROVE  Cardinality(Positions(w, name)) = queues[name]
  <2>1. PICK i \in 1..Len(Names) : name = Names[i]
    BY NamesAssumption DEF Queues, Range
  <2>2. PICK a \in Nat : Positions(w, name) = (a + 1)..(a + queues[name])
    BY <1>4, <2>1 DEF Weight
  <2> DEFINE n == queues[name]
  <2>3. n \in Nat
    OBVIOUS
  <2> HIDE DEF n
  <2>4. a + 1 \in Int /\ a + n \in Int
    BY <2>3
  <2>5. Cardinality((a + 1)..(a + n)) = IF a + 1 > a + n THEN 0 ELSE (a + n) - (a + 1) + 1
    BY <2>4, FS_Interval
  <2>6. Cardinality((a + 1)..(a + n)) = n
    BY <2>3, <2>5
  <2> QED BY <2>2, <2>6 DEF n
<1>6. ASSUME NEW name, name \notin DOMAIN queues
      PROVE  Positions(w, name) = {}
  <2>1. ASSUME NEW i \in 1..Len(Names), name = Names[i]
        PROVE  Positions(w, name) = {}
    <3>1. Weight(queues, Names[i]) = 0
      BY <1>6, <2>1 DEF Weight
    <3>2. PICK a \in Nat : Positions(w, Names[i]) = (a + 1)..(a + 0)
      BY <1>4, <3>1
    <3> QED BY <2>1, <3>2
  <2> QED BY <1>4, <2>1
<1> QED BY <1>3, <1>5, <1>6 DEF w

-----------------------------------------------------------------------------
(* What loads fits: there is a slot, a goroutine and a pause.              *)

LEMMA LoadedFit ==
  ASSUME NEW c \in Loaded
  PROVE  /\ DOMAIN c.queues \subseteq Queues /\ DOMAIN c.queues # {}
         /\ \A name \in DOMAIN c.queues : c.queues[name] \in Nat \ {0}
         /\ c.concurrency \in Nat \ {0} /\ c.poll \in Nat \ {0}
<1>1. PICK given \in Given : c = normalizeQueueConfig(given)
  BY DEF Loaded
<1>2. validateConfig(c)
  BY DEF Loaded
<1>3. PICK names \in SUBSET Range(Names) : given.queues \in [names -> Weights]
  BY DEF Given
<1>4. given.concurrency \in Int /\ given.poll \in Int
  BY SettingsAssumption DEF Given
<1>5. /\ c.queues = given.queues
      /\ c.concurrency = IF given.concurrency <= 0 THEN 1 ELSE given.concurrency
      /\ c.poll = IF given.poll <= 0 THEN 500 ELSE given.poll
  BY <1>1 DEF normalizeQueueConfig, Given
<1>6. \A name \in DOMAIN c.queues : c.queues[name] \in Int
  BY <1>3, <1>5, SettingsAssumption
<1> QED BY <1>2, <1>3, <1>4, <1>5, <1>6 DEF validateConfig, Queues

\* The configured queues are the served ones.
LEMMA Rotation ==
  ASSUME cfg \in Loaded
  PROVE  /\ weightedQueues \in Seq(Queues) /\ Slots \in Nat \ {0}
         /\ Served = DOMAIN cfg.queues
         /\ \A k \in 0..(Slots - 1) : weightedQueues[k + 1] \in Served
         /\ \A q \in Served : \E k \in 0..(Slots - 1) : weightedQueues[k + 1] = q
<1> DEFINE w == weightedQueues
<1>1. /\ w \in Seq(Queues)
      /\ \A name \in DOMAIN cfg.queues : Cardinality(Positions(w, name)) = cfg.queues[name]
      /\ \A name : name \notin DOMAIN cfg.queues => Positions(w, name) = {}
  BY LoadedFit, SlotsWeighted DEF weightedQueues
<1>2. Len(w) \in Nat /\ DOMAIN w = 1..Len(w)
  BY <1>1
<1> HIDE DEF w
<1>3. \A name \in DOMAIN cfg.queues : Positions(w, name) # {}
  <2>1. Cardinality({}) = 0
    BY FS_EmptySet
  <2> QED BY <1>1, <2>1, LoadedFit
<1>4. Range(w) = DOMAIN cfg.queues
  BY <1>1, <1>2, <1>3 DEF Range, Positions
<1>5. Len(w) # 0
  BY <1>2, <1>3, LoadedFit DEF Positions
<1>6. \A k \in 0..(Len(w) - 1) : k + 1 \in DOMAIN w
  BY <1>2
<1>7. \A i \in DOMAIN w : i - 1 \in 0..(Len(w) - 1) /\ (i - 1) + 1 = i
  BY <1>2
<1>8. \A q \in Range(w) : \E k \in 0..(Len(w) - 1) : w[k + 1] = q
  <2>1. ASSUME NEW i \in DOMAIN w PROVE \E k \in 0..(Len(w) - 1) : w[k + 1] = w[i]
    BY <1>7
  <2> QED BY <2>1 DEF Range
<1> QED BY <1>1, <1>2, <1>4, <1>5, <1>6, <1>8 DEF Slots, Served, Range, w

LEMMA Wraps ==
  ASSUME NEW n \in Nat \ {0}, NEW i \in 0..(n - 1)
  PROVE  (i + 1) % n = IF i + 1 = n THEN 0 ELSE i + 1
OBVIOUS

LEMMA Remainder ==
  ASSUME NEW n \in Nat \ {0}, NEW i \in Nat
  PROVE  i % n \in 0..(n - 1)
OBVIOUS

-----------------------------------------------------------------------------
(* PollsWhenAllEmpty is not inductive: that a whole round of slots was      *)
(* empty says nothing unless each of them was tried since the last job, and *)
(* so is the count BoundedIdling is about.                                  *)

\* How many attempts ago a goroutine about to try slot i tried slot j.
Ago(i, j) == IF j < i THEN i - j ELSE i + Slots - j

\* The slots its count of empty ones goes back to were found empty.
Looked(g) ==
  \A j \in 0..(Slots - 1) : Ago(index[g], j) <= empty[g] => weightedQueues[j + 1] \in found[g]

Walk(g) ==
  /\ Looked(g)
  /\ place[g] \in {"loop", "process"} => idle[g] = empty[g]
  /\ place[g] \in {"backoff", "poll"} => empty[g] = 0
  /\ place[g] = "poll" => found[g] = Served

RotationInv == TypeOK /\ \A g \in Goroutines : Walk(g)

LEMMA InitRotation == Init => RotationInv
<1> SUFFICES ASSUME Init PROVE RotationInv
  OBVIOUS
<1>1. /\ cfg \in Loaded /\ Slots \in Nat \ {0} /\ cfg.concurrency \in Nat \ {0}
  BY Rotation, LoadedFit DEF Init
<1>2. \A g \in Goroutines : g \in Nat
  BY <1>1 DEF Goroutines
<1>3. index \in [Goroutines -> 0..(Slots - 1)]
  <2>1. index = [g \in Goroutines |-> g % Slots]
    BY <1>1 DEF Init
  <2> QED BY <1>1, <1>2, <2>1, Remainder
<1>4. place = [g \in Goroutines |-> "loop"]
  BY <1>1 DEF Init
<1>5. TypeOK
  <2>1. 0 \in 0..(Slots - 1) /\ 0 \in 0..MaxErrors
    BY <1>1, BoundAssumption
  <2> QED BY <1>1, <1>3, <1>4, <2>1 DEF TypeOK, Init
<1>6. ASSUME NEW g \in Goroutines PROVE Walk(g)
  <2>1. empty[g] = 0 /\ idle[g] = 0 /\ place[g] = "loop"
    BY <1>4 DEF Init
  <2>2. \A j \in 0..(Slots - 1) : Ago(index[g], j) > 0
    BY <1>1, <1>3 DEF Ago
  <2>3. Looked(g)
    BY <1>1, <1>3, <2>1, <2>2 DEF Looked, Ago
  <2> QED BY <2>1, <2>3 DEF Walk
<1> QED BY <1>5, <1>6 DEF RotationInv

\* The settings do not change, nor what is computed from them.
LEMMA Settled ==
  ASSUME cfg' = cfg
  PROVE  /\ Goroutines' = Goroutines /\ weightedQueues' = weightedQueues
         /\ Slots' = Slots /\ Served' = Served
BY DEF Goroutines, weightedQueues, Slots, Served

\* A step that changes what at most the goroutine g keeps.
LEMMA OneWalks ==
  ASSUME RotationInv, TypeOK', cfg' = cfg, NEW g \in Goroutines,
         \A h \in Goroutines \ {g} : /\ place'[h] = place[h] /\ index'[h] = index[h]
                                     /\ empty'[h] = empty[h] /\ found'[h] = found[h]
                                     /\ idle'[h] = idle[h],
         Walk(g)'
  PROVE  RotationInv'
<1>1. ASSUME NEW h \in Goroutines, h # g PROVE Walk(h)'
  <2>1. Walk(h)
    BY DEF RotationInv
  <2> QED BY <1>1, <2>1, Settled DEF Walk, Looked, Ago
<1> QED BY <1>1, Settled DEF RotationInv

\* A step that leaves the counts of all of them alone.
LEMMA NoneWalks ==
  ASSUME RotationInv, TypeOK', UNCHANGED <<cfg, place, local>>
  PROVE  RotationInv'
<1>1. ASSUME NEW h \in Goroutines PROVE Walk(h)'
  <2>1. Walk(h)
    BY DEF RotationInv
  <2> QED BY <2>1, Settled DEF Walk, Looked, Ago, local
<1> QED BY <1>1, Settled DEF RotationInv

LEMMA OutsideStep ==
  ASSUME RotationInv, (\E q \in Queues : Arrive(q) \/ Depart(q)) \/ Cancel \/ UNCHANGED vars
  PROVE  RotationInv'
<1>1. UNCHANGED <<cfg, place, local, errors>> /\ ready' \subseteq Queues /\ stopped' \in BOOLEAN
  BY DEF RotationInv, TypeOK, Arrive, Depart, Cancel, vars
<1>2. TypeOK'
  BY <1>1, Settled DEF RotationInv, TypeOK, local
<1> QED BY <1>1, <1>2, NoneWalks

\* A count of 0 goes back to no slot.
LEMMA NothingLooked ==
  ASSUME cfg \in Loaded, cfg' = cfg, NEW g \in Goroutines, empty'[g] = 0,
         index'[g] \in 0..(Slots - 1)
  PROVE  Looked(g)'
<1>1. Slots \in Nat \ {0} /\ Slots' = Slots
  BY Rotation, Settled
<1>2. \A j \in 0..(Slots - 1) : ~(Ago(index'[g], j) <= 0)
  BY <1>1 DEF Ago
<1>3. \A j \in 0..(Slots - 1) : Ago(index[g], j)' = Ago(index'[g], j)
  BY <1>1 DEF Ago
<1> QED BY <1>1, <1>2, <1>3 DEF Looked

LEMMA TakeStep ==
  ASSUME RotationInv, NEW g \in Goroutines, Take(g)
  PROVE  RotationInv'
<1>1. TypeOK /\ cfg' = cfg /\ Slots \in Nat \ {0} /\ cfg \in Loaded
  BY Rotation DEF RotationInv, TypeOK, Take
<1>2. /\ index[g] \in 0..(Slots - 1)
      /\ index' = [index EXCEPT ![g] = (index[g] + 1) % Slots]
      /\ empty' = [empty EXCEPT ![g] = 0] /\ idle' = [idle EXCEPT ![g] = 0]
      /\ found' = [found EXCEPT ![g] = {}] /\ place' = [place EXCEPT ![g] = "process"]
      /\ ready' \subseteq Queues /\ stopped' = stopped /\ errors' = errors
  BY <1>1 DEF Take, Advance, Next1, AfterJob, TypeOK
<1>3. (index[g] + 1) % Slots \in 0..(Slots - 1) /\ 0 \in 0..(Slots - 1)
  <2> DEFINE i == index[g] + 1
  <2>1. i \in Nat
    BY <1>1, <1>2
  <2> HIDE DEF i
  <2>2. i % Slots \in 0..(Slots - 1) /\ 0 \in 0..(Slots - 1)
    BY <1>1, <2>1, Remainder
  <2> QED BY <2>2 DEF i
<1>4. TypeOK'
  BY <1>1, <1>2, <1>3, Settled DEF TypeOK
<1>5. Walk(g)'
  BY <1>1, <1>2, <1>3, NothingLooked DEF Walk, TypeOK
<1>6. \A h \in Goroutines \ {g} : /\ place'[h] = place[h] /\ index'[h] = index[h]
                                  /\ empty'[h] = empty[h] /\ found'[h] = found[h]
                                  /\ idle'[h] = idle[h]
  BY <1>1, <1>2 DEF TypeOK
<1> QED BY <1>1, <1>4, <1>5, <1>6, OneWalks

\* One more empty slot, and the ones before are one attempt further away.
LEMMA OneMoreLooked ==
  ASSUME TypeOK, NEW g \in Goroutines, Looked(g), NEW j \in 0..(Slots - 1),
         Ago((index[g] + 1) % Slots, j) <= empty[g] + 1
  PROVE  weightedQueues[j + 1] \in found[g] \cup {QueueAt(g)}
<1>1. Slots \in Nat \ {0} /\ index[g] \in 0..(Slots - 1) /\ empty[g] \in Nat
  BY Rotation DEF TypeOK
<1>2. (index[g] + 1) % Slots = IF index[g] + 1 = Slots THEN 0 ELSE index[g] + 1
  BY <1>1, Wraps
<1>3. CASE j = index[g]
  BY <1>3 DEF QueueAt
<1>4. CASE j # index[g]
  <2>1. Ago(IF index[g] + 1 = Slots THEN 0 ELSE index[g] + 1, j) <= empty[g] + 1
    BY <1>2
  <2>2. j \in Nat /\ j < Slots
    BY <1>1
  <2>3. Ago(index[g], j) <= empty[g]
    <3>1. CASE index[g] + 1 = Slots
      BY <1>1, <1>4, <2>1, <2>2, <3>1 DEF Ago
    <3>2. CASE index[g] + 1 # Slots
      BY <1>1, <1>4, <2>1, <2>2, <3>2 DEF Ago
    <3> QED BY <3>1, <3>2
  <2> QED BY <2>3 DEF Looked
<1> QED BY <1>3, <1>4

\* Nothing in reserve: after a whole round every served queue was empty.
LEMMA MissStep ==
  ASSUME RotationInv, NEW g \in Goroutines, NEW failed \in BOOLEAN, Miss(g, failed)
  PROVE  RotationInv'
<1> DEFINE i == (index[g] + 1) % Slots
           sleeps == failed \/ empty[g] + 1 >= Slots
           q == QueueAt(g)
<1>1. /\ TypeOK /\ Walk(g) /\ cfg' = cfg /\ cfg \in Loaded /\ Slots \in Nat \ {0}
      /\ index[g] \in 0..(Slots - 1) /\ empty[g] \in 0..(Slots - 1) /\ idle[g] \in Nat
      /\ found[g] \subseteq Served
  BY Rotation DEF RotationInv, TypeOK, Miss
<1>2. /\ index' = [index EXCEPT ![g] = i]
      /\ found' = [found EXCEPT ![g] = IF failed THEN found[g] ELSE found[g] \cup {q}]
      /\ idle' = [idle EXCEPT ![g] = idle[g] + 1]
      /\ empty' = [empty EXCEPT ![g] = IF sleeps THEN 0 ELSE empty[g] + 1]
      /\ place' = [place EXCEPT ![g] =
                    IF sleeps THEN IF failed THEN "backoff" ELSE "poll" ELSE "loop"]
      /\ place[g] = "loop" /\ ready' = ready /\ stopped' = stopped /\ errors' \in 0..MaxErrors
  BY <1>1, BoundAssumption DEF Miss, Advance, Next1, Sleeps, TypeOK
<1>3. i \in 0..(Slots - 1) /\ 0 \in 0..(Slots - 1)
  <2>1. index[g] + 1 \in Nat
    BY <1>1
  <2> QED BY <1>1, <2>1, Remainder
<1>4. q \in Served
  BY <1>1, Rotation DEF QueueAt
<1>5. \A j \in 0..(Slots - 1) :
        Ago(i, j) <= empty[g] + 1 => weightedQueues[j + 1] \in found[g] \cup {q}
  BY <1>1, OneMoreLooked DEF Walk
<1> HIDE DEF i, q
<1>6. TypeOK'
  <2> DEFINE e == IF sleeps THEN 0 ELSE empty[g] + 1
             f == IF failed THEN found[g] ELSE found[g] \cup {q}
             p == IF sleeps THEN IF failed THEN "backoff" ELSE "poll" ELSE "loop"
  <2>1. e \in 0..(Slots - 1) /\ f \in SUBSET Served
    BY <1>1, <1>3, <1>4
  <2>2. p \in {"loop", "process", "backoff", "poll", "returned"} /\ idle[g] + 1 \in Nat
    BY <1>1
  <2>3. /\ found' = [found EXCEPT ![g] = f] /\ empty' = [empty EXCEPT ![g] = e]
        /\ place' = [place EXCEPT ![g] = p]
    BY <1>2
  <2> HIDE DEF e, f, p
  <2>4. /\ index' \in [Goroutines -> 0..(Slots - 1)] /\ empty' \in [Goroutines -> 0..(Slots - 1)]
        /\ found' \in [Goroutines -> SUBSET Served] /\ idle' \in [Goroutines -> Nat]
        /\ place' \in [Goroutines -> {"loop", "process", "backoff", "poll", "returned"}]
    BY <1>1, <1>2, <1>3, <2>1, <2>2, <2>3 DEF TypeOK
  <2> QED BY <1>1, <1>2, <2>4, Settled DEF TypeOK
<1>7. Walk(g)'
  <2>1. /\ index'[g] = i /\ empty'[g] = (IF sleeps THEN 0 ELSE empty[g] + 1)
        /\ found'[g] = (IF failed THEN found[g] ELSE found[g] \cup {q})
        /\ idle'[g] = idle[g] + 1
        /\ place'[g] = (IF sleeps THEN IF failed THEN "backoff" ELSE "poll" ELSE "loop")
    BY <1>1, <1>2 DEF TypeOK
  <2>2. idle[g] = empty[g]
    BY <1>1, <1>2 DEF Walk
  <2>3. CASE sleeps
    <3>1. Looked(g)'
      BY <1>1, <1>3, <2>1, <2>3, NothingLooked
    <3>2. ~failed => found[g] \cup {q} = Served
      <4>1. SUFFICES ASSUME ~failed, NEW p \in Served PROVE p \in found[g] \cup {q}
        BY <1>1, <1>4
      <4>2. PICK j \in 0..(Slots - 1) : weightedQueues[j + 1] = p
        BY <1>1, Rotation
      <4>3. Ago(i, j) <= Slots
        BY <1>1, <1>3 DEF Ago
      <4>4. Ago(i, j) \in Int
        BY <1>1, <1>3 DEF Ago
      <4>5. Ago(i, j) <= empty[g] + 1
        BY <1>1, <2>3, <4>1, <4>3, <4>4
      <4> QED BY <1>5, <4>2, <4>5
    <3> QED BY <1>1, <2>1, <2>3, <3>1, <3>2, Settled DEF Walk
  <2>4. CASE ~sleeps
    <3>1. \A j \in 0..(Slots - 1) : Ago(index[g], j)' = Ago(i, j)
      BY <1>1, <2>1, Settled DEF Ago
    <3>2. Looked(g)'
      BY <1>1, <1>5, <2>1, <2>4, <3>1, Settled DEF Looked
    <3> QED BY <2>1, <2>2, <2>4, <3>2 DEF Walk
  <2> QED BY <2>3, <2>4
<1>8. \A h \in Goroutines \ {g} : /\ place'[h] = place[h] /\ index'[h] = index[h]
                                  /\ empty'[h] = empty[h] /\ found'[h] = found[h]
                                  /\ idle'[h] = idle[h]
  BY <1>1, <1>2 DEF TypeOK
<1> QED BY <1>1, <1>6, <1>7, <1>8, OneWalks

LEMMA ProcessedStep ==
  ASSUME RotationInv, NEW g \in Goroutines, Processed(g)
  PROVE  RotationInv'
<1>1. /\ TypeOK /\ Walk(g) /\ cfg' = cfg /\ UNCHANGED <<ready, index, empty, found, idle, stopped, errors>>
      /\ place[g] = "process" /\ place' = [place EXCEPT ![g] = "loop"]
  BY DEF RotationInv, Processed, local
<1>2. TypeOK'
  BY <1>1, Settled DEF TypeOK
<1>3. Walk(g)'
  <2>1. place'[g] = "loop"
    BY <1>1 DEF TypeOK
  <2> QED BY <1>1, <2>1, Settled DEF Walk, Looked, Ago
<1>4. \A h \in Goroutines \ {g} : place'[h] = place[h]
  BY <1>1 DEF TypeOK
<1> QED BY <1>1, <1>2, <1>3, <1>4, OneWalks

\* A sleep starts a new round.
LEMMA WakeStep ==
  ASSUME RotationInv, NEW g \in Goroutines, Wake(g)
  PROVE  RotationInv'
<1>1. /\ TypeOK /\ Walk(g) /\ cfg' = cfg /\ cfg \in Loaded
      /\ UNCHANGED <<ready, index, empty, stopped, errors>>
      /\ place[g] \in {"backoff", "poll"} /\ place' = [place EXCEPT ![g] = "loop"]
      /\ found' = [found EXCEPT ![g] = {}] /\ idle' = [idle EXCEPT ![g] = 0]
  BY DEF RotationInv, TypeOK, Wake
<1>2. TypeOK'
  BY <1>1, Settled DEF TypeOK
<1>3. Walk(g)'
  <2>1. /\ place'[g] = "loop" /\ idle'[g] = 0 /\ empty'[g] = 0
        /\ index'[g] \in 0..(Slots - 1)
    BY <1>1 DEF TypeOK, Walk
  <2>2. Looked(g)'
    BY <1>1, <2>1, NothingLooked
  <2> QED BY <2>1, <2>2 DEF Walk
<1>4. \A h \in Goroutines \ {g} : place'[h] = place[h] /\ found'[h] = found[h] /\ idle'[h] = idle[h]
  BY <1>1 DEF TypeOK
<1> QED BY <1>1, <1>2, <1>3, <1>4, OneWalks

LEMMA ReturnStep ==
  ASSUME RotationInv, NEW g \in Goroutines, Return(g)
  PROVE  RotationInv'
<1>1. /\ TypeOK /\ Walk(g) /\ cfg' = cfg /\ UNCHANGED <<ready, index, empty, found, idle, stopped, errors>>
      /\ place' = [place EXCEPT ![g] = "returned"]
  BY DEF RotationInv, Return, local
<1>2. TypeOK'
  BY <1>1, Settled DEF TypeOK
<1>3. Walk(g)'
  <2>1. place'[g] = "returned"
    BY <1>1 DEF TypeOK
  <2> QED BY <1>1, <2>1, Settled DEF Walk, Looked, Ago
<1>4. \A h \in Goroutines \ {g} : place'[h] = place[h]
  BY <1>1 DEF TypeOK
<1> QED BY <1>1, <1>2, <1>3, <1>4, OneWalks

LEMMA NextRotation == RotationInv /\ [Next]_vars => RotationInv'
<1> SUFFICES ASSUME RotationInv, [Next]_vars PROVE RotationInv'
  OBVIOUS
<1>1. CASE (\E q \in Queues : Arrive(q) \/ Depart(q)) \/ Cancel \/ UNCHANGED vars
  BY <1>1, OutsideStep
<1>2. ASSUME NEW g \in Goroutines, Take(g) PROVE RotationInv'
  BY <1>2, TakeStep
<1>3. ASSUME NEW g \in Goroutines, NEW failed \in BOOLEAN, Miss(g, failed) PROVE RotationInv'
  BY <1>3, MissStep
<1>4. ASSUME NEW g \in Goroutines, Processed(g) PROVE RotationInv'
  BY <1>4, ProcessedStep
<1>5. ASSUME NEW g \in Goroutines, Wake(g) PROVE RotationInv'
  BY <1>5, WakeStep
<1>6. ASSUME NEW g \in Goroutines, Return(g) PROVE RotationInv'
  BY <1>6, ReturnStep
<1>7. TRUE \in BOOLEAN /\ FALSE \in BOOLEAN
  OBVIOUS
<1> QED BY <1>1, <1>2, <1>3, <1>4, <1>5, <1>6, <1>7 DEF Next, Step

LEMMA RotationHolds == Spec => []RotationInv
BY InitRotation, NextRotation, PTL DEF Spec

-----------------------------------------------------------------------------
(* The theorems.                                                           *)

\* Whatever loads and however long it runs, every goroutine's index points at a
\* slot and its count of empty slots ends at the sequence's length: runLoop
\* divides by no zero and reads beyond no end.
THEOREM RotationTypeCorrect == Spec => []TypeOK
<1>1. RotationInv => TypeOK
  BY DEF RotationInv
<1> QED BY <1>1, RotationHolds, PTL

\* However the weights are chosen and wherever it started, a goroutine of runLoop
\* sleeps on emptyReserves only after it found every served queue empty since its
\* last job or sleep.
THEOREM PollsOnlyWhenAllEmpty == Spec => []PollsWhenAllEmpty
<1>1. RotationInv => PollsWhenAllEmpty
  BY DEF RotationInv, Walk, PollsWhenAllEmpty
<1> QED BY <1>1, RotationHolds, PTL

\* A goroutine of runLoop without a job makes at most one attempt per slot, one
\* after an error, before it sleeps, and never for no time.
THEOREM IdlesBoundedly == Spec => BoundedIdling
<1> DEFINE Idles(g) == idle'[g] > idle[g] =>
             /\ idle'[g] <= Slots
             /\ idle'[g] = Slots \/ errors' # errors =>
                  place'[g] \in {"backoff", "poll"} /\ cfg.poll > 0
<1>1. ASSUME RotationInv, [Next]_vars, NEW g \in Goroutines PROVE Idles(g)
  <2>1. /\ TypeOK /\ Walk(g) /\ cfg.poll \in Nat \ {0} /\ Slots \in Nat \ {0}
        /\ idle[g] \in Nat /\ empty[g] \in 0..(Slots - 1)
    BY <1>1, LoadedFit, Rotation DEF RotationInv, TypeOK
  <2>2. ASSUME NEW failed \in BOOLEAN, Miss(g, failed) PROVE Idles(g)
    <3>1. /\ idle[g] = empty[g] /\ idle'[g] = idle[g] + 1
          /\ errors' # errors => failed
      BY <2>1, <2>2 DEF Miss, Walk, TypeOK
    <3>2. failed \/ empty[g] + 1 >= Slots => place'[g] \in {"backoff", "poll"}
      BY <2>1, <2>2 DEF Miss, Sleeps, TypeOK
    <3> QED BY <2>1, <3>1, <3>2
  <2>3. CASE \A failed \in BOOLEAN : ~Miss(g, failed)
    <3>1. ASSUME NEW h \in Goroutines, NEW failed \in BOOLEAN, Miss(h, failed)
          PROVE  idle'[g] = idle[g]
      BY <2>1, <2>3, <3>1 DEF Miss, TypeOK
    <3>2. ASSUME NEW h \in Goroutines, Take(h) \/ Wake(h)
          PROVE  idle'[g] = idle[g] \/ idle'[g] = 0
      BY <2>1, <3>2 DEF Take, Wake, TypeOK
    <3>3. ASSUME NEW h \in Goroutines, Processed(h) \/ Return(h)
          PROVE  idle'[g] = idle[g]
      BY <3>3 DEF Processed, Return, local
    <3>4. ASSUME (\E q \in Queues : Arrive(q) \/ Depart(q)) \/ Cancel \/ UNCHANGED vars
          PROVE  idle'[g] = idle[g]
      BY <3>4 DEF Arrive, Depart, Cancel, vars, local
    <3>5. TRUE \in BOOLEAN /\ FALSE \in BOOLEAN
      OBVIOUS
    <3>6. idle'[g] = idle[g] \/ idle'[g] = 0
      BY <1>1, <3>1, <3>2, <3>3, <3>4, <3>5 DEF Next, Step
    <3> QED BY <2>1, <3>6
  <2> QED BY <2>2, <2>3
<1>2. RotationInv /\ [Next]_vars => [\A g \in Goroutines : Idles(g)]_vars
  BY <1>1
<1> QED BY <1>2, RotationHolds, PTL DEF Spec, BoundedIdling

\* Every queue of the configuration has as many slots as its weight says, so none
\* is left out and none comes in, and the slots of the served queues are all
\* there are.
ServesConfigured ==
  /\ Served = DOMAIN cfg.queues
  /\ \A name \in Served : Cardinality(Positions(weightedQueues, name)) = cfg.queues[name]

\* weightedQueueNames gives every configured queue its share of the attempts: what
\* config.Load accepts is what the worker walks.
THEOREM ConfiguredServed == Spec => []ServesConfigured
<1>1. RotationInv => ServesConfigured
  <2> SUFFICES ASSUME RotationInv PROVE ServesConfigured
    OBVIOUS
  <2>1. cfg \in Loaded
    BY DEF RotationInv, TypeOK
  <2>2. \A name \in DOMAIN cfg.queues : Cardinality(Positions(weightedQueues, name)) = cfg.queues[name]
    BY <2>1, LoadedFit, SlotsWeighted DEF weightedQueues
  <2> QED BY <2>1, <2>2, Rotation DEF ServesConfigured
<1> QED BY <1>1, RotationHolds, PTL
===============================================================================
