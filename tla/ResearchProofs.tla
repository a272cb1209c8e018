--------------------------- MODULE ResearchProofs ---------------------------
(***************************************************************************)
(* Proofs about the tools of offline research: what the splits of the      *)
(* cross-validation splitters leave out and cover, for every call; that    *)
(* the backtester never trades when there is a fee on opening; and what it *)
(* ends with when there is none.                                           *)
(***************************************************************************)
EXTENDS Splits, BacktestEngine, WellFoundedInduction, TLAPS

\* What the arguments of each splitter are.
LEMMA CallTypes ==
    ASSUME NEW c \in Calls
    PROVE  /\ c.alg \in {"kfold", "purged", "walk", "combi"}
           /\ c.n \in Nat
           /\ c.alg # "walk" => c.folds \in Nat \ {0} /\ c.embargo \in Nat
           /\ c.alg = "purged" => c.horizon \in Nat
           /\ c.alg = "walk" => /\ c.train \in Nat \ {0} /\ c.test \in Nat \ {0}
                                /\ c.step \in Nat \ {0}
BY SplitsAssumption DEF Calls

LEMMA DivFacts ==
    ASSUME NEW a \in Nat, NEW b \in Nat \ {0}
    PROVE  /\ a \div b \in Nat
           /\ (a \div b) * b <= a
           /\ a < (a \div b + 1) * b
OBVIOUS

LEMMA TimesMonotone ==
    ASSUME NEW a \in Nat, NEW b \in Nat, NEW f \in Nat, a <= b
    PROVE  a * f \in Nat /\ a * f <= b * f
OBVIOUS

\* Blocks begin and end within the data, and one after the other.
LEMMA BlockBounds ==
    ASSUME NEW c \in Calls, c.alg # "walk", NEW k \in 0..(c.folds - 1)
    PROVE  /\ From(c, k) \in Nat /\ To(c, k) \in Nat
           /\ From(c, k) <= To(c, k) /\ To(c, k) <= c.n
           /\ \A l \in 0..(c.folds - 1) : k < l => To(c, k) <= From(c, l)
<1> DEFINE f == c.n \div c.folds
<1>1. c.n \in Nat /\ c.folds \in Nat \ {0}
  BY CallTypes
<1>2. f \in Nat /\ f * c.folds <= c.n
  BY <1>1, DivFacts
<1>3. f * c.folds = c.folds * f
  BY <1>1, <1>2
<1> HIDE DEF f
<1>4. \A j \in 0..c.folds : j * f \in Nat /\ j * f <= c.folds * f
  BY <1>1, <1>2, TimesMonotone
<1>5. k * f \in Nat /\ (k + 1) * f \in Nat /\ k * f <= (k + 1) * f
      /\ k * f <= c.folds * f /\ (k + 1) * f <= c.folds * f
  BY <1>1, <1>2, <1>4, TimesMonotone
<1>6. From(c, k) = k * f
      /\ To(c, k) = IF k < c.folds - 1 THEN (k + 1) * f ELSE c.n
  BY DEF From, To, f
<1>7. ASSUME NEW l \in 0..(c.folds - 1), k < l
      PROVE  To(c, k) <= From(c, l)
  <2>1. (k + 1) * f <= l * f
    BY <1>1, <1>2, <1>7, TimesMonotone
  <2>2. From(c, l) = l * f
    BY DEF From, f
  <2> QED BY <1>1, <1>6, <1>7, <2>1, <2>2
<1>8. c.folds * f <= c.n
  BY <1>2, <1>3
<1> QED BY <1>1, <1>2, <1>5, <1>6, <1>7, <1>8

\* Every index lies in a block.
LEMMA BlocksCover ==
    ASSUME NEW c \in Calls, c.alg # "walk", NEW i \in 0..(c.n - 1)
    PROVE  \E k \in 0..(c.folds - 1) : i \in Block(c, k)
<1> DEFINE f == c.n \div c.folds
           last == c.folds - 1
<1>1. c.n \in Nat /\ c.folds \in Nat \ {0}
  BY CallTypes
<1>2. f \in Nat
  BY <1>1, DivFacts
<1>3. CASE last * f <= i
  BY <1>1, <1>3 DEF Block, Slice, From, To
<1>4. CASE ~(last * f <= i)
  <2>1. f # 0
    BY <1>1, <1>2, <1>4
  <2> DEFINE k == i \div f
  <2>2. k \in Nat /\ k * f <= i /\ i < (k + 1) * f
    <3>1. i \in Nat /\ f \in Nat \ {0}
      BY <1>1, <1>2, <2>1
    <3> HIDE DEF f
    <3> QED BY <3>1, DivFacts
  <2>3. k < last
    <3>1. last \in Nat /\ (last <= k => last * f <= k * f)
      BY <1>1, <1>2, <2>2, TimesMonotone
    <3>2. last * f \in Int /\ k * f \in Int
      BY <1>2, <2>2, <3>1
    <3> HIDE DEF f, last, k
    <3> QED BY <1>1, <1>4, <2>2, <3>1, <3>2
  <2>4. From(c, k) = k * f /\ To(c, k) = (k + 1) * f
    BY <2>3 DEF From, To
  <2> HIDE DEF f, k
  <2> QED BY <1>1, <2>2, <2>3, <2>4 DEF Block, Slice
<1> QED BY <1>3, <1>4

-----------------------------------------------------------------------------
LEMMA Initially == SplitsInit => SplitsInv
<1> SUFFICES ASSUME SplitsInit PROVE SplitsInv
  OBVIOUS
<1>1. call.alg # "walk" => call.folds \in Nat \ {0}
  BY CallTypes DEF SplitsInit
<1>2. todo \subseteq SUBSET (0..(call.folds - 1)) \/ todo = {}
  BY DEF SplitsInit, Combinations
<1>3. SplitsTypeOK
  BY <1>1, CallTypes DEF SplitsInit, SplitsTypeOK, Combinations
<1>4. call.alg = "walk" => call.step \in Nat
  BY CallTypes DEF SplitsInit
<1>5. YieldsInv
  BY <1>1, <1>4, CallTypes DEF SplitsInit, YieldsInv, Combinations
<1> QED BY <1>3, <1>5 DEF SplitsInv

\* A split that is appended is the last one.
LEMMA Appended ==
    ASSUME SplitsTypeOK, NEW y \in Split, yields' = Append(yields, y)
    PROVE  /\ yields' \in Seq(Split) /\ Len(yields') = Len(yields) + 1
           /\ Len(yields) \in Nat
           /\ \A p \in DOMAIN yields' :
                 \/ p \in DOMAIN yields /\ yields'[p] = yields[p]
                 \/ p = Len(yields) + 1 /\ yields'[p] = y
BY DEF SplitsTypeOK

LEMMA KFoldKeepsInv ==
    ASSUME SplitsInv, KFoldYields
    PROVE  SplitsInv'
<1> USE DEF SplitsInv, KFoldYields
<1> DEFINE y == [train |-> KFoldTrain(call, cursor),
                 test  |-> Block(call, cursor)]
<1>1. call.n \in Nat /\ call.folds \in Nat \ {0}
  BY CallTypes DEF SplitsTypeOK
<1>2. y \in Split
  BY <1>1 DEF Split, KFoldTrain, Block, Slice
<1>3. yields' = Append(yields, y)
  OBVIOUS
<1> HIDE DEF y
<1>4. SplitsTypeOK'
  BY <1>2, <1>3, Appended DEF SplitsTypeOK
<1>5. \A p \in DOMAIN yields' :
        yields'[p] = [train |-> KFoldTrain(call, p - 1),
                      test  |-> Block(call, p - 1)]
  BY <1>2, <1>3, Appended DEF YieldsInv, y, SplitsTypeOK
<1>6. YieldsInv'
  BY <1>1, <1>2, <1>3, <1>5, Appended DEF YieldsInv, SplitsTypeOK
<1> QED BY <1>4, <1>6

LEMMA PurgedKeepsInv ==
    ASSUME SplitsInv, PurgedYields
    PROVE  SplitsInv'
<1> USE DEF SplitsInv, PurgedYields
<1> DEFINE y == [train |-> PurgedTrain(call, cursor),
                 test  |-> Block(call, cursor)]
<1>1. call.n \in Nat /\ call.folds \in Nat \ {0}
  BY CallTypes DEF SplitsTypeOK
<1>2. y \in Split
  BY <1>1 DEF Split, PurgedTrain, Block, Slice
<1>3. yields' = Append(yields, y)
  OBVIOUS
<1> HIDE DEF y
<1>4. SplitsTypeOK'
  BY <1>2, <1>3, Appended DEF SplitsTypeOK
<1>5. \A p \in DOMAIN yields' :
        yields'[p] = [train |-> PurgedTrain(call, p - 1),
                      test  |-> Block(call, p - 1)]
  BY <1>2, <1>3, Appended DEF YieldsInv, y, SplitsTypeOK
<1>6. outcome' = "running"
  BY <1>1 DEF YieldsInv, SplitsTypeOK
<1>7. cursor' = Len(yields') /\ cursor' <= call.folds
  BY <1>1, <1>2, <1>3, Appended DEF YieldsInv, SplitsTypeOK
<1>8. YieldsInv'
  BY <1>5, <1>6, <1>7 DEF YieldsInv
<1> QED BY <1>4, <1>8

LEMMA WalkKeepsInv ==
    ASSUME SplitsInv, WalkYields
    PROVE  SplitsInv'
<1> USE DEF SplitsInv, WalkYields
<1> DEFINE y == WalkSplit(call, cursor)
<1>1. /\ call.n \in Nat /\ call.train \in Nat \ {0}
      /\ call.test \in Nat \ {0} /\ call.step \in Nat \ {0}
  BY CallTypes DEF SplitsTypeOK
<1>2. y \in Split
  BY <1>1 DEF Split, WalkSplit, SplitsTypeOK
<1>3. yields' = Append(yields, y)
  OBVIOUS
<1>4. cursor = Len(yields) * call.step /\ Len(yields) \in Nat
  BY DEF YieldsInv, SplitsTypeOK
<1> HIDE DEF y
<1>5. SplitsTypeOK'
  BY <1>1, <1>2, <1>3, Appended DEF SplitsTypeOK
<1>6. \A p \in DOMAIN yields' :
        /\ yields'[p] = WalkSplit(call, (p - 1) * call.step)
        /\ WalkFits(call, (p - 1) * call.step)
  <2> SUFFICES ASSUME NEW p \in DOMAIN yields'
               PROVE  /\ yields'[p] = WalkSplit(call, (p - 1) * call.step)
                      /\ WalkFits(call, (p - 1) * call.step)
    OBVIOUS
  <2>1. CASE p \in DOMAIN yields /\ yields'[p] = yields[p]
    BY <2>1 DEF YieldsInv
  <2>2. CASE p = Len(yields) + 1 /\ yields'[p] = y
    <3>1. p - 1 = Len(yields)
      BY <1>4, <2>2
    <3> QED BY <1>4, <2>2, <3>1 DEF y
  <2> QED BY <1>2, <1>3, <2>1, <2>2, Appended
<1>7. cursor' = Len(yields') * call.step
  <2>1. Len(yields') = Len(yields) + 1
    BY <1>2, <1>3, Appended
  <2>2. \A a, b \in Nat : (a + 1) * b = a * b + b
    OBVIOUS
  <2> QED BY <1>1, <1>4, <2>1, <2>2
<1>8. outcome' = "running"
  BY DEF YieldsInv, SplitsTypeOK
<1>9. YieldsInv'
  BY <1>6, <1>7, <1>8 DEF YieldsInv
<1> QED BY <1>5, <1>9

\* With no group empty, every other group is dropped: it ends at or after some
\* test index, or it begins before one.
LEMMA KeptNone ==
    ASSUME NEW c \in CombiCalls, NEW s \in SUBSET (0..(c.folds - 1)),
           ~EmptyGroup(c, s)
    PROVE  Kept(c, s) = {}
<1> SUFFICES ASSUME NEW i \in Kept(c, s) PROVE FALSE
  OBVIOUS
<1>1. c \in Calls /\ c.alg # "walk"
  BY SplitsAssumption DEF Calls
<1>2. c.n \in Nat /\ c.folds \in Nat \ {0} /\ c.embargo \in Nat
  BY <1>1, CallTypes
<1>3. i \in (0..(c.folds - 1)) \ s /\ ~Purged(c, i, s) /\ ~Embargoed(c, i, s)
  BY DEF Kept
<1>4. PICK j \in s : Block(c, j) # {}
  BY DEF EmptyGroup
<1>5. PICK t : t \in Block(c, j)
  BY <1>4
<1>6. t \in Int
  BY <1>2, <1>5 DEF Block, Slice
<1>7. Block(c, i) # {}
  BY <1>3 DEF EmptyGroup
<1>8. From(c, i) \in Nat /\ To(c, i) \in Nat
  BY <1>1, <1>3, BlockBounds
<1>9. From(c, i) < To(c, i)
  BY <1>2, <1>7, <1>8 DEF Block, Slice
<1>10. ~(To(c, i) - 1 >= t)
  BY <1>3, <1>5 DEF Purged
<1>11. ~(From(c, i) <= t + Most(1, c.embargo))
  BY <1>3, <1>5 DEF Embargoed
<1> QED BY <1>2, <1>6, <1>8, <1>9, <1>10, <1>11 DEF Most

LEMMA CombiKeepsInv ==
    ASSUME SplitsInv, CombiTries \/ CombiRaises
    PROVE  SplitsInv'
<1> USE DEF SplitsInv
<1>1. call.alg = "combi"
  BY DEF CombiTries, CombiRaises, YieldsInv
<1>2. call \in CombiCalls
  BY <1>1, SplitsAssumption DEF SplitsTypeOK, Calls
<1>3. CASE CombiTries
  <2>1. PICK s \in todo :
          /\ ~EmptyGroup(call, s)
          /\ yields' = IF Kept(call, s) = {} THEN yields
                       ELSE Append(yields,
                              [train |-> UNION {Block(call, i) :
                                                  i \in Kept(call, s)},
                               test  |-> UNION {Block(call, i) : i \in s}])
          /\ todo' = todo \ {s}
    BY <1>3 DEF CombiTries
  <2>2. s \in SUBSET (0..(call.folds - 1))
    BY <1>1 DEF YieldsInv
  <2>3. Kept(call, s) = {}
    BY <1>2, <2>1, <2>2, KeptNone
  <2>4. yields' = yields /\ todo' \subseteq todo
    BY <2>1, <2>3
  <2>5. UNCHANGED <<call, cursor, outcome>>
    BY <1>3 DEF CombiTries
  <2> QED BY <1>1, <2>4, <2>5 DEF SplitsTypeOK, YieldsInv
<1>4. CASE CombiRaises
  BY <1>1, <1>4 DEF CombiRaises, SplitsTypeOK, YieldsInv
<1> QED BY <1>3, <1>4

\* The splits so far are those of the loop's earlier iterations.
THEOREM Invariance == SplitsSpec => []SplitsInv
<1>1. ASSUME SplitsInv, [SplitsNext]_splitsVars PROVE SplitsInv'
  <2>1. CASE Returns
    <3>1. SplitsTypeOK'
      BY <1>1, <2>1 DEF SplitsInv, SplitsTypeOK, Returns
    <3>2. call.alg \in {"kfold", "purged"} => cursor = call.folds
      BY <1>1, <2>1, CallTypes DEF SplitsInv, SplitsTypeOK, YieldsInv, Returns
    <3>3. call.alg = "walk" => ~WalkFits(call, cursor)
      BY <2>1 DEF Returns
    <3>4. YieldsInv'
      BY <1>1, <2>1, <3>2, <3>3 DEF SplitsInv, YieldsInv, Returns
    <3> QED BY <3>1, <3>4 DEF SplitsInv
  <2>2. CASE UNCHANGED splitsVars
    BY <1>1, <2>2 DEF splitsVars, SplitsInv, SplitsTypeOK, YieldsInv
  <2> QED BY <1>1, <2>1, <2>2, KFoldKeepsInv, PurgedKeepsInv, WalkKeepsInv,
             CombiKeepsInv DEF SplitsNext
<1> QED BY Initially, <1>1, PTL DEF SplitsSpec

-----------------------------------------------------------------------------
\* After purging no label of a training index overlaps one of a test index, when
\* the embargo is not shorter than the labels by more than a bar.
THEOREM NoLeakageAlways == SplitsSpec => []NoLeakage
<1>1. ASSUME SplitsInv PROVE NoLeakage
  <2> SUFFICES ASSUME call.alg = "purged", call.horizon <= call.embargo + 1,
                      NEW p \in DOMAIN yields,
                      NEW i \in yields[p].train, NEW j \in yields[p].test
               PROVE  ~Overlap(i, j, call.horizon)
    BY DEF NoLeakage
  <2>1. /\ call \in Calls /\ call.n \in Nat /\ call.folds \in Nat \ {0}
        /\ call.embargo \in Nat /\ call.horizon \in Nat
    BY <1>1, CallTypes DEF SplitsInv, SplitsTypeOK
  <2>2. p - 1 \in 0..(call.folds - 1)
    BY <1>1, <2>1 DEF SplitsInv, SplitsTypeOK, YieldsInv
  <2>3. PICK k \in 0..(call.folds - 1) :
           i \in PurgedTrain(call, k) /\ j \in Block(call, k)
    BY <1>1, <2>2 DEF SplitsInv, YieldsInv
  <2>4. From(call, k) \in Nat /\ To(call, k) \in Nat
    BY <2>1, BlockBounds
  <2> QED BY <2>1, <2>3, <2>4 DEF PurgedTrain, Block, Slice, Most, Overlap
<1> QED BY Invariance, <1>1, PTL

\* What purging and embargo remove beyond that is one index.
THEOREM NothingWastedAlways == SplitsSpec => []NothingWasted
<1>1. ASSUME SplitsInv PROVE NothingWasted
  <2> SUFFICES ASSUME call.alg = "purged", NEW p \in DOMAIN yields,
                      yields[p].test # {},
                      NEW i \in (0..(call.n - 1))
                                \ (yields[p].train \cup yields[p].test)
               PROVE  \E j \in yields[p].test :
                         \/ Overlap(i, j, call.horizon)
                         \/ j < i /\ i <= j + call.embargo + 1
    BY DEF NothingWasted
  <2>1. /\ call \in Calls /\ call.n \in Nat /\ call.folds \in Nat \ {0}
        /\ call.embargo \in Nat /\ call.horizon \in Nat
    BY <1>1, CallTypes DEF SplitsInv, SplitsTypeOK
  <2>2. p - 1 \in 0..(call.folds - 1)
    BY <1>1, <2>1 DEF SplitsInv, SplitsTypeOK, YieldsInv
  <2>3. PICK k \in 0..(call.folds - 1) :
           yields[p].train = PurgedTrain(call, k)
           /\ yields[p].test = Block(call, k)
    BY <1>1, <2>2 DEF SplitsInv, YieldsInv
  <2>4. /\ From(call, k) \in Nat /\ To(call, k) \in Nat
        /\ To(call, k) <= call.n
    BY <2>1, BlockBounds
  <2>5. /\ From(call, k) \in Block(call, k)
        /\ To(call, k) - 1 \in Block(call, k)
    BY <2>1, <2>3, <2>4 DEF Block, Slice
  <2>6. CASE i < From(call, k)
    <3>1. i \notin PurgedTrain(call, k) /\ i \in 0..(call.n - 1)
      BY <2>3
    <3>a. \/ i \in Slice(call.n, Most(0, From(call, k) - call.horizon),
                          To(call, k) + 1)
          \/ i \in Slice(call.n, To(call, k) + 1,
                          To(call, k) + 1 + call.embargo)
      BY <3>1 DEF PurgedTrain
    <3>2. From(call, k) - call.horizon <= i
      <4>1. From(call, k) <= To(call, k)
        BY <2>1, BlockBounds
      <4>2. CASE i \in Slice(call.n, Most(0, From(call, k) - call.horizon),
                             To(call, k) + 1)
        BY <2>1, <2>4, <4>2 DEF Slice, Most
      <4>3. CASE i \in Slice(call.n, To(call, k) + 1,
                             To(call, k) + 1 + call.embargo)
        BY <2>1, <2>4, <2>6, <4>1, <4>3 DEF Slice
      <4> QED BY <3>a, <4>2, <4>3
    <3>3. Overlap(i, From(call, k), call.horizon)
      BY <2>1, <2>4, <2>6, <3>1, <3>2 DEF Overlap
    <3> QED BY <2>3, <2>5, <3>3
  <2>7. CASE ~(i < From(call, k))
    <3>1. To(call, k) <= i
      BY <2>1, <2>3, <2>4, <2>7 DEF Block, Slice
    <3>2. i <= To(call, k) - 1 + call.embargo + 1
      BY <2>1, <2>3, <2>4, <3>1 DEF PurgedTrain, Slice, Most
    <3>3. To(call, k) - 1 < i
      BY <2>4, <3>1
    <3> QED BY <2>3, <2>5, <3>2, <3>3
  <2> QED BY <2>6, <2>7
<1> QED BY Invariance, <1>1, PTL

\* No training index lies within the embargo after the test block.
THEOREM EmbargoKeptAlways == SplitsSpec => []EmbargoKept
<1>1. ASSUME SplitsInv PROVE EmbargoKept
  <2> SUFFICES ASSUME call.alg \in {"kfold", "purged"},
                      NEW p \in DOMAIN yields,
                      NEW i \in yields[p].train, NEW j \in yields[p].test
               PROVE  i < j \/ i > j + call.embargo
    BY DEF EmbargoKept
  <2>1. /\ call \in Calls /\ call.n \in Nat /\ call.folds \in Nat \ {0}
        /\ call.embargo \in Nat
        /\ call.alg = "purged" => call.horizon \in Nat
    BY <1>1, CallTypes DEF SplitsInv, SplitsTypeOK
  <2>2. p - 1 \in 0..(call.folds - 1)
    BY <1>1, <2>1 DEF SplitsInv, SplitsTypeOK, YieldsInv
  <2>3. PICK k \in 0..(call.folds - 1) :
           /\ j \in Block(call, k)
           /\ \/ call.alg = "kfold" /\ i \in KFoldTrain(call, k)
              \/ call.alg = "purged" /\ i \in PurgedTrain(call, k)
    BY <1>1, <2>2 DEF SplitsInv, YieldsInv
  <2>4. From(call, k) \in Nat /\ To(call, k) \in Nat
    BY <2>1, BlockBounds
  <2>5. CASE i \in KFoldTrain(call, k)
    BY <2>1, <2>3, <2>4, <2>5 DEF KFoldTrain, Block, Slice
  <2>6. CASE call.alg = "purged" /\ i \in PurgedTrain(call, k)
    BY <2>1, <2>3, <2>4, <2>6 DEF PurgedTrain, Block, Slice, Most
  <2> QED BY <2>3, <2>5, <2>6
<1> QED BY Invariance, <1>1, PTL

\* The test blocks of both k-fold splitters are disjoint, and when the call has
\* returned they cover all indices.
THEOREM TestedOnceAlways == SplitsSpec => []TestedOnce
<1>1. ASSUME SplitsInv PROVE TestedOnce
  <2> SUFFICES ASSUME call.alg \in {"kfold", "purged"} PROVE TestedOnce
    BY DEF TestedOnce
  <2>1. /\ call \in Calls /\ call.alg # "walk"
        /\ call.n \in Nat /\ call.folds \in Nat \ {0}
    BY <1>1, CallTypes DEF SplitsInv, SplitsTypeOK
  <2>2. /\ DOMAIN yields = 1..Len(yields) /\ Len(yields) \in Nat
        /\ Len(yields) <= call.folds
        /\ outcome = "returned" => Len(yields) = call.folds
    BY <1>1 DEF SplitsInv, SplitsTypeOK, YieldsInv
  <2>3. \A p \in DOMAIN yields : /\ yields[p].test = Block(call, p - 1)
                                 /\ p - 1 \in 0..(call.folds - 1)
    BY <1>1, <2>1, <2>2 DEF SplitsInv, YieldsInv
  <2>4. \A k, l \in 0..(call.folds - 1) :
           k < l => Block(call, k) \cap Block(call, l) = {}
    <3> SUFFICES ASSUME NEW k \in 0..(call.folds - 1),
                        NEW l \in 0..(call.folds - 1), k < l
                 PROVE  Block(call, k) \cap Block(call, l) = {}
      OBVIOUS
    <3>1. /\ To(call, k) \in Nat /\ From(call, l) \in Nat
          /\ To(call, k) <= From(call, l)
      BY <2>1, BlockBounds
    <3> QED BY <2>1, <3>1 DEF Block, Slice
  <2>5. ASSUME NEW p \in DOMAIN yields, NEW q \in DOMAIN yields, p # q
        PROVE  yields[p].test \cap yields[q].test = {}
    <3>1. p - 1 < q - 1 \/ q - 1 < p - 1
      BY <2>2, <2>5
    <3> QED BY <2>3, <2>4, <3>1
  <2>6. ASSUME outcome = "returned"
        PROVE  0..(call.n - 1) = UNION {yields[p].test : p \in DOMAIN yields}
    <3>1. ASSUME NEW i \in 0..(call.n - 1)
          PROVE  \E p \in DOMAIN yields : i \in yields[p].test
      <4>1. PICK k \in 0..(call.folds - 1) : i \in Block(call, k)
        BY <2>1, BlocksCover
      <4>2. k + 1 \in DOMAIN yields /\ (k + 1) - 1 = k
        BY <2>1, <2>2, <2>6
      <4> QED BY <2>3, <4>1, <4>2
    <3>2. \A p \in DOMAIN yields : yields[p].test \subseteq 0..(call.n - 1)
      BY <2>3 DEF Block, Slice
    <3> QED BY <3>1, <3>2
  <2> QED BY <2>5, <2>6 DEF TestedOnce
<1> QED BY Invariance, <1>1, PTL

\* Walk-forward windows train on the past, stay within the data, do not overlap
\* when they step by a test window at least, and go on to the end.
THEOREM WalksForwardAlways == SplitsSpec => []WalksForward
<1>1. ASSUME SplitsInv PROVE WalksForward
  <2> SUFFICES ASSUME call.alg = "walk" PROVE WalksForward
    BY DEF WalksForward
  <2> DEFINE at(p) == (p - 1) * call.step
  <2>1. /\ call.n \in Nat /\ call.train \in Nat \ {0}
        /\ call.test \in Nat \ {0} /\ call.step \in Nat \ {0}
    BY <1>1, CallTypes DEF SplitsInv, SplitsTypeOK
  <2>2. DOMAIN yields = 1..Len(yields) /\ Len(yields) \in Nat
        /\ cursor = Len(yields) * call.step
    BY <1>1 DEF SplitsInv, SplitsTypeOK, YieldsInv
  <2>3. \A p \in DOMAIN yields :
           /\ yields[p] = WalkSplit(call, at(p))
           /\ WalkFits(call, at(p))
    BY <1>1 DEF SplitsInv, YieldsInv
  <2>4. \A p \in DOMAIN yields : p \in Nat /\ p - 1 \in Nat /\ at(p) \in Nat
    <3> SUFFICES ASSUME NEW p \in DOMAIN yields
                 PROVE  p \in Nat /\ p - 1 \in Nat /\ at(p) \in Nat
      OBVIOUS
    <3>1. p \in Nat /\ p - 1 \in Nat
      BY <2>2
    <3> QED BY <2>1, <3>1, TimesMonotone
  <2>5. ASSUME NEW p \in DOMAIN yields, NEW q \in DOMAIN yields, p < q
        PROVE  at(p) + call.step <= at(q)
    <3>1. (p - 1) + 1 <= q - 1 /\ (p - 1) + 1 \in Nat
      BY <2>4, <2>5
    <3>2. ((p - 1) + 1) * call.step <= (q - 1) * call.step
      BY <2>1, <2>4, <3>1, TimesMonotone
    <3>3. ((p - 1) + 1) * call.step = at(p) + call.step
      <4>1. \A a, b \in Nat : (a + 1) * b = a * b + b
        OBVIOUS
      <4> QED BY <2>1, <2>4, <4>1
    <3> QED BY <3>2, <3>3
  <2> HIDE DEF at
  <2>a. ASSUME NEW p \in DOMAIN yields
        PROVE  /\ at(p) \in Nat /\ at(p) + call.train + call.test <= call.n
               /\ \A i \in yields[p].train :
                     i \in Int /\ i < at(p) + call.train
               /\ yields[p].test =
                     (at(p) + call.train)..(at(p) + call.train + call.test - 1)
    <3>1. at(p) \in Nat /\ yields[p] = WalkSplit(call, at(p))
      BY <2>3, <2>4
    <3>2. /\ yields[p].train =
                (IF call.expanding THEN 0 ELSE at(p))..(at(p) + call.train - 1)
          /\ yields[p].test =
                (at(p) + call.train)..(at(p) + call.train + call.test - 1)
      BY <3>1 DEF WalkSplit
    <3>3. at(p) + call.train + call.test <= call.n
      BY <2>3 DEF WalkFits
    <3>4. \A i \in yields[p].train : i \in Int /\ i < at(p) + call.train
      BY <2>1, <3>1, <3>2
    <3> QED BY <3>1, <3>2, <3>3, <3>4
  <2>6. ASSUME NEW p \in DOMAIN yields
        PROVE  /\ \A i \in yields[p].train, j \in yields[p].test : i < j
               /\ yields[p].test \subseteq 0..(call.n - 1)
    <3> DEFINE a == at(p)
    <3>1. a \in Nat /\ a + call.train + call.test <= call.n
      BY <2>6, <2>a
    <3>2. \A i \in yields[p].train : i \in Int /\ i < a + call.train
      BY <2>6, <2>a
    <3>3. yields[p].test = (a + call.train)..(a + call.train + call.test - 1)
      BY <2>6, <2>a
    <3> HIDE DEF a
    <3> QED BY <2>1, <3>1, <3>2, <3>3
  <2>7. ASSUME call.step >= call.test,
               NEW p \in DOMAIN yields, NEW q \in DOMAIN yields, p # q
        PROVE  yields[p].test \cap yields[q].test = {}
    <3>1. ASSUME NEW u \in DOMAIN yields, NEW v \in DOMAIN yields, u < v
          PROVE  yields[u].test \cap yields[v].test = {}
      <4> DEFINE a == at(u)
                 b == at(v)
      <4>1. a \in Nat /\ b \in Nat /\ a + call.step <= b
        BY <2>4, <2>5, <3>1
      <4>2. yields[u].test = (a + call.train)..(a + call.train + call.test - 1)
        BY <2>a, <3>1
      <4>3. yields[v].test = (b + call.train)..(b + call.train + call.test - 1)
        BY <2>a, <3>1
      <4> HIDE DEF a, b
      <4> QED BY <2>1, <2>7, <4>1, <4>2, <4>3
    <3>2. p < q \/ q < p
      BY <2>4, <2>7
    <3> QED BY <2>7, <3>1, <3>2
  <2>8. ASSUME outcome = "returned", yields = <<>>
        PROVE  call.train + call.test > call.n
    <3>1. cursor = 0
      BY <2>1, <2>2, <2>8
    <3> QED BY <1>1, <2>1, <2>8, <3>1 DEF SplitsInv, YieldsInv, WalkFits
  <2>9. ASSUME outcome = "returned", yields # <<>>
        PROVE  \E j \in yields[Len(yields)].test : call.n - (j + 1) < call.step
    <3> DEFINE l == Len(yields)
               j == at(l) + call.train + call.test - 1
    <3>1. l \in DOMAIN yields
      BY <1>1, <2>2, <2>9 DEF SplitsInv, SplitsTypeOK
    <3>2. cursor = at(l) + call.step
      <4>1. \A a, b \in Nat : (a + 1) * b = a * b + b
        OBVIOUS
      <4>2. ((l - 1) + 1) * call.step = (l - 1) * call.step + call.step
        BY <2>1, <2>4, <3>1, <4>1
      <4> QED BY <2>2, <4>2 DEF at
    <3>3. ~WalkFits(call, cursor)
      BY <1>1, <2>9 DEF SplitsInv, YieldsInv
    <3>4. at(l) \in Nat
          /\ yields[l].test =
                (at(l) + call.train)..(at(l) + call.train + call.test - 1)
      BY <2>a, <3>1
    <3>5. j \in yields[l].test
      BY <2>1, <3>4
    <3>6. cursor + call.train + call.test > call.n
      BY <2>1, <3>2, <3>3, <3>4 DEF WalkFits
    <3>7. call.n - (j + 1) < call.step
      <4> DEFINE a == at(l)
      <4>1. a \in Nat /\ cursor = a + call.step
        BY <3>2, <3>4
      <4>2. j = a + call.train + call.test - 1
        OBVIOUS
      <4> HIDE DEF a, j
      <4> QED BY <2>1, <3>6, <4>1, <4>2
    <3> HIDE DEF j
    <3> QED BY <3>5, <3>7
  <2> QED BY <2>6, <2>7, <2>8, <2>9 DEF WalksForward
<1> QED BY Invariance, <1>1, PTL

\* The combinatorial splitter yields no split, for any arguments.
THEOREM NoCombinationAlways == SplitsSpec => []NoCombination
<1>1. SplitsInv => NoCombination
  BY DEF SplitsInv, YieldsInv, NoCombination
<1> QED BY Invariance, <1>1, PTL

-----------------------------------------------------------------------------
\* The backtester

\* The account before the first opening.
Fresh == [cash |-> Of(Capital), side |-> 0, qty |-> Zero, entry |-> Zero,
          since |-> 0]

\* Inductive: with a fee the account stays as it was made.
Untouched ==
    /\ config \in Configs
    /\ FeeRate(config)[1] > 0 => account = Fresh /\ trades = <<>>

\* All the cash and a fee on it are more than the cash.
LEMMA FeeOnTop ==
    ASSUME NEW a \in Nat \ {0}, NEW f \in Nat \ {0}, NEW b \in Nat \ {0}
    PROVE  Less(Of(a), Plus(Of(a), Times(Of(a), <<f, b>>)))
<1>1. a * f \in Nat \ {0} /\ a * b \in Nat \ {0}
  OBVIOUS
<1>2. Plus(Of(a), Times(Of(a), <<f, b>>)) = <<a * (1 * b) + (a * f) * 1, 1 * (1 * b)>>
  BY DEF Plus, Times, Of
<1>3. a * (1 * b) = a * b /\ 1 * (1 * b) = b /\ (a * f) * 1 = a * f
  OBVIOUS
<1>4. Plus(Of(a), Times(Of(a), <<f, b>>)) = <<a * b + a * f, b>>
  BY <1>2, <1>3
<1>5. (a * b + a * f) * 1 = a * b + a * f
  BY <1>1
<1>6. a * b < a * b + a * f
  BY <1>1
<1> QED
  BY <1>4, <1>5, <1>6 DEF Less, Of

\* An opening of a fresh account leaves it as it is.
LEMMA FreshStays ==
    ASSUME NEW c \in Configs, FeeRate(c)[1] > 0, NEW side, NEW open, NEW ts
    PROVE  Opened(c, Fresh, side, open, ts) = Fresh
<1> DEFINE price == Slipped(c, open, side)
           f == IF c.limit THEN c.maker ELSE c.taker
<1>1. f \in Nat \ {0} /\ FeeRate(c) = <<f, Base>>
  BY BacktestAssumption DEF FeeRate
<1>2. Fee(c, Fresh, price) = Times(Of(Capital), <<f, Base>>)
  BY <1>1 DEF Fee, Fresh
<1>3. Less(Of(Capital), Plus(Of(Capital), Fee(c, Fresh, price)))
  BY <1>1, <1>2, FeeOnTop, BacktestAssumption
<1>4. Fresh.cash = Of(Capital)
  BY DEF Fresh
<1> QED
  BY <1>3, <1>4, Zenon DEF Opened

LEMMA UntouchedNext == Untouched /\ [BacktestNext]_backtest => Untouched'
<1> SUFFICES ASSUME Untouched, [BacktestNext]_backtest PROVE Untouched'
  OBVIOUS
<1>1. config' = config
  BY DEF BacktestNext, Keeps, Execute, Turns, Iterates, BacktestReturns, backtest
<1> SUFFICES ASSUME FeeRate(config)[1] > 0
             PROVE  account' = Fresh /\ trades' = <<>>
  BY <1>1 DEF Untouched
<1>2. account = Fresh /\ trades = <<>> /\ account.side = 0
  BY DEF Untouched, Fresh
<1>3. CASE Execute
  <2>1. PICK side \in {-1, 0, 1} \ {account.side}, open \in Prices :
          /\ trades' = trades
          /\ account' = IF side = 0 THEN account
                        ELSE Opened(config, account, side, open, bar + 1)
    BY <1>2, <1>3 DEF Execute, Turns
  <2>2. Opened(config, Fresh, side, open, bar + 1) = Fresh
    BY FreshStays DEF Untouched
  <2> QED
    BY <1>2, <2>1, <2>2
<1>4. CASE Keeps \/ BacktestReturns \/ UNCHANGED backtest
  BY <1>2, <1>4 DEF Keeps, BacktestReturns, backtest
<1> QED
  BY <1>3, <1>4 DEF BacktestNext

\* The fee, on top of all the cash, is more than there is (engine.py:130): with
\* any fee, in every run, nothing is bought or sold.
THEOREM NothingBoughtAlways == BacktestSpec => []NothingBought
<1>1. BacktestInit => Untouched
  BY DEF BacktestInit, Untouched, Fresh
<1>2. Untouched => NothingBought
  BY DEF Untouched, NothingBought, Fresh
<1> QED
  BY <1>1, <1>2, UntouchedNext, PTL DEF BacktestSpec

\* What Append leaves and adds, whatever the elements are.
LEMMA AppendedAny ==
    ASSUME NEW S, NEW s \in Seq(S), NEW e
    PROVE  /\ Append(s, e) \in Seq(S \cup {e}) /\ Append(s, e) # <<>>
           /\ Len(s) \in Nat /\ Len(Append(s, e)) = Len(s) + 1
           /\ DOMAIN s = 1..Len(s) /\ DOMAIN Append(s, e) = 1..(Len(s) + 1)
           /\ \A p \in 1..Len(s) : Append(s, e)[p] = s[p]
           /\ Append(s, e)[Len(s) + 1] = e
<1>1. s \in Seq(S \cup {e}) /\ e \in S \cup {e}
  OBVIOUS
<1> QED BY <1>1

\* Inductive: times in the account and in the log are bars that have been.
\* `since` is not reset by a closing, hence the case of an open position.
Fields == {"side", "since"}

LogInv ==
    /\ bar \in Nat /\ (\E S : trades \in Seq(S)) /\ Fields \subseteq DOMAIN account
    /\ account.since \in Nat /\ account.since <= bar
    /\ \A p \in DOMAIN trades :
          /\ trades[p].since \in Nat /\ trades[p].till \in Nat
          /\ trades[p].since < trades[p].till /\ trades[p].till <= bar
          /\ p < Len(trades) => trades[p].till <= trades[p + 1].since
    /\ trades # <<>> /\ account.side # 0 =>
          trades[Len(trades)].till <= account.since

\* An opening dates the position by the bar, or leaves the account as it is.
LEMMA OpenedAt ==
    ASSUME NEW c, NEW a, NEW side, NEW open, NEW ts
    PROVE  \/ Opened(c, a, side, open, ts) = a
           \/ /\ Opened(c, a, side, open, ts).since = ts
              /\ Fields \subseteq DOMAIN Opened(c, a, side, open, ts)
<1> DEFINE price == Slipped(c, open, side)
           cost  == Plus(a.cash, Fee(c, a, price))
           made  == [cash |-> Reduced(Minus(a.cash, cost)), side |-> side,
                     qty |-> Reduced(Over(a.cash, price)),
                     entry |-> Reduced(price), since |-> ts]
<1>1. Opened(c, a, side, open, ts) = IF Less(a.cash, cost) THEN a ELSE made
  BY DEF Opened
<1>2. made.since = ts /\ Fields \subseteq DOMAIN made
  BY DEF Fields
<1> QED BY <1>1, <1>2

\* A closing leaves no position and the time of the entry.
LEMMA ClosedFlat ==
    ASSUME NEW c, NEW a, NEW open, Fields \subseteq DOMAIN a
    PROVE  /\ Closed(c, a, open).since = a.since /\ Closed(c, a, open).side = 0
           /\ Fields \subseteq DOMAIN Closed(c, a, open)
BY DEF Closed, Fields

\* A closing logs a trade that ends at this bar.
LEMMA LogKept ==
    ASSUME LogInv, Execute, account.side # 0
    PROVE  /\ \E S : trades' \in Seq(S)
           /\ trades' # <<>> /\ trades'[Len(trades')].till = bar + 1
           /\ \A p \in DOMAIN trades' :
                 /\ trades'[p].since \in Nat /\ trades'[p].till \in Nat
                 /\ trades'[p].since < trades'[p].till
                 /\ trades'[p].till <= bar + 1
                 /\ p < Len(trades') => trades'[p].till <= trades'[p + 1].since
<1>1. PICK open : trades' = Append(trades, Trade(config, account, open, bar + 1))
  BY DEF Execute, Turns
<1> DEFINE t == Trade(config, account, open, bar + 1)
           n == Len(trades)
<1>2. t.since = account.since /\ t.till = bar + 1
  BY DEF Trade
<1> HIDE DEF t
<1>3. PICK S : trades \in Seq(S)
  BY DEF LogInv
<1>4. /\ trades' \in Seq(S \cup {t}) /\ trades' # <<>>
      /\ n \in Nat /\ Len(trades') = n + 1
      /\ DOMAIN trades = 1..n /\ DOMAIN trades' = 1..(n + 1)
      /\ \A p \in 1..n : trades'[p] = trades[p]
      /\ trades'[n + 1] = t
  BY <1>1, <1>3, AppendedAny DEF t
<1>5. trades = <<>> \/ trades[n].till <= account.since
  BY DEF LogInv
<1>6. n # 0 => trades # <<>>
  BY <1>3
<1> HIDE DEF n
<1>7. ASSUME NEW p \in DOMAIN trades'
      PROVE  /\ trades'[p].since \in Nat /\ trades'[p].till \in Nat
             /\ trades'[p].since < trades'[p].till
             /\ trades'[p].till <= bar + 1
             /\ p < Len(trades') => trades'[p].till <= trades'[p + 1].since
  <2>1. CASE p = n + 1
    BY <1>2, <1>4, <2>1 DEF LogInv
  <2>2. CASE p \in 1..n
    <3>1. trades'[p] = trades[p]
      BY <1>4, <2>2
    <3>2. CASE p = n
      BY <1>2, <1>4, <1>5, <1>6, <2>2, <3>1, <3>2 DEF LogInv
    <3>3. CASE p < n
      <4>1. p + 1 \in 1..n /\ trades'[p + 1] = trades[p + 1]
        BY <1>4, <2>2, <3>3
      <4> QED BY <1>4, <2>2, <3>1, <3>3, <4>1 DEF LogInv, n
    <3> QED BY <1>4, <2>2, <3>2, <3>3
  <2> QED BY <1>4, <2>1, <2>2
<1> QED BY <1>2, <1>4, <1>7

LEMMA LogNext == LogInv /\ [BacktestNext]_backtest => LogInv'
<1> SUFFICES ASSUME LogInv, [BacktestNext]_backtest PROVE LogInv'
  OBVIOUS
<1>1. CASE Keeps
  BY <1>1 DEF Keeps, Iterates, LogInv
<1>2. CASE BacktestReturns \/ UNCHANGED backtest
  BY <1>2 DEF BacktestReturns, backtest, LogInv
<1>3. CASE Execute
  <2>1. PICK side \in {-1, 0, 1} \ {account.side}, open \in Prices :
          LET flat == IF account.side = 0 THEN account
                      ELSE Closed(config, account, open)
          IN account' = IF side = 0 THEN flat
                        ELSE Opened(config, flat, side, open, bar + 1)
    BY <1>3 DEF Execute, Turns
  <2> DEFINE flat == IF account.side = 0 THEN account
                     ELSE Closed(config, account, open)
  <2>2. flat.since = account.since /\ flat.side = 0 /\ Fields \subseteq DOMAIN flat
    BY ClosedFlat DEF LogInv
  <2>3. account' = IF side = 0 THEN flat
                   ELSE Opened(config, flat, side, open, bar + 1)
    BY <2>1
  <2> HIDE DEF flat
  <2>4. \/ account' = flat
        \/ account'.since = bar + 1 /\ Fields \subseteq DOMAIN account'
    BY <2>3, OpenedAt
  <2>5. /\ Fields \subseteq DOMAIN account'
        /\ account'.since \in {account.since, bar + 1}
        /\ account'.side # 0 => account'.since = bar + 1
    BY <2>2, <2>4
  <2>6. bar \in Nat /\ bar' = bar + 1
    BY <1>3 DEF Execute, Turns, Iterates, LogInv
  <2>7. /\ Fields \subseteq DOMAIN account'
        /\ account'.since \in Nat /\ account'.since <= bar'
        /\ account'.side # 0 => account'.since = bar'
    BY <2>5, <2>6 DEF LogInv
  <2>8. CASE account.side # 0
    BY <1>3, <2>6, <2>7, <2>8, LogKept DEF LogInv
  <2>9. CASE account.side = 0
    <3>1. trades' = trades
      BY <1>3, <2>9 DEF Execute, Turns
    <3>2. trades # <<>> => trades[Len(trades)].till <= bar
      <4>1. PICK S : trades \in Seq(S)
        BY DEF LogInv
      <4>2. trades # <<>> => Len(trades) \in DOMAIN trades
        BY <4>1
      <4> QED BY <4>2 DEF LogInv
    <3> QED BY <2>6, <2>7, <3>1, <3>2 DEF LogInv
  <2> QED BY <2>8, <2>9
<1> QED BY <1>1, <1>2, <1>3 DEF BacktestNext

\* The log of trades is in order and no two of its trades overlap, although the
\* time of an entry survives its closing (engine.py:138).
THEOREM TradesDisjointAlways == BacktestSpec => []TradesDisjoint
<1>1. BacktestInit => LogInv
  BY DEF BacktestInit, LogInv, Fields
<1>2. LogInv => TradesDisjoint
  BY DEF LogInv, TradesDisjoint
<1> QED
  BY <1>1, <1>2, LogNext, PTL DEF BacktestSpec

-----------------------------------------------------------------------------
\* Euclid's algorithm, by which fractions are brought to their lowest terms.

\* A nonempty set of natural numbers has a least one.
LEMMA LeastNat ==
    ASSUME NEW T \in SUBSET Nat, T # {}
    PROVE  \E n \in T : \A m \in T : n <= m
<1>1. \E n \in T : \A m \in T : ~(<<m, n>> \in OpToRel(<, Nat))
  BY NatLessThanWellFounded, WFMin
<1>2. \A m, n \in Nat : ~(<<m, n>> \in OpToRel(<, Nat)) => n <= m
  BY DEF OpToRel
<1> QED BY <1>1, <1>2

\* Euclid's algorithm for second arguments up to m.
Euclid(f, m) ==
    f = [p \in Nat \X (0..m) |->
            IF p[2] = 0 THEN p[1] ELSE f[<<p[2], p[1] % p[2]>>]]

\* The second argument gets smaller.
LEMMA Remainder ==
    ASSUME NEW a \in Nat, NEW b \in Nat \ {0}
    PROVE  a % b \in 0..(b - 1)
OBVIOUS

\* If it is there for arguments up to m, it is for one more,
LEMMA EuclidMore ==
    ASSUME NEW m \in Nat, NEW f, Euclid(f, m)
    PROVE  \E g : Euclid(g, m + 1)
<1> DEFINE g == [p \in Nat \X (0..(m + 1)) |->
                    IF p[2] = 0 THEN p[1] ELSE f[<<p[2], p[1] % p[2]>>]]
<1>1. \A p \in Nat \X (0..m) :
        f[p] = IF p[2] = 0 THEN p[1] ELSE f[<<p[2], p[1] % p[2]>>]
  BY DEF Euclid
<1>2. Nat \X (0..m) \subseteq Nat \X (0..(m + 1))
  OBVIOUS
<1>3. \A p \in Nat \X (0..m) : g[p] = f[p]
  BY <1>1, <1>2
<1>4. ASSUME NEW p \in Nat \X (0..(m + 1)), p[2] # 0
      PROVE  <<p[2], p[1] % p[2]>> \in Nat \X (0..m)
  <2>1. p[1] \in Nat /\ p[2] \in Nat \ {0} /\ p[2] <= m + 1
    BY <1>4
  <2>2. p[1] % p[2] \in 0..(p[2] - 1)
    BY <2>1, Remainder
  <2> QED BY <2>1, <2>2
<1>5. \A p \in Nat \X (0..(m + 1)) :
        p[2] # 0 => g[<<p[2], p[1] % p[2]>>] = f[<<p[2], p[1] % p[2]>>]
  BY <1>3, <1>4
<1>6. g = [p \in Nat \X (0..(m + 1)) |->
              IF p[2] = 0 THEN p[1] ELSE g[<<p[2], p[1] % p[2]>>]]
  BY <1>5
<1> QED BY <1>6 DEF Euclid

\* so that it is for all;
LEMMA EuclidThere == \A m \in Nat : \E f : Euclid(f, m)
<1> DEFINE T == {m \in Nat : ~\E f : Euclid(f, m)}
<1> SUFFICES ASSUME T # {} PROVE FALSE
  OBVIOUS
<1>1. PICK m \in T : \A k \in T : m <= k
  BY LeastNat
<1>2. CASE m = 0
  <2> DEFINE f == [p \in Nat \X (0..0) |-> p[1]]
  <2>1. \A p \in Nat \X (0..0) : p[2] = 0
    OBVIOUS
  <2>2. f = [p \in Nat \X (0..0) |->
                IF p[2] = 0 THEN p[1] ELSE f[<<p[2], p[1] % p[2]>>]]
    BY <2>1
  <2>3. Euclid(f, 0)
    BY <2>2 DEF Euclid
  <2> QED BY <1>2, <2>3
<1>3. CASE m # 0
  <2>1. m - 1 \in Nat /\ m - 1 \notin T /\ (m - 1) + 1 = m
    BY <1>1, <1>3
  <2>2. PICK f : Euclid(f, m - 1)
    BY <2>1
  <2> QED BY <2>1, <2>2, EuclidMore
<1> QED BY <1>2, <1>3

\* and wherever two bounds leave it, it is the same.
LEMMA EuclidOne ==
    ASSUME NEW m \in Nat, NEW n \in Nat, NEW f, NEW g,
           Euclid(f, m), Euclid(g, n), m <= n,
           NEW p \in Nat \X (0..m)
    PROVE  f[p] = g[p]
<1> DEFINE T == {b \in 0..m : \E a \in Nat : f[<<a, b>>] # g[<<a, b>>]}
<1> SUFFICES ASSUME T # {} PROVE FALSE
  <2>1. p = <<p[1], p[2]>> /\ p[1] \in Nat /\ p[2] \in 0..m
    OBVIOUS
  <2> QED BY <2>1
<1>0. T \in SUBSET Nat
  OBVIOUS
<1>1. PICK b \in T : \A k \in T : b <= k
  BY <1>0, LeastNat
<1>2. PICK a \in Nat : f[<<a, b>>] # g[<<a, b>>]
  OBVIOUS
<1>3. <<a, b>> \in Nat \X (0..m) /\ <<a, b>> \in Nat \X (0..n)
  OBVIOUS
<1>4. /\ f[<<a, b>>] = IF b = 0 THEN a ELSE f[<<b, a % b>>]
      /\ g[<<a, b>>] = IF b = 0 THEN a ELSE g[<<b, a % b>>]
  BY <1>3 DEF Euclid
<1>5. b \in Nat \ {0} /\ f[<<b, a % b>>] # g[<<b, a % b>>]
  BY <1>2, <1>4
<1>6. a % b \in 0..(b - 1)
  BY <1>5, Remainder
<1>7. a % b \in T
  BY <1>5, <1>6
<1> QED BY <1>1, <1>5, <1>6, <1>7

\* Hence the recursion that defines gcd has a solution.
LEMMA GcdStep ==
    \A a, b \in Nat : gcd[<<a, b>>] = IF b = 0 THEN a ELSE gcd[<<b, a % b>>]
<1> DEFINE Rec(f) == f = [p \in Nat \X Nat |->
                IF p[2] = 0 THEN p[1] ELSE f[<<p[2], p[1] % p[2]>>]]
           E(m) == CHOOSE f : Euclid(f, m)
           F == [p \in Nat \X Nat |-> E(p[2])[p]]
<1>1. \A m \in Nat : Euclid(E(m), m)
  BY EuclidThere
<1>2. ASSUME NEW p \in Nat \X Nat
      PROVE  F[p] = IF p[2] = 0 THEN p[1] ELSE F[<<p[2], p[1] % p[2]>>]
  <2>1. p[1] \in Nat /\ p[2] \in Nat /\ p \in Nat \X (0..p[2])
    OBVIOUS
  <2>2. Euclid(E(p[2]), p[2])
    BY <1>1, <2>1
  <2> HIDE DEF E
  <2>3. F[p] = IF p[2] = 0 THEN p[1] ELSE E(p[2])[<<p[2], p[1] % p[2]>>]
    BY <2>1, <2>2 DEF Euclid
  <2>4. CASE p[2] # 0
    <3> DEFINE q == <<p[2], p[1] % p[2]>>
    <3>1. p[1] % p[2] \in 0..(p[2] - 1)
      BY <2>1, <2>4, Remainder
    <3>2. q \in Nat \X (0..q[2]) /\ q[2] \in Nat /\ q[2] <= p[2] /\ q \in Nat \X Nat
      BY <2>1, <3>1
    <3>3. Euclid(E(q[2]), q[2])
      BY <1>1, <3>2
    <3> HIDE DEF q
    <3>4. E(q[2])[q] = E(p[2])[q]
      BY <2>1, <2>2, <3>2, <3>3, EuclidOne
    <3>5. F[q] = E(q[2])[q]
      BY <3>2
    <3> QED BY <2>3, <2>4, <3>4, <3>5 DEF q
  <2> QED BY <2>3, <2>4
<1>3. Rec(F)
  BY <1>2
<1>4. gcd = CHOOSE f : Rec(f)
  BY DEF gcd
<1> HIDE DEF F
<1>5. Rec(gcd)
  BY <1>3, <1>4
<1> QED BY <1>5

Divides(g, n) == \E k \in Int : n = k * g

\* What it finds divides both arguments.
LEMMA GcdDivides ==
    \A b \in Nat : \A a \in Nat :
        a + b > 0 => /\ gcd[<<a, b>>] \in Nat \ {0}
                     /\ Divides(gcd[<<a, b>>], a) /\ Divides(gcd[<<a, b>>], b)
<1> DEFINE Good(b) == \A a \in Nat :
              a + b > 0 => /\ gcd[<<a, b>>] \in Nat \ {0}
                           /\ Divides(gcd[<<a, b>>], a) /\ Divides(gcd[<<a, b>>], b)
           T == {b \in Nat : ~Good(b)}
<1> SUFFICES ASSUME T # {} PROVE FALSE
  OBVIOUS
<1>1. PICK b \in T : \A k \in T : b <= k
  BY LeastNat
<1>2. PICK a \in Nat : /\ a + b > 0
                       /\ ~(/\ gcd[<<a, b>>] \in Nat \ {0}
                            /\ Divides(gcd[<<a, b>>], a) /\ Divides(gcd[<<a, b>>], b))
  OBVIOUS
<1> HIDE DEF T
<1>3. b \in Nat
  BY DEF T
<1>4. CASE b = 0
  <2>1. gcd[<<a, b>>] = a
    BY <1>3, <1>4, GcdStep
  <2>2. a = 1 * a /\ b = 0 * a
    BY <1>4
  <2> QED BY <1>2, <1>4, <2>1, <2>2 DEF Divides
<1>5. CASE b # 0
  <2> DEFINE r == a % b
             q == a \div b
             g == gcd[<<b, r>>]
  <2>1. r \in 0..(b - 1) /\ q \in Nat /\ a = q * b + r
    <3>1. b \in Nat \ {0}
      BY <1>3, <1>5
    <3> QED BY <3>1
  <2>2. gcd[<<a, b>>] = g
    BY <1>3, <1>5, GcdStep
  <2>3. Good(r)
    BY <1>1, <1>3, <2>1 DEF T
  <2>4. b + r > 0
    BY <1>3, <1>5, <2>1
  <2>5. r \in Nat
    BY <1>3, <2>1
  <2> HIDE DEF r, q
  <2>6. g \in Nat \ {0} /\ Divides(g, b) /\ Divides(g, r)
    BY <1>3, <2>3, <2>4
  <2> HIDE DEF g
  <2>7. PICK k \in Int, l \in Int : b = k * g /\ r = l * g
    BY <2>6 DEF Divides
  <2>8. a = (q * k + l) * g
    <3>1. q * b = (q * k) * g
      BY <2>1, <2>6, <2>7
    <3> QED BY <2>1, <2>6, <2>7, <3>1
  <2>9. Divides(g, a)
    BY <2>1, <2>7, <2>8 DEF Divides
  <2> QED BY <1>2, <2>2, <2>6, <2>9
<1> QED BY <1>4, <1>5

-----------------------------------------------------------------------------
\* Fractions that are the same number.

LEMMA GcdOf ==
    ASSUME NEW a \in Nat, NEW b \in Nat \ {0}
    PROVE  /\ gcd[<<a, b>>] \in Nat \ {0}
           /\ Divides(gcd[<<a, b>>], a) /\ Divides(gcd[<<a, b>>], b)
BY GcdDivides

\* Where g divides, nothing is lost by the quotient.
LEMMA Quotient ==
    ASSUME NEW g \in Nat \ {0}, NEW n \in Int, Divides(g, n)
    PROVE  n \div g \in Int /\ n = (n \div g) * g
<1>1. PICK k \in Int : n = k * g
  BY DEF Divides
<1>2. n \div g = k
  BY <1>1
<1> QED BY <1>1, <1>2

\* A fraction in lowest terms is the same.
LEMMA ReducedSame ==
    ASSUME NEW a \in Frac
    PROVE  Reduced(a) \in Frac /\ Same(Reduced(a), a)
<1> DEFINE g == gcd[<<Abs(a[1]), a[2]>>]
           m == a[1] \div g
           n == a[2] \div g
<1>1. a[1] \in Int /\ a[2] \in Nat \ {0} /\ Abs(a[1]) \in Nat
  BY DEF Frac, Abs
<1>2. g \in Nat \ {0} /\ Divides(g, Abs(a[1])) /\ Divides(g, a[2])
  BY <1>1, GcdOf
<1> HIDE DEF g
<1>3. Divides(g, a[1])
  <2>1. PICK k \in Int : Abs(a[1]) = k * g
    BY <1>2 DEF Divides
  <2>2. a[1] = k * g \/ a[1] = (-k) * g
    BY <1>1, <1>2, <2>1 DEF Abs
  <2> QED BY <2>2 DEF Divides
<1>4. m \in Int /\ a[1] = m * g
  BY <1>1, <1>2, <1>3, Quotient
<1>5. n \in Int /\ a[2] = n * g
  BY <1>1, <1>2, Quotient
<1> HIDE DEF m, n
<1>6. n > 0
  BY <1>1, <1>2, <1>5
<1>7. m * (n * g) = (m * g) * n
  BY <1>2, <1>4, <1>5
<1>8. Reduced(a) = <<m, n>>
  BY DEF Reduced, g, m, n
<1>9. Same(<<m, n>>, a)
  BY <1>4, <1>5, <1>7 DEF Same
<1> QED BY <1>4, <1>5, <1>6, <1>8, <1>9 DEF Frac

\* Numerator and denominator, and what they are good for.
LEMMA Parts ==
    ASSUME NEW a \in Frac
    PROVE  a[1] \in Int /\ a[2] \in Nat \ {0} /\ a = <<a[1], a[2]>>
BY DEF Frac

LEMMA Positive ==
    ASSUME NEW m \in Nat \ {0}, NEW n \in Nat \ {0}
    PROVE  m * n \in Nat \ {0}
OBVIOUS

LEMMA Cancel ==
    ASSUME NEW x \in Int, NEW y \in Int, NEW m \in Nat \ {0}, x * m = y * m
    PROVE  x = y
OBVIOUS

\* Fractions are closed under the operations.
LEMMA FracOps ==
    ASSUME NEW a \in Frac, NEW b \in Frac
    PROVE  /\ Plus(a, b) \in Frac /\ Minus(a, b) \in Frac
           /\ Times(a, b) \in Frac
           /\ b[1] > 0 => Over(a, b) \in Frac
<1>1. a[2] * b[2] \in Nat \ {0}
  BY Parts, Positive
<1>2. b[1] > 0 => a[2] * b[1] \in Nat \ {0}
  BY Parts, Positive
<1> QED BY <1>1, <1>2, Parts DEF Plus, Minus, Times, Over, Frac

\* Same is an equivalence, and the operations respect it.
LEMMA SameTrans ==
    ASSUME NEW a \in Frac, NEW b \in Frac, NEW c \in Frac,
           Same(a, b), Same(b, c)
    PROVE  Same(a, c) /\ Same(b, a)
<1>1. /\ a[1] \in Int /\ a[2] \in Nat \ {0} /\ b[1] \in Int
      /\ b[2] \in Nat \ {0} /\ c[1] \in Int /\ c[2] \in Nat \ {0}
  BY Parts
<1>2. a[1] * b[2] = b[1] * a[2] /\ b[1] * c[2] = c[1] * b[2]
  BY DEF Same
<1>3. (a[1] * c[2]) * b[2] = (a[1] * b[2]) * c[2]
  BY <1>1
<1>4. (b[1] * a[2]) * c[2] = (b[1] * c[2]) * a[2]
  BY <1>1
<1>5. (c[1] * b[2]) * a[2] = (c[1] * a[2]) * b[2]
  BY <1>1
<1>6. (a[1] * c[2]) * b[2] = (c[1] * a[2]) * b[2]
  BY <1>2, <1>3, <1>4, <1>5
<1>7. a[1] * c[2] = c[1] * a[2]
  <2>1. a[1] * c[2] \in Int /\ c[1] * a[2] \in Int
    BY <1>1
  <2> QED BY <1>1, <1>6, <2>1, Cancel
<1> QED BY <1>2, <1>7 DEF Same

LEMMA SamePlus ==
    ASSUME NEW a \in Frac, NEW b \in Frac, NEW c \in Frac, NEW d \in Frac,
           Same(a, c), Same(b, d)
    PROVE  Same(Plus(a, b), Plus(c, d)) /\ Same(Minus(a, b), Minus(c, d))
<1> DEFINE a1 == a[1]  a2 == a[2]  b1 == b[1]  b2 == b[2]
           c1 == c[1]  c2 == c[2]  d1 == d[1]  d2 == d[2]
<1>1. a1 \in Int /\ a2 \in Int /\ b1 \in Int /\ b2 \in Int
  BY Parts
<1>2. c1 \in Int /\ c2 \in Int /\ d1 \in Int /\ d2 \in Int
  BY Parts
<1>3. a1 * c2 = c1 * a2 /\ b1 * d2 = d1 * b2
  BY DEF Same
<1> HIDE DEF a1, a2, b1, b2, c1, c2, d1, d2
<1>4. (a1 * b2) * (c2 * d2) = (a1 * c2) * (b2 * d2)
  BY <1>1, <1>2
<1>5. (c1 * a2) * (b2 * d2) = (c1 * d2) * (a2 * b2)
  BY <1>1, <1>2
<1>6. (b1 * a2) * (c2 * d2) = (b1 * d2) * (a2 * c2)
  BY <1>1, <1>2
<1>7. (d1 * b2) * (a2 * c2) = (d1 * c2) * (a2 * b2)
  BY <1>1, <1>2
<1>8. /\ (a1 * b2) * (c2 * d2) = (c1 * d2) * (a2 * b2)
      /\ (b1 * a2) * (c2 * d2) = (d1 * c2) * (a2 * b2)
  BY <1>3, <1>4, <1>5, <1>6, <1>7
<1>9. /\ (a1 * b2 + b1 * a2) * (c2 * d2) = (a1 * b2) * (c2 * d2) + (b1 * a2) * (c2 * d2)
      /\ (c1 * d2 + d1 * c2) * (a2 * b2) = (c1 * d2) * (a2 * b2) + (d1 * c2) * (a2 * b2)
      /\ (a1 * b2 - b1 * a2) * (c2 * d2) = (a1 * b2) * (c2 * d2) - (b1 * a2) * (c2 * d2)
      /\ (c1 * d2 - d1 * c2) * (a2 * b2) = (c1 * d2) * (a2 * b2) - (d1 * c2) * (a2 * b2)
  BY <1>1, <1>2
<1>10. /\ (a1 * b2 + b1 * a2) * (c2 * d2) = (c1 * d2 + d1 * c2) * (a2 * b2)
       /\ (a1 * b2 - b1 * a2) * (c2 * d2) = (c1 * d2 - d1 * c2) * (a2 * b2)
  BY <1>8, <1>9
<1> QED BY <1>10 DEF Same, Plus, Minus, a1, a2, b1, b2, c1, c2, d1, d2

LEMMA SameTimes ==
    ASSUME NEW a \in Frac, NEW b \in Frac, NEW c \in Frac, NEW d \in Frac,
           Same(a, c), Same(b, d)
    PROVE  Same(Times(a, b), Times(c, d))
<1> DEFINE a1 == a[1]  a2 == a[2]  b1 == b[1]  b2 == b[2]
           c1 == c[1]  c2 == c[2]  d1 == d[1]  d2 == d[2]
<1>1. a1 \in Int /\ a2 \in Int /\ b1 \in Int /\ b2 \in Int
  BY Parts
<1>2. c1 \in Int /\ c2 \in Int /\ d1 \in Int /\ d2 \in Int
  BY Parts
<1>3. a1 * c2 = c1 * a2 /\ b1 * d2 = d1 * b2
  BY DEF Same
<1> HIDE DEF a1, a2, b1, b2, c1, c2, d1, d2
<1>4. (a1 * b1) * (c2 * d2) = (a1 * c2) * (b1 * d2)
  BY <1>1, <1>2
<1>5. (c1 * a2) * (d1 * b2) = (c1 * d1) * (a2 * b2)
  BY <1>1, <1>2
<1>6. (a1 * b1) * (c2 * d2) = (c1 * d1) * (a2 * b2)
  BY <1>3, <1>4, <1>5
<1> QED BY <1>6 DEF Same, Times, a1, a2, b1, b2, c1, c2, d1, d2

LEMMA SameRefl == ASSUME NEW a \in Frac PROVE Same(a, a)
BY DEF Same

\* The order does not depend on the representation.
LEMMA SameLess ==
    ASSUME NEW a \in Frac, NEW b \in Frac, NEW c \in Frac, Same(a, b)
    PROVE  Less(a, c) <=> Less(b, c)
<1> DEFINE a1 == a[1]  a2 == a[2]  b1 == b[1]  b2 == b[2]
           c1 == c[1]  c2 == c[2]
<1>1. /\ a1 \in Int /\ a2 \in Nat \ {0} /\ b1 \in Int /\ b2 \in Nat \ {0}
      /\ c1 \in Int /\ c2 \in Nat \ {0}
  BY Parts
<1>2. a1 * b2 = b1 * a2
  BY DEF Same
<1> HIDE DEF a1, a2, b1, b2, c1, c2
<1>3. (a1 * c2) * b2 = (b1 * c2) * a2
  <2>1. (a1 * c2) * b2 = (a1 * b2) * c2 /\ (b1 * c2) * a2 = (b1 * a2) * c2
    BY <1>1
  <2> QED BY <1>2, <2>1
<1>4. (c1 * a2) * b2 = (c1 * b2) * a2
  BY <1>1
<1>5. \A x, y \in Int : \A m \in Nat \ {0} : (x < y) <=> (x * m < y * m)
  OBVIOUS
<1>6. a1 * c2 \in Int /\ c1 * a2 \in Int /\ b1 * c2 \in Int /\ c1 * b2 \in Int
  BY <1>1
<1>7. (a1 * c2 < c1 * a2) <=> ((a1 * c2) * b2 < (c1 * a2) * b2)
  BY <1>1, <1>5, <1>6
<1>8. (b1 * c2 < c1 * b2) <=> ((b1 * c2) * a2 < (c1 * b2) * a2)
  BY <1>1, <1>5, <1>6
<1>9. (a1 * c2 < c1 * a2) <=> (b1 * c2 < c1 * b2)
  BY <1>3, <1>4, <1>7, <1>8
<1> QED BY <1>9 DEF Less, a1, a2, b1, b2, c1, c2

\* The fractions that the account begins with.
LEMMA OfFrac ==
    /\ \A n \in Int : Of(n) \in Frac
    /\ Zero \in Frac /\ Floor \in Frac
BY DEF Of, Frac, Zero, Floor

LEMMA SameZero ==
    ASSUME NEW a \in Frac
    PROVE  Same(a, Zero) <=> a[1] = 0
BY Parts DEF Same, Zero, Of

\* A fraction that is zero adds nothing, and makes a product zero.
LEMMA ZeroAdds ==
    ASSUME NEW a \in Frac, NEW z \in Frac, z[1] = 0
    PROVE  /\ Same(Plus(a, z), a) /\ Same(Plus(z, a), a) /\ Same(Minus(a, z), a)
           /\ Times(a, z)[1] = 0 /\ Times(z, a)[1] = 0
<1> DEFINE a1 == a[1]  a2 == a[2]  z2 == z[2]
<1>1. a1 \in Int /\ a2 \in Int /\ z2 \in Int
  BY Parts
<1>2. a1 * 0 = 0 /\ 0 * a1 = 0 /\ 0 * a2 = 0
  BY <1>1
<1>3. /\ (a1 * z2 + 0) * a2 = a1 * (a2 * z2) /\ (a1 * z2 - 0) * a2 = a1 * (a2 * z2)
      /\ (0 + a1 * z2) * a2 = a1 * (z2 * a2)
  BY <1>1
<1> QED BY <1>2, <1>3 DEF Same, Plus, Minus, Times

\* What division takes, multiplication gives back.
LEMMA OverTimes ==
    ASSUME NEW a \in Frac, NEW p \in Frac, p[1] > 0
    PROVE  Same(Times(Over(a, p), p), a)
<1> DEFINE a1 == a[1]  a2 == a[2]  p1 == p[1]  p2 == p[2]
<1>1. a1 \in Int /\ a2 \in Int /\ p1 \in Int /\ p2 \in Int
  BY Parts
<1>2. ((a1 * p2) * p1) * a2 = a1 * ((a2 * p1) * p2)
  BY <1>1
<1> QED BY <1>2 DEF Same, Times, Over

\* (p - e) q = q p - q e
LEMMA Distributes ==
    ASSUME NEW p \in Frac, NEW e \in Frac, NEW q \in Frac
    PROVE  Same(Times(Minus(p, e), q), Minus(Times(q, p), Times(q, e)))
<1> DEFINE p1 == p[1]  p2 == p[2]  e1 == e[1]  e2 == e[2]  q1 == q[1]  q2 == q[2]
<1>1. /\ p1 \in Int /\ p2 \in Int /\ e1 \in Int /\ e2 \in Int
      /\ q1 \in Int /\ q2 \in Int
  BY Parts
<1> HIDE DEF p1, p2, e1, e2, q1, q2
<1>2. ((p1 * e2 - e1 * p2) * q1) * ((q2 * p2) * (q2 * e2))
        = ((q1 * p1) * (q2 * e2) - (q1 * e1) * (q2 * p2)) * ((p2 * e2) * q2)
  BY <1>1
<1> QED BY <1>2 DEF Same, Times, Minus, p1, p2, e1, e2, q1, q2

\* c + (b + (x - (c + b))) = x
LEMMA Telescopes ==
    ASSUME NEW b \in Frac, NEW c \in Frac, NEW x \in Frac
    PROVE  Same(Plus(c, Plus(b, Minus(x, Plus(c, b)))), x)
<1> DEFINE b1 == b[1]  b2 == b[2]  c1 == c[1]  c2 == c[2]  x1 == x[1]  x2 == x[2]
           n == x1 * (c2 * b2) - (c1 * b2 + b1 * c2) * x2
           d == x2 * (c2 * b2)
<1>1. /\ b1 \in Int /\ b2 \in Int /\ c1 \in Int /\ c2 \in Int
      /\ x1 \in Int /\ x2 \in Int
  BY Parts
<1>2. Plus(c, Plus(b, Minus(x, Plus(c, b))))
        = <<c1 * (b2 * d) + (b1 * d + n * b2) * c2, c2 * (b2 * d)>>
  BY DEF Plus, Minus
<1> HIDE DEF b1, b2, c1, c2, x1, x2
<1>3. (c1 * (b2 * d) + (b1 * d + n * b2) * c2) * x2 = x1 * (c2 * (b2 * d))
  BY <1>1
<1> QED BY <1>2, <1>3 DEF Same, x1, x2

\* The side counts twice, as that of the gain and that of the position.
LEMMA SideTwice ==
    ASSUME NEW s \in {-1, 1}, NEW x \in Frac, NEW q \in Frac
    PROVE  Same(Times(Of(s), Times(x, Times(Of(s), q))), Times(x, q))
<1> DEFINE x1 == x[1]  x2 == x[2]  q1 == q[1]  q2 == q[2]
<1>1. x1 \in Int /\ x2 \in Int /\ q1 \in Int /\ q2 \in Int
  BY Parts
<1> HIDE DEF x1, x2, q1, q2
<1>2. (s * (x1 * (s * q1))) * (x2 * q2) = (x1 * q1) * (1 * (x2 * (1 * q2)))
  <2>1. CASE s = 1
    BY <1>1, <2>1
  <2>2. CASE s = -1
    BY <1>1, <2>2
  <2> QED BY <2>1, <2>2
<1> QED BY <1>2 DEF Same, Times, Of, x1, x2, q1, q2

-----------------------------------------------------------------------------
\* What the trades of a log come to.

\* The sums of the first m trades of a log.
IsSum(f, log, m) ==
    f = [n \in 0..m |->
            IF n = 0 THEN Zero ELSE Reduced(Plus(f[n - 1], Signed(log[n])))]

\* There are such sums for every log, and only one of each.
LEMMA SumThere == ASSUME NEW log PROVE \A m \in Nat : \E f : IsSum(f, log, m)
<1> DEFINE T == {m \in Nat : ~\E f : IsSum(f, log, m)}
<1> SUFFICES ASSUME T # {} PROVE FALSE
  OBVIOUS
<1>1. PICK m \in T : \A k \in T : m <= k
  BY LeastNat
<1>2. CASE m = 0
  <2>1. IsSum([n \in 0..0 |-> Zero], log, 0)
    BY DEF IsSum
  <2> QED BY <1>2, <2>1
<1>3. CASE m # 0
  <2>1. m - 1 \in Nat /\ m - 1 \notin T
    BY <1>1, <1>3
  <2>2. PICK f : IsSum(f, log, m - 1)
    BY <2>1
  <2> DEFINE g == [n \in 0..m |-> IF n = 0 THEN Zero
                                  ELSE Reduced(Plus(f[n - 1], Signed(log[n])))]
  <2>3. \A n \in 0..(m - 1) : f[n] = IF n = 0 THEN Zero
                                     ELSE Reduced(Plus(f[n - 1], Signed(log[n])))
    BY <2>2 DEF IsSum
  <2>4. \A n \in 0..(m - 1) : n \in 0..m /\ g[n] = f[n]
    BY <2>1, <2>3
  <2>5. \A n \in 0..m : n # 0 => n - 1 \in 0..(m - 1) /\ g[n - 1] = f[n - 1]
    BY <2>1, <2>4
  <2>6. g = [n \in 0..m |-> IF n = 0 THEN Zero
                            ELSE Reduced(Plus(g[n - 1], Signed(log[n])))]
    BY <2>5
  <2>7. IsSum(g, log, m)
    BY <2>6 DEF IsSum
  <2> HIDE DEF g
  <2> QED BY <2>7
<1> QED BY <1>2, <1>3

LEMMA SumOne ==
    ASSUME NEW m \in Nat, NEW n \in Nat, m <= n, NEW s, NEW t,
           \A k \in 1..m : s[k] = t[k],
           NEW f, NEW g, IsSum(f, s, m), IsSum(g, t, n)
    PROVE  f[m] = g[m]
<1> DEFINE T == {k \in 0..m : f[k] # g[k]}
<1> SUFFICES ASSUME T # {} PROVE FALSE
  OBVIOUS
<1>1. T \in SUBSET Nat
  OBVIOUS
<1>2. PICK k \in T : \A j \in T : k <= j
  BY <1>1, LeastNat
<1>3. k \in 0..m /\ k \in 0..n
  OBVIOUS
<1>4. /\ f[k] = IF k = 0 THEN Zero ELSE Reduced(Plus(f[k - 1], Signed(s[k])))
      /\ g[k] = IF k = 0 THEN Zero ELSE Reduced(Plus(g[k - 1], Signed(t[k])))
  BY <1>3 DEF IsSum
<1>5. k # 0
  BY <1>4
<1>6. k - 1 \in 0..m /\ k - 1 \notin T
  BY <1>2, <1>3, <1>5
<1>7. s[k] = t[k]
  BY <1>3, <1>5
<1> QED BY <1>4, <1>5, <1>6, <1>7

\* What a log comes to is its last sum: nothing for an empty one, and with
\* every trade that is appended the signed result of that trade more.
LEMMA BookedSum ==
    ASSUME NEW S, NEW log \in Seq(S)
    PROVE  \E f : IsSum(f, log, Len(log)) /\ Booked(log) = f[Len(log)]
<1> DEFINE h == CHOOSE f : IsSum(f, log, Len(log))
<1>1. IsSum(h, log, Len(log))
  BY SumThere
<1>2. Booked(log) = h[Len(log)]
  BY DEF Booked, IsSum
<1> QED BY <1>1, <1>2

LEMMA BookedNone == Booked(<<>>) = Zero
<1>1. <<>> \in Seq({}) /\ Len(<<>>) = 0
  OBVIOUS
<1>2. PICK f : IsSum(f, <<>>, 0) /\ Booked(<<>>) = f[0]
  BY <1>1, BookedSum
<1> QED BY <1>2 DEF IsSum

LEMMA BookedMore ==
    ASSUME NEW S, NEW log \in Seq(S), NEW t
    PROVE  Booked(Append(log, t)) = Reduced(Plus(Booked(log), Signed(t)))
<1> DEFINE more == Append(log, t)
           n == Len(log)
<1>1. /\ more \in Seq(S \cup {t}) /\ n \in Nat /\ Len(more) = n + 1
      /\ (\A p \in 1..n : more[p] = log[p]) /\ more[n + 1] = t
  BY AppendedAny
<1>2. PICK f : IsSum(f, log, n) /\ Booked(log) = f[n]
  BY BookedSum
<1>3. PICK g : IsSum(g, more, n + 1) /\ Booked(more) = g[n + 1]
  BY <1>1, BookedSum
<1> HIDE DEF more, n
<1>4. f[n] = g[n]
  BY <1>1, <1>2, <1>3, SumOne
<1>5. g[n + 1] = Reduced(Plus(g[n], Signed(more[n + 1])))
  <2>1. n + 1 \in 0..(n + 1) /\ n + 1 # 0 /\ (n + 1) - 1 = n
    BY <1>1
  <2> QED BY <1>3, <2>1 DEF IsSum
<1> QED BY <1>1, <1>2, <1>3, <1>4, <1>5 DEF more

-----------------------------------------------------------------------------
\* The account.

Accounts == [cash : Frac, side : {-1, 0, 1}, qty : Frac, entry : Frac,
             since : Nat]

\* Without a fee on opening, the account and what the trades have come to, b:
\* all of it is cash, or all of it is what the open position was bought for.
Balanced(a, b) ==
    /\ a \in Accounts /\ b \in Frac
    /\ a.side = 0 => a.qty = Zero /\ Same(a.cash, Plus(Of(Capital), b))
    /\ a.side # 0 => /\ a.cash[1] = 0
                     /\ Same(Times(a.qty, a.entry), Plus(Of(Capital), b))

\* The capital and what the trades come to are a fraction.
LEMMA CapitalPlus ==
    ASSUME NEW b \in Frac
    PROVE  Of(Capital) \in Frac /\ Plus(Of(Capital), b) \in Frac
<1>1. Of(Capital) \in Frac
  BY BacktestAssumption, OfFrac
<1> QED BY <1>1, FracOps

\* Slippage is less than the whole price.
LEMMA SlippedPositive ==
    ASSUME NEW c \in Configs, NEW open \in Prices, NEW side \in {-1, 0, 1}
    PROVE  Slipped(c, open, side) \in Frac /\ Slipped(c, open, side)[1] > 0
<1>1. c.slippage \in 0..(Base - 1) /\ Base \in Nat \ {0} /\ open \in Nat \ {0}
  BY BacktestAssumption
<1>2. Base + c.slippage * side \in Nat \ {0}
  BY <1>1
<1>3. open * (Base + c.slippage * side) \in Nat \ {0}
  BY <1>1, <1>2, Positive
<1> QED BY <1>1, <1>3 DEF Slipped, Frac

\* At a rate of zero the fee is zero.
LEMMA NoFee ==
    ASSUME NEW c \in Configs, FeeRate(c)[1] = 0, NEW a \in Accounts,
           NEW price \in Frac
    PROVE  Fee(c, a, price) \in Frac /\ Fee(c, a, price)[1] = 0
<1>1. FeeRate(c) \in Frac
  BY BacktestAssumption DEF FeeRate, Frac
<1> DEFINE x == IF a.side # 0 THEN Times(a.qty, price) ELSE a.cash
<1>2. x \in Frac
  BY FracOps DEF Accounts
<1>3. Fee(c, a, price) = Times(x, FeeRate(c))
  BY DEF Fee
<1> HIDE DEF x
<1> QED BY <1>1, <1>2, <1>3, FracOps, ZeroAdds

\* An opening turns all the cash into the position.
LEMMA OpenedBalances ==
    ASSUME NEW c \in Configs, FeeRate(c)[1] = 0, NEW a, NEW b, Balanced(a, b),
           a.side = 0, NEW side \in {-1, 1}, NEW open \in Prices, NEW ts \in Nat
    PROVE  Balanced(Opened(c, a, side, open, ts), b)
<1> DEFINE price == Slipped(c, open, side)
           cost  == Plus(a.cash, Fee(c, a, price))
           cash  == Reduced(Minus(a.cash, cost))
           qty   == Reduced(Over(a.cash, price))
           entry == Reduced(price)
           made  == [cash |-> cash, side |-> side, qty |-> qty,
                     entry |-> entry, since |-> ts]
<1>1. Opened(c, a, side, open, ts) = IF Less(a.cash, cost) THEN a ELSE made
  BY DEF Opened
<1>2. price \in Frac /\ price[1] > 0
  BY SlippedPositive
<1>3. /\ a \in Accounts /\ a.cash \in Frac /\ b \in Frac
      /\ Same(a.cash, Plus(Of(Capital), b))
  BY DEF Balanced, Accounts
<1> HIDE DEF price
<1>4. Fee(c, a, price) \in Frac /\ Fee(c, a, price)[1] = 0
  BY <1>2, <1>3, NoFee
<1>5. cost \in Frac /\ Same(cost, a.cash)
  BY <1>3, <1>4, FracOps, ZeroAdds
<1> HIDE DEF cost
<1>6. cash \in Frac /\ cash[1] = 0
  <2>1. Minus(a.cash, cost) \in Frac
    BY <1>3, <1>5, FracOps
  <2>2. Same(Minus(a.cash, cost), Zero)
    <3>1. a.cash[1] * cost[2] = cost[1] * a.cash[2]
      BY <1>5, Parts DEF Same
    <3>2. Minus(a.cash, cost)[1] = a.cash[1] * cost[2] - cost[1] * a.cash[2]
      BY DEF Minus
    <3>3. a.cash[1] * cost[2] \in Int
      BY <1>3, <1>5, Parts
    <3>4. Minus(a.cash, cost)[1] = 0
      BY <3>1, <3>2, <3>3
    <3> QED BY <2>1, <3>4, SameZero
  <2>3. cash \in Frac /\ Same(cash, Minus(a.cash, cost))
    BY <2>1, ReducedSame
  <2> HIDE DEF cash
  <2>4. Same(cash, Zero)
    BY <2>1, <2>2, <2>3, OfFrac, SameTrans
  <2> QED BY <2>3, <2>4, SameZero
<1>7. qty \in Frac /\ entry \in Frac /\ Same(Times(qty, entry), a.cash)
  <2> DEFINE over == Over(a.cash, price)
  <2>1. over \in Frac
    BY <1>2, <1>3, FracOps
  <2>2. Same(Times(over, price), a.cash)
    BY <1>2, <1>3, OverTimes
  <2> HIDE DEF over
  <2>3. Reduced(over) \in Frac /\ Same(Reduced(over), over)
    BY <2>1, ReducedSame
  <2>4. entry \in Frac /\ Same(entry, price)
    BY <1>2, ReducedSame
  <2>5. qty = Reduced(over)
    BY DEF over
  <2> HIDE DEF qty, entry
  <2>6. Same(Times(qty, entry), Times(over, price))
    BY <1>2, <2>1, <2>3, <2>4, <2>5, SameTimes
  <2>7. Times(qty, entry) \in Frac /\ Times(over, price) \in Frac
    BY <1>2, <2>1, <2>3, <2>4, <2>5, FracOps
  <2> QED BY <1>3, <2>2, <2>3, <2>4, <2>5, <2>6, <2>7, SameTrans
<1> HIDE DEF cash, qty, entry
<1>8. Same(Times(qty, entry), Plus(Of(Capital), b))
  <2>1. Times(qty, entry) \in Frac /\ Plus(Of(Capital), b) \in Frac
    BY <1>3, <1>7, FracOps, CapitalPlus
  <2> QED BY <1>3, <1>7, <2>1, SameTrans
<1>9. made \in Accounts /\ made.side # 0
  BY <1>6, <1>7 DEF Accounts
<1>10. Balanced(made, b)
  BY <1>3, <1>6, <1>8, <1>9 DEF Balanced
<1> HIDE DEF made
<1> QED BY <1>1, <1>10

\* A closing turns the position into cash, and books the difference.
LEMMA ClosedBalances ==
    ASSUME NEW c \in Configs, FeeRate(c)[1] = 0, NEW a, NEW b, Balanced(a, b),
           a.side # 0, NEW open \in Prices, NEW ts
    PROVE  Balanced(Closed(c, a, open),
                    Reduced(Plus(b, Signed(Trade(c, a, open, ts)))))
<1> DEFINE price == Slipped(c, open, -a.side)
           fee   == Fee(c, a, price)
           held  == Times(a.qty, price)
           spent == Times(a.qty, a.entry)
           all   == Plus(Of(Capital), b)
           gain  == Times(Minus(price, a.entry), Times(Of(a.side), a.qty))
           pnl   == Reduced(Minus(gain, fee))
           more  == Times(Of(a.side), pnl)
           booked == Reduced(Plus(b, more))
           proceeds == Minus(held, fee)
           cash  == Reduced(Plus(a.cash, proceeds))
<1>1. /\ a \in Accounts /\ a.cash \in Frac /\ a.qty \in Frac /\ a.entry \in Frac
      /\ a.side \in {-1, 1} /\ b \in Frac
      /\ a.cash[1] = 0 /\ Same(spent, all)
  BY DEF Balanced, Accounts
<1>2. price \in Frac
  <2>1. -a.side \in {-1, 0, 1}
    BY <1>1
  <2> QED BY <2>1, SlippedPositive
<1>3. Signed(Trade(c, a, open, ts)) = more
  BY DEF Signed, Trade
<1>4. Closed(c, a, open) = [a EXCEPT !.cash = cash, !.side = 0,
                                     !.qty = Zero, !.entry = Zero]
  BY DEF Closed
<1> HIDE DEF price
<1>5. fee \in Frac /\ fee[1] = 0
  BY <1>1, <1>2, NoFee
<1> HIDE DEF fee
<1>6. /\ held \in Frac /\ spent \in Frac /\ all \in Frac /\ Of(Capital) \in Frac
      /\ Of(a.side) \in Frac
  BY <1>1, <1>2, FracOps, CapitalPlus, OfFrac
<1>7. /\ Minus(price, a.entry) \in Frac /\ Times(Of(a.side), a.qty) \in Frac
      /\ gain \in Frac
  BY <1>1, <1>2, <1>6, FracOps
\* the cash is what the position is worth
<1>8. cash \in Frac /\ Same(cash, held)
  <2>1. proceeds \in Frac /\ Same(proceeds, held)
    BY <1>5, <1>6, FracOps, ZeroAdds
  <2> HIDE DEF proceeds, held
  <2> DEFINE sum == Plus(a.cash, proceeds)
  <2>2. sum \in Frac /\ Same(sum, proceeds)
    BY <1>1, <2>1, FracOps, ZeroAdds
  <2> HIDE DEF sum
  <2>3. Reduced(sum) \in Frac /\ Same(Reduced(sum), sum)
    BY <2>2, ReducedSame
  <2>4. Same(Reduced(sum), held)
    BY <1>6, <2>1, <2>2, <2>3, SameTrans
  <2> QED BY <2>3, <2>4 DEF sum
\* what is booked is the difference to what it was bought for
<1>9. more \in Frac /\ Same(more, Minus(held, spent))
  <2> DEFINE net == Minus(gain, fee)
             twice == Times(Of(a.side), gain)
             plain == Times(Minus(price, a.entry), a.qty)
  <2>1. net \in Frac /\ Same(net, gain)
    BY <1>5, <1>7, FracOps, ZeroAdds
  <2>2. pnl \in Frac /\ Same(pnl, net)
    <3> HIDE DEF net
    <3>1. Reduced(net) \in Frac /\ Same(Reduced(net), net)
      BY <2>1, ReducedSame
    <3> QED BY <3>1 DEF net
  <2>3. Same(twice, plain)
    BY <1>1, <1>7, SideTwice
  <2>4. Same(plain, Minus(held, spent))
    BY <1>1, <1>2, Distributes
  <2> HIDE DEF net, gain, pnl, held, spent
  <2>5. Same(pnl, gain)
    BY <1>7, <2>1, <2>2, SameTrans
  <2>6. more \in Frac /\ Same(more, twice)
    BY <1>6, <1>7, <2>2, <2>5, FracOps, SameTimes, SameRefl
  <2>7. twice \in Frac /\ plain \in Frac /\ Minus(held, spent) \in Frac
    BY <1>1, <1>6, <1>7, FracOps
  <2> HIDE DEF more, twice, plain
  <2>8. Same(more, plain)
    BY <2>3, <2>6, <2>7, SameTrans
  <2> QED BY <2>4, <2>6, <2>7, <2>8, SameTrans
\* so that both are in balance again
<1>10. booked \in Frac /\ Same(cash, Plus(Of(Capital), booked))
  <2> HIDE DEF more, held, spent, all, cash
  <2> DEFINE left == Minus(held, all)
             sum  == Plus(b, more)
             sum2 == Plus(b, left)
  <2>1. Same(Minus(held, spent), left)
    BY <1>1, <1>6, SamePlus, SameRefl
  <2>2. Minus(held, spent) \in Frac /\ left \in Frac
    BY <1>6, FracOps
  <2> HIDE DEF left
  <2>3. Same(more, left)
    BY <1>9, <2>1, <2>2, SameTrans
  <2>4. sum \in Frac /\ sum2 \in Frac /\ Same(sum, sum2)
    BY <1>1, <1>9, <2>2, <2>3, FracOps, SamePlus, SameRefl
  <2>5. booked \in Frac /\ Same(booked, sum)
    <3> HIDE DEF sum
    <3>1. Reduced(sum) \in Frac /\ Same(Reduced(sum), sum)
      BY <2>4, ReducedSame
    <3> QED BY <3>1 DEF sum
  <2> HIDE DEF sum, booked
  <2>6. Same(booked, sum2)
    BY <2>4, <2>5, SameTrans
  <2>7. Same(Plus(Of(Capital), sum2), held)
    BY <1>1, <1>6, Telescopes DEF left, all, sum2
  <2> HIDE DEF sum2
  <2>8. /\ Plus(Of(Capital), booked) \in Frac /\ Plus(Of(Capital), sum2) \in Frac
        /\ Same(Plus(Of(Capital), booked), Plus(Of(Capital), sum2))
    BY <1>6, <2>4, <2>5, <2>6, FracOps, SamePlus, SameRefl
  <2>9. Same(Plus(Of(Capital), booked), held)
    BY <1>6, <2>7, <2>8, SameTrans
  <2>10. Same(held, Plus(Of(Capital), booked))
    BY <1>6, <2>8, <2>9, SameRefl, SameTrans
  <2> QED BY <1>6, <1>8, <2>5, <2>8, <2>10, SameTrans
<1> DEFINE closed == [a EXCEPT !.cash = cash, !.side = 0, !.qty = Zero,
                               !.entry = Zero]
<1> HIDE DEF cash, booked
<1>11. /\ closed \in Accounts /\ closed.side = 0 /\ closed.qty = Zero
       /\ closed.cash = cash
  BY <1>1, <1>8, OfFrac DEF Accounts
<1> HIDE DEF closed
<1>12. Balanced(closed, booked)
  BY <1>10, <1>11 DEF Balanced
<1>13. Reduced(Plus(b, Signed(Trade(c, a, open, ts)))) = booked
  BY <1>3 DEF booked
<1>14. Closed(c, a, open) = closed
  BY <1>4 DEF closed
<1> QED BY <1>12, <1>13, <1>14

-----------------------------------------------------------------------------
\* The equity.

\* (p - e) (s q) = s (q p - q e)
LEMMA SideGain ==
    ASSUME NEW s \in Int, NEW p \in Frac, NEW e \in Frac, NEW q \in Frac
    PROVE  Same(Times(Minus(p, e), Times(Of(s), q)),
                Times(Of(s), Minus(Times(q, p), Times(q, e))))
<1> DEFINE p1 == p[1]  p2 == p[2]  e1 == e[1]  e2 == e[2]  q1 == q[1]  q2 == q[2]
<1>1. /\ p1 \in Int /\ p2 \in Int /\ e1 \in Int /\ e2 \in Int
      /\ q1 \in Int /\ q2 \in Int
  BY Parts
<1> HIDE DEF p1, p2, e1, e2, q1, q2
<1>2. ((p1 * e2 - e1 * p2) * (s * q1)) * (1 * ((q2 * p2) * (q2 * e2)))
        = (s * ((q1 * p1) * (q2 * e2) - (q1 * e1) * (q2 * p2)))
            * ((p2 * e2) * (1 * q2))
  BY <1>1
<1> QED BY <1>2 DEF Same, Times, Minus, Of, p1, p2, e1, e2, q1, q2

\* s (h - e) + (h - h t) = (e + (1 + s) (h - e)) + h (0 - t)
LEMMA GainTwice ==
    ASSUME NEW s \in {-1, 1}, NEW h \in Frac, NEW e \in Frac, NEW t \in Frac
    PROVE  Same(Plus(Times(Of(s), Minus(h, e)), Minus(h, Times(h, t))),
                Plus(Plus(e, Times(Of(1 + s), Minus(h, e))),
                     Times(h, Minus(Zero, t))))
<1> DEFINE h1 == h[1]  h2 == h[2]  e1 == e[1]  e2 == e[2]  t1 == t[1]  t2 == t[2]
           g  == h1 * e2 - e1 * h2
<1>1. /\ h1 \in Int /\ h2 \in Int /\ e1 \in Int /\ e2 \in Int
      /\ t1 \in Int /\ t2 \in Int /\ s \in Int
  BY Parts
<1>2. Plus(Times(Of(s), Minus(h, e)), Minus(h, Times(h, t)))
        = <<(s * g) * (h2 * (h2 * t2))
              + (h1 * (h2 * t2) - (h1 * t1) * h2) * (1 * (h2 * e2)),
            (1 * (h2 * e2)) * (h2 * (h2 * t2))>>
  BY DEF Plus, Times, Minus, Of
<1>3. Plus(Plus(e, Times(Of(1 + s), Minus(h, e))), Times(h, Minus(Zero, t)))
        = <<(e1 * (1 * (h2 * e2)) + ((1 + s) * g) * e2) * (h2 * (1 * t2))
              + (h1 * (0 * t2 - t1 * 1)) * (e2 * (1 * (h2 * e2))),
            (e2 * (1 * (h2 * e2))) * (h2 * (1 * t2))>>
  BY DEF Plus, Times, Minus, Of, Zero
<1> HIDE DEF h1, h2, e1, e2, t1, t2
<1>4. ((s * g) * (h2 * (h2 * t2))
         + (h1 * (h2 * t2) - (h1 * t1) * h2) * (1 * (h2 * e2)))
        * ((e2 * (1 * (h2 * e2))) * (h2 * (1 * t2)))
      = ((e1 * (1 * (h2 * e2)) + ((1 + s) * g) * e2) * (h2 * (1 * t2))
           + (h1 * (0 * t2 - t1 * 1)) * (e2 * (1 * (h2 * e2))))
          * ((1 * (h2 * e2)) * (h2 * (h2 * t2)))
  <2>1. CASE s = 1
    BY <1>1, <2>1
  <2>2. CASE s = -1
    BY <1>1, <2>2
  <2> QED BY <2>1, <2>2
<1> QED BY <1>2, <1>3, <1>4 DEF Same

\* The equity of _update_equity before its floor.
Worth(c, a, price) ==
    LET held == Times(a.qty, Of(price))
        unrealized == Times(Minus(Of(price), a.entry),
                            Times(Of(a.side), a.qty))
    IN Plus(Plus(a.cash, unrealized), Minus(held, Times(held, TakerRate(c))))

\* The same from what the trades have come to.
Reckoned(c, a, price, b) ==
    LET held == Reduced(Times(a.qty, Of(price)))
        gain == Reduced(Minus(held, Times(a.qty, a.entry)))
        flat == Reduced(Plus(Of(Capital), b))
    IN Plus(Reduced(Plus(flat, Times(Of(1 + a.side), gain))),
            Times(held, Minus(Zero, TakerRate(c))))

LEMMA RateFrac == \A c \in Configs : TakerRate(c) \in Frac
BY BacktestAssumption DEF TakerRate, Frac

\* Without the reductions, which change no value.
LEMMA Unreduced ==
    ASSUME NEW c \in Configs, NEW a \in Accounts, NEW price \in Prices,
           NEW b \in Frac
    PROVE  LET h == Times(a.qty, Of(price))
               e == Times(a.qty, a.entry)
           IN /\ Reckoned(c, a, price, b) \in Frac
              /\ Same(Reckoned(c, a, price, b),
                      Plus(Plus(Plus(Of(Capital), b),
                                Times(Of(1 + a.side), Minus(h, e))),
                           Times(h, Minus(Zero, TakerRate(c)))))
<1> DEFINE h == Times(a.qty, Of(price))
           e == Times(a.qty, a.entry)
           n == Of(1 + a.side)
           k == Plus(Of(Capital), b)
           r == Minus(Zero, TakerRate(c))
           held == Reduced(h)
           diff == Minus(held, e)
           gain == Reduced(diff)
           flat == Reduced(k)
           sum  == Plus(flat, Times(n, gain))
           whole == Reduced(sum)
<1>1. /\ h \in Frac /\ e \in Frac /\ n \in Frac /\ k \in Frac /\ r \in Frac
  <2>1. /\ a.qty \in Frac /\ a.entry \in Frac /\ Of(price) \in Frac
        /\ a.side \in Int /\ 1 + a.side \in Int
    BY BacktestAssumption, OfFrac DEF Accounts
  <2> QED BY <2>1, OfFrac, FracOps, CapitalPlus, RateFrac
<1>2. Reckoned(c, a, price, b) = Plus(whole, Times(held, r))
  BY DEF Reckoned
<1> HIDE DEF h, e, n, k, r
<1>3. held \in Frac /\ Same(held, h)
  BY <1>1, ReducedSame
<1>4. flat \in Frac /\ Same(flat, k)
  BY <1>1, ReducedSame
<1> HIDE DEF held, flat
<1>5. /\ diff \in Frac /\ Minus(h, e) \in Frac
      /\ Same(diff, Minus(h, e))
  BY <1>1, <1>3, FracOps, SamePlus, SameRefl
<1> HIDE DEF diff
<1>6. gain \in Frac /\ Same(gain, diff)
  BY <1>5, ReducedSame
<1> HIDE DEF gain
<1>7. Same(gain, Minus(h, e))
  BY <1>5, <1>6, SameTrans
<1> DEFINE part == Times(n, Minus(h, e))
<1>8. /\ Times(n, gain) \in Frac /\ part \in Frac /\ Same(Times(n, gain), part)
  BY <1>1, <1>5, <1>6, <1>7, FracOps, SameTimes, SameRefl
<1> HIDE DEF part
<1>9. /\ sum \in Frac /\ Plus(k, part) \in Frac /\ Same(sum, Plus(k, part))
  BY <1>1, <1>4, <1>8, FracOps, SamePlus
<1> HIDE DEF sum
<1>10. whole \in Frac /\ Same(whole, sum)
  BY <1>9, ReducedSame
<1> HIDE DEF whole
<1>11. Same(whole, Plus(k, part))
  BY <1>9, <1>10, SameTrans
<1>12. /\ Times(held, r) \in Frac /\ Times(h, r) \in Frac
       /\ Same(Times(held, r), Times(h, r))
  BY <1>1, <1>3, FracOps, SameTimes, SameRefl
<1>13. /\ Plus(whole, Times(held, r)) \in Frac
       /\ Same(Plus(whole, Times(held, r)), Plus(Plus(k, part), Times(h, r)))
  BY <1>9, <1>10, <1>11, <1>12, FracOps, SamePlus
<1> QED BY <1>2, <1>13 DEF h, e, n, k, r, part

\* The two are the same number when the account is in balance: with no position
\* both are the cash; with one, both count its gain once more, with its sign.
LEMMA WorthReckoned ==
    ASSUME NEW c \in Configs, NEW a, NEW b, Balanced(a, b), NEW price \in Prices
    PROVE  /\ Worth(c, a, price) \in Frac /\ Reckoned(c, a, price, b) \in Frac
           /\ Same(Worth(c, a, price), Reckoned(c, a, price, b))
<1> DEFINE h == Times(a.qty, Of(price))
           e == Times(a.qty, a.entry)
           s == a.side
           t == TakerRate(c)
           k == Plus(Of(Capital), b)
           d == Minus(h, e)
           u == Times(Minus(Of(price), a.entry), Times(Of(s), a.qty))
           v == Minus(h, Times(h, t))
           r == Times(h, Minus(Zero, t))
           x == Plus(Plus(k, Times(Of(1 + s), d)), r)
<1>1. /\ a \in Accounts /\ b \in Frac /\ s \in {-1, 0, 1}
      /\ a.cash \in Frac /\ a.qty \in Frac /\ a.entry \in Frac
      /\ s = 0 => a.qty = Zero /\ Same(a.cash, k)
      /\ s # 0 => a.cash[1] = 0 /\ Same(e, k)
  BY DEF Balanced, Accounts
<1>2. /\ Of(price) \in Frac /\ Of(s) \in Frac /\ Of(1 + s) \in Frac
      /\ Zero \in Frac /\ t \in Frac /\ k \in Frac
  <2>1. price \in Int /\ s \in Int /\ 1 + s \in Int
    BY <1>1, BacktestAssumption
  <2> QED BY <1>1, <2>1, OfFrac, RateFrac, CapitalPlus
<1>3. /\ h \in Frac /\ e \in Frac
      /\ Minus(Of(price), a.entry) \in Frac /\ Times(Of(s), a.qty) \in Frac
      /\ Minus(Zero, t) \in Frac
  BY <1>1, <1>2, FracOps
<1>4. Worth(c, a, price) = Plus(Plus(a.cash, u), v)
  BY DEF Worth
<1>5. /\ Reckoned(c, a, price, b) \in Frac
      /\ Same(Reckoned(c, a, price, b), x)
  BY <1>1, Unreduced
<1> HIDE DEF t, k
<1>6. u \in Frac /\ r \in Frac /\ d \in Frac /\ Times(h, t) \in Frac
  BY <1>1, <1>2, <1>3, FracOps
<1>7. v \in Frac /\ Times(Of(1 + s), d) \in Frac
  BY <1>2, <1>3, <1>6, FracOps
<1>8. Plus(k, Times(Of(1 + s), d)) \in Frac /\ Plus(a.cash, u) \in Frac
  BY <1>1, <1>2, <1>6, <1>7, FracOps
<1>9. x \in Frac /\ Plus(Plus(a.cash, u), v) \in Frac
  BY <1>6, <1>7, <1>8, FracOps
<1>10. Same(Plus(Plus(a.cash, u), v), x)
  <2>1. CASE s = 0
    <3>1. a.qty = Zero /\ Same(a.cash, k) /\ Zero[1] = 0
      BY <1>1, <2>1 DEF Zero, Of
    <3>2. h[1] = 0 /\ e[1] = 0
      BY <1>1, <1>2, <3>1, ZeroAdds
    <3>3. Times(Of(s), a.qty)[1] = 0
      BY <1>2, <3>1, ZeroAdds
    <3>4. u[1] = 0
      BY <1>3, <3>3, ZeroAdds
    <3>5. Times(h, t)[1] = 0 /\ r[1] = 0
      BY <1>2, <1>3, <3>2, ZeroAdds
    <3>6. d[1] = 0 /\ v[1] = 0
      <4>1. \A p, q \in Frac : p[1] = 0 /\ q[1] = 0 => Minus(p, q)[1] = 0
        BY Parts DEF Minus
      <4> QED BY <1>3, <1>6, <3>2, <3>5, <4>1
    <3>7. Times(Of(1 + s), d)[1] = 0
      BY <1>2, <1>6, <3>6, ZeroAdds
    <3> HIDE DEF h, e, u, v, r, d
    <3>8. Same(Plus(a.cash, u), a.cash)
      BY <1>1, <1>6, <3>4, ZeroAdds
    <3>9. Same(Plus(Plus(a.cash, u), v), Plus(a.cash, u))
      BY <1>7, <1>8, <3>6, ZeroAdds
    <3>10. Same(Plus(Plus(a.cash, u), v), k)
      BY <1>1, <1>2, <1>8, <1>9, <3>1, <3>8, <3>9, SameTrans
    <3> DEFINE y == Plus(k, Times(Of(1 + s), d))
    <3>11. Same(y, k)
      BY <1>2, <1>7, <3>7, ZeroAdds
    <3>12. Same(Plus(y, r), y)
      BY <1>6, <1>8, <3>5, ZeroAdds
    <3>13. Same(k, x)
      <4>1. y \in Frac /\ x = Plus(y, r)
        BY <1>8
      <4> HIDE DEF y, x
      <4>2. Same(x, k)
        BY <1>2, <1>9, <3>11, <3>12, <4>1, SameTrans
      <4> QED BY <1>2, <1>9, <4>2, SameRefl, SameTrans
    <3> HIDE DEF x
    <3> QED BY <1>2, <1>9, <3>10, <3>13, SameTrans
  <2>2. CASE s # 0
    <3> DEFINE g == Times(Of(s), d)
               z == Plus(e, Times(Of(1 + s), d))
    <3>1. s \in {-1, 1} /\ a.cash[1] = 0 /\ Same(e, k)
      BY <1>1, <2>2
    <3>2. g \in Frac /\ z \in Frac
      BY <1>2, <1>3, <1>6, <1>7, FracOps
    <3>3. Same(u, g)
      BY <1>1, <1>2, SideGain
    <3>4. Same(Plus(g, v), Plus(z, r))
      BY <1>2, <1>3, <3>1, GainTwice
    <3> HIDE DEF h, e, u, v, r, d, g
    <3>5. Same(Plus(a.cash, u), u)
      BY <1>1, <1>6, <3>1, ZeroAdds
    <3>6. Same(Plus(a.cash, u), g)
      BY <1>6, <1>8, <3>2, <3>3, <3>5, SameTrans
    <3>7. Plus(g, v) \in Frac /\ Same(Plus(Plus(a.cash, u), v), Plus(g, v))
      BY <1>7, <1>8, <3>2, <3>6, FracOps, SamePlus, SameRefl
    <3>8. Same(z, Plus(k, Times(Of(1 + s), d)))
      BY <1>2, <1>3, <1>7, <3>1, SamePlus, SameRefl
    <3> HIDE DEF z
    <3>9. Plus(z, r) \in Frac /\ Same(Plus(z, r), x)
      BY <1>6, <1>8, <3>2, <3>8, FracOps, SamePlus, SameRefl
    <3> HIDE DEF x
    <3>10. Same(Plus(g, v), x)
      BY <1>9, <3>4, <3>7, <3>9, SameTrans
    <3> QED BY <1>9, <3>7, <3>10, SameTrans
  <2> QED BY <2>1, <2>2
<1> HIDE DEF x, u, v
<1>11. Same(x, Reckoned(c, a, price, b))
  BY <1>5, <1>9, SameRefl, SameTrans
<1>12. Same(Plus(Plus(a.cash, u), v), Reckoned(c, a, price, b))
  BY <1>5, <1>9, <1>10, <1>11, SameTrans
<1> QED BY <1>4, <1>5, <1>9, <1>12

\* Inductive: without a fee on opening the account balances what the trades have
\* come to; and after the last bar the equity is that of its close.
MoneyInv ==
    /\ config \in Configs /\ bar \in Nat /\ bars \in Nat
    /\ \E S : trades \in Seq(S)
    /\ FeeRate(config)[1] = 0 => Balanced(account, Booked(trades))
    /\ bar > bars /\ bars > 0 =>
          close \in Prices /\ equity = Marked(config, account, close)

LEMMA MoneyInitially == BacktestInit => MoneyInv
<1> SUFFICES ASSUME BacktestInit PROVE MoneyInv
  OBVIOUS
<1>1. config \in Configs /\ bar = 1 /\ bars \in Nat /\ trades = <<>>
  BY BacktestAssumption DEF BacktestInit
<1>2. trades \in Seq({})
  BY <1>1
<1>3. Balanced(account, Zero)
  <2>1. account = [cash |-> Of(Capital), side |-> 0, qty |-> Zero,
                   entry |-> Zero, since |-> 0]
    BY DEF BacktestInit
  <2>2. Of(Capital) \in Frac /\ Zero \in Frac /\ Zero[1] = 0
    BY CapitalPlus, OfFrac DEF Zero, Of
  <2>3. Same(Of(Capital), Plus(Of(Capital), Zero))
    <3>1. Plus(Of(Capital), Zero) \in Frac
      BY <2>2, FracOps
    <3>2. Same(Plus(Of(Capital), Zero), Of(Capital))
      BY <2>2, ZeroAdds
    <3> QED BY <2>2, <3>1, <3>2, SameRefl, SameTrans
  <2> QED BY <2>1, <2>2, <2>3 DEF Balanced, Accounts
<1> QED BY <1>1, <1>2, <1>3, BookedNone DEF MoneyInv

LEMMA MoneyNext == MoneyInv /\ [BacktestNext]_backtest => MoneyInv'
<1> SUFFICES ASSUME MoneyInv, [BacktestNext]_backtest PROVE MoneyInv'
  OBVIOUS
<1>1. CASE Keeps
  BY <1>1 DEF Keeps, Iterates, MoneyInv
<1>2. CASE BacktestReturns \/ UNCHANGED backtest
  BY <1>2 DEF BacktestReturns, backtest, MoneyInv
<1>3. CASE Execute
  <2>1. /\ bar < bars /\ bar' = bar + 1 /\ UNCHANGED <<config, bars>>
        /\ config \in Configs /\ bar \in Nat /\ bars \in Nat
    BY <1>3 DEF Execute, Turns, Iterates, MoneyInv
  <2>2. ~(bar' > bars')
    BY <2>1
  <2>3. PICK S : trades \in Seq(S)
    BY DEF MoneyInv
  <2>4. PICK side \in {-1, 0, 1} \ {account.side}, open \in Prices :
          /\ trades' = IF account.side = 0 THEN trades
                       ELSE Append(trades,
                                   Trade(config, account, open, bar + 1))
          /\ account' = IF side = 0
                        THEN IF account.side = 0 THEN account
                             ELSE Closed(config, account, open)
                        ELSE Opened(config,
                                    IF account.side = 0 THEN account
                                    ELSE Closed(config, account, open),
                                    side, open, bar + 1)
    BY <1>3, Zenon DEF Execute, Turns
  <2> DEFINE t == Trade(config, account, open, bar + 1)
             flat == IF account.side = 0 THEN account
                     ELSE Closed(config, account, open)
  <2>5. \E U : trades' \in Seq(U)
    <3>1. CASE account.side = 0
      BY <2>3, <2>4, <3>1
    <3>2. CASE account.side # 0
      <4>1. trades' = Append(trades, t)
        BY <2>4, <3>2
      <4> HIDE DEF t
      <4>2. Append(trades, t) \in Seq(S \cup {t})
        BY <2>3, AppendedAny
      <4> QED BY <4>1, <4>2
    <3> QED BY <3>1, <3>2
  <2>6. ASSUME FeeRate(config)[1] = 0
        PROVE  Balanced(account', Booked(trades'))
    <3>1. Balanced(account, Booked(trades))
      BY <2>6 DEF MoneyInv
    <3>2. Balanced(flat, Booked(trades')) /\ flat.side = 0
      <4>1. CASE account.side = 0
        BY <2>4, <3>1, <4>1
      <4>2. CASE account.side # 0
        <5>1. trades' = Append(trades, t) /\ flat = Closed(config, account, open)
          BY <2>4, <4>2
        <5>2. Booked(trades') = Reduced(Plus(Booked(trades), Signed(t)))
          BY <2>3, <5>1, BookedMore
        <5>3. Balanced(Closed(config, account, open), Booked(trades'))
          BY <2>1, <2>4, <2>6, <3>1, <4>2, <5>2, ClosedBalances
        <5>4. Closed(config, account, open).side = 0
          <6>1. account \in Accounts
            BY <3>1 DEF Balanced
          <6> QED BY <6>1 DEF Closed, Accounts
        <5> QED BY <5>1, <5>3, <5>4
      <4> QED BY <4>1, <4>2
    <3>3. account' = IF side = 0 THEN flat
                     ELSE Opened(config, flat, side, open, bar + 1)
      BY <2>4
    <3> HIDE DEF flat
    <3>4. CASE side = 0
      BY <3>2, <3>3, <3>4
    <3>5. CASE side # 0
      <4>1. side \in {-1, 1} /\ bar + 1 \in Nat
        BY <2>1, <3>5
      <4>2. Balanced(Opened(config, flat, side, open, bar + 1), Booked(trades'))
        BY <2>1, <2>6, <3>2, <4>1, OpenedBalances
      <4> QED BY <3>3, <3>5, <4>2
    <3> QED BY <3>4, <3>5
  <2> QED BY <2>1, <2>2, <2>5, <2>6 DEF MoneyInv
<1> QED BY <1>1, <1>2, <1>3 DEF BacktestNext

\* For every configuration, sequence of prices and signals and number of bars, the
\* account is in balance with the log of trades when opening costs no fee
\* (engine.py:120, engine.py:138).
THEOREM InBalance == BacktestSpec => []MoneyInv
<1> QED BY MoneyInitially, MoneyNext, PTL DEF BacktestSpec

ResultInv == result = "metrics" => bar > bars /\ bars > 0

\* The metrics are returned after the last of at least one bar.
LEMMA ResultNext ==
    MoneyInv /\ ResultInv /\ [BacktestNext]_backtest => ResultInv'
BY DEF ResultInv, BacktestNext, Keeps, Execute, Turns, Iterates, BacktestReturns,
       backtest, MoneyInv

\* Without a fee on opening, the final equity is the capital and what the trades
\* come to; of an open position it counts the gain of a long twice and that of a
\* short not at all, less the fee of selling; and it is never less than a cent:
\* for every configuration, sequence of prices and signals and number of bars
\* (engine.py:167, engine.py:187).
THEOREM FinalEquityAlways == BacktestSpec => []FinalEquity
<1>1. BacktestInit => ResultInv
  BY DEF BacktestInit, ResultInv
<1>2. ASSUME MoneyInv, ResultInv PROVE FinalEquity
  <2> SUFFICES ASSUME result = "metrics", FeeRate(config)[1] = 0
               PROVE  LET sum == Reckoned(config, account, close, Booked(trades))
                      IN Same(equity, IF Less(sum, Floor) THEN Floor ELSE sum)
    BY DEF FinalEquity, Reckoned
  <2> DEFINE sum   == Reckoned(config, account, close, Booked(trades))
             worth == Worth(config, account, close)
  <2>1. /\ config \in Configs /\ close \in Prices
        /\ Balanced(account, Booked(trades))
        /\ equity = Marked(config, account, close)
    BY <1>2 DEF MoneyInv, ResultInv
  <2>2. equity = IF Less(worth, Floor) THEN Floor ELSE Reduced(worth)
    BY <2>1 DEF Marked, Worth
  <2>3. worth \in Frac /\ sum \in Frac /\ Same(worth, sum)
    BY <2>1, WorthReckoned
  <2> HIDE DEF worth, sum
  <2>4. Less(worth, Floor) <=> Less(sum, Floor)
    BY <2>3, SameLess, OfFrac
  <2>5. Reduced(worth) \in Frac /\ Same(Reduced(worth), worth)
    BY <2>3, ReducedSame
  <2>6. Same(Reduced(worth), sum)
    BY <2>3, <2>5, SameTrans
  <2> QED BY <2>2, <2>4, <2>6, OfFrac, SameRefl DEF sum
<1> QED BY <1>1, <1>2, InBalance, ResultNext, PTL DEF BacktestSpec
=============================================================================
