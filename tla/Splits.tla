------------------------------- MODULE Splits -------------------------------
(***************************************************************************)
(* The cross-validation splitters of backend/app/ml/cv.py, each as the     *)
(* sequence of (train, test) index sets that one call yields or returns.   *)
(***************************************************************************)
EXTENDS Integers, Sequences, FiniteSets

CONSTANTS
    KFoldCalls,     \* calls of PurgedKFold.split: embargo is what
                    \* int(n * pct_embargo) gives
    PurgedCalls,    \* calls of purged_kfold_split
    WalkCalls,      \* calls of walk_forward_splits
    CombiCalls      \* calls of combinatorial_purged_cv

Calls == KFoldCalls \cup PurgedCalls \cup WalkCalls \cup CombiCalls

ASSUME SplitsAssumption ==
    /\ KFoldCalls \subseteq
          [alg : {"kfold"}, n : Nat, folds : Nat \ {0}, embargo : Nat]
    /\ PurgedCalls \subseteq
          [alg : {"purged"}, n : Nat, folds : Nat \ {0}, horizon : Nat,
           embargo : Nat]
    /\ WalkCalls \subseteq
          [alg : {"walk"}, n : Nat, train : Nat \ {0}, test : Nat \ {0},
           step : Nat \ {0}, expanding : BOOLEAN]
    /\ CombiCalls \subseteq
          [alg : {"combi"}, n : Nat, folds : Nat \ {0}, ktest : Nat \ {0},
           embargo : Nat]

VARIABLES
    call,       \* the call and its arguments
    cursor,     \* k of the loop over folds, start of walk_forward_splits
    todo,       \* combinations of groups still to be tried
    yields,     \* the splits so far
    outcome     \* "running", "returned", "raised"

splitsVars == <<call, cursor, todo, yields, outcome>>

\* numpy: idx[a:b] of idx = arange(n), for a, b >= 0
Slice(n, a, b) == {i \in 0..(n - 1) : a <= i /\ i < b}

Most(a, b) == IF a >= b THEN a ELSE b

\* ts and te of fold k; of the groups of combinatorial_purged_cv as well
From(c, k) == k * (c.n \div c.folds)
\* Mutant of To: the last fold is no longer than the others.
ToEqual(c, k) == (k + 1) * (c.n \div c.folds)
To(c, k)   == IF k < c.folds - 1 THEN (k + 1) * (c.n \div c.folds) ELSE c.n
Block(c, k) == Slice(c.n, From(c, k), To(c, k))

Combinations(c) == {s \in SUBSET (0..(c.folds - 1)) : Cardinality(s) = c.ktest}

SplitsInit ==
    /\ call \in Calls
    /\ cursor = 0
    /\ todo = IF call.alg = "combi" THEN Combinations(call) ELSE {}
    /\ yields = <<>> /\ outcome = "running"

-----------------------------------------------------------------------------
\* PurgedKFold.split

KFoldTrain(c, k) ==
    (0..(c.n - 1)) \ (Block(c, k) \cup
                      Slice(c.n, To(c, k), To(c, k) + c.embargo))

KFoldYields ==
    /\ call.alg = "kfold" /\ cursor < call.folds
    /\ yields' = Append(yields, [train |-> KFoldTrain(call, cursor),
                                 test  |-> Block(call, cursor)])
    /\ cursor' = cursor + 1
    /\ UNCHANGED <<call, todo, outcome>>

-----------------------------------------------------------------------------
\* purged_kfold_split

\* Mutant of PurgedTrain: the purge ends with the block, and so the embargo
\* begins one index later than it.
PurgedTrainGap(c, k) ==
    (0..(c.n - 1))
      \ (Slice(c.n, Most(0, From(c, k) - c.horizon), To(c, k)) \cup
         Slice(c.n, To(c, k) + 1, To(c, k) + 1 + c.embargo))

\* Mutant of PurgedTrain: the embargo is as long as the labels at least.
PurgedTrainLong(c, k) ==
    (0..(c.n - 1))
      \ Slice(c.n, Most(0, From(c, k) - c.horizon),
              To(c, k) + 2 + Most(c.embargo, c.horizon))

PurgedTrain(c, k) ==
    (0..(c.n - 1))
      \ (Slice(c.n, Most(0, From(c, k) - c.horizon), To(c, k) + 1) \cup
         Slice(c.n, To(c, k) + 1, To(c, k) + 1 + c.embargo))

PurgedYields ==
    /\ call.alg = "purged" /\ cursor < call.folds
    /\ yields' = Append(yields, [train |-> PurgedTrain(call, cursor),
                                 test  |-> Block(call, cursor)])
    /\ cursor' = cursor + 1
    /\ UNCHANGED <<call, todo, outcome>>

-----------------------------------------------------------------------------
\* walk_forward_splits

\* Mutant of WalkFits: the last window is left out.
WalkFitsLess(c, start) == start + c.train + c.test < c.n

WalkFits(c, start) == start + c.train + c.test <= c.n

WalkSplit(c, start) ==
    [train |-> (IF c.expanding THEN 0 ELSE start)..(start + c.train - 1),
     test  |-> (start + c.train)..(start + c.train + c.test - 1)]

WalkYields ==
    /\ call.alg = "walk" /\ WalkFits(call, cursor)
    /\ yields' = Append(yields, WalkSplit(call, cursor))
    /\ cursor' = cursor + call.step
    /\ UNCHANGED <<call, todo, outcome>>

-----------------------------------------------------------------------------
\* combinatorial_purged_cv

Purged(c, i, s) ==
    \E j \in s : \E t \in Block(c, j) : To(c, i) - 1 >= t
Embargoed(c, i, s) ==
    \E j \in s : \E t \in Block(c, j) : From(c, i) <= t + Most(1, c.embargo)

Kept(c, s) == {i \in (0..(c.folds - 1)) \ s :
                  ~Purged(c, i, s) /\ ~Embargoed(c, i, s)}

\* The indexing of an empty group raises, and so does min() of no test index.
EmptyGroup(c, s) ==
    \/ \E i \in (0..(c.folds - 1)) \ s : Block(c, i) = {}
    \/ \A i \in s : Block(c, i) = {}

\* itertools.combinations goes through them in lexicographic order.
Comes(s) == \A t \in todo \ {s} : \E i \in s \ t : \A j \in t \ s : i < j

CombiTries ==
    \E s \in todo :
        /\ Comes(s) /\ ~EmptyGroup(call, s)
        /\ yields' = IF Kept(call, s) = {} THEN yields
                     ELSE Append(yields,
                            [train |-> UNION {Block(call, i) :
                                                i \in Kept(call, s)},
                             test  |-> UNION {Block(call, i) : i \in s}])
        /\ todo' = todo \ {s}
        /\ UNCHANGED <<call, cursor, outcome>>

CombiRaises ==
    \E s \in todo :
        /\ Comes(s) /\ EmptyGroup(call, s)
        /\ outcome' = "raised" /\ todo' = {}
        /\ UNCHANGED <<call, cursor, yields>>

-----------------------------------------------------------------------------
Returns ==
    /\ outcome = "running"
    /\ \/ call.alg \in {"kfold", "purged"} /\ cursor >= call.folds
       \/ call.alg = "walk" /\ ~WalkFits(call, cursor)
       \/ call.alg = "combi" /\ todo = {}
    /\ outcome' = "returned"
    /\ UNCHANGED <<call, cursor, todo, yields>>

SplitsNext ==
    \/ KFoldYields \/ PurgedYields \/ WalkYields
    \/ CombiTries \/ CombiRaises \/ Returns

SplitsSpec == SplitsInit /\ [][SplitsNext]_splitsVars

-----------------------------------------------------------------------------
\* Properties

Split == [train : SUBSET Nat, test : SUBSET Nat]

SplitsTypeOK ==
    /\ call \in Calls /\ cursor \in Nat
    /\ todo \subseteq SUBSET Nat
    /\ yields \in Seq(Split)
    /\ outcome \in {"running", "returned", "raised"}

\* The splits so far are those of the loop's earlier iterations.
YieldsInv ==
    /\ call.alg \in {"kfold", "purged"} =>
          /\ cursor = Len(yields) /\ cursor <= call.folds
          /\ outcome # "running" => cursor = call.folds
    /\ call.alg = "kfold" => \A p \in DOMAIN yields :
          yields[p] = [train |-> KFoldTrain(call, p - 1),
                       test  |-> Block(call, p - 1)]
    /\ call.alg = "purged" => \A p \in DOMAIN yields :
          yields[p] = [train |-> PurgedTrain(call, p - 1),
                       test  |-> Block(call, p - 1)]
    /\ call.alg = "walk" =>
          /\ cursor = Len(yields) * call.step
          /\ \A p \in DOMAIN yields :
                /\ yields[p] = WalkSplit(call, (p - 1) * call.step)
                /\ WalkFits(call, (p - 1) * call.step)
          /\ outcome # "running" => ~WalkFits(call, cursor)
    /\ call.alg = "combi" =>
          /\ \A s \in todo : s \subseteq 0..(call.folds - 1)
          /\ yields = <<>>
    /\ call.alg # "combi" => todo = {}

SplitsInv == SplitsTypeOK /\ YieldsInv

\* The labels of i and j, each of which spans h bars, overlap.
Overlap(i, j, h) == i <= j + h /\ j <= i + h

\* Purging does what it is for ("removes training observations whose label span
\* overlaps the test set"): no label of a training index overlaps one of a test
\* index.  On the far side of the block only the embargo separates them, and it
\* must not be shorter than the labels by more than a bar.
NoLeakage ==
    call.alg = "purged" /\ call.horizon <= call.embargo + 1 =>
        \A p \in DOMAIN yields :
            \A i \in yields[p].train, j \in yields[p].test :
                ~Overlap(i, j, call.horizon)

\* And it removes no more than that and the embargo, which is one index longer
\* than asked for.
NothingWasted ==
    call.alg = "purged" =>
        \A p \in DOMAIN yields :
            yields[p].test # {} =>
                \A i \in (0..(call.n - 1)) \ (yields[p].train \cup yields[p].test) :
                    \E j \in yields[p].test :
                        \/ Overlap(i, j, call.horizon)
                        \/ j < i /\ i <= j + call.embargo + 1

\* The embargo of both k-fold splitters: no training index lies within it.
EmbargoKept ==
    call.alg \in {"kfold", "purged"} =>
        \A p \in DOMAIN yields :
            \A i \in yields[p].train, j \in yields[p].test :
                i < j \/ i > j + call.embargo

\* Every index is tested once: the test blocks are disjoint, and when the call
\* has returned they cover all indices.
TestedOnce ==
    call.alg \in {"kfold", "purged"} =>
        /\ \A p, q \in DOMAIN yields :
              p # q => yields[p].test \cap yields[q].test = {}
        /\ outcome = "returned" =>
              0..(call.n - 1) = UNION {yields[p].test : p \in DOMAIN yields}

\* Walk-forward windows train on the past only, do not test an index twice when
\* the step is no shorter than the test, and leave less than a step at the end.
WalksForward ==
    call.alg = "walk" =>
        /\ \A p \in DOMAIN yields :
              /\ \A i \in yields[p].train, j \in yields[p].test : i < j
              /\ yields[p].test \subseteq 0..(call.n - 1)
        /\ call.step >= call.test =>
              \A p, q \in DOMAIN yields :
                  p # q => yields[p].test \cap yields[q].test = {}
        /\ outcome = "returned" =>
              IF yields = <<>> THEN call.train + call.test > call.n
              ELSE \E j \in yields[Len(yields)].test :
                      call.n - (j + 1) < call.step

\* "For each C(n_folds, k_test) combination, k_test groups form the test set [...]
\* C(6,2) = 15 splits" (cv.py:96).  Violated.
CombinesAll ==
    call.alg = "combi" /\ outcome = "returned" =>
        Len(yields) = Cardinality(Combinations(call))

\* What there is in its place: combinatorial_purged_cv returns no split, whatever
\* its arguments, because a group that does not end at or after the first test
\* index begins before the last one.
NoCombination == call.alg = "combi" => yields = <<>>
=============================================================================
