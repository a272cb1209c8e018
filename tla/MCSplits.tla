------------------------------ MODULE MCSplits ------------------------------
(***************************************************************************)
(* Small instances of Splits for TLC, and the call that the docstring of   *)
(* combinatorial_purged_cv speaks of.                                      *)
(***************************************************************************)
EXTENDS Splits

CONSTANTS MaxN, MaxFolds, MaxSpan   \* bounds of the splitters' arguments

AllKFold  == [alg : {"kfold"}, n : 0..MaxN, folds : 1..MaxFolds,
              embargo : 0..MaxSpan]
AllPurged == [alg : {"purged"}, n : 0..MaxN, folds : 1..MaxFolds,
              horizon : 0..MaxSpan, embargo : 0..MaxSpan]
AllWalk   == [alg : {"walk"}, n : 0..MaxN, train : 1..MaxSpan,
              test : 1..MaxSpan, step : 1..MaxSpan, expanding : BOOLEAN]
AllCombi  == [alg : {"combi"}, n : 0..MaxN, folds : 1..MaxFolds,
              ktest : 1..MaxFolds, embargo : 0..MaxSpan]

NoCalls == {}
C62     == {[alg |-> "combi", n |-> MaxN, folds |-> 6, ktest |-> 2,
             embargo |-> 0]}
=============================================================================
