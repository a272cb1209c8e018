--------------------------- MODULE BinanceProofs ----------------------------
(***************************************************************************)
(* Proofs about the Binance fetcher.                                       *)
(*                                                                         *)
(* TokenBucket: for every capacity, set of amounts and clock, the bucket   *)
(* grants at most twice its refill rate over any stretch of time.          *)
(*                                                                         *)
(* History and, within it, KlinePages: for every set of bars, interval,    *)
(* page size and range, the fetched rows are sorted without repetition and *)
(* complete up to the end of the range; and for every range of months and  *)
(* set of archives, however a bulk load ends, the table has whole months.  *)
(***************************************************************************)
EXTENDS History, TokenBucket, FiniteSetTheorems, WellFoundedInduction, TLAPS

-----------------------------------------------------------------------------
\* TokenBucket

\* The refill keeps the bucket within its capacity and adds no more than the
\* time that has passed.
LEMMA LevelBounds ==
    ASSUME BucketTypeOK
    PROVE  Level \in 0..Capacity /\ Level <= tokens + (now - lastRefill)
BY BucketAssumption DEF BucketTypeOK, Level, MinOf

LEMMA BucketInitially == BucketInit => BucketInv
<1> SUFFICES ASSUME BucketInit PROVE BucketInv
  OBVIOUS
<1> USE BucketAssumption DEF BucketInit
<1>1. BucketTypeOK
  <2>1. due \in Nat \cup {Awake} /\ refilled \in BOOLEAN
    BY Zenon
  <2> QED BY <2>1 DEF BucketTypeOK
<1>2. SleptInv
  BY DEF SleptInv
<1> QED BY <1>1, <1>2 DEF BucketInv

\* A refill starts or continues the account of the stretch.
LEMMA Refilled ==
    ASSUME BucketInv, Refill
    PROVE  /\ slept' \in Nat /\ mark + slept' <= now
           /\ served + Level <= Capacity + MaxAmount + (now - mark) + slept'
<1> USE BucketAssumption DEF BucketInv, Refill
<1>1. Level \in 0..Capacity /\ Level <= tokens + (now - lastRefill)
  BY LevelBounds
<1>2. CASE refilled
  BY <1>1, <1>2 DEF SleptInv, BucketTypeOK
<1>3. CASE ~refilled
  BY <1>1, <1>3 DEF SleptInv, BucketTypeOK
<1> QED BY <1>2, <1>3

LEMMA BucketNextKeepsInv == BucketInv /\ [BucketNext]_bucketVars => BucketInv'
<1> SUFFICES ASSUME BucketInv, [BucketNext]_bucketVars PROVE BucketInv'
  OBVIOUS
<1> USE BucketAssumption DEF BucketInv
<1>1. ASSUME NEW a \in Amounts, Consume(a) PROVE BucketInv'
  <2>1. Refill /\ Level >= a /\ a \in 1..MaxAmount
    BY <1>1 DEF Consume
  <2>2. /\ tokens' = Level - a /\ served' = served + a /\ lastRefill' = now
        /\ refilled' = TRUE /\ due = Awake /\ UNCHANGED <<due, now, mark>>
    BY <1>1 DEF Consume, Refill
  <2>3. Level \in 0..Capacity
    BY LevelBounds
  <2>4. /\ slept' \in Nat /\ mark + slept' <= now
        /\ served + Level <= Capacity + MaxAmount + (now - mark) + slept'
    BY <2>1, Refilled
  <2>5. BucketTypeOK'
    BY <2>1, <2>2, <2>3, <2>4 DEF BucketTypeOK
  <2>6. /\ mark' <= lastRefill' /\ mark' + slept' <= lastRefill'
        /\ served' + tokens'
             <= Capacity + MaxAmount + (lastRefill' - mark') + slept'
    <3>1. served' + tokens' = served + Level
      BY <2>1, <2>2, <2>3 DEF BucketTypeOK
    <3>2. lastRefill' = now /\ mark' = mark /\ mark <= now
      BY <2>2 DEF BucketTypeOK
    <3> QED BY <2>4, <3>1, <3>2
  <2>7. SleptInv'
    BY <2>2, <2>6 DEF SleptInv
  <2> QED BY <2>5, <2>7
<1>2. ASSUME NEW a \in Amounts, Wait(a) PROVE BucketInv'
  <2>1. Refill /\ Level < a /\ a \in 1..MaxAmount
    BY <1>2 DEF Wait
  <2>2. /\ tokens' = Level /\ due' = now + (a - Level) /\ lastRefill' = now
        /\ refilled' = TRUE /\ UNCHANGED <<now, served, mark>>
    BY <1>2 DEF Wait, Refill
  <2>3. Level \in 0..Capacity
    BY LevelBounds
  <2>4. /\ slept' \in Nat /\ mark + slept' <= now
        /\ served + Level <= Capacity + MaxAmount + (now - mark) + slept'
    BY <2>1, Refilled
  <2>5. BucketTypeOK'
    BY <2>1, <2>2, <2>3, <2>4 DEF BucketTypeOK
  <2>6. /\ mark' <= lastRefill' /\ mark' + slept' <= lastRefill'
        /\ served' + tokens'
             <= Capacity + MaxAmount + (lastRefill' - mark') + slept'
    BY <2>1, <2>2, <2>3, <2>4 DEF BucketTypeOK
  <2>7. due' >= lastRefill' /\ tokens' + (due' - lastRefill') <= MaxAmount
        /\ due' # Awake /\ lastRefill' <= now'
    BY <2>1, <2>2, <2>3 DEF BucketTypeOK, Awake
  <2>8. SleptInv'
    BY <2>2, <2>6, <2>7 DEF SleptInv
  <2> QED BY <2>5, <2>8
<1>3. CASE Wake
  BY <1>3 DEF Wake, BucketTypeOK, SleptInv, Awake
<1>4. CASE Cancel
  BY <1>4 DEF Cancel, BucketTypeOK, SleptInv, Awake
<1>5. CASE Tick
  BY <1>5 DEF Tick, bucket, BucketTypeOK, SleptInv
<1>6. CASE Mark
  <2> USE <1>6 DEF Mark, bucket
  <2>1. BucketTypeOK'
    <3>1. refilled' \in BOOLEAN
      BY Zenon
    <3> QED BY <3>1 DEF BucketTypeOK
  <2>2. SleptInv'
    BY DEF BucketTypeOK, SleptInv
  <2> QED BY <2>1, <2>2
<1>7. CASE UNCHANGED bucketVars
  BY <1>7 DEF bucketVars, bucket, BucketTypeOK, SleptInv
<1> QED BY <1>1, <1>2, <1>3, <1>4, <1>5, <1>6, <1>7 DEF BucketNext

THEOREM BucketInvariance == BucketSpec => []BucketInv
<1> QED BY BucketInitially, BucketNextKeepsInv, PTL DEF BucketSpec

\* Over any stretch of time the bucket grants at most its capacity, one amount
\* already waited for, and twice its refill rate.
THEOREM TwiceTheRate == BucketSpec => []AtMostTwice
<1>1. BucketInv => AtMostTwice
  BY BucketAssumption DEF BucketInv, BucketTypeOK, SleptInv, AtMostTwice
<1> QED BY <1>1, BucketInvariance, PTL

-----------------------------------------------------------------------------
\* KlinePages, as a part of History

\* One page more is its bars more.
LEMMA GotMore ==
    ASSUME TypeOK, NEW p \in SUBSET Bars, pages' = Append(pages, p)
    PROVE  Got' = Got \cup p
<1>1. pages \in Seq(SUBSET Bars) /\ Len(pages) \in Nat
  BY DEF TypeOK
<1>2. Len(pages') = Len(pages) + 1
      /\ (\A i \in 1..Len(pages) : pages'[i] = pages[i])
      /\ pages'[Len(pages) + 1] = p
  BY <1>1
<1>3. ASSUME NEW b \in Got' PROVE b \in Got \cup p
  <2>1. PICK i \in 1..Len(pages') : b \in pages'[i]
    BY DEF Got
  <2>2. i \in 1..Len(pages) \/ i = Len(pages) + 1
    BY <1>1, <1>2
  <2> QED BY <1>2, <2>1, <2>2 DEF Got
<1>4. ASSUME NEW b \in Got PROVE b \in Got'
  <2>1. PICK i \in 1..Len(pages) : b \in pages[i]
    BY DEF Got
  <2>2. i \in 1..Len(pages') /\ b \in pages'[i]
    BY <1>1, <1>2, <2>1
  <2> QED BY <2>2 DEF Got
<1>5. ASSUME NEW b \in p PROVE b \in Got'
  <2>1. Len(pages) + 1 \in 1..Len(pages')
    BY <1>1, <1>2
  <2> QED BY <1>2, <2>1, <1>5 DEF Got
<1> QED BY <1>3, <1>4, <1>5

LEMMA GotSame == UNCHANGED pages => Got' = Got
BY DEF Got

\* A page later than all before it is appended in order.
LEMMA AppendLater ==
    ASSUME TypeOK, Ascending, NEW p \in SUBSET Bars,
           \A x \in Got, y \in p : x < y,
           pages' = Append(pages, p)
    PROVE  Ascending'
<1>1. pages \in Seq(SUBSET Bars) /\ Len(pages) \in Nat
  BY DEF TypeOK
<1>2. Len(pages') = Len(pages) + 1
      /\ (\A i \in 1..Len(pages) : pages'[i] = pages[i])
      /\ pages'[Len(pages) + 1] = p
  BY <1>1
<1> SUFFICES ASSUME NEW i \in 1..Len(pages'), NEW j \in 1..Len(pages'), i < j,
                    NEW x \in pages'[i], NEW y \in pages'[j]
             PROVE  x < y
  BY DEF Ascending
<1>3. i \in 1..Len(pages) /\ (j \in 1..Len(pages) \/ j = Len(pages) + 1)
  BY <1>1, <1>2
<1>4. CASE j \in 1..Len(pages)
  BY <1>2, <1>3, <1>4 DEF Ascending
<1>5. CASE j = Len(pages) + 1
  <2>1. x \in Got /\ y \in p
    BY <1>2, <1>3, <1>5 DEF Got
  <2> QED BY <2>1
<1> QED BY <1>3, <1>4, <1>5

LEMMA Initially == Init => Inv
<1> SUFFICES ASSUME Init PROVE Inv
  OBVIOUS
<1> USE KlineAssumption DEF Init
<1>1. TypeOK
  <2>1. pages \in Seq(SUBSET Bars)
    OBVIOUS
  <2> QED BY <2>1 DEF TypeOK
<1>2. Got = {} /\ Ascending
  BY DEF Got, Ascending
<1>3. PagesInv
  BY <1>2 DEF PagesInv, CompleteBelowEnd, TypeOK
<1> QED BY <1>1, <1>3 DEF Inv

\* A page keeps the invariant.
LEMMA PageKeepsInv ==
    ASSUME Inv, Page
    PROVE  Inv'
<1> USE KlineAssumption DEF Inv
<1>0. PICK p \in SUBSET stored : \E last \in p :
        /\ pc = "get" /\ Answer(p) /\ \A x \in p : x <= last
        /\ pages' = Append(pages, p)
        /\ cursor' = NextCursor(p, last)
        /\ attempt' = 0
        /\ pc' = IF Finished(p, cursor') THEN "done" ELSE "get"
        /\ UNCHANGED <<call, stored>>
  BY DEF Page
<1>1. PICK last \in p :
        /\ pc = "get" /\ Answer(p) /\ \A x \in p : x <= last
        /\ pages' = Append(pages, p)
        /\ cursor' = last + Interval
        /\ attempt' = 0
        /\ pc' = IF Finished(p, cursor') THEN "done" ELSE "get"
        /\ UNCHANGED <<call, stored>>
  BY <1>0 DEF NextCursor
<1>2. /\ p \in SUBSET Bars /\ last \in Nat /\ stored \in SUBSET Bars
      /\ start \in Nat /\ end \in Nat /\ cursor \in Nat
  BY DEF TypeOK
<1>3. \A b \in p : cursor <= b /\ b <= end /\ b <= last
  BY <1>1 DEF Answer
<1>4. Got' = Got \cup p
  BY <1>1, <1>2, GotMore
<1>5. \A b \in Got : b + Interval <= cursor /\ b \in Nat
  BY <1>2 DEF PagesInv
<1>6. TypeOK'
  <2>1. pages' \in Seq(SUBSET Bars)
    BY <1>1, <1>2 DEF TypeOK
  <2> QED BY <1>1, <1>2, <2>1 DEF TypeOK, call
<1>7. \A b \in Got' : b + Interval <= cursor'
  <2> SUFFICES ASSUME NEW b \in Got' PROVE b + Interval <= cursor'
    OBVIOUS
  <2>1. CASE b \in Got
    BY <1>1, <1>2, <1>3, <1>5, <2>1
  <2>2. CASE b \in p
    BY <1>1, <1>2, <1>3, <2>2
  <2> QED BY <1>4, <2>1, <2>2
<1>8. ASSUME NEW b \in stored, start <= b, b < cursor', b <= end
      PROVE  b \in Got'
  <2>1. CASE b < cursor
    BY <1>1, <1>4, <1>8, <2>1 DEF PagesInv
  <2>2. CASE cursor <= b
    <3>1. b \in Nat /\ (last < b => last + Interval <= b)
      BY <1>2
    <3>2. b <= last
      BY <1>1, <1>2, <1>8, <3>1
    <3>3. b \in p
      BY <1>1, <1>2, <1>8, <2>2, <3>2 DEF Answer
    <3> QED BY <1>4, <3>3
  <2> QED BY <1>2, <2>1, <2>2
<1>9. ASSUME pc' = "done", NEW b \in known, start <= b, b < end
      PROVE  b \in Got'
  <2>1. b \in stored /\ b \in Nat
    BY <1>2 DEF TypeOK
  <2>2. CASE Cardinality(p) < Limit
    <3>1. CASE b < cursor
      BY <1>1, <1>4, <1>9, <2>1, <3>1 DEF PagesInv
    <3>2. CASE cursor <= b
      BY <1>1, <1>2, <1>4, <1>9, <2>1, <2>2, <3>2 DEF Answer
    <3> QED BY <1>2, <2>1, <3>1, <3>2
  <2>3. CASE cursor' >= end
    BY <1>1, <1>2, <1>8, <1>9, <2>1, <2>3
  <2>4. Finished(p, cursor')
    BY <1>1, <1>9
  <2> QED BY <2>2, <2>3, <2>4 DEF Finished
<1>10. Ascending'
  <2>1. \A x \in Got, y \in p : x < y
    BY <1>2, <1>3, <1>5
  <2> QED BY <1>1, <1>2, <2>1, AppendLater DEF PagesInv
<1>11. pc' = "get" => cursor' < end'
  BY <1>1, <1>2 DEF Finished, call
<1>12. cursor' >= start'
  BY <1>1, <1>2, <1>3 DEF PagesInv, call
<1>13. Got' \subseteq stored'
  BY <1>1, <1>4 DEF PagesInv
<1>14. CompleteBelowEnd'
  BY <1>1, <1>9 DEF CompleteBelowEnd, call
<1>15. pc' = "get" => \A b \in stored' : start' <= b /\ b < cursor' => b \in Got'
  <2> SUFFICES ASSUME pc' = "get", NEW b \in stored,
                      start <= b, b < cursor'
               PROVE  b \in Got'
    BY <1>1 DEF call
  <2>1. b <= end
    BY <1>1, <1>2, <1>11 DEF call
  <2> QED BY <1>8, <2>1
<1>16. \E b \in Got' : cursor' = b + Interval
  BY <1>1, <1>4
<1> QED BY <1>6, <1>7, <1>10, <1>11, <1>12, <1>13, <1>14, <1>15, <1>16
        DEF PagesInv

LEMMA StepKeepsInv == Inv /\ [Next]_vars => Inv'
<1> SUFFICES ASSUME Inv, [Next]_vars PROVE Inv'
  OBVIOUS
<1> USE KlineAssumption DEF Inv
<1>1. CASE NewBar
  <2>1. PICK b \in Bars : (\A s \in stored : s < b) /\ stored' = stored \cup {b}
    BY <1>1 DEF NewBar
  <2>2. UNCHANGED <<call, cursor, pages, attempt, pc>> /\ Got' = Got
    BY <1>1, GotSame DEF NewBar
  <2>3. TypeOK'
    BY <2>1, <2>2 DEF TypeOK, call
  <2>4. pc = "get" /\ start <= b /\ b < cursor => b \in Got
    <3>1. \A g \in Got : g \in Bars /\ g < b => g + Interval <= b
      BY <2>1
    <3>2. \A g \in Got : g \in Bars /\ g < b
      BY <2>1 DEF PagesInv, TypeOK
    <3>3. start \in Nat /\ b \in Nat
      BY DEF TypeOK
    <3>4. CASE cursor = start
      BY <3>3, <3>4
    <3>5. CASE \E g \in Got : cursor = g + Interval
      <4>1. PICK g \in Got : cursor = g + Interval
        BY <3>5
      <4>2. cursor <= b
        BY <3>1, <3>2, <4>1
      <4> QED BY <3>3, <4>2 DEF TypeOK
    <3> QED BY <3>4, <3>5 DEF PagesInv
  <2>5. known' \subseteq stored
    BY <2>2 DEF TypeOK, call
  <2>6. PagesInv'
    BY <2>1, <2>2, <2>4, <2>5 DEF PagesInv, Ascending, CompleteBelowEnd, call
  <2> QED BY <2>3, <2>6
<1>2. CASE EmptyPage
  <2> USE <1>2 DEF EmptyPage, call
  <2>1. Got' = Got
    BY GotSame
  <2>2. TypeOK'
    BY DEF TypeOK
  <2>3. ASSUME NEW b \in known, start <= b, b < end PROVE b \in Got
    <3>1. b \in stored /\ b \in Nat /\ cursor \in Nat /\ end \in Nat
      BY DEF TypeOK
    <3>2. Answer({}) /\ pc = "get"
      OBVIOUS
    <3>3. {c \in stored : cursor <= c /\ c <= end} = {}
      <4>1. CASE Cardinality({}) < Limit
        BY <3>2, <4>1 DEF Answer
      <4>2. Cardinality({}) = 0
        BY FS_EmptySet
      <4> QED BY <4>1, <4>2
    <3>4. b < cursor
      BY <2>3, <3>1, <3>3
    <3> QED BY <2>3, <3>1, <3>2, <3>4 DEF PagesInv
  <2>4. CompleteBelowEnd'
    BY <2>1, <2>3 DEF CompleteBelowEnd
  <2>5. PagesInv'
    BY <2>1, <2>4 DEF PagesInv, Ascending
  <2> QED BY <2>2, <2>5
<1>3. CASE Page
  BY <1>3, PageKeepsInv
<1>4. CASE Retry
  <2> USE <1>4 DEF Retry, call
  <2>1. TypeOK' /\ Got' = Got
    BY GotSame DEF TypeOK
  <2>2. PagesInv'
    BY <2>1 DEF PagesInv, Ascending, CompleteBelowEnd
  <2> QED BY <2>1, <2>2
<1>5. CASE ClientError
  <2> USE <1>5 DEF ClientError, call
  <2>1. TypeOK' /\ Got' = Got
    BY GotSame DEF TypeOK
  <2>2. PagesInv'
    BY <2>1 DEF PagesInv, Ascending, CompleteBelowEnd
  <2> QED BY <2>1, <2>2
<1>6. CASE UNCHANGED vars
  <2> USE <1>6 DEF vars, call
  <2>1. TypeOK' /\ Got' = Got
    BY GotSame DEF TypeOK
  <2>2. PagesInv'
    BY <2>1 DEF PagesInv, Ascending, CompleteBelowEnd
  <2> QED BY <2>1, <2>2
<1> QED BY <1>1, <1>2, <1>3, <1>4, <1>5, <1>6 DEF Next, Get

-----------------------------------------------------------------------------
\* The fetch within a job.

LEMMA HistoryInitially == HistoryInit => Inv
<1> SUFFICES ASSUME HistoryInit PROVE Inv
  OBVIOUS
<1>1. CASE Init
  BY <1>1, Initially
<1>2. CASE /\ start \in Times /\ end = start /\ cursor = start /\ pages = <<>>
           /\ attempt = 0 /\ pc = "done" /\ stored = {} /\ known = {}
  <2>1. TypeOK
    BY <1>2, KlineAssumption DEF TypeOK
  <2>2. Got = {}
    BY <1>2 DEF Got
  <2>3. Ascending /\ CompleteBelowEnd
    BY <1>2 DEF Ascending, CompleteBelowEnd
  <2> QED BY <1>2, <2>1, <2>2, <2>3, KlineAssumption DEF Inv, PagesInv
<1> QED BY <1>1, <1>2 DEF HistoryInit

\* Outside the fetch nothing of it changes.
LEMMA FetchOrNot ==
    HistoryNext => FetchSteps \/ UNCHANGED vars
<1> SUFFICES ASSUME HistoryNext, ~FetchSteps PROVE UNCHANGED vars
  OBVIOUS
<1>1. CASE FetchEnded
  BY <1>1 DEF FetchEnded
<1>2. CASE Download
  BY <1>2 DEF Download, DownloadRetries, DownloadRaises, ArchiveMissing,
              Downloaded, BulkReturns
<1>3. CASE Upsert
  BY <1>3 DEF Upsert, Batch, BatchFails, Commits, CommitFails, NothingToStore
<1> QED BY <1>1, <1>2, <1>3 DEF HistoryNext

LEMMA HistoryKeepsInv == Inv /\ [HistoryNext]_<<vars, hvars>> => Inv'
<1>1. HistoryNext => [Next]_vars
  BY FetchOrNot DEF FetchSteps
<1> QED BY <1>1, StepKeepsInv

THEOREM Invariance == HistorySpec => []Inv
<1> QED BY HistoryInitially, HistoryKeepsInv, PTL DEF HistorySpec

\* The rows are sorted, and no bar is there twice.
THEOREM Sorted == HistorySpec => []Ascending
<1>1. Inv => Ascending
  BY DEF Inv, PagesInv
<1> QED BY <1>1, Invariance, PTL

\* A call that returns has every bar of the range before its end.
THEOREM Complete == HistorySpec => []CompleteBelowEnd
<1>1. Inv => CompleteBelowEnd
  BY DEF Inv, PagesInv
<1> QED BY <1>1, Invariance, PTL

-----------------------------------------------------------------------------
\* Months

\* The months before the next are those up to this one.
LEMMA BeforeNext ==
    ASSUME NEW m \in Months, NEW n \in Months
    PROVE  /\ NextMonth(n) \in Months
           /\ (UpTo(m, NextMonth(n)) /\ m # NextMonth(n)) <=> UpTo(m, n)
<1>1. /\ m[1] \in Nat /\ m[2] \in 1..12 /\ m = <<m[1], m[2]>>
      /\ n[1] \in Nat /\ n[2] \in 1..12 /\ n = <<n[1], n[2]>>
  BY DEF Months
<1>2. CASE n[2] = 12
  <2>1. NextMonth(n) = <<n[1] + 1, 1>>
    BY <1>2 DEF NextMonth
  <2>2. NextMonth(n) \in Months
    BY <1>1, <2>1 DEF Months
  <2>3. m = <<n[1] + 1, 1>> <=> m[1] = n[1] + 1 /\ m[2] = 1
    BY <1>1
  <2> QED BY <1>1, <1>2, <2>1, <2>2, <2>3 DEF UpTo
<1>3. CASE n[2] # 12
  <2>1. NextMonth(n) = <<n[1], n[2] + 1>>
    BY <1>3 DEF NextMonth
  <2>2. NextMonth(n) \in Months
    BY <1>1, <1>3, <2>1 DEF Months
  <2>3. m = <<n[1], n[2] + 1>> <=> m[1] = n[1] /\ m[2] = n[2] + 1
    BY <1>1
  <2> QED BY <1>1, <1>3, <2>1, <2>2, <2>3 DEF UpTo
<1> QED BY <1>2, <1>3

LEMMA UpToOrder ==
    ASSUME NEW a \in Months, NEW b \in Months, NEW c \in Months
    PROVE  /\ UpTo(a, a)
           /\ UpTo(a, b) /\ UpTo(b, a) => a = b
           /\ UpTo(a, b) /\ UpTo(b, c) => UpTo(a, c)
           /\ UpTo(a, b) \/ UpTo(b, a)
<1>1. /\ a[1] \in Nat /\ a[2] \in 1..12 /\ a = <<a[1], a[2]>>
      /\ b[1] \in Nat /\ b[2] \in 1..12 /\ b = <<b[1], b[2]>>
      /\ c[1] \in Nat /\ c[2] \in 1..12
  BY DEF Months
<1>2. UpTo(a, b) /\ UpTo(b, a) => a[1] = b[1] /\ a[2] = b[2]
  BY <1>1 DEF UpTo
<1>3. UpTo(a, a) /\ (UpTo(a, b) \/ UpTo(b, a))
  BY <1>1 DEF UpTo
<1>4. UpTo(a, b) /\ UpTo(b, c) => UpTo(a, c)
  BY <1>1 DEF UpTo
<1> QED BY <1>1, <1>2, <1>3, <1>4

LEMMA RowsOfMore ==
    ASSUME NEW ms, NEW m
    PROVE  RowsOf(ms \cup {m}) = RowsOf(ms) \cup MonthRows(m)
BY DEF RowsOf

-----------------------------------------------------------------------------
\* The bulk load: the table has the months before this one; and what is executed
\* or left of this one is its whole archive.
MonthsInv ==
    job = "months" =>
        /\ range[1] \in Months /\ range[2] \in Months /\ month \in Months
        /\ archived \subseteq Months /\ phase \in {"download", "upsert"}
        /\ UpTo(range[1], month)
        /\ \/ month = range[1]
           \/ \E m \in Months : UpTo(m, range[2]) /\ month = NextMonth(m)
        /\ outcome = "running" /\ phase = "download" => open = {}
        /\ outcome = "running" /\ phase = "upsert" =>
              /\ month \in archived /\ UpTo(month, range[2])
              /\ todo \cup open = MonthRows(month)
        /\ outcome = "returned" => ~UpTo(month, range[2])
        /\ outcome # "raised" => table = RowsOf(Before)
        /\ \/ table = RowsOf(Before)
           \/ month \in archived /\ table = RowsOf(Before \cup {month})

\* This month joins those before when the loop goes on.
LEMMA BeforeMore ==
    ASSUME MonthsInv, job = "months", month' = NextMonth(month),
           UNCHANGED <<range, archived>>
    PROVE  /\ month' \in Months /\ UpTo(range[1], month')
           /\ month \in archived => Before' = Before \cup {month}
           /\ month \notin archived => Before' = Before
<1>1. /\ range[1] \in Months /\ month \in Months /\ archived \subseteq Months
      /\ UpTo(range[1], month)
  BY DEF MonthsInv
<1>2. month' \in Months /\ UpTo(month, month')
  BY <1>1, BeforeNext, UpToOrder
<1>3. UpTo(range[1], month')
  BY <1>1, <1>2, UpToOrder
<1>4. Before' = {m \in archived : UpTo(range[1], m) /\ UpTo(m, month')
                                  /\ m # month'}
  BY DEF Before
<1>5. \A m \in archived : (UpTo(m, month') /\ m # month') <=> UpTo(m, month)
  BY <1>1, BeforeNext
<1>6. \A m \in archived : UpTo(m, month) <=> (m = month \/ (UpTo(m, month) /\ m # month))
  BY <1>1, UpToOrder
<1>7. Before' = {m \in archived : UpTo(range[1], m)
                                  /\ (m = month \/ (UpTo(m, month) /\ m # month))}
  BY <1>4, <1>5, <1>6
<1>8. month \in archived => Before' = Before \cup {month}
  BY <1>1, <1>7 DEF Before
<1>9. month \notin archived => Before' = Before
  BY <1>7 DEF Before
<1> QED BY <1>2, <1>3, <1>8, <1>9

LEMMA MonthsInitially == HistoryInit => MonthsInv
<1> SUFFICES ASSUME HistoryInit, job = "months" PROVE MonthsInv
  BY DEF MonthsInv
<1>1. /\ range \in Months \X Months /\ month = range[1]
      /\ archived \subseteq Months /\ phase = "download" /\ open = {}
      /\ outcome = "running" /\ table = {}
  BY HistoryAssumption DEF HistoryInit
<1>2. range[1] \in Months /\ range[2] \in Months
  BY <1>1
<1>3. UpTo(range[1], month)
  BY <1>1, <1>2, UpToOrder
<1>4. Before = {}
  BY <1>1, <1>2, UpToOrder DEF Before
<1>5. table = RowsOf(Before)
  BY <1>1, <1>4 DEF RowsOf
<1> QED BY <1>1, <1>2, <1>3, <1>5 DEF MonthsInv

LEMMA JobStays == [HistoryNext]_<<vars, hvars>> => UNCHANGED job
<1>1. CASE FetchSteps \/ FetchEnded
  BY <1>1 DEF FetchSteps, FetchEnded, hvars
<1>2. CASE Download
  BY <1>2 DEF Download, DownloadRetries, DownloadRaises, ArchiveMissing,
         Downloaded, BulkReturns
<1>3. CASE Upsert
  BY <1>3 DEF Upsert, Batch, BatchFails, Commits, CommitFails, NothingToStore
<1>4. CASE UNCHANGED hvars
  BY <1>4 DEF hvars
<1> QED BY <1>1, <1>2, <1>3, <1>4 DEF HistoryNext

LEMMA MonthsNext == MonthsInv /\ [HistoryNext]_<<vars, hvars>> => MonthsInv'
<1> SUFFICES ASSUME MonthsInv, [HistoryNext]_<<vars, hvars>>, job = "months",
                    job' = "months"
             PROVE  MonthsInv'
  BY JobStays DEF MonthsInv
<1>1. phase \in {"download", "upsert"}
  BY DEF MonthsInv
<1>2. CASE FetchSteps \/ FetchEnded
  BY <1>1, <1>2 DEF FetchSteps, FetchEnded
<1>3. CASE UNCHANGED hvars
  BY <1>3 DEF hvars, MonthsInv, Before
<1>4. ASSUME UNCHANGED <<range, month, archived, phase, todo, open, table>>,
             outcome = "running", outcome' \in {"running", "raised"}
      PROVE  MonthsInv'
  BY <1>4 DEF MonthsInv, Before
<1>5. CASE DownloadRetries \/ DownloadRaises
  BY <1>4, <1>5 DEF DownloadRetries, DownloadRaises, Downloading
<1>6. ASSUME UNCHANGED <<range, archived>>, outcome' = "running",
             UpTo(month, range[2]), month' = NextMonth(month),
             phase' = "download", open' = {}, outcome = "running",
             \/ month \in archived /\ table' = table \cup MonthRows(month)
             \/ month \notin archived /\ table' = table
      PROVE  MonthsInv'
  <2>1. month \in Months /\ table = RowsOf(Before)
    BY <1>6 DEF MonthsInv
  <2>2. month' \in Months /\ UpTo(range[1], month')
    BY <1>6, BeforeMore
  <2>3. table' = RowsOf(Before')
    <3>1. CASE month \in archived
      <4>1. Before' = Before \cup {month}
        BY <1>6, <3>1, BeforeMore
      <4> QED BY <1>6, <2>1, <3>1, <4>1, RowsOfMore
    <3>2. CASE month \notin archived
      BY <1>6, <2>1, <3>2, BeforeMore
    <3> QED BY <3>1, <3>2
  <2>4. table' = RowsOf(Before)'
    BY <2>3 DEF RowsOf
  <2> QED BY <1>6, <2>1, <2>2, <2>4 DEF MonthsInv
<1>7. CASE ArchiveMissing
  BY <1>6, <1>7 DEF ArchiveMissing, Downloading, MonthsInv
<1>8. CASE Downloaded
  <2>1. /\ month \in archived /\ UpTo(month, range[2]) /\ outcome = "running"
        /\ phase' = "upsert" /\ todo' = MonthRows(month) /\ open = {}
        /\ UNCHANGED <<range, month, archived, open, table, outcome>>
    BY <1>8 DEF Downloaded, Downloading, MonthsInv
  <2>2. UNCHANGED Before
    BY <2>1 DEF Before
  <2> QED BY <2>1, <2>2 DEF MonthsInv, RowsOf
<1>9. CASE BulkReturns
  <2>1. /\ ~UpTo(month, range[2]) /\ outcome = "running" /\ outcome' = "returned"
        /\ UNCHANGED <<range, month, archived, phase, todo, open, table>>
    BY <1>9 DEF BulkReturns
  <2>2. UNCHANGED Before
    BY <2>1 DEF Before
  <2> QED BY <2>1, <2>2 DEF MonthsInv, RowsOf
<1>10. CASE Batch
  <2>1. PICK b \in SUBSET todo : todo' = todo \ b /\ open' = open \cup b
    BY <1>10 DEF Batch
  <2>2. UNCHANGED <<range, month, archived, phase, table, outcome>>
    BY <1>10 DEF Batch
  <2>3. todo' \cup open' = todo \cup open
    BY <2>1
  <2>4. phase = "upsert"
    BY <1>10 DEF Batch, Upserting
  <2> QED BY <2>2, <2>3, <2>4 DEF MonthsInv, Before, RowsOf
<1>11. CASE BatchFails
  <2>1. /\ outcome = "running" /\ outcome' = "raised"
        /\ UNCHANGED <<range, month, archived, phase, table>>
    BY <1>11 DEF BatchFails, Upserting
  <2> QED BY <2>1 DEF MonthsInv, Before, RowsOf
<1>12. CASE Commits \/ NothingToStore
  <2>1. /\ phase = "upsert" /\ outcome = "running" /\ todo = {} /\ open' = {}
        /\ table' = table \cup open /\ UNCHANGED <<range, archived>> /\ Goes
    BY <1>12 DEF Commits, NothingToStore, Upserting
  <2>2. /\ month \in archived /\ UpTo(month, range[2]) /\ open = MonthRows(month)
    BY <2>1 DEF MonthsInv
  <2>3. phase' = "download" /\ month' = NextMonth(month) /\ outcome' = outcome
    BY <2>1 DEF Goes
  <2> QED BY <1>6, <2>1, <2>2, <2>3
<1>13. CASE CommitFails
  <2>1. /\ phase = "upsert" /\ outcome = "running" /\ todo = {}
        /\ outcome' = "raised" /\ table' \in {table, table \cup open}
        /\ UNCHANGED <<range, month, archived, phase>>
    BY <1>13 DEF CommitFails, Upserting
  <2>2. month \in archived /\ open = MonthRows(month) /\ table = RowsOf(Before)
    BY <2>1 DEF MonthsInv
  <2>3. table' \in {RowsOf(Before), RowsOf(Before \cup {month})}
    BY <2>1, <2>2, RowsOfMore
  <2> QED BY <2>1, <2>2, <2>3 DEF MonthsInv, Before, RowsOf
<1> QED BY <1>2, <1>3, <1>5, <1>7, <1>8, <1>9, <1>10, <1>11, <1>12, <1>13
        DEF HistoryNext, Download, Upsert

LEMMA MonthsAlways == HistorySpec => []MonthsInv
<1> QED BY MonthsInitially, MonthsNext, PTL DEF HistorySpec

\* However the bulk load ends, the table has the whole months before the one it
\* stopped at, and of that one all or nothing.
THEOREM WholeMonthsAlways == HistorySpec => []WholeMonths
<1>1. MonthsInv => WholeMonths
  BY DEF MonthsInv, WholeMonths
<1> QED BY <1>1, MonthsAlways, PTL

-----------------------------------------------------------------------------
\* What is returned

\* There are finitely many bars, and no row is in the archives of two months.
Separate ==
    /\ IsFiniteSet(Bars) /\ \A m \in Archives : IsFiniteSet(MonthRows(m))
    /\ \A m, n \in Archives : m # n => MonthRows(m) \cap MonthRows(n) = {}

\* The upsert of fetch_klines_all has what was fetched, and nothing is stored
\* before its commit.
KlinesInv ==
    job = "klines" =>
        /\ phase \in {"fetch", "upsert"}
        /\ outcome = "running" => table = {}
        /\ outcome = "running" /\ phase = "fetch" => open = {}
        /\ outcome = "running" /\ phase = "upsert" => todo \cup open = Got
        /\ outcome = "returned" => table = Got /\ phase = "upsert"

\* The sum counts what is committed.
CountInv ==
    /\ job \in {"klines", "months"} /\ archived \subseteq Archives
    /\ IsFiniteSet(table) /\ IsFiniteSet(open) /\ IsFiniteSet(todo)
    /\ outcome # "raised" => total = Cardinality(table)

\* When the loop is over, the months before this one are those of the range.
LEMMA WholeRange ==
    ASSUME MonthsInv, job = "months", outcome = "returned"
    PROVE  Before = {m \in archived : UpTo(range[1], m) /\ UpTo(m, range[2])}
<1>1. /\ range[1] \in Months /\ range[2] \in Months /\ month \in Months
      /\ archived \subseteq Months /\ ~UpTo(month, range[2])
      /\ \/ month = range[1]
         \/ \E m \in Months : UpTo(m, range[2]) /\ month = NextMonth(m)
  BY DEF MonthsInv
<1>2. CASE month = range[1]
  <2>1. \A m \in archived : ~(UpTo(range[1], m) /\ UpTo(m, range[2]))
    BY <1>1, <1>2, UpToOrder
  <2>2. \A m \in archived : ~(UpTo(range[1], m) /\ UpTo(m, month) /\ m # month)
    BY <1>1, <1>2, UpToOrder
  <2> QED BY <2>1, <2>2 DEF Before
<1>3. ASSUME NEW n \in Months, UpTo(n, range[2]), month = NextMonth(n)
      PROVE  Before = {m \in archived : UpTo(range[1], m) /\ UpTo(m, range[2])}
  <2>1. UpTo(range[2], n)
    <3>1. UpTo(range[2], month) /\ range[2] # month
      BY <1>1, UpToOrder
    <3> QED BY <1>1, <1>3, <3>1, BeforeNext
  <2>2. n = range[2]
    BY <1>1, <1>3, <2>1, UpToOrder
  <2>3. \A m \in archived : (UpTo(m, month) /\ m # month) <=> UpTo(m, range[2])
    BY <1>1, <1>3, <2>2, BeforeNext
  <2> QED BY <2>3 DEF Before
<1> QED BY <1>1, <1>2, <1>3

LEMMA GotFinite == ASSUME Inv, Separate PROVE IsFiniteSet(Got)
<1>1. Got \in SUBSET Bars
  BY DEF Inv, TypeOK, Got
<1> QED BY <1>1, FS_Subset DEF Separate

LEMMA KlinesInitially == HistoryInit => KlinesInv
<1> SUFFICES ASSUME HistoryInit, job = "klines" PROVE KlinesInv
  BY DEF KlinesInv
<1> QED BY DEF HistoryInit, KlinesInv

LEMMA KlinesNext == KlinesInv /\ [HistoryNext]_<<vars, hvars>> => KlinesInv'
<1> SUFFICES ASSUME KlinesInv, [HistoryNext]_<<vars, hvars>>, job = "klines"
             PROVE  KlinesInv'
  BY JobStays DEF KlinesInv
<1>1. CASE FetchSteps
  BY <1>1 DEF FetchSteps, KlinesInv, hvars
<1>2. ASSUME UNCHANGED vars PROVE UNCHANGED Got
  BY <1>2 DEF vars, Got
<1>3. CASE UNCHANGED <<vars, hvars>>
  BY <1>2, <1>3 DEF hvars, KlinesInv
<1>4. CASE FetchEnded
  BY <1>2, <1>4 DEF FetchEnded, KlinesInv
<1>5. CASE Download
  BY <1>5 DEF Download, DownloadRetries, DownloadRaises, ArchiveMissing,
         Downloaded, BulkReturns, Downloading, KlinesInv
<1>6. CASE Batch
  <2>1. PICK b \in SUBSET todo : todo' = todo \ b /\ open' = open \cup b
    BY <1>6 DEF Batch
  <2>2. todo' \cup open' = todo \cup open
    BY <2>1
  <2> QED BY <1>2, <1>6, <2>2 DEF Batch, Upserting, KlinesInv
<1>7. CASE BatchFails \/ CommitFails
  BY <1>7 DEF BatchFails, CommitFails, Upserting, KlinesInv
<1>8. CASE Commits \/ NothingToStore
  <2>1. /\ phase = "upsert" /\ outcome = "running" /\ todo = {}
        /\ table' = table \cup open /\ Goes /\ UNCHANGED vars
    BY <1>8 DEF Commits, NothingToStore, Upserting
  <2>2. outcome' = "returned" /\ phase' = phase
    BY <2>1 DEF Goes
  <2> QED BY <1>2, <2>1, <2>2 DEF KlinesInv
<1> QED BY <1>1, <1>3, <1>4, <1>5, <1>6, <1>7, <1>8 DEF HistoryNext, Upsert

LEMMA CountInitially == HistoryInit => CountInv
BY FS_EmptySet DEF HistoryInit, CountInv

\* The rows to be committed are not in the table yet.
LEMMA NewRows ==
    ASSUME Separate, MonthsInv, KlinesInv, CountInv, Upserting, todo = {}
    PROVE  table \cap open = {}
<1>1. CASE job = "klines"
  BY <1>1 DEF Upserting, KlinesInv
<1>2. CASE job = "months"
  <2>1. /\ month \in archived /\ open = MonthRows(month) /\ table = RowsOf(Before)
    BY <1>2 DEF Upserting, MonthsInv
  <2>2. \A m \in Before : m \in Archives /\ m # month
    BY DEF Before, CountInv
  <2>3. \A m \in Before : MonthRows(m) \cap MonthRows(month) = {}
    BY <2>1, <2>2 DEF Separate, CountInv
  <2> QED BY <2>1, <2>3 DEF RowsOf
<1> QED BY <1>1, <1>2 DEF CountInv

LEMMA CountNext ==
    ASSUME Separate
    PROVE  Inv /\ MonthsInv /\ KlinesInv /\ CountInv /\ [HistoryNext]_<<vars, hvars>>
             => CountInv'
<1> SUFFICES ASSUME Inv, MonthsInv, KlinesInv, CountInv,
                    [HistoryNext]_<<vars, hvars>>
             PROVE  CountInv'
  OBVIOUS
<1>1. job' = job
  BY JobStays
<1>2. CASE FetchSteps
  BY <1>2 DEF FetchSteps, CountInv, hvars
<1>3. CASE UNCHANGED <<vars, hvars>>
  BY <1>3 DEF hvars, CountInv
<1>4. CASE FetchEnded
  BY <1>4, GotFinite DEF FetchEnded, CountInv
<1>5. CASE DownloadRetries \/ DownloadRaises \/ ArchiveMissing \/ BulkReturns
  BY <1>5 DEF DownloadRetries, DownloadRaises, ArchiveMissing, BulkReturns,
         Downloading, CountInv
<1>6. CASE Downloaded
  <2>1. IsFiniteSet(MonthRows(month))
    BY <1>6 DEF Downloaded, CountInv, Separate
  <2> QED BY <1>6, <2>1 DEF Downloaded, CountInv
<1>7. CASE Batch
  <2>1. PICK b \in SUBSET todo : todo' = todo \ b /\ open' = open \cup b
    BY <1>7 DEF Batch
  <2>2. todo' \in SUBSET todo
    BY <2>1
  <2>3. IsFiniteSet(b) /\ IsFiniteSet(todo')
    BY <2>1, <2>2, FS_Subset DEF CountInv
  <2>4. IsFiniteSet(open')
    BY <2>1, <2>3, FS_Union DEF CountInv
  <2> QED BY <1>7, <2>3, <2>4 DEF Batch, CountInv
<1>8. CASE BatchFails
  BY <1>8, FS_EmptySet DEF BatchFails, CountInv
<1>9. CASE NothingToStore
  <2>1. /\ outcome = "running" /\ outcome' # "raised"
        /\ UNCHANGED <<archived, todo, open, total, table>>
    BY <1>9 DEF NothingToStore, Upserting, Goes
  <2> QED BY <1>1, <2>1 DEF CountInv
<1>10. CASE Commits
  <2>1. /\ outcome = "running" /\ todo = {} /\ open' = {}
        /\ table' = table \cup open /\ total' = total + Cardinality(open)
        /\ UNCHANGED <<archived, todo>>
    BY <1>10 DEF Commits, Upserting
  <2>2. table \cap open = {}
    BY <1>10, NewRows DEF Commits
  <2>3. /\ IsFiniteSet(table')
        /\ Cardinality(table') = Cardinality(table) + Cardinality(open)
                                     - Cardinality(table \cap open)
    BY <2>1, FS_Union DEF CountInv
  <2>4. Cardinality(table \cap open) = 0 /\ IsFiniteSet(open')
    BY <2>1, <2>2, FS_EmptySet
  <2>5. Cardinality(table) \in Nat /\ Cardinality(open) \in Nat
    BY FS_CardinalityType DEF CountInv
  <2>6. total' = Cardinality(table')
    BY <2>1, <2>3, <2>4, <2>5 DEF CountInv
  <2> QED BY <1>1, <2>1, <2>3, <2>4, <2>6 DEF CountInv
<1>11. CASE CommitFails
  <2>1. /\ outcome' = "raised" /\ open' = {} /\ table' \in {table, table \cup open}
        /\ UNCHANGED <<archived, todo>>
    BY <1>11 DEF CommitFails
  <2>2. IsFiniteSet(table \cup open) /\ IsFiniteSet({})
    BY FS_Union, FS_EmptySet DEF CountInv
  <2>3. IsFiniteSet(table') /\ IsFiniteSet(open')
    BY <2>1, <2>2 DEF CountInv
  <2> QED BY <1>1, <2>1, <2>3 DEF CountInv
<1> QED BY <1>2, <1>3, <1>4, <1>5, <1>6, <1>7, <1>8, <1>9, <1>10, <1>11
        DEF HistoryNext, Download, Upsert

\* What a call returns is the number of rows it stored, all of them.
THEOREM ReturnsStoredAlways ==
    ASSUME Separate
    PROVE  HistorySpec => []ReturnsStored
<1>1. HistorySpec => []KlinesInv
  BY KlinesInitially, KlinesNext, PTL DEF HistorySpec
<1>2. Inv /\ MonthsInv /\ KlinesInv /\ CountInv /\ [HistoryNext]_<<vars, hvars>>
        => CountInv'
  BY CountNext
<1>3. HistorySpec => []CountInv
  BY <1>1, <1>2, CountInitially, Invariance, MonthsAlways, PTL DEF HistorySpec
<1>4. MonthsInv /\ KlinesInv /\ CountInv => ReturnsStored
  BY WholeRange DEF MonthsInv, KlinesInv, CountInv, ReturnsStored
<1> QED BY <1>1, <1>3, <1>4, MonthsAlways, PTL
-----------------------------------------------------------------------------
\* A call comes to its end

\* A nonempty set of natural numbers has a least one.
LEMMA LeastNat ==
    ASSUME NEW T \in SUBSET Nat, T # {}
    PROVE  \E n \in T : \A m \in T : n <= m
<1>1. \E n \in T : \A m \in T : ~(<<m, n>> \in OpToRel(<, Nat))
  BY NatLessThanWellFounded, WFMin
<1>2. \A m, n \in Nat : ~(<<m, n>> \in OpToRel(<, Nat)) => n <= m
  BY DEF OpToRel
<1> QED BY <1>1, <1>2

Ranks == Nat \X Nat \X Nat

\* The order of the ranks is well-founded, so no sequence of them gets lower
\* for ever.
LEMMA BelowEnds ==
    ASSUME NEW R \in SUBSET Ranks, R # {}
    PROVE  \E r \in R : \A q \in R : ~Below(q, r)
<1> DEFINE A == {r[1] : r \in R}
<1>1. PICK a \in A : \A x \in A : a <= x
  <2>1. A \in SUBSET Nat /\ A # {}
    BY DEF Ranks
  <2> QED BY <2>1, LeastNat
<1> DEFINE B == {r[2] : r \in {q \in R : q[1] = a}}
<1>2. PICK b \in B : \A x \in B : b <= x
  <2>1. B \in SUBSET Nat /\ B # {}
    BY <1>1 DEF Ranks
  <2> QED BY <2>1, LeastNat
<1> DEFINE C == {r[3] : r \in {q \in R : q[1] = a /\ q[2] = b}}
<1>3. PICK c \in C : \A x \in C : c <= x
  <2>1. C \in SUBSET Nat /\ C # {}
    BY <1>2 DEF Ranks
  <2> QED BY <2>1, LeastNat
<1>4. PICK r \in R : r[1] = a /\ r[2] = b /\ r[3] = c
  BY <1>3
<1>5. ASSUME NEW q \in R, Below(q, r) PROVE FALSE
  <2>1. /\ q[1] \in Nat /\ q[2] \in Nat /\ q[3] \in Nat
        /\ r[1] \in Nat /\ r[2] \in Nat /\ r[3] \in Nat
    BY DEF Ranks
  <2>2. a <= q[1]
    BY <1>1
  <2>3. q[1] = a => b <= q[2]
    BY <1>2
  <2>4. q[1] = a /\ q[2] = b => c <= q[3]
    BY <1>3
  <2> QED BY <1>4, <1>5, <2>1, <2>2, <2>3, <2>4 DEF Below
<1> QED BY <1>5

\* The months that are left are one fewer with each month.
LEMMA LeftLess ==
    ASSUME NEW m \in Months, NEW n \in Months
    PROVE  /\ Left(m, n) \in Nat
           /\ UpTo(m, n) => Left(NextMonth(m), n) < Left(m, n)
<1>1. /\ m[1] \in Nat /\ m[2] \in 1..12 /\ n[1] \in Nat /\ n[2] \in 1..12
  BY DEF Months
<1>2. UpTo(m, n) => /\ Left(m, n) = 12 * (n[1] - m[1]) + (n[2] - m[2]) + 1
                    /\ Left(m, n) \in Nat /\ Left(m, n) > 0
  <2>1. ASSUME UpTo(m, n)
        PROVE  12 * (n[1] - m[1]) + (n[2] - m[2]) + 1 > 0
    <3>1. CASE m[1] = n[1] /\ m[2] <= n[2]
      BY <1>1, <3>1
    <3>2. CASE m[1] < n[1]
      <4>1. n[1] - m[1] >= 1 /\ n[2] - m[2] >= 0 - 11
        BY <1>1, <3>2
      <4> QED BY <1>1, <4>1
    <3> QED BY <2>1, <3>1, <3>2 DEF UpTo
  <2>2. UpTo(m, n) => Left(m, n) = 12 * (n[1] - m[1]) + (n[2] - m[2]) + 1
    BY DEF Left
  <2> QED BY <1>1, <2>1, <2>2
<1>3. ~UpTo(m, n) => Left(m, n) = 0
  BY DEF Left
<1>4. ASSUME UpTo(m, n) PROVE Left(NextMonth(m), n) < Left(m, n)
  <2>1. CASE ~UpTo(NextMonth(m), n)
    BY <1>2, <1>4, <2>1 DEF Left
  <2>2. CASE UpTo(NextMonth(m), n)
    <3>1. Left(NextMonth(m), n) = 12 * (n[1] - NextMonth(m)[1])
                                     + (n[2] - NextMonth(m)[2]) + 1
      BY <2>2 DEF Left
    <3>2. CASE m[2] = 12
      <4>1. NextMonth(m)[1] = m[1] + 1 /\ NextMonth(m)[2] = 1
        BY <3>2 DEF NextMonth
      <4> QED BY <1>1, <1>2, <1>4, <3>1, <3>2, <4>1
    <3>3. CASE m[2] # 12
      <4>1. NextMonth(m)[1] = m[1] /\ NextMonth(m)[2] = m[2] + 1
        BY <3>3 DEF NextMonth
      <4> QED BY <1>1, <1>2, <1>4, <3>1, <4>1
    <3> QED BY <3>2, <3>3
  <2> QED BY <2>1, <2>2
<1> QED BY <1>2, <1>3, <1>4

\* A download is tried so many times; and a fetch that has not ended is that of
\* a call that has not.
TriesInv ==
    /\ tries \in 0..(Downloads - 1)
    /\ phase = "fetch" /\ pc = "get" => outcome = "running"

LEMMA TriesInitially == HistoryInit => TriesInv
BY HistoryAssumption DEF HistoryInit, TriesInv

LEMMA TriesNext == TriesInv /\ [HistoryNext]_<<vars, hvars>> => TriesInv'
<1> SUFFICES ASSUME TriesInv, [HistoryNext]_<<vars, hvars>> PROVE TriesInv'
  OBVIOUS
<1> USE HistoryAssumption DEF TriesInv
<1>1. CASE FetchSteps
  <2>1. pc = "get" \/ pc' = pc
    BY <1>1 DEF FetchSteps, Next, NewBar, Get, EmptyPage, Page, Retry, ClientError
  <2> QED BY <1>1, <2>1 DEF FetchSteps, hvars
<1>2. CASE UNCHANGED <<vars, hvars>>
  BY <1>2 DEF vars, hvars
<1>3. CASE FetchEnded
  BY <1>3 DEF FetchEnded, vars
<1>4. CASE Download
  BY <1>4 DEF Download, DownloadRetries, DownloadRaises, ArchiveMissing,
         Downloaded, BulkReturns, Downloading
<1>5. CASE Upsert
  BY <1>5 DEF Upsert, Batch, BatchFails, Commits, CommitFails, NothingToStore,
         Upserting, Goes
<1> QED BY <1>1, <1>2, <1>3, <1>4, <1>5 DEF HistoryNext

\* All that the rank depends on.
EndsInv == Inv /\ MonthsInv /\ KlinesInv /\ CountInv /\ TriesInv

\* A call that runs fetches, downloads or upserts.
LEMMA Phases ==
    ASSUME EndsInv
    PROVE  /\ phase \in {"fetch", "download", "upsert"}
           /\ phase = "fetch" => job = "klines"
           /\ phase = "download" => job = "months"
           /\ job = "months" => /\ month \in Months /\ range[2] \in Months
                                /\ Left(month, range[2]) \in Nat
BY LeftLess DEF EndsInv, MonthsInv, KlinesInv, CountInv

\* Ranks are of natural numbers, and that of a call that runs is not the least.
LEMMA RankThere ==
    ASSUME EndsInv
    PROVE  /\ Rank \in Ranks
           /\ outcome = "running" => Below(<<0, 0, 0>>, Rank)
<1>1. CASE outcome # "running"
  BY <1>1 DEF Rank, Ranks
<1>2. CASE outcome = "running" /\ phase = "fetch"
  <2>1. /\ end \in Nat /\ cursor \in Nat /\ attempt \in 0..(MaxRetries - 1)
        /\ MaxRetries \in Nat /\ (pc = "get" => cursor < end)
    BY KlineAssumption DEF EndsInv, Inv, TypeOK, PagesInv
  <2> QED BY <1>2, <2>1 DEF Rank, Ranks, Below
<1>3. CASE outcome = "running" /\ phase = "download"
  <2>1. Downloads \in Nat /\ tries \in 0..(Downloads - 1)
        /\ Left(month, range[2]) \in Nat
    BY <1>3, Phases, HistoryAssumption DEF EndsInv, TriesInv
  <2> QED BY <1>3, <2>1 DEF Rank, Ranks, Below
<1>4. CASE outcome = "running" /\ phase = "upsert"
  <2>1. Cardinality(todo) \in Nat
        /\ (job # "klines" => Left(month, range[2]) \in Nat)
    BY Phases, FS_CardinalityType DEF EndsInv, CountInv
  <2>2. CASE job = "klines"
    BY <1>4, <2>1, <2>2 DEF Rank, Ranks, Below
  <2>3. CASE job # "klines"
    BY <1>4, <2>1, <2>3 DEF Rank, Ranks, Below
  <2> QED BY <2>2, <2>3
<1> QED BY <1>1, <1>2, <1>3, <1>4, Phases DEF EndsInv, CountInv

\* A call that ends has the lowest rank.
LEMMA EndLower ==
    ASSUME EndsInv, outcome = "running", outcome' # "running"
    PROVE  Below(Rank', Rank)
<1>1. Rank' = <<0, 0, 0>>
  BY DEF Rank
<1> QED BY <1>1, RankThere

\* A request brings the cursor nearer to the end, or uses up an attempt.
LEMMA GetNearer ==
    ASSUME EndsInv, FetchSteps, stored' = stored
    PROVE  Below(Rank', Rank)
<1>1. /\ end \in Nat /\ cursor \in Nat /\ attempt \in 0..(MaxRetries - 1)
      /\ MaxRetries \in Nat /\ stored \subseteq Bars /\ Bars \subseteq Nat
  BY KlineAssumption DEF EndsInv, Inv, TypeOK
<1>2. ~NewBar
  <2> SUFFICES ASSUME NewBar PROVE FALSE
    OBVIOUS
  <2>1. PICK b \in Bars : (\A s \in stored : s < b) /\ stored' = stored \cup {b}
    BY DEF NewBar
  <2>2. b \in stored /\ b \in Nat
    BY <1>1, <2>1
  <2>3. b < b
    BY <2>1, <2>2
  <2> QED BY <2>2, <2>3
<1>3. phase = "fetch" /\ UNCHANGED hvars /\ Get
  BY <1>2 DEF FetchSteps, Next
<1>4. pc = "get" /\ outcome = "running" /\ outcome' = "running" /\ phase' = "fetch"
  BY <1>3 DEF Get, EmptyPage, Page, Retry, ClientError, EndsInv, TriesInv, hvars
<1>5. Rank = <<3, end - cursor, MaxRetries - attempt>>
  BY <1>3, <1>4 DEF Rank
<1>6. CASE pc' # "get"
  <2>1. Rank' = <<2, 0, 0>>
    BY <1>4, <1>6 DEF Rank
  <2> QED BY <1>5, <2>1 DEF Below
<1>7. CASE pc' = "get"
  <2>1. Rank' = <<3, end' - cursor', MaxRetries - attempt'>>
    BY <1>4, <1>7 DEF Rank
  <2>2. CASE Page
    <3>1. PICK p \in SUBSET stored : \E last \in p :
            /\ Answer(p) /\ cursor' = NextCursor(p, last) /\ UNCHANGED call
      BY <2>2 DEF Page
    <3>2. PICK last \in p : Answer(p) /\ cursor' = last + Interval
      BY <3>1 DEF NextCursor
    <3>3. cursor <= last /\ last \in Nat /\ end' = end
      BY <1>1, <3>1, <3>2 DEF Answer, call
    <3>4. end' - cursor' < end - cursor
      BY <1>1, <3>2, <3>3, KlineAssumption
    <3> QED BY <1>5, <2>1, <3>4 DEF Below
  <2>3. CASE Retry
    <3>1. attempt' = attempt + 1 /\ UNCHANGED <<end, cursor>>
      BY <1>7, <2>3 DEF Retry, call
    <3> QED BY <1>1, <1>5, <2>1, <3>1 DEF Below
  <2> QED BY <1>3, <1>7, <2>2, <2>3 DEF Get, EmptyPage, ClientError
<1> QED BY <1>6, <1>7

\* With the next month there are fewer left.
LEMMA MonthNearer ==
    ASSUME EndsInv, outcome = "running", job = "months", UpTo(month, range[2]),
           phase \in {"download", "upsert"},
           outcome' = "running", phase' = "download", tries' = 0,
           month' = NextMonth(month), UNCHANGED range
    PROVE  Below(Rank', Rank)
<1>1. Left(month', range[2]) < Left(month, range[2])
  BY Phases, LeftLess
<1>2. Left(month, range[2]) \in Nat /\ Left(month', range[2]) \in Nat
  <2>1. month' \in Months
    BY Phases, BeforeNext
  <2> QED BY <2>1, Phases, LeftLess
<1>3. Rank' = <<2 * Left(month', range[2]) + 2, 0, Downloads>>
  BY HistoryAssumption DEF Rank
<1>4. Rank[1] \in {2 * Left(month, range[2]) + 2, 2 * Left(month, range[2]) + 1}
  BY DEF Rank
<1>5. Rank'[1] < Rank[1]
  BY <1>1, <1>2, <1>3, <1>4
<1> QED BY <1>5 DEF Below

LEMMA DownloadNearer ==
    ASSUME EndsInv, Download
    PROVE  Below(Rank', Rank)
<1>1. /\ phase = "download" /\ outcome = "running" /\ job = "months"
      /\ Left(month, range[2]) \in Nat /\ Downloads \in Nat
      /\ tries \in 0..(Downloads - 1) /\ UNCHANGED <<job, range>>
  <2>1. phase = "download" /\ outcome = "running" /\ UNCHANGED <<job, range>>
    BY DEF Download, DownloadRetries, DownloadRaises, ArchiveMissing,
           Downloaded, BulkReturns, Downloading
  <2> QED BY <2>1, Phases, HistoryAssumption DEF EndsInv, TriesInv
<1>2. Rank = <<2 * Left(month, range[2]) + 2, 0, Downloads - tries>>
  BY <1>1 DEF Rank
<1>3. CASE outcome' # "running"
  BY <1>1, <1>3, EndLower
<1>4. CASE DownloadRetries /\ outcome' = "running"
  <2>1. /\ tries' = tries + 1 /\ UNCHANGED <<month, range, phase>>
    BY <1>4 DEF DownloadRetries
  <2>2. Rank' = <<2 * Left(month, range[2]) + 2, 0, Downloads - tries'>>
    BY <1>1, <1>4, <2>1 DEF Rank
  <2> QED BY <1>1, <1>2, <2>1, <2>2 DEF Below
<1>5. CASE ArchiveMissing
  BY <1>1, <1>5, MonthNearer DEF ArchiveMissing, Downloading
<1>6. CASE Downloaded
  <2>1. /\ phase' = "upsert" /\ outcome' = "running" /\ job' = "months"
        /\ UNCHANGED <<month, range>>
    BY <1>1, <1>6 DEF Downloaded
  <2>2. Rank'[1] = 2 * Left(month, range[2]) + 1
    BY <2>1 DEF Rank
  <2>3. Rank'[1] < Rank[1]
    BY <1>1, <1>2, <2>2
  <2> QED BY <2>3 DEF Below
<1>7. CASE DownloadRaises \/ BulkReturns
  BY <1>3, <1>7 DEF DownloadRaises, BulkReturns
<1> QED BY <1>3, <1>4, <1>5, <1>6, <1>7, <1>1
        DEF Download, DownloadRetries

\* A batch leaves fewer rows, and a commit fewer months.
LEMMA UpsertNearer ==
    ASSUME EndsInv, Upsert
    PROVE  Below(Rank', Rank)
<1>1. phase = "upsert" /\ outcome = "running" /\ UNCHANGED <<job, range>>
  BY DEF Upsert, Batch, BatchFails, Commits, CommitFails, NothingToStore, Upserting
<1>2. CASE outcome' # "running"
  BY <1>1, <1>2, EndLower
<1>3. CASE Batch
  <2>1. PICK b \in (SUBSET todo) \ {{}} : todo' = todo \ b
    BY <1>3 DEF Batch
  <2>2. UNCHANGED <<job, range, month, phase, outcome>>
    BY <1>3 DEF Batch
  <2>3. IsFiniteSet(todo) /\ todo' \in SUBSET todo /\ todo' # todo
    <3>1. IsFiniteSet(todo)
      BY DEF EndsInv, CountInv
    <3>2. \E x \in todo : x \notin todo'
      BY <2>1
    <3>3. todo' \in SUBSET todo
      BY <2>1
    <3> QED BY <3>1, <3>2, <3>3
  <2>4. Cardinality(todo') < Cardinality(todo)
    BY <2>3, FS_Subset, FS_CardinalityType
  <2>5. Rank'[1] = Rank[1] /\ Rank'[2] = 0 /\ Rank[2] = 0
        /\ Rank'[3] = Cardinality(todo') /\ Rank[3] = Cardinality(todo)
    BY <1>1, <2>2 DEF Rank
  <2> QED BY <2>4, <2>5 DEF Below
<1>4. CASE (Commits \/ NothingToStore) /\ outcome' = "running"
  <2>1. Goes
    BY <1>4 DEF Commits, NothingToStore
  <2>2. /\ job = "months" /\ phase' = "download" /\ month' = NextMonth(month)
        /\ tries' = 0
    BY <1>4, <2>1 DEF Goes
  <2>3. UpTo(month, range[2])
    BY <1>1, <2>2 DEF EndsInv, MonthsInv
  <2> QED BY <1>1, <1>4, <2>2, <2>3, MonthNearer
<1>5. CASE BatchFails \/ CommitFails
  BY <1>2, <1>5 DEF BatchFails, CommitFails
<1> QED BY <1>1, <1>2, <1>3, <1>4, <1>5 DEF Upsert

LEMMA FetchEndedNearer ==
    ASSUME EndsInv, FetchEnded
    PROVE  Below(Rank', Rank)
<1>1. /\ phase = "fetch" /\ pc # "get" /\ outcome = "running"
      /\ job = "klines" /\ job' = "klines"
  BY Phases DEF FetchEnded
<1>2. CASE outcome' # "running"
  BY <1>1, <1>2, EndLower
<1>3. CASE outcome' = "running"
  <2>1. phase' = "upsert"
    BY <1>3 DEF FetchEnded
  <2>2. Rank'[1] = 1 /\ Rank[1] = 2
    BY <1>1, <1>3, <2>1 DEF Rank
  <2> QED BY <2>2 DEF Below
<1> QED BY <1>2, <1>3

LEMMA EndsAlways ==
    ASSUME Separate
    PROVE  HistorySpec => []EndsInv
<1>1. HistorySpec => []KlinesInv
  BY KlinesInitially, KlinesNext, PTL DEF HistorySpec
<1>2. Inv /\ MonthsInv /\ KlinesInv /\ CountInv /\ [HistoryNext]_<<vars, hvars>>
        => CountInv'
  BY CountNext
<1>3. HistorySpec => []CountInv
  BY <1>1, <1>2, CountInitially, Invariance, MonthsAlways, PTL DEF HistorySpec
<1>4. HistorySpec => []TriesInv
  BY TriesInitially, TriesNext, PTL DEF HistorySpec
<1>5. Inv /\ MonthsInv /\ KlinesInv /\ CountInv /\ TriesInv => EndsInv
  BY DEF EndsInv
<1> QED BY <1>1, <1>3, <1>4, <1>5, Invariance, MonthsAlways, PTL

\* The ranks of the states are in the well-founded order of BelowEnds.
THEOREM RankAlways ==
    ASSUME Separate
    PROVE  HistorySpec => [](Rank \in Ranks)
<1>1. EndsInv => Rank \in Ranks
  BY RankThere
<1> QED BY <1>1, EndsAlways, PTL

\* Each step of a call brings it nearer to its end, by a rank in a well-founded
\* order: neither the retries, nor the pages of a range, nor the months go on
\* for ever, however many bars the exchange adds meanwhile.
THEOREM NearerAlways ==
    ASSUME Separate
    PROVE  HistorySpec => Nearer
<1>1. ASSUME EndsInv, HistoryNext
      PROVE  IF stored' = stored THEN Below(Rank', Rank) ELSE Rank' = Rank
  <2>1. CASE stored' = stored
    BY <1>1, <2>1, GetNearer, FetchEndedNearer, DownloadNearer, UpsertNearer
       DEF HistoryNext
  <2>2. CASE stored' # stored
    <3>1. FetchSteps /\ NewBar
      BY <1>1, <2>2, FetchOrNot
         DEF vars, FetchSteps, Next, Get, EmptyPage, Page, Retry, ClientError
    <3> QED BY <2>2, <3>1 DEF FetchSteps, hvars, NewBar, call, Rank
  <2> QED BY <2>1, <2>2
<1>2. EndsInv /\ [HistoryNext]_<<vars, hvars>>
        => [IF stored' = stored THEN Below(Rank', Rank)
                                ELSE Rank' = Rank]_<<vars, hvars>>
  BY <1>1
<1> QED BY <1>2, EndsAlways, PTL DEF HistorySpec, Nearer
=============================================================================
