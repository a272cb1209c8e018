----------------------------- MODULE KlinePages -----------------------------
(***************************************************************************)
(* One call of fetch_klines (backend/app/data/binance.py): the requested   *)
(* range is fetched page by page while the exchange goes on adding bars.   *)
(* A bar is its open time.  Each request is tried several times (_get);    *)
(* what the rate limiter adds is only waiting (TokenBucket).               *)
(***************************************************************************)
EXTENDS Integers, Sequences, FiniteSets

CONSTANTS
    Bars,               \* the open times there are ever bars of
    Interval,           \* _interval_ms(interval)
    Limit,              \* _KLINE_LIMIT
    MaxRetries,         \* max_retries of _get
    Times               \* the starts and ends a caller may ask for

\* Bars are at least an interval apart.  This holds for every interval of
\* _INTERVAL_MS but "1M", which is 30 days there and less in February.
ASSUME KlineAssumption ==
    /\ Bars \subseteq Nat /\ Times \subseteq Nat
    /\ Interval \in Nat \ {0} /\ Limit \in Nat \ {0} /\ MaxRetries \in Nat \ {0}
    /\ \A a, b \in Bars : a < b => a + Interval <= b

VARIABLES
    start, end,         \* start_ts, end_ts
    cursor,
    pages,              \* all_rows, page by page: a sequence of sets of bars
    attempt,            \* of the request
    pc,
    stored,             \* the bars the exchange has
    known               \* history: those it had when the call began

call == <<start, end, known>>
vars == <<call, cursor, pages, attempt, pc, stored>>

TypeOK ==
    /\ start \in Times /\ end \in Times /\ cursor \in Nat
    /\ pages \in Seq(SUBSET Bars)
    /\ attempt \in 0..(MaxRetries - 1)
    /\ pc \in {"get", "done", "raised"}
    /\ stored \in SUBSET Bars /\ known \in SUBSET stored

Init ==
    /\ start \in Times /\ end \in Times /\ cursor = start
    /\ pages = <<>> /\ attempt = 0
    /\ pc = IF start < end THEN "get" ELSE "done"
    /\ stored \in SUBSET Bars /\ known = stored

\* The bars fetched so far.
Got == UNION {pages[i] : i \in 1..Len(pages)}

-----------------------------------------------------------------------------
\* The exchange adds a bar, later than all it has.
NewBar ==
    /\ \E b \in Bars : (\A s \in stored : s < b) /\ stored' = stored \cup {b}
    /\ UNCHANGED <<call, cursor, pages, attempt, pc>>

\* p is its answer: the first Limit bars from the cursor to the end.
Answer(p) ==
    LET range == {b \in stored : cursor <= b /\ b <= end}
    IN  /\ p \in SUBSET range /\ Cardinality(p) <= Limit
        /\ Cardinality(p) < Limit => p = range
        /\ \A x \in p, y \in range \ p : x < y

EmptyPage ==
    /\ pc = "get" /\ Answer({}) /\ pc' = "done"
    /\ UNCHANGED <<call, cursor, pages, attempt, stored>>

\* Mutant of NextCursor: the last bar is asked for again.
NextCursorSame(p, last) == last

\* One interval after the last bar of page p.
NextCursor(p, last) == last + Interval

\* Mutant of Finished: a full page ends the fetch.
FinishedFull(p, c) == Cardinality(p) <= Limit \/ c >= end

\* A short page, or a cursor at the end, ends the fetch.
Finished(p, c) == Cardinality(p) < Limit \/ c >= end

Page ==
    \E p \in SUBSET stored : \E last \in p :
        /\ pc = "get" /\ Answer(p) /\ \A x \in p : x <= last
        /\ pages' = Append(pages, p)
        /\ cursor' = NextCursor(p, last)
        /\ attempt' = 0
        /\ pc' = IF Finished(p, cursor') THEN "done" ELSE "get"
        /\ UNCHANGED <<call, stored>>

\* 418, 429, 5xx, a timeout or a network error: once more, or give up.
Retry ==
    /\ pc = "get"
    /\ \/ /\ attempt + 1 < MaxRetries /\ attempt' = attempt + 1
          /\ UNCHANGED pc
       \/ /\ attempt + 1 = MaxRetries /\ pc' = "raised"
          /\ UNCHANGED attempt
    /\ UNCHANGED <<call, cursor, pages, stored>>

\* Any other 4xx is raised at once.
ClientError ==
    /\ pc = "get" /\ pc' = "raised"
    /\ UNCHANGED <<call, cursor, pages, attempt, stored>>

Get == EmptyPage \/ Page \/ Retry \/ ClientError

Next == NewBar \/ Get

Spec == Init /\ [][Next]_vars

-----------------------------------------------------------------------------
\* Properties

\* The rows are sorted, and none is there twice: every bar of a page is later
\* than those of the pages before it.
Ascending ==
    \A i, j \in 1..Len(pages) :
        i < j => \A x \in pages[i], y \in pages[j] : x < y

\* A call that returns has every bar before end_ts that the exchange had when
\* it began.
CompleteBelowEnd ==
    pc = "done" => \A b \in known : start <= b /\ b < end => b \in Got

\* Why: behind the cursor everything is fetched, and nothing at or after it.
PagesInv ==
    /\ cursor = start \/ \E b \in Got : cursor = b + Interval
    /\ cursor >= start
    /\ \A b \in Got : b + Interval <= cursor
    /\ Got \subseteq stored
    /\ pc = "get" => /\ cursor < end
                     /\ \A b \in stored : start <= b /\ b < cursor => b \in Got
    /\ Ascending /\ CompleteBelowEnd

Inv == TypeOK /\ PagesInv
=============================================================================
