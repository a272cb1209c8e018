------------------------------ MODULE History -------------------------------
(***************************************************************************)
(* How history gets into the table ohlcv_bars (backend/app/data/           *)
(* binance.py): fetch_klines_all, which is KlinePages and then the upsert  *)
(* of its rows, and bulk_load_history, which downloads the archive of one  *)
(* month after the other and upserts each.                                 *)
(*                                                                         *)
(* A row is its open time.  An upsert executes its rows in batches and     *)
(* commits once; its statement fails if the table is not there (Schema     *)
(* shows that no migration of the repository makes it as it must be).      *)
(***************************************************************************)
EXTENDS KlinePages

CONSTANTS
    Ranges,         \* what bulk_load_history is asked for, <<first, last>>
    Archives,       \* the months for which there may be an archive
    MonthRows(_),   \* the open times in the archive of a month
    BatchSize,      \* batch_size of _upsert_rows
    Downloads       \* attempts of download_monthly_zip

\* A month is a pair of a year and a number, as in the code.
Months == Nat \X (1..12)

ASSUME HistoryAssumption ==
    /\ Ranges \subseteq Months \X Months /\ Archives \subseteq Months
    /\ \A m \in Archives : MonthRows(m) \subseteq Nat
    /\ BatchSize \in Nat \ {0} /\ Downloads \in Nat \ {0}

VARIABLES
    job,            \* "klines" or "months"
    range, month,   \* the months asked for; the one of this iteration
    archived,       \* the months whose archive is there
    tries,          \* failed attempts of this download
    phase,          \* "fetch", "download", "upsert"
    todo,           \* rows that _upsert_rows has not executed yet
    open,           \* rows executed, not committed
    total,          \* the sum of what _upsert_rows returned
    table,          \* rows committed
    hasTable,       \* ohlcv_bars is there with its constraint
    outcome         \* "running", "returned", "raised"

hvars == <<job, range, month, archived, tries, phase, todo, open, total, table,
           hasTable, outcome>>

\* (year, month) <= (end_year, end_month)
UpTo(m, n) == m[1] < n[1] \/ (m[1] = n[1] /\ m[2] <= n[2])

\* _next_month
NextMonth(m) == IF m[2] = 12 THEN <<m[1] + 1, 1>> ELSE <<m[1], m[2] + 1>>

HistoryInit ==
    /\ tries = 0 /\ todo = {} /\ open = {} /\ total = 0 /\ table = {}
    /\ hasTable \in BOOLEAN /\ outcome = "running"
    /\ \/ /\ Init /\ job = "klines" /\ phase = "fetch"
          /\ range = <<>> /\ month = <<>> /\ archived = {}
       \/ /\ start \in Times /\ end = start /\ cursor = start /\ pages = <<>>
          /\ attempt = 0 /\ pc = "done" /\ stored = {} /\ known = {}
          /\ job = "months" /\ phase = "download"
          /\ range \in Ranges /\ month = range[1]
          /\ archived \in SUBSET Archives

-----------------------------------------------------------------------------
\* fetch_klines_all

FetchSteps ==
    /\ phase = "fetch" /\ Next /\ UNCHANGED hvars

\* fetch_klines has raised, or returned what is to be upserted now.
FetchEnded ==
    /\ phase = "fetch" /\ pc # "get" /\ outcome = "running"
    /\ IF pc = "raised"
       THEN outcome' = "raised" /\ UNCHANGED <<phase, todo>>
       ELSE phase' = "upsert" /\ todo' = Got /\ UNCHANGED outcome
    /\ UNCHANGED <<vars, job, range, month, archived, tries, open, total,
                   table, hasTable>>

-----------------------------------------------------------------------------
\* download_monthly_zip

Downloading == phase = "download" /\ outcome = "running" /\ UpTo(month, range[2])

\* Timeout, network error or 5xx: sleep and once more, or give up.
DownloadRetries ==
    /\ Downloading
    /\ \/ /\ tries + 1 < Downloads /\ tries' = tries + 1 /\ UNCHANGED outcome
       \/ /\ tries + 1 = Downloads /\ outcome' = "raised" /\ UNCHANGED tries
    /\ UNCHANGED <<vars, job, range, month, archived, phase, todo, open, total,
                   table, hasTable>>

\* Another 4xx, another error of the protocol, or a file that is no archive.
DownloadRaises ==
    /\ Downloading /\ outcome' = "raised"
    /\ UNCHANGED <<vars, job, range, month, archived, tries, phase, todo, open,
                   total, table, hasTable>>

\* Mutant of ArchiveMissing: the loop continues with the same month.
ArchiveMissingStays ==
    /\ Downloading /\ month \notin archived
    /\ tries' = 0
    /\ UNCHANGED <<vars, job, range, month, archived, phase, todo, open, total,
                   table, hasTable, outcome>>

\* 404: the month is left out.
ArchiveMissing ==
    /\ Downloading /\ month \notin archived
    /\ month' = NextMonth(month) /\ tries' = 0
    /\ UNCHANGED <<vars, job, range, archived, phase, todo, open, total, table,
                   hasTable, outcome>>

Downloaded ==
    /\ Downloading /\ month \in archived
    /\ phase' = "upsert" /\ todo' = MonthRows(month)
    /\ UNCHANGED <<vars, job, range, month, archived, tries, open, total, table,
                   hasTable, outcome>>

\* while (year, month) <= (end_year, end_month) is over.
BulkReturns ==
    /\ phase = "download" /\ outcome = "running" /\ ~UpTo(month, range[2])
    /\ outcome' = "returned"
    /\ UNCHANGED <<vars, job, range, month, archived, tries, phase, todo, open,
                   total, table, hasTable>>

-----------------------------------------------------------------------------
\* _upsert_rows

Upserting == phase = "upsert" /\ outcome = "running"

\* Mutant of Batch: each batch is committed by itself.
BatchCommits ==
    /\ Upserting /\ hasTable
    /\ \E b \in (SUBSET todo) \ {{}} :
          /\ Cardinality(b) <= BatchSize
          /\ b # todo => Cardinality(b) = BatchSize
          /\ \A x \in b, y \in todo \ b : x < y
          /\ todo' = todo \ b /\ open' = open \cup b
          /\ table' = table \cup b
    /\ UNCHANGED <<vars, job, range, month, archived, tries, phase, total,
                   hasTable, outcome>>

Batch ==
    /\ Upserting /\ hasTable
    /\ \E b \in (SUBSET todo) \ {{}} :
          /\ Cardinality(b) <= BatchSize
          /\ b # todo => Cardinality(b) = BatchSize
          /\ \A x \in b, y \in todo \ b : x < y
          /\ todo' = todo \ b /\ open' = open \cup b
    /\ UNCHANGED <<vars, job, range, month, archived, tries, phase, total,
                   table, hasTable, outcome>>

\* The table is not there, or the database or its connection fails: the error
\* leaves the method, and the session is closed without a commit.
BatchFails ==
    /\ Upserting /\ todo # {}
    /\ outcome' = "raised" /\ open' = {}
    /\ UNCHANGED <<vars, job, range, month, archived, tries, phase, todo, total,
                   table, hasTable>>

\* What follows the upsert: the next month, or the end of fetch_klines_all.
Goes ==
    IF job = "months"
    THEN /\ phase' = "download" /\ month' = NextMonth(month) /\ tries' = 0
         /\ UNCHANGED outcome
    ELSE outcome' = "returned" /\ UNCHANGED <<phase, month, tries>>

\* Mutant of Commits: what was returned is not added up.
CommitsLast ==
    /\ Upserting /\ todo = {} /\ open # {}
    /\ table' = table \cup open /\ open' = {} /\ total' = Cardinality(open)
    /\ Goes
    /\ UNCHANGED <<vars, job, range, archived, todo, hasTable>>

Commits ==
    /\ Upserting /\ todo = {} /\ open # {}
    /\ table' = table \cup open /\ open' = {}
    /\ total' = total + Cardinality(open)
    /\ Goes
    /\ UNCHANGED <<vars, job, range, archived, todo, hasTable>>

\* Its reply may be lost when it is done already.
CommitFails ==
    /\ Upserting /\ todo = {} /\ open # {}
    /\ table' \in {table, table \cup open} /\ open' = {}
    /\ outcome' = "raised"
    /\ UNCHANGED <<vars, job, range, month, archived, tries, phase, todo, total,
                   hasTable>>

\* if not rows: return 0
NothingToStore ==
    /\ Upserting /\ todo = {} /\ open = {} /\ Goes
    /\ UNCHANGED <<vars, job, range, archived, todo, open, total, table,
                   hasTable>>

Upsert == Batch \/ BatchFails \/ Commits \/ CommitFails \/ NothingToStore
Download == DownloadRetries \/ DownloadRaises \/ ArchiveMissing \/ Downloaded
            \/ BulkReturns

HistoryNext == FetchSteps \/ FetchEnded \/ Download \/ Upsert

\* Requests and statements end by the timeouts of their clients.
HistoryFairness ==
    /\ WF_<<vars, hvars>>(phase = "fetch" /\ Get /\ UNCHANGED hvars)
    /\ WF_<<vars, hvars>>(FetchEnded \/ Download \/ Upsert)

HistorySpec ==
    HistoryInit /\ [][HistoryNext]_<<vars, hvars>> /\ HistoryFairness

-----------------------------------------------------------------------------
\* Properties

RowsOf(ms) == UNION {MonthRows(m) : m \in ms}

\* The archives that the months before this one have.
Before == {m \in archived : UpTo(range[1], m) /\ UpTo(m, month) /\ m # month}

\* However the bulk load ends, the table has the whole months before the one it
\* stopped at, and of that one all or nothing: no batch of a month is stored
\* without the others, and no archived month is left out.
WholeMonths ==
    job = "months" =>
        \/ table = RowsOf(Before)
        \/ outcome = "raised" /\ table = RowsOf(Before \cup {month})

\* What a call returns is the number of rows it stored: all rows of the archives
\* in the range, resp. all bars that were fetched; and it only returns when it
\* has stored them or there were none.
ReturnsStored ==
    outcome = "returned" =>
        /\ total = Cardinality(table)
        /\ table = IF job = "klines" THEN Got
                   ELSE RowsOf({m \in archived : /\ UpTo(range[1], m)
                                                 /\ UpTo(m, range[2])})

\* Both calls come to an end, after finitely many requests and retries.
CallEnds == <>(outcome # "running")

\* Why: each step of a call brings it nearer to its end, and those of the exchange
\* leave it where it is.  The rank counts the phases and months that are left, how far the
\* cursor is from the end, and the attempts or the rows that are left.
Left(m, n) == IF UpTo(m, n) THEN 12 * (n[1] - m[1]) + (n[2] - m[2]) + 1 ELSE 0

Rank ==
    IF outcome # "running" THEN <<0, 0, 0>>
    ELSE IF phase = "fetch"
         THEN IF pc = "get" THEN <<3, end - cursor, MaxRetries - attempt>>
              ELSE <<2, 0, 0>>
    ELSE IF phase = "download"
         THEN <<2 * Left(month, range[2]) + 2, 0, Downloads - tries>>
    ELSE <<IF job = "klines" THEN 1 ELSE 2 * Left(month, range[2]) + 1, 0,
           Cardinality(todo)>>

\* In the lexicographic order.
Below(p, q) ==
    \/ p[1] < q[1]
    \/ p[1] = q[1] /\ p[2] < q[2]
    \/ p[1] = q[1] /\ p[2] = q[2] /\ p[3] < q[3]

Nearer ==
    [][IF stored' = stored THEN Below(Rank', Rank) ELSE Rank' = Rank]_<<vars, hvars>>
=============================================================================
