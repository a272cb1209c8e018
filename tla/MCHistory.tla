----------------------------- MODULE MCHistory ------------------------------
(***************************************************************************)
(* Small instances of History for TLC: bars two units apart, with callers  *)
(* asking for times between them, two bars to a page and to a batch; and   *)
(* the months about the end of a year, of which one has no rows.           *)
(***************************************************************************)
EXTENDS History

EvenBars == {2 * i : i \in 0..5}
AskedFor == 0..10

Autumn     == {<<1, 10>>, <<1, 11>>, <<1, 12>>, <<2, 1>>, <<2, 2>>}
AllRanges  == {r \in Autumn \X Autumn : UpTo(r[1], r[2])}
               \cup {<<<<2, 1>>, <<1, 12>>>>}
RowCount(m) == <<3, 0, 2, 1>>[1 + (m[2] % 4)]
SomeRows(m) == {100 * m[1] + 6 * m[2] + i : i \in 1..RowCount(m)}
=============================================================================
