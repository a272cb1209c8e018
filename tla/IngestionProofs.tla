-------------------------- MODULE IngestionProofs ---------------------------
(***************************************************************************)
(* Proofs about the live ingestion, for every number of tasks and of bars: *)
(* what is published is in order, and stored unless its write failed; at   *)
(* most one bar of each task follows a stop; a bar stored as it closed     *)
(* stays.                                                                  *)
(***************************************************************************)
EXTENDS Ingestion, TLAPS

-----------------------------------------------------------------------------
\* Sequences

\* What Append leaves and adds.
LEMMA Appended ==
    ASSUME NEW S, NEW s \in Seq(S), NEW e \in S
    PROVE  /\ Append(s, e) \in Seq(S)
           /\ Len(s) \in Nat /\ DOMAIN s = 1..Len(s)
           /\ DOMAIN Append(s, e) = 1..(Len(s) + 1)
           /\ \A p \in 1..Len(s) : Append(s, e)[p] = s[p]
           /\ Append(s, e)[Len(s) + 1] = e
OBVIOUS

\* What Head takes and Tail leaves.
LEMMA Taken ==
    ASSUME NEW S, NEW s \in Seq(S), s # <<>>
    PROVE  /\ Head(s) \in S /\ Tail(s) \in Seq(S)
           /\ 1 \in DOMAIN s /\ Head(s) = s[1]
           /\ \A q \in DOMAIN Tail(s) :
                 q \in Nat \ {0} /\ q + 1 \in DOMAIN s /\ Tail(s)[q] = s[q + 1]
<1>1. Len(s) \in Nat \ {0} /\ DOMAIN s = 1..Len(s)
  OBVIOUS
<1>2. Head(s) = s[1] /\ s[1] \in S
  BY <1>1
<1>3. Tail(s) \in Seq(S)
  OBVIOUS
<1>4. Len(Tail(s)) = Len(s) - 1
  OBVIOUS
<1>5. DOMAIN Tail(s) = 1..(Len(s) - 1)
  BY <1>3, <1>4
<1>6. ASSUME NEW q \in DOMAIN Tail(s)
      PROVE  q \in Nat \ {0} /\ q + 1 \in DOMAIN s /\ Tail(s)[q] = s[q + 1]
  BY <1>1, <1>5, <1>6
<1> QED BY <1>1, <1>2, <1>3, <1>6

\* The elements of a sequence grow; those of one are below those of another.
Ascending(s) == \A p, q \in DOMAIN s : p < q => s[p] < s[q]
Below(s, n)  == \A p \in DOMAIN s : s[p] < n
Above(s, n)  == \A p \in DOMAIN s : n < s[p]

\* A larger last element keeps a sequence growing.
LEMMA AppendedAscends ==
    ASSUME NEW s \in Seq(Minutes), NEW e \in Minutes, Ascending(s), Below(s, e)
    PROVE  Ascending(Append(s, e))
<1> SUFFICES ASSUME NEW p \in DOMAIN Append(s, e), NEW q \in DOMAIN Append(s, e),
                    p < q
             PROVE  Append(s, e)[p] < Append(s, e)[q]
  BY DEF Ascending
<1>1. /\ Len(s) \in Nat /\ DOMAIN s = 1..Len(s)
      /\ DOMAIN Append(s, e) = 1..(Len(s) + 1)
      /\ \A k \in 1..Len(s) : Append(s, e)[k] = s[k]
      /\ Append(s, e)[Len(s) + 1] = e
  BY Appended
<1>2. p \in 1..Len(s)
  BY <1>1
<1>3. CASE q = Len(s) + 1
  BY <1>1, <1>2, <1>3 DEF Below
<1>4. CASE q \in 1..Len(s)
  BY <1>1, <1>2, <1>4 DEF Ascending
<1> QED BY <1>1, <1>3, <1>4

\* An element within a bound keeps a sequence within it.
LEMMA AppendedBelow ==
    ASSUME NEW s \in Seq(Minutes), NEW e \in Minutes, NEW n, Below(s, n), e < n
    PROVE  Below(Append(s, e), n)
BY Appended DEF Below

LEMMA AppendedAbove ==
    ASSUME NEW s \in Seq(Minutes), NEW e \in Minutes, NEW n, Above(s, n), n < e
    PROVE  Above(Append(s, e), n)
BY Appended DEF Above

-----------------------------------------------------------------------------
\* The order of the bars of one task, over values: those published, the one in
\* _on_bar if `hand`, those to come.
Line(n, pub, hand, b, fd) ==
    /\ Ascending(pub) /\ Below(pub, n)
    /\ Ascending(fd) /\ Below(fd, n)
    /\ \A p \in DOMAIN pub : Above(fd, pub[p])
    /\ hand => b < n /\ Below(pub, b) /\ Above(fd, b)

LEMMA OrderIsLine ==
    OrderInv <=> \A i \in Tasks :
                    Line(current, published[i], InHand(i), bar[i], feed[i])
BY Zenon DEF OrderInv, PublishedInOrder, Line, Ascending, Below, Above

LEMMA OrderIsLineNext ==
    OrderInv' <=> \A i \in Tasks :
                    Line(current', published'[i], InHand(i)', bar'[i], feed'[i])
BY Zenon DEF OrderInv, PublishedInOrder, Line, Ascending, Below, Above, InHand

\* A connection that did not see the bar close.
LEMMA LineLater ==
    ASSUME NEW n \in Minutes, NEW pub \in Seq(Minutes), NEW hand \in BOOLEAN,
           NEW b \in Minutes, NEW fd \in Seq(Minutes), Line(n, pub, hand, b, fd)
    PROVE  Line(n + 1, pub, hand, b, fd)
<1>1. ASSUME NEW s \in Seq(Minutes), Below(s, n) PROVE Below(s, n + 1)
  <2>1. \A p \in DOMAIN s : s[p] \in Minutes /\ s[p] < n
    BY <1>1 DEF Below
  <2> QED BY <2>1, IngestionAssumption DEF Below, Minutes
<1>2. b < n => b < n + 1
  BY IngestionAssumption DEF Minutes
<1> QED BY <1>1, <1>2 DEF Line

\* One that did.
LEMMA LineGrows ==
    ASSUME NEW n \in Minutes, NEW pub \in Seq(Minutes), NEW hand \in BOOLEAN,
           NEW b \in Minutes, NEW fd \in Seq(Minutes), Line(n, pub, hand, b, fd)
    PROVE  Line(n + 1, pub, hand, b, Append(fd, n))
<1>1. Line(n + 1, pub, hand, b, fd)
  BY LineLater
<1>2. Ascending(Append(fd, n))
  BY AppendedAscends DEF Line
<1>3. Below(Append(fd, n), n + 1)
  BY <1>1, AppendedBelow DEF Line, Minutes
<1>4. ASSUME NEW p \in DOMAIN pub PROVE Above(Append(fd, n), pub[p])
  <2>1. Above(fd, pub[p]) /\ pub[p] < n
    BY DEF Line, Below
  <2> QED BY <2>1, AppendedAbove
<1>5. hand => Above(Append(fd, n), b)
  BY AppendedAbove DEF Line
<1> QED BY <1>1, <1>2, <1>3, <1>4, <1>5 DEF Line

\* A new connection, or one without a bar in _on_bar.
LEMMA LineForgets ==
    ASSUME NEW n, NEW pub, NEW hand, NEW b, NEW fd, NEW c,
           Line(n, pub, hand, b, fd)
    PROVE  Line(n, pub, FALSE, c, fd) /\ Line(n, pub, FALSE, c, <<>>)
BY DEF Line, Ascending, Below, Above

\* The next bar goes into _on_bar.
LEMMA LineTakes ==
    ASSUME NEW n \in Minutes, NEW pub \in Seq(Minutes), NEW b, NEW hand,
           NEW fd \in Seq(Minutes), fd # <<>>, Line(n, pub, hand, b, fd)
    PROVE  Line(n, pub, TRUE, Head(fd), Tail(fd))
<1>1. /\ Tail(fd) \in Seq(Minutes) /\ 1 \in DOMAIN fd /\ Head(fd) = fd[1]
      /\ \A q \in DOMAIN Tail(fd) : q \in Nat \ {0} /\ q + 1 \in DOMAIN fd
                                    /\ Tail(fd)[q] = fd[q + 1]
  BY Taken
<1>2. Ascending(Tail(fd)) /\ Below(Tail(fd), n)
  BY <1>1 DEF Line, Ascending, Below
<1>3. ASSUME NEW p \in DOMAIN pub PROVE Above(Tail(fd), pub[p])
  BY <1>1 DEF Line, Above
<1>4. Head(fd) < n /\ Below(pub, Head(fd))
  BY <1>1 DEF Line, Below, Above
<1>5. Above(Tail(fd), Head(fd))
  BY <1>1 DEF Line, Ascending, Above
<1> QED BY <1>2, <1>3, <1>4, <1>5 DEF Line

\* The bar in _on_bar is published.
LEMMA LinePublishes ==
    ASSUME NEW n \in Minutes, NEW pub \in Seq(Minutes), NEW b \in Minutes, NEW fd,
           Line(n, pub, TRUE, b, fd)
    PROVE  Line(n, Append(pub, b), FALSE, b, fd)
<1>1. Ascending(Append(pub, b)) /\ Below(Append(pub, b), n)
  BY AppendedAscends, AppendedBelow DEF Line
<1>2. ASSUME NEW p \in DOMAIN Append(pub, b)
      PROVE  Above(fd, Append(pub, b)[p])
  BY Appended DEF Line
<1> QED BY <1>1, <1>2 DEF Line

-----------------------------------------------------------------------------
\* The invariant

LEMMA Initially == StreamInit => StreamInv
<1> SUFFICES ASSUME StreamInit PROVE StreamInv
  OBVIOUS
<1> USE DEF StreamInit
<1>1. StreamTypeOK
  <2>1. 0 \in Minutes
    BY IngestionAssumption DEF Minutes
  <2>2. at \in [Tasks -> Alive \cup {"idle", "returned"}]
    OBVIOUS
  <2>3. ohlcv \in [Minutes -> Values]
    BY DEF Values
  <2>4. seed = <<>> /\ DOMAIN seed = {}
    OBVIOUS
  <2>5. <<>> \in Seq(Minutes)
    OBVIOUS
  <2>6. feed \in [Tasks -> Seq(Minutes)] /\ published \in [Tasks -> Seq(Minutes)]
    BY <2>5, Zenon DEF StreamInit
  <2>7. bar \in [Tasks -> Minutes] /\ late \in [Tasks -> Nat]
    BY <2>1
  <2> QED BY <2>1, <2>2, <2>3, <2>4, <2>6, <2>7 DEF StreamTypeOK
<1>2. OrderInv
  BY DEF OrderInv, PublishedInOrder, InHand
<1>3. StoredInv
  BY DEF StoredInv, PublishedStored
<1>4. LateInv
  BY DEF LateInv, OneAfterStop
<1> QED BY <1>1, <1>2, <1>3, <1>4 DEF StreamInv

\* A step that brings no bar further leaves the order as it is.
LEMMA OrderKept ==
    ASSUME OrderInv, UNCHANGED <<current, published>>,
           \A i \in Tasks : InHand(i)' => InHand(i) /\ bar'[i] = bar[i],
           \A i \in Tasks : feed'[i] \in {feed[i], <<>>}
    PROVE  OrderInv'
<1> SUFFICES ASSUME NEW i \in Tasks
             PROVE  Line(current', published'[i], InHand(i)', bar'[i], feed'[i])
  BY OrderIsLineNext
<1>1. Line(current, published[i], InHand(i), bar[i], feed[i])
  BY OrderIsLine
<1>2. \A c : /\ Line(current, published[i], FALSE, c, feed[i])
             /\ Line(current, published[i], FALSE, c, <<>>)
  BY <1>1, LineForgets
<1>3. CASE InHand(i)'
  <2>1. InHand(i) /\ bar'[i] = bar[i]
    BY <1>3
  <2>2. Line(current, published[i], InHand(i), bar[i], <<>>)
    BY <1>1, <2>1 DEF Line, Ascending, Below, Above
  <2>3. InHand(i)' = InHand(i)
    BY <1>3, <2>1 DEF InHand
  <2> QED BY <1>1, <2>1, <2>2, <2>3
<1>4. CASE ~InHand(i)'
  <2>1. InHand(i)' = FALSE
    BY <1>4 DEF InHand
  <2> QED BY <1>2, <2>1
<1> QED BY <1>3, <1>4

\* A bar that the table has as it closed, or whose write failed, remains so.
LEMMA StoredKept ==
    ASSUME StreamTypeOK, StoredInv, UNCHANGED published,
           \A t \in Minutes : Kept(t) => Kept(t)',
           \A i \in Tasks : at'[i] = "publish" =>
                 Kept(bar[i])' \/ (at[i] = "publish" /\ bar'[i] = bar[i])
    PROVE  StoredInv'
<1>1. PublishedStored'
  <2> SUFFICES ASSUME NEW i \in Tasks, NEW p \in DOMAIN published[i]
               PROVE  Kept(published[i][p])'
    BY DEF PublishedStored, Kept
  <2>1. published[i] \in Seq(Minutes)
    BY DEF StreamTypeOK
  <2>2. published[i][p] \in Minutes
    BY <2>1
  <2>3. Kept(published[i][p])
    BY DEF StoredInv, PublishedStored
  <2> QED BY <2>2, <2>3 DEF Kept
<1>2. ASSUME NEW i \in Tasks, at'[i] = "publish" PROVE Kept(bar[i])'
  <2>1. CASE at[i] = "publish" /\ bar'[i] = bar[i]
    <3>1. Kept(bar[i]) /\ bar[i] \in Minutes
      BY <2>1 DEF StoredInv, StreamTypeOK
    <3> QED BY <2>1, <3>1 DEF Kept
  <2> QED BY <1>2, <2>1
<1> QED BY <1>1, <1>2 DEF StoredInv

LEMMA LateKept ==
    ASSUME LateInv, UNCHANGED late,
           \A i \in Tasks : running' \/ InHand(i)' => running \/ InHand(i)
    PROVE  LateInv'
BY DEF LateInv, OneAfterStop

\* A step that touches neither the table nor what is published.
LEMMA QuietStep ==
    ASSUME StreamInv, StreamTypeOK', UNCHANGED <<current, data>>,
           \A i \in Tasks : InHand(i)' => InHand(i) /\ bar'[i] = bar[i],
           \A i \in Tasks : at'[i] = "publish" => at[i] = "publish",
           \A i \in Tasks : feed'[i] \in {feed[i], <<>>},
           running' => running
    PROVE  StreamInv'
<1>1. UNCHANGED <<published, ohlcv, unstored, late>>
  BY DEF data
<1>2. OrderInv'
  BY <1>1, OrderKept DEF StreamInv
<1>3. StoredInv'
  <2>1. \A t \in Minutes : Kept(t) => Kept(t)'
    BY <1>1 DEF Kept
  <2>2. \A i \in Tasks : at'[i] = "publish" =>
                            at[i] = "publish" /\ bar'[i] = bar[i]
    BY DEF InHand
  <2> QED BY <1>1, <2>1, <2>2, StoredKept DEF StreamInv
<1>4. LateInv'
  BY <1>1, LateKept DEF StreamInv
<1> QED BY <1>2, <1>3, <1>4 DEF StreamInv

\* So is a step of one task to a place outside _on_bar.
LEMMA GoesOutside ==
    ASSUME StreamInv, StreamTypeOK', UNCHANGED <<current, running, bar, data>>,
           NEW i \in Tasks, NEW from, NEW to, Moves(i, from, to),
           to \notin {"store", "publish"},
           \A j \in Tasks : feed'[j] \in {feed[j], <<>>}
    PROVE  StreamInv'
<1>1. \A j \in Tasks : at'[j] = IF j = i THEN to ELSE at[j]
  BY DEF Moves, StreamInv, StreamTypeOK
<1>2. \A j \in Tasks : InHand(j)' => InHand(j) /\ bar'[j] = bar[j]
  BY <1>1 DEF InHand
<1>3. \A j \in Tasks : at'[j] = "publish" => at[j] = "publish"
  BY <1>1
<1> QED BY <1>2, <1>3, QuietStep

\* The candles of a seeding request are of bars, and have a value.
LEMMA Candles ==
    ASSUME NEW s \in {MinuteCandles, HourCandles}
    PROVE  DOMAIN s \subseteq Minutes /\ \A t \in DOMAIN s : s[t] \in Values
<1>1. CASE s = MinuteCandles
  BY <1>1 DEF MinuteCandles, Values
<1>2. CASE s = HourCandles
  BY <1>2 DEF HourCandles, Values
<1> QED BY <1>1, <1>2

LEMMA NoCandles ==
    DOMAIN <<>> \subseteq Minutes /\ \A t \in DOMAIN <<>> : <<>>[t] \in Values
OBVIOUS

\* The step of a task keeps the types.
LEMMA StepTyped ==
    ASSUME StreamTypeOK, NEW i \in Tasks, Start(i) \/ Step(i) \/ Disconnects(i)
    PROVE  StreamTypeOK'
<1>1. at' \in [Tasks -> Alive \cup {"idle", "returned"}]
  BY DEF StreamTypeOK, Start, Step, Disconnects, Connects, ConnectFails, Reads,
         NoticesStop, Closed, Broken, Wakes, Stores, StoreFails, Publishes,
         PublishFails, Moves, Alive
<1>2. UNCHANGED <<current, net, seed, seeds>>
  BY DEF Start, Step, Disconnects, Connects, ConnectFails, Reads,
         NoticesStop, Closed, Broken, Wakes, Stores, StoreFails, Publishes,
         PublishFails, market, seeder
<1>3. running' = TRUE \/ running' = running
  BY DEF Start, Step, Disconnects, Connects, ConnectFails, Reads,
         NoticesStop, Closed, Broken, Wakes, Stores, StoreFails, Publishes,
         PublishFails
<1>4. failures' = failures \/ failures' = failures + 1
  BY DEF Start, Step, Disconnects, Connects, ConnectFails, Reads,
         NoticesStop, Closed, Broken, Wakes, Stores, StoreFails, Publishes,
         PublishFails
<1>5. running' \in BOOLEAN /\ failures' \in Nat
  <2>1. running' \in BOOLEAN
    BY <1>3 DEF StreamTypeOK
  <2>2. failures' \in Nat
    BY <1>4 DEF StreamTypeOK
  <2> QED BY <2>1, <2>2
<1>6. feed' \in [Tasks -> Seq(Minutes)] /\ bar' \in [Tasks -> Minutes]
  <2>1. CASE Reads(i)
    <3>1. feed[i] \in Seq(Minutes) /\ feed[i] # <<>>
      BY <2>1 DEF Reads, StreamTypeOK
    <3>2. Head(feed[i]) \in Minutes /\ Tail(feed[i]) \in Seq(Minutes)
      BY <3>1, Taken
    <3> QED BY <2>1, <3>2 DEF Reads, StreamTypeOK
  <2>2. CASE Connects(i)
    <3>1. <<>> \in Seq(Minutes)
      OBVIOUS
    <3>2. feed' = [feed EXCEPT ![i] = <<>>] /\ bar' = bar
      BY <2>2 DEF Connects
    <3>3. feed' \in [Tasks -> Seq(Minutes)]
      BY <3>1, <3>2, Zenon DEF StreamTypeOK
    <3> QED BY <3>2, <3>3 DEF StreamTypeOK
  <2>3. CASE ~Reads(i) /\ ~Connects(i)
    <3>1. UNCHANGED <<feed, bar>>
      BY <2>3 DEF Start, Step, Disconnects, ConnectFails, NoticesStop, Closed,
                  Broken, Wakes, Stores, StoreFails, Publishes, PublishFails
    <3> QED BY <3>1 DEF StreamTypeOK
  <2> QED BY <2>1, <2>2, <2>3
<1>7. ohlcv' \in [Minutes -> Values] /\ unstored' \subseteq Minutes
  BY DEF StreamTypeOK, Start, Step, Disconnects, Connects, ConnectFails, Reads,
         NoticesStop, Closed, Broken, Wakes, Stores, StoreFails, Publishes,
         PublishFails, data, Values
<1>8. published' \in [Tasks -> Seq(Minutes)] /\ late' \in [Tasks -> Nat]
  <2>1. CASE Delivers(i)
    <3>1. Append(published[i], bar[i]) \in Seq(Minutes)
      BY Appended DEF StreamTypeOK
    <3>2. published' = [published EXCEPT ![i] = Append(published[i], bar[i])]
      BY <2>1 DEF Delivers
    <3>3. published' \in [Tasks -> Seq(Minutes)]
      BY <3>1, <3>2, Zenon DEF StreamTypeOK
    <3>4. late' \in [Tasks -> Nat]
      BY <2>1 DEF Delivers, StreamTypeOK
    <3> QED BY <3>3, <3>4
  <2>2. CASE Start(i)
    BY <2>2 DEF Start, StreamTypeOK
  <2>3. CASE ~Delivers(i) /\ ~Start(i)
    <3>1. UNCHANGED <<published, late>>
      BY <2>3 DEF Step, Disconnects, Connects, ConnectFails, Reads, NoticesStop,
                  Closed, Broken, Wakes, Stores, StoreFails, Publishes,
                  PublishFails, data
    <3> QED BY <3>1 DEF StreamTypeOK
  <2> QED BY <2>1, <2>2, <2>3
<1> QED BY <1>1, <1>2, <1>5, <1>6, <1>7, <1>8 DEF StreamTypeOK

\* So do the exchange, stop() and a seeding request.
LEMMA OthersTyped ==
    ASSUME StreamTypeOK,
           \/ Closes \/ NetChanges \/ Stop
           \/ SeedFetches \/ SeedInserts \/ SeedFails \/ UNCHANGED streamVars
    PROVE  StreamTypeOK'
<1> USE DEF market, task, data, seeder
<1>1. CASE Closes
  <2>1. current' \in Minutes
    BY <1>1, IngestionAssumption DEF Closes, StreamTypeOK, Minutes
  <2>2. \A i \in Tasks : /\ feed[i] \in Seq(Minutes)
                         /\ Append(feed[i], current) \in Seq(Minutes)
    BY Appended DEF StreamTypeOK
  <2>3. feed' \in [Tasks -> Seq(Minutes)]
    BY <1>1, <2>2 DEF Closes
  <2> QED BY <1>1, <2>1, <2>3 DEF Closes, StreamTypeOK
<1>2. CASE NetChanges
  BY <1>2 DEF NetChanges, StreamTypeOK
<1>3. CASE Stop
  BY <1>3 DEF Stop, StreamTypeOK
<1>4. CASE SeedFetches
  <2>1. DOMAIN seed' \subseteq Minutes /\ \A t \in DOMAIN seed' : seed'[t] \in Values
    BY <1>4, Candles DEF SeedFetches
  <2> QED BY <1>4, <2>1 DEF SeedFetches, StreamTypeOK
<1>5. CASE SeedInserts
  <2>1. DOMAIN seed' \subseteq Minutes /\ \A t \in DOMAIN seed' : seed'[t] \in Values
    BY <1>5, NoCandles DEF SeedInserts
  <2>2. ohlcv' \in [Minutes -> Values]
    BY <1>5 DEF SeedInserts, StreamTypeOK
  <2> QED BY <1>5, <2>1, <2>2 DEF SeedInserts, StreamTypeOK
<1>6. CASE SeedFails
  <2>1. DOMAIN seed' \subseteq Minutes /\ \A t \in DOMAIN seed' : seed'[t] \in Values
    BY <1>6, NoCandles DEF SeedFails
  <2> QED BY <1>6, <2>1 DEF SeedFails, StreamTypeOK
<1>7. CASE UNCHANGED streamVars
  BY <1>7 DEF streamVars, StreamTypeOK
<1> QED BY <1>1, <1>2, <1>3, <1>4, <1>5, <1>6, <1>7

LEMMA StepKeepsInv == StreamInv /\ [StreamNext]_streamVars => StreamInv'
<1> SUFFICES ASSUME StreamInv, [StreamNext]_streamVars PROVE StreamInv'
  OBVIOUS
<1>1. StreamTypeOK'
  BY StepTyped, OthersTyped DEF StreamNext, StreamInv
<1> USE <1>1
<1>2. CASE Closes
  <2>1. /\ current' = current + 1 /\ UNCHANGED <<at, bar, published, running>>
        /\ UNCHANGED <<ohlcv, unstored, late>>
    BY <1>2 DEF Closes, data
  <2>2. OrderInv'
    <3> SUFFICES ASSUME NEW i \in Tasks
                 PROVE  Line(current', published'[i], InHand(i)', bar'[i], feed'[i])
      BY OrderIsLineNext
    <3>1. Line(current, published[i], InHand(i), bar[i], feed[i])
      BY OrderIsLine DEF StreamInv
    <3>2. /\ current \in Minutes /\ published[i] \in Seq(Minutes) /\ bar[i] \in Minutes
          /\ feed[i] \in Seq(Minutes) /\ InHand(i) \in BOOLEAN
      BY DEF StreamInv, StreamTypeOK, InHand
    <3>3. InHand(i)' = InHand(i)
      BY <2>1 DEF InHand
    <3>4. feed'[i] = feed[i] \/ feed'[i] = Append(feed[i], current)
      BY <1>2 DEF Closes
    <3> QED BY <2>1, <3>1, <3>2, <3>3, <3>4, LineLater, LineGrows
  <2>3. StoredInv'
    BY <2>1 DEF StreamInv, StoredInv, PublishedStored, Kept
  <2>4. LateInv'
    BY <2>1, LateKept DEF StreamInv, InHand
  <2> QED BY <2>2, <2>3, <2>4 DEF StreamInv
<1>3. CASE NetChanges \/ Stop \/ SeedFetches \/ SeedFails \/ UNCHANGED streamVars
  <2>1. /\ UNCHANGED <<current, data, at, feed, bar>>
        /\ running' => running
    BY <1>3 DEF NetChanges, Stop, SeedFetches, SeedFails, streamVars, market, task
  <2> QED BY <2>1, QuietStep DEF InHand
<1>4. CASE SeedInserts
  <2>1. UNCHANGED <<current, running, at, feed, bar, published, unstored, late>>
    BY <1>4 DEF SeedInserts, market, task
  <2>2. \A t \in Minutes : Kept(t) => Kept(t)'
    <3>1. \A t \in Minutes : ohlcv[t] = "final" => ohlcv'[t] = "final"
      BY <1>4 DEF SeedInserts
    <3>2. DOMAIN ohlcv = Minutes /\ DOMAIN ohlcv' = Minutes
      BY DEF StreamInv, StreamTypeOK
    <3> QED BY <2>1, <3>1, <3>2 DEF Kept
  <2>3. OrderInv'
    BY <2>1, OrderKept DEF StreamInv, InHand
  <2>4. StoredInv'
    BY <2>1, <2>2, StoredKept DEF StreamInv
  <2>5. LateInv'
    BY <2>1, LateKept DEF StreamInv, InHand
  <2> QED BY <2>3, <2>4, <2>5 DEF StreamInv
<1>5. ASSUME NEW i \in Tasks, Start(i) PROVE StreamInv'
  <2>1. /\ UNCHANGED <<current, feed, bar, published, ohlcv, unstored>>
        /\ late' = [j \in Tasks |-> 0]
    BY <1>5 DEF Start, market
  <2>2. \A j \in Tasks : at'[j] \in {at[j], "connect"}
    BY <1>5 DEF Start, Moves, StreamInv, StreamTypeOK
  <2>3. OrderInv'
    BY <2>1, <2>2, OrderKept DEF StreamInv, InHand
  <2>4. StoredInv'
    BY <2>1, <2>2, StoredKept DEF StreamInv, Kept
  <2>5. LateInv'
    BY <2>1 DEF LateInv, OneAfterStop
  <2> QED BY <2>3, <2>4, <2>5 DEF StreamInv
<1>6. ASSUME NEW i \in Tasks, Disconnects(i) PROVE StreamInv'
  BY <1>6, GoesOutside DEF Disconnects, market
<1>7. ASSUME NEW i \in Tasks,
             \/ Connects(i) \/ ConnectFails(i) \/ NoticesStop(i) \/ Closed(i)
             \/ Broken(i) \/ Wakes(i)
             \/ PublishFails(i) /\ UNCHANGED <<published, late>>
      PROVE  StreamInv'
  <2>1. UNCHANGED <<current, running, bar, data>>
    BY <1>7 DEF Connects, ConnectFails, NoticesStop, Closed, Broken, Wakes,
                PublishFails, market, data
  <2>2. \A j \in Tasks : feed'[j] \in {feed[j], <<>>}
    BY <1>7 DEF Connects, ConnectFails, NoticesStop, Closed, Broken, Wakes,
                PublishFails, StreamInv, StreamTypeOK
  <2>3. PICK from, to : Moves(i, from, to) /\ to \notin {"store", "publish"}
    BY <1>7 DEF Connects, ConnectFails, NoticesStop, Closed, Broken, Wakes,
                PublishFails
  <2> QED BY <2>1, <2>2, <2>3, GoesOutside
<1>8. ASSUME NEW i \in Tasks, Reads(i) PROVE StreamInv'
  <2>1. /\ UNCHANGED <<current, running, published, ohlcv, unstored, late>>
        /\ running /\ feed[i] # <<>>
        /\ bar' = [bar EXCEPT ![i] = Head(feed[i])]
        /\ feed' = [feed EXCEPT ![i] = Tail(feed[i])]
    BY <1>8 DEF Reads, market, data
  <2>2. at' = [at EXCEPT ![i] = "store"] /\ at[i] = "read"
    BY <1>8 DEF Reads, Moves
  <2>3. OrderInv'
    <3> SUFFICES ASSUME NEW j \in Tasks
                 PROVE  Line(current', published'[j], InHand(j)', bar'[j], feed'[j])
      BY OrderIsLineNext
    <3>1. Line(current, published[j], InHand(j), bar[j], feed[j])
      BY OrderIsLine DEF StreamInv
    <3>2. CASE j = i
      <4>1. Line(current, published[i], TRUE, Head(feed[i]), Tail(feed[i]))
        BY <2>1, <3>1, <3>2, LineTakes DEF StreamInv, StreamTypeOK
      <4>2. InHand(i)' = TRUE
        BY <2>2 DEF InHand, StreamInv, StreamTypeOK
      <4>3. bar'[i] = Head(feed[i]) /\ feed'[i] = Tail(feed[i])
        BY <2>1 DEF StreamInv, StreamTypeOK
      <4> QED BY <2>1, <3>2, <4>1, <4>2, <4>3
    <3>3. CASE j # i
      <4>1. InHand(j)' = InHand(j) /\ bar'[j] = bar[j] /\ feed'[j] = feed[j]
        BY <2>1, <2>2, <3>3 DEF InHand, StreamInv, StreamTypeOK
      <4> QED BY <2>1, <3>1, <4>1
    <3> QED BY <3>2, <3>3
  <2>4. StoredInv'
    <3>1. \A j \in Tasks : at'[j] = "publish" =>
                              at[j] = "publish" /\ bar'[j] = bar[j]
      BY <2>1, <2>2 DEF StreamInv, StreamTypeOK
    <3> QED BY <2>1, <3>1, StoredKept DEF StreamInv, Kept
  <2>5. LateInv'
    BY <2>1, LateKept DEF StreamInv
  <2> QED BY <2>3, <2>4, <2>5 DEF StreamInv
<1>9. ASSUME NEW i \in Tasks, Stores(i) \/ StoreFails(i) PROVE StreamInv'
  <2>1. UNCHANGED <<current, running, feed, bar, published, late>>
    BY <1>9 DEF Stores, StoreFails, market
  <2>2. at' = [at EXCEPT ![i] = "publish"] /\ at[i] = "store"
    BY <1>9 DEF Stores, StoreFails, Moves
  <2>3. \A j \in Tasks : InHand(j)' = InHand(j)
    BY <2>2 DEF InHand, StreamInv, StreamTypeOK
  <2>4. OrderInv'
    BY <2>1, <2>3, OrderKept DEF StreamInv
  <2>5. (\A t \in Minutes : Kept(t) => Kept(t)') /\ Kept(bar[i])'
    BY <1>9, <2>1 DEF Stores, StoreFails, Kept, StreamInv, StreamTypeOK
  <2>6. \A j \in Tasks : at'[j] = "publish" =>
                            Kept(bar[j])' \/ (at[j] = "publish" /\ bar'[j] = bar[j])
    BY <2>1, <2>2, <2>5 DEF StreamInv, StreamTypeOK
  <2>7. StoredInv'
    BY <2>1, <2>5, <2>6, StoredKept DEF StreamInv
  <2>8. LateInv'
    BY <2>1, <2>3, LateKept DEF StreamInv
  <2> QED BY <2>4, <2>7, <2>8 DEF StreamInv
<1>10. ASSUME NEW i \in Tasks, Publishes(i) \/ PublishFails(i), Delivers(i)
       PROVE  StreamInv'
  <2>1. /\ UNCHANGED <<current, running, feed, bar, ohlcv, unstored>>
        /\ published' = [published EXCEPT ![i] = Append(published[i], bar[i])]
        /\ late' = IF running THEN late ELSE [late EXCEPT ![i] = @ + 1]
    BY <1>10 DEF Publishes, PublishFails, Delivers, market
  <2>2. /\ at[i] = "publish"
        /\ \/ at' = [at EXCEPT ![i] = "read"]
           \/ at' = [at EXCEPT ![i] = "breaking"]
    BY <1>10 DEF Publishes, PublishFails, Moves
  <2>3. published[i] \in Seq(Minutes) /\ bar[i] \in Minutes
    BY DEF StreamInv, StreamTypeOK
  <2>4. OrderInv'
    <3> SUFFICES ASSUME NEW j \in Tasks
                 PROVE  Line(current', published'[j], InHand(j)', bar'[j], feed'[j])
      BY OrderIsLineNext
    <3>1. Line(current, published[j], InHand(j), bar[j], feed[j])
      BY OrderIsLine DEF StreamInv
    <3>2. CASE j = i
      <4>1. InHand(i) = TRUE /\ InHand(i)' = FALSE
        BY <2>2 DEF InHand, StreamInv, StreamTypeOK
      <4>2. Line(current, published[i], TRUE, bar[i], feed[i])
        BY <3>1, <3>2, <4>1
      <4>3. Line(current, Append(published[i], bar[i]), FALSE, bar[i], feed[i])
        BY <2>3, <4>2, LinePublishes DEF StreamInv, StreamTypeOK
      <4>4. published'[i] = Append(published[i], bar[i])
        BY <2>1 DEF StreamInv, StreamTypeOK
      <4> QED BY <2>1, <3>2, <4>1, <4>3, <4>4
    <3>3. CASE j # i
      <4>1. InHand(j)' = InHand(j) /\ published'[j] = published[j]
        BY <2>1, <2>2, <3>3 DEF InHand, StreamInv, StreamTypeOK
      <4> QED BY <2>1, <3>1, <4>1
    <3> QED BY <3>2, <3>3
  <2>5. StoredInv'
    <3>1. PublishedStored'
      <4> SUFFICES ASSUME NEW j \in Tasks, NEW p \in DOMAIN published'[j]
                   PROVE  Kept(published'[j][p])
        BY <2>1 DEF PublishedStored, Kept
      <4>1. CASE j = i
        <5>1. published'[i] = Append(published[i], bar[i])
          BY <2>1 DEF StreamInv, StreamTypeOK
        <5>2. Kept(bar[i])
          BY <2>2 DEF StreamInv, StoredInv
        <5>3. \/ published'[i][p] = bar[i]
              \/ /\ p \in DOMAIN published[i]
                 /\ published'[i][p] = published[i][p]
          BY <2>3, <4>1, <5>1, Appended
        <5> QED BY <4>1, <5>2, <5>3 DEF StreamInv, StoredInv, PublishedStored
      <4>2. CASE j # i
        <5>1. published'[j] = published[j]
          BY <2>1, <4>2 DEF StreamInv, StreamTypeOK
        <5> QED BY <5>1 DEF StreamInv, StoredInv, PublishedStored
      <4> QED BY <4>1, <4>2
    <3>2. \A j \in Tasks : at'[j] = "publish" => at[j] = "publish"
      BY <2>2 DEF StreamInv, StreamTypeOK
    <3> QED BY <2>1, <3>1, <3>2 DEF StreamInv, StoredInv, Kept
  <2>6. LateInv'
    <3>1. \A j \in Tasks : InHand(j)' => j # i /\ InHand(j)
      BY <2>2 DEF InHand, StreamInv, StreamTypeOK
    <3>2. late[i] = 0
      BY <2>2 DEF InHand, StreamInv, LateInv
    <3>3. CASE running
      BY <2>1, <3>1, <3>3 DEF StreamInv, LateInv, OneAfterStop
    <3>4. CASE ~running
      <4>1. \A j \in Tasks : late'[j] = IF j = i THEN 1 ELSE late[j]
        BY <2>1, <3>2, <3>4 DEF StreamInv, StreamTypeOK
      <4> QED BY <2>1, <3>1, <3>4, <4>1 DEF StreamInv, LateInv, OneAfterStop
    <3> QED BY <3>3, <3>4
  <2> QED BY <2>4, <2>5, <2>6 DEF StreamInv
<1>11. ASSUME NEW i \in Tasks, Publishes(i) \/ PublishFails(i) PROVE StreamInv'
  BY <1>7, <1>10, <1>11 DEF Publishes, PublishFails
<1> QED BY <1>2, <1>3, <1>4, <1>5, <1>6, <1>7, <1>8, <1>9, <1>11
        DEF StreamNext, Step

-----------------------------------------------------------------------------
\* The invariant holds in every reachable state: bars go through the
\* connection, _on_bar and the channel in their order, what is at hand has been
\* stored before it is published, and nothing is read after a stop.
THEOREM Invariance == StreamSpec => []StreamInv
BY Initially, StepKeepsInv, PTL DEF StreamSpec

\* Every task publishes closed bars only, in their order and none twice.
THEOREM PublishedInOrderAlways == StreamSpec => []PublishedInOrder
<1>1. StreamInv => PublishedInOrder
  BY DEF StreamInv, OrderInv
<1> QED BY <1>1, Invariance, PTL

\* Subscribers see no bar that the table does not have as it closed, unless its
\* write failed.
THEOREM PublishedStoredAlways == StreamSpec => []PublishedStored
<1>1. StreamInv => PublishedStored
  BY DEF StreamInv, StoredInv
<1> QED BY <1>1, Invariance, PTL

\* After stop() at most one more bar is published by each task.
THEOREM OneAfterStopAlways == StreamSpec => []OneAfterStop
<1>1. StreamInv => OneAfterStop
  BY DEF StreamInv, LateInv
<1> QED BY <1>1, Invariance, PTL

\* Only _on_bar and the insertion of a seeding request write the table, and
\* neither replaces a bar stored as it closed.
LEMMA StepKeepsFinal ==
    ASSUME StreamInv, [StreamNext]_streamVars, NEW t \in Minutes, ohlcv[t] = "final"
    PROVE  ohlcv'[t] = "final"
<1>1. CASE UNCHANGED ohlcv
  BY <1>1
<1>2. CASE SeedInserts
  BY <1>2 DEF SeedInserts
<1>3. ASSUME NEW i \in Tasks, Stores(i) \/ StoreFails(i)
      PROVE  ohlcv'[t] = "final"
  BY <1>3 DEF Stores, StoreFails, StreamInv, StreamTypeOK
<1>4. \/ UNCHANGED ohlcv \/ SeedInserts
      \/ \E i \in Tasks : Stores(i) \/ StoreFails(i)
  BY DEF StreamNext, Closes, NetChanges, Stop, Start, Step, Disconnects, Connects,
         ConnectFails, Reads, NoticesStop, Closed, Broken, Wakes, Publishes,
         PublishFails, SeedFetches, SeedFails, streamVars, data
<1> QED BY <1>1, <1>2, <1>3, <1>4

\* A bar stored as it closed is never replaced.
THEOREM FinalStaysAlways == StreamSpec => FinalStays
<1>1. StreamInv /\ [StreamNext]_streamVars =>
         [\A t \in Minutes : ohlcv[t] = "final" => ohlcv'[t] = "final"]_streamVars
  BY StepKeepsFinal
<1> QED BY <1>1, Invariance, PTL DEF StreamSpec, FinalStays
-----------------------------------------------------------------------------
\* What is left of a stop

\* While it is stopped, each step of a task brings it nearer to its return, and none
\* begins anew.
THEOREM OnlyReturnsAlways == StreamSpec => OnlyReturns
<1>1. ASSUME StreamTypeOK, [StreamNext]_streamVars, ~running, ~running', NEW i \in Tasks,
             at'[i] # at[i]
      PROVE  PlacesLeft(at'[i]) < PlacesLeft(at[i])
  <2> USE DEF StreamTypeOK, task, data, market, seeder
  <2>1. PICK j \in Tasks : Step(j) \/ Disconnects(j)
    BY <1>1 DEF StreamNext, streamVars, Closes, NetChanges, Stop, Start, SeedFetches,
                SeedInserts, SeedFails
  <2>2. /\ at'[i] = at'[j] /\ at[i] = at[j]
        /\ \/ at[j] = "connect" /\ at'[j] \in {"read", "breaking"}
           \/ at[j] = "read" /\ at'[j] \in {"closing", "breaking"}
           \/ at[j] \in {"closing", "breaking", "backoff"} /\ at'[j] = "returned"
           \/ at[j] = "store" /\ at'[j] = "publish"
           \/ at[j] = "publish" /\ at'[j] \in {"read", "breaking"}
    BY <1>1, <2>1
       DEF Step, Connects, ConnectFails, Reads, NoticesStop, Disconnects, Closed,
           Broken, Wakes, Stores, StoreFails, Publishes, PublishFails, Moves
  <2> QED BY <2>2 DEF PlacesLeft
<1>2. StreamInv /\ [StreamNext]_streamVars
        => [~running /\ ~running' =>
              \A i \in Tasks :
                 at'[i] # at[i] => PlacesLeft(at'[i]) < PlacesLeft(at[i])]_streamVars
  BY <1>1 DEF StreamInv
<1> QED BY <1>2, Invariance, PTL DEF StreamSpec, OnlyReturns
=============================================================================
