--------------------------- MODULE RiskGateProofs ---------------------------
(***************************************************************************)
(* Proofs about RiskGate, for every set of equities and weights, every     *)
(* limit and every window: the rolling rate limit, the halt that sticks,   *)
(* and the drawdown limit against the highest equity ever seen.            *)
(***************************************************************************)
EXTENDS RiskGate, TLAPS

\* A window that has been pruned still holds the latest approvals, and all it
\* has dropped is older than the window.
LEMMA Pruning ==
    ASSUME GateTypeOK, WindowInv, NEW k \in 0..Len(stamps), Popped(k)
    PROVE  /\ Rest(k) \in Seq(0..MaxTime)
           /\ Len(Rest(k)) = Len(stamps) - k
           /\ \A i \in 1..Len(Rest(k)) :
                 Rest(k)[i] = log[Len(log) - Len(Rest(k)) + i]
           /\ \A i \in 1..(Len(log) - Len(Rest(k))) : log[i] < now - Window
<1> USE GateAssumption
<1>1. /\ stamps \in Seq(0..MaxTime) /\ log \in Seq(0..MaxTime)
      /\ Len(stamps) \in Nat /\ Len(log) \in Nat /\ k \in Nat
      /\ now \in Nat
  BY DEF GateTypeOK
<1>2. /\ Rest(k) \in Seq(0..MaxTime)
      /\ Len(Rest(k)) = Len(stamps) - k
      /\ \A i \in 1..Len(Rest(k)) : Rest(k)[i] = stamps[k + i]
  BY <1>1 DEF Rest
<1>3. \A i \in 1..Len(Rest(k)) : Rest(k)[i] = log[Len(log) - Len(Rest(k)) + i]
  <2> SUFFICES ASSUME NEW i \in 1..Len(Rest(k))
               PROVE  Rest(k)[i] = log[Len(log) - Len(Rest(k)) + i]
    OBVIOUS
  <2>1. k + i \in 1..Len(stamps)
        /\ Len(log) - Len(stamps) + (k + i) = Len(log) - Len(Rest(k)) + i
    BY <1>1, <1>2
  <2> QED BY <1>2, <2>1 DEF WindowInv
<1>4. \A i \in 1..(Len(log) - Len(Rest(k))) : log[i] < now - Window
  <2> SUFFICES ASSUME NEW i \in 1..(Len(log) - Len(Rest(k)))
               PROVE  log[i] < now - Window
    OBVIOUS
  <2>1. CASE i <= Len(log) - Len(stamps)
    BY <1>1, <2>1 DEF WindowInv
  <2>2. CASE i > Len(log) - Len(stamps)
    <3> DEFINE m == i - (Len(log) - Len(stamps))
    <3>1. m \in 1..k /\ m \in 1..Len(stamps) /\ Len(log) - Len(stamps) + m = i
      BY <1>1, <1>2, <2>2
    <3>2. stamps[m] = log[i] /\ stamps[m] < now - Window
      <4> HIDE DEF m
      <4> QED BY <3>1 DEF WindowInv, Popped
    <3> QED BY <3>2
  <2> QED BY <1>1, <2>1, <2>2
<1> QED BY <1>2, <1>3, <1>4

\* The last index of a sequence with one element more is new.
LEMMA LastIsNew ==
    ASSUME NEW n \in Nat, NEW j \in 1..(n + 1)
    PROVE  j \in 1..n \/ j = n + 1
OBVIOUS

\* Appending the present to a window and to the history it is the end of,
\* when the window holds fewer than max entries.
LEMMA AppendToWindow ==
    ASSUME NEW r \in Seq(Nat), NEW g \in Seq(Nat), NEW t \in Nat,
           NEW max \in Nat, NEW w \in Nat,
           Len(r) < max, Len(r) <= Len(g),
           \A i \in 1..Len(r) : r[i] = g[Len(g) - Len(r) + i],
           \A i \in 1..(Len(g) - Len(r)) : g[i] < t - w,
           \A i, j \in 1..Len(g) : j - i >= max => g[j] - g[i] > w
    PROVE  LET r2 == Append(r, t)
               g2 == Append(g, t)
           IN  /\ Len(r2) = Len(r) + 1 /\ Len(g2) = Len(g) + 1
               /\ \A i \in 1..Len(r2) : r2[i] = g2[Len(g2) - Len(r2) + i]
               /\ \A i \in 1..(Len(g2) - Len(r2)) : g2[i] < t - w
               /\ \A i, j \in 1..Len(g2) : j - i >= max => g2[j] - g2[i] > w
<1> DEFINE m == Len(r)
           n == Len(g)
           r2 == Append(r, t)
           g2 == Append(g, t)
<1>0. /\ m \in Nat /\ n \in Nat /\ m < max /\ m <= n
      /\ \A i \in 1..m : r[i] = g[n - m + i]
      /\ \A i \in 1..(n - m) : g[i] < t - w
      /\ \A i, j \in 1..n : j - i >= max => g[j] - g[i] > w
  OBVIOUS
<1>1. /\ r2 \in Seq(Nat) /\ Len(r2) = m + 1
      /\ g2 \in Seq(Nat) /\ Len(g2) = n + 1
      /\ \A i \in 1..m : r2[i] = r[i]
      /\ r2[m + 1] = t
      /\ \A i \in 1..n : g2[i] = g[i]
      /\ g2[n + 1] = t
      /\ \A i \in 1..n : g[i] \in Nat
  OBVIOUS
<1> HIDE DEF m, n, r2, g2
<1>2. \A i \in 1..(m + 1) : r2[i] = g2[(n + 1) - (m + 1) + i]
  <2> SUFFICES ASSUME NEW i \in 1..(m + 1)
               PROVE  r2[i] = g2[(n + 1) - (m + 1) + i]
    OBVIOUS
  <2>1. (n + 1) - (m + 1) + i = n - m + i
    BY <1>0
  <2>2. CASE i = m + 1
    <3>1. n - m + i = n + 1  BY <1>0, <2>2
    <3> QED BY <2>1, <2>2, <3>1, <1>1
  <2>3. CASE i \in 1..m
    <3>1. n - m + i \in 1..n  BY <1>0, <2>3
    <3> QED BY <1>0, <1>1, <2>1, <2>3, <3>1
  <2> QED BY <1>0, <2>2, <2>3, LastIsNew
<1>3. \A i \in 1..((n + 1) - (m + 1)) : g2[i] < t - w
  <2> SUFFICES ASSUME NEW i \in 1..((n + 1) - (m + 1)) PROVE g2[i] < t - w
    OBVIOUS
  <2>1. i \in 1..n /\ i \in 1..(n - m)
    BY <1>0
  <2> QED BY <1>0, <1>1, <2>1
<1>4. \A i, j \in 1..(n + 1) : j - i >= max => g2[j] - g2[i] > w
  <2> SUFFICES ASSUME NEW i \in 1..(n + 1), NEW j \in 1..(n + 1),
                      j - i >= max
               PROVE  g2[j] - g2[i] > w
    OBVIOUS
  <2>1. i \in 1..n
    BY <1>0
  <2>2. g2[i] = g[i] /\ g[i] \in Nat
    BY <1>1, <2>1
  <2>3. CASE j \in 1..n
    BY <1>0, <1>1, <2>1, <2>3
  <2>4. CASE j = n + 1
    <3>1. i \in 1..(n - m)
      BY <1>0, <2>1, <2>4
    <3>2. g[i] < t - w
      BY <1>0, <3>1
    <3> QED BY <1>1, <2>2, <2>4, <3>2
  <2> QED BY <1>0, <2>3, <2>4, LastIsNew
<1> QED BY <1>1, <1>2, <1>3, <1>4 DEF m, n, r2, g2

\* An approval keeps the rate limit.
LEMMA Approval ==
    ASSUME GateTypeOK, WindowInv, NEW k \in 0..Len(stamps), Popped(k),
           Len(Rest(k)) < MaxOrderRate,
           stamps' = Append(Rest(k), now), log' = Append(log, now), now' = now
    PROVE  stamps' \in Seq(0..MaxTime) /\ log' \in Seq(0..MaxTime) /\ WindowInv'
<1> USE GateAssumption
<1>1. /\ Rest(k) \in Seq(0..MaxTime) /\ log \in Seq(0..MaxTime)
      /\ now \in 0..MaxTime
  BY Pruning DEF GateTypeOK
<1>2. /\ Rest(k) \in Seq(Nat) /\ log \in Seq(Nat) /\ now \in Nat
      /\ Len(Rest(k)) \in Nat /\ Len(log) \in Nat
  BY <1>1
<1>3. Len(Rest(k)) <= Len(log)
  BY Pruning DEF GateTypeOK, WindowInv
<1>4. /\ \A i \in 1..Len(Rest(k)) :
            Rest(k)[i] = log[Len(log) - Len(Rest(k)) + i]
      /\ \A i \in 1..(Len(log) - Len(Rest(k))) : log[i] < now - Window
      /\ \A i, j \in 1..Len(log) :
            j - i >= MaxOrderRate => log[j] - log[i] > Window
  BY Pruning DEF WindowInv, RateLimit
<1>5. /\ Len(stamps') = Len(Rest(k)) + 1 /\ Len(log') = Len(log) + 1
      /\ \A i \in 1..Len(stamps') :
            stamps'[i] = log'[Len(log') - Len(stamps') + i]
      /\ \A i \in 1..(Len(log') - Len(stamps')) : log'[i] < now - Window
      /\ \A i, j \in 1..Len(log') :
            j - i >= MaxOrderRate => log'[j] - log'[i] > Window
  <2> DEFINE r == Rest(k)
  <2>1. MaxOrderRate \in Nat /\ Window \in Nat /\ r \in Seq(Nat)
    BY <1>2
  <2>2. Len(r) < MaxOrderRate /\ Len(r) <= Len(log)
    BY <1>3
  <2>3. stamps' = Append(r, now)
    OBVIOUS
  <2>4. LET r2 == Append(r, now)
            g2 == Append(log, now)
        IN  /\ Len(r2) = Len(r) + 1 /\ Len(g2) = Len(log) + 1
            /\ \A i \in 1..Len(r2) : r2[i] = g2[Len(g2) - Len(r2) + i]
            /\ \A i \in 1..(Len(g2) - Len(r2)) : g2[i] < now - Window
            /\ \A i, j \in 1..Len(g2) :
                  j - i >= MaxOrderRate => g2[j] - g2[i] > Window
    <3>1. /\ \A i \in 1..Len(r) : r[i] = log[Len(log) - Len(r) + i]
          /\ \A i \in 1..(Len(log) - Len(r)) : log[i] < now - Window
          /\ \A i, j \in 1..Len(log) :
                j - i >= MaxOrderRate => log[j] - log[i] > Window
      BY <1>4
    <3> HIDE DEF r
    <3> QED BY ONLY <1>2, <2>1, <2>2, <3>1, AppendToWindow
  <2> QED BY <2>3, <2>4
<1>6. stamps' \in Seq(0..MaxTime) /\ log' \in Seq(0..MaxTime)
  BY <1>1
<1>7. Len(stamps') <= Len(log')
  BY <1>2, <1>3, <1>5
<1> QED BY <1>5, <1>6, <1>7 DEF WindowInv, RateLimit

-----------------------------------------------------------------------------
LEMMA Initially == GateInit => GateInv
<1> SUFFICES ASSUME GateInit PROVE GateInv
  OBVIOUS
<1> USE GateAssumption DEF GateInit
<1>1. GateTypeOK
  <2>1. stamps \in Seq(0..MaxTime) /\ log \in Seq(0..MaxTime)
    OBVIOUS
  <2>2. last \in [eq : Equities \cup {0}, w : Weights \cup {NaN, 0},
                  verdict : Verdicts]
    BY DEF NoCall, Verdicts
  <2>3. enabled \in BOOLEAN /\ tripped \in BOOLEAN
    BY Zenon
  <2>4. sod \in Equities \cup {None}
    BY Zenon
  <2>5. peak \in Equities \cup {0} /\ best \in Equities \cup {0}
    BY Zenon
  <2>6. pnl \in Int /\ now \in 0..MaxTime
    OBVIOUS
  <2> QED BY <2>1, <2>2, <2>3, <2>4, <2>5, <2>6 DEF GateTypeOK
<1>2. WindowInv
  BY DEF WindowInv, RateLimit
<1>3. HaltInv
  BY DEF HaltInv
<1> QED BY <1>1, <1>2, <1>3 DEF GateInv

\* A step that leaves the window and the history of approvals alone.
LEMMA WindowUntouched ==
    ASSUME GateTypeOK, WindowInv, UNCHANGED <<stamps, log>>,
           now' = now \/ now' = now + 1
    PROVE  WindowInv'
<1>1. now \in Nat /\ Window \in Nat /\ now' >= now /\ now' \in Nat
  BY GateAssumption DEF GateTypeOK
<1>2. \A i \in 1..(Len(log) - Len(stamps)) : log[i] < now' - Window
  <2> SUFFICES ASSUME NEW i \in 1..(Len(log) - Len(stamps))
               PROVE  log[i] < now' - Window
    OBVIOUS
  <2>1. log[i] < now - Window /\ log[i] \in Nat
    BY GateAssumption DEF WindowInv, GateTypeOK
  <2> QED BY <1>1, <2>1
<1> QED BY <1>2 DEF WindowInv, RateLimit

\* Pruning without an approval.
LEMMA Refusal ==
    ASSUME GateTypeOK, WindowInv, NEW k \in 0..Len(stamps), Popped(k),
           stamps' = Rest(k), UNCHANGED <<log, now>>
    PROVE  stamps' \in Seq(0..MaxTime) /\ WindowInv'
<1>1. Len(Rest(k)) \in Nat /\ Len(Rest(k)) <= Len(log)
  BY Pruning DEF GateTypeOK, WindowInv
<1> QED BY <1>1, Pruning DEF WindowInv, RateLimit

\* The verdicts of the first six checks are verdicts.
LEMMA CheckNames ==
    ASSUME NEW k \in 1..Len(Checks)
    PROVE  Checks[k] \in Verdicts
BY DEF Checks, Verdicts

LEMMA CheckKeepsInv ==
    ASSUME GateInv, NEW eq \in Equities, NEW w \in Weights \cup {NaN},
           NEW open, NEW listed, Check(eq, w, open, listed)
    PROVE  GateInv'
<1> USE DEF GateInv
<1>1. CASE Reject(eq, w, open, listed)
  <2>1. PICK k \in 1..Len(Checks) :
           /\ Answer(eq, w, Checks[k])
           /\ enabled' = (enabled /\ ~(Checks[k] \in {"daily", "drawdown"}))
           /\ tripped' = (tripped \/ Checks[k] \in {"daily", "drawdown"})
           /\ UNCHANGED <<sod, peak, pnl, stamps, now, log, best>>
    BY <1>1 DEF Reject
  <2>2. enabled' \in BOOLEAN /\ tripped' \in BOOLEAN
    BY <2>1
  <2>3. last' \in [eq : Equities \cup {0}, w : Weights \cup {NaN, 0},
                   verdict : Verdicts]
    BY <2>1, CheckNames DEF Answer
  <2>4. GateTypeOK'    BY <2>1, <2>2, <2>3 DEF GateTypeOK
  <2>5. WindowInv' BY <2>1, WindowUntouched
  <2>6. HaltInv'   BY <2>1, Zenon DEF HaltInv
  <2> QED BY <2>4, <2>5, <2>6
<1>2. CASE Decide(eq, w, open, listed)
  <2>1. PICK k \in 0..Len(stamps) :
          /\ Popped(k)
          /\ \/ \E v \in {"rate", "leverage"} :
                  Answer(eq, w, v) /\ stamps' = Rest(k) /\ UNCHANGED log
             \/ /\ Len(Rest(k)) < MaxOrderRate
                /\ Answer(eq, w, "approved")
                /\ stamps' = Append(Rest(k), now) /\ log' = Append(log, now)
    BY <1>2 DEF Decide
  <2>2. UNCHANGED <<limits, now, best, tripped>>
    BY <1>2 DEF Decide
  <2>3. /\ stamps' \in Seq(0..MaxTime) /\ log' \in Seq(0..MaxTime)
        /\ WindowInv'
    BY <2>1, <2>2, Refusal, Approval DEF GateTypeOK
  <2>4. last' \in [eq : Equities \cup {0}, w : Weights \cup {NaN, 0},
                   verdict : Verdicts]
    BY <2>1 DEF Answer, Verdicts
  <2>5. GateTypeOK'  BY <2>2, <2>3, <2>4 DEF GateTypeOK, limits
  <2>6. HaltInv' BY <2>2 DEF HaltInv, limits
  <2> QED BY <2>3, <2>5, <2>6
<1> QED BY <1>1, <1>2 DEF Check

LEMMA NextKeepsInv == GateInv /\ [GateNext]_gateVars => GateInv'
<1> SUFFICES ASSUME GateInv, [GateNext]_gateVars PROVE GateInv'
  OBVIOUS
<1> USE DEF GateInv
<1>1. ASSUME NEW eq \in Equities, NEW w \in Weights \cup {NaN},
             NEW open, NEW listed, Check(eq, w, open, listed)
      PROVE  GateInv'
  BY <1>1, CheckKeepsInv
<1>2. ASSUME NEW eq \in Equities, UpdateEquity(eq) PROVE GateInv'
  <2> USE <1>2 DEF UpdateEquity
  <2>1. GateTypeOK'
    <3>1. eq \in Nat /\ sod' \in Equities \cup {None} /\ pnl' \in Int
      BY GateAssumption DEF GateTypeOK, None
    <3> QED BY <3>1 DEF GateTypeOK, MaxOf
  <2>2. WindowInv' BY WindowUntouched
  <2>3. HaltInv'   BY DEF HaltInv
  <2> QED BY <2>1, <2>2, <2>3
<1>3. CASE ResetDaily
  <2> USE <1>3 DEF ResetDaily, gateHistory
  <2>1. GateTypeOK'    BY DEF GateTypeOK
  <2>2. WindowInv' BY WindowUntouched
  <2>3. HaltInv'   BY DEF HaltInv
  <2> QED BY <2>1, <2>2, <2>3
<1>4. CASE Enable
  <2> USE <1>4 DEF Enable
  <2>1. GateTypeOK'    BY DEF GateTypeOK
  <2>2. WindowInv' BY WindowUntouched
  <2>3. HaltInv'   BY DEF HaltInv
  <2> QED BY <2>1, <2>2, <2>3
<1>5. CASE Tick
  <2> USE <1>5 DEF Tick, limits, gateHistory
  <2>1. GateTypeOK'    BY GateAssumption DEF GateTypeOK
  <2>2. WindowInv' BY WindowUntouched
  <2>3. HaltInv'   BY DEF HaltInv
  <2> QED BY <2>1, <2>2, <2>3
<1>6. CASE UNCHANGED gateVars
  <2> USE <1>6 DEF gateVars, limits, gateHistory
  <2>1. GateTypeOK'    BY DEF GateTypeOK
  <2>2. WindowInv' BY WindowUntouched
  <2>3. HaltInv'   BY DEF HaltInv
  <2> QED BY <2>1, <2>2, <2>3
<1> QED BY <1>1, <1>2, <1>3, <1>4, <1>5, <1>6 DEF GateNext

THEOREM Invariance == GateSpec => []GateInv
<1> QED BY Initially, NextKeepsInv, PTL DEF GateSpec

\* Of any MaxOrderRate + 1 approvals in a row the first and the last are more
\* than Window apart: the rolling limit of check 7, for every limit, window
\* and sequence of calls.
THEOREM RateLimitHolds == GateSpec => []RateLimit
<1>1. GateInv => RateLimit
  BY DEF GateInv, WindowInv
<1> QED BY <1>1, Invariance, PTL

\* A call that approves is Decide, and finds the gate enabled and the equity
\* no more than the drawdown limit below the peak.
LEMMA ApprovalGuard ==
    ASSUME GateInv, [GateNext]_gateVars, log' # log
    PROVE  /\ enabled
           /\ last'.eq \in Equities /\ ~DrawdownHit(last'.eq)
<1>1. PICK eq \in Equities, w \in Weights \cup {NaN},
           open \in {0, MaxOpenOrders}, listed \in BOOLEAN :
              Decide(eq, w, open, listed)
  BY DEF GateNext, Check, Reject, UpdateEquity, ResetDaily, Enable, Tick, gateVars,
         gateHistory
<1>2. last'.eq = eq
  BY <1>1 DEF Decide, Answer
<1>3. ~Fails("halted", eq, w, open, listed) /\ ~Fails("drawdown", eq, w, open, listed)
  <2>1. Len(Checks) = 7 /\ Checks[1] = "halted" /\ Checks[5] = "drawdown"
    BY DEF Checks
  <2> QED BY <1>1, <2>1 DEF Decide
<1> QED BY <1>2, <1>3 DEF Fails

\* Once a loss limit has halted trading, no order is approved until enable()
\* is called.
THEOREM HaltSticksAlways == GateSpec => HaltSticks
<1>1. GateInv /\ [GateNext]_gateVars => [log' # log => ~tripped]_gateVars
  BY ApprovalGuard DEF GateInv, HaltInv
<1> QED BY <1>1, Invariance, PTL DEF GateSpec, HaltSticks

\* No order is approved at an equity more than the drawdown limit below the
\* highest equity ever reported to the gate.
THEOREM ApprovedNearBestAlways == GateSpec => ApprovedNearBest
<1>1. GateInv /\ [GateNext]_gateVars
        => [log' # log => 100 * (last'.eq - best) >= -(MaxDrawdown * best)]_gateVars
  <2> SUFFICES ASSUME GateInv, [GateNext]_gateVars, log' # log
               PROVE  100 * (last'.eq - best) >= -(MaxDrawdown * best)
    OBVIOUS
  <2>1. last'.eq \in Nat /\ ~DrawdownHit(last'.eq)
    BY ApprovalGuard, GateAssumption
  <2>2. best = peak /\ peak \in Nat /\ MaxDrawdown \in Nat
    BY GateAssumption DEF GateInv, HaltInv, GateTypeOK
  <2>3. CASE peak = 0
    <3>1. MaxDrawdown * best = 0
      BY <2>2, <2>3
    <3> QED BY <2>1, <2>2, <2>3, <3>1
  <2>4. CASE peak > 0
    <3>1. ~(100 * (last'.eq - peak) < -(MaxDrawdown * peak))
      BY <2>1, <2>4 DEF DrawdownHit
    <3>2. MaxDrawdown * peak \in Int /\ 100 * (last'.eq - peak) \in Int
      BY <2>1, <2>2
    <3> QED BY <2>2, <3>1, <3>2
  <2> QED BY <2>2, <2>3, <2>4
<1> QED BY <1>1, Invariance, PTL DEF GateSpec, ApprovedNearBest
=============================================================================
