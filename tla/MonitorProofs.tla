--------------------------- MODULE MonitorProofs ----------------------------
(***************************************************************************)
(* The milestone lines, the counts and the end of Monitor, for any number  *)
(* of browsers and IDs, any milestone, and any number of kills of the      *)
(* collector and of the monitor.                                           *)
(***************************************************************************)
EXTENDS Monitor, FiniteSetTheorems, WellFoundedInduction, TLAPS

(* What the lines depend on has its type.                                  *)
CountTypes ==
  /\ rows \in [Browsers -> Nat]
  /\ offset \in [Browsers -> Nat]
  /\ completed \in Nat
  /\ next \in Nat
  /\ milestones \in Seq(Nat)

(* The n-th line tells of n milestones, and lines are in ascending order.  *)
GoodLines(lines) ==
  /\ \A n \in DOMAIN lines : lines[n] >= n * Milestone
  /\ \A m, n \in DOMAIN lines : m <= n => lines[m] <= lines[n]

(* While the monitor runs, the milestone it waits for comes after those    *)
(* there are lines for, and no line tells of more IDs than the milestone   *)
(* to come or the count so far.                                            *)
NextIsAhead ==
  mpc \notin Ended =>
    /\ next >= (Len(milestones) + 1) * Milestone
    /\ \A n \in DOMAIN milestones : milestones[n] <= next \/ milestones[n] <= completed

LinesInv ==
  /\ CountTypes
  /\ \A b \in Browsers : offset[b] <= rows[b]
  /\ GoodLines(milestones)
  /\ NextIsAhead

-----------------------------------------------------------------------------
LEMMA OneMore == ASSUME NEW n \in Nat PROVE (n + 1) * Milestone = n * Milestone + Milestone
BY MonitorAssumption

(* The next milestone stays ahead when the lines change by one or not.     *)
LEMMA StaysAhead ==
  ASSUME NEW L \in Nat, NEW M \in Nat, NEW n \in Nat,
         n >= (L + 1) * Milestone, M <= L + 1, L <= M + 1
  PROVE  n + Milestone >= (M + 1) * Milestone
<1>1. \A k \in Nat : k * Milestone \in Nat /\ (k + 1) * Milestone = k * Milestone + Milestone
  BY MonitorAssumption, OneMore
<1>2. L + 1 \in Nat /\ (M = L + 1 \/ M = L \/ L = M + 1)
  OBVIOUS
<1>3. CASE M = L + 1
  <2>1. (M + 1) * Milestone = (L + 1) * Milestone + Milestone
    BY <1>1, <1>2, <1>3
  <2> QED
    BY <1>1, <1>2, <2>1, MonitorAssumption
<1>4. CASE M = L
  BY <1>1, <1>2, <1>4, MonitorAssumption
<1>5. CASE L = M + 1
  <2>1. (L + 1) * Milestone = (M + 1) * Milestone + Milestone
    BY <1>1, <1>2, <1>5
  <2> QED
    BY <1>1, <1>2, <2>1, MonitorAssumption
<1> QED
  BY <1>2, <1>3, <1>4, <1>5

(* A line that is cut off leaves good lines behind.                        *)
LEMMA FrontOfLines ==
  ASSUME NEW lines \in Seq(Nat)
  PROVE  /\ Front(lines) \in Seq(Nat)
         /\ Len(Front(lines)) <= Len(lines)
         /\ Len(Front(lines)) + 1 >= Len(lines)
         /\ \A n \in DOMAIN Front(lines) : n \in DOMAIN lines /\ Front(lines)[n] = lines[n]
         /\ GoodLines(lines) => GoodLines(Front(lines))
<1>1. CASE lines = <<>>
  BY <1>1 DEF Front, GoodLines
<1>2. CASE lines # <<>>
  <2>1. Len(lines) \in Nat \ {0} /\ Front(lines) = SubSeq(lines, 1, Len(lines) - 1)
    BY <1>2 DEF Front
  <2>2. /\ Front(lines) \in Seq(Nat)
        /\ Len(Front(lines)) = Len(lines) - 1
        /\ \A n \in 1 .. Len(lines) - 1 : Front(lines)[n] = lines[n]
    <3> DEFINE k == Len(lines) - 1
    <3>1. k \in Nat /\ k <= Len(lines) /\ Front(lines) = SubSeq(lines, 1, k)
      BY <2>1
    <3> HIDE DEF k
    <3>2. \A i \in 1 .. k : lines[i] \in Nat
      BY <3>1
    <3>3. SubSeq(lines, 1, k) \in Seq(Nat)
      BY <3>1, <3>2
    <3>4. Len(SubSeq(lines, 1, k)) = k
      BY <3>1
    <3>5. \A n \in 1 .. k : SubSeq(lines, 1, k)[n] = lines[n]
      BY <3>1
    <3> QED
      BY <3>1, <3>3, <3>4, <3>5 DEF k
  <2>3. \A n \in DOMAIN Front(lines) : n \in DOMAIN lines /\ Front(lines)[n] = lines[n]
    BY <2>1, <2>2
  <2> QED
    BY <2>1, <2>2, <2>3 DEF GoodLines
<1> QED
  BY <1>1, <1>2

(* A count that has reached the next milestone makes a good line.          *)
LEMMA LineAppended ==
  ASSUME LinesInv, mpc \notin Ended, completed >= next
  PROVE  /\ GoodLines(Append(milestones, completed))
         /\ Len(Append(milestones, completed)) = Len(milestones) + 1
         /\ \A n \in DOMAIN Append(milestones, completed) :
              Append(milestones, completed)[n] <= completed
<1> DEFINE lines == Append(milestones, completed)
           k == Len(milestones) + 1
<1> USE MonitorAssumption DEF LinesInv, CountTypes
<1>1. /\ k \in Nat \ {0}
      /\ DOMAIN milestones = 1 .. k - 1
      /\ DOMAIN lines = 1 .. k
      /\ Len(lines) = k
      /\ lines[k] = completed
      /\ \A n \in 1 .. k - 1 : lines[n] = milestones[n] /\ milestones[n] \in Nat
  OBVIOUS
<1>2. completed >= k * Milestone
  <2>1. k * Milestone \in Nat
    BY <1>1
  <2> QED
    BY <2>1 DEF NextIsAhead
<1>3. \A n \in 1 .. k - 1 : milestones[n] <= completed
  <2> SUFFICES ASSUME NEW n \in 1 .. k - 1 PROVE milestones[n] <= completed
    OBVIOUS
  <2>1. n \in DOMAIN milestones /\ milestones[n] \in Nat
    BY <1>1
  <2>2. milestones[n] <= next \/ milestones[n] <= completed
    BY <2>1 DEF NextIsAhead
  <2> QED
    BY <2>1, <2>2
<1>4. \A n \in DOMAIN lines : lines[n] <= completed
  <2> HIDE DEF k, lines
  <2> QED
    BY <1>1, <1>3
<1>5. \A n \in DOMAIN lines : lines[n] >= n * Milestone
  <2>1. \A n \in 1 .. k - 1 : milestones[n] >= n * Milestone
    BY <1>1 DEF GoodLines
  <2> HIDE DEF k, lines
  <2> SUFFICES ASSUME NEW n \in 1 .. k PROVE lines[n] >= n * Milestone
    BY <1>1
  <2>2. CASE n = k
    BY <1>1, <1>2, <2>2
  <2>3. CASE n # k
    <3>1. n \in 1 .. k - 1
      BY <1>1, <2>3
    <3> QED
      BY <1>1, <2>1, <3>1
  <2> QED
    BY <2>2, <2>3
<1>6. \A m, n \in DOMAIN lines : m <= n => lines[m] <= lines[n]
  BY <1>1, <1>3 DEF GoodLines
<1> HIDE DEF k, lines
<1> QED
  BY <1>1, <1>4, <1>5, <1>6 DEF GoodLines, lines, k

(* The milestone a monitor starts with is past every line.                 *)
LEMMA FirstIsAhead ==
  ASSUME CountTypes, GoodLines(milestones)
  PROVE  /\ FirstMilestone \in Nat
         /\ FirstMilestone >= (Len(milestones) + 1) * Milestone
         /\ \A n \in DOMAIN milestones : milestones[n] <= FirstMilestone
<1> DEFINE L == Len(milestones)
           S == {0} \cup Range(milestones)
           past == L * Milestone
<1>1. L \in Nat /\ DOMAIN milestones = 1 .. L /\ Milestone \in Nat
      /\ \A n \in 1 .. L : milestones[n] \in Nat
  BY MonitorAssumption DEF CountTypes
<1>2. past \in Nat /\ (L + 1) * Milestone = past + Milestone
  <2>1. \A m \in Nat : m * Milestone \in Nat /\ (m + 1) * Milestone = m * Milestone + Milestone
    BY <1>1, OneMore
  <2> QED
    BY <1>1, <2>1
<1>3. /\ L # 0 => milestones[L] >= past
      /\ \A n \in 1 .. L : milestones[L] >= milestones[n]
  BY <1>1 DEF GoodLines
<1>4. L = 0 => past = 0
  BY <1>1
<1>5. \A x : x \in S <=> x = 0 \/ \E n \in 1 .. L : x = milestones[n]
  BY <1>1 DEF Range
<1>6. FirstMilestone = Max(S) + Milestone
  BY DEF FirstMilestone
<1> HIDE DEF L, S, past
<1>7. \E x \in S : \A y \in S : x >= y
  <2>1. CASE L = 0
    BY <1>1, <1>5, <2>1
  <2>2. CASE L # 0
    <3>1. milestones[L] \in S
      BY <1>1, <1>5, <2>2
    <3>2. \A y \in S : milestones[L] >= y
      BY <1>1, <1>3, <1>5, <2>2
    <3> QED
      BY <3>1, <3>2
  <2> QED
    BY <2>1, <2>2
<1>8. Max(S) \in S /\ \A y \in S : Max(S) >= y
  BY <1>7 DEF Max
<1>9. Max(S) \in Nat /\ \A n \in 1 .. L : Max(S) >= milestones[n]
  BY <1>1, <1>5, <1>8
<1>10. Max(S) >= past
  <2>1. CASE L = 0
    BY <1>4, <1>9, <2>1
  <2>2. CASE L # 0
    <3>1. Max(S) >= milestones[L] /\ milestones[L] \in Nat
      BY <1>1, <1>9, <2>2
    <3> QED
      BY <1>2, <1>3, <1>9, <2>2, <3>1
  <2> QED
    BY <2>1, <2>2
<1>11. FirstMilestone \in Nat /\ FirstMilestone >= past + Milestone
  BY <1>1, <1>2, <1>6, <1>9, <1>10
<1>12. \A n \in 1 .. L : milestones[n] <= FirstMilestone
  BY <1>1, <1>6, <1>9
<1> QED
  BY <1>1, <1>2, <1>11, <1>12 DEF L

-----------------------------------------------------------------------------
LEMMA InitLines == Init => LinesInv
BY DEF Init, LinesInv, CountTypes, GoodLines, NextIsAhead, Ended, Zero

(* The run adds rows and touches nothing of the monitor.                   *)
LEMMA RunStepKeeps ==
  ASSUME LinesInv, RunStep, UNCHANGED monitorVars
  PROVE  LinesInv'
<1>1. rows' \in [Browsers -> Nat] /\ \A b \in Browsers : rows[b] <= rows'[b]
  <2>1. rows \in [Browsers -> Nat]
    BY DEF LinesInv, CountTypes
  <2>2. ASSUME NEW b \in Browsers, AppendRow(b)
        PROVE  rows' \in [Browsers -> Nat] /\ \A c \in Browsers : rows[c] <= rows'[c]
    BY <2>1, <2>2 DEF AppendRow
  <2>3. CASE rows' = rows
    BY <2>1, <2>3
  <2> QED
    BY <2>2, <2>3 DEF RunStep, Resume, EndAttempt, AttemptDies, RecordIsDurable, SaveElapsed
<1>2. CountTypes'
  BY <1>1 DEF LinesInv, CountTypes, monitorVars, fileVars
<1>3. \A b \in Browsers : offset'[b] <= rows'[b]
  BY <1>1 DEF LinesInv, CountTypes, monitorVars
<1>4. GoodLines(milestones)' /\ NextIsAhead'
  BY DEF LinesInv, GoodLines, NextIsAhead, monitorVars, fileVars
<1> QED
  BY <1>2, <1>3, <1>4 DEF LinesInv

(* The steps of the monitor that write no line.                            *)
LEMMA QuietStepKeeps ==
  ASSUME LinesInv, UNCHANGED <<rows, milestones>>,
         \/ Glob \/ ReadProgress \/ BelowMilestone \/ Sleep
         \/ StartMonitor \/ StartRaises \/ Return \/ MonitorKilled
         \/ \E b \in Browsers : CountJournal(b)
  PROVE  LinesInv'
<1> USE DEF LinesInv, CountTypes
<1>1. GoodLines(milestones)'
  BY DEF GoodLines
<1>2. CASE Glob \/ ReadProgress \/ BelowMilestone \/ Sleep
  BY <1>1, <1>2 DEF Glob, ReadProgress, BelowMilestone, Sleep, NextIsAhead, Ended, fileVars
<1>3. CASE StartMonitor
  <2>1. next' = FirstMilestone /\ UNCHANGED <<offset, completed>>
    BY <1>3 DEF StartMonitor
  <2> QED
    BY <1>1, <2>1, FirstIsAhead DEF NextIsAhead
<1>4. CASE StartRaises
  BY <1>1, <1>4 DEF StartRaises, NextIsAhead, Ended, fileVars
<1>5. CASE Return \/ MonitorKilled
  BY <1>1, <1>5 DEF Return, MonitorKilled, Leave, Zero, NextIsAhead, Ended
<1>6. ASSUME NEW b \in Browsers, CountJournal(b)
      PROVE  LinesInv'
  <2>1. /\ completed' = completed + (rows[b] - offset[b])
        /\ offset' = [offset EXCEPT ![b] = rows[b]]
        /\ UNCHANGED <<mpc, next>>
    BY <1>6 DEF CountJournal, OffsetAfter
  <2>2. completed' \in Nat /\ completed' >= completed
    BY <2>1
  <2>3. NextIsAhead'
    <3>1. \A n \in DOMAIN milestones : milestones[n] \in Nat
      OBVIOUS
    <3> QED
      BY <2>1, <2>2, <3>1 DEF NextIsAhead
  <2> QED
    BY <1>1, <2>1, <2>2, <2>3
<1> QED
  BY <1>2, <1>3, <1>4, <1>5, <1>6

(* What a write, whole or cut off, may leave.                              *)
LEMMA LinesAfter ==
  ASSUME LinesInv, mpc \notin Ended, completed >= next,
         NEW lines \in {milestones, Front(milestones), Append(milestones, completed)}
  PROVE  /\ lines \in Seq(Nat)
         /\ GoodLines(lines)
         /\ Len(lines) <= Len(milestones) + 1
         /\ Len(milestones) <= Len(lines) + 1
         /\ \A n \in DOMAIN lines : lines[n] <= completed
<1>1. milestones \in Seq(Nat) /\ completed \in Nat /\ next \in Nat /\ GoodLines(milestones)
  BY DEF LinesInv, CountTypes
<1>2. Len(milestones) \in Nat
  BY <1>1
<1>3. \A n \in DOMAIN milestones : milestones[n] <= completed
  <2> SUFFICES ASSUME NEW n \in DOMAIN milestones PROVE milestones[n] <= completed
    OBVIOUS
  <2>1. milestones[n] \in Nat
    BY <1>1
  <2>2. milestones[n] <= next \/ milestones[n] <= completed
    BY DEF LinesInv, NextIsAhead
  <2> QED
    BY <1>1, <2>1, <2>2
<1>4. CASE lines = milestones
  BY <1>1, <1>2, <1>3, <1>4
<1>5. CASE lines = Front(milestones)
  <2>1. /\ Front(milestones) \in Seq(Nat)
        /\ Len(Front(milestones)) <= Len(milestones)
        /\ Len(Front(milestones)) + 1 >= Len(milestones)
        /\ \A n \in DOMAIN Front(milestones) :
             n \in DOMAIN milestones /\ Front(milestones)[n] = milestones[n]
        /\ GoodLines(Front(milestones))
    BY <1>1, FrontOfLines
  <2>2. Len(Front(milestones)) \in Nat
    BY <2>1
  <2>3. \A n \in DOMAIN lines : lines[n] <= completed
    BY <1>3, <1>5, <2>1
  <2>4. Len(lines) <= Len(milestones) + 1 /\ Len(milestones) <= Len(lines) + 1
    BY <1>2, <1>5, <2>1, <2>2
  <2> QED
    BY <1>5, <2>1, <2>3, <2>4
<1>6. CASE lines = Append(milestones, completed)
  <2>1. lines \in Seq(Nat)
    BY <1>1, <1>6
  <2>2. /\ GoodLines(lines)
        /\ Len(lines) = Len(milestones) + 1
        /\ \A n \in DOMAIN lines : lines[n] <= completed
    BY <1>6, LineAppended
  <2> QED
    BY <1>2, <2>1, <2>2
<1> QED
  BY <1>4, <1>5, <1>6

(* A line is written, alone or as the end of an open one.                  *)
LEMMA AppendKeeps ==
  ASSUME LinesInv, AppendMilestone, UNCHANGED rows
  PROVE  LinesInv'
<1>1. /\ CountTypes /\ Milestone \in Nat /\ mpc \notin Ended /\ completed >= next
      /\ next' = next + Milestone /\ UNCHANGED <<offset, completed>>
      /\ milestones' \in {milestones, Front(milestones), Append(milestones, completed)}
  BY MonitorAssumption DEF LinesInv, AppendMilestone, Ended
<1>2. /\ milestones' \in Seq(Nat)
      /\ GoodLines(milestones')
      /\ Len(milestones') <= Len(milestones) + 1
      /\ Len(milestones) <= Len(milestones') + 1
      /\ \A n \in DOMAIN milestones' : milestones'[n] <= completed
  BY <1>1, LinesAfter
<1>3. next' >= (Len(milestones') + 1) * Milestone
  <2>1. Len(milestones) \in Nat /\ Len(milestones') \in Nat /\ next \in Nat
    BY <1>1, <1>2 DEF CountTypes
  <2>2. next >= (Len(milestones) + 1) * Milestone
    BY <1>1 DEF LinesInv, NextIsAhead
  <2> QED
    BY <1>1, <1>2, <2>1, <2>2, StaysAhead
<1>4. CountTypes' /\ \A b \in Browsers : offset'[b] <= rows'[b]
  BY <1>1, <1>2 DEF LinesInv, CountTypes
<1>5. GoodLines(milestones)' /\ NextIsAhead'
  BY <1>1, <1>2, <1>3 DEF GoodLines, NextIsAhead
<1> QED
  BY <1>4, <1>5 DEF LinesInv

(* A line is cut off by a kill.                                            *)
LEMMA TornKeeps ==
  ASSUME LinesInv, MilestoneTorn, UNCHANGED rows
  PROVE  LinesInv'
<1>1. /\ CountTypes /\ mpc \notin Ended /\ completed >= next
      /\ mpc' \in Ended /\ Leave
      /\ milestones' \in {milestones, Front(milestones), Append(milestones, completed)}
  BY DEF LinesInv, MilestoneTorn, Ended
<1>2. milestones' \in Seq(Nat) /\ GoodLines(milestones')
  BY <1>1, LinesAfter
<1>3. CountTypes' /\ \A b \in Browsers : offset'[b] <= rows'[b]
  BY <1>1, <1>2 DEF LinesInv, CountTypes, Leave, Zero
<1>4. GoodLines(milestones)' /\ NextIsAhead'
  BY <1>1, <1>2 DEF GoodLines, NextIsAhead
<1> QED
  BY <1>3, <1>4 DEF LinesInv

-----------------------------------------------------------------------------
(* However often the monitor and the collector are killed, started again   *)
(* or resumed: the lines are good, and the milestone that the monitor      *)
(* waits for comes after them.                                             *)
THEOREM LinesInvariant == Spec => []LinesInv
<1>1. ASSUME LinesInv, [Next]_vars PROVE LinesInv'
  <2>1. CASE RunStep /\ UNCHANGED monitorVars
    BY <1>1, <2>1, RunStepKeeps
  <2>2. CASE MonitorStep /\ UNCHANGED runVars
    <3>1. UNCHANGED rows
      BY <2>2 DEF runVars
    <3>2. CASE AppendMilestone
      BY <1>1, <3>1, <3>2, AppendKeeps
    <3>3. CASE MilestoneTorn
      BY <1>1, <3>1, <3>3, TornKeeps
    <3>4. CASE \/ Glob \/ ReadProgress \/ BelowMilestone \/ Sleep
               \/ StartMonitor \/ StartRaises \/ Return \/ MonitorKilled
               \/ \E b \in Browsers : CountJournal(b)
      <4>1. milestones' = milestones
        BY <3>4 DEF Glob, ReadProgress, BelowMilestone, Sleep, StartMonitor, StartRaises, Return,
                    MonitorKilled, CountJournal, fileVars
      <4> QED
        BY <1>1, <3>1, <3>4, <4>1, QuietStepKeeps
    <3> QED
      BY <2>2, <3>2, <3>3, <3>4 DEF MonitorStep, PollStep
  <2>3. CASE UNCHANGED vars
    BY <1>1, <2>3 DEF vars, runVars, monitorVars, fileVars, LinesInv, CountTypes, GoodLines,
                      NextIsAhead
  <2> QED
    BY <1>1, <2>1, <2>2, <2>3 DEF Next
<1> QED
  BY <1>1, InitLines, PTL DEF Spec

(* There are never more lines than milestones were reached, and they tell  *)
(* of ever more IDs, whatever is killed when.                              *)
THEOREM MilestonesOnce == Spec => []MilestoneLines
<1>1. LinesInv => MilestoneLines
  <2> SUFFICES ASSUME LinesInv, NEW n \in DOMAIN milestones, n > 1
               PROVE  milestones[n - 1] <= milestones[n]
    BY DEF LinesInv, GoodLines, MilestoneLines
  <2>1. n - 1 \in DOMAIN milestones /\ n - 1 <= n
    BY DEF LinesInv, CountTypes
  <2> QED
    BY <2>1 DEF LinesInv, GoodLines
<1> QED
  BY <1>1, LinesInvariant, PTL

-----------------------------------------------------------------------------
(* Totals.  TotalOf folds over the browsers in an order that CHOOSE makes; *)
(* the same sum is a function g on the sets of browsers, and what holds of *)
(* every sum is proved at the least set where it might fail.               *)

(* A set of subsets that all fall short has one that is least.             *)
LEMMA LeastSubset ==
  ASSUME NEW T \in SUBSET SUBSET Browsers, T # {}
  PROVE  \E s \in T : \A u \in SUBSET s : u # s => u \notin T
<1> DEFINE R == StrictSubsetOrdering(Browsers)
<1>1. IsWellFoundedOn(R, FiniteSubsetsOf(Browsers))
  BY FS_StrictSubsetOrderingWellFounded
<1>2. T \subseteq FiniteSubsetsOf(Browsers)
  BY MonitorAssumption, FS_Subset DEF FiniteSubsetsOf, MonitorAssumption
<1>3. PICK s \in T : \A u \in T : <<u, s>> \notin R
  <2> HIDE DEF R
  <2> QED
    BY <1>1, <1>2, WFMin
<1> SUFFICES ASSUME NEW u \in SUBSET s, u # s, u \in T PROVE FALSE
  BY <1>3
<1>4. <<u, s>> \in R
  BY DEF StrictSubsetOrdering
<1> QED
  BY <1>3, <1>4

Least(s) == CHOOSE x \in s : TRUE
Rest(s) == s \ {Least(s)}

LEMMA RestIsLess ==
  ASSUME NEW s, s # {}
  PROVE  Least(s) \in s /\ Rest(s) \in SUBSET s /\ Rest(s) # s
BY DEF Least, Rest

Step(f, g, s) == IF s = {} THEN 0 ELSE f[Least(s)] + g[Rest(s)]

(* g adds up f on the subsets of s.                                        *)
Sums(f, s, g) == \A u \in SUBSET s : g[u] = Step(f, g, u)

LEMMA SumsAgree ==
  ASSUME NEW f, NEW s \in SUBSET Browsers, NEW t \in SUBSET Browsers, NEW g, NEW h,
         Sums(f, s, g), Sums(f, t, h), NEW u \in SUBSET (s \cap t)
  PROVE  g[u] = h[u]
<1> DEFINE T == {v \in SUBSET (s \cap t) : g[v] # h[v]}
<1>1. SUFFICES ASSUME T # {} PROVE FALSE
  OBVIOUS
<1>2. T \in SUBSET SUBSET Browsers
  OBVIOUS
<1>3. PICK v \in T : \A w \in SUBSET v : w # v => w \notin T
  <2> HIDE DEF T
  <2> QED
    BY <1>1, <1>2, LeastSubset
<1>4. v # {} => g[Rest(v)] = h[Rest(v)]
  BY <1>3, RestIsLess
<1>5. g[v] = Step(f, g, v) /\ h[v] = Step(f, h, v)
  BY DEF Sums
<1>6. g[v] = h[v]
  BY <1>4, <1>5 DEF Step
<1> QED
  BY <1>6

LEMMA SumsAgreeBelow ==
  ASSUME NEW f, NEW u \in SUBSET Browsers, NEW r \in SUBSET u, NEW g, NEW h,
         Sums(f, u, g), Sums(f, r, h)
  PROVE  g[r] = h[r]
<1>1. r \in SUBSET (u \cap r) /\ r \in SUBSET Browsers
  OBVIOUS
<1> QED
  BY <1>1, SumsAgree

LEMMA SumsExist ==
  ASSUME NEW f \in [Browsers -> Nat], NEW s \in SUBSET Browsers
  PROVE  \E g \in [SUBSET s -> Nat] : Sums(f, s, g)
<1> DEFINE T == {t \in SUBSET Browsers : ~ \E g \in [SUBSET t -> Nat] : Sums(f, t, g)}
<1>1. SUFFICES ASSUME T # {} PROVE FALSE
  OBVIOUS
<1>2. PICK t \in T : \A u \in SUBSET t : u # t => u \notin T
  <2>1. T \in SUBSET SUBSET Browsers
    OBVIOUS
  <2> HIDE DEF T
  <2> QED
    BY <1>1, <2>1, LeastSubset
<1> DEFINE G(u) == CHOOSE g \in [SUBSET u -> Nat] : Sums(f, u, g)
           below(u) == IF u = {} THEN 0 ELSE f[Least(u)] + G(Rest(u))[Rest(u)]
           h == [u \in SUBSET t |-> below(u)]
<1>3. ASSUME NEW u \in SUBSET t, u # t
      PROVE  G(u) \in [SUBSET u -> Nat] /\ Sums(f, u, G(u))
  <2>1. \E g \in [SUBSET u -> Nat] : Sums(f, u, g)
    BY <1>2, <1>3
  <2> QED
    BY <2>1
<1> HIDE DEF G
<1>4. ASSUME NEW u \in SUBSET t
      PROVE  below(u) \in Nat
  <2>1. CASE u = {}
    BY <2>1
  <2>2. CASE u # {}
    <3>1. Least(u) \in Browsers /\ Rest(u) \in SUBSET t /\ Rest(u) # t
      BY <2>2, RestIsLess
    <3>2. G(Rest(u)) \in [SUBSET Rest(u) -> Nat]
      BY <1>3, <3>1
    <3> QED
      BY <2>2, <3>1, <3>2
  <2> QED
    BY <2>1, <2>2
<1>5. ASSUME NEW u \in SUBSET t, u # t
      PROVE  G(u)[u] = below(u)
  <2>1. Sums(f, u, G(u))
    BY <1>3, <1>5
  <2>2. G(u)[u] = Step(f, G(u), u)
    BY <2>1 DEF Sums
  <2>3. CASE u = {}
    BY <2>2, <2>3 DEF Step
  <2>4. CASE u # {}
    <3>1. Rest(u) \in SUBSET u /\ Rest(u) \in SUBSET t /\ Rest(u) # t
      BY <2>4, RestIsLess
    <3>2. Sums(f, Rest(u), G(Rest(u)))
      BY <1>3, <3>1
    <3>3. G(u)[Rest(u)] = G(Rest(u))[Rest(u)]
      BY <2>1, <3>1, <3>2, SumsAgreeBelow
    <3> QED
      BY <2>2, <2>4, <3>3 DEF Step
  <2> QED
    BY <2>3, <2>4
<1>6. h \in [SUBSET t -> Nat]
  <2> HIDE DEF below
  <2> QED
    BY <1>4
<1>7. ASSUME NEW u \in SUBSET t
      PROVE  h[u] = Step(f, h, u)
  <2>1. CASE u = {}
    BY <2>1 DEF Step
  <2>2. CASE u # {}
    <3>1. Rest(u) \in SUBSET t /\ Rest(u) # t
      BY <2>2, RestIsLess
    <3>2. h[Rest(u)] = G(Rest(u))[Rest(u)]
      <4>1. h[Rest(u)] = below(Rest(u))
        <5> HIDE DEF below
        <5> QED
          BY <3>1
      <4> HIDE DEF h, below
      <4> QED
        BY <1>5, <3>1, <4>1
    <3>3. h[u] = below(u)
      <4> HIDE DEF below
      <4> QED
        OBVIOUS
    <3> HIDE DEF h
    <3> QED
      BY <2>2, <3>2, <3>3 DEF Step
  <2> QED
    BY <2>1, <2>2
<1>8. Sums(f, t, h)
  <2> HIDE DEF h
  <2> QED
    BY <1>7 DEF Sums
<1> HIDE DEF h
<1> QED
  BY <1>2, <1>6, <1>8

(* The sum that the monitor and the summary compute of f.                  *)
SumOf(f) == CHOOSE g \in [SUBSET Browsers -> Nat] : Sums(f, Browsers, g)

LEMMA SumIsTotal ==
  ASSUME NEW f \in [Browsers -> Nat]
  PROVE  /\ SumOf(f) \in [SUBSET Browsers -> Nat]
         /\ \A s \in SUBSET Browsers : SumOf(f)[s] = Step(f, SumOf(f), s)
         /\ TotalOf(f) = SumOf(f)[Browsers]
<1> DEFINE g == SumOf(f)
<1>1. g \in [SUBSET Browsers -> Nat] /\ Sums(f, Browsers, g)
  BY SumsExist DEF SumOf
<1>2. \A s \in SUBSET Browsers : g[s] = Step(f, g, s)
  BY <1>1 DEF Sums
<1> HIDE DEF g
<1>3. g = [s \in SUBSET Browsers |-> Step(f, g, s)]
  BY <1>1, <1>2
<1>4. ASSUME NEW h, h = [s \in SUBSET Browsers |-> Step(f, h, s)]
      PROVE  h = g
  <2>1. Sums(f, Browsers, h)
    <3>1. \A s \in SUBSET Browsers : h[s] = [u \in SUBSET Browsers |-> Step(f, h, u)][s]
      BY <1>4
    <3> QED
      BY <3>1 DEF Sums
  <2>2. \A s \in SUBSET Browsers : h[s] = g[s]
    BY <1>1, <2>1, SumsAgree
  <2>3. h = [s \in SUBSET Browsers |-> h[s]]
    BY <1>4
  <2> QED
    BY <1>1, <2>2, <2>3
<1> DEFINE iter == CHOOSE h : h = [s \in SUBSET Browsers |->
                                     IF s = {} THEN 0
                                     ELSE f[CHOOSE x \in s : TRUE] + h[s \ {CHOOSE x \in s : TRUE}]]
<1>5. TotalOf(f) = iter[Browsers]
  BY DEF TotalOf, MapThenSumSet, MapThenFoldSet
<1>6. iter = g
  BY <1>3, <1>4 DEF Step, Least, Rest
<1> QED
  BY <1>1, <1>2, <1>5, <1>6 DEF g

(* Any element may be taken out first.                                     *)
LEMMA SumWithout ==
  ASSUME NEW f \in [Browsers -> Nat], NEW s \in SUBSET Browsers, NEW y \in s
  PROVE  SumOf(f)[s] = f[y] + SumOf(f)[s \ {y}]
<1> DEFINE g == SumOf(f)
           T == {t \in SUBSET Browsers : \E x \in t : g[t] # f[x] + g[t \ {x}]}
<1>1. g \in [SUBSET Browsers -> Nat] /\ \A t \in SUBSET Browsers : g[t] = Step(f, g, t)
  BY SumIsTotal
<1> HIDE DEF g
<1>2. SUFFICES ASSUME T # {} PROVE FALSE
  BY DEF g
<1>3. PICK t \in T : \A u \in SUBSET t : u # t => u \notin T
  <2>1. T \in SUBSET SUBSET Browsers
    OBVIOUS
  <2> HIDE DEF T
  <2> QED
    BY <1>2, <2>1, LeastSubset
<1>4. PICK x \in t : g[t] # f[x] + g[t \ {x}]
  BY <1>3
<1> DEFINE z == Least(t)
<1>5. z \in t /\ g[t] = f[z] + g[t \ {z}]
  BY <1>1, <1>3, <1>4, RestIsLess DEF Step, Rest
<1> HIDE DEF z
<1>6. z # x
  BY <1>4, <1>5
<1>7. g[t \ {z}] = f[x] + g[(t \ {z}) \ {x}]
  <2>1. t \ {z} \in SUBSET t /\ t \ {z} # t /\ x \in t \ {z}
    BY <1>5, <1>6
  <2>2. t \ {z} \notin T
    BY <1>3, <2>1
  <2> QED
    BY <1>3, <2>1, <2>2
<1>8. g[t \ {x}] = f[z] + g[(t \ {x}) \ {z}]
  <2>1. t \ {x} \in SUBSET t /\ t \ {x} # t /\ z \in t \ {x}
    BY <1>5, <1>6
  <2>2. t \ {x} \notin T
    BY <1>3, <2>1
  <2> QED
    BY <1>3, <2>1, <2>2
<1>9. g[(t \ {z}) \ {x}] = g[(t \ {x}) \ {z}]
  <2>1. (t \ {z}) \ {x} = (t \ {x}) \ {z}
    OBVIOUS
  <2> QED
    BY <2>1
<1>10. f[x] \in Nat /\ f[z] \in Nat /\ g[(t \ {x}) \ {z}] \in Nat
  BY <1>1, <1>3, <1>5
<1> DEFINE ofX == f[x]
           ofZ == f[z]
           both == g[(t \ {x}) \ {z}]
           all == g[t]
           noX == g[t \ {x}]
           noZ == g[t \ {z}]
<1>11. /\ all # ofX + noX /\ all = ofZ + noZ
       /\ noZ = ofX + both /\ noX = ofZ + both
       /\ ofX \in Nat /\ ofZ \in Nat /\ both \in Nat
  BY <1>4, <1>5, <1>7, <1>8, <1>9, <1>10
<1> HIDE DEF ofX, ofZ, both, all, noX, noZ
<1> QED
  BY <1>11

(* What is no more for each browser is no more in total.                   *)
LEMMA SumIsMonotone ==
  ASSUME NEW f \in [Browsers -> Nat], NEW h \in [Browsers -> Nat],
         NEW s \in SUBSET Browsers, \A b \in s : f[b] <= h[b]
  PROVE  SumOf(f)[s] <= SumOf(h)[s]
<1> DEFINE T == {t \in SUBSET s : ~ (SumOf(f)[t] <= SumOf(h)[t])}
<1>1. SUFFICES ASSUME T # {} PROVE FALSE
  OBVIOUS
<1>2. PICK t \in T : \A u \in SUBSET t : u # t => u \notin T
  <2>1. T \in SUBSET SUBSET Browsers
    OBVIOUS
  <2> HIDE DEF T
  <2> QED
    BY <1>1, <2>1, LeastSubset
<1> DEFINE F == SumOf(f)
           H == SumOf(h)
<1>3. /\ F[t] \in Nat /\ F[t] = Step(f, F, t) /\ H[t] = Step(h, H, t)
      /\ F[Rest(t)] \in Nat /\ H[Rest(t)] \in Nat
  <2>1. t \in SUBSET Browsers /\ Rest(t) \in SUBSET Browsers
    BY <1>2 DEF Rest
  <2> QED
    BY <2>1, SumIsTotal
<1>4. t # {} => Least(t) \in s /\ F[Rest(t)] <= H[Rest(t)]
  BY <1>2, RestIsLess
<1>5. t # {} => f[Least(t)] \in Nat /\ h[Least(t)] \in Nat /\ f[Least(t)] <= h[Least(t)]
  BY <1>4
<1>6. ~ (F[t] <= H[t])
  BY <1>2
<1> HIDE DEF F, H
<1> QED
  BY <1>3, <1>4, <1>5, <1>6 DEF Step

LEMMA TotalIsMonotone ==
  ASSUME NEW f \in [Browsers -> Nat], NEW h \in [Browsers -> Nat],
         \A b \in Browsers : f[b] <= h[b]
  PROVE  TotalOf(f) \in Nat /\ TotalOf(h) \in Nat /\ TotalOf(f) <= TotalOf(h)
BY SumIsMonotone, SumIsTotal

(* Changing the number of one browser changes the total by as much.        *)
LEMMA TotalChanges ==
  ASSUME NEW f \in [Browsers -> Nat], NEW b \in Browsers, NEW n \in Nat
  PROVE  TotalOf([f EXCEPT ![b] = n]) = TotalOf(f) + (n - f[b])
<1> DEFINE h == [f EXCEPT ![b] = n]
           s == Browsers \ {b}
<1>1. h \in [Browsers -> Nat] /\ h[b] = n /\ \A c \in s : h[c] = f[c] /\ f[c] \in Nat
  OBVIOUS
<1> HIDE DEF h
<1>2. SumOf(h)[s] = SumOf(f)[s]
  <2>1. \A c \in s : h[c] <= f[c] /\ f[c] <= h[c]
    BY <1>1
  <2>2. s \in SUBSET Browsers
    OBVIOUS
  <2> HIDE DEF s
  <2>3. SumOf(h)[s] <= SumOf(f)[s] /\ SumOf(f)[s] <= SumOf(h)[s]
    BY <1>1, <2>1, <2>2, SumIsMonotone
  <2>4. SumOf(h)[s] \in Nat /\ SumOf(f)[s] \in Nat
    BY <1>1, <2>2, SumIsTotal
  <2> QED
    BY <2>3, <2>4
<1>3. TotalOf(h) = n + SumOf(h)[s] /\ TotalOf(f) = f[b] + SumOf(f)[s]
  BY <1>1, SumWithout, SumIsTotal
<1>4. SumOf(f)[s] \in Nat /\ f[b] \in Nat
  BY SumIsTotal
<1> HIDE DEF s
<1>5. TotalOf(h) = TotalOf(f) + (n - f[b])
  BY <1>2, <1>3, <1>4
<1> QED
  BY <1>5 DEF h

LEMMA TotalOfZero == TotalOf(Zero) = 0
<1> DEFINE g == SumOf(Zero)
           T == {t \in SUBSET Browsers : g[t] # 0}
<1>1. Zero \in [Browsers -> Nat] /\ \A b \in Browsers : Zero[b] = 0
  BY DEF Zero
<1>2. /\ \A t \in SUBSET Browsers : g[t] = Step(Zero, g, t)
      /\ TotalOf(Zero) = g[Browsers]
  BY <1>1, SumIsTotal
<1> HIDE DEF g
<1>3. SUFFICES ASSUME T # {} PROVE FALSE
  BY <1>2
<1>4. PICK t \in T : \A u \in SUBSET t : u # t => u \notin T
  <2>1. T \in SUBSET SUBSET Browsers
    OBVIOUS
  <2> HIDE DEF T
  <2> QED
    BY <1>3, <2>1, LeastSubset
<1>5. t # {} => Zero[Least(t)] = 0 /\ g[Rest(t)] = 0
  BY <1>1, <1>4, RestIsLess
<1>6. g[t] = 0
  BY <1>2, <1>4, <1>5 DEF Step
<1> QED
  BY <1>4, <1>6

-----------------------------------------------------------------------------
(* What the counts depend on has its type.                                 *)
RecordTypes ==
  /\ unrecorded \in [Browsers -> Nat]
  /\ records \in [Browsers -> Nat]
  /\ summary \in [stopped : BOOLEAN, counted : Int]
  /\ stopSeen \in BOOLEAN
  /\ toCount \in SUBSET Browsers
  /\ mpc \in {"down", "poll", "count", "decide", "check", "returned", "raised"}

(* A record has a row and is one of an ID of its browser.                  *)
RowsFirst ==
  \A b \in Browsers : /\ records[b] + unrecorded[b] <= rows[b]
                      /\ records[b] + unrecorded[b] <= Share[b]

(* The count is what was read of all journals.                             *)
CountsOffsets == completed = TotalOf(offset)

(* Each journal that this poll has read counts for at least the records    *)
(* there were when the poll began.                                         *)
PollCovers ==
  /\ mpc = "decide" => toCount = {}
  /\ mpc \in {"count", "decide"} =>
       \E began \in [Browsers -> Nat] :
         /\ atPoll = TotalOf(began)
         /\ \A b \in Browsers : b \notin toCount => began[b] <= offset[b]
         /\ \A b \in Browsers : began[b] <= rows[b]

(* A summary counts no more records than there are now.                    *)
SummaryIsOld ==
  summary # NoSummary =>
    /\ summary.counted \in Nat /\ summary.counted <= TotalOf(records)
    /\ summary.stopped => stopSeen

CountInv ==
  /\ RecordTypes
  /\ RowsFirst
  /\ CountsOffsets
  /\ PollCovers
  /\ SummaryIsOld
  /\ StaysUntilDone

LEMMA InitCounts == Init => CountInv
<1> SUFFICES ASSUME Init PROVE CountInv
  OBVIOUS
<1> USE DEF Init
<1>1. RecordTypes
  <2>1. Zero \in [Browsers -> Nat]
    BY DEF Zero
  <2>2. NoSummary \in [stopped : BOOLEAN, counted : Int]
    BY DEF NoSummary
  <2> QED
    BY <2>1, <2>2 DEF RecordTypes
<1>2. RowsFirst
  BY MonitorAssumption DEF RowsFirst, Zero, MonitorAssumption
<1>3. CountsOffsets
  BY TotalOfZero DEF CountsOffsets
<1>4. PollCovers /\ SummaryIsOld /\ StaysUntilDone
  BY DEF PollCovers, SummaryIsOld, StaysUntilDone
<1> QED
  BY <1>1, <1>2, <1>3, <1>4 DEF CountInv

(* Rows and records only become more, and rows come first.                 *)
LEMMA RunGrows ==
  ASSUME LinesInv, RecordTypes, RowsFirst, RunStep
  PROVE  /\ rows' \in [Browsers -> Nat]
         /\ unrecorded' \in [Browsers -> Nat] /\ records' \in [Browsers -> Nat]
         /\ RowsFirst'
         /\ \A b \in Browsers : rows[b] <= rows'[b] /\ records[b] <= records'[b]
<1>1. /\ rows \in [Browsers -> Nat] /\ unrecorded \in [Browsers -> Nat]
      /\ records \in [Browsers -> Nat] /\ Share \in [Browsers -> Nat]
  BY MonitorAssumption DEF LinesInv, CountTypes, RecordTypes, MonitorAssumption
<1>2. ASSUME UNCHANGED <<rows, records>>, unrecorded' \in {unrecorded, Zero}
      PROVE  RowsFirst' /\ unrecorded' \in [Browsers -> Nat]
  BY <1>1, <1>2 DEF RowsFirst, Zero
<1>3. CASE Resume \/ EndAttempt \/ AttemptDies \/ \E b \in Browsers : SaveElapsed(b)
  BY <1>1, <1>2, <1>3 DEF Resume, EndAttempt, AttemptDies, SaveElapsed
<1>4. ASSUME NEW b \in Browsers, AppendRow(b)
      PROVE  /\ rows' \in [Browsers -> Nat] /\ unrecorded' \in [Browsers -> Nat]
             /\ records' = records /\ RowsFirst' /\ \A c \in Browsers : rows[c] <= rows'[c]
  BY <1>1, <1>4 DEF AppendRow, RowsFirst
<1>5. ASSUME NEW b \in Browsers, RecordIsDurable(b)
      PROVE  /\ records' \in [Browsers -> Nat] /\ unrecorded' \in [Browsers -> Nat]
             /\ rows' = rows /\ RowsFirst' /\ \A c \in Browsers : records[c] <= records'[c]
  BY <1>1, <1>5 DEF RecordIsDurable, RowsFirst
<1> QED
  BY <1>1, <1>3, <1>4, <1>5 DEF RunStep

(* No more records than IDs for each browser are no more in total.         *)
LEMMA WithinShares ==
  ASSUME NEW done \in [Browsers -> Nat], NEW coming \in [Browsers -> Nat],
         \A b \in Browsers : done[b] + coming[b] <= Share[b]
  PROVE  TotalOf(done) \in Nat /\ Total \in Nat /\ TotalOf(done) <= Total
<1>1. Share \in [Browsers -> Nat]
  BY MonitorAssumption DEF MonitorAssumption
<1>2. \A b \in Browsers : done[b] <= Share[b]
  BY <1>1
<1> QED
  BY <1>1, <1>2, TotalIsMonotone DEF Total

LEMMA RunStepKeepsCounts ==
  ASSUME LinesInv, CountInv, RunStep, UNCHANGED monitorVars
  PROVE  CountInv'
<1> USE DEF CountInv
<1>1. /\ rows \in [Browsers -> Nat] /\ records \in [Browsers -> Nat] /\ RowsFirst'
      /\ rows' \in [Browsers -> Nat] /\ unrecorded' \in [Browsers -> Nat]
      /\ records' \in [Browsers -> Nat]
      /\ \A b \in Browsers : rows[b] <= rows'[b] /\ records[b] <= records'[b]
  BY RunGrows DEF LinesInv, CountTypes, RecordTypes
<1>2. TotalOf(records) \in Nat /\ TotalOf(records') \in Nat /\ TotalOf(records) <= TotalOf(records')
  BY <1>1, TotalIsMonotone
<1>3. \/ UNCHANGED <<summary, stopSeen>>
      \/ \E stopped \in BOOLEAN :
           /\ summary' = [stopped |-> stopped, counted |-> TotalOf(records)]
           /\ stopSeen' = (stopSeen \/ stopped)
  BY DEF RunStep, Resume, EndAttempt, AttemptDies, AppendRow, RecordIsDurable, SaveElapsed
<1>4. stopSeen' \in BOOLEAN /\ (stopSeen => stopSeen')
  BY <1>3 DEF RecordTypes
<1>5. RecordTypes' /\ SummaryIsOld'
  <2>1. CASE UNCHANGED <<summary, stopSeen>>
    BY <1>1, <1>2, <2>1 DEF RecordTypes, SummaryIsOld, monitorVars
  <2>2. ASSUME NEW stopped \in BOOLEAN,
               summary' = [stopped |-> stopped, counted |-> TotalOf(records)],
               stopSeen' = (stopSeen \/ stopped)
        PROVE  RecordTypes' /\ SummaryIsOld'
    <3>1. summary' \in [stopped : BOOLEAN, counted : Int]
      BY <1>2, <2>2
    <3>2. RecordTypes'
      BY <1>1, <1>4, <3>1 DEF RecordTypes, monitorVars
    <3>3. SummaryIsOld'
      BY <1>2, <2>2 DEF SummaryIsOld
    <3> QED
      BY <3>2, <3>3
  <2> QED
    BY <1>3, <2>1, <2>2
<1>6. CountsOffsets'
  BY DEF CountsOffsets, monitorVars
<1>7. PollCovers'
  <2> USE DEF monitorVars
  <2>1. (mpc = "decide" => toCount = {})'
    BY DEF PollCovers
  <2>2. ASSUME mpc \in {"count", "decide"}
        PROVE  \E began \in [Browsers -> Nat] :
                 /\ atPoll' = TotalOf(began)
                 /\ \A b \in Browsers : b \notin toCount' => began[b] <= offset'[b]
                 /\ \A b \in Browsers : began[b] <= rows'[b]
    <3>1. PICK began \in [Browsers -> Nat] :
            /\ atPoll = TotalOf(began)
            /\ \A b \in Browsers : b \notin toCount => began[b] <= offset[b]
            /\ \A b \in Browsers : began[b] <= rows[b]
      BY <2>2 DEF PollCovers
    <3>2. \A b \in Browsers : began[b] <= rows'[b]
      BY <1>1, <3>1
    <3> QED
      BY <3>1, <3>2
  <2> QED
    BY <2>1, <2>2 DEF PollCovers
<1>8. StaysUntilDone'
  <2>1. mpc = "returned" => stopSeen \/ TotalOf(records) = Total
    BY DEF StaysUntilDone
  <2>2. TotalOf(records') <= Total /\ Total \in Nat
    BY <1>1, WithinShares DEF RowsFirst
  <2>3. TotalOf(records) = Total => TotalOf(records') = Total
    BY <1>2, <2>2
  <2> QED
    BY <1>4, <2>1, <2>3 DEF StaysUntilDone, monitorVars
<1> QED
  BY <1>1, <1>5, <1>6, <1>7, <1>8

(* One journal is read: the count and its offset grow by as much.          *)
LEMMA CountJournalKeeps ==
  ASSUME LinesInv, CountInv, NEW b \in Browsers, CountJournal(b), UNCHANGED runVars
  PROVE  CountInv'
<1> USE DEF CountInv
<1>1. /\ rows \in [Browsers -> Nat] /\ offset \in [Browsers -> Nat]
      /\ rows' = rows /\ mpc = "count" /\ mpc' = mpc /\ atPoll' = atPoll
      /\ toCount' = toCount \ {b}
      /\ offset' = [offset EXCEPT ![b] = rows[b]]
      /\ completed' = completed + (rows[b] - offset[b])
  BY DEF LinesInv, CountTypes, CountJournal, OffsetAfter, runVars
<1>2. RecordTypes' /\ RowsFirst' /\ SummaryIsOld' /\ StaysUntilDone'
  BY <1>1 DEF RecordTypes, RowsFirst, SummaryIsOld, StaysUntilDone, runVars
<1>3. CountsOffsets'
  <2>1. rows[b] \in Nat
    BY <1>1
  <2>2. TotalOf(offset') = TotalOf(offset) + (rows[b] - offset[b])
    BY <1>1, <2>1, TotalChanges
  <2> QED
    BY <1>1, <2>2 DEF CountsOffsets
<1>4. PollCovers'
  <2>1. PICK began \in [Browsers -> Nat] :
          /\ atPoll = TotalOf(began)
          /\ \A c \in Browsers : c \notin toCount => began[c] <= offset[c]
          /\ \A c \in Browsers : began[c] <= rows[c]
    BY <1>1 DEF PollCovers
  <2>2. \A c \in Browsers : c \notin toCount' => began[c] <= offset'[c]
    BY <1>1, <2>1
  <2> QED
    BY <1>1, <2>1, <2>2 DEF PollCovers
<1> QED
  BY <1>2, <1>3, <1>4

LEMMA MonitorStepKeepsCounts ==
  ASSUME LinesInv, CountInv, MonitorStep, UNCHANGED runVars
  PROVE  CountInv'
<1> USE DEF CountInv
<1>1. RowsFirst' /\ SummaryIsOld'
  BY DEF RowsFirst, SummaryIsOld, runVars
<1>2. Leave => CountsOffsets'
  BY TotalOfZero DEF Leave, CountsOffsets
<1>3. CASE Glob
  <2>1. RecordTypes'
    BY <1>3 DEF RecordTypes, Glob, JournalFiles, runVars
  <2>2. CountsOffsets' /\ StaysUntilDone'
    BY <1>3 DEF CountsOffsets, StaysUntilDone, Glob
  <2>3. PollCovers'
    <3>1. \A b \in Browsers : records[b] <= rows'[b]
      <4> SUFFICES ASSUME NEW b \in Browsers PROVE records[b] <= rows[b]
        BY DEF runVars
      <4>1. records[b] \in Nat /\ unrecorded[b] \in Nat /\ rows[b] \in Nat
        BY DEF RecordTypes, LinesInv, CountTypes
      <4>2. records[b] + unrecorded[b] <= rows[b]
        BY DEF RowsFirst
      <4> QED
        BY <4>1, <4>2
    <3>2. ASSUME mpc' = "count", NEW b \in Browsers, b \notin toCount'
          PROVE  records[b] <= offset'[b]
      <4>1. toCount' = JournalFiles /\ offset' = offset
        BY <1>3, <3>2 DEF Glob
      <4>2. rows[b] \in Nat /\ rows'[b] = rows[b] /\ records[b] \in Nat /\ offset[b] \in Nat
        BY DEF RecordTypes, LinesInv, CountTypes, runVars
      <4>3. rows[b] = 0
        BY <3>2, <4>1, <4>2 DEF JournalFiles
      <4> QED
        BY <3>1, <4>1, <4>2, <4>3
    <3>3. atPoll' = TotalOf(records) /\ mpc' # "decide" /\ records \in [Browsers -> Nat]
      BY <1>3 DEF Glob, RecordTypes
    <3>4. mpc' = "count" => \E began \in [Browsers -> Nat] :
            /\ atPoll' = TotalOf(began)
            /\ \A b \in Browsers : b \notin toCount' => began[b] <= offset'[b]
            /\ \A b \in Browsers : began[b] <= rows'[b]
      BY <3>1, <3>2, <3>3
    <3> QED
      BY <3>3, <3>4 DEF PollCovers
  <2> QED
    BY <1>1, <2>1, <2>2, <2>3
<1>4. CASE ReadProgress
  <2>1. RecordTypes' /\ CountsOffsets' /\ StaysUntilDone'
    BY <1>4 DEF RecordTypes, CountsOffsets, StaysUntilDone, ReadProgress, runVars
  <2>2. PollCovers'
    BY <1>4 DEF PollCovers, ReadProgress, runVars
  <2> QED
    BY <1>1, <2>1, <2>2
<1>5. CASE BelowMilestone \/ AppendMilestone \/ Sleep \/ StartMonitor \/ StartRaises
  <2>1. /\ mpc' \in {"poll", "check", "raised"}
        /\ UNCHANGED <<toCount, offset, completed>>
    BY <1>5 DEF BelowMilestone, AppendMilestone, Sleep, StartMonitor, StartRaises
  <2> QED
    BY <1>1, <2>1 DEF RecordTypes, CountsOffsets, PollCovers, StaysUntilDone, runVars
<1>6. CASE MonitorKilled \/ MilestoneTorn
  <2>1. Leave /\ mpc' = "down"
    BY <1>6 DEF MonitorKilled, MilestoneTorn
  <2> QED
    BY <1>1, <1>2, <2>1 DEF RecordTypes, PollCovers, StaysUntilDone, Leave, runVars
<1>7. CASE Return
  <2>1. Leave /\ mpc' = "returned" /\ Finished
    BY <1>7 DEF Return
  <2>2. stopSeen \/ TotalOf(records) = Total
    <3>1. summary # NoSummary /\ (summary.stopped \/ summary.counted = Total)
      BY <2>1 DEF Finished
    <3>2. summary.counted <= TotalOf(records) /\ (summary.stopped => stopSeen)
      BY <3>1 DEF SummaryIsOld
    <3>3. TotalOf(records) \in Nat /\ Total \in Nat /\ TotalOf(records) <= Total
      BY WithinShares DEF RecordTypes, RowsFirst
    <3> QED
      BY <3>1, <3>2, <3>3
  <2> QED
    BY <1>1, <1>2, <2>1, <2>2 DEF RecordTypes, PollCovers, StaysUntilDone, Leave, runVars
<1>8. CASE \E b \in Browsers : CountJournal(b)
  BY <1>8, CountJournalKeeps
<1> QED
  BY <1>3, <1>4, <1>5, <1>6, <1>7, <1>8 DEF MonitorStep, PollStep

(* At every step: the count is the sum of what was read, each journal read *)
(* covers the records of when the poll began, and a summary is never ahead *)
(* of the records.                                                         *)
THEOREM CountInvariant == Spec => []CountInv
<1>1. ASSUME LinesInv, CountInv, [Next]_vars PROVE CountInv'
  <2>1. CASE UNCHANGED vars
    BY <1>1, <2>1 DEF vars, runVars, monitorVars, fileVars, CountInv, RecordTypes, RowsFirst,
                      CountsOffsets, PollCovers, SummaryIsOld, StaysUntilDone
  <2> QED
    BY <1>1, <2>1, RunStepKeepsCounts, MonitorStepKeepsCounts DEF Next
<1> QED
  BY <1>1, InitCounts, LinesInvariant, PTL DEF Spec

(* The count a poll decides by lies between the records there were when it *)
(* began and the lines there are now.                                      *)
THEOREM CountsBetween == Spec => []CountBetween
<1>1. LinesInv /\ CountInv => CountBetween
  <2> SUFFICES ASSUME LinesInv, CountInv, mpc = "decide"
               PROVE  atPoll <= completed /\ completed <= TotalOf(rows)
    BY DEF CountBetween
  <2>1. PICK began \in [Browsers -> Nat] :
          /\ atPoll = TotalOf(began)
          /\ \A b \in Browsers : b \notin toCount => began[b] <= offset[b]
    BY DEF CountInv, PollCovers
  <2>2. \A b \in Browsers : began[b] <= offset[b]
    BY <2>1 DEF CountInv, PollCovers
  <2>3. /\ rows \in [Browsers -> Nat] /\ offset \in [Browsers -> Nat]
        /\ \A b \in Browsers : offset[b] <= rows[b]
    BY DEF LinesInv, CountTypes
  <2>4. TotalOf(began) <= TotalOf(offset) /\ TotalOf(offset) <= TotalOf(rows)
    BY <2>2, <2>3, TotalIsMonotone
  <2> QED
    BY <2>1, <2>4 DEF CountInv, CountsOffsets
<1> QED
  BY <1>1, LinesInvariant, CountInvariant, PTL

(* The monitor leaves a run that has IDs without a record only after some  *)
(* attempt has ended with a stop.                                          *)
THEOREM StaysToTheEnd == Spec => []StaysUntilDone
<1>1. CountInv => StaysUntilDone
  BY DEF CountInv
<1> QED
  BY <1>1, CountInvariant, PTL

=============================================================================
